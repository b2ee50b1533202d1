------------------------- MODULE MCLocalBlobStorage -------------------------
EXTENDS LocalBlobStorage, TLC

CONSTANTS small, large

Name(bucket, key) == [bucket |-> bucket, key |-> key]

\* A key, one below it, the same path by another bucket, one beside them, and
\* a name that is refused.
MCBlob == {Name(<<"a">>, <<"b">>), Name(<<"a">>, <<"b", "c">>),
           Name(<<"a", "b">>, <<"c">>), Name(<<"a">>, <<"d">>),
           Name(<<"a">>, <<"..", "d">>)}

MCChunks == small :> 1 @@ large :> 2

Symmetry == Permutations(File)
=============================================================================
