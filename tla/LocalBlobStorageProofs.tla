----------------------- MODULE LocalBlobStorageProofs -----------------------
(***************************************************************************)
(* Proofs about LocalBlobStorage, for any names, data and streams.  Both   *)
(* properties rest on files being under one path each (FilesOK) and on     *)
(* what a stream still has before it (StreamsOK).                          *)
(***************************************************************************)
EXTENDS LocalBlobStorage, SequenceTheorems, TLAPS

\* A file is under one path, and has something in it.
FilesOK ==
    \A p \in Paths : IsFile(p) =>
        /\ content[tree[p]] \in Content
        /\ \A q \in Paths : tree[q] = tree[p] => q = p

StoredOK ==
    \A p \in Paths : stored[p] # None =>
        IsFile(p) /\ content[tree[p]] = Full(stored[p])

\* The first n chunks of d.
First(d, n) == [i \in 1..n |-> <<d, i>>]

\* What get found for s is under the path until s opens it, is in the file s
\* has open from then on, and s has yielded its beginning.
StreamOK(s) ==
    /\ pc[s] = "idle" => promise[s] = None /\ out[s] = <<>>
    /\ pc[s] = "got" => path[s] \in Paths /\ out[s] = <<>>
    /\ pc[s] = "reading" => file[s] \in File /\ content[file[s]] \in Content
    /\ promise[s] # None =>
          /\ pc[s] = "got" =>
                \/ promise[s] = Dir /\ tree[path[s]] = Dir
                \/ IsFile(path[s]) /\ content[tree[path[s]]] = promise[s]
          /\ pc[s] = "reading" =>
                /\ content[file[s]] = promise[s]
                /\ out[s] = First(promise[s].data, Len(out[s]))
                /\ Len(out[s]) <= promise[s].len
          /\ pc[s] = "done" => out[s] = First(promise[s].data, promise[s].len)
          /\ pc[s] = "failed" => promise[s] = Dir

StreamsOK == \A s \in Stream : StreamOK(s)

BInv == TypeOK /\ FilesOK /\ StoredOK /\ StreamsOK

-----------------------------------------------------------------------------
(* Names, contents and chunks.                                             *)

LEMMA PathsAreWalked ==
  ASSUME NEW b \in Blob, Valid(b)
  PROVE  Path(b) \in Paths
<1> DEFINE S == Range(b.bucket) \cup Range(b.key)
           P == Path(b)
<1>1. b.bucket \in Seq(S) /\ b.key \in Seq(S) /\ b.bucket # <<>>
  BY BlobAssumption DEF Valid, ValidPart
<1>2. P = b.bucket \o b.key
  BY DEF Path
<1> HIDE DEF S, P
<1>3. P \in Seq(S) /\ Len(P) = Len(b.bucket) + Len(b.key)
  BY <1>1, <1>2, ConcatProperties
<1>4. Len(b.bucket) \in Nat \ {0} /\ Len(b.key) \in Nat
  BY <1>1, EmptySeq, LenProperties
<1>5. Len(P) \in Nat \ {0}
  <2>1. \A m \in Nat \ {0}, n \in Nat : m + n \in Nat \ {0}
    OBVIOUS
  <2> QED
    BY <1>3, <1>4, <2>1, Zenon
<1>6. P # <<>>
  <2>1. Len(<<>>) = 0
    OBVIOUS
  <2> QED
    BY <1>5, <2>1
<1>7. P \in Prefixes(P)
  <2>1. Len(P) \in 0..Len(P)
    BY <1>5
  <2>2. SubSeq(P, 1, Len(P)) = P
    BY <1>3, SubSeqFull
  <2> QED
    BY <2>1, <2>2, Zenon DEF Prefixes
<1>8. Prefixes(P) \in {Prefixes(Path(x)) : x \in {y \in Blob : Valid(y)}}
  BY DEF P
<1>9. P \in UNION {Prefixes(Path(x)) : x \in {y \in Blob : Valid(y)}}
  BY <1>7, <1>8
<1>10. P \in Paths
  BY <1>6, <1>9, Zenon DEF Paths
<1> QED
  BY <1>10 DEF P

LEMMA ContentForm ==
  ASSUME NEW c
  PROVE  c \in Content
           <=> \E d \in Data : \E n \in 0..Chunks[d] : c = [data |-> d, len |-> n]
BY DEF Content

LEMMA ContentParts ==
  ASSUME NEW c \in Content
  PROVE  c.data \in Data /\ c.len \in Nat
BY ContentForm, SizeAssumption

LEMMA FullIsContent ==
  ASSUME NEW d \in Data
  PROVE  Full(d) \in Content
BY ContentForm, SizeAssumption DEF Full

LEMMA FirstChunks ==
  ASSUME NEW d, NEW n \in Nat
  PROVE  /\ First(d, 0) = <<>>
         /\ Len(First(d, n)) = n
         /\ Append(First(d, n), <<d, n + 1>>) = First(d, n + 1)
<1>1. Len(First(d, n)) = n
  BY DEF First
<1>2. First(d, n) \in Seq({<<d, i>> : i \in 1..n})
  BY DEF First
<1>3. Append(First(d, n), <<d, n + 1>>)
        = [i \in 1..(n + 1) |-> IF i <= n THEN First(d, n)[i] ELSE <<d, n + 1>>]
  BY <1>1, <1>2
<1>4. Append(First(d, n), <<d, n + 1>>) = First(d, n + 1)
  BY <1>3 DEF First
<1>5. First(d, 0) = <<>>
  BY DEF First
<1> QED
  BY <1>1, <1>4, <1>5

-----------------------------------------------------------------------------
(* The invariant.                                                          *)

LEMMA InvInit == Init => BInv
BY NullsAssumption
   DEF Init, BInv, TypeOK, FilesOK, StoredOK, StreamsOK, StreamOK, IsFile
\* A put, complete (v is what was put) or cut short (v is None).
LEMMA WriteKeeps ==
  ASSUME BInv, NEW p \in Paths, NEW f \in File, NEW c \in Content,
         NEW v \in Data \cup {None}, v # None => c = Full(v),
         ~Conflict(p), Opens(p, f), Write(p, f, c),
         stored' = [stored EXCEPT ![p] = v],
         UNCHANGED streams
  PROVE  BInv'
<1> USE NullsAssumption DEF BInv, Write, streams
<1>1. /\ tree' = [q \in Paths |-> IF q = p THEN f
                                  ELSE IF q \in Parents(p) THEN Dir ELSE tree[q]]
      /\ content' = [content EXCEPT ![f] = c]
      /\ pc' = pc /\ path' = path /\ file' = file /\ out' = out
  OBVIOUS
<1>2. TypeOK'
  BY DEF TypeOK, Disturb
<1>3. \A q \in Paths \ {p} : tree[q] # f
  BY DEF TypeOK, Opens, FreshFile, FilesOK, IsFile
<1>4. \A q \in Paths \ {p} : IsFile(q)' <=> IsFile(q) /\ tree'[q] = tree[q]
  BY <1>1 DEF Conflict, IsFile
<1>5. \A q \in Paths \ {p} : IsFile(q) => tree'[q] = tree[q]
  BY <1>1 DEF Conflict, IsFile
<1>6. \A q \in Paths \ {p} : IsFile(q)
        => IsFile(q)' /\ content'[tree'[q]] = content[tree[q]]
  BY <1>1, <1>3, <1>5 DEF TypeOK, IsFile
<1>7. tree'[p] = f /\ IsFile(p)' /\ content'[f] = c
  BY <1>1 DEF TypeOK, IsFile
<1>8. FilesOK'
  <2> SUFFICES ASSUME NEW q \in Paths, IsFile(q)'
               PROVE  /\ content'[tree'[q]] \in Content
                      /\ \A r \in Paths : tree'[r] = tree'[q] => r = q
    BY DEF FilesOK
  <2>1. CASE q = p
    <3>1. \A r \in Paths \ {p} : tree'[r] # f
      BY <1>1, <1>3
    <3> QED
      BY <2>1, <3>1, <1>7
  <2>2. CASE q # p
    <3>1. IsFile(q) /\ tree'[q] = tree[q] /\ tree[q] \in File
      BY <2>2, <1>4 DEF IsFile
    <3>2. content'[tree'[q]] \in Content
      BY <2>2, <3>1, <1>6 DEF FilesOK
    <3>3. \A r \in Paths : tree'[r] = tree[q] => r = q
      BY <2>2, <3>1, <1>1, <1>3 DEF FilesOK
    <3> QED
      BY <3>1, <3>2, <3>3
  <2> QED
    BY <2>1, <2>2
<1>9. StoredOK'
  BY <1>6, <1>7 DEF TypeOK, StoredOK
<1>10. StreamsOK'
  <2> SUFFICES ASSUME NEW s \in Stream
               PROVE  StreamOK(s)'
    BY DEF StreamsOK
  <2>1. promise'[s] = IF \/ pc[s] = "got" /\ path[s] = p
                         \/ pc[s] = "reading" /\ file[s] = f
                      THEN None ELSE promise[s]
    BY DEF Disturb
  <2>2. CASE pc[s] = "got"
    <3>1. path[s] # p /\ promise[s] = Dir /\ tree[path[s]] = Dir
            => tree'[path[s]] = Dir
      BY <2>2, <1>1 DEF StreamsOK, StreamOK
    <3> QED
      BY <2>1, <2>2, <3>1, <1>1, <1>6 DEF StreamsOK, StreamOK
  <2>3. CASE pc[s] = "reading"
    <3>1. content'[file[s]] = IF file[s] = f THEN c ELSE content[file[s]]
      BY <2>3, <1>1 DEF TypeOK, StreamsOK, StreamOK
    <3> QED
      BY <2>1, <2>3, <3>1, <1>1 DEF StreamsOK, StreamOK
  <2>4. CASE pc[s] \notin {"got", "reading"}
    BY <2>1, <2>4, <1>1 DEF StreamsOK, StreamOK
  <2> QED
    BY <2>2, <2>3, <2>4
<1> QED
  BY <1>2, <1>8, <1>9, <1>10

LEMMA PutKeeps ==
  ASSUME BInv, NEW b \in Blob, NEW d \in Data, Put(b, d) \/ PutTorn(b, d)
  PROVE  BInv'
<1>1. Valid(b) /\ ~Conflict(Path(b)) /\ Path(b) \in Paths
  BY PathsAreWalked DEF Put, PutTorn
<1>2. CASE Put(b, d)
  <2>1. PICK f \in File : Opens(Path(b), f) /\ Write(Path(b), f, Full(d))
    BY <1>2 DEF Put
  <2> QED
    BY <1>1, <1>2, <2>1, FullIsContent, WriteKeeps DEF Put
<1>3. CASE PutTorn(b, d)
  <2>1. PICK f \in File, n \in 0..(Chunks[d] - 1) :
             Opens(Path(b), f) /\ Write(Path(b), f, [data |-> d, len |-> n])
    BY <1>3 DEF PutTorn
  <2>2. [data |-> d, len |-> n] \in Content
    BY ContentForm, SizeAssumption
  <2>3. stored' = [stored EXCEPT ![Path(b)] = None] /\ UNCHANGED streams
    BY <1>3 DEF PutTorn
  <2> QED
    BY <1>1, <2>1, <2>2, <2>3, WriteKeeps
<1> QED
  BY <1>2, <1>3

LEMMA DeleteKeeps ==
  ASSUME BInv, NEW b \in Blob, Delete(b)
  PROVE  BInv'
<1> DEFINE p == Path(b)
<1>1. p \in Paths /\ IsFile(p)
  BY PathsAreWalked DEF Delete
<1>2. /\ tree' = [tree EXCEPT ![p] = Absent]
      /\ stored' = [stored EXCEPT ![p] = None]
      /\ Disturb(p, None)
      /\ content' = content
      /\ pc' = pc /\ path' = path /\ file' = file /\ out' = out
  BY DEF Delete, streams
<1> HIDE DEF p
<1> USE NullsAssumption DEF BInv
<1>3. TypeOK'
  BY <1>1, <1>2 DEF TypeOK, Disturb
<1>4. FilesOK' /\ StoredOK'
  BY <1>1, <1>2 DEF TypeOK, FilesOK, StoredOK, IsFile
<1>5. StreamsOK'
  <2> SUFFICES ASSUME NEW s \in Stream
               PROVE  StreamOK(s)'
    BY DEF StreamsOK
  <2>1. promise'[s] = IF \/ pc[s] = "got" /\ path[s] = p
                         \/ pc[s] = "reading" /\ file[s] = None
                      THEN None ELSE promise[s]
    BY <1>2 DEF Disturb
  <2>2. \A q \in Paths \ {p} : tree'[q] = tree[q]
    BY <1>2 DEF TypeOK
  <2> QED
    BY <1>2, <2>1, <2>2 DEF StreamsOK, StreamOK, IsFile
<1> QED
  BY <1>3, <1>4, <1>5

LEMMA GetKeeps ==
  ASSUME BInv, NEW s \in Stream, NEW b \in Blob, Get(s, b)
  PROVE  BInv'
<1> DEFINE p == Path(b)
<1>1. p \in Paths /\ tree[p] # Absent /\ pc[s] = "idle"
  BY PathsAreWalked DEF Get
<1>2. /\ pc' = [pc EXCEPT ![s] = "got"]
      /\ path' = [path EXCEPT ![s] = p]
      /\ promise' = [promise EXCEPT ![s] =
                        IF IsFile(p) THEN content[tree[p]] ELSE Dir]
      /\ tree' = tree /\ content' = content /\ stored' = stored
      /\ file' = file /\ out' = out
  BY DEF Get
<1> HIDE DEF p
<1> USE NullsAssumption DEF BInv
<1>3. \/ IsFile(p) /\ content[tree[p]] \in Content
      \/ ~IsFile(p) /\ tree[p] = Dir
  BY <1>1 DEF TypeOK, FilesOK, IsFile
<1>4. TypeOK'
  BY <1>1, <1>2, <1>3 DEF TypeOK
<1>5. FilesOK' /\ StoredOK'
  BY <1>2 DEF FilesOK, StoredOK, IsFile
<1>6. StreamsOK'
  BY <1>1, <1>2, <1>3 DEF TypeOK, StreamsOK, StreamOK, IsFile
<1> QED
  BY <1>4, <1>5, <1>6

\* A step that reads from the content c of the file the stream has open.
LEMMA ReadFromKeeps ==
  ASSUME BInv, NEW s \in Stream, NEW f \in File, content[f] \in Content,
         \/ pc[s] = "reading" /\ file[s] = f
         \/ pc[s] = "got" /\ (promise[s] # None => content[f] = promise[s]),
         file' = [file EXCEPT ![s] = f],
         ReadFrom(s, content[f]),
         UNCHANGED <<tree, content, stored, path, promise>>
  PROVE  BInv'
<1> DEFINE c == content[f]
           n == Len(out[s])
<1> USE NullsAssumption DEF BInv
<1>1. c.data \in Data /\ c.len \in Nat /\ n \in Nat
      /\ out[s] \in Seq(Data \X Nat)
  BY ContentParts, LenProperties DEF TypeOK
<1>2. promise[s] # None =>
        promise[s] = c /\ out[s] = First(c.data, n) /\ n <= c.len
  <2>1. CASE pc[s] = "reading"
    BY <2>1 DEF StreamsOK, StreamOK
  <2>2. CASE pc[s] = "got"
    <3>1. out[s] = <<>> /\ n = 0
      BY <2>2 DEF StreamsOK, StreamOK
    <3> QED
      BY <1>1, <2>2, <3>1, FirstChunks
  <2> QED
    BY <2>1, <2>2
<1>3. FilesOK' /\ StoredOK'
  BY DEF FilesOK, StoredOK, IsFile
<1>4. \A r \in Stream \ {s} :
        pc'[r] = pc[r] /\ out'[r] = out[r] /\ file'[r] = file[r]
  BY DEF TypeOK, ReadFrom
<1>5. \A r \in Stream \ {s} : StreamOK(r)'
  BY <1>4 DEF StreamsOK, StreamOK, IsFile
<1>6. file'[s] = f
  BY DEF TypeOK
<1>7. CASE n < c.len
  <2>1. /\ out' = [out EXCEPT ![s] = Append(@, <<c.data, n + 1>>)]
        /\ pc' = [pc EXCEPT ![s] = "reading"]
    BY <1>1, <1>7 DEF ReadFrom
  <2>2. Append(out[s], <<c.data, n + 1>>) \in Seq(Data \X Nat)
    BY <1>1
  <2>3. TypeOK'
    BY <2>1, <2>2 DEF TypeOK
  <2>4. pc'[s] = "reading" /\ out'[s] = Append(out[s], <<c.data, n + 1>>)
    BY <2>1 DEF TypeOK
  <2>5. Len(out'[s]) = n + 1
    BY <1>1, <2>4
  <2>6. promise[s] # None => out'[s] = First(c.data, n + 1)
    BY <1>1, <1>2, <2>4, FirstChunks
  <2>7. StreamOK(s)'
    <3>1. /\ content'[file'[s]] = c /\ file'[s] \in File /\ c \in Content
          /\ promise'[s] = promise[s] /\ n + 1 <= c.len
      BY <1>1, <1>6, <1>7
    <3>2. promise[s] # None => out'[s] = First(promise[s].data, Len(out'[s]))
      BY <1>2, <2>5, <2>6
    <3> HIDE DEF c, n
    <3> QED
      BY <1>2, <2>4, <2>5, <3>1, <3>2 DEF StreamOK
  <2> QED
    BY <1>3, <1>5, <2>3, <2>7 DEF StreamsOK
<1>8. CASE ~(n < c.len)
  <2>1. out' = out /\ pc' = [pc EXCEPT ![s] = "done"]
    BY <1>1, <1>8 DEF ReadFrom
  <2>2. TypeOK'
    BY <2>1 DEF TypeOK
  <2>3. pc'[s] = "done" /\ out'[s] = out[s]
    BY <2>1 DEF TypeOK
  <2>4. promise[s] # None => n = c.len
    BY <1>1, <1>2, <1>8
  <2>5. StreamOK(s)'
    BY <1>2, <2>3, <2>4 DEF StreamOK
  <2> QED
    BY <1>3, <1>5, <2>2, <2>5 DEF StreamsOK
<1> QED
  BY <1>7, <1>8

LEMMA OpenKeeps ==
  ASSUME BInv, NEW s \in Stream, Open(s)
  PROVE  BInv'
<1> USE NullsAssumption DEF BInv
<1>1. pc[s] = "got" /\ path[s] \in Paths
  BY DEF Open, StreamsOK, StreamOK
<1>2. CASE IsFile(path[s])
  <2> DEFINE f == tree[path[s]]
  <2>1. /\ f \in File /\ content[f] \in Content
        /\ promise[s] # None => content[f] = promise[s]
    BY <1>1, <1>2 DEF FilesOK, StreamsOK, StreamOK, IsFile
  <2>2. /\ file' = [file EXCEPT ![s] = f]
        /\ ReadFrom(s, content[f])
        /\ UNCHANGED <<tree, content, stored, path, promise>>
    BY <1>2 DEF Open
  <2> HIDE DEF f
  <2> QED
    BY <1>1, <2>1, <2>2, ReadFromKeeps
<1>3. CASE ~IsFile(path[s])
  <2>1. /\ pc' = [pc EXCEPT ![s] = "failed"]
        /\ UNCHANGED <<tree, content, stored, path, promise, file, out>>
    BY <1>3 DEF Open
  <2>2. TypeOK' /\ FilesOK' /\ StoredOK'
    BY <2>1 DEF TypeOK, FilesOK, StoredOK, IsFile
  <2>3. StreamsOK'
    BY <1>1, <1>3, <2>1 DEF TypeOK, StreamsOK, StreamOK, IsFile
  <2> QED
    BY <2>2, <2>3
<1> QED
  BY <1>2, <1>3

LEMMA ReadKeeps ==
  ASSUME BInv, NEW s \in Stream, Read(s)
  PROVE  BInv'
<1> DEFINE f == file[s]
<1>1. pc[s] = "reading" /\ f \in File /\ content[f] \in Content
  BY DEF BInv, StreamsOK, StreamOK, Read
<1>2. file' = [file EXCEPT ![s] = f]
  BY DEF BInv, TypeOK, Read
<1>3. ReadFrom(s, content[f]) /\ UNCHANGED <<tree, content, stored, path, promise>>
  BY DEF Read
<1>4. file[s] = f
  OBVIOUS
<1> HIDE DEF f
<1> QED
  BY <1>1, <1>2, <1>3, <1>4, ReadFromKeeps

LEMMA CloseKeeps ==
  ASSUME BInv, NEW s \in Stream, Close(s)
  PROVE  BInv'
BY NullsAssumption
   DEF BInv, TypeOK, FilesOK, StoredOK, StreamsOK, StreamOK, IsFile, Close

-----------------------------------------------------------------------------
THEOREM StorageInvariant == Spec => []BInv
<1>1. ASSUME BInv, [Next]_vars PROVE BInv'
  <2>1. ASSUME NEW b \in Blob, NEW d \in Data, Put(b, d) \/ PutTorn(b, d)
        PROVE  BInv'
    BY <1>1, <2>1, PutKeeps
  <2>2. ASSUME NEW b \in Blob,
               Delete(b) \/ (\E s \in Stream : Get(s, b))
        PROVE  BInv'
    BY <1>1, <2>2, DeleteKeeps, GetKeeps
  <2>3. ASSUME NEW s \in Stream, Open(s) \/ Read(s) \/ Close(s)
        PROVE  BInv'
    BY <1>1, <2>3, OpenKeeps, ReadKeeps, CloseKeeps
  <2>4. CASE UNCHANGED vars
    BY <1>1, <2>4 DEF vars, BInv, TypeOK, FilesOK, StoredOK, StreamsOK,
                      StreamOK, IsFile
  <2>5. ASSUME NEW b \in Blob, Refuse(b) PROVE UNCHANGED vars
    BY <2>5 DEF Refuse
  <2> QED
    BY <1>1, <2>1, <2>2, <2>3, <2>4, <2>5 DEF Next
<1> QED
  BY InvInit, <1>1, PTL DEF Spec

\* The files, directories and streams keep their types.
THEOREM StorageTyped == Spec => []TypeOK
BY StorageInvariant, PTL DEF BInv

\* Whatever is put, half-written or deleted under other names, a stored blob
\* is whole and is its own.
THEOREM BlobsStand == Spec => []StoredBlobsStand
<1>1. BInv => StoredBlobsStand
  BY DEF BInv, FilesOK, StoredOK, StoredBlobsStand
<1> QED
  BY StorageInvariant, <1>1, PTL

\* A stream nobody has disturbed yields what get found, whole and in order.
THEOREM UndisturbedStreamsAreWhole == Spec => []StreamsAreWhole
<1>1. BInv => StreamsAreWhole
  BY DEF BInv, StreamsOK, StreamOK, StreamsAreWhole, First
<1> QED
  BY StorageInvariant, <1>1, PTL
=============================================================================
