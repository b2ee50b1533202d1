--------------------------- MODULE LocalBlobStorage ---------------------------
(***************************************************************************)
(* The blob storage of app/infrastructure/storage/local.py: blobs are      *)
(* files under base_path, and a blob is read as a stream that the caller   *)
(* draws chunk by chunk while other requests put and delete.               *)
(*                                                                         *)
(* put and delete do not wait, so each is one step.  get looks whether the *)
(* path exists and returns a generator; the file is opened by the          *)
(* generator's first step, and every further chunk is a step of its own.   *)
(* A blob's bytes are the number of its chunks of 64 KiB and the data they *)
(* come from.                                                              *)
(***************************************************************************)
EXTENDS Integers, SequencesExt

CONSTANTS
    Blob,       \* [bucket, key] as callers give them, split at "/"
    BadSegment, \* segments _validate_path refuses
    Data,       \* what is put
    Chunks,     \* Chunks[d]: number of chunks of d
    Stream,     \* slots for streams
    File,       \* files of the file system (inodes)
    Absent,     \* there is nothing under a path
    Dir,        \* there is a directory
    None

ASSUME BlobAssumption ==
    \A b \in Blob : /\ b.bucket \in Seq(Range(b.bucket))
                    /\ b.key \in Seq(Range(b.key))

ASSUME SizeAssumption == Chunks \in [Data -> Nat]

\* <bucket>/<key>, resolved against base_path: nothing marks where the
\* bucket ends.
Path(b) == b.bucket \o b.key

\* Segments joined by "/" that _validate_path accepts.
ValidPart(part) == part # <<>> /\ \A i \in DOMAIN part : part[i] \notin BadSegment

Valid(b) == ValidPart(b.bucket) /\ ValidPart(b.key)

Paths == (UNION {Prefixes(Path(b)) : b \in {x \in Blob : Valid(x)}}) \ {<<>>}

Parents(p) == {q \in Paths : IsStrictPrefix(q, p)}

\* What is in a file: the first len chunks of data.
Content == UNION {[data : {d}, len : 0..Chunks[d]] : d \in Data}

Full(d) == [data |-> d, len |-> Chunks[d]]

ASSUME NullsAssumption ==
    /\ Absent # Dir
    /\ Absent \notin File /\ Dir \notin File
    /\ None \notin File \cup Data \cup Content \cup {Dir}
    /\ Dir \notin Content

VARIABLES
    tree,    \* what is under each path
    content, \* what is in each file
    stored,  \* data of the last put under a path that returned a BlobRef
    pc,      \* what a stream is doing
    path,    \* the path it was made for
    file,    \* the file it has open
    out,     \* the chunks it has yielded: <<data, position>>
    promise  \* what get found, while nobody has written or deleted it

vars == <<tree, content, stored, pc, path, file, out, promise>>

streams == <<pc, path, file, out>>

Init ==
    /\ tree = [p \in Paths |-> Absent]
    /\ content = [f \in File |-> None]
    /\ stored = [p \in Paths |-> None]
    /\ pc = [s \in Stream |-> "idle"]
    /\ path = [s \in Stream |-> None]
    /\ file = [s \in Stream |-> None]
    /\ out = [s \in Stream |-> <<>>]
    /\ promise = [s \in Stream |-> None]

-----------------------------------------------------------------------------
(* The file system.                                                        *)

IsFile(p) == tree[p] \in File

\* A file above p, or a directory at p: mkdir, open and unlink raise.
Conflict(p) == tree[p] = Dir \/ \E q \in Parents(p) : IsFile(q)

\* A file that is under no path and open in no stream.
FreshFile(f) ==
    /\ \A p \in Paths : tree[p] # f
    /\ \A s \in Stream : file[s] # f

\* The file open(path, "wb") gives: the one that is there, or a new one.
Opens(p, f) == IF IsFile(p) THEN tree[p] = f ELSE FreshFile(f)

\* Streams that have found p and not opened it, or have opened file f, are
\* not bound any more to what get found.
Disturb(p, f) ==
    promise' = [s \in Stream |->
        IF \/ pc[s] = "got" /\ path[s] = p
           \/ pc[s] = "reading" /\ file[s] = f
        THEN None ELSE promise[s]]

\* mkdir(parents=True), then open(path, "wb") and write.
Write(p, f, c) ==
    /\ tree' = [q \in Paths |-> IF q = p THEN f
                                ELSE IF q \in Parents(p) THEN Dir
                                ELSE tree[q]]
    /\ content' = [content EXCEPT ![f] = c]
    /\ Disturb(p, f)

-----------------------------------------------------------------------------
(* put                                                                     *)

\* Mutant: the file is opened to append.
PutAppends(b, d) ==
    /\ Valid(b)
    /\ ~Conflict(Path(b))
    /\ \E f \in File :
          /\ Opens(Path(b), f)
          /\ LET old == IF IsFile(Path(b)) THEN content[f].len ELSE 0
             IN  Write(Path(b), f, [data |-> d, len |-> old + Chunks[d]])
    /\ stored' = [stored EXCEPT ![Path(b)] = d]
    /\ UNCHANGED streams

Put(b, d) ==
    /\ Valid(b)
    /\ ~Conflict(Path(b))
    /\ \E f \in File : Opens(Path(b), f) /\ Write(Path(b), f, Full(d))
    /\ stored' = [stored EXCEPT ![Path(b)] = d]
    /\ UNCHANGED streams

\* The write fails half-way, or the process dies in it: the file has been
\* truncated before, so what was there is gone.
PutTorn(b, d) ==
    /\ Valid(b)
    /\ ~Conflict(Path(b))
    /\ \E f \in File, n \in 0..(Chunks[d] - 1) :
          /\ Opens(Path(b), f)
          /\ Write(Path(b), f, [data |-> d, len |-> n])
    /\ stored' = [stored EXCEPT ![Path(b)] = None]
    /\ UNCHANGED streams

-----------------------------------------------------------------------------
(* delete                                                                  *)

\* Mutant: the file is emptied, not unlinked.
DeleteByTruncating(b) ==
    /\ Valid(b)
    /\ IsFile(Path(b))
    /\ content' = [content EXCEPT ![tree[Path(b)]].len = 0]
    /\ tree' = [tree EXCEPT ![Path(b)] = Absent]
    /\ stored' = [stored EXCEPT ![Path(b)] = None]
    /\ Disturb(Path(b), None)
    /\ UNCHANGED streams

\* Mutant: the bucket is removed with the blob.
DeleteBucket(b) ==
    /\ Valid(b)
    /\ IsFile(Path(b))
    /\ tree' = [p \in Paths |->
                  IF IsPrefix(b.bucket, p) THEN Absent ELSE tree[p]]
    /\ stored' = [stored EXCEPT ![Path(b)] = None]
    /\ Disturb(Path(b), None)
    /\ UNCHANGED <<content, streams>>

\* unlink: streams that have the file open keep it.  Directories stay.
Delete(b) ==
    /\ Valid(b)
    /\ IsFile(Path(b))
    /\ tree' = [tree EXCEPT ![Path(b)] = Absent]
    /\ stored' = [stored EXCEPT ![Path(b)] = None]
    /\ Disturb(Path(b), None)
    /\ UNCHANGED <<content, streams>>

-----------------------------------------------------------------------------
(* get                                                                     *)

\* Something is under the path: a generator is made, and nothing opened.
Get(s, b) ==
    /\ pc[s] = "idle"
    /\ Valid(b)
    /\ tree[Path(b)] # Absent
    /\ pc' = [pc EXCEPT ![s] = "got"]
    /\ path' = [path EXCEPT ![s] = Path(b)]
    /\ promise' = [promise EXCEPT ![s] =
                      IF IsFile(Path(b)) THEN content[tree[Path(b)]] ELSE Dir]
    /\ UNCHANGED <<tree, content, stored, file, out>>

\* f.read(64 * 1024) at the position the stream has come to: a chunk is
\* yielded, or the end of the file ends the stream.
ReadFrom(s, c) ==
    \/ /\ Len(out[s]) < c.len
       /\ out' = [out EXCEPT ![s] = Append(@, <<c.data, Len(@) + 1>>)]
       /\ pc' = [pc EXCEPT ![s] = "reading"]
    \/ /\ Len(out[s]) >= c.len
       /\ pc' = [pc EXCEPT ![s] = "done"]
       /\ UNCHANGED out

\* The first step of _stream: open, which raises if the blob has gone or is
\* a directory, and the first read.
Open(s) ==
    /\ pc[s] = "got"
    /\ \/ /\ IsFile(path[s])
          /\ file' = [file EXCEPT ![s] = tree[path[s]]]
          /\ ReadFrom(s, content[tree[path[s]]])
       \/ /\ ~IsFile(path[s])
          /\ pc' = [pc EXCEPT ![s] = "failed"]
          /\ UNCHANGED <<file, out>>
    /\ UNCHANGED <<tree, content, stored, path, promise>>

Read(s) ==
    /\ pc[s] = "reading"
    /\ ReadFrom(s, content[file[s]])
    /\ UNCHANGED <<tree, content, stored, path, file, promise>>

\* The stream has ended, or its caller drops it.
Close(s) ==
    /\ pc[s] # "idle"
    /\ pc' = [pc EXCEPT ![s] = "idle"]
    /\ path' = [path EXCEPT ![s] = None]
    /\ file' = [file EXCEPT ![s] = None]
    /\ out' = [out EXCEPT ![s] = <<>>]
    /\ promise' = [promise EXCEPT ![s] = None]
    /\ UNCHANGED <<tree, content, stored>>

\* Calls that raise or find nothing to do: a name that is not valid, a put
\* or delete that meets a file above or a directory, a get or delete of a
\* blob that is not there.
Refuse(b) ==
    /\ Valid(b) => Conflict(Path(b)) \/ tree[Path(b)] = Absent
    /\ UNCHANGED vars

Next ==
    \/ \E b \in Blob :
          \/ \E d \in Data : Put(b, d) \/ PutTorn(b, d)
          \/ Delete(b)
          \/ Refuse(b)
          \/ \E s \in Stream : Get(s, b)
    \/ \E s \in Stream : Open(s) \/ Read(s) \/ Close(s)

Spec == Init /\ [][Next]_vars

-----------------------------------------------------------------------------
(* Properties.                                                             *)

TypeOK ==
    /\ tree \in [Paths -> File \cup {Absent, Dir}]
    /\ content \in [File -> Content \cup {None}]
    /\ stored \in [Paths -> Data \cup {None}]
    /\ pc \in [Stream -> {"idle", "got", "reading", "done", "failed"}]
    /\ path \in [Stream -> Paths \cup {None}]
    /\ file \in [Stream -> File \cup {None}]
    /\ out \in [Stream -> Seq(Data \X Nat)]
    /\ promise \in [Stream -> Content \cup {None, Dir}]

\* Whoever was given a BlobRef finds the whole of what was put, and no
\* other name's data, until that path is put again or deleted: no other put,
\* failed put or delete, of names beside, above or below it, takes it away.
StoredBlobsStand ==
    \A p \in Paths : stored[p] # None =>
        /\ IsFile(p)
        /\ content[tree[p]] = Full(stored[p])
        /\ \A q \in Paths \ {p} : tree[q] # tree[p]

\* A stream yields exactly what get found, from its first chunk to its last,
\* if nobody put or deleted the blob before the first chunk was drawn, and
\* nobody put it after; a delete after that, and even another blob put under
\* the name then, do not reach the stream.  It raises only if get had found a
\* directory.
StreamsAreWhole ==
    \A s \in Stream : promise[s] # None =>
        /\ pc[s] = "done" =>
              out[s] = [i \in 1..promise[s].len |-> <<promise[s].data, i>>]
        /\ pc[s] = "failed" => promise[s] = Dir
=============================================================================
