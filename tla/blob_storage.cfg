SPECIFICATION Spec
CONSTANTS
    small = small
    large = large
    Blob <- MCBlob
    BadSegment = {"", ".", ".."}
    Data = {small, large}
    Chunks <- MCChunks
    Stream = {s1}
    File = {f1, f2, f3}
    Absent = Absent
    Dir = Dir
    None = None
SYMMETRY Symmetry
INVARIANTS
    TypeOK
    StoredBlobsStand
    StreamsAreWhole
