CONSTANTS
    Workers = {w1, w2}
    Slots = {a1, a2}
    Files <- MCFiles
    Forms <- MCForms
    Failing = {"open", "mmap", "ofstream", "write", "rename"}
    MaxFaults = 2
    MaxStreams = 2
    MaxUploads = 2
SPECIFICATION Spec
INVARIANTS
    TypeOK
    BodyReadable
    PublishedIsUpload
    LateOnesAreUnfinished
    ReadYourWrite
    StoredIsAnsweredOk
SYMMETRY Symmetric
CHECK_DEADLOCK FALSE
