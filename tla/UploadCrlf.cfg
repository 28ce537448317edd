CONSTANTS
    Workers = {w1}
    Slots = {a1}
    Files <- MCFiles
    Forms <- TwoLines
    Failing = {}
    MaxFaults = 0
    MaxStreams = 2
    MaxUploads = 1
SPECIFICATION Spec
INVARIANT UploadIsStored
CHECK_DEADLOCK FALSE
