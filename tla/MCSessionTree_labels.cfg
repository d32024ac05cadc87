CONSTANTS
    Files = {f1, f2}
    f1 = f1
    f2 = f2
    NoFile = NoFile
    EmptyFiles = {}
    Labels = {l1}
    l1 = l1
    NoLabel = NoLabel
    MaxEntries = 4
SPECIFICATION Spec
CHECK_DEADLOCK FALSE
PROPERTIES
    ExtractedBranchIsThePath
