CONSTANTS
    Files = {f1, f2}
    f1 = f1
    f2 = f2
    NoFile = NoFile
    EmptyFiles = {}
    Labels = {l1}
    l1 = l1
    NoLabel = NoLabel
    MaxEntries = 4
SPECIFICATION Spec
SYMMETRY FileSymmetry
CHECK_DEADLOCK FALSE
INVARIANTS
    TypeOK
    PathsReachARoot
    AnsweredSessionsAreDurable
    FilesAreWellFormed
PROPERTIES
    
    UnlabelledBranchIsThePath
