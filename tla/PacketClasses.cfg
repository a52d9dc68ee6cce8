CONSTANTS
    MaxValues = 2
    NameSize = 3
    Codes <- AllCodes
    MaxPosts = 2
    Chunks = {11, 4096}
SPECIFICATION Spec
CHECK_DEADLOCK FALSE
INVARIANT InStep
INVARIANT SameMeaning
INVARIANT Encodes
