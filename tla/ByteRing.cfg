SPECIFICATION Spec
CONSTANTS
    Size = 4
    Wrap = 8
    Byte = {"a", "b"}
    Starts = {0, 7}
INVARIANT TypeOK
PROPERTY IsByteQueue
