CONSTANTS
    c1 = c1
    c2 = c2
    Tabs = {c1, c2}
    Kinds = {"cluster"}
    MaxEdits = 2
    MaxVersion = 3
    MaxItems = 1
SPECIFICATION Spec
CHECK_DEADLOCK FALSE
PROPERTY NoLostWrite
