CONSTANTS
    c1 = c1
    c2 = c2
    Tabs = {c1, c2}
    Kinds = {"custom", "Workday", "file", "Profile", "config", "cluster", "ChannelStore"}
    MaxEdits = 2
    MaxVersion = 3
    MaxItems = 3

SPECIFICATION Spec
SYMMETRY Symmetry
CHECK_DEADLOCK FALSE

INVARIANTS
    TypeOK
    OneItemPerForm
    CreatedIsFiled

PROPERTIES
    NoLostContentWrite
    
    FullEntriesAreSaved
