SPECIFICATION FairSpec
CONSTANTS
    letter = letter
    note = note
    copy = copy
    box = box
    once = once
    twice = twice
    Never = Never
    Contents = {letter, note}
    Clusters = {box}
    ClusterOf <- OneBox
    References <- Pair
    Later <- NoRefs
    Actions = {once, twice}
    ContentOf <- ForLetter
    Stop <- AllStop
    Notice = 1
    CommandDelay = 1
    Day = 1
    LastRequest = 1
    LastTime = 3
PROPERTIES
    MarkedGoes
    MarkedClusterGoes
    FetchedGoes
