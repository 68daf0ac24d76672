SPECIFICATION Spec
CONSTANTS
    letter = letter
    note = note
    copy = copy
    box = box
    once = once
    twice = twice
    Never = Never
    Contents = {letter, note, copy}
    Clusters = {box}
    ClusterOf <- OneBox
    References <- Chain
    Later <- ClosesRing
    Actions = {once, twice}
    ContentOf <- ForLetter
    Stop <- OnceStops
    Notice = 1
    CommandDelay = 1
    Day = 1
    LastRequest = 1
    LastTime = 3
INVARIANTS
    TypeOK
    ContentsHaveClusters
PROPERTIES
    DependentsFollow
    
