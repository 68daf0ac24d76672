SPECIFICATION Spec
CONSTANTS
    t = t
    url = url
    role = role
    c1 = c1
    c2 = c2
    item = item
    hash = hash
    v = v
    w = w
    None = None
    Keep = Keep
    Delete = Delete
    Tokens = {t}
    Hosts = {url}
    Roles = {role}
    Clusters = {c1, c2}
    Items = {item}
    Hashes = {hash}
    Values = {v, w}
    Updates <- ManyEntries
INVARIANTS
    OthersStay
    MergedOnce
    OrderIsFree
    UncountedAtMost
