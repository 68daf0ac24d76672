SPECIFICATION FairSpec
CONSTANTS
    c1 = c1  n1 = n1  n2 = n2
    Contents = {c1}
    Nets = {n1, n2}
    Requests = {r1, r2}
    Initial = Initial  Sweeper = Sweeper  Database = Database  Nobody = Nobody
    Sizes = {1}
    InitSize = 1
    Overhead = 2
    HomeNet <- OneContent
    Quota <- WideQuota
    Moves = TRUE
    Faults = FALSE
    Serializable = FALSE
PROPERTIES
    Answered
