CONSTANTS
    c = c
    n = n
    e = e
    up = up
    down = down
    file = file
    m1 = m1
    m2 = m2
    Empty = Empty
    Nil = Nil
    NodeId = {c, n}
    EdgeId = {e}
    Value = {up, down, file}
    Mount = {m1, m2}
    From <- MCFrom
    To <- MCTo
    Offers <- MCOffers
    Sub = {s1}
    ChanCap = 2
    Conn = {c1, c2}
    SendCap = 1
    WireCap = 1
    PromptHandlers = FALSE
    MaxUpdates = 2
SPECIFICATION PartFairSpec
INVARIANTS MergedWellFormed FeedsChain PageFollows
PROPERTY PageCatchesUp
CHECK_DEADLOCK FALSE
