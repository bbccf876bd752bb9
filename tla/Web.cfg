CONSTANTS
    Calls = {c1, c2}
    Urls = {a, b, d, g, h, x}
    a = a
    b = b
    d = d
    g = g
    h = h
    x = x
    HostOf <- MCHostOf
    Links <- MCLinks
    PathOf <- MCPathOf
    SizeOf <- MCSizeOf
    Blocked = {x}
    Disallowed = {d}
    Gated = {g, h}
    Seeds = {a, x}
    Headed = TRUE
    NoArg = NoArg
    DepthArgs = {NoArg, 2}
    PageArgs = {NoArg, 1}
    InlineArgs = {2}
    DepthDefault = 1
    DepthCeiling = 2
    PagesDefault = 4
    PagesCeiling = 5
    InlineDefault = 2
    InlineCeiling = 3
    MaxBegun = 2
SPECIFICATION Spec
INVARIANTS
    CrawlStaysInBounds
    CrawlComplete
    OneLoginAtATime
    CacheIsPublic
CHECK_DEADLOCK FALSE
