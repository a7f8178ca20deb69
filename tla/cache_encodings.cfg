SPECIFICATION Spec
CONSTANTS
    d1 = d1
    d2 = d2
    d3 = d3
    r1 = r1
    r2 = r2
    p1 = p1
    None = None
    Ids <- OneRow
    Stamp <- OneStamp
    Wanted <- OneRow
    Readers <- TwoReaders
    Pagers <- Nobody
    Asks <- Nobody
    Firsts <- Nobody
    MaxPage = 1
    Flaky <- Nobody
INVARIANT CacheTransparent
CHECK_DEADLOCK FALSE
