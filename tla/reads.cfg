SPECIFICATION Spec
CONSTANTS
    d1 = d1
    d2 = d2
    d3 = d3
    r1 = r1
    r2 = r2
    p1 = p1
    None = None
    Ids <- ManyRows
    Stamp <- ManyStamps
    Wanted <- OneRow
    Readers <- TwoReaders
    Pagers <- OnePager
    Asks <- SomeAsks
    Firsts <- SomeFirsts
    MaxPage = 1
    Flaky <- Stores
SYMMETRY ReaderSymmetry
INVARIANTS TypeOK ReadsCurrent PagesCoverStart
CHECK_DEADLOCK FALSE
