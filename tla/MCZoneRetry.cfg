SPECIFICATION Spec
CONSTANTS
    Thread = {t1, t2, t3}
    small = small
    large = large
    paged = paged
    Zone = {small, large, paged}
    NoZone = NoZone
    PageSize = 2
    Pages = 4
    ElemSize <- MCElemSize
    MaxSize <- MCMaxSize
    AllocSize <- MCAllocSize
    Pageable = {paged}
    Exhaustible = {small}
SYMMETRY Symmetry
CHECK_DEADLOCK FALSE
INVARIANTS EmptyWhenGivenUp
