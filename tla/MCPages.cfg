SPECIFICATION Spec
CONSTANTS
    Page = {p1, p2}
    Call = {c1, c2, c3}
    Capacity = 1
    NoPage = NoPage
    Free = Free
SYMMETRY Symmetric
INVARIANTS
    PagesWithinCapacity
    DiscardedIsReleased
PROPERTIES
    OnlyCommittedPagesGoUp
CHECK_DEADLOCK FALSE
