SPECIFICATION Spec
CONSTANTS
    first = first  second = second  story = story  request = request
    Process = {api, installer}
    Call = {c1, c2, c3}
    Pack <- Packs
    Request = {request}
    RequestOf <- Answers
    NoPack = NoPack
    NoRequest = NoRequest
    Free = Free
    MaxFaults = 2
SYMMETRY Symmetry
INVARIANTS
    LatestIsStored
    SavedIsFound
CHECK_DEADLOCK FALSE
