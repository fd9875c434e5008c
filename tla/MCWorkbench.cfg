SPECIFICATION Spec
CONSTANTS
    fox = fox  vixen = vixen  moon = moon
    Text = {fox, vixen, moon}
    Meaning <- Facts
    Static = {moon}
    Elsewhere = {moon}
    p1 = p1
    Poll = {p1}
    None = None
    MaxRecordings = 1
    MaxClicks = 1
    MaxTrouble = 1
INVARIANTS
    NoPaidJobForgotten
    FinalDescriptionSettles
PROPERTIES
    OnlyWhatWasDescribedIsShown
    PaidOncePerRecording
CHECK_DEADLOCK FALSE
