SPECIFICATION Spec
CONSTANTS
    fox = fox  vixen = vixen  moon = moon
    Text = {fox, vixen, moon}
    Meaning <- Distinct
    Static = {moon}
    Elsewhere = {moon}
    p1 = p1
    Poll = {p1}
    None = None
    MaxRecordings = 1
    MaxClicks = 0
    MaxTrouble = 1
INVARIANTS
    NoEndedJobFollowed
CHECK_DEADLOCK FALSE
