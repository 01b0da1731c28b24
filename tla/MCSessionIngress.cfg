SPECIFICATION FairSpec
CONSTANTS
    Callers = {a, b}
    Offers <- MCOffers
    IngressCap = 1
    LaneCap = 1
    MaxInputs = 3
    MaxStops = 1
INVARIANTS
    AdmissionOrder
    CountsExact
PROPERTY AdmissionsEnd
CHECK_DEADLOCK FALSE
