CONSTANTS
    None = None
    NotADict = NotADict
    Unparseable = Unparseable
    PortNumbers = {53, 80, 8080, 9000, 9090}
    AmbassadorId = "default"
    SingleNamespace = TRUE
    AmbassadorNamespace = "default"
    EnableEndpoints = TRUE
    Inputs <- MCInputs
SPECIFICATION Spec
CHECK_DEADLOCK FALSE
INVARIANTS
    LastRoutableSubsetServes
    FinalizeIdempotent
