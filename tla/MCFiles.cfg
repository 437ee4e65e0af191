CONSTANTS
    None = None
    NotADict = NotADict
    Unparseable = Unparseable
    PortNumbers = {80, 90, 8080, 9090}
    AmbassadorId = "default"
    SingleNamespace = FALSE
    AmbassadorNamespace = "default"
    EnableEndpoints = TRUE
    Inputs <- MCInputs
SPECIFICATION Spec
CHECK_DEADLOCK FALSE
INVARIANTS
    TypeOK
PROPERTIES
    LoadRefined
