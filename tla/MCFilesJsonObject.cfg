CONSTANTS
    None = None
    NotADict = NotADict
    Unparseable = Unparseable
    PortNumbers = {80, 90, 8080, 9090}
    AmbassadorId = "default"
    SingleNamespace = FALSE
    AmbassadorNamespace = "default"
    EnableEndpoints = TRUE
    Inputs <- MCInputsJsonObject
SPECIFICATION Spec
CHECK_DEADLOCK FALSE
PROPERTIES
    LoadRefined
