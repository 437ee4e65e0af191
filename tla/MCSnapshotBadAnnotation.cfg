CONSTANTS
    None = None
    NotADict = NotADict
    Unparseable = Unparseable
    PortNumbers = {80}
    AmbassadorId = "default"
    SingleNamespace = TRUE
    AmbassadorNamespace = "default"
    EnableEndpoints = TRUE
    Inputs <- MCInputsBadAnnotation
SPECIFICATION Spec
CHECK_DEADLOCK FALSE
PROPERTIES
    LoadRefined
