SPECIFICATION UplinksSpec
CONSTANTS
    p1 = p1
    Uplink = {1, 2}
    Scope = {1, 2}
    Declares <- MCDeclares
    Neighbour = {p1}
    Endpoints <- MCEndpoints
    Worker = {k1}
    Threshold = 1
    Nowhere = Nowhere
    Opening = Opening
    Routed = Routed
PROPERTIES
    NextTickTriesAgain
CHECK_DEADLOCK FALSE
