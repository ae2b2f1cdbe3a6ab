SPECIFICATION Spec
CONSTANTS
    c1 = c1
    c2 = c2
    Callers = {c1, c2}
    Server = Server
    Nobody = Nobody
    Usages <- BusyUsages
CHECK_DEADLOCK FALSE
PROPERTY CallsReturn
