CONSTANTS
    own = own
    k1 = k1
    k2 = k2
    Nil = Nil
    Conn = {own, a, b}
    Key = {k1, k2}
    KeyOf <- MCKeyOf
    MaxClients = 2
    MaxClientsPerKey = 1
    SendCap = 2
    WireCap = 8
    AuthOn = TRUE
    PromptHandlers = FALSE
    MaxVersion = 2
SPECIFICATION Spec
SYMMETRY ConnSymmetry
INVARIANTS SlotAccounting NoVersionMissed
PROPERTY ImplementsAdmission
CHECK_DEADLOCK FALSE
CONSTRAINT TwoScenes
