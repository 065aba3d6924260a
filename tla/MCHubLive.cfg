CONSTANTS
    own = own
    k1 = k1
    k2 = k2
    Nil = Nil
    Conn = {own}
    Key = {k1}
    KeyOf <- MCKeyOf
    MaxClients = 1
    MaxClientsPerKey = 0
    SendCap = 2
    WireCap = 8
    AuthOn = TRUE
    PromptHandlers = TRUE
    MaxVersion = 2
SPECIFICATION FairSpec

PROPERTIES ShutdownDrains ConnectionsEnd
CHECK_DEADLOCK FALSE
