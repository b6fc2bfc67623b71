SPECIFICATION HubUnfairClientsSpec
CONSTANTS
    c1 = c1  c2 = c2
    Clients <- MCClients
    HubCap = 2
    SendCap = 1
    MaxMsgs = 3
INVARIANTS
    HubTypeOK
    HubNeverPanics
    DeliveredIsContiguous
PROPERTIES
    BroadcastsDrain
    ClientIsReleased
