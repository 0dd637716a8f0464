\* Three phones, two of them on one port and one with the port number of the
\* PBX; two calls that may have the same id; a log of two entries.
CONSTANTS
    a = a
    b = b
    c = c
    d1 = d1
    d2 = d2
    None = None
    Phone <- Phones
    Port = {5060, 5070}
    PbxPort = 5060
    PortOf <- PortOfPhone
    Dialog <- Dialogs
    PjId = {0, 1}
    MaxLog = 2
SPECIFICATION Spec
SYMMETRY Symmetry
INVARIANTS
    
    CallQueryIsOneCall
