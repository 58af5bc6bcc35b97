SPECIFICATION FairSpec
CONSTANTS
    Lan = "ETH_LAN"
    Wan = "ETH_WAN"
    Server = "server"
    Client = "client"
    Cables <- MCCables
    DefaultDns = "default"
    ServerDns = "server"
    StationDns = "station"
    Segments <- MCSegments
    ServerSegment = 1
    QueueSize = 3
    MaxUnplug = 1
    MaxStationIp = 1
    MaxFail = 1
INVARIANTS TypeOK RolesConsistent
PROPERTIES RoleSettles
CHECK_DEADLOCK FALSE
