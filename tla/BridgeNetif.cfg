SPECIFICATION Spec
CONSTANTS
    LanOrder <- MCLan
    WanOrder <- MCWans
    Softap = "WIFI_AP_DEF"
    MaxSegment = 15
    DefaultPrefix = 8
    Prefixes <- MCPrefixes
    Width <- MCSameMask
    WanSegments <- MCWanSegments
    CustomSegments <- MCCustomSegments
    Special <- MCSpecial
    CustomChecks <- MCChecks
    Main = "sys_evt"
    EventTask = "sys_evt"
INVARIANTS
    TypeOK
    SegmentsUnique
    UpdateResolves
    AddressesInPrefix
