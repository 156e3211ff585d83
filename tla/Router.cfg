SPECIFICATION Spec
CONSTANTS
    ByteBits = 3
    V4Bytes = 1
    V6Bytes = 2
    PrefixMod = 8
    Prefixes = {0, 1, 3, 5, 7}
    Installs <- MCInstalls
    Requests <- MCRequests
    GeoSiteFile <- MCGeoSiteFile
    GeoIpCode = "cn"
    None = None
INVARIANTS RouteExact NoDrop TableExact
CHECK_DEADLOCK FALSE
