CONSTANTS
    EndToEnd = {"accept"}
    Value = {"http", "any", "other", "name", "ip1", "ip2", "ip3", "ip4", "addr1", "addr2", "addr3", "addr4",
             "wellFormed", "zeroId", "upperCase", "fiveParts", "binary"}
    Parts <- MCParts
    Path <- MCPath
    IpText <- MCIpText
    AddrText <- MCAddrText
    Requests <- MCRequests
    Responses <- MCResponses
SPECIFICATION Spec
INVARIANTS
    NoHopByHop
    TraceContextWhole
    ForwardedTruthfully
    EndToEndUntouched
