SPECIFICATION NetworkSpec
CONSTANTS
    IPv6Forms <- MCIPv6Forms
    MaxAddress = 2
    MaxIPv6Ops = 3
    MaxIPv6Faults = 1
    i1 = i1
    i2 = i2
    e1 = e1
    e2 = e2
    IfaceIDs = {i1, i2}
    Devices = {e1, e2}
    VlanIDs = {LanKey, v1, v2}
    Vids = {10}
    Forms = {f1, f2}
    VlanForms = {f3, f4}
    Subnets = {lan1, lan2}
    AddressOf <- MCAddress
    VPNSubnets = {}
    NoSubnet = NoSubnet
    NoDevice = NoDevice
    SLABits = 2
    LanKey = LanKey
    MaxSegmentEdits = 3
    MaxSegmentFaults = 1
    site1 = site1
    site2 = site2
    lan1 = lan1
    lan2 = lan2
    Routers = {site1, site2}
    PeerNames = {n1, n2}
    SubnetsOf = {lan1, lan2}
    LanOf <- MCLan
    LocalOf <- MCLan
    LinkRequests = {q1, q2}
    NoPeerKey = NoPeerKey
    InviteTTL = 1
    PoolSize = 3
    MaxLinkTime = 2
    MaxLinkOps = 4
    MaxLinkFaults = 1
    home = home
    office = office
    NameRequests = {q1, q2}
    Hosts = {h1, h2}
    Macs = {m1, m2}
    Domains = {home, office}
    MaxRecords = 2
    MaxNameOps = 2
    MaxNameFaults = 1
    PolicyNames = {a, b}
    PBRTunnels = {t1, t2}
    WithDomains = {a}
    PBRRequests = {q1, q2}
    MainPriority = 100
    VPNClients = {t1}
    MaxPolicyOps = 2
    MaxPolicyFaults = 1
    MaxRefreshes = 1
    ClientNames = {a, b}
    OutboundNames = {o}
    OVPNRequests = {q1, q2}
    MaxOVPNOps = 4
    MaxOVPNFaults = 1
    QoSRequests = {q1, q2}
    QoSClients = {h1, h2}
    MaxQoSClients = 1
    ResyncEvery = 2
    CounterSize = 8
    MaxQoSBytes = 2
    MaxQoSOps = 3
    MaxQoSFaults = 1
    MaxSamplerTicks = 3
VIEW Running
INVARIANTS
    NetworkTypesOK
    
    
    
PROPERTIES
    SegmentsSound
    LinksSound
    ShapingSound
CHECK_DEADLOCK FALSE
