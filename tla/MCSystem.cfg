SPECIFICATION SystemSpec
CONSTANTS
    ConfigKeys = {k1, k2}
    Foreign = k2
    NoConfigKey = NoConfigKey
    Passphrases = {p1, plain}
    NoPassphrase = plain
    MaxConfigs = 2
    MaxStoreFaults = 1
    MaxArchives = 3
    TLSRequests = {q1}
    Renewal = Renewal
    AcmeForms = {b1}
    NoForm = NoForm
    MaxPairs = 3
    MaxTLSFaults = 1
    check1 = check1
    check2 = check2
    Checks = {check1, check2}
    ActionsOf <- MCActions
    HasInterface = {check1}
    FailureThreshold = 2
    Cooldown = 1
    MaxHealthTime = 1
    MaxHealthFaults = 2
    MaxUSBEdits = 1
    sftp = sftp
    s3 = s3
    disk = disk
    Targets <- MCTargets
    Kind <- MCKind
    Retentions = {0, 2}
    DefaultKeep = 1
    MaxHistory = 1
    MaxRuns = 2
    MaxBackupEdits = 2
    MinutesInHour = 4
    HoursInDay = 1
    DaysInMonth = 2
    MonthsInYear = 1
    DaysInWeek = 3
    Schedules <- MCSchedules
    Horizon = 24
    MaxInstant = 7
    MaxSchedEdits = 2
    SettingRequests = {q1, q2}
    NTPHosts = {h1, h2}
    NTPSubnets = {c1}
    Facilities = {f1}
    FormValues = {v1}
    MaxNTPSources = 1
    MaxNTPAllowSubnets = 1
    MaxSettingOps = 3
    MaxSettingFaults = 1
    NASRequests = {q1, q2}
    ShareNames = {n1, n2}
    source = source
    M3USources = {source}
    ScheduleOf <- MCScheduleOf
    MaxShares = 2
    MaxClicks = 2
    MaxNASFaults = 1
    MaxMinutes = 4
    secret1 = secret1
    l1 = l1
    l2 = l2
    l3 = l3
    Logins = {l1, l2, l3}
    change1 = change1
    change2 = change2
    PasswordChanges = {change1, change2}
    host1 = host1
    LoginClients = {host1, h2}
    Passwords = {secret1, secret2}
    Nobody = Nobody
    Threshold = 1
    LockoutBase = 1
    LockoutMax = 2
    IdleReset = 2
    DurationBits = 3
    BudgetFailures = 1
    BudgetWindow = 3
    BudgetSpacing = 2
    BudgetMaxWait = 1
    MaxTime = 3
    MaxRestarts = 1
    Addresses = {h1}
    Refill = 2
    Burst = 2
    IdleWindow = 4
    MaxRateTime = 10
VIEW Running
INVARIANTS
    SystemTypesOK
    HealthSound
    DaemonsSound
PROPERTIES
    StoreSound
    CertificatesSound
    BackupPlanSound
    AccessSound
CHECK_DEADLOCK FALSE
