SPECIFICATION MCSpec
CONSTANTS
    Parts = {"api", "panels", "audit", "gateway", "credentials", "transaction", "chat", "context", "main", "tools", "settings", "hierarchy", "sdk", "routes", "drafts", "form", "hooks"}
    Requests = {r1, r2}
    Capacity = 1
    Unit = 2
    MaxRetries = 2
    Windows = {w1}
    MaxJobs = 2
    MaxClicks = 3
    MaxAsks = 1
    MaxTries = 2
    MaxStops = 1
    Appends = {a1, a2, a3}
    NoLog = NoLog
    MaxAudit = 2
    c1 = c1
    c2 = c2
    c3 = c3
    k1 = k1
    k2 = k2
    WebCalls = {c1, c2, c3}
    Writes = {c3}
    Tool <- ToolDef
    CacheMax = 1
    Ttl = 1
    MaxTime = 1
    MaxToggles = 1
    MaxIssued = 2
    Panels = {p1, p2}
    Pins = {pin1, pin2}
    NoPin = NoPin
    MaxEdits = 2
    Runs = {run1, run2}
    Bodies = 2
    MaxTokens = 2
    MaxAttempts = 2
    Pages = {page1}
    MaxTurns = 2
    MaxRounds = 2
    MaxCalls = 1
    Kept = 3
    MaxSwitches = 2
    Frames = {f1, f2}
    m1 = m1
    m2 = m2
    ch1 = ch1
    ch2 = ch2
    Merchants = {m1, m2}
    Channels = {ch1, ch2}
    MerchantOf <- MerchantDef
    Sites <- SitesDef
    Blank = Blank
    NoEntity = NoEntity
    MaxLoads = 3
    ToolCallIds = {tc1}
    MaxInner = 2
    MaxChanges = 2
    pl1 = pl1
    pl2 = pl2
    pl3 = pl3
    Platforms = {pl1, pl2, pl3}
    Division = Division
    NoPlatform = NoPlatform
    ParentOf <- ParentDef
    SettingKeys = {key1}
    MaxDepth = 3
    MaxValueChanges = 2
    psp = psp
    dv1 = dv1
    dv2 = dv2
    mr1 = mr1
    cn1 = cn1
    Entities = {psp, dv1, dv2, mr1, cn1}
    NoEntityAbove = NoEntityAbove
    UnderOf <- UnderDef
    PspRoots = {psp}
    MaxTreeChanges = 1
    SdkCalls = {s1}
    MaxKeys = 2
    McpTools = {mt1, mt2}
    PageCalls = {pc1, pc2}
    MaxPolls = 2
    MaxDrafts = 2
    MaxMoves = 1
    Codes <- CodesDef
    MaxSteps = 4
    Sections = {g1}
    Bearers = {b1, b2}
    NoBearer = NoBearer
    MaxPresses = 3
CHECK_DEADLOCK FALSE
INVARIANTS
    PartsTypeOK
    DebtBounded
    ChatFollowsJob
    AuditKept
    CallsKeptApart
    SessionMatchesVault
    LeavesNothingBehind
    CallsAnswered
    ContextIsSound
    ToldTruly
    SentAsAnswered
    AnswersAreSound
    TreeIsSound
    AimedAtContext
    WritesAreAccounted
    RoutesAreSound
    DraftsAreSound
    FormIsSelected
    GatewayFormIsSound
PROPERTIES
    AbortIsHeard
