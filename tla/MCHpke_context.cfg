\* The sequence counter and the nonce: one suite, many seals and opens,
\* the counter scaled from 32 to 2 bits, a build with overflow checks.
CONSTANTS
    Configs <- ContextConfigs
    SenderKeys = {}
    ReceiverKeys = {r1}
    Seed <- ContextSeed
    KeyLen = 1
    MaxRngDraws = 0
    SingleShotApi = FALSE
    Psks <- NoPsks
    PskValues = {}
    PskIdValues = {}
    PskIds <- NoPsks
    Infos = {"info"}
    Aads = {"a1", "a2"}
    Plaintexts = {"m"}
    ExporterContexts = {"x"}
    ExportLengths = {32, 8161}
    None = None
    NoContext = NoContext
    MaxSeals = 4
    MaxOpens = 4
    SeqBits = 2
    NonceLimit = 7
    OverflowChecks = TRUE
    EncFaults = FALSE
INIT Init
NEXT Next
INVARIANTS
    TypeOK
    NonceUnique
    CountersTrackHistory
CHECK_DEADLOCK FALSE
