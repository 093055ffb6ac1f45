\* The release profile (no overflow checks): Context::sequence_number is a
\* u32 that wraps to 0 long before the RFC's message limit.  Counter
\* scaled from 32 to 2 bits; five seals go past the wrap.
CONSTANTS
    Configs <- ContextConfigs
    SenderKeys = {}
    ReceiverKeys = {r1}
    Seed <- ContextSeed
    KeyLen = 1
    MaxRngDraws = 0
    SingleShotApi = FALSE
    Psks <- NoPsks
    PskValues = {}
    PskIdValues = {}
    PskIds <- NoPsks
    Infos = {"info"}
    Aads = {"a1", "a2"}
    Plaintexts = {"m"}
    ExporterContexts = {"x"}
    ExportLengths = {32, 8161}
    None = None
    NoContext = NoContext
    MaxSeals = 5
    MaxOpens = 4
    SeqBits = 2
    NonceLimit = 7
    OverflowChecks = FALSE
    EncFaults = FALSE
INIT Init
NEXT Next
INVARIANTS
    NonceUnique
CHECK_DEADLOCK FALSE
