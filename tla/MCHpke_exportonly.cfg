\* A context set up with the export-only AEAD, then sealed with.
CONSTANTS
    Configs <- ExportOnlyConfigs
    SenderKeys = {}
    ReceiverKeys = {r1}
    Seed <- ContextSeed
    KeyLen = 1
    MaxRngDraws = 0
    SingleShotApi = FALSE
    Psks <- NoPsks
    PskValues = {}
    PskIdValues = {}
    PskIds <- NoPsks
    Infos = {"info"}
    Aads = {"a1", "a2"}
    Plaintexts = {"m"}
    ExporterContexts = {"x"}
    ExportLengths = {32, 8161}
    None = None
    NoContext = NoContext
    MaxSeals = 4
    MaxOpens = 4
    SeqBits = 2
    NonceLimit = 7
    OverflowChecks = TRUE
    EncFaults = FALSE
INIT Init
NEXT Next
INVARIANT ExportOnlySealIsInvalidConfig
CHECK_DEADLOCK FALSE
