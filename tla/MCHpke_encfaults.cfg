\* Encs altered or cut short on the wire, for a DH-KEM and X-Wing: one
\* sender session at a time, two ciphertexts, a receiver context that may
\* set up from any enc it is handed.
CONSTANTS
    Configs <- OneShotConfigs
    SenderKeys = {}
    ReceiverKeys = {r1}
    Seed <- SetupSeed
    KeyLen = 1
    MaxRngDraws = 1
    SingleShotApi = FALSE
    Psks <- NoPsks
    PskValues = {}
    PskIdValues = {}
    PskIds <- NoPsks
    Infos = {"info"}
    Aads = {"a"}
    Plaintexts = {"m1", "m2"}
    ExporterContexts = {"x"}
    ExportLengths = {32}
    None = None
    NoContext = NoContext
    MaxSeals = 2
    MaxOpens = 2
    SeqBits = 2
    NonceLimit = 7
    OverflowChecks = TRUE
    EncFaults = TRUE
INIT Init
NEXT Next
INVARIANTS
    OpenOnlyUnderPublishedEnc
PROPERTY
    ChannelRefinement
CHECK_DEADLOCK FALSE
