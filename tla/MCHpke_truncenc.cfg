\* Receivers of a DH-KEM and of X-Wing set up from encs the network cut
\* short: the error setup_receiver returns.
CONSTANTS
    Configs <- OneShotConfigs
    SenderKeys = {}
    ReceiverKeys = {r1}
    Seed <- SetupSeed
    KeyLen = 1
    MaxRngDraws = 1
    SingleShotApi = FALSE
    Psks <- NoPsks
    PskValues = {}
    PskIdValues = {}
    PskIds <- NoPsks
    Infos = {"info"}
    Aads = {"a"}
    Plaintexts = {"m1", "m2"}
    ExporterContexts = {"x"}
    ExportLengths = {32}
    None = None
    NoContext = NoContext
    MaxSeals = 2
    MaxOpens = 1
    SeqBits = 2
    NonceLimit = 7
    OverflowChecks = TRUE
    EncFaults = TRUE
INIT Init
NEXT Next
INVARIANT TruncatedEncIsKemInvalidPublicKey
CHECK_DEADLOCK FALSE
