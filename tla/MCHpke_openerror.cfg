\* A ciphertext altered on the network reaches an open: the error the
\* libcrux provider makes Context::open return.
CONSTANTS
    Configs <- ContextConfigs
    SenderKeys = {}
    ReceiverKeys = {r1}
    Seed <- ContextSeed
    KeyLen = 1
    MaxRngDraws = 0
    SingleShotApi = FALSE
    Psks <- NoPsks
    PskValues = {}
    PskIdValues = {}
    PskIds <- NoPsks
    Infos = {"info"}
    Aads = {"a1", "a2"}
    Plaintexts = {"m"}
    ExporterContexts = {"x"}
    ExportLengths = {32, 8161}
    None = None
    NoContext = NoContext
    MaxSeals = 4
    MaxOpens = 4
    SeqBits = 2
    NonceLimit = 7
    OverflowChecks = TRUE
    EncFaults = FALSE
INIT Init
NEXT Next
INVARIANT OpenFailureIsOpenError
CHECK_DEADLOCK FALSE
