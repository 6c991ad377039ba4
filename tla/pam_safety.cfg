\* Two calls, a broker that may crash and restart at any moment.
SPECIFICATION PamSpec
CONSTANTS
    a1 = a1  a2 = a2
    uid = uid  other = other  ses1 = ses1  ses2 = ses2
    Unset = Unset  NoKey = NoKey
    Empty <- NoCommand
    Options <- OptionWords
    ValueOptions <- ManualValues
    DEFAULT_TIMEOUT = 1
    DEFAULT_REMEMBER_SECONDS = 1
    Calls = {a1, a2}
    Conns <- CallConns
    AuthRequests <- TwoCallRequests
    Keys <- RequestKeys
    Ttls = {0, 1, 2}
    MaxRemember = 1
    IoTimeout = 1
    HelperGrace = 0
SYMMETRY Symmetry
INVARIANTS PamTypeOK SuccessIsBacked GrantsNeedConsent DialogIsAwaited RecordsAreAccepted
