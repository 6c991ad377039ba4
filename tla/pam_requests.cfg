\* One call over every shape of request, with a broker that owes nothing.
SPECIFICATION PamFairSpec
CONSTANTS
    a1 = a1  a2 = a2
    uid = uid  other = other  ses1 = ses1  ses2 = ses2
    Unset = Unset  NoKey = NoKey
    Empty <- NoCommand
    Options <- OptionWords
    ValueOptions <- ManualValues
    DEFAULT_TIMEOUT = 1
    DEFAULT_REMEMBER_SECONDS = 1
    Calls = {a1}
    Conns <- CallConns
    AuthRequests <- OneCallRequests
    Keys <- RequestKeys
    Ttls = {0, 1, 2}
    MaxRemember = 2
    IoTimeout = 1
    HelperGrace = 1
INVARIANTS  ShellsAlwaysAsk TerminalOptsIn
PROPERTIES BrokerNeverStalls EveryAuthReturns
