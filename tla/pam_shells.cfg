\* Two calls that open root shells.
SPECIFICATION PamSpec
CONSTANTS
    a1 = a1  a2 = a2
    uid = uid  other = other  ses1 = ses1  ses2 = ses2
    Unset = Unset  NoKey = NoKey
    Empty <- NoCommand
    Options <- OptionWords
    ValueOptions <- ManualValues
    DEFAULT_TIMEOUT = 1
    DEFAULT_REMEMBER_SECONDS = 1
    Calls = {a1, a2}
    Conns <- CallConns
    AuthRequests <- ShellRequests
    Keys <- RequestKeys
    Ttls = {0, 1, 2}
    MaxRemember = 2
    IoTimeout = 1
    HelperGrace = 0
INVARIANT ShellsNeverRemembered
