\* Two requests with one remember key under every configuration.
SPECIFICATION Spec
CONSTANTS
    c1 = c1  c2 = c2  k1 = k1
    Cookies = {c1, c2}
    Keys = {k1}
    KeyOf <- SharedKey
    RememberSeconds = {0, 1, 3}
    Timeouts = {0, 1}
    Ttl = 1
    Grace = 1
    Helper1Timeout = 2
    MaxRemember = 2
INVARIANT NoDialogAfterCancel
