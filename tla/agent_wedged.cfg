\* Two requests, every dialog with a deadline.
SPECIFICATION FairSpec
CONSTANTS
    c1 = c1  c2 = c2  k1 = k1
    Cookies = {c1, c2}
    Keys = {k1}
    KeyOf <- SharedKey
    RememberSeconds = {1}
    Timeouts = {1}
    Ttl = 1
    Grace = 0
    Helper1Timeout = 1
    MaxRemember = 1
PROPERTY EveryCallReturns
