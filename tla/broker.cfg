\* Three connections, from root and from other peers, with any request.
SPECIFICATION BrokerSpec
CONSTANTS
    n1 = n1  n2 = n2  n3 = n3
    uid = uid  ses = ses  sudo = sudo  cmd1 = cmd1  cmd2 = cmd2
    Unset = Unset  Empty = Empty
    Conns = {n1, n2, n3}
    Keys <- SmallKeys
    Ttls = {0, 1, 3}
    MaxRemember = 2
SYMMETRY Symmetry
INVARIANTS BrokerTypeOK OnlyBoundGrants
PROPERTIES FreshIsEarned GrantsAreKept
