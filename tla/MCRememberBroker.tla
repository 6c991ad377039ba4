-------------------------- MODULE MCRememberBroker --------------------------
(***************************************************************************)
(* A small broker: two bindable keys, and one key for each way a key fails *)
(* to bind.                                                                *)
(***************************************************************************)
EXTENDS RememberBroker, TLC

CONSTANTS n1, n2, n3, uid, ses, sudo, cmd1, cmd2

Key(u, s, c) == [loginuid |-> u, sessionid |-> s, service |-> sudo, command |-> c]

SmallKeys == {Key(uid, ses, cmd1), Key(uid, ses, cmd2),
              Key(Unset, ses, cmd1), Key(uid, Unset, cmd1), Key(uid, ses, Empty)}

Symmetry == Permutations(Conns)
=============================================================================
