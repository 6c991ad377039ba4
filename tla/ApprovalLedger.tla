--------------------------- MODULE ApprovalLedger ---------------------------
(***************************************************************************)
(* What the agent's approval machinery promises, with no queue, clock,     *)
(* dialog or helper: every authentication request holds at most one        *)
(* permit.  It is issued once, when the request is decided in its favour,  *)
(* and from there it is either spent by exactly one PAM caller or voided   *)
(* (expired or drained); it never comes back.                              *)
(***************************************************************************)
CONSTANT Cookies

VARIABLE permit

Stages == {"idle", "live", "spent", "void"}

TypeOK == permit \in [Cookies -> Stages]

Init == permit = [c \in Cookies |-> "idle"]

\* The request is decided in its favour.
Issue(c) ==
    /\ permit[c] = "idle"
    /\ permit' = [permit EXCEPT ![c] = "live"]

\* One PAM caller uses the permit.
Spend(c) ==
    /\ permit[c] = "live"
    /\ permit' = [permit EXCEPT ![c] = "spent"]

\* Expiry and draining take several permits away at once.
Void(S) ==
    /\ \A c \in S : permit[c] = "live"
    /\ permit' = [c \in Cookies |-> IF c \in S THEN "void" ELSE permit[c]]

Next ==
    \/ \E c \in Cookies : Issue(c) \/ Spend(c)
    \/ \E S \in SUBSET Cookies : Void(S)

Spec == Init /\ [][Next]_permit
=============================================================================
