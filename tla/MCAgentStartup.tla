--------------------------- MODULE MCAgentStartup ---------------------------
(***************************************************************************)
(* Two processes of one session (a restart, or a second start), one of     *)
(* another user's session, and one that cannot tell its session.           *)
(***************************************************************************)
EXTENDS AgentStartup

CONSTANTS p1, p2, p3, p4, s1, s2

MCOverride == [p \in Procs |-> IF p = p3 THEN {s2} ELSE {}]

MCEnv == [p \in Procs |-> CASE p \in {p1, p3} -> {s1} [] p = p2 -> {Blank} [] OTHER -> {}]

MCAudit == [p \in Procs |-> CASE p = p2 -> {s1} [] p = p4 -> {UnsetId} [] OTHER -> {}]
=============================================================================
