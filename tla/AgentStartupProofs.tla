------------------------- MODULE AgentStartupProofs -------------------------
(***************************************************************************)
(* Proofs about AgentStartup for any number of processes, sessions and     *)
(* attempts.  The bus name is the lock: a process past the claim holds it, *)
(* loses it only after its end, and polkitd knows only processes that got  *)
(* past the claim.                                                         *)
(***************************************************************************)
EXTENDS AgentStartup, TLAPS

Past == {"registering", "backoff", "registered", "serving", "leaving"}

\* A process past the claim owns the bus name.
PastOwns == \A p \in Procs : stage[p] \in Past => owner = p

\* Whom polkitd knows registered for its own session, and may have ended.
RegistryKnows ==
    \A s \in Sessions : registry[s] \in Procs =>
        /\ s \in resolve_session_id(registry[s])
        /\ stage[registry[s]] \in {"registered", "serving", "leaving"} \cup Over

StartupInv == StartupTypeOK /\ PastOwns /\ RegistryKnows

-----------------------------------------------------------------------------
\* A process registers only for a session there is (subject.rs:
\* resolve_session_id leaves out blank and unset ids).
LEMMA ResolvesToSessions == \A p \in Procs : resolve_session_id(p) \subseteq Sessions
  BY StartupAssumption DEF resolve_session_id, OptionalIds

\* The initial state of run() satisfies the invariant.
LEMMA InitInv == StartupInit => StartupInv
  BY StartupAssumption
  DEF StartupInit, StartupInv, StartupTypeOK, PastOwns, RegistryKnows, Stages, Starting, Over, Past

\* Every step keeps the types, the attempt counter below REGISTER_RETRIES
\* included (main.rs: the retry loop).
LEMMA TypeStep == StartupTypeOK /\ [StartupNext]_startupVars => StartupTypeOK'
<1> SUFFICES ASSUME StartupTypeOK, [StartupNext]_startupVars
             PROVE  StartupTypeOK'
  OBVIOUS
<1> USE StartupAssumption DEF StartupTypeOK, Stages, Starting, Over, Enter, Goto, Alive
<1>1. ASSUME NEW p \in Procs, Launch(p) \/ Publish(p) \/ InstallHandlers(p)
      PROVE  StartupTypeOK'
  BY <1>1 DEF Launch, Publish, InstallHandlers
<1>2. ASSUME NEW p \in Procs, ClaimName(p)
      PROVE  StartupTypeOK'
  BY <1>2 DEF ClaimName, RequestName
<1>3. ASSUME NEW p \in Procs, Register(p)
      PROVE  StartupTypeOK'
  BY <1>3, ResolvesToSessions DEF Register
<1>4. ASSUME NEW p \in Procs, BackoffEnds(p)
      PROVE  StartupTypeOK'
  BY <1>4 DEF BackoffEnds, MayRetry, NextAttempt
<1>5. ASSUME NEW p \in Procs, StartFails(p) \/ Signal(p) \/ Dies(p)
      PROVE  StartupTypeOK'
  BY <1>5 DEF StartFails, Signal, Dies
<1>6. ASSUME NEW p \in Procs, Unregister(p)
      PROVE  StartupTypeOK'
  BY <1>6 DEF Unregister
<1>7. CASE BusNotices \/ PolkitdRestarts
  BY <1>7 DEF BusNotices, PolkitdRestarts
<1>8. ASSUME NEW s \in Sessions, PolkitdNotices(s) \/ RivalRegisters(s) \/ RivalLeaves(s)
      PROVE  StartupTypeOK'
  BY <1>8 DEF PolkitdNotices, RivalRegisters, RivalLeaves
<1>9. CASE UNCHANGED startupVars
  BY <1>9 DEF startupVars
<1> QED
  BY <1>1, <1>2, <1>3, <1>4, <1>5, <1>6, <1>7, <1>8, <1>9 DEF StartupNext, AgentStep

\* Only a claim of a free name leads past it, and the name is dropped only
\* for a process that ended (main.rs: request_name).
LEMMA OwnerStep == StartupTypeOK /\ PastOwns /\ [StartupNext]_startupVars => PastOwns'
<1> SUFFICES ASSUME StartupTypeOK, PastOwns, [StartupNext]_startupVars
             PROVE  PastOwns'
  OBVIOUS
<1> USE StartupAssumption DEF StartupTypeOK, PastOwns, Past, Stages, Starting, Over, Enter, Goto, Alive
<1>1. ASSUME NEW p \in Procs, Launch(p) \/ Publish(p) \/ InstallHandlers(p)
      PROVE  PastOwns'
  BY <1>1 DEF Launch, Publish, InstallHandlers
<1>2. ASSUME NEW p \in Procs, ClaimName(p)
      PROVE  PastOwns'
  BY <1>2 DEF ClaimName, RequestName
<1>3. ASSUME NEW p \in Procs, Register(p)
      PROVE  PastOwns'
  BY <1>3 DEF Register
<1>4. ASSUME NEW p \in Procs, BackoffEnds(p)
      PROVE  PastOwns'
  BY <1>4 DEF BackoffEnds
<1>5. ASSUME NEW p \in Procs, StartFails(p) \/ Signal(p) \/ Dies(p)
      PROVE  PastOwns'
  BY <1>5 DEF StartFails, Signal, Dies
<1>6. ASSUME NEW p \in Procs, Unregister(p)
      PROVE  PastOwns'
  BY <1>6 DEF Unregister
<1>7. CASE BusNotices \/ PolkitdRestarts
  BY <1>7 DEF BusNotices, PolkitdRestarts
<1>8. ASSUME NEW s \in Sessions, PolkitdNotices(s) \/ RivalRegisters(s) \/ RivalLeaves(s)
      PROVE  PastOwns'
  BY <1>8 DEF PolkitdNotices, RivalRegisters, RivalLeaves
<1>9. CASE UNCHANGED startupVars
  BY <1>9 DEF startupVars
<1> QED
  BY <1>1, <1>2, <1>3, <1>4, <1>5, <1>6, <1>7, <1>8, <1>9 DEF StartupNext, AgentStep

\* polkitd learns of a process only from its own registration (main.rs:
\* register_authentication_agent).
LEMMA RegistryStep == StartupTypeOK /\ RegistryKnows /\ [StartupNext]_startupVars => RegistryKnows'
<1> SUFFICES ASSUME StartupTypeOK, RegistryKnows, [StartupNext]_startupVars
             PROVE  RegistryKnows'
  OBVIOUS
<1> USE StartupAssumption DEF StartupTypeOK, RegistryKnows, Stages, Starting, Over, Enter, Goto, Alive,
                              resolve_session_id
<1>1. ASSUME NEW p \in Procs, Launch(p) \/ Publish(p) \/ InstallHandlers(p)
      PROVE  RegistryKnows'
  BY <1>1 DEF Launch, Publish, InstallHandlers
<1>2. ASSUME NEW p \in Procs, ClaimName(p)
      PROVE  RegistryKnows'
  BY <1>2 DEF ClaimName, RequestName
<1>3. ASSUME NEW p \in Procs, Register(p)
      PROVE  RegistryKnows'
  BY <1>3, ResolvesToSessions DEF Register
<1>4. ASSUME NEW p \in Procs, BackoffEnds(p)
      PROVE  RegistryKnows'
  BY <1>4 DEF BackoffEnds
<1>5. ASSUME NEW p \in Procs, StartFails(p) \/ Signal(p) \/ Dies(p)
      PROVE  RegistryKnows'
  BY <1>5 DEF StartFails, Signal, Dies
<1>6. ASSUME NEW p \in Procs, Unregister(p)
      PROVE  RegistryKnows'
  BY <1>6 DEF Unregister
<1>7. CASE BusNotices \/ PolkitdRestarts
  BY <1>7 DEF BusNotices, PolkitdRestarts
<1>8. ASSUME NEW s \in Sessions, PolkitdNotices(s) \/ RivalRegisters(s) \/ RivalLeaves(s)
      PROVE  RegistryKnows'
  BY <1>8 DEF PolkitdNotices, RivalRegisters, RivalLeaves
<1>9. CASE UNCHANGED startupVars
  BY <1>9 DEF startupVars
<1> QED
  BY <1>1, <1>2, <1>3, <1>4, <1>5, <1>6, <1>7, <1>8, <1>9 DEF StartupNext, AgentStep

\* The invariant holds in every reachable state.
LEMMA Invariance == StartupSpec => []StartupInv
<1>1. StartupInv /\ [StartupNext]_startupVars => StartupInv'
  BY TypeStep, OwnerStep, RegistryStep DEF StartupInv
<1> QED
  BY InitInv, <1>1, PTL DEF StartupSpec

-----------------------------------------------------------------------------
\* The state of the start-up stays in its types, and no process makes more
\* than REGISTER_RETRIES attempts (main.rs: the retry loop).
THEOREM StartupTypeCorrect == StartupSpec => []StartupTypeOK
<1>1. StartupInv => StartupTypeOK
  BY DEF StartupInv
<1> QED
  BY Invariance, <1>1, PTL

\* A live registered agent holds the bus name pam_sentinel asks (main.rs: the
\* claim comes before the registration).
THEOREM RegisteredAgentsAreReachable == StartupSpec => []RegisteredIsReachable
<1>1. StartupInv => RegisteredIsReachable
  BY DEF StartupInv, StartupTypeOK, PastOwns, RegistryKnows, RegisteredIsReachable, Past, Alive, Over
<1> QED
  BY Invariance, <1>1, PTL
=============================================================================
