------------------------- MODULE PolkitAgentProofs -------------------------
(***************************************************************************)
(* Machine-checked proofs about PolkitAgent, for any set of requests and   *)
(* keys and any configured windows, lifetimes and timeouts.                *)
(***************************************************************************)
EXTENDS PolkitAgent, SequenceTheorems, FiniteSetTheorems, TLAPS

-----------------------------------------------------------------------------
(* Types, and who holds the serialisation mutex.  The two go together: the *)
(* mutex is a sequence, and releasing it is Tail, which is a sequence only *)
(* because a finished request heads it.                                    *)

TypeInv == TypeOK /\ OneSession

\* A fresh agent is well typed.
LEMMA InitType == Init => TypeInv
  BY ConstantsAssumption
  DEF Init, TypeInv, TypeOK, OneSession, Stages, HoldsGuard, TaskRuns, Config, NoConfig,
      Verdicts, Approvals, Ages, Absent, Decisions, Returned

\* Taking one approval leaves a queue of approvals and well-typed takers.
LEMMA TakeOneType ==
  ASSUME TypeOK, NEW by \in Cookies \cup {Other}, TakeOne(by)
  PROVE  queue' \in Seq(Approvals) /\ taken' \in [Cookies -> Seq(Cookies \cup {Other})]
<1>1. CASE Live = {} /\ queue' = <<>> /\ taken' = taken
  BY <1>1 DEF TypeOK
<1>2. ASSUME NEW i \in Live, queue' = PopThrough(i),
             taken' = [taken EXCEPT ![queue[i].owner] = Append(@, by)]
      PROVE  queue' \in Seq(Approvals) /\ taken' \in [Cookies -> Seq(Cookies \cup {Other})]
  <2>1. queue' \in Seq(Approvals)
    BY <1>2, SubSeqProperties, LenProperties DEF PopThrough, Live, TypeOK
  <2>2. queue[i].owner \in Cookies
    <3>1. i \in 1 .. Len(queue)
      BY LenProperties DEF Live, TypeOK
    <3>2. queue[i] \in Approvals
      BY <3>1, ElementOfSeq DEF TypeOK
    <3> QED
      BY <3>2 DEF Approvals
  <2> QED
    BY <1>2, <2>1, <2>2, AppendProperties DEF TypeOK
<1> QED
  BY <1>1, <1>2 DEF TakeOne

\* What runs right after the mutex is taken keeps the types.
LEMMA StartSessionType ==
  ASSUME TypeOK, NEW c \in Cookies, NEW guard \in Seq(Cookies), guard # <<>>,
         StartSession(c, guard)
  PROVE  /\ pc' \in [Cookies -> Stages]
         /\ inflight' \in Seq(Cookies)
         /\ sessions' \subseteq Cookies
         /\ cfg' \in Config \cup {NoConfig}
<1>1. Tail(guard) \in Seq(Cookies)
  BY HeadTailProperties
<1> QED
  BY <1>1 DEF StartSession, RejectIdentity, SpawnSession, TypeOK, Stages, HoldsGuard,
              TaskRuns, Returned

\* An approval that is pushed is well typed, and so is the queue after it.
LEMMA PushType ==
  ASSUME TypeOK, NEW c \in Cookies, Push(c)
  PROVE  queue' \in Seq(Approvals)
  BY ConstantsAssumption, AppendProperties DEF Push, TypeOK, Approvals

\* Recording a grant keeps the ages of the cache.
LEMMA RememberType ==
  ASSUME TypeOK, NEW k \in Keys, Remember(k)
  PROVE  remember' \in [Keys -> Ages]
  BY ConstantsAssumption DEF Remember, TypeOK, Ages, Absent

\* Every action keeps the types.
LEMMA NextType == TypeInv /\ [Next]_vars => TypeOK'
<1> SUFFICES ASSUME TypeInv, [Next]_vars PROVE TypeOK'
  OBVIOUS
<1> USE DEF TypeInv, TypeOK, agentVars, history
<1>1. CASE UNCHANGED vars
  BY <1>1 DEF vars
<1>2. ASSUME NEW c \in Cookies, AgentStep(c) PROVE TypeOK'
  <2>1. CASE AcquireInflight(c)
    BY <2>1, StartSessionType DEF AcquireInflight
  <2>2. CASE ReturnFromBegin(c)
    BY <2>2, HeadTailProperties DEF ReturnFromBegin, OneSession, Stages, HoldsGuard,
      TaskRuns, Returned
  <2>3. CASE PolicyDeny(c)
    BY <2>3 DEF PolicyDeny, Finish, Decide, Stages, HoldsGuard, Verdicts, Decisions
  <2>4. CASE PolicyAllow(c)
    BY <2>4, AppendProperties, ConstantsAssumption DEF PolicyAllow, PushAndHandOff,
      Push, Decide, Stages, HoldsGuard, TaskRuns, Verdicts, Decisions, Approvals
  <2>5. CASE RememberAllow(c)
    BY <2>5, AppendProperties, ConstantsAssumption DEF RememberAllow, PushAndHandOff,
      Push, Decide, Stages, HoldsGuard, TaskRuns, Verdicts, Decisions, Approvals
  <2>6. CASE ShowDialog(c)
    <3>1. cfg.timeout \in Nat
      <4>1. CASE cfg \in Config
        BY <4>1, ConstantsAssumption DEF Config
      <4>2. CASE cfg = NoConfig
        BY <4>2 DEF NoConfig
      <4> QED
        BY <4>1, <4>2
    <3>2. timer' \in Nat
      BY <2>6, <3>1, ConstantsAssumption DEF ShowDialog
    <3> QED
      BY <2>6, <3>2 DEF ShowDialog, Stages, HoldsGuard, TaskRuns
  <2>7. CASE DialogSpawnFails(c)
    BY <2>7 DEF DialogSpawnFails, Finish, Stages, HoldsGuard, Verdicts
  <2>8. CASE DialogDeadline(c)
    BY <2>8 DEF DialogDeadline, Finish, KillDialog, Stages, HoldsGuard, Verdicts
  <2>9. CASE DialogRefused(c)
    BY <2>9 DEF DialogRefused, Finish, Decide, Stages, HoldsGuard, Verdicts, Decisions
  <2>10. CASE DialogAllowed(c)
    <3>1. queue' \in Seq(Approvals)
      BY <2>10, PushType DEF DialogAllowed, PushAndHandOff
    <3>2. remember' \in [Keys -> Ages] /\ sinceTick' \in [Keys -> Ages]
      <4>1. KeyOf[c] \in Keys /\ 0 \in Ages
        BY ConstantsAssumption DEF Ages, Absent
      <4> QED
        BY <2>10, <4>1, RememberType DEF DialogAllowed
    <3> QED
      BY <2>10, <3>1, <3>2, ConstantsAssumption
      DEF DialogAllowed, PushAndHandOff, Decide, Stages, HoldsGuard, TaskRuns, Verdicts,
          Decisions
  <2>11. CASE Helper1TimesOut(c)
    BY <2>11 DEF Helper1TimesOut, Finish, Drain, Stages, HoldsGuard, Verdicts
  <2> QED
    BY <1>2, <2>1, <2>2, <2>3, <2>4, <2>5, <2>6, <2>7, <2>8, <2>9, <2>10, <2>11 DEF AgentStep
<1>3. ASSUME NEW c \in Cookies, OutsideStep(c) PROVE TypeOK'
  <2>1. CASE BeginAuthentication(c)
    <3>1. <<c>> \in Seq(Cookies) /\ <<c>> # <<>>
      OBVIOUS
    <3>2. CASE inflight = <<>> /\ StartSession(c, <<c>>)
      BY <2>1, <3>1, <3>2, StartSessionType DEF BeginAuthentication
    <3>3. CASE inflight # <<>>
      <4>1. Append(inflight, c) \in Seq(Cookies) /\ "waiting" \in Stages
        BY AppendProperties DEF Stages
      <4> QED
        BY <2>1, <3>3, <4>1 DEF BeginAuthentication
    <3> QED
      BY <2>1, <3>2, <3>3 DEF BeginAuthentication
  <2>2. CASE CancelAuthentication(c)
    <3>1. CASE c \in sessions /\ pc[c] \in TaskRuns
      <4>1. "finished" \in Stages /\ "none" \in Verdicts /\ <<>> \in Seq(Approvals)
        BY DEF Stages, HoldsGuard, Verdicts
      <4>2. Finish(c) /\ KillDialog(c) /\ Drain
        BY <2>2, <3>1 DEF CancelAuthentication
      <4>3. /\ cancelled' \subseteq Cookies
            /\ aborted' \subseteq Cookies
            /\ sessions' \subseteq Cookies
        BY <2>2, <3>1 DEF CancelAuthentication
      <4>4. UNCHANGED <<inflight, cfg, helper1, remember, consent, taken, sinceTick>>
        BY <2>2 DEF CancelAuthentication
      <4> QED
        BY <4>1, <4>2, <4>3, <4>4 DEF Finish, KillDialog, Drain
    <3>2. CASE ~(c \in sessions /\ pc[c] \in TaskRuns)
      BY <2>2, <3>2 DEF CancelAuthentication, Drain
    <3> QED
      BY <3>1, <3>2
  <2>3. CASE ReadVerdict(c)
    BY <2>3 DEF ReadVerdict, Stages, HoldsGuard, TaskRuns
  <2>4. CASE DialogReadFails(c)
    BY <2>4 DEF DialogReadFails, Finish, KillDialog, Stages, HoldsGuard, Verdicts
  <2>5. CASE DialogExits(c)
    BY <2>5 DEF DialogExits
  <2>6. CASE Helper1Connects(c)
    BY <2>6 DEF Helper1Connects
  <2>7. CASE Helper1Fails(c)
    BY <2>7 DEF Helper1Fails, Finish, Stages, HoldsGuard, Verdicts
  <2>8. CASE Helper1Succeeds(c)
    BY <2>8 DEF Helper1Succeeds, Finish, Stages, HoldsGuard, Verdicts
  <2>9. CASE Helper1Refuses(c)
    BY <2>9 DEF Helper1Refuses, Finish, Drain, Stages, HoldsGuard, Verdicts
  <2>10. CASE TakeApproval(c)
    BY <2>10, TakeOneType DEF TakeApproval
  <2>11. CASE QueryFails(c)
    BY <2>11 DEF QueryFails
  <2>12. CASE Helper1Exits(c)
    BY <2>12 DEF Helper1Exits
  <2> QED
    BY <1>3, <2>1, <2>2, <2>3, <2>4, <2>5, <2>6, <2>7, <2>8, <2>9, <2>10, <2>11, <2>12 DEF OutsideStep
<1>4. CASE TakeApprovalOther
  BY <1>4, TakeOneType DEF TakeApprovalOther
<1>5. CASE Tick
  <2>1. queue' \in Seq(Approvals)
    <3>1. queue' = [i \in 1 .. Len(queue) |->
                     [owner |-> queue[i].owner, left |-> Countdown(queue[i].left)]]
      BY <1>5 DEF Tick
    <3>2. \A i \in 1 .. Len(queue) : queue'[i] \in Approvals
      <4> SUFFICES ASSUME NEW i \in 1 .. Len(queue) PROVE queue'[i] \in Approvals
        OBVIOUS
      <4>1. queue[i] \in Approvals
        BY ElementOfSeq
      <4> QED
        BY <3>1, <4>1, ConstantsAssumption DEF Approvals, Countdown
    <3>3. Len(queue) \in Nat
      BY LenProperties
    <3> QED
      BY <3>1, <3>2, <3>3, SeqDef
  <2>2. timer' \in Nat
    BY <1>5 DEF Tick, Countdown
  <2>3. remember' \in [Keys -> Ages] /\ sinceTick' \in [Keys -> Ages]
    BY <1>5, ConstantsAssumption DEF Tick, Older, Ages, Absent
  <2> QED
    BY <1>5, <2>1, <2>2, <2>3 DEF Tick
<1> QED
  BY <1>1, <1>2, <1>3, <1>4, <1>5 DEF Next

-----------------------------------------------------------------------------
(* One session at a time, reachable by a cancel, and no dialog without it. *)

SessionInv == OneSession /\ HandleWhileRunning /\ NoOrphanDialog

\* A call that queues for the mutex leaves its holder in front.
LEMMA AppendKeepsHead ==
  ASSUME NEW S, NEW s \in Seq(S), s # <<>>, NEW e \in S
  PROVE  Append(s, e) # <<>> /\ Head(Append(s, e)) = Head(s)
<1>1. Append(s, e) # <<>>
  BY AppendProperties, Zenon
<1>2. Head(Append(s, e)) = IF s = <<>> THEN e ELSE Head(s)
  BY HeadTailAppend, Zenon
<1> QED
  BY <1>1, <1>2, Zenon

\* A fresh agent runs no session.
LEMMA InitSession == Init => SessionInv
  BY DEF Init, SessionInv, OneSession, HandleWhileRunning, NoOrphanDialog, HoldsGuard, TaskRuns

\* Every action keeps one request past the mutex, its handle and its dialog.
LEMMA NextSession == TypeOK /\ SessionInv /\ [Next]_vars => SessionInv'
<1> SUFFICES ASSUME TypeOK /\ SessionInv, [Next]_vars PROVE SessionInv'
  OBVIOUS
<1> USE DEF SessionInv, TypeOK, OneSession, HandleWhileRunning, NoOrphanDialog,
            HoldsGuard, TaskRuns, agentVars, history
<1>1. CASE UNCHANGED vars
  BY <1>1 DEF vars
<1>2. ASSUME NEW c \in Cookies, AgentStep(c) PROVE SessionInv'
  <2>1. CASE AcquireInflight(c)
    <3>1. /\ pc[c] = "waiting" /\ inflight # <<>> /\ c = Head(inflight)
          /\ ui' = ui
      BY <2>1 DEF AcquireInflight
    <3>2. CASE RejectIdentity(c, inflight)
      BY <3>1, <3>2 DEF RejectIdentity, Returned
    <3>3. CASE SpawnSession(c, inflight)
      BY <3>1, <3>3 DEF SpawnSession
    <3> QED BY <2>1, <3>2, <3>3 DEF AcquireInflight, StartSession
  <2>2. CASE ReturnFromBegin(c)
    BY <2>2 DEF ReturnFromBegin, Returned
  <2>3. CASE PolicyDeny(c)
    BY <2>3 DEF PolicyDeny, Finish
  <2>4. CASE PolicyAllow(c)
    BY <2>4 DEF PolicyAllow, PushAndHandOff
  <2>5. CASE RememberAllow(c)
    BY <2>5 DEF RememberAllow, PushAndHandOff
  <2>6. CASE ShowDialog(c)
    BY <2>6 DEF ShowDialog
  <2>7. CASE DialogSpawnFails(c)
    BY <2>7 DEF DialogSpawnFails, Finish
  <2>8. CASE DialogDeadline(c)
    BY <2>8 DEF DialogDeadline, Finish, KillDialog
  <2>9. CASE DialogRefused(c)
    BY <2>9 DEF DialogRefused, Finish
  <2>10. CASE DialogAllowed(c)
    BY <2>10 DEF DialogAllowed, PushAndHandOff
  <2>11. CASE Helper1TimesOut(c)
    BY <2>11 DEF Helper1TimesOut, Finish
  <2> QED
    BY <1>2, <2>1, <2>2, <2>3, <2>4, <2>5, <2>6, <2>7, <2>8, <2>9, <2>10, <2>11 DEF
       AgentStep
<1>3. ASSUME NEW c \in Cookies, OutsideStep(c) PROVE SessionInv'
  <2>1. CASE BeginAuthentication(c)
    <3>1. CASE inflight = <<>> /\ StartSession(c, <<c>>)
      <4>1. <<c>> # <<>> /\ Head(<<c>>) = c
        OBVIOUS
      <4> QED
        BY <2>1, <3>1, <4>1 DEF BeginAuthentication, StartSession, RejectIdentity, SpawnSession
    <3>2. CASE inflight # <<>>
      <4>1. Append(inflight, c) # <<>> /\ Head(Append(inflight, c)) = Head(inflight)
        BY <3>2, AppendKeepsHead
      <4> QED
        BY <2>1, <3>2, <4>1 DEF BeginAuthentication
    <3> QED
      BY <2>1, <3>1, <3>2 DEF BeginAuthentication
  <2>2. CASE CancelAuthentication(c)
    BY <2>2 DEF CancelAuthentication, Finish, KillDialog
  <2>3. CASE ReadVerdict(c)
    BY <2>3 DEF ReadVerdict
  <2>4. CASE DialogReadFails(c)
    BY <2>4 DEF DialogReadFails, Finish, KillDialog
  <2>5. CASE DialogExits(c)
    BY <2>5 DEF DialogExits
  <2>6. CASE Helper1Connects(c)
    BY <2>6 DEF Helper1Connects
  <2>7. CASE Helper1Fails(c)
    BY <2>7 DEF Helper1Fails, Finish
  <2>8. CASE Helper1Succeeds(c)
    BY <2>8 DEF Helper1Succeeds, Finish
  <2>9. CASE Helper1Refuses(c)
    BY <2>9 DEF Helper1Refuses, Finish
  <2>10. CASE TakeApproval(c)
    BY <2>10 DEF TakeApproval
  <2>11. CASE QueryFails(c)
    BY <2>11 DEF QueryFails
  <2>12. CASE Helper1Exits(c)
    BY <2>12 DEF Helper1Exits
  <2> QED
    BY <1>3, <2>1, <2>2, <2>3, <2>4, <2>5, <2>6, <2>7, <2>8, <2>9, <2>10, <2>11, <2>12
       DEF OutsideStep
<1>4. CASE TakeApprovalOther
  BY <1>4 DEF TakeApprovalOther
<1>5. CASE Tick
  BY <1>5 DEF Tick
<1> QED
  BY <1>1, <1>2, <1>3, <1>4, <1>5 DEF Next

-----------------------------------------------------------------------------
(* The approvals.  An approval in the queue belongs to a request that was  *)
(* decided in its favour, that no caller consumed one of and that no       *)
(* cancel aborted, and no two belong to the same request.  It is inductive *)
(* because a request is decided only before its hand-off, and once.        *)

Decided == {"handoff", "finished", "returned"}

OwnedInv ==
    /\ \A c \in Cookies : consent[c] \in Granting => pc[c] \in Decided
    /\ \A c \in aborted : pc[c] \in {"finished", "returned"}
    /\ \A c \in Cookies : taken[c] # <<>> => consent[c] \in Granting /\ Len(taken[c]) = 1
    /\ \A i \in DOMAIN queue : /\ consent[queue[i].owner] \in Granting
                                /\ taken[queue[i].owner] = <<>>
                                /\ queue[i].owner \notin aborted
    /\ \A i, j \in DOMAIN queue : queue[i].owner = queue[j].owner => i = j

\* A fresh agent has handed out nothing.
LEMMA InitOwned == Init => OwnedInv
  BY DEF Init, OwnedInv, Granting

\* Owners of the queue are requests.
LEMMA OwnerType ==
  ASSUME TypeOK, NEW i \in DOMAIN queue
  PROVE  queue[i].owner \in Cookies
<1>1. queue[i] \in Approvals
  BY ElementOfSeq, LenProperties DEF TypeOK
<1> QED
  BY <1>1 DEF Approvals

\* A request that is being decided pushes the first approval of its own.
LEMMA PushKeepsOwned ==
  ASSUME TypeOK, OwnedInv, NEW c \in Cookies, pc[c] \in {"spawned", "reap"},
         PushAndHandOff(c), \E d \in Granting : Decide(c, d), UNCHANGED <<taken, aborted>>
  PROVE  OwnedInv'
<1>1. c \notin aborted /\ consent[c] \notin Granting /\ taken[c] = <<>>
  BY DEF OwnedInv, Decided, TypeOK
<1>2. PICK d \in Granting : consent' = [consent EXCEPT ![c] = d]
  BY DEF Decide
<1>3. pc' = [pc EXCEPT ![c] = "handoff"]
  BY DEF PushAndHandOff
<1>4. /\ DOMAIN queue = 1 .. Len(queue)
      /\ DOMAIN queue' = 1 .. (Len(queue) + 1)
      /\ \A i \in 1 .. Len(queue) : queue'[i] = queue[i]
      /\ queue'[Len(queue) + 1] = [owner |-> c, left |-> Ttl]
      /\ Len(queue) \in Nat
  BY DEF PushAndHandOff, Push, TypeOK
<1>5. \A i \in DOMAIN queue : queue[i].owner # c
  BY <1>1 DEF OwnedInv
<1>6. \A i \in DOMAIN queue' : \/ i \in DOMAIN queue /\ queue'[i] = queue[i]
                               \/ i = Len(queue) + 1 /\ queue'[i].owner = c
  BY <1>4
<1>7. \A i, j \in DOMAIN queue' : queue'[i].owner = queue'[j].owner => i = j
  BY <1>5, <1>6 DEF OwnedInv
<1>8. \A i \in DOMAIN queue' : /\ consent'[queue'[i].owner] \in Granting
                               /\ taken'[queue'[i].owner] = <<>>
                               /\ queue'[i].owner \notin aborted'
  BY <1>1, <1>2, <1>5, <1>6, OwnerType DEF OwnedInv, TypeOK
<1> QED
  BY <1>1, <1>2, <1>3, <1>7, <1>8 DEF OwnedInv, TypeOK, Decided

\* A request that is being decided and refused owns nothing.
LEMMA RefuseKeepsOwned ==
  ASSUME TypeOK, OwnedInv, NEW c \in Cookies, pc[c] \in {"spawned", "reap"},
         Finish(c), Decide(c, "refused"), UNCHANGED <<queue, taken, aborted>>
  PROVE  OwnedInv'
<1>1. consent[c] \notin Granting /\ taken[c] = <<>>
  BY DEF OwnedInv, Decided, TypeOK
<1>2. \A i \in DOMAIN queue : queue[i].owner # c
  BY <1>1 DEF OwnedInv
<1>3. /\ consent' = [consent EXCEPT ![c] = "refused"]
      /\ pc' = [pc EXCEPT ![c] = "finished"]
  BY DEF Decide, Finish
<1>4. \A x \in Cookies : x # c => consent'[x] = consent[x] /\ pc'[x] = pc[x]
  BY <1>3 DEF TypeOK
<1>5. \A i \in DOMAIN queue' : consent'[queue'[i].owner] \in Granting
  BY <1>2, <1>4, OwnerType DEF OwnedInv
<1>6. consent'[c] \notin Granting /\ pc'[c] = "finished"
  BY <1>3 DEF TypeOK, Granting
<1> QED
  BY <1>1, <1>4, <1>5, <1>6 DEF OwnedInv, Decided, TypeOK

\* Consuming an approval removes it and everything before it.
LEMMA TakeKeepsOwned ==
  ASSUME TypeOK, OwnedInv, NEW by \in Cookies \cup {Other}, TakeOne(by),
         UNCHANGED <<pc, consent, aborted>>
  PROVE  OwnedInv'
<1>1. CASE Live = {} /\ queue' = <<>> /\ taken' = taken
  BY <1>1 DEF OwnedInv
<1>2. ASSUME NEW i \in Live, queue' = PopThrough(i),
             taken' = [taken EXCEPT ![queue[i].owner] = Append(@, by)]
      PROVE  OwnedInv'
  <2>1. i \in DOMAIN queue /\ DOMAIN queue = 1 .. Len(queue) /\ Len(queue) \in Nat
    BY LenProperties DEF Live, TypeOK
  <2>2. queue[i].owner \in Cookies
    BY <2>1, OwnerType
  <2>3. taken[queue[i].owner] = <<>> /\ consent[queue[i].owner] \in Granting
    BY <2>1 DEF OwnedInv
  <2>4. /\ DOMAIN queue' = 1 .. (Len(queue) - i)
        /\ \A j \in 1 .. (Len(queue) - i) : queue'[j] = queue[j + i]
    BY <1>2, <2>1 DEF PopThrough
  <2>5. \A j \in DOMAIN queue' : j + i \in DOMAIN queue /\ j + i # i /\ queue'[j] = queue[j + i]
    BY <2>1, <2>4
  <2>6. taken'[queue[i].owner] = <<by>>
    BY <1>2, <2>2, <2>3 DEF TypeOK
  <2>7. Len(taken'[queue[i].owner]) = 1
    BY <2>6
  <2>8. \A j \in DOMAIN queue' : queue'[j].owner # queue[i].owner
    BY <2>1, <2>5 DEF OwnedInv
  <2>9. \A j, k \in DOMAIN queue' : queue'[j].owner = queue'[k].owner => j = k
    BY <2>1, <2>4, <2>5 DEF OwnedInv
  <2>10. \A x \in Cookies : x # queue[i].owner => taken'[x] = taken[x]
    BY <1>2 DEF TypeOK
  <2>11. \A j \in DOMAIN queue' : /\ consent'[queue'[j].owner] \in Granting
                                  /\ taken'[queue'[j].owner] = <<>>
                                  /\ queue'[j].owner \notin aborted'
    BY <2>5, <2>8, <2>10, OwnerType DEF OwnedInv
  <2> QED
    BY <2>3, <2>7, <2>9, <2>10, <2>11 DEF OwnedInv
<1> QED
  BY <1>1, <1>2 DEF TakeOne

\* Every action keeps approvals owned.
LEMMA NextOwned == TypeOK /\ OwnedInv /\ [Next]_vars => OwnedInv'
<1> SUFFICES ASSUME TypeOK /\ OwnedInv, [Next]_vars PROVE OwnedInv'
  OBVIOUS
<1> USE DEF TypeOK, Granting, agentVars, history
<1>1. CASE UNCHANGED vars
  BY <1>1 DEF vars, OwnedInv, Decided
<1>2. ASSUME NEW c \in Cookies, AgentStep(c) PROVE OwnedInv'
  <2>1. CASE AcquireInflight(c)
    BY <2>1 DEF OwnedInv, Decided, AcquireInflight, StartSession, RejectIdentity, SpawnSession
  <2>2. CASE ReturnFromBegin(c)
    BY <2>2 DEF OwnedInv, Decided, ReturnFromBegin
  <2>3. CASE PolicyDeny(c)
    BY <2>3, RefuseKeepsOwned DEF PolicyDeny
  <2>4. CASE PolicyAllow(c)
    <3>1. PushAndHandOff(c) /\ \E d \in Granting : Decide(c, d)
      BY <2>4 DEF OwnedInv, Decided, PolicyAllow, Granting
    <3>2. UNCHANGED <<taken, aborted>>
      BY <2>4 DEF OwnedInv, Decided, PolicyAllow
    <3> QED
      BY <2>4, <3>1, <3>2, PushKeepsOwned DEF PolicyAllow
  <2>5. CASE RememberAllow(c)
    <3>1. PushAndHandOff(c) /\ \E d \in Granting : Decide(c, d)
      BY <2>5 DEF OwnedInv, Decided, RememberAllow, Granting
    <3>2. UNCHANGED <<taken, aborted>>
      BY <2>5 DEF OwnedInv, Decided, RememberAllow
    <3> QED
      BY <2>5, <3>1, <3>2, PushKeepsOwned DEF RememberAllow
  <2>6. CASE ShowDialog(c)
    BY <2>6 DEF OwnedInv, Decided, ShowDialog
  <2>7. CASE DialogSpawnFails(c)
    BY <2>7 DEF OwnedInv, Decided, DialogSpawnFails, Finish
  <2>8. CASE DialogDeadline(c)
    BY <2>8 DEF OwnedInv, Decided, DialogDeadline, Finish
  <2>9. CASE DialogRefused(c)
    BY <2>9, RefuseKeepsOwned DEF DialogRefused
  <2>10. CASE DialogAllowed(c)
    <3>1. PushAndHandOff(c) /\ \E d \in Granting : Decide(c, d)
      BY <2>10 DEF OwnedInv, Decided, DialogAllowed, Granting
    <3>2. UNCHANGED <<taken, aborted>>
      BY <2>10 DEF OwnedInv, Decided, DialogAllowed
    <3> QED
      BY <2>10, <3>1, <3>2, PushKeepsOwned DEF DialogAllowed
  <2>11. CASE Helper1TimesOut(c)
    BY <2>11 DEF OwnedInv, Decided, Helper1TimesOut, Finish, Drain
  <2> QED
    BY <1>2, <2>1, <2>2, <2>3, <2>4, <2>5, <2>6, <2>7, <2>8, <2>9, <2>10, <2>11 DEF
       AgentStep
<1>3. ASSUME NEW c \in Cookies, OutsideStep(c) PROVE OwnedInv'
  <2>1. CASE BeginAuthentication(c)
    BY <2>1 DEF OwnedInv, Decided, BeginAuthentication, StartSession, RejectIdentity, SpawnSession
  <2>2. CASE CancelAuthentication(c)
    <3>1. DOMAIN queue' = {}
      BY <2>2 DEF CancelAuthentication, Drain
    <3>2. UNCHANGED <<consent, taken>>
      BY <2>2 DEF CancelAuthentication
    <3>3. CASE c \in sessions /\ pc[c] \in TaskRuns
      <4>1. aborted' = aborted \cup {c} /\ pc' = [pc EXCEPT ![c] = "finished"]
        BY <2>2, <3>3 DEF CancelAuthentication, Finish
      <4> QED
        BY <3>1, <3>2, <4>1 DEF OwnedInv, Decided
    <3>4. CASE ~(c \in sessions /\ pc[c] \in TaskRuns)
      BY <2>2, <3>1, <3>2, <3>4 DEF CancelAuthentication, OwnedInv
    <3> QED
      BY <3>3, <3>4
  <2>3. CASE ReadVerdict(c)
    BY <2>3 DEF OwnedInv, Decided, ReadVerdict
  <2>4. CASE DialogReadFails(c)
    BY <2>4 DEF OwnedInv, Decided, DialogReadFails, Finish
  <2>5. CASE DialogExits(c)
    BY <2>5 DEF OwnedInv, Decided, DialogExits
  <2>6. CASE Helper1Connects(c)
    BY <2>6 DEF OwnedInv, Decided, Helper1Connects
  <2>7. CASE Helper1Fails(c)
    BY <2>7 DEF OwnedInv, Decided, Helper1Fails, Finish
  <2>8. CASE Helper1Succeeds(c)
    BY <2>8 DEF OwnedInv, Decided, Helper1Succeeds, Finish
  <2>9. CASE Helper1Refuses(c)
    BY <2>9 DEF OwnedInv, Decided, Helper1Refuses, Finish, Drain
  <2>10. CASE TakeApproval(c)
    BY <2>10, TakeKeepsOwned DEF TakeApproval
  <2>11. CASE QueryFails(c)
    BY <2>11 DEF OwnedInv, Decided, QueryFails
  <2>12. CASE Helper1Exits(c)
    BY <2>12 DEF OwnedInv, Decided, Helper1Exits
  <2> QED
    BY <1>3, <2>1, <2>2, <2>3, <2>4, <2>5, <2>6, <2>7, <2>8, <2>9, <2>10, <2>11, <2>12
       DEF OutsideStep
<1>4. CASE TakeApprovalOther
  BY <1>4, TakeKeepsOwned DEF TakeApprovalOther
<1>5. CASE Tick
  <2>1. /\ DOMAIN queue' = DOMAIN queue
        /\ \A i \in DOMAIN queue : queue'[i].owner = queue[i].owner
    BY <1>5 DEF Tick
  <2> QED
    BY <1>5, <2>1 DEF Tick, OwnedInv, Decided
<1> QED
  BY <1>1, <1>2, <1>3, <1>4, <1>5 DEF Next

-----------------------------------------------------------------------------
(* The remember cache: the age it holds is the age of a user's own tick.   *)

GrantInv == \A k \in Keys : remember[k] # Absent => remember[k] = sinceTick[k]

\* A fresh agent remembers nothing.
LEMMA InitGrant == Init => GrantInv
  BY DEF Init, GrantInv

\* Every action keeps the cache in step with the users' ticks.
LEMMA NextGrant == TypeOK /\ GrantInv /\ [Next]_vars => GrantInv'
<1> SUFFICES ASSUME TypeOK /\ GrantInv, [Next]_vars PROVE GrantInv'
  OBVIOUS
<1> USE DEF GrantInv, TypeOK, agentVars, history
<1>1. CASE UNCHANGED vars
  BY <1>1 DEF vars
<1>2. ASSUME NEW c \in Cookies, AgentStep(c) PROVE GrantInv'
  <2>1. CASE AcquireInflight(c)
    BY <2>1 DEF AcquireInflight
  <2>2. CASE ReturnFromBegin(c)
    BY <2>2 DEF ReturnFromBegin
  <2>3. CASE PolicyDeny(c)
    BY <2>3 DEF PolicyDeny
  <2>4. CASE PolicyAllow(c)
    BY <2>4 DEF PolicyAllow
  <2>5. CASE RememberAllow(c)
    BY <2>5 DEF RememberAllow
  <2>6. CASE ShowDialog(c)
    BY <2>6 DEF ShowDialog
  <2>7. CASE DialogSpawnFails(c)
    BY <2>7 DEF DialogSpawnFails
  <2>8. CASE DialogDeadline(c)
    BY <2>8 DEF DialogDeadline
  <2>9. CASE DialogRefused(c)
    BY <2>9 DEF DialogRefused
  <2>10. CASE DialogAllowed(c)
    <3>1. CASE verdict = "allow_remember" /\ cfg.remember_seconds > 0
      <4>1. Remember(KeyOf[c]) /\ sinceTick' = [sinceTick EXCEPT ![KeyOf[c]] = 0]
        BY <2>10, <3>1 DEF DialogAllowed
      <4> QED
        BY <4>1, ConstantsAssumption DEF Remember, Absent
    <3>2. CASE ~(verdict = "allow_remember" /\ cfg.remember_seconds > 0)
      BY <2>10, <3>2 DEF DialogAllowed
    <3> QED
      BY <3>1, <3>2
  <2>11. CASE Helper1TimesOut(c)
    BY <2>11 DEF Helper1TimesOut
  <2> QED
    BY <1>2, <2>1, <2>2, <2>3, <2>4, <2>5, <2>6, <2>7, <2>8, <2>9, <2>10, <2>11 DEF
       AgentStep
<1>3. ASSUME NEW c \in Cookies, OutsideStep(c) PROVE GrantInv'
  <2>1. CASE BeginAuthentication(c)
    BY <2>1 DEF BeginAuthentication
  <2>2. CASE CancelAuthentication(c)
    BY <2>2 DEF CancelAuthentication
  <2>3. CASE ReadVerdict(c)
    BY <2>3 DEF ReadVerdict
  <2>4. CASE DialogReadFails(c)
    BY <2>4 DEF DialogReadFails
  <2>5. CASE DialogExits(c)
    BY <2>5 DEF DialogExits
  <2>6. CASE Helper1Connects(c)
    BY <2>6 DEF Helper1Connects
  <2>7. CASE Helper1Fails(c)
    BY <2>7 DEF Helper1Fails
  <2>8. CASE Helper1Succeeds(c)
    BY <2>8 DEF Helper1Succeeds
  <2>9. CASE Helper1Refuses(c)
    BY <2>9 DEF Helper1Refuses
  <2>10. CASE TakeApproval(c)
    BY <2>10 DEF TakeApproval
  <2>11. CASE QueryFails(c)
    BY <2>11 DEF QueryFails
  <2>12. CASE Helper1Exits(c)
    BY <2>12 DEF Helper1Exits
  <2> QED
    BY <1>3, <2>1, <2>2, <2>3, <2>4, <2>5, <2>6, <2>7, <2>8, <2>9, <2>10, <2>11, <2>12
       DEF OutsideStep
<1>4. CASE TakeApprovalOther
  BY <1>4 DEF TakeApprovalOther
<1>5. CASE Tick
  BY <1>5 DEF Tick, Older, Absent
<1> QED
  BY <1>1, <1>2, <1>3, <1>4, <1>5 DEF Next

-----------------------------------------------------------------------------
(* The inductive invariant, and what follows from it.                      *)

Inv == TypeOK /\ SessionInv /\ OwnedInv /\ GrantInv

\* The four parts together are an invariant of the agent.
LEMMA InvIsInvariant == Spec => []Inv
<1>1. Init => Inv
  BY InitType, InitSession, InitOwned, InitGrant DEF Inv, TypeInv
<1>2. Inv /\ [Next]_vars => Inv'
  BY NextType, NextSession, NextOwned, NextGrant DEF Inv, TypeInv, SessionInv
<1> QED
  BY <1>1, <1>2, PTL DEF Spec

\* The state of the agent stays well typed: no timer or lifetime runs below
\* zero, and no remembered age passes the cap (helper1.rs, approval_queue.rs,
\* remember.rs).
THEOREM TypeCorrect == Spec => []TypeOK
  BY InvIsInvariant, PTL DEF Inv

\* One request at a time is past `inflight` (agent.rs: begin_authentication).
THEOREM SessionSafety == Spec => []OneSession
  BY InvIsInvariant, PTL DEF Inv, SessionInv

\* A running session task can be reached through the `sessions` map, so that
\* a cancel can abort it (agent.rs: begin_authentication, cancel_authentication).
THEOREM SessionsCanBeAborted == Spec => []HandleWhileRunning
  BY InvIsInvariant, PTL DEF Inv, SessionInv

\* No dialog outlives its session, whichever way that ends (helper_ui.rs: run).
THEOREM DialogsAreNotOrphaned == Spec => []NoOrphanDialog
  BY InvIsInvariant, PTL DEF Inv, SessionInv

\* A set with at most one element has a cardinality of at most one.
LEMMA AtMostOne ==
  ASSUME NEW S, \A x, y \in S : x = y
  PROVE  Cardinality(S) \in {0, 1} /\ (S = {} => Cardinality(S) = 0)
<1>1. CASE S = {}
  BY <1>1, FS_EmptySet
<1>2. ASSUME NEW x \in S PROVE Cardinality(S) = 1
  <2>1. S = {x}
    BY <1>2
  <2> QED
    BY <2>1, FS_Singleton
<1> QED
  BY <1>1, <1>2

\* An approval is issued only on a decision in favour of its request, and is
\* used at most once (approval_queue.rs, session.rs).
THEOREM ApprovalsAreOneShot == Spec => []OneShot
<1>1. Inv => OneShot
  <2> SUFFICES ASSUME Inv, NEW c \in Cookies
               PROVE  Len(taken[c]) + Cardinality({i \in DOMAIN queue : queue[i].owner = c})
                        <= IF consent[c] \in Granting THEN 1 ELSE 0
    BY DEF OneShot
  <2> DEFINE Own == {i \in DOMAIN queue : queue[i].owner = c}
  <2>1. Cardinality(Own) \in {0, 1} /\ (Own = {} => Cardinality(Own) = 0)
    BY AtMostOne DEF Inv, OwnedInv
  <2>2. CASE taken[c] # <<>>
    <3>1. Own = {}
      BY <2>2 DEF Inv, OwnedInv
    <3>2. consent[c] \in Granting /\ Len(taken[c]) = 1
      BY <2>2 DEF Inv, OwnedInv
    <3> QED
      BY <2>1, <3>1, <3>2
  <2>3. CASE taken[c] = <<>>
    <3>1. Len(taken[c]) = 0
      BY <2>3
    <3>2. Own # {} => consent[c] \in Granting
      BY DEF Inv, OwnedInv
    <3> QED
      BY <2>1, <3>1, <3>2
  <2> QED
    BY <2>2, <2>3
<1> QED
  BY <1>1, InvIsInvariant, PTL

\* No approval of an aborted session is ever queued (agent.rs).
THEOREM AbortedSafety == Spec => []AbortedHoldsNothing
<1>1. Inv => AbortedHoldsNothing
  BY DEF Inv, OwnedInv, AbortedHoldsNothing
<1> QED
  BY <1>1, InvIsInvariant, PTL

-----------------------------------------------------------------------------
(* Action properties.                                                      *)

\* Only a query of the queue consumes an approval.
LEMMA OnlyTakes ==
  ASSUME [Next]_vars, taken' # taken
  PROVE  \E by \in Cookies \cup {Other} : TakeOne(by)
<1> USE DEF vars, agentVars, history
<1>1. ASSUME NEW c \in Cookies, AgentStep(c) PROVE FALSE
  BY <1>1 DEF AgentStep,
      AcquireInflight, ReturnFromBegin, PolicyDeny, PolicyAllow, RememberAllow,
      ShowDialog, DialogSpawnFails, DialogDeadline, DialogRefused, DialogAllowed,
      Helper1TimesOut
<1>2. ASSUME NEW c \in Cookies, OutsideStep(c) PROVE TakeOne(c)
  BY <1>2 DEF OutsideStep,
      BeginAuthentication, CancelAuthentication, ReadVerdict, DialogReadFails,
      DialogExits, Helper1Connects, Helper1Fails, Helper1Succeeds, Helper1Refuses,
      TakeApproval, QueryFails, Helper1Exits
<1>3. ASSUME TakeApprovalOther PROVE TakeOne(Other)
  BY <1>3 DEF TakeApprovalOther
<1> QED
  BY <1>1, <1>2, <1>3 DEF Next, Tick

\* What a query hands out was live, and every other live approval stays.
LEMMA TakeIsLive ==
  ASSUME TypeOK, NEW by, TakeOne(by), NEW c \in Cookies, taken'[c] # taken[c]
  PROVE  /\ \E i \in DOMAIN queue : queue[i].owner = c /\ queue[i].left > 0
         /\ \A i \in DOMAIN queue : queue[i].owner # c /\ queue[i].left > 0 =>
               \E j \in DOMAIN queue' : queue'[j] = queue[i]
<1>1. PICK i \in Live :
        /\ \A j \in Live : i <= j
        /\ queue' = PopThrough(i)
        /\ taken' = [taken EXCEPT ![queue[i].owner] = Append(@, by)]
  BY DEF TakeOne
<1>2. /\ DOMAIN queue = 1 .. Len(queue) /\ Len(queue) \in Nat
      /\ i \in 1 .. Len(queue) /\ queue[i].left > 0
  BY DEF Live, TypeOK
<1>3. queue[i].owner = c
  BY <1>1 DEF TypeOK
<1>4. /\ DOMAIN queue' = 1 .. (Len(queue) - i)
      /\ \A j \in 1 .. (Len(queue) - i) : queue'[j] = queue[j + i]
  BY <1>1, <1>2 DEF PopThrough
<1>5. ASSUME NEW k \in DOMAIN queue, queue[k].owner # c, queue[k].left > 0
      PROVE  \E j \in DOMAIN queue' : queue'[j] = queue[k]
  <2>1. k \in Live
    BY <1>5 DEF Live
  <2>2. i <= k /\ i # k
    BY <1>1, <1>3, <1>5, <2>1
  <2>3. k - i \in DOMAIN queue' /\ (k - i) + i = k
    BY <1>2, <1>4, <2>2
  <2> QED
    BY <1>4, <2>3
<1> QED
  BY <1>2, <1>3, <1>5

\* TakeApproval never hands out an expired approval nor drops another live
\* one (approval_queue.rs: take_one).
THEOREM TakesAreLive == Spec => TakesOneLive
<1>1. Inv /\ [Next]_vars =>
        [\A c \in Cookies : taken'[c] # taken[c] =>
            /\ \E i \in DOMAIN queue : queue[i].owner = c /\ queue[i].left > 0
            /\ \A i \in DOMAIN queue : queue[i].owner # c /\ queue[i].left > 0 =>
                  \E j \in DOMAIN queue' : queue'[j] = queue[i]]_vars
  BY OnlyTakes, TakeIsLive DEF Inv
<1> QED
  BY <1>1, InvIsInvariant, PTL DEF Spec, TakesOneLive

\* Only RememberAllow decides a request from the cache.
LEMMA OnlyRememberAllow ==
  ASSUME TypeOK, [Next]_vars, NEW c \in Cookies, consent[c] # consent'[c],
         consent'[c] = "remember"
  PROVE  RememberAllow(c)
<1> USE DEF TypeOK, vars, agentVars, history
<1>1. ASSUME NEW d \in Cookies, AgentStep(d) PROVE RememberAllow(c)
  BY <1>1 DEF AgentStep, Decide,
      AcquireInflight, ReturnFromBegin, PolicyDeny, PolicyAllow, RememberAllow,
      ShowDialog, DialogSpawnFails, DialogDeadline, DialogRefused, DialogAllowed,
      Helper1TimesOut
<1>2. ASSUME NEW d \in Cookies, OutsideStep(d) PROVE RememberAllow(c)
  BY <1>2 DEF OutsideStep,
      BeginAuthentication, CancelAuthentication, ReadVerdict, DialogReadFails,
      DialogExits, Helper1Connects, Helper1Fails, Helper1Succeeds, Helper1Refuses,
      TakeApproval, QueryFails, Helper1Exits
<1> QED
  BY <1>1, <1>2 DEF Next, Tick, TakeApprovalOther

\* An auto-allow rests on a tick of the user's that is younger than both the
\* loaded window and MAX_REMEMBER (session.rs, remember.rs).
THEOREM AutoAllowsAreBounded == Spec => RememberBounded
<1>1. ASSUME Inv, [Next]_vars, NEW c \in Cookies, consent[c] # consent'[c],
             consent'[c] = "remember"
      PROVE  /\ sinceTick[KeyOf[c]] # Absent
             /\ sinceTick[KeyOf[c]] < cfg.remember_seconds
             /\ sinceTick[KeyOf[c]] < MaxRemember
  <2>1. IsFresh(KeyOf[c], cfg.remember_seconds)
    BY <1>1, OnlyRememberAllow DEF Inv, RememberAllow
  <2>2. KeyOf[c] \in Keys
    BY ConstantsAssumption
  <2>3. remember[KeyOf[c]] = sinceTick[KeyOf[c]] /\ remember[KeyOf[c]] # Absent
    BY <1>1, <2>1, <2>2 DEF Inv, GrantInv, IsFresh
  <2>4. remember[KeyOf[c]] \in Int
    BY <1>1, <2>2, ConstantsAssumption DEF Inv, TypeOK, Ages, Absent
  <2>5. cfg.remember_seconds \in Nat
    <3>1. CASE cfg \in Config
      BY <3>1, ConstantsAssumption DEF Config
    <3>2. CASE cfg = NoConfig
      BY <3>2 DEF NoConfig
    <3> QED
      BY <1>1, <3>1, <3>2 DEF Inv, TypeOK
  <2> QED
    BY <2>1, <2>3, <2>4, <2>5, ConstantsAssumption DEF IsFresh, Shorter
<1>2. Inv /\ [Next]_vars =>
        [\A c \in Cookies : consent[c] # consent'[c] /\ consent'[c] = "remember" =>
            LET age == sinceTick[KeyOf[c]]
            IN  age # Absent /\ age < cfg.remember_seconds /\ age < MaxRemember]_vars
  BY <1>1
<1> QED
  BY <1>2, InvIsInvariant, PTL DEF Spec, RememberBounded

-----------------------------------------------------------------------------
(* Refinement of ApprovalLedger.  Every step leaves the queue alone, pushes *)
(* one approval, drains, consumes one or lets time pass; each of the five   *)
(* is a step of the ledger or a stutter.                                    *)

\* A step that touches neither the queue nor a decision moves no permit.
LEMMA KeepStutters ==
  ASSUME UNCHANGED <<queue, taken>>,
         \A c \in Cookies : consent'[c] \in Granting <=> consent[c] \in Granting
  PROVE  Permit' = Permit
  BY DEF Permit

\* Pushing issues the permit of the request that is being decided.
LEMMA PushIssues ==
  ASSUME Inv, NEW c \in Cookies, pc[c] \in {"spawned", "reap"},
         PushAndHandOff(c), \E d \in Granting : Decide(c, d), taken' = taken
  PROVE  Ledger!Issue(c)
<1>1. consent[c] \notin Granting /\ taken[c] = <<>>
  BY DEF Inv, OwnedInv, Decided, TypeOK
<1>2. \A i \in DOMAIN queue : queue[i].owner # c
  BY <1>1 DEF Inv, OwnedInv
<1>3. /\ DOMAIN queue = 1 .. Len(queue)
      /\ DOMAIN queue' = 1 .. (Len(queue) + 1)
      /\ \A i \in 1 .. Len(queue) : queue'[i] = queue[i]
      /\ queue'[Len(queue) + 1] = [owner |-> c, left |-> Ttl]
      /\ Len(queue) \in Nat
  BY DEF PushAndHandOff, Push, Inv, TypeOK
<1>4. \A x \in Cookies : x # c => (consent'[x] = consent[x])
  BY DEF Decide, Inv, TypeOK
<1>5. Permit[c] = "idle"
  BY <1>1, <1>2 DEF Permit
<1>6. Permit'[c] = "live"
  <2>1. Len(queue) + 1 \in DOMAIN queue' /\ queue'[Len(queue) + 1].owner = c
        /\ queue'[Len(queue) + 1].left > 0
    BY <1>3, ConstantsAssumption
  <2> QED
    BY <1>1, <2>1 DEF Permit
<1>7. ASSUME NEW x \in Cookies, x # c PROVE Permit'[x] = Permit[x]
  <2>1. (\E i \in DOMAIN queue' : queue'[i].owner = x /\ queue'[i].left > 0)
          <=> (\E i \in DOMAIN queue : queue[i].owner = x /\ queue[i].left > 0)
    BY <1>3, <1>7
  <2> QED
    BY <1>4, <1>7, <2>1 DEF Permit
<1>8. Permit' = [Permit EXCEPT ![c] = "live"]
  <2>1. Permit' = [x \in Cookies |-> Permit'[x]] /\ Permit = [x \in Cookies |-> Permit[x]]
    BY DEF Permit
  <2> QED
    BY <1>6, <1>7, <2>1
<1> QED
  BY <1>5, <1>8 DEF Ledger!Issue

\* A step that only takes live approvals away voids their permits.
LEMMA LossVoids ==
  ASSUME UNCHANGED <<taken, consent>>, Inv,
         \A j \in DOMAIN queue' : queue'[j].left > 0 =>
            \E i \in DOMAIN queue : queue[i].owner = queue'[j].owner /\ queue[i].left > 0
  PROVE  \E S \in SUBSET Cookies : Ledger!Void(S)
<1> DEFINE S == {c \in Cookies : Permit[c] = "live" /\ Permit'[c] # "live"}
<1>1. ASSUME NEW c \in Cookies PROVE Permit'[c] = IF c \in S THEN "void" ELSE Permit[c]
  <2>1. (\E j \in DOMAIN queue' : queue'[j].owner = c /\ queue'[j].left > 0)
          => \E i \in DOMAIN queue : queue[i].owner = c /\ queue[i].left > 0
    OBVIOUS
  <2>2. (\E i \in DOMAIN queue : queue[i].owner = c /\ queue[i].left > 0)
          => consent[c] \in Granting
    BY DEF Inv, OwnedInv
  <2> QED
    BY <2>1, <2>2 DEF Permit
<1>2. Permit' = [c \in Cookies |-> IF c \in S THEN "void" ELSE Permit[c]]
  <2>1. Permit' = [c \in Cookies |-> Permit'[c]]
    BY DEF Permit
  <2> QED
    BY <1>1, <2>1
<1>3. \A c \in S : Permit[c] = "live"
  OBVIOUS
<1>4. Ledger!Void(S)
  BY <1>2, <1>3 DEF Ledger!Void
<1> QED
  BY <1>4

\* Consuming an approval spends its permit and no other.
LEMMA TakeSpends ==
  ASSUME Inv, NEW by, TakeOne(by), consent' = consent
  PROVE  Permit' = Permit \/ \E c \in Cookies : Ledger!Spend(c)
<1>1. CASE Live = {} /\ queue' = <<>> /\ taken' = taken
  <2>1. \A i \in DOMAIN queue : ~(queue[i].left > 0)
    BY <1>1 DEF Live
  <2>2. DOMAIN queue' = {}
    BY <1>1
  <2> QED
    BY <1>1, <2>1, <2>2 DEF Permit
<1>2. ASSUME NEW i \in Live, \A j \in Live : i <= j, queue' = PopThrough(i),
             taken' = [taken EXCEPT ![queue[i].owner] = Append(@, by)]
      PROVE  \E c \in Cookies : Ledger!Spend(c)
  <2> DEFINE c == queue[i].owner
  <2>1. /\ DOMAIN queue = 1 .. Len(queue) /\ Len(queue) \in Nat
        /\ i \in 1 .. Len(queue) /\ i \in DOMAIN queue /\ queue[i].left > 0
    BY DEF Live, Inv, TypeOK
  <2>2. c \in Cookies /\ taken[c] = <<>>
    BY <2>1, OwnerType DEF Inv, OwnedInv
  <2>3. Permit[c] = "live"
    BY <2>1, <2>2 DEF Permit
  <2>4. Permit'[c] = "spent"
    <3>1. taken'[c] = <<by>>
      BY <1>2, <2>2 DEF Inv, TypeOK
    <3>2. taken'[c] # <<>>
      BY <3>1
    <3> QED
      BY <2>2, <3>2 DEF Permit
  <2>5. /\ DOMAIN queue' = 1 .. (Len(queue) - i)
        /\ \A j \in 1 .. (Len(queue) - i) : queue'[j] = queue[j + i]
    BY <1>2, <2>1 DEF PopThrough
  <2>6. ASSUME NEW x \in Cookies, x # c PROVE Permit'[x] = Permit[x]
    <3>1. taken'[x] = taken[x]
      BY <1>2, <2>6 DEF Inv, TypeOK
    <3>2. ASSUME NEW j \in DOMAIN queue', queue'[j].owner = x, queue'[j].left > 0
          PROVE  \E k \in DOMAIN queue : queue[k].owner = x /\ queue[k].left > 0
      <4>1. j + i \in DOMAIN queue /\ queue'[j] = queue[j + i]
        BY <2>1, <2>5, <3>2
      <4> QED
        BY <3>2, <4>1
    <3>3. ASSUME NEW k \in DOMAIN queue, queue[k].owner = x, queue[k].left > 0
          PROVE  \E j \in DOMAIN queue' : queue'[j].owner = x /\ queue'[j].left > 0
      <4>1. k \in Live
        BY <3>3 DEF Live
      <4>2. i <= k /\ i # k
        BY <1>2, <2>6, <3>3, <4>1
      <4>3. k - i \in DOMAIN queue' /\ queue'[k - i] = queue[k]
        <5>1. k - i \in 1 .. (Len(queue) - i) /\ (k - i) + i = k
          BY <2>1, <4>2
        <5> QED
          BY <2>5, <5>1
      <4> QED
        BY <3>3, <4>3
    <3> QED
      BY <3>1, <3>2, <3>3 DEF Permit
  <2>7. Permit' = [Permit EXCEPT ![c] = "spent"]
    <3>1. Permit' = [x \in Cookies |-> Permit'[x]] /\ Permit = [x \in Cookies |-> Permit[x]]
      BY DEF Permit
    <3> QED
      BY <2>4, <2>6, <3>1
  <2> QED
    BY <2>2, <2>3, <2>7 DEF Ledger!Spend
<1> QED
  BY <1>1, <1>2 DEF TakeOne

\* Each step of the agent is a step of the ledger or leaves it alone.
LEMMA LedgerStep == Inv /\ [Next]_vars => [Ledger!Next]_Permit
<1> SUFFICES ASSUME Inv, [Next]_vars PROVE [Ledger!Next]_Permit
  OBVIOUS
<1> USE DEF agentVars, history
<1>1. CASE UNCHANGED vars
  BY <1>1 DEF vars, Permit
<1>2. ASSUME NEW c \in Cookies, AgentStep(c) PROVE [Ledger!Next]_Permit
  <2>1. CASE AcquireInflight(c)
    BY <2>1, KeepStutters DEF AcquireInflight
  <2>2. CASE ReturnFromBegin(c)
    BY <2>2, KeepStutters DEF ReturnFromBegin
  <2>3. CASE PolicyDeny(c)
    <3>1. consent[c] \notin Granting
      BY <2>3 DEF PolicyDeny, Inv, OwnedInv, Decided
    <3>2. \A x \in Cookies : consent'[x] \in Granting <=> consent[x] \in Granting
      BY <2>3, <3>1 DEF PolicyDeny, Decide, Granting, Inv, TypeOK
    <3> QED
      BY <2>3, <3>2, KeepStutters DEF PolicyDeny
  <2>4. CASE PolicyAllow(c)
    <3>1. PushAndHandOff(c) /\ \E d \in Granting : Decide(c, d)
      BY <2>4 DEF PolicyAllow, Granting
    <3>2. Ledger!Issue(c)
      BY <2>4, <3>1, PushIssues DEF PolicyAllow
    <3> QED
      BY <3>2 DEF Ledger!Next
  <2>5. CASE RememberAllow(c)
    <3>1. PushAndHandOff(c) /\ \E d \in Granting : Decide(c, d)
      BY <2>5 DEF RememberAllow, Granting
    <3>2. Ledger!Issue(c)
      BY <2>5, <3>1, PushIssues DEF RememberAllow
    <3> QED
      BY <3>2 DEF Ledger!Next
  <2>6. CASE ShowDialog(c)
    BY <2>6, KeepStutters DEF ShowDialog
  <2>7. CASE DialogSpawnFails(c)
    BY <2>7, KeepStutters DEF DialogSpawnFails
  <2>8. CASE DialogDeadline(c)
    BY <2>8, KeepStutters DEF DialogDeadline
  <2>9. CASE DialogRefused(c)
    <3>1. consent[c] \notin Granting
      BY <2>9 DEF DialogRefused, Inv, OwnedInv, Decided
    <3>2. \A x \in Cookies : consent'[x] \in Granting <=> consent[x] \in Granting
      BY <2>9, <3>1 DEF DialogRefused, Decide, Granting, Inv, TypeOK
    <3> QED
      BY <2>9, <3>2, KeepStutters DEF DialogRefused
  <2>10. CASE DialogAllowed(c)
    <3>1. PushAndHandOff(c) /\ \E d \in Granting : Decide(c, d)
      BY <2>10 DEF DialogAllowed, Granting
    <3>2. Ledger!Issue(c)
      BY <2>10, <3>1, PushIssues DEF DialogAllowed
    <3> QED
      BY <3>2 DEF Ledger!Next
  <2>11. CASE Helper1TimesOut(c)
    <3>1. DOMAIN queue' = {} /\ UNCHANGED <<taken, consent>>
      BY <2>11 DEF Helper1TimesOut, Drain
    <3> QED
      BY <3>1, LossVoids DEF Ledger!Next
  <2> QED
    BY <1>2, <2>1, <2>2, <2>3, <2>4, <2>5, <2>6, <2>7, <2>8, <2>9, <2>10, <2>11 DEF
       AgentStep
<1>3. ASSUME NEW c \in Cookies, OutsideStep(c) PROVE [Ledger!Next]_Permit
  <2>1. CASE BeginAuthentication(c)
    BY <2>1, KeepStutters DEF BeginAuthentication
  <2>2. CASE CancelAuthentication(c)
    <3>1. DOMAIN queue' = {} /\ UNCHANGED <<taken, consent>>
      BY <2>2 DEF CancelAuthentication, Drain
    <3> QED
      BY <3>1, LossVoids DEF Ledger!Next
  <2>3. CASE ReadVerdict(c)
    BY <2>3, KeepStutters DEF ReadVerdict
  <2>4. CASE DialogReadFails(c)
    BY <2>4, KeepStutters DEF DialogReadFails
  <2>5. CASE DialogExits(c)
    BY <2>5, KeepStutters DEF DialogExits
  <2>6. CASE Helper1Connects(c)
    BY <2>6, KeepStutters DEF Helper1Connects
  <2>7. CASE Helper1Fails(c)
    BY <2>7, KeepStutters DEF Helper1Fails
  <2>8. CASE Helper1Succeeds(c)
    BY <2>8, KeepStutters DEF Helper1Succeeds
  <2>9. CASE Helper1Refuses(c)
    <3>1. DOMAIN queue' = {} /\ UNCHANGED <<taken, consent>>
      BY <2>9 DEF Helper1Refuses, Drain
    <3> QED
      BY <3>1, LossVoids DEF Ledger!Next
  <2>10. CASE TakeApproval(c)
    BY <2>10, TakeSpends DEF TakeApproval, Ledger!Next
  <2>11. CASE QueryFails(c)
    BY <2>11, KeepStutters DEF QueryFails
  <2>12. CASE Helper1Exits(c)
    BY <2>12, KeepStutters DEF Helper1Exits
  <2> QED
    BY <1>3, <2>1, <2>2, <2>3, <2>4, <2>5, <2>6, <2>7, <2>8, <2>9, <2>10, <2>11, <2>12
       DEF OutsideStep
<1>4. CASE TakeApprovalOther
  BY <1>4, TakeSpends DEF TakeApprovalOther, Ledger!Next
<1>5. CASE Tick
  <2>1. UNCHANGED <<taken, consent>>
    BY <1>5 DEF Tick
  <2>2. ASSUME NEW j \in DOMAIN queue', queue'[j].left > 0
        PROVE  \E i \in DOMAIN queue : queue[i].owner = queue'[j].owner /\ queue[i].left > 0
    <3>1. j \in DOMAIN queue /\ queue'[j].owner = queue[j].owner
          /\ queue'[j].left = Countdown(queue[j].left)
      BY <1>5 DEF Tick
    <3>2. queue[j].left \in Nat
      <4>1. queue[j] \in Approvals
        BY <3>1, ElementOfSeq, LenProperties DEF Inv, TypeOK
      <4> QED
        BY <4>1, ConstantsAssumption DEF Approvals
    <3> QED
      BY <2>2, <3>1, <3>2 DEF Countdown
  <2> QED
    BY <2>1, <2>2, LossVoids DEF Ledger!Next
<1> QED
  BY <1>1, <1>2, <1>3, <1>4, <1>5 DEF Next

\* The approval machinery implements one-shot permits: a permit is issued
\* once, on a decision, and is then spent once or void for good
\* (approval_queue.rs, session.rs, agent.rs: cancel_authentication).
THEOREM LedgerRefinement == Spec => RefinesLedger
<1>1. Init => Ledger!Init
  BY DEF Init, Ledger!Init, Permit, Granting
<1>2. Inv /\ [Next]_vars => [Ledger!Next]_Permit
  BY LedgerStep
<1> QED
  BY <1>1, <1>2, InvIsInvariant, PTL DEF Spec, RefinesLedger, Ledger!Spec
=============================================================================
