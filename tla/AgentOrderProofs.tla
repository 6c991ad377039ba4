-------------------------- MODULE AgentOrderProofs --------------------------
(***************************************************************************)
(* The order of things in the agent, for any requests and timeouts: who    *)
(* waits for the serialisation mutex, and how old the approvals in the     *)
(* queue are.  That no call is forgotten by the mutex is the safety half   *)
(* of EveryCallReturns; that leftovers come first is what holds where      *)
(* approval_queue.rs says that there are none.                             *)
(***************************************************************************)
EXTENDS PolkitAgentProofs

\* A call that is inside BeginAuthentication.
InCall == {"waiting"} \cup HoldsGuard

-----------------------------------------------------------------------------
(* What steps do to the mutex                                              *)

\* c's call comes in: it takes the free mutex, fails with it in hand, or
\* queues for it.
Enters(c) ==
    /\ pc[c] = "new"
    /\ \/ /\ inflight = <<>> /\ inflight' = <<c>>
          /\ pc' = [pc EXCEPT ![c] = "spawned"]
       \/ /\ inflight' = inflight
          /\ pc' = [pc EXCEPT ![c] = "failed"]
       \/ /\ inflight' = Append(inflight, c)
          /\ pc' = [pc EXCEPT ![c] = "waiting"]

\* c's call, which heads the mutex, returns and releases it.
Leaves(c) ==
    /\ inflight # <<>> /\ c = Head(inflight) /\ inflight' = Tail(inflight)
    /\ \E s \in Returned : pc' = [pc EXCEPT ![c] = s]

\* Nobody comes or goes.
Stays ==
    /\ inflight' = inflight
    /\ \A c \in Cookies : pc'[c] = pc[c] \/ (pc[c] \in InCall /\ pc'[c] \in InCall)

\* A call that fails at once has the mutex it took for the moment back.
LEMMA TailOfOne == ASSUME NEW c PROVE Tail(<<c>>) = <<>>
  OBVIOUS

\* Every step of the agent is one of the three.
LEMMA MutexSteps ==
    ASSUME TypeOK, SessionInv, [Next]_vars
    PROVE  Stays \/ \E c \in Cookies : Enters(c) \/ Leaves(c)
<1>1. pc \in [Cookies -> Stages] /\ OneSession /\ HandleWhileRunning
  BY DEF TypeOK, SessionInv
<1>2. ASSUME UNCHANGED <<pc, inflight>> PROVE Stays
  BY <1>2 DEF Stays
<1>3. ASSUME NEW c \in Cookies, pc[c] \in TaskRuns, inflight' = inflight,
             NEW s \in HoldsGuard, pc' = [pc EXCEPT ![c] = s]
      PROVE  Stays
  BY <1>1, <1>3 DEF Stays, InCall, HoldsGuard
<1>4. ASSUME NEW c \in Cookies, AgentStep(c)
      PROVE  Stays \/ Enters(c) \/ Leaves(c)
  <2>1. CASE AcquireInflight(c)
    <3>1. CASE RejectIdentity(c, inflight)
      BY <2>1, <3>1 DEF AcquireInflight, RejectIdentity, Leaves, Returned
    <3>2. CASE SpawnSession(c, inflight)
      BY <1>1, <2>1, <3>2 DEF AcquireInflight, SpawnSession, Stays, InCall, HoldsGuard, TaskRuns
    <3> QED BY <2>1, <3>1, <3>2 DEF AcquireInflight, StartSession
  <2>2. CASE ReturnFromBegin(c)
    BY <1>1, <2>2 DEF ReturnFromBegin, OneSession, HoldsGuard, Leaves, Returned
  <2>3. CASE PolicyDeny(c) \/ DialogSpawnFails(c) \/ DialogDeadline(c) \/ DialogRefused(c)
               \/ Helper1TimesOut(c)
    <3>1. pc[c] \in TaskRuns /\ inflight' = inflight /\ pc' = [pc EXCEPT ![c] = "finished"]
      BY <2>3 DEF PolicyDeny, DialogSpawnFails, DialogDeadline, DialogRefused, Helper1TimesOut,
                  Finish, TaskRuns
    <3> QED BY <1>3, <3>1 DEF HoldsGuard
  <2>4. CASE PolicyAllow(c) \/ RememberAllow(c) \/ DialogAllowed(c)
    <3>1. pc[c] \in TaskRuns /\ inflight' = inflight /\ pc' = [pc EXCEPT ![c] = "handoff"]
      BY <2>4 DEF PolicyAllow, RememberAllow, DialogAllowed, PushAndHandOff, TaskRuns
    <3> QED BY <1>3, <3>1 DEF HoldsGuard, TaskRuns
  <2>5. CASE ShowDialog(c)
    <3>1. pc[c] \in TaskRuns /\ inflight' = inflight /\ pc' = [pc EXCEPT ![c] = "dialog"]
      BY <2>5 DEF ShowDialog, TaskRuns
    <3> QED BY <1>3, <3>1 DEF HoldsGuard, TaskRuns
  <2> QED BY <1>4, <2>1, <2>2, <2>3, <2>4, <2>5 DEF AgentStep
<1>5. ASSUME NEW c \in Cookies, OutsideStep(c)
      PROVE  Stays \/ Enters(c) \/ Leaves(c)
  <2>1. CASE BeginAuthentication(c)
    <3>1. CASE inflight = <<>> /\ RejectIdentity(c, <<c>>)
      BY <2>1, <3>1, TailOfOne DEF BeginAuthentication, RejectIdentity, Enters
    <3>2. CASE inflight = <<>> /\ SpawnSession(c, <<c>>)
      BY <2>1, <3>2 DEF BeginAuthentication, SpawnSession, Enters
    <3>3. CASE inflight # <<>>
      BY <2>1, <3>3 DEF BeginAuthentication, Enters
    <3> QED BY <2>1, <3>1, <3>2, <3>3 DEF BeginAuthentication, StartSession
  <2>2. CASE CancelAuthentication(c)
    <3>1. CASE c \in sessions /\ pc[c] \in TaskRuns
      <4>1. inflight' = inflight /\ pc' = [pc EXCEPT ![c] = "finished"]
        BY <2>2, <3>1 DEF CancelAuthentication, Finish
      <4> QED BY <1>3, <3>1, <4>1 DEF HoldsGuard
    <3>2. CASE ~(c \in sessions /\ pc[c] \in TaskRuns)
      <4>1. pc' = pc /\ inflight' = inflight
        BY <2>2, <3>2 DEF CancelAuthentication
      <4> QED BY <1>2, <4>1
    <3> QED BY <3>1, <3>2
  <2>3. CASE ReadVerdict(c)
    <3>1. pc[c] \in TaskRuns /\ inflight' = inflight /\ pc' = [pc EXCEPT ![c] = "reap"]
      BY <2>3 DEF ReadVerdict, TaskRuns
    <3> QED BY <1>3, <3>1 DEF HoldsGuard, TaskRuns
  <2>4. CASE DialogReadFails(c) \/ Helper1Fails(c) \/ Helper1Succeeds(c) \/ Helper1Refuses(c)
    <3>1. pc[c] \in TaskRuns /\ inflight' = inflight /\ pc' = [pc EXCEPT ![c] = "finished"]
      BY <2>4 DEF DialogReadFails, Helper1Fails, Helper1Succeeds, Helper1Refuses, Finish, TaskRuns
    <3> QED BY <1>3, <3>1 DEF HoldsGuard
  <2>5. CASE DialogExits(c) \/ Helper1Connects(c) \/ TakeApproval(c) \/ QueryFails(c)
               \/ Helper1Exits(c)
    <3>1. pc' = pc /\ inflight' = inflight
      BY <2>5 DEF DialogExits, Helper1Connects, TakeApproval, QueryFails, Helper1Exits, agentVars
    <3> QED BY <1>2, <3>1
  <2> QED BY <1>5, <2>1, <2>2, <2>3, <2>4, <2>5 DEF OutsideStep
<1>6. CASE TakeApprovalOther \/ Tick \/ UNCHANGED vars
  <2>1. pc' = pc /\ inflight' = inflight
    BY <1>6 DEF TakeApprovalOther, Tick, vars, agentVars
  <2> QED BY <1>2, <2>1
<1> QED BY <1>4, <1>5, <1>6 DEF Next

-----------------------------------------------------------------------------
(* Nobody is forgotten                                                     *)

\* A call that comes in is queued once.
LEMMA EntersKeepsMutex ==
    ASSUME TypeOK, MutexIsLive, NEW c \in Cookies, Enters(c)
    PROVE  MutexIsLive'
<1>1. /\ pc \in [Cookies -> Stages] /\ pc[c] = "new" /\ pc[c] \notin InCall
      /\ \A i \in DOMAIN inflight : inflight[i] # c
      /\ Len(inflight) \in Nat /\ DOMAIN inflight = 1 .. Len(inflight)
  <2>1. pc \in [Cookies -> Stages] /\ inflight \in Seq(Cookies) /\ pc[c] = "new"
    BY DEF TypeOK, Enters
  <2>2. pc[c] \notin InCall
    BY <2>1 DEF InCall, HoldsGuard, TaskRuns
  <2>3. \A i \in DOMAIN inflight : inflight[i] # c
    BY <2>2 DEF MutexIsLive, InCall
  <2> QED BY <2>1, <2>2, <2>3, LenProperties
<1>2. \A x \in Cookies : x # c => pc'[x] = pc[x]
  BY <1>1 DEF Enters
<1>3. CASE /\ inflight = <<>> /\ inflight' = <<c>> /\ pc' = [pc EXCEPT ![c] = "spawned"]
  <2>1. DOMAIN inflight' = {1} /\ inflight'[1] = c /\ DOMAIN inflight = {}
    BY <1>3
  <2>2. pc'[c] \in InCall
    BY <1>1, <1>3 DEF InCall, HoldsGuard, TaskRuns
  <2> QED BY <1>2, <2>1, <2>2 DEF MutexIsLive, InCall
<1>4. CASE inflight' = inflight /\ pc' = [pc EXCEPT ![c] = "failed"]
  <2>1. pc'[c] \notin InCall
    BY <1>1, <1>4 DEF InCall, HoldsGuard, TaskRuns
  <2> QED BY <1>1, <1>2, <1>4, <2>1 DEF MutexIsLive, InCall
<1>5. CASE inflight' = Append(inflight, c) /\ pc' = [pc EXCEPT ![c] = "waiting"]
  <2>1. /\ DOMAIN inflight' = 1 .. (Len(inflight) + 1)
        /\ \A i \in DOMAIN inflight : inflight'[i] = inflight[i]
        /\ inflight'[Len(inflight) + 1] = c
    BY <1>1, <1>5 DEF TypeOK
  <2>2. \A i \in DOMAIN inflight' : i \in DOMAIN inflight \/ i = Len(inflight) + 1
    BY <1>1, <2>1
  <2>3. DOMAIN inflight \subseteq DOMAIN inflight' /\ Len(inflight) + 1 \in DOMAIN inflight'
    BY <1>1, <2>1
  <2>4. pc'[c] \in InCall
    BY <1>1, <1>5 DEF InCall
  <2>5. \A x \in Cookies : pc'[x] \in InCall <=> \E i \in DOMAIN inflight' : inflight'[i] = x
    BY <1>1, <1>2, <2>1, <2>2, <2>3, <2>4 DEF MutexIsLive, InCall
  <2>6. \A i, j \in DOMAIN inflight' : inflight'[i] = inflight'[j] => i = j
    BY <1>1, <2>1, <2>2 DEF MutexIsLive
  <2> QED BY <2>5, <2>6 DEF MutexIsLive, InCall
<1> QED BY <1>3, <1>4, <1>5 DEF Enters

\* A call that returns was queued once, so that nothing of it stays behind.
LEMMA LeavesKeepsMutex ==
    ASSUME TypeOK, MutexIsLive, NEW c \in Cookies, Leaves(c)
    PROVE  MutexIsLive'
<1>1. pc \in [Cookies -> Stages] /\ inflight \in Seq(Cookies) /\ inflight # <<>>
  BY DEF TypeOK, Leaves
<1>2. /\ Len(inflight) \in Nat /\ Len(inflight) >= 1 /\ DOMAIN inflight = 1 .. Len(inflight)
      /\ inflight[1] = c
      /\ DOMAIN inflight' = 1 .. (Len(inflight) - 1)
      /\ \A i \in 1 .. (Len(inflight) - 1) : inflight'[i] = inflight[i + 1]
  BY <1>1 DEF Leaves
<1>3. pc'[c] \notin InCall /\ \A x \in Cookies : x # c => pc'[x] = pc[x]
  BY <1>1 DEF Leaves, Returned, InCall, HoldsGuard, TaskRuns
<1>4. \A i \in DOMAIN inflight' : /\ i + 1 \in DOMAIN inflight /\ i + 1 # 1
                                  /\ inflight'[i] = inflight[i + 1]
  BY <1>2
<1>5. \A i \in DOMAIN inflight : i # 1 => i - 1 \in DOMAIN inflight' /\ inflight'[i - 1] = inflight[i]
  BY <1>2
<1>6. \A i \in DOMAIN inflight' : inflight'[i] # c
  <2>1. 1 \in DOMAIN inflight
    BY <1>2
  <2> QED BY <1>2, <1>4, <2>1 DEF MutexIsLive
<1>7. ASSUME NEW x \in Cookies
      PROVE  pc'[x] \in InCall <=> \E i \in DOMAIN inflight' : inflight'[i] = x
  <2>1. CASE x = c
    BY <1>3, <1>6, <2>1
  <2>2. CASE x # c
    <3>1. pc'[x] \in InCall <=> \E i \in DOMAIN inflight : inflight[i] = x
      BY <1>3, <2>2 DEF MutexIsLive, InCall
    <3>2. ASSUME NEW i \in DOMAIN inflight, inflight[i] = x
          PROVE  \E k \in DOMAIN inflight' : inflight'[k] = x
      BY <1>2, <1>5, <2>2, <3>2
    <3>3. ASSUME NEW i \in DOMAIN inflight', inflight'[i] = x
          PROVE  \E k \in DOMAIN inflight : inflight[k] = x
      BY <1>4, <3>3
    <3> QED BY <3>1, <3>2, <3>3
  <2> QED BY <2>1, <2>2
<1>8. ASSUME NEW i \in DOMAIN inflight', NEW j \in DOMAIN inflight', inflight'[i] = inflight'[j]
      PROVE  i = j
  <2>1. i + 1 = j + 1
    BY <1>4, <1>8 DEF MutexIsLive
  <2> QED BY <1>2, <2>1
<1> QED BY <1>7, <1>8 DEF MutexIsLive, InCall

\* Every step keeps the mutex with the calls that are there.
LEMMA NextMutex == Inv /\ MutexIsLive /\ [Next]_vars => MutexIsLive'
<1> SUFFICES ASSUME Inv, MutexIsLive, [Next]_vars PROVE MutexIsLive'
  OBVIOUS
<1>1. TypeOK /\ SessionInv
  BY DEF Inv
<1>2. CASE Stays
  BY <1>2 DEF Stays, MutexIsLive, InCall
<1> QED BY <1>1, <1>2, MutexSteps, EntersKeepsMutex, LeavesKeepsMutex

\* The mutex is always with calls that are still in progress, so that a
\* release is still to come while anyone waits, and every waiting call is in
\* line (agent.rs: begin_authentication).
THEOREM NobodyIsForgotten == Spec => []MutexIsLive
<1>1. Init => MutexIsLive
  BY DEF Init, MutexIsLive, HoldsGuard, TaskRuns
<1> QED BY <1>1, NextMutex, InvIsInvariant, PTL DEF Spec

-----------------------------------------------------------------------------
(* Leftovers come first                                                    *)

\* What a step does to the queue: nothing, empty it, take up to the first
\* live approval, let all approvals age, or push one for a request that is
\* being decided.
QueueSteps ==
    \/ queue' = queue
    \/ queue' = <<>>
    \/ \E i \in DOMAIN queue : queue' = PopThrough(i)
    \/ queue' = [i \in DOMAIN queue |->
                    [owner |-> queue[i].owner, left |-> Countdown(queue[i].left)]]
    \/ \E c \in Cookies : pc[c] \in {"spawned", "reap"} /\ Push(c)

\* Every step is one of them.
LEMMA QueueStep == [Next]_vars => QueueSteps
<1> SUFFICES ASSUME [Next]_vars PROVE QueueSteps
  OBVIOUS
<1>1. ASSUME NEW by, TakeOne(by) PROVE QueueSteps
  BY <1>1 DEF TakeOne, Live, QueueSteps
<1>2. ASSUME NEW c \in Cookies, AgentStep(c) PROVE QueueSteps
  <2>1. CASE AcquireInflight(c) \/ ReturnFromBegin(c) \/ PolicyDeny(c) \/ ShowDialog(c)
               \/ DialogSpawnFails(c) \/ DialogDeadline(c) \/ DialogRefused(c)
    <3>1. queue' = queue
      BY <2>1 DEF AcquireInflight, ReturnFromBegin, PolicyDeny, ShowDialog, DialogSpawnFails,
                  DialogDeadline, DialogRefused
    <3> QED BY <3>1 DEF QueueSteps
  <2>2. CASE PolicyAllow(c) \/ RememberAllow(c) \/ DialogAllowed(c)
    <3>1. pc[c] \in {"spawned", "reap"} /\ Push(c)
      BY <2>2 DEF PolicyAllow, RememberAllow, DialogAllowed, PushAndHandOff
    <3> QED BY <3>1 DEF QueueSteps
  <2>3. CASE Helper1TimesOut(c)
    BY <2>3 DEF Helper1TimesOut, Drain, QueueSteps
  <2> QED BY <1>2, <2>1, <2>2, <2>3 DEF AgentStep
<1>3. ASSUME NEW c \in Cookies, OutsideStep(c) PROVE QueueSteps
  <2>1. CASE BeginAuthentication(c) \/ ReadVerdict(c) \/ DialogReadFails(c) \/ DialogExits(c)
               \/ Helper1Connects(c) \/ Helper1Fails(c) \/ Helper1Succeeds(c) \/ QueryFails(c)
               \/ Helper1Exits(c)
    <3>1. queue' = queue
      BY <2>1 DEF BeginAuthentication, ReadVerdict, DialogReadFails, DialogExits, Helper1Connects,
                  Helper1Fails, Helper1Succeeds, QueryFails, Helper1Exits
    <3> QED BY <3>1 DEF QueueSteps
  <2>2. CASE CancelAuthentication(c) \/ Helper1Refuses(c)
    <3>1. queue' = <<>>
      BY <2>2 DEF CancelAuthentication, Helper1Refuses, Drain
    <3> QED BY <3>1 DEF QueueSteps
  <2>3. CASE TakeApproval(c)
    BY <1>1, <2>3 DEF TakeApproval
  <2> QED BY <1>3, <2>1, <2>2, <2>3 DEF OutsideStep
<1>4. CASE TakeApprovalOther
  BY <1>1, <1>4 DEF TakeApprovalOther
<1>5. CASE Tick
  BY <1>5 DEF Tick, QueueSteps
<1>6. CASE UNCHANGED vars
  BY <1>6 DEF vars, QueueSteps
<1> QED BY <1>2, <1>3, <1>4, <1>5, <1>6 DEF Next

\* A request that has returned has returned for good.
LEMMA ReturnedStays ==
    ASSUME TypeOK, SessionInv, [Next]_vars, NEW c \in Cookies, pc[c] \in Returned
    PROVE  pc'[c] \in Returned
<1>1. pc \in [Cookies -> Stages]
  BY DEF TypeOK
<1>2. CASE Stays
  BY <1>2 DEF Stays, Returned, InCall, HoldsGuard, TaskRuns
<1>3. ASSUME NEW x \in Cookies, Enters(x) PROVE pc'[c] \in Returned
  <2>1. x # c
    BY <1>3 DEF Enters, Returned
  <2> QED BY <1>1, <1>3, <2>1 DEF Enters
<1>4. ASSUME NEW x \in Cookies, Leaves(x) PROVE pc'[c] \in Returned
  BY <1>1, <1>4 DEF Leaves
<1> QED BY <1>2, <1>3, <1>4, MutexSteps

\* The one that pushes is the only one in process, so that what is queued
\* before it belongs to others that have returned, and is not younger.
LEMMA PushKeepsOrder ==
    ASSUME Inv, LeftoversFirst, NEW c \in Cookies, pc[c] \in {"spawned", "reap"}, Push(c),
           \A x \in Cookies : pc[x] \in Returned => pc'[x] \in Returned
    PROVE  LeftoversFirst'
<1>1. /\ DOMAIN queue = 1 .. Len(queue) /\ Len(queue) \in Nat
      /\ DOMAIN queue' = 1 .. (Len(queue) + 1)
      /\ \A i \in 1 .. Len(queue) : queue'[i] = queue[i]
      /\ queue'[Len(queue) + 1] = [owner |-> c, left |-> Ttl]
  BY DEF Push, Inv, TypeOK
<1>2. ASSUME NEW i \in DOMAIN queue
      PROVE  /\ queue[i].left \in Nat /\ queue[i].left <= Ttl
             /\ queue[i].owner \in Cookies /\ pc[queue[i].owner] \in Returned
  <2>1. queue[i] \in Approvals
    BY <1>1, ElementOfSeq DEF Inv, TypeOK
  <2>2. queue[i].owner \in Cookies /\ queue[i].left \in Nat /\ queue[i].left <= Ttl
    BY <2>1, ConstantsAssumption DEF Approvals
  <2>3. pc[queue[i].owner] \in Decided
    BY <2>2 DEF Inv, OwnedInv
  <2>4. ASSUME pc[queue[i].owner] \in HoldsGuard PROVE FALSE
    <3>1. queue[i].owner = Head(inflight) /\ c = Head(inflight)
      BY <2>2, <2>4 DEF Inv, SessionInv, OneSession, HoldsGuard, TaskRuns
    <3> QED BY <2>3, <3>1 DEF Decided
  <2> QED BY <2>2, <2>3, <2>4 DEF Decided, HoldsGuard, TaskRuns, Returned
<1>3. \A i \in DOMAIN queue' : \/ i \in DOMAIN queue /\ queue'[i] = queue[i]
                               \/ i = Len(queue) + 1 /\ queue'[i].left = Ttl
  BY <1>1
<1>4. ASSUME NEW i \in DOMAIN queue', NEW j \in DOMAIN queue', i < j
      PROVE  queue'[i].left <= queue'[j].left /\ pc'[queue'[i].owner] \in Returned
  <2>1. i \in DOMAIN queue /\ queue'[i] = queue[i]
    BY <1>1, <1>4
  <2>2. queue[i].left <= queue'[j].left
    BY <1>2, <1>3, <1>4, <2>1 DEF LeftoversFirst
  <2> QED BY <1>2, <2>1, <2>2
<1> QED BY <1>4 DEF LeftoversFirst

\* Approvals age together.
LEMMA AgeKeepsOrder ==
    ASSUME TypeOK, LeftoversFirst,
           queue' = [i \in DOMAIN queue |->
                        [owner |-> queue[i].owner, left |-> Countdown(queue[i].left)]],
           \A x \in Cookies : pc[x] \in Returned => pc'[x] \in Returned
    PROVE  LeftoversFirst'
<1>1. /\ DOMAIN queue' = DOMAIN queue
      /\ \A i \in DOMAIN queue : /\ queue'[i].owner = queue[i].owner
                                 /\ queue'[i].left = Countdown(queue[i].left)
  OBVIOUS
<1>2. \A m, n \in Nat : m <= n => Countdown(m) <= Countdown(n)
  BY DEF Countdown
<1>3. ASSUME NEW i \in DOMAIN queue PROVE queue[i].left \in Nat /\ queue[i].owner \in Cookies
  <2>1. queue[i] \in Approvals
    BY ElementOfSeq, LenProperties DEF TypeOK
  <2> QED BY <2>1, ConstantsAssumption DEF Approvals
<1>4. ASSUME NEW i \in DOMAIN queue, NEW j \in DOMAIN queue, i < j
      PROVE  queue'[i].left <= queue'[j].left /\ pc'[queue'[i].owner] \in Returned
  <2>1. queue[i].left <= queue[j].left /\ pc[queue[i].owner] \in Returned
    BY <1>4 DEF LeftoversFirst
  <2>2. Countdown(queue[i].left) <= Countdown(queue[j].left)
    BY <1>2, <1>3, <2>1
  <2> QED BY <1>1, <1>3, <2>1, <2>2
<1> QED BY <1>1, <1>4 DEF LeftoversFirst

\* Every step keeps the queue in order.
LEMMA NextOrder == Inv /\ LeftoversFirst /\ [Next]_vars => LeftoversFirst'
<1> SUFFICES ASSUME Inv, LeftoversFirst, [Next]_vars PROVE LeftoversFirst'
  OBVIOUS
<1>1. TypeOK /\ SessionInv
  BY DEF Inv
<1>2. \A x \in Cookies : pc[x] \in Returned => pc'[x] \in Returned
  BY <1>1, ReturnedStays
<1>3. CASE queue' = queue
  BY <1>1, <1>2, <1>3, OwnerType DEF LeftoversFirst
<1>4. CASE queue' = <<>>
  BY <1>4 DEF LeftoversFirst
<1>5. ASSUME NEW k \in DOMAIN queue, queue' = PopThrough(k) PROVE LeftoversFirst'
  <2>1. k \in 1 .. Len(queue) /\ DOMAIN queue = 1 .. Len(queue) /\ Len(queue) \in Nat
    BY <1>1, LenProperties DEF TypeOK
  <2>2. /\ DOMAIN queue' = 1 .. (Len(queue) - k)
        /\ \A j \in 1 .. (Len(queue) - k) : queue'[j] = queue[j + k]
    BY <1>1, <1>5, <2>1 DEF PopThrough, TypeOK
  <2>3. \A i \in DOMAIN queue' : i \in Int /\ i + k \in DOMAIN queue /\ queue'[i] = queue[i + k]
    BY <2>1, <2>2
  <2>4. ASSUME NEW i \in DOMAIN queue', NEW j \in DOMAIN queue', i < j
        PROVE  queue'[i].left <= queue'[j].left /\ pc'[queue'[i].owner] \in Returned
    <3>1. i + k < j + k
      BY <2>1, <2>3, <2>4
    <3>2. queue[i + k].left <= queue[j + k].left /\ pc[queue[i + k].owner] \in Returned
      BY <2>3, <3>1 DEF LeftoversFirst
    <3>3. queue[i + k].owner \in Cookies
      BY <1>1, <2>3, OwnerType
    <3> QED BY <1>2, <2>3, <3>2, <3>3
  <2> QED BY <2>4 DEF LeftoversFirst
<1> QED
  BY <1>1, <1>2, <1>3, <1>4, <1>5, QueueStep, PushKeepsOrder, AgeKeepsOrder DEF QueueSteps

\* The queue is in the order of expiry, and before the approval of the session
\* in process there are only leftovers of requests that have returned: popping
\* expired approvals from the front finds them all, and a leftover that is
\* still live is what the session's own helper gets first (approval_queue.rs:
\* take_one).
THEOREM LeftoversComeFirst == Spec => []LeftoversFirst
<1>1. Init => LeftoversFirst
  BY DEF Init, LeftoversFirst
<1> QED BY <1>1, NextOrder, InvIsInvariant, PTL DEF Spec
=============================================================================
