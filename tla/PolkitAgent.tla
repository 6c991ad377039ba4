---------------------------- MODULE PolkitAgent ----------------------------
(***************************************************************************)
(* The polkit authentication agent: BeginAuthentication and                *)
(* CancelAuthentication (agent.rs), one session task per request           *)
(* (session.rs), the queue of one-shot approvals (approval_queue.rs,       *)
(* bypass_service.rs), the in-memory remember cache (remember.rs), and the *)
(* two child conversations a session holds: the dialog helper              *)
(* (helper_ui.rs) and polkit-agent-helper-1 (helper1.rs).                  *)
(*                                                                         *)
(* The agent runs on one thread (tokio current_thread) and no lock but     *)
(* `inflight` is held across an await, so one action is what a task does   *)
(* between two points where it really suspends.  Time is relative: every   *)
(* deadline is a number of ticks left and every age a number of ticks      *)
(* passed, so the clock needs no bound.                                    *)
(***************************************************************************)
EXTENDS Integers, Sequences, FiniteSets

CONSTANTS
    Cookies,          \* authentication requests; polkitd never reuses a cookie
    Keys,             \* remember keys: (action id, elevated command)
    KeyOf,            \* the remember key of each request
    RememberSeconds,  \* effective remember windows a request may load (0: off)
    Timeouts,         \* dialog timeouts a request may load (0: wait forever)
    Ttl,              \* DEFAULT_TTL of an approval
    Grace,            \* HELPER_GRACE_SECS
    Helper1Timeout,   \* HELPER1_TIMEOUT
    MaxRemember       \* MAX_REMEMBER

ASSUME ConstantsAssumption ==
    /\ KeyOf \in [Cookies -> Keys]
    /\ RememberSeconds \subseteq Nat
    /\ Timeouts \subseteq Nat
    /\ Ttl \in Nat \ {0}
    /\ Grace \in Nat
    /\ Helper1Timeout \in Nat \ {0}
    /\ MaxRemember \in Nat \ {0}

VARIABLES
    pc,         \* where each request's BeginAuthentication and task stand
    inflight,   \* the serialisation mutex: its head holds it, the rest wait
    sessions,   \* cookies whose task handle is in the `sessions` map
    cfg,        \* the configuration the session in flight has loaded
    timer,      \* ticks until the running dialog or helper-1 wait times out
    verdict,    \* what the session in flight read from its dialog
    ui,         \* cookies whose dialog process is alive
    helper1,    \* polkit-agent-helper-1 of each request (external)
    queue,      \* the approval queue, oldest first
    remember,   \* age of the remember grant of each key, Absent if none
    \* history
    consent,    \* how each request was decided
    taken,      \* how many approvals of each request were consumed, by whom
    cancelled,  \* cookies CancelAuthentication was called for
    aborted,    \* cookies whose task CancelAuthentication aborted
    sinceTick   \* ticks since a user last ticked "remember" for a key

agentVars == <<pc, inflight, sessions, cfg, timer, verdict>>
history   == <<consent, taken, cancelled, aborted, sinceTick>>
vars      == <<agentVars, ui, helper1, queue, remember, history>>

-----------------------------------------------------------------------------
Absent == -1
Ages == Absent .. MaxRemember

Other == "other"      \* a PAM caller that is not a request's helper-1

Policies == {"ask", "allow", "deny"}
Config == [policy : Policies, remember_seconds : RememberSeconds, timeout : Timeouts]
NoConfig == [policy |-> "ask", remember_seconds |-> 0, timeout |-> 0]

Verdicts == {"none", "allow", "allow_remember", "deny", "timeout"}
Approvals == [owner : Cookies, left : 0 .. Ttl]

TaskRuns == {"spawned", "dialog", "reap", "handoff"}   \* the session task is alive
HoldsGuard == TaskRuns \cup {"finished"}               \* past inflight.lock().await
Returned == {"returned", "failed"}
Stages == {"new", "waiting"} \cup HoldsGuard \cup Returned

Decisions == {"none", "user", "policy", "remember", "refused"}
Granting == {"user", "policy", "remember"}

-----------------------------------------------------------------------------
(* approval_queue.rs                                                       *)

\* Mutant: the approval is given the lifetime of the helper-1 conversation.
PushForHelper1(c) == queue' = Append(queue, [owner |-> c, left |-> Helper1Timeout])

\* Mutant: the approval is pushed at the end that is popped.
PushFront(c) == queue' = <<[owner |-> c, left |-> Ttl]>> \o queue

Push(c) == queue' = Append(queue, [owner |-> c, left |-> Ttl])

\* Mutant: the queue is not cleared.
KeepQueue == queue' = queue

Drain == queue' = <<>>

\* Mutant: an approval still counts at the instant it expires.
LiveAtExpiry == {i \in DOMAIN queue : queue[i].left >= 0}

Live == {i \in DOMAIN queue : queue[i].left > 0}

\* Mutant: the approval is read but not removed.
PeekAt(i) == SubSeq(queue, i, Len(queue))

\* Mutant: the other end of the queue is popped.
PopBack(i) == SubSeq(queue, 1, Len(queue) - 1)

PopThrough(i) == SubSeq(queue, i + 1, Len(queue))

\* take_one: pop expired heads, then pop and return the first live one.
TakeOne(by) ==
    \/ /\ Live = {}
       /\ queue' = <<>>
       /\ taken' = taken
    \/ \E i \in Live :
          /\ \A j \in Live : i <= j
          /\ queue' = PopThrough(i)
          /\ taken' = [taken EXCEPT ![queue[i].owner] = Append(@, by)]

-----------------------------------------------------------------------------
(* remember.rs                                                             *)

Shorter(a, b) == IF a < b THEN a ELSE b

\* Mutant: the configured window is not capped.
IsFreshUncapped(k, ttl) ==
    /\ ttl > 0
    /\ remember[k] # Absent
    /\ remember[k] < ttl

IsFresh(k, ttl) ==
    /\ ttl > 0
    /\ remember[k] # Absent
    /\ remember[k] < Shorter(ttl, MaxRemember)

\* Prune the grants past the cap, then record this one.
Remember(k) ==
    remember' = [x \in Keys |-> IF x = k THEN 0
                                ELSE IF remember[x] < MaxRemember THEN remember[x]
                                ELSE Absent]

-----------------------------------------------------------------------------
(* agent.rs: BeginAuthentication                                           *)

Init ==
    /\ pc = [c \in Cookies |-> "new"]
    /\ inflight = <<>>
    /\ sessions = {}
    /\ cfg = NoConfig
    /\ timer = 0
    /\ verdict = "none"
    /\ ui = {}
    /\ helper1 = [c \in Cookies |-> "none"]
    /\ queue = <<>>
    /\ remember = [k \in Keys |-> Absent]
    /\ consent = [c \in Cookies |-> "none"]
    /\ taken = [c \in Cookies |-> <<>>]
    /\ cancelled = {}
    /\ aborted = {}
    /\ sinceTick = [k \in Keys |-> Absent]

\* Mutant: the error path leaks the guard.
RejectHolding(c, guard) ==
    /\ pc' = [pc EXCEPT ![c] = "failed"]
    /\ inflight' = guard
    /\ UNCHANGED <<sessions, cfg>>

\* What runs once `inflight` is held, with `guard` the mutex c now heads.
\* No acceptable identity, or its uid has no passwd entry: fail and release.
RejectIdentity(c, guard) ==
    /\ pc' = [pc EXCEPT ![c] = "failed"]
    /\ inflight' = Tail(guard)
    /\ UNCHANGED <<sessions, cfg>>

\* Mutant: the guard is dropped where it is taken (`let _ = lock().await`).
SpawnWithoutGuard(c, guard) ==
    /\ pc' = [pc EXCEPT ![c] = "spawned"]
    /\ inflight' = Tail(guard)
    /\ cfg' \in Config
    /\ sessions' = sessions \cup {c}

\* Mutant: the task is detached, its handle not kept.
SpawnDetached(c, guard) ==
    /\ pc' = [pc EXCEPT ![c] = "spawned"]
    /\ inflight' = guard
    /\ cfg' \in Config
    /\ sessions' = sessions

\* Load the configuration, spawn the session task, keep its handle.
SpawnSession(c, guard) ==
    /\ pc' = [pc EXCEPT ![c] = "spawned"]
    /\ inflight' = guard
    /\ cfg' \in Config
    /\ sessions' = sessions \cup {c}

StartSession(c, guard) == RejectIdentity(c, guard) \/ SpawnSession(c, guard)

\* The call arrives.  A free mutex is taken without suspending; otherwise
\* the call waits in the mutex's FIFO order.
BeginAuthentication(c) ==
    /\ pc[c] = "new"
    /\ \/ inflight = <<>> /\ StartSession(c, <<c>>)
       \/ /\ inflight # <<>>
          /\ pc' = [pc EXCEPT ![c] = "waiting"]
          /\ inflight' = Append(inflight, c)
          /\ UNCHANGED <<sessions, cfg>>
    /\ UNCHANGED <<timer, verdict, ui, helper1, queue, remember, history>>

\* The mutex was handed to a waiting call.
AcquireInflight(c) ==
    /\ pc[c] = "waiting" /\ inflight # <<>> /\ c = Head(inflight)
    /\ StartSession(c, inflight)
    /\ UNCHANGED <<timer, verdict, ui, helper1, queue, remember, history>>

\* done_rx resolved: drop the handle, reply to polkitd, release the guard.
ReturnFromBegin(c) ==
    /\ pc[c] = "finished"
    /\ pc' = [pc EXCEPT ![c] = "returned"]
    /\ sessions' = sessions \ {c}
    /\ inflight' = Tail(inflight)
    /\ cfg' = NoConfig
    /\ UNCHANGED <<timer, verdict, ui, helper1, queue, remember, history>>

-----------------------------------------------------------------------------
(* session.rs: run                                                         *)

\* The task returns: its locals go, and done_tx wakes BeginAuthentication.
Finish(c) ==
    /\ pc' = [pc EXCEPT ![c] = "finished"]
    /\ timer' = 0
    /\ verdict' = "none"

Decide(c, d) == consent' = [consent EXCEPT ![c] = d]

\* Pre-approve, then start waiting for helper-1.
PushAndHandOff(c) ==
    /\ Push(c)
    /\ pc' = [pc EXCEPT ![c] = "handoff"]
    /\ timer' = Helper1Timeout
    /\ verdict' = "none"

PolicyDeny(c) ==
    /\ pc[c] = "spawned" /\ cfg.policy = "deny"
    /\ Finish(c)
    /\ Decide(c, "refused")
    /\ UNCHANGED <<inflight, sessions, cfg, ui, helper1, queue, remember,
                   taken, cancelled, aborted, sinceTick>>

PolicyAllow(c) ==
    /\ pc[c] = "spawned" /\ cfg.policy = "allow"
    /\ PushAndHandOff(c)
    /\ Decide(c, "policy")
    /\ UNCHANGED <<inflight, sessions, cfg, ui, helper1, remember,
                   taken, cancelled, aborted, sinceTick>>

RememberAllow(c) ==
    /\ pc[c] = "spawned" /\ cfg.policy = "ask"
    /\ IsFresh(KeyOf[c], cfg.remember_seconds)
    /\ PushAndHandOff(c)
    /\ Decide(c, "remember")
    /\ UNCHANGED <<inflight, sessions, cfg, ui, helper1, remember,
                   taken, cancelled, aborted, sinceTick>>

\* Mutant: the bound is applied to the wrong case.
BoundedIfZero == cfg.timeout = 0

\* helper_ui.rs: the wait for a verdict is bounded only if timeout > 0.
BoundedWait == cfg.timeout > 0

\* Mutant: no kill_on_drop.
LeaveDialog(c) == ui' = ui

\* Dropping the child kills it.
KillDialog(c) == ui' = ui \ {c}

ShowDialog(c) ==
    /\ pc[c] = "spawned" /\ cfg.policy = "ask"
    /\ ~IsFresh(KeyOf[c], cfg.remember_seconds)
    /\ pc' = [pc EXCEPT ![c] = "dialog"]
    /\ ui' = ui \cup {c}
    /\ timer' = IF BoundedWait THEN cfg.timeout + Grace ELSE 0
    /\ UNCHANGED <<inflight, sessions, cfg, verdict, helper1, queue, remember, history>>

\* Spawning it fails: run() returns Err, nothing was pushed.
DialogSpawnFails(c) ==
    /\ pc[c] = "spawned" /\ cfg.policy = "ask"
    /\ ~IsFresh(KeyOf[c], cfg.remember_seconds)
    /\ Finish(c)
    /\ UNCHANGED <<inflight, sessions, cfg, ui, helper1, queue, remember, history>>

\* A verdict line, or end of output ("none"): go on to child.wait().
ReadVerdict(c) ==
    /\ pc[c] = "dialog"
    /\ pc' = [pc EXCEPT ![c] = "reap"]
    /\ verdict' \in Verdicts
    /\ timer' = 0
    /\ UNCHANGED <<inflight, sessions, cfg, ui, helper1, queue, remember, history>>

\* The bounded wait runs out; dropping the child kills it.
DialogDeadline(c) ==
    /\ pc[c] = "dialog" /\ BoundedWait /\ timer = 0
    /\ Finish(c)
    /\ KillDialog(c)
    /\ UNCHANGED <<inflight, sessions, cfg, helper1, queue, remember, history>>

\* Reading the helper's output fails; the child is dropped as well.
DialogReadFails(c) ==
    /\ pc[c] = "dialog"
    /\ Finish(c)
    /\ KillDialog(c)
    /\ UNCHANGED <<inflight, sessions, cfg, helper1, queue, remember, history>>

\* The dialog process exits once it has closed its output (external).
DialogExits(c) ==
    /\ c \in ui /\ pc[c] = "reap"
    /\ ui' = ui \ {c}
    /\ UNCHANGED <<agentVars, helper1, queue, remember, history>>

\* child.wait() returned; Deny, Timeout and NoOutput push nothing.
DialogRefused(c) ==
    /\ pc[c] = "reap" /\ c \notin ui
    /\ verdict \in {"deny", "timeout", "none"}
    /\ Finish(c)
    /\ Decide(c, "refused")
    /\ UNCHANGED <<inflight, sessions, cfg, ui, helper1, queue, remember,
                   taken, cancelled, aborted, sinceTick>>

\* child.wait() returned on an Allow: record the grant if asked to, push.
DialogAllowed(c) ==
    /\ pc[c] = "reap" /\ c \notin ui
    /\ verdict \in {"allow", "allow_remember"}
    /\ IF verdict = "allow_remember" /\ cfg.remember_seconds > 0
         THEN /\ Remember(KeyOf[c])
              /\ sinceTick' = [sinceTick EXCEPT ![KeyOf[c]] = 0]
         ELSE UNCHANGED <<remember, sinceTick>>
    /\ PushAndHandOff(c)
    /\ Decide(c, "user")
    /\ UNCHANGED <<inflight, sessions, cfg, ui, helper1, taken, cancelled, aborted>>

-----------------------------------------------------------------------------
(* helper1.rs: the hand-off; helper-1 itself and its PAM stack are external *)

Helper1Connects(c) ==
    /\ pc[c] = "handoff" /\ helper1[c] = "none"
    /\ helper1' = [helper1 EXCEPT ![c] = "pam"]
    /\ UNCHANGED <<agentVars, ui, queue, remember, history>>

\* Missing socket, refused connection, failed write or read: run() returns
\* through `?`, past the drain.
Helper1Fails(c) ==
    /\ pc[c] = "handoff"
    /\ Finish(c)
    /\ UNCHANGED <<inflight, sessions, cfg, ui, helper1, queue, remember, history>>

\* SUCCESS; the PAM stack may also have accepted without our approval.
Helper1Succeeds(c) ==
    /\ pc[c] = "handoff" /\ helper1[c] \in {"took", "missed"}
    /\ helper1' = [helper1 EXCEPT ![c] = "exited"]
    /\ Finish(c)
    /\ UNCHANGED <<inflight, sessions, cfg, ui, queue, remember, history>>

\* FAILURE or end of file: drop the leftover approval.
Helper1Refuses(c) ==
    /\ pc[c] = "handoff" /\ helper1[c] \in {"pam", "took", "missed"}
    /\ helper1' = [helper1 EXCEPT ![c] = "exited"]
    /\ Finish(c)
    /\ Drain
    /\ UNCHANGED <<inflight, sessions, cfg, ui, remember, history>>

\* No verdict in time counts as FAILURE; helper-1 itself lives on.
Helper1TimesOut(c) ==
    /\ pc[c] = "handoff" /\ timer = 0
    /\ Finish(c)
    /\ Drain
    /\ UNCHANGED <<inflight, sessions, cfg, ui, helper1, remember, history>>

\* pam_sentinel inside helper-1 asks the agent, whoever started helper-1
\* and whether or not that session still listens.
TakeApproval(c) ==
    /\ helper1[c] = "pam"
    /\ TakeOne(c)
    /\ helper1' = [helper1 EXCEPT ![c] = IF Live # {} THEN "took" ELSE "missed"]
    /\ UNCHANGED <<agentVars, ui, remember, consent, cancelled, aborted, sinceTick>>

\* Its query of the agent fails before it reaches the queue.
QueryFails(c) ==
    /\ helper1[c] = "pam"
    /\ helper1' = [helper1 EXCEPT ![c] = "missed"]
    /\ UNCHANGED <<agentVars, ui, queue, remember, history>>

\* A helper-1 nobody listens to any more ends.
Helper1Exits(c) ==
    /\ helper1[c] \in {"pam", "took", "missed"} /\ pc[c] # "handoff"
    /\ helper1' = [helper1 EXCEPT ![c] = "exited"]
    /\ UNCHANGED <<agentVars, ui, queue, remember, history>>

\* pam_sentinel in any other service of this user makes the same query.
TakeApprovalOther ==
    /\ TakeOne(Other)
    /\ UNCHANGED <<agentVars, ui, helper1, remember, consent, cancelled, aborted, sinceTick>>

-----------------------------------------------------------------------------
(* agent.rs: CancelAuthentication                                          *)

\* Drain the queue, then abort the task if its handle is in the map; the
\* dialog dies with the task.
CancelAuthentication(c) ==
    /\ pc[c] # "new" /\ c \notin cancelled
    /\ Drain
    /\ cancelled' = cancelled \cup {c}
    /\ sessions' = sessions \ {c}
    /\ IF c \in sessions /\ pc[c] \in TaskRuns
         THEN /\ Finish(c)
              /\ KillDialog(c)
              /\ aborted' = aborted \cup {c}
         ELSE UNCHANGED <<pc, timer, verdict, ui, aborted>>
    /\ UNCHANGED <<inflight, cfg, helper1, remember, consent, taken, sinceTick>>

-----------------------------------------------------------------------------
(* The clock                                                               *)

Countdown(n) == IF n > 0 THEN n - 1 ELSE 0

Older(a) == IF a = Absent \/ a = MaxRemember THEN a ELSE a + 1

Tick ==
    /\ queue' = [i \in DOMAIN queue |->
                    [owner |-> queue[i].owner, left |-> Countdown(queue[i].left)]]
    /\ timer' = Countdown(timer)
    /\ remember' = [k \in Keys |-> Older(remember[k])]
    /\ sinceTick' = [k \in Keys |-> Older(sinceTick[k])]
    /\ UNCHANGED <<pc, inflight, sessions, cfg, verdict, ui, helper1,
                   consent, taken, cancelled, aborted>>

-----------------------------------------------------------------------------
\* Steps of the agent's own tasks, which its runtime keeps scheduling.
AgentStep(c) ==
    \/ AcquireInflight(c) \/ ReturnFromBegin(c)
    \/ PolicyDeny(c) \/ PolicyAllow(c) \/ RememberAllow(c)
    \/ ShowDialog(c) \/ DialogSpawnFails(c) \/ DialogDeadline(c)
    \/ DialogRefused(c) \/ DialogAllowed(c)
    \/ Helper1TimesOut(c)

\* Steps of polkitd, the user, the dialog process and helper-1.
OutsideStep(c) ==
    \/ BeginAuthentication(c) \/ CancelAuthentication(c)
    \/ ReadVerdict(c) \/ DialogReadFails(c) \/ DialogExits(c)
    \/ Helper1Connects(c) \/ Helper1Fails(c) \/ Helper1Succeeds(c) \/ Helper1Refuses(c)
    \/ TakeApproval(c) \/ QueryFails(c) \/ Helper1Exits(c)

Next ==
    \/ \E c \in Cookies : AgentStep(c) \/ OutsideStep(c)
    \/ TakeApprovalOther
    \/ Tick

Spec == Init /\ [][Next]_vars

\* The runtime polls every ready task, and time passes.
Fairness == (\A c \in Cookies : WF_vars(AgentStep(c))) /\ WF_vars(Tick)

FairSpec == Spec /\ Fairness

\* A dialog process that has given its verdict exits.
DialogsExit == \A c \in Cookies : WF_vars(DialogExits(c))

\* A dialog that waits without a deadline is answered or closed.
UsersAnswer == \A c \in Cookies : WF_vars(cfg.timeout = 0 /\ ReadVerdict(c))

LiveSpec == FairSpec /\ DialogsExit /\ UsersAnswer

-----------------------------------------------------------------------------
(* Properties                                                              *)

\* Every variable stays in its type; in particular no queued approval is
\* given longer than DEFAULT_TTL, whatever else its session waits for
\* (approval_queue.rs: push).
TypeOK ==
    /\ pc \in [Cookies -> Stages]
    /\ inflight \in Seq(Cookies)
    /\ sessions \subseteq Cookies
    /\ cfg \in Config \cup {NoConfig}
    /\ timer \in Nat
    /\ verdict \in Verdicts
    /\ ui \subseteq Cookies
    /\ helper1 \in [Cookies -> {"none", "pam", "took", "missed", "exited"}]
    /\ queue \in Seq(Approvals)
    /\ remember \in [Keys -> Ages]
    /\ consent \in [Cookies -> Decisions]
    /\ taken \in [Cookies -> Seq(Cookies \cup {Other})]
    /\ cancelled \subseteq Cookies
    /\ aborted \subseteq Cookies
    /\ sinceTick \in [Keys -> Ages]

\* Past the `inflight` lock there is never more than one request, whatever
\* was cancelled, failed or timed out before (agent.rs: `inflight`).
OneSession ==
    \A c \in Cookies : pc[c] \in HoldsGuard => inflight # <<>> /\ c = Head(inflight)

\* While a session task runs its handle is in the `sessions` map, so a
\* CancelAuthentication can abort it; and no handle outlives its request
\* (agent.rs: spawn under the lock, remove after done_rx).
HandleWhileRunning ==
    /\ \A c \in Cookies : pc[c] \in TaskRuns => c \in sessions
    /\ \A c \in sessions : pc[c] \in HoldsGuard

\* No dialog process outlives the session that shows it: abort, deadline and
\* read error kill it, and every other path reaps it (helper_ui.rs: run).
NoOrphanDialog == \A c \in ui : pc[c] \in {"dialog", "reap"}

\* An approval exists only for a request decided in its favour, and it is
\* consumed at most once and never both consumed and still queued
\* (approval_queue.rs: one-shot approvals; session.rs: refusals push none).
OneShot ==
    \A c \in Cookies :
        Len(taken[c]) + Cardinality({i \in DOMAIN queue : queue[i].owner = c})
            <= IF consent[c] \in Granting THEN 1 ELSE 0

\* Once CancelAuthentication has aborted a session, no approval of that
\* session is queued, neither then nor later (agent.rs: drain, then abort).
AbortedHoldsNothing ==
    \A c \in aborted : \A i \in DOMAIN queue : queue[i].owner # c

\* take_one hands out only approvals that have not expired, and leaves every
\* other live approval queued (approval_queue.rs: take_one).
TakesOneLive ==
    [][\A c \in Cookies : taken'[c] # taken[c] =>
          /\ \E i \in DOMAIN queue : queue[i].owner = c /\ queue[i].left > 0
          /\ \A i \in DOMAIN queue : queue[i].owner # c /\ queue[i].left > 0 =>
                \E j \in DOMAIN queue' : queue'[j] = queue[i]]_vars

\* The mutex is held or awaited by exactly the calls still inside
\* BeginAuthentication, each once: no error path, abort or cancel leaves it to
\* a call that has returned, and no waiting call is forgotten (agent.rs:
\* `inflight` around all of begin_authentication).
MutexIsLive ==
    /\ \A c \in Cookies : pc[c] \in {"waiting"} \cup HoldsGuard <=>
                            \E i \in DOMAIN inflight : inflight[i] = c
    /\ \A i, j \in DOMAIN inflight : inflight[i] = inflight[j] => i = j

\* Approvals expire in the order of the queue, so that take_one, which pops
\* expired ones from the front only, leaves none behind; and all but the last
\* are left over from requests that have returned: of the session in process
\* at most one is queued, and it is taken last (approval_queue.rs: push,
\* take_one; helper1.rs: an error and a SUCCESS without a take both skip the
\* drain).
LeftoversFirst ==
    \A i, j \in DOMAIN queue : i < j =>
        queue[i].left <= queue[j].left /\ pc[queue[i].owner] \in Returned

\* A request is auto-allowed only while a user's own ticked Allow for its key
\* is younger than the window it loaded and than the cap; auto-allows do not
\* extend the window (session.rs: remember; remember.rs: is_fresh).
RememberBounded ==
    [][\A c \in Cookies : consent[c] # consent'[c] /\ consent'[c] = "remember" =>
          LET age == sinceTick[KeyOf[c]]
          IN  age # Absent /\ age < cfg.remember_seconds /\ age < MaxRemember]_vars

\* The permit each request holds, read off the queue and the history.
Permit ==
    [c \in Cookies |->
        IF taken[c] # <<>> THEN "spent"
        ELSE IF \E i \in DOMAIN queue : queue[i].owner = c /\ queue[i].left > 0 THEN "live"
        ELSE IF consent[c] \in Granting THEN "void"
        ELSE "idle"]

Ledger == INSTANCE ApprovalLedger WITH permit <- Permit

\* The queue, its expiry and its drains implement one-shot permits: issued
\* once, then spent once or void for good (approval_queue.rs, session.rs).
RefinesLedger == Ledger!Spec

\* Every BeginAuthentication returns, so no request starves behind another
\* (agent.rs: fair `inflight`; helper_ui.rs, helper1.rs: bounded waits).
EveryCallReturns ==
    \A c \in Cookies : pc[c] = "waiting" ~> pc[c] \in Returned

\* helper_ui.rs: "kill the dialog instead of orphaning it on screen for an
\* action polkit has already retracted": no dialog for a cancelled request.
NoDialogAfterCancel == \A c \in cancelled : c \notin ui

\* agent.rs: "the approval pushed by a given session can only be consumed by
\* that session's helper-1 invocation".
ConsumedByOwnHelper ==
    \A c \in Cookies : \A i \in DOMAIN taken[c] : taken[c][i] = c
=============================================================================
