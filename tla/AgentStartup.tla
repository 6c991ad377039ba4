---------------------------- MODULE AgentStartup ----------------------------
(***************************************************************************)
(* The polkit agent's process around its requests (main.rs, subject.rs,    *)
(* authority.rs): it publishes its objects, claims the one bus name that   *)
(* pam_sentinel asks, registers with polkitd for its login session against *)
(* a competitor, serves, and unregisters when it is told to stop.  A       *)
(* process of the model runs once; a restart is another process.  The      *)
(* system bus and polkitd are external: they notice the end of a process   *)
(* some time after it, and polkitd may restart and forget everyone.        *)
(***************************************************************************)
EXTENDS Integers

CONSTANTS
    Procs,              \* agent processes, of any user and session
    Sessions,           \* login sessions
    Rival,              \* another polkit agent (polkit-kde, polkit-gnome)
    None,
    Override,           \* --session-id of each process, if any
    Env,                \* XDG_SESSION_ID of each process, if any
    Audit,              \* /proc/self/sessionid of each process, if any
    Blank,              \* an empty session id
    UnsetId,            \* 4294967295
    REGISTER_RETRIES

\* An optional value is a set of at most one.
OptionalIds == {{}} \cup {{s} : s \in Sessions \cup {Blank, UnsetId}}

ASSUME StartupAssumption ==
    /\ REGISTER_RETRIES \in Nat \ {0}
    /\ None \notin Procs \cup {Rival} /\ Rival \notin Procs
    /\ Blank \notin Sessions /\ UnsetId \notin Sessions
    /\ Override \in [Procs -> {{}} \cup {{s} : s \in Sessions}]
    /\ Env \in [Procs -> OptionalIds \ {{UnsetId}}]
    /\ Audit \in [Procs -> OptionalIds]

VARIABLES
    stage,      \* where each process stands in run()
    attempt,    \* its registration attempt, 0 outside the retry loop
    owner,      \* owner of the bus name org.sentinel.Agent
    registry    \* polkitd: the agent registered for each session

startupVars == <<stage, attempt, owner, registry>>

-----------------------------------------------------------------------------
Starting == {"launched", "published", "registering", "backoff", "registered"}
Over == {"exited", "failed", "refused", "gaveup", "killed"}
Stages == {"off", "serving", "leaving"} \cup Starting \cup Over

Alive(p) == stage[p] \notin {"off"} \cup Over

\* subject.rs: the session a process registers for, if it can tell.
resolve_session_id(p) ==
    IF Override[p] # {} THEN Override[p]
    ELSE IF Env[p] \ {Blank} # {} THEN Env[p] \ {Blank}
    ELSE Audit[p] \ {Blank, UnsetId}

StartupInit ==
    /\ stage = [p \in Procs |-> "off"]
    /\ attempt = [p \in Procs |-> 0]
    /\ owner = None
    /\ registry \in [Sessions -> {None, Rival}]

Goto(p, s) == stage' = [stage EXCEPT ![p] = s]

\* Into stage s, with the retry loop entered, left or not reached.
Enter(p, s, n) == Goto(p, s) /\ attempt' = [attempt EXCEPT ![p] = n]

-----------------------------------------------------------------------------
(* main.rs: run                                                            *)

Launch(p) ==
    /\ stage[p] = "off"
    /\ Goto(p, "launched")
    /\ UNCHANGED <<attempt, owner, registry>>

\* Connect to the bus, resolve the subject, publish both objects.
Publish(p) ==
    /\ stage[p] = "launched"
    /\ Goto(p, IF resolve_session_id(p) # {} THEN "published" ELSE "failed")
    /\ UNCHANGED <<attempt, owner, registry>>

\* Mutant: a newcomer replaces the owner.
NameReplaced(p) == owner' = p /\ Enter(p, "registering", 1)

\* request_name does not queue, and no owner allows to be replaced: a taken
\* name is an error, and the process ends.
RequestName(p) ==
    IF owner = None THEN owner' = p /\ Enter(p, "registering", 1)
                    ELSE UNCHANGED owner /\ Enter(p, "refused", 0)

ClaimName(p) ==
    /\ stage[p] = "published"
    /\ RequestName(p)
    /\ UNCHANGED registry

Register(p) ==
    /\ stage[p] = "registering"
    /\ \E s \in resolve_session_id(p) :
         IF registry[s] = None
           THEN Enter(p, "registered", 0) /\ registry' = [registry EXCEPT ![s] = p]
           ELSE Enter(p, "backoff", attempt[p]) /\ UNCHANGED registry
    /\ UNCHANGED owner

\* Mutant: the last attempt is never made.
LastButOne(p) == attempt[p] < REGISTER_RETRIES - 1

\* Mutant: there is always another attempt.
Forever(p) == TRUE

MayRetry(p) == attempt[p] < REGISTER_RETRIES

\* Mutant: attempts are not counted.
SameAttempt(n) == n

NextAttempt(n) == n + 1

\* The back-off also follows the last refusal.
BackoffEnds(p) ==
    /\ stage[p] = "backoff"
    /\ IF MayRetry(p)
         THEN Enter(p, "registering", NextAttempt(attempt[p]))
         ELSE Enter(p, "gaveup", 0)
    /\ UNCHANGED <<owner, registry>>

InstallHandlers(p) ==
    /\ stage[p] = "registered"
    /\ Goto(p, "serving")
    /\ UNCHANGED <<attempt, owner, registry>>

\* Any other error on the way, a bus or polkitd that is not there included.
StartFails(p) ==
    /\ stage[p] \in Starting \ {"backoff"}
    /\ Enter(p, "failed", 0)
    /\ UNCHANGED <<owner, registry>>

\* SIGTERM or SIGINT: handled once the handlers are installed, deadly before.
Signal(p) ==
    /\ Alive(p) /\ stage[p] # "leaving"
    /\ Enter(p, IF stage[p] = "serving" THEN "leaving" ELSE "killed", 0)
    /\ UNCHANGED <<owner, registry>>

\* Unregistering may fail; the process ends either way.
Unregister(p) ==
    /\ stage[p] = "leaving"
    /\ Goto(p, "exited")
    /\ \/ UNCHANGED registry
       \/ \E s \in resolve_session_id(p) :
            registry[s] = p /\ registry' = [registry EXCEPT ![s] = None]
    /\ UNCHANGED <<attempt, owner>>

-----------------------------------------------------------------------------
(* The system bus, polkitd, other agents                                   *)

Dies(p) ==
    /\ Alive(p)
    /\ Enter(p, "killed", 0)
    /\ UNCHANGED <<owner, registry>>

\* The bus closes the connection of a process that ended.
BusNotices ==
    /\ owner # None /\ ~Alive(owner)
    /\ owner' = None
    /\ UNCHANGED <<stage, attempt, registry>>

\* polkitd drops the agent whose connection is gone.
PolkitdNotices(s) ==
    /\ registry[s] \in Procs /\ ~Alive(registry[s])
    /\ registry' = [registry EXCEPT ![s] = None]
    /\ UNCHANGED <<stage, attempt, owner>>

PolkitdRestarts ==
    /\ registry' = [s \in Sessions |-> None]
    /\ UNCHANGED <<stage, attempt, owner>>

RivalRegisters(s) ==
    /\ registry[s] = None
    /\ registry' = [registry EXCEPT ![s] = Rival]
    /\ UNCHANGED <<stage, attempt, owner>>

RivalLeaves(s) ==
    /\ registry[s] = Rival
    /\ registry' = [registry EXCEPT ![s] = None]
    /\ UNCHANGED <<stage, attempt, owner>>

\* What a process does unless it is stopped.
AgentStep(p) ==
    Publish(p) \/ ClaimName(p) \/ Register(p) \/ BackoffEnds(p) \/ InstallHandlers(p) \/ Unregister(p)

StartupNext ==
    \/ \E p \in Procs : Launch(p) \/ AgentStep(p) \/ StartFails(p) \/ Signal(p) \/ Dies(p)
    \/ \E s \in Sessions : PolkitdNotices(s) \/ RivalRegisters(s) \/ RivalLeaves(s)
    \/ BusNotices \/ PolkitdRestarts

StartupSpec == StartupInit /\ [][StartupNext]_startupVars

\* A process that runs goes on: the bus and polkitd answer its calls.
StartupFairSpec == StartupSpec /\ \A p \in Procs : WF_startupVars(AgentStep(p))

-----------------------------------------------------------------------------
(* Properties                                                              *)

\* Every variable stays in its type, and no process makes more attempts than
\* REGISTER_RETRIES.
StartupTypeOK ==
    /\ stage \in [Procs -> Stages]
    /\ attempt \in [Procs -> 0 .. REGISTER_RETRIES]
    /\ \A p \in Procs : attempt[p] > 0 <=> stage[p] \in {"registering", "backoff"}
    /\ owner \in Procs \cup {None}
    /\ registry \in [Sessions -> Procs \cup {Rival, None}]

\* An agent polkitd hands requests to can be asked for its approvals: a live
\* process that is registered, for the session it belongs to, holds the bus
\* name, through restarts of it, of polkitd and of other users' agents (main.rs:
\* the bypass channel is "up before we register with polkitd").
RegisteredIsReachable ==
    \A s \in Sessions : registry[s] \in Procs /\ Alive(registry[s]) =>
        /\ owner = registry[s]
        /\ s \in resolve_session_id(registry[s])
        /\ stage[registry[s]] \in {"registered", "serving", "leaving"}

\* Every start is decided: the process serves or ends, even if a competitor
\* never lets go of the session (main.rs: the bounded retry loop).
StartDecides ==
    \A p \in Procs : stage[p] \in Starting ~> stage[p] \in {"serving"} \cup Over

\* While an attempt is left, a session that became free during the back-off is
\* won, unless another agent is faster or the process is stopped; it is never
\* given up (main.rs: "if the competitor eventually exits ... we win").
RetryWins ==
    \A p \in Procs : \A s \in resolve_session_id(p) :
        stage[p] = "backoff" /\ attempt[p] < REGISTER_RETRIES /\ registry[s] = None
            ~> registry[s] # None \/ stage[p] \in {"failed", "killed"}

\* org.sentinel.Agent.conf: "each session runs its own agent": a start is
\* turned away at the bus name only if an agent was started for that same
\* session (main.rs: request_name).
SessionsDoNotCompete ==
    \A p \in Procs : stage[p] = "refused" =>
        \E q \in Procs \ {p} :
            stage[q] # "off" /\ resolve_session_id(q) = resolve_session_id(p)
=============================================================================
