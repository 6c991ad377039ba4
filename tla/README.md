# Verification of Sentinel's authentication path

Sentinel asks a user to confirm a privilege elevation in a dialog. It has two
entrances: polkit requests go to a per-user agent, `sudo` and `su` load a PAM
module. This directory holds TLA+ models of both, the TLC runs that check them
on small instances, and TLAPS proofs for every instance.

## The system

| Component | State | Operations | Model |
|---|---|---|---|
| Polkit agent (`agent.rs`, `session.rs`) | the `inflight` mutex, the `sessions` map of task handles, one session task | `BeginAuthentication`, `CancelAuthentication`, the session's policy, remember, dialog and hand-off stages | `PolkitAgent` |
| Approval queue and bypass (`approval_queue.rs`, `bypass_service.rs`, `agent_bypass.rs`) | FIFO of approvals with a 1 s lifetime | `push`, `take_one`, `drain`, `TakeApproval` over D-Bus | `PolkitAgent`, abstractly `ApprovalLedger` |
| Polkit remember cache (`remember.rs`) | grant ages per (action, command) | `is_fresh`, `remember` | `PolkitAgent` |
| Agent's children (`helper_ui.rs`, `helper1.rs`) | dialog process, helper-1 conversation, two timeouts | spawn, bounded read, reap, kill on drop; connect, verdict, 10 s timeout | `PolkitAgent` |
| `sentinel-broker` and its protocol | in-memory grants, one thread per connection | peer check, check, record, ping | `RememberBroker` |
| `pam_sentinel` (`lib.rs`, `broker_client.rs`, `helper.rs`) | locals of one call, two broker connections, a forked dialog | `sm_authenticate` from bypass to return code | `PamSentinel` (extends `RememberBroker` and `SentinelShared`) |
| Process inspection (`proc_info.rs`, `display.rs`) | none of its own; reads `/proc`, the environment and `/run/user` | caller, display, `ProcessInfo::for_pid` | operators of `PamSentinel` |
| Dialog helper (`bridge.rs`, `main.rs`) | tick counter, min-time gate, checkbox, verdict | tick, toggle, allow, deny, fail-safe exits | `DialogHelper` |
| Policy, configuration file, elevation stripping, remember eligibility, verdict line (`sentinel-shared/src/lib.rs`) | none | pure functions | `SentinelShared` |
| Agent process (`main.rs`, `subject.rs`, `authority.rs`) | stage of `run`, retry counter; the bus name's owner and polkitd's registry outside it | publish, claim the name, register with retries, serve, unregister | `AgentStartup` |
| Logging, i18n, CLI, packaging, fuzzing | - | - | not modelled |

How they interact: polkitd calls the agent; the agent shows a dialog, pushes an
approval and connects to `polkit-agent-helper-1`, whose PAM stack loads
`pam_sentinel`, which takes the approval back from the agent over D-Bus. Under
`sudo`, `pam_sentinel` asks the agent first too, then its configuration, then
the broker, then a dialog of its own, and records a grant with the broker when
the user ticked the box. The dialog writes one line and exits.

What is hard here: requests that wait for the mutex while others are cancelled;
approvals that expire, are drained or are taken by a caller they were not meant
for; children that hang at every stage; a broker that dies or answers after its
client gave up; deadlines computed twice, in different integer arithmetic; a
configuration file that is read anew, or fails to parse, at every call; a command
that has to be recovered from the words of an elevation tool; agents that start,
die and restart around one bus name and one registration per session.
`PROJECT.json` lists these hazards with the line each one bites at and the
properties aimed at it.

## Modules

* **`PolkitAgent`**. The agent runs on tokio's `current_thread` runtime and
  holds no lock but `inflight` across an await, so one action is what a task does
  between two real suspension points. In particular an uncontended `lock().await`
  does not suspend: `CancelAuthentication`, and a `BeginAuthentication` that
  finds the mutex free, are single actions. Aborting a task and dropping its
  child are one step; the runtime drops an aborted task when it next schedules
  it, and the task runs no code of its own before that. `pc` places each request (`new`, `waiting` for the
  mutex, `spawned`, `dialog`, `reap` for `child.wait()`, `handoff` for helper-1,
  `finished`, `returned`, `failed`); `inflight` is the mutex with its FIFO of
  waiters. `consent`, `taken`, `cancelled`, `aborted` and `sinceTick` are history.
  helper-1 and its PAM stack are external. polkitd does not reuse cookies. Time
  is relative (ticks left, ages), so no clock bound is needed.
* **`ApprovalLedger`**: what the approval machinery promises. One permit per request,
  issued once, then spent once or void for good. `PolkitAgent` implements it
  under the mapping `Permit`.
* **`RememberBroker`**: one action per outcome of `handle` and `dispatch`.
  `Crash` loses the store and every request not yet answered, `Restart` starts a
  new incarnation. `sinceRecord` is history. Framing is abstracted to a read
  that succeeds or fails.
* **`SentinelShared`**: the rules as pure operators, with the source's names. A
  word is a directory and a file name, a command line a sequence of words (the
  source joins the arguments with blanks before it looks at them, so word
  boundaries are all that is left), a TOML table a function on the keys it sets.
  `load_from` turns a file that does not parse into the defaults, `for_service`
  lays a service's table over `[general]`, whose window only `polkit-1` inherits.
* **`PamSentinel`**: `sm_authenticate` step by step, composed with the broker.
  A request is what the call finds: service, command line, parent, audit ids,
  displays, configuration file. `Disabled`, `Headless`, `PolicyDecides` and
  `Request` are the four ways from there, told apart by the operators of
  `SentinelShared` and by `ProcessInfo`; they exclude each other. A request keeps
  the elevation tool with its options (`prefix`) apart from the command it will
  run (`target`); the code sees only their concatenation and has to find the
  boundary again, and the properties compare what it found with the truth. What
  the tool itself makes of its options is the constant `ValueOptions`, from the
  tools' manuals; `IsPlain` says of a command line that it is written so that the
  code's own table reads it the same way. Each call owns two connections; the
  broker's own actions serve them. Connecting has no deadline, as in the code; from
  then on `left` counts down `IoTimeout`, and a round trip ends with an answer, with
  the connection or with the timeout, which may come before or after the broker
  serves the request. The dialog's line goes through `FormatVerdict` and
  `ParseVerdict`, and may be noise (`Noise`) or longer than what is read of it
  (`Overlong`). `left` then counts down the poll's deadline. The host process may be
  killed at any time.
  A call's configuration file is fixed when it reads it; two calls may find
  different files.
* **`AgentStartup`**: `run` of several agent processes, from `Launch` to
  `Unregister`. `stage` is the place in `run`, `attempt` the retry counter,
  `owner` the bus name, `registry` polkitd's agent per session. Each process runs
  once; a restart is another process of the same session. A process that ended
  stays the owner and registered until the bus and polkitd notice. polkitd may
  restart and forget everyone; the agent has no code for it, and none is assumed.
  A rival agent registers and leaves as it likes.
* **`DialogHelper`**: the controller with its `i32` arithmetic as a parameter
  (`IntMax`). The QML timer fires at most once per interval of real time and
  missed firings coalesce, so the dialog's count lags behind `clock`. The PAM
  parent's `poll` deadline is computed as in `parent_poll_timeout`, wrap included.

`MC*.tla` and the `.cfg` files instantiate them. In the modules a definition
marked "Mutant" is a plausible bug of the definition that follows; nothing uses
it except the check that each property notices such a bug.

## Runs

| Run | Instance | Shows |
|---|---|---|
| `agent` | 2 requests, one shared key, windows {0,1,3} with cap 2, timeouts {0,1} | `TypeOK`, `OneSession`, `HandleWhileRunning`, `NoOrphanDialog`, `OneShot`, `AbortedHoldsNothing`, `MutexIsLive`, `LeftoversFirst`, `TakesOneLive`, `RememberBounded`, `EveryCallReturns`, `RefinesLedger` |
| `agent_cancel` | as `agent` | violation of `NoDialogAfterCancel` |
| `agent_consumer` | as `agent` | violation of `ConsumedByOwnHelper` |
| `agent_wedged` | 2 requests, every dialog bounded, dialogs need not exit | violation of `EveryCallReturns` |
| `broker` | 3 connections, 2 keys that bind and 3 that do not, windows {0,1,3} with cap 2 | `BrokerTypeOK`, `OnlyBoundGrants`, `FreshIsEarned`, `GrantsAreKept` |
| `pam_safety` | 2 calls over 7 requests that could share, or wrongly share, a grant (other arguments, scopes, sessions, files), cap 1 | `PamTypeOK`, `SuccessIsBacked`, `GrantsNeedConsent`, `DialogIsAwaited`, `RecordsAreAccepted` |
| `pam_requests` | 1 call over some 400 requests: 9 prefixes of `sudo` and its like, plain and not, with 7 commands, 4 of `su`, 6 files, 4 services, displays and headless actions | `PolicySeesTheTarget`, `ShellsAlwaysAsk`, `TerminalOptsIn`, `BrokerNeverStalls`, `EveryAuthReturns` |
| `pam_shells` | 2 calls of `su root` or `sudo -Eu root bash`, services opted in | violation of `ShellsNeverRemembered` |
| `startup` | 4 processes: two of one session, one of another, one without a session; 3 attempts | `StartupTypeOK`, `RegisteredIsReachable`, `StartDecides`, `RetryWins` |
| `startup_sessions` | as `startup` | violation of `SessionsDoNotCompete` |
| `dialog` | six-bit integers, timeouts and gates that fit and that do not | `TypeOK`, `NoEarlyAllow`, `NoEarlyEnd`, `AutoDenies` |
| `dialog_overflow` | as `dialog` | violation of `ParentOutlastsDialog` |

Why the bounds are enough: two requests already give a holder and a waiter of
the mutex, an approval and a competing consumer, a cancelled request and an
innocent one; a window beyond the cap, one below it and none are present, and
times of one or two ticks separate "before", "at" and "after" every deadline.
Three connections let a check, a record of the same key and one of another key
overlap. PAM calls share nothing but the broker, so liveness and the rules of
`SentinelShared` are checked for one call against a broker that may do anything,
over the product of command lines and files; what two calls can do to each other
needs few requests, and `pam_safety` picks them. The code's table
of options with a value is the source's full list; what the tools do is
`ManualValues`, for the words the requests use. An `IoTimeout` of one tick lets a
round trip end before the timeout, at it and by it. Three attempts
give a first, a middle and a last one; eight would only repeat the middle. `IntMax` is odd and `TickMs` even,
as with 2^31-1 and 100, so that no firing lands on the saturated total.

Fairness. `LiveSpec`: the runtime polls ready tasks, time passes, a dialog that
has written its verdict exits, and one without an auto-deny timeout (the user's
own setting: "wait as long as it takes") is answered or closed at last. Nothing
is assumed of users whose dialog has a timeout, of polkitd or of helper-1.
`FairSpec` has neither assumption on dialogs; `agent_wedged` shows that the one on
their exit is needed. `PamFairSpec`: the kernel runs the host process, time passes
and the dialog exits after its verdict; failures need not happen. Of the broker
it assumes only that it accepts connections (`Connecting`): `connect(2)` has no
timeout in the code, so a broker that is stopped with a full backlog would block
the call there. Once it has accepted it owes nothing, may hang and may crash.
`StartupFairSpec`: a process that runs goes on, which supposes that the bus and
polkitd answer its calls; signals, crashes, the rival and the notices of bus and
polkitd are not fair. The dialog's `FairSpec`: the scene comes up, time passes and Qt serves the timer.
Deadlock checking is off only for the dialog, whose process ends.

## What the code's comments say and the model refutes

1. `agent_cancel`: cancelling a request that waits for the mutex finds no
   handle. The cancel is forgotten and the dialog is shown later for an action
   polkit has retracted.
2. `agent_consumer`: `TakeApproval` carries no cookie and every PAM service of
   the user asks first, so an approval need not be consumed by its own helper-1.
3. `agent_wedged`: only the read of the verdict is bounded; `child.wait()` is
   not, and is awaited under the mutex.
4. `dialog_overflow`: `(timeout + 5) * 1000` wraps an `i32`; for some very large
   timeouts the parent's deadline comes long before the dialog's.
5. `startup_sessions`: `org.sentinel.Agent.conf` says "each session runs its own
   agent", but the bus name is one for the system and is claimed once: while one
   agent has it, the agent of another session ends.
6. `pam_shells`: `configuration.md` says that shells and `su` are never remembered.
   `strip_elevation_prefix` knows options only as whole words and stops at the
   first other word: of `sudo -Eu root bash` it makes `root bash`, of `su root`
   it makes `root`. Neither is on the denylist, so the shell gets a key.

Four more comments say more than the code does, without a run of their own:

* `approval_queue.rs:73` says that at most one approval is queued, of the session
  being processed. An error from helper-1 leaves `session::run` through `?`
  before the drain, so an approval can outlive its session for up to its TTL, and
  a second one can be queued behind it. `LeftoversFirst` is what holds.
* `main.rs` says of a competitor that exits "we win". `RetryWins` shows it while an
  attempt is left; after the last refusal the process sleeps once more and gives
  up, whatever has happened in that half second.
* `broker_client.rs:14` says that a hung broker cannot stall the authentication. This
  is so of a connection that was made (`BrokerNeverStalls`), not of `connect(2)`.
* `helper.rs:206` says that a line longer than the read is parsed as Deny. One that
  begins with `ALLOW ` is cut and read as a plain Allow, and the model has it so
  (`Overlong`); it is never read as a tick. The helper writes no such line.

What still holds in spite of the first two is the ledger: an approval is used
at most once, by someone, while it is live, and only if its request was granted.

## Proofs

`PolkitAgentProofs` proves, for any cookies, keys, windows and timeouts and from
`ConstantsAssumption` alone, the safety `agent` checks (order apart) and the
refinement of `ApprovalLedger`. The inductive invariant is `Inv`: `TypeOK`;
`SessionInv` (the mutex's head is the only request past it, a request's handle is
in the map exactly while its task runs, and a dialog belongs to a session in its
dialog or reap stage); `OwnedInv` (a granted request is past its decision, an
aborted one is finished, and queued and taken approvals together number at most
one per request, none for a request that was not granted and none queued for an
aborted one); and `GrantInv` (a cached grant is exactly as old as the user's last
tick for its key). The parts are needed because `OneShot` depends on
a session pushing at most once, which depends on where the session stands, and
`RememberBounded` on the cache agreeing with the history.

`AgentOrderProofs` adds to it the two that are about order. `MutexIsLive` says that
the mutex is held and awaited by exactly the calls inside `BeginAuthentication`,
each once; it is the safety half of `EveryCallReturns`, since it leaves no state in
which a call waits for a release that nobody owes. Every step is an arrival, a
departure of the head, or neither (`MutexSteps`), and a departure leaves nothing of
the call behind because it was queued once. `LeftoversFirst` is what is true in
place of the claim at `approval_queue.rs:73`: more than one approval may be queued, but they expire
in the order of the queue, and all before the last belong to requests that have
returned. A push keeps it because the pushing request alone is past the mutex
(`OneSession`) and is not yet decided, while every owner in the queue is (`OwnedInv`).
So `take_one` leaves no expired approval behind, and a session's own helper gets the
session's approval, as long as it is queued, unless a leftover is still live.

`RememberBrokerProofs` proves the broker's four properties from
`BrokerAssumption`. The invariant adds `StoreIsEarned`: a grant that is held has
the age of the last record this incarnation dispatched for its key, and binds.
`GrantsAreKept` needs only that ages end at the cap, where a grant may be pruned.

`AgentStartupProofs` proves `StartupTypeOK` and `RegisteredIsReachable` from
`StartupAssumption`, for any processes, sessions, session ids and number of attempts. The invariant adds to the types that a process past the
claim owns the name, and that a live process in the registry is past the claim
and there for its own session. `RegisteredIsReachable` alone is not inductive: it
says nothing of the process that is about to register.

`DialogHelperProofs` proves the dialog's safety from `DialogAssumption`, for
integers of any width, any timer interval, grace and arguments. The invariant's
core is `CountLags`: the milliseconds counted, with a firing that is due, never
exceed the time that has passed. Wrapping only lowers the count, so every
threshold it reaches was reached in real time before. `GateIsLate` carries this
to the button, `SilentUntilExit` says a dialog that is up or was killed has
written nothing. `NoEarlyEnd` is for timeouts whose milliseconds fit, the others
are what `dialog_overflow` is about; `ParentOutlastsFitting` shows that the property
this run refutes holds of all that fit.

`PamRequestProofs` proves what the rules of `SentinelShared` make of a request,
for every request. `ElevationStripped` is the algorithm of
`strip_elevation_prefix`: if a command line is plain (`IsPlain`: a tool, then options
that are words of their own and of which the table knows whether this tool gives
them a value, then the command), what is left is the command, however many options
there are. The scan is a
recursive function; that its equation has a solution, and where the scan ends,
are shown by taking the last position where the claim fails, which exists by the
library's well-founded minimum. From it follow which program `[policy]` sees
(`PolicyFacts`) on plain lines, and that no shell has a key there (`ShellsHaveNoKey`); of every line,
that a key binds (`KeyFacts`), that two
requests with one key cover each other (`SameKeyCovers`), and what a service gets
of the file (`ConfigFacts`).

`PamSentinelProofs` proves every invariant of `pam_safety` and `pam_requests` for
any number of concurrent calls and any requests, and that the composition
implements `RememberBroker` (`CallsAreClients`), which carries the broker's theorems over.
The invariant `PamInv` has a part per piece of a call. `CallOK`: an early return
is backed by the agent or the file, and any other call has the key of its
request, which `[policy]` left undecided, and a window only if its service is
opted in. `DialogOK`: a running dialog is waited for, what is read of it is what
it wrote, and a line with "remember" is consent to the call's request. `CheckOK`
and `RecordOK`: a connection carries the call's own key; a record on its way and
a "fresh" on its way back are for keys that were consented to. `StoreOK`: so is
every grant. `GrantsNeedConsent` needs the whole chain, since the tick, the
record, its dispatch, another call's check and its answer are steps of
different processes with crashes and timeouts between them. The per-call parts
read one call and its connections, so a step of another call only has to show
that consent grows (`Frame`).

The proofs assume of the constants, in `PamAssumption` and `KeysAssumption`: each
call has its two connections; a request's words are sequences, and a prefix that
is not empty begins with an elevation tool, one that is empty means that the host
is none; timeouts are naturals and windows
among `Ttls`, 0 and the default included; and `Keys` holds every key a request
leads to. TLC evaluates them on the requests of both runs. Command lines that are not
plain are requests like any other: fail-closed, consent, the opt-in and the
accepted keys are proved of them too. `PolicySeesTheTarget` and `ShellsAlwaysAsk`, and
`ElevationStripped` under them, are about plain lines only, because on the others they
are false; `pam_shells` shows it for shells.

Only model-checked: liveness (`EveryCallReturns`, `BrokerNeverStalls`,
`EveryAuthReturns`, `AutoDenies`, `StartDecides`, `RetryWins`), which TLAPS does
not reach. The runs that expect a violation are counterexamples and need no proof.

## Plan

1. Core of the polkit path, broker, PAM module and dialog: done.
2. Rules of `sentinel-shared`, the PAM module driven by them, start-up and
   registration of the agent: done.
3. Proofs of the safety of every module: done.
4. The composition of agent and PAM module through helper-1, replacing the
   external helper of `PolkitAgent` by `sm_authenticate`.

## Not modelled

* Message templates, icons, notifications, log lines and their quoting, the
  locale, translations and command-line parsing carry no control.
* Which identity `identity::pick` chooses, and how the agent recovers the command
  behind a polkit request: open choices of `PolkitAgent`.
* Arguments with blanks: the code joins and splits a command line at blanks, the
  model keeps words.
* What `[policy]` makes of a command line that is not plain (of `sudo A=1 pacman` it
  sees `A=1`) is modelled but no property is claimed of it.
* Which file a typed name resolves to. The code gives `[policy]` the word as typed
  for an elevated program, though `configuration.md:157` speaks of the resolved
  path; `PolicySeesTheTarget` is about the typed word.
* A backlog of the broker's socket: whether `connect(2)` returns is an assumption
  of fairness, see above.
* The byte layout of the broker's frames, which the repository fuzzes; a frame
  that is too long, cut off or malformed is a failed send or read.
* The owner lookup and the call of `agent_bypass.rs` are one step.
* Installation and packaging scripts are outside the authentication path.
