---------------------------- MODULE PamSentinel -----------------------------
(***************************************************************************)
(* pam_sentinel: one sm_authenticate call per sudo or su process (lib.rs), *)
(* with its broker round trips (broker_client.rs) and the dialog it forks  *)
(* (helper.rs), composed with sentinel-broker.  Calls run concurrently in  *)
(* processes of their own; all they share is the broker.  Each call owns   *)
(* two connections, one to check and one to record.  What the user does    *)
(* and when processes die is left to the environment.                      *)
(***************************************************************************)
EXTENDS RememberBroker, SentinelShared

CONSTANTS
    Calls,         \* sm_authenticate calls
    AuthRequests,  \* what a call finds: its process, its session, its configuration file
    NoKey,         \* the request cannot be remembered
    ValueOptions,  \* <<tool, option>>: the next word is the option's value, by the tool's manual
    IoTimeout,     \* IO_TIMEOUT of a connection to the broker
    HelperGrace    \* HELPER_GRACE_SECS

\* A sequence of words.
IsCommandLine(words) == words \in Seq({words[i] : i \in DOMAIN words})

IsTable(table) ==
    /\ "timeout" \in DOMAIN table => table["timeout"] \in Nat
    /\ "remember_seconds" \in DOMAIN table => table["remember_seconds"] \in Ttls

\* A request: the PAM service; the host's words up to the command, as the
\* host itself reads them (an elevation tool with its options and their
\* values, the variables it sets, su's user; none for another host), and the
\* words of the command it will run (none for a root shell); the host's own
\* executable and, if it can be read, its parent process; the audit login and
\* session and the real uid; whether WAYLAND_DISPLAY is set, and the uids with
\* a Wayland socket; and the configuration file when the call reads it.
ASSUME PamAssumption ==
    /\ Conns = Calls \X {"check", "record"}
    /\ NoKey \notin Keys
    /\ Empty = <<>>
    /\ IoTimeout \in Nat \ {0} /\ HelperGrace \in Nat
    /\ {0, DEFAULT_REMEMBER_SECONDS} \subseteq Ttls
    /\ \A r \in AuthRequests :
         /\ r = [service |-> r.service, prefix |-> r.prefix, target |-> r.target, exe |-> r.exe,
                 parent |-> r.parent, loginuid |-> r.loginuid, sessionid |-> r.sessionid,
                 realuid |-> r.realuid, wayland |-> r.wayland, displays |-> r.displays,
                 file |-> r.file]
         /\ IsCommandLine(r.prefix) /\ IsCommandLine(r.target)
         /\ IF r.prefix = <<>>
              THEN r.target # <<>> => process_basename(Head(r.target)) \notin ELEVATION_TOOLS
              ELSE process_basename(Head(r.prefix)) \in ELEVATION_TOOLS
         /\ IsTable(r.file.general)
         /\ \A service \in DOMAIN r.file.services : IsTable(r.file.services[service])

VARIABLES
    call,       \* where each call stands
    dialog,     \* the helper each call forked, and the line it wrote
    consented   \* history: requests for which a user ticked "remember" and allowed

pamVars == <<call, dialog, consented, up, store, conn, sinceRecord>>

-----------------------------------------------------------------------------
Unbounded == -1

Stages == {"idle", "asking", "checking", "spawning", "polling", "reaping",
           "granting", "recording", "returned", "dead"}

\* The request is a set of at most one: a call that has not begun has none.
Idle == [stage |-> "idle", req |-> {}, key |-> NoKey, secs |-> 0, timeout |-> 0,
         left |-> Unbounded, line |-> <<>>, result |-> "none", source |-> "none"]

NoDialog == [running |-> FALSE, line |-> <<>>]

\* A line that is no verdict, and one that begins as an Allow and is longer
\* than the 16 bytes that are read of it.
Noise == <<"?", "ALLOW", "REMEMBER">>
Overlong == <<"ALLOW", "?">>

Check(a) == <<a, "check">>
RecordOn(a) == <<a, "record">>

PamInit ==
    /\ BrokerInit
    /\ call = [a \in Calls |-> Idle]
    /\ dialog = [a \in Calls |-> NoDialog]
    /\ consented = {}

brokerUnchanged == UNCHANGED brokerVars
dialogUnchanged == UNCHANGED <<dialog, consented>>

Goto(a, stage) == call' = [call EXCEPT ![a].stage = stage]

\* Block, for so long at most.
Wait(a, stage, left) == call' = [call EXCEPT ![a].stage = stage, ![a].left = left]

\* The call's locals end with it; request and key are kept for the properties.
ReturnAs(a, req, result, source) ==
    call' = [call EXCEPT ![a] = [Idle EXCEPT !.stage = "returned", !.req = req,
                                 !.key = call[a].key, !.result = result, !.source = source]]

Return(a, result, source) == ReturnAs(a, call[a].req, result, source)

-----------------------------------------------------------------------------
(* proc_info.rs, display.rs: what the call learns about its host           *)

\* read_cmdline joins the arguments; the host's are the tool's and the command's.
Cmdline(r) == r.prefix \o r.target

caller_uid(r) == IF r.loginuid # Unset THEN r.loginuid ELSE r.realuid

HasDisplay(r) == r.wayland \/ caller_uid(r) \in r.displays

\* No command is the empty sequence.
remember_command_for(command) == IF remember_eligible_command(command) THEN command ELSE <<>>

Process(exe, cmdline, remember_command, policy_exe) ==
    [exe |-> exe, cmdline |-> cmdline, remember_command |-> remember_command,
     policy_exe |-> policy_exe]

\* Mutant: [policy] matches the program that launched a bare root shell.
OriginatorDecides(origin) == {origin.exe}

\* A root shell has no target that [policy] could match.
ShellPolicyExe(origin) == {}

\* Three paths: the host is no elevation tool, it elevates a command, or it
\* elevates nothing and the dialog shows who launched it.
ProcessInfo(r) ==
    LET stripped == strip_elevation_prefix(Cmdline(r))
        origin == IF r.parent = {} THEN [exe |-> r.exe, cmdline |-> Cmdline(r)]
                                   ELSE CHOOSE p \in r.parent : TRUE
    IN  CASE stripped = Cmdline(r) ->
               Process(r.exe, stripped, remember_command_for(stripped), {r.exe})
          [] stripped # Cmdline(r) /\ stripped # <<>> ->
               Process(Head(stripped), stripped, remember_command_for(stripped), {Head(stripped)})
          [] OTHER ->
               Process(origin.exe, origin.cmdline, <<>>, ShellPolicyExe(origin))

-----------------------------------------------------------------------------
(* lib.rs: sm_authenticate up to the remember window                       *)

Config(r) == for_service(load_from(r.file), r.service)

check_policy(r) == decide(load_from(r.file), ProcessInfo(r).policy_exe, {})

\* Mutant: the audit session is not looked at.
AnySession(r) == r.loginuid # Unset

HasAuditSession(r) == r.loginuid # Unset /\ r.sessionid # Unset

\* A request without an audit session, or for a command that is not
\* eligible, has no key.
RememberKey(r) ==
    LET command == ProcessInfo(r).remember_command
    IN  IF ~HasAuditSession(r) \/ command = <<>> THEN NoKey
        ELSE [loginuid |-> r.loginuid, sessionid |-> r.sessionid, service |-> r.service,
              command |-> remember_key_command(command, Config(r).remember_scope)]

\* The broker's keys are the ones requests lead to.
ASSUME KeysAssumption == \A r \in AuthRequests : RememberKey(r) \in Keys \cup {NoKey}

\* Every service first asks the polkit agent whether it already approved,
\* before anything else of the request is looked at.
Bypass(a) ==
    /\ call[a].stage = "idle"
    /\ ReturnAs(a, {}, "success", "agent")
    /\ dialogUnchanged /\ brokerUnchanged

Disabled(a, r) ==
    /\ call[a].stage = "idle" /\ ~Config(r).enabled
    /\ ReturnAs(a, {r}, "ignore", "disabled")
    /\ dialogUnchanged /\ brokerUnchanged

HeadlessResult(action) ==
    CASE action = "allow" -> "success" [] action = "deny" -> "auth_err" [] OTHER -> "ignore"

Headless(a, r) ==
    /\ call[a].stage = "idle" /\ Config(r).enabled /\ ~HasDisplay(r)
    /\ ReturnAs(a, {r}, HeadlessResult(Config(r).headless_action), "headless")
    /\ dialogUnchanged /\ brokerUnchanged

PolicyDecides(a, r) ==
    /\ call[a].stage = "idle" /\ Config(r).enabled /\ HasDisplay(r)
    /\ check_policy(r) # "Ask"
    /\ ReturnAs(a, {r}, IF check_policy(r) = "Allow" THEN "success" ELSE "auth_err", "policy")
    /\ dialogUnchanged /\ brokerUnchanged

Request(a, r) ==
    /\ call[a].stage = "idle" /\ Config(r).enabled /\ HasDisplay(r)
    /\ check_policy(r) = "Ask"
    /\ LET key == RememberKey(r)
           secs == IF key # NoKey THEN Config(r).remember_seconds ELSE 0
       IN  call' = [call EXCEPT
              ![a].stage = IF secs > 0 THEN "asking" ELSE "spawning",
              ![a].req = {r}, ![a].key = key, ![a].secs = secs,
              ![a].timeout = Config(r).timeout]
    /\ dialogUnchanged /\ brokerUnchanged

-----------------------------------------------------------------------------
(* broker_client.rs                                                        *)

SendCheck(a) ==
    /\ call[a].stage = "asking"
    /\ Connect(Check(a), "root", [op |-> "check", key |-> call[a].key, ttl |-> call[a].secs])
    /\ Wait(a, "checking", IoTimeout)
    /\ dialogUnchanged

\* No listener; or, once connected, a failed or partial write or a command
\* too long for a frame.
CheckNotSent(a) ==
    /\ call[a].stage = "asking"
    /\ Goto(a, "spawning")
    /\ dialogUnchanged /\ brokerUnchanged

\* Mutant: no answer counts as a fresh grant.
FreshUnlessStale(answer) == answer # "stale"

SaysFresh(answer) == answer = "fresh"

Proceed(a, answer) ==
    IF SaysFresh(answer) THEN Return(a, "success", "remember") ELSE Wait(a, "spawning", Unbounded)

\* Mutant: the call waits for the broker however long it takes.
AwaitBroker(a, c) == conn[c].stage # "open"

\* On a connection that was made, an answer, its end or IO_TIMEOUT ends the
\* round trip.
RoundTripEnds(a, c) == conn[c].stage # "open" \/ call[a].left = 0

ReadCheck(a) ==
    /\ call[a].stage = "checking"
    /\ conn[Check(a)].stage = "answered"
    /\ Proceed(a, conn[Check(a)].answer)
    /\ dialogUnchanged /\ brokerUnchanged

\* The connection was closed, or IO_TIMEOUT passed with no answer read; the
\* broker may still serve the request later.
CheckGivesUp(a) ==
    /\ call[a].stage = "checking"
    /\ RoundTripEnds(a, Check(a))
    /\ Proceed(a, "none")
    /\ dialogUnchanged /\ brokerUnchanged

SendRecord(a) ==
    /\ call[a].stage = "granting"
    /\ Connect(RecordOn(a), "root", [op |-> "record", key |-> call[a].key])
    /\ Wait(a, "recording", IoTimeout)
    /\ dialogUnchanged

RecordNotSent(a) ==
    /\ call[a].stage = "granting"
    /\ Return(a, "success", "dialog")
    /\ dialogUnchanged /\ brokerUnchanged

RecordEnds(a) ==
    /\ call[a].stage = "recording"
    /\ RoundTripEnds(a, RecordOn(a))
    /\ Return(a, "success", "dialog")
    /\ dialogUnchanged /\ brokerUnchanged

-----------------------------------------------------------------------------
(* helper.rs: run, parent_wait                                             *)

\* Mutant: poll() is never bounded.
NeverExpires(timeout) == Unbounded

\* Mutant: a timeout of zero is no exception.
GraceOnly(timeout) == timeout + HelperGrace

\* In ticks, for timeouts whose milliseconds fit an i32; DialogHelper has the
\* conversion and its overflow.
ParentPollTimeout(timeout) == IF timeout = 0 THEN Unbounded ELSE timeout + HelperGrace

SpawnDialog(a) ==
    /\ call[a].stage = "spawning"
    /\ Wait(a, "polling", ParentPollTimeout(call[a].timeout))
    /\ dialog' = [dialog EXCEPT ![a] = [running |-> TRUE, line |-> <<>>]]
    /\ UNCHANGED consented /\ brokerUnchanged

\* pipe() or fork() failed.
SpawnFails(a) ==
    /\ call[a].stage = "spawning"
    /\ Return(a, "auth_err", "error")
    /\ dialogUnchanged /\ brokerUnchanged

\* Mutant: the child is left running.
Abandon(a) == dialog' = dialog

\* SIGKILL and waitpid; the pipe is closed with whatever is in it.
KillAndReap(a) == dialog' = [dialog EXCEPT ![a] = NoDialog]

\* poll() found nothing before its deadline, or failed.
PollExpires(a) ==
    /\ call[a].stage = "polling" /\ call[a].left = 0
    /\ KillAndReap(a)
    /\ Return(a, "auth_err", "error")
    /\ UNCHANGED consented /\ brokerUnchanged

PollFails(a) ==
    /\ call[a].stage = "polling"
    /\ KillAndReap(a)
    /\ Return(a, "auth_err", "error")
    /\ UNCHANGED consented /\ brokerUnchanged

\* One read of the line, or of the end of the pipe a dead helper left; a
\* signal or an error loses what was written.
ReadVerdict(a) ==
    /\ call[a].stage = "polling"
    /\ dialog[a].line # <<>> \/ ~dialog[a].running
    /\ \E line \in {dialog[a].line, <<>>} :
          call' = [call EXCEPT ![a].stage = "reaping", ![a].line = line,
                               ![a].left = Unbounded]
    /\ dialogUnchanged /\ brokerUnchanged

\* waitpid returned: act on the verdict, recording it on an opt-in.  The line
\* of an Allow is kept for the properties.
Reap(a) ==
    /\ call[a].stage = "reaping" /\ ~dialog[a].running
    /\ LET v == ParseVerdict(call[a].line)
       IN  \/ /\ ~is_allow(v.outcome)
              /\ Return(a, "auth_err", "dialog")
              /\ dialog' = [dialog EXCEPT ![a] = NoDialog]
           \/ /\ is_allow(v.outcome)
              /\ IF v.remember /\ call[a].secs > 0 THEN Goto(a, "granting")
                                                   ELSE Return(a, "success", "dialog")
              /\ UNCHANGED dialog
    /\ UNCHANGED consented /\ brokerUnchanged

-----------------------------------------------------------------------------
(* The environment: the dialog's process, signals and time                 *)

\* The user decides, or the dialog for them.  It offers "remember" only for
\* a window that is not zero.
HelperSays(a, v) ==
    /\ dialog[a].running /\ dialog[a].line = <<>>
    /\ v.remember => call[a].secs > 0
    /\ dialog' = [dialog EXCEPT ![a].line = FormatVerdict(v)]
    /\ consented' = IF v.remember /\ is_allow(v.outcome)
                      THEN consented \cup call[a].req ELSE consented
    /\ UNCHANGED call /\ brokerUnchanged

\* execv failed, or something else was written to the pipe.
HelperSaysElse(a) ==
    /\ dialog[a].running /\ dialog[a].line = <<>>
    /\ \E line \in {<<"DENY">>, Noise, Overlong} : dialog' = [dialog EXCEPT ![a].line = line]
    /\ UNCHANGED <<call, consented>> /\ brokerUnchanged

\* It ends, after its verdict or without one.
HelperExits(a) ==
    /\ dialog[a].running
    /\ dialog' = [dialog EXCEPT ![a].running = FALSE]
    /\ UNCHANGED <<call, consented>> /\ brokerUnchanged

\* The process that loaded the module is killed; its dialog stays.
HostDies(a) ==
    /\ call[a].stage \notin {"idle", "returned", "dead"}
    /\ call' = [call EXCEPT ![a] = [Idle EXCEPT !.stage = "dead", !.req = call[a].req,
                                   !.key = call[a].key, !.secs = call[a].secs]]
    /\ dialogUnchanged /\ brokerUnchanged

Countdown(left) == IF left > 0 THEN left - 1 ELSE left

PamTick ==
    /\ BrokerTick
    /\ call' = [a \in Calls |-> [call[a] EXCEPT !.left = Countdown(@)]]
    /\ dialogUnchanged

BrokerStep ==
    /\ Crash \/ Restart \/ \E c \in Conns : ServeConnection(c)
    /\ UNCHANGED <<call, dialog, consented>>

\* UnixStream::connect and what follows it up to the answer.  connect(2) has
\* no timeout: on a listener whose backlog is full it returns only once the
\* broker accepts again, or ends.
Connecting(a) == SendCheck(a) \/ CheckNotSent(a) \/ SendRecord(a) \/ RecordNotSent(a)

\* What the host process does by itself unless it is stopped.
PamStep(a) ==
    \/ ReadCheck(a) \/ CheckGivesUp(a) \/ RecordEnds(a)
    \/ SpawnDialog(a) \/ PollExpires(a) \/ ReadVerdict(a) \/ Reap(a)

PamFailure(a) == SpawnFails(a) \/ PollFails(a) \/ HostDies(a)

PamNext ==
    \/ \E a \in Calls :
         \/ Bypass(a)
         \/ \E r \in AuthRequests :
              Disabled(a, r) \/ Headless(a, r) \/ PolicyDecides(a, r) \/ Request(a, r)
         \/ Connecting(a) \/ PamStep(a)
         \/ \E v \in Verdicts : HelperSays(a, v)
         \/ HelperSaysElse(a) \/ HelperExits(a) \/ PamFailure(a)
    \/ BrokerStep \/ PamTick

PamSpec == PamInit /\ [][PamNext]_pamVars

\* The kernel runs the host process and the dialog, time passes, and a
\* dialog that wrote its verdict exits.  The broker accepts connections; once
\* it has one it owes nothing, and it may crash at any moment.
PamFairSpec ==
    /\ PamSpec
    /\ \A a \in Calls :
         /\ WF_pamVars(PamStep(a))
         /\ WF_pamVars(Connecting(a))
         /\ WF_pamVars(dialog[a].line # <<>> /\ HelperExits(a))
    /\ WF_pamVars(PamTick)

-----------------------------------------------------------------------------
(* Properties                                                              *)

\* Every variable stays in its type; the window is one of the file's, only a
\* call that has looked at a request has one, and a timeout of zero leaves
\* the poll unbounded (helper.rs: parent_poll_timeout).
PamTypeOK ==
    /\ BrokerTypeOK
    /\ \A a \in Calls :
         /\ call[a].stage \in Stages
         /\ call[a].req \subseteq AuthRequests
         /\ call[a].req = {} <=> call[a].stage = "idle" \/ call[a].source = "agent"
         /\ call[a].key \in Keys \cup {NoKey}
         /\ call[a].secs \in Ttls \cup {0}
         /\ call[a].timeout \in Nat
         /\ call[a].left \in Nat \cup {Unbounded}
         /\ call[a].stage = "polling" /\ call[a].timeout = 0 => call[a].left = Unbounded
         /\ dialog[a].running \in BOOLEAN
    /\ consented \subseteq AuthRequests

\* The module fails closed: it lets a user in only on the agent's approval,
\* on a configuration file that parses and says so, on the broker's own
\* "fresh" about this call's key, or on a line of this call's dialog that
\* begins with ALLOW.  A broken file, a broker that is down, slow or crashing,
\* a lost or garbled verdict and an expired poll never do (lib.rs: sm_authenticate,
\* handle_headless; broker_client.rs: check_remember; helper.rs: parent_wait).
SuccessIsBacked ==
    \A a \in Calls : call[a].result = "success" =>
        CASE call[a].source = "remember" ->
               /\ conn[Check(a)].answer = "fresh"
               /\ conn[Check(a)].request.key = call[a].key
          [] call[a].source = "dialog" ->
               dialog[a].line # <<>> /\ Head(dialog[a].line) = "ALLOW"
          [] call[a].source = "headless" ->
               \A r \in call[a].req :
                   Parses(r.file) /\ r.file.general.headless_action = "allow"
          [] OTHER -> call[a].source \in {"agent", "policy"}

\* The command line is written the way strip_elevation_prefix expects: from
\* the tool to the command there are only options, each a word of its own, and
\* the table knows of each whether this tool gives it a value.  `sudo -E -u
\* root pacman` is plain; a bundle that ends in a value (`sudo -Eu root`), a
\* variable (`sudo A=1 pacman`) and su's user (`su root`) are not.
IsPlain(r) ==
    LET n == Len(r.prefix)
        tool == process_basename(r.prefix[1])
        Valued(word) == word.dir = "" /\ <<tool, word.base>> \in ValueOptions
    IN  r.prefix # <<>> =>
          /\ \E starts \in SUBSET (2 .. n + 2) :
                /\ 2 \in starts
                /\ \A i \in starts : i <= n =>
                      /\ Is(r.prefix[i], Options)
                      /\ Valued(r.prefix[i]) <=> Is(r.prefix[i], ELEVATION_FLAGS_WITH_VALUE)
                      /\ (IF Valued(r.prefix[i]) THEN i + 2 ELSE i + 1) \in starts
                /\ n + 2 \in starts => r.target = <<>>
          /\ r.target # <<>> => ~Is(Head(r.target), Options)

\* The program as [policy] may name it: the host's executable, or the word
\* the user typed for the elevated program, which is not looked up.
TypedProgram(r) == IF r.prefix = <<>> THEN r.exe ELSE Head(r.target)

IsRootShell(r) == r.prefix # <<>> /\ r.target = <<>>

\* No command, or one that runs others.
RunsAnything(r) == r.target = <<>> \/ process_basename(Head(r.target)) \in REMEMBER_INELIGIBLE

\* The command a request will run; of a line that is not plain, the one its
\* own dialog would display.
Command(r) == IF IsPlain(r) THEN r.target ELSE ProcessInfo(r).cmdline

\* A tick given for request q extends to r: same login session and service,
\* and the command q's dialog displayed is r's, or at least its program when
\* one of the two files asks for that scope.
Covers(q, r) ==
    LET shown == ProcessInfo(q).cmdline
    IN  /\ <<q.loginuid, q.sessionid, q.service>> = <<r.loginuid, r.sessionid, r.service>>
        /\ r.loginuid # Unset /\ r.sessionid # Unset
        /\ \/ shown = Command(r)
           \/ /\ "program" \in {Config(q).remember_scope, Config(r).remember_scope}
              /\ Head(shown) = Head(Command(r))

\* No grant without consent: a user who is let in without a dialog was
\* covered by an earlier dialog's Allow with "remember" ticked, for that
\* command in that session; and the broker holds or is sent only keys of
\* requests that were consented to (lib.rs: the record after spawn_dialog).
GrantsNeedConsent ==
    LET granted == {RememberKey(q) : q \in consented}
    IN  /\ \A k \in Keys : store[k] # Absent => k \in granted
        /\ \A c \in Conns : conn[c].request.op = "record" => conn[c].request.key \in granted
        /\ \A a \in Calls : call[a].source = "remember" =>
              \A r \in call[a].req : \E q \in consented : Covers(q, r)

\* Behind the options of a plain command line, [policy] is applied to the
\* program the user typed and to no other word: a call it decides has that
\* program on the list, no deny entry names an allowed one, and no request a
\* deny entry names gets as far as a dialog.  A bare root shell is never
\* decided by the program that launched it (proc_info.rs: for_pid; lib.rs:
\* check_policy).
PolicySeesTheTarget ==
    \A a \in Calls : \A r \in call[a].req : IsPlain(r) =>
        LET named(list) == ~IsRootShell(r) /\ \E e \in list : Names(e, TypedProgram(r))
        IN  CASE call[a].source = "policy" ->
                   /\ Parses(r.file)
                   /\ call[a].result = "success" => named(r.file.allow) /\ ~named(r.file.deny)
                   /\ call[a].result = "auth_err" => named(r.file.deny)
              [] call[a].source \in {"disabled", "headless"} -> TRUE
              [] OTHER -> Parses(r.file) => ~named(r.file.deny) /\ ~named(r.file.allow)

\* Root shells, interpreters and nested elevation always ask when the command
\* line is plain: whatever the file says, no key is made for them and their
\* dialog offers no window (lib.rs: remember_eligible_command; proc_info.rs).
ShellsAlwaysAsk ==
    \A a \in Calls : \A r \in call[a].req : IsPlain(r) /\ RunsAnything(r) =>
        call[a].key = NoKey /\ call[a].secs = 0

\* configuration.md: "Never remembered (always re-prompts)": shells and
\* interpreters as the elevated command, "interactive root shells and
\* cred-cache invocations (`sudo -s`/`-i`/`-v`, `su`)", however the command
\* line is written.
ShellsNeverRemembered ==
    \A a \in Calls : call[a].source = "remember" => \A r \in call[a].req : ~RunsAnything(r)

\* A terminal service talks to the broker only where the file parses and
\* opts that service in; the window of the polkit path never reaches it, nor
\* does what a broken file says (lib.rs: for_service, load_from).
TerminalOptsIn ==
    \A a \in Calls : \A r \in call[a].req :
        call[a].secs > 0 \/ conn[Check(a)].stage # "closed" =>
            \/ r.service = POLKIT_PAM_SERVICE
            \/ /\ Parses(r.file) /\ r.service \in DOMAIN r.file.services
               /\ "remember_seconds" \in DOMAIN r.file.services[r.service]

\* A dialog on screen belongs to a call that waits for it, or whose host
\* was killed under it: no return path leaves one behind (helper.rs:
\* parent_wait).
DialogIsAwaited ==
    \A a \in Calls : dialog[a].running => call[a].stage \in {"polling", "reaping", "dead"}

\* The shim never asks the broker to record or check a key the broker would
\* refuse, so a record it sends is never answered with an error (lib.rs:
\* remember_key; proto: is_bindable).
RecordsAreAccepted ==
    \A c \in Conns : conn[c].request.op # "none" => conn[c].answer # "error"
                                                     /\ IsBindable(conn[c].request.key)

\* A broker that has taken a connection cannot stall the authentication any
\* more: the round trip ends whether it answers, crashes or hangs without
\* serving it (broker_client.rs: IO_TIMEOUT).
BrokerNeverStalls ==
    \A a \in Calls :
        call[a].stage \in {"checking", "recording"}
            ~> call[a].stage \notin {"checking", "recording"}

\* With an auto-deny timeout every authentication returns that a broker which
\* accepts connections lets get to its dialog, even if the user never answers
\* and the dialog never times out by itself (helper.rs: parent_poll_timeout,
\* parent_wait).
EveryAuthReturns ==
    \A a \in Calls :
        call[a].stage \notin {"idle", "returned", "dead"} /\ call[a].timeout > 0
            ~> call[a].stage \in {"returned", "dead"}
=============================================================================
