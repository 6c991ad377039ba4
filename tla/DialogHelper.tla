---------------------------- MODULE DialogHelper ----------------------------
(***************************************************************************)
(* sentinel-helper-kde: the confirmation dialog (bridge.rs, main.rs) and   *)
(* the poll(2) of the PAM module that forked it (helper.rs).  The dialog   *)
(* does not read a clock: it counts the firings of a QML timer in an i32   *)
(* number of milliseconds.  Firings a busy process misses are coalesced,   *)
(* so its count may lag behind the time the user, and the parent, see.     *)
(* Both convert a u32 timeout to i32, each in its own way.                 *)
(***************************************************************************)
EXTENDS Integers

CONSTANTS
    IntMax,        \* i32::MAX
    TickMs,        \* TICK_MS, the timer's interval
    MsPerSec,      \* 1000
    GraceSecs,     \* HELPER_GRACE_SECS
    FallbackSecs,  \* the parent's timeout for one that is not an i32
    Timeouts,      \* --timeout, seconds as u32
    MinTimes,      \* --min-time, milliseconds as u32
    Offers         \* --remember-secs

ASSUME DialogAssumption ==
    /\ IntMax \in Nat \ {0} /\ TickMs \in Nat \ {0} /\ MsPerSec \in Nat \ {0}
    /\ TickMs <= IntMax
    /\ GraceSecs \in Nat /\ FallbackSecs \in Nat
    /\ (FallbackSecs + GraceSecs) * MsPerSec <= IntMax
    /\ Timeouts \subseteq Nat /\ MinTimes \subseteq Nat /\ Offers \subseteq Nat

VARIABLES
    args,           \* the command line
    stage,          \* of the dialog's process
    elapsed,        \* elapsed_ms
    allowEnabled,   \* allow_enabled
    checked,        \* remember_checked
    verdict,        \* what it wrote: an outcome and the opt-in
    due,            \* an interval of the timer has passed since it last fired
    clock           \* real time since the fork, in intervals

vars == <<args, stage, elapsed, allowEnabled, checked, verdict, due, clock>>

-----------------------------------------------------------------------------
(* i32 arithmetic                                                          *)

SmallerOf(a, b) == IF a <= b THEN a ELSE b

\* i32::try_from(n).unwrap_or(default), for a u32.
TryFrom(n, default) == IF n <= IntMax THEN n ELSE default

\* What + and * leave in an i32 of the release build.
Wrap(n) == ((n + IntMax + 1) % (2 * (IntMax + 1))) - (IntMax + 1)

SaturatingMul(a, b) == SmallerOf(a * b, IntMax)

-----------------------------------------------------------------------------
(* helper.rs: parent_poll_timeout                                          *)

Infinite == -1

\* PollTimeout::try_from: -1 is no timeout, other negatives are refused.
PollTimeoutOf(ms) == IF ms >= -1 THEN ms ELSE IntMax

\* Mutant: the grace period is left out.
ParentWithoutGrace(timeout) ==
    IF timeout = 0 THEN Infinite
    ELSE PollTimeoutOf(Wrap(TryFrom(timeout, FallbackSecs) * MsPerSec))

ParentPollTimeout(timeout) ==
    IF timeout = 0 THEN Infinite
    ELSE PollTimeoutOf(Wrap(Wrap(TryFrom(timeout, FallbackSecs) + GraceSecs) * MsPerSec))

-----------------------------------------------------------------------------
(* bridge.rs: DialogControllerRust and its operations                      *)

NoVerdict == [outcome |-> "none", remember |-> FALSE]

TimeoutSecs == TryFrom(args.timeout, IntMax)
MinTime == TryFrom(args.minTime, IntMax)
Total == SaturatingMul(TimeoutSecs, MsPerSec)
RememberOffered == args.rememberSecs > 0

Init ==
    /\ args \in [timeout : Timeouts, minTime : MinTimes, rememberSecs : Offers]
    /\ stage = "starting"
    /\ elapsed = 0
    /\ allowEnabled = (args.minTime = 0)
    /\ checked = FALSE
    /\ verdict = NoVerdict
    /\ due = FALSE
    /\ clock = 0

\* Write the verdict, flush it and exit.
Finish(outcome, remember) ==
    /\ stage' = "exited"
    /\ verdict' = [outcome |-> outcome, remember |-> remember]

\* The scene is up and its timer runs.
Show ==
    /\ stage = "starting"
    /\ stage' = "shown"
    /\ UNCHANGED <<args, elapsed, allowEnabled, checked, verdict, due, clock>>

\* Mutant: the process exits without its verdict.
ExitSilently ==
    /\ stage = "starting"
    /\ stage' = "exited"
    /\ UNCHANGED <<args, elapsed, allowEnabled, checked, verdict, due, clock>>

\* No WAYLAND_DISPLAY, or the scene does not load.
CannotShow ==
    /\ stage = "starting"
    /\ Finish("deny", FALSE)
    /\ UNCHANGED <<args, elapsed, allowEnabled, checked, due, clock>>

\* Mutant: the gate opens one firing early.
GateOneEarly(e) == e + TickMs >= MinTime

PastMinTime(e) == e >= MinTime

\* Mutant: a timeout of zero expires at once.
ExpiresAtZero(e) == e >= Total

\* Mutant: the milliseconds are scaled twice.
ScaledTwice(e) == TimeoutSecs > 0 /\ e >= Total * MsPerSec

PastTimeout(e) == TimeoutSecs > 0 /\ e >= Total

Tick ==
    /\ stage = "shown" /\ due
    /\ due' = FALSE
    /\ LET e == Wrap(elapsed + TickMs)
       IN  /\ elapsed' = e
           /\ allowEnabled' = (allowEnabled \/ PastMinTime(e))
           /\ IF PastTimeout(e) THEN Finish("timeout", FALSE) ELSE UNCHANGED <<stage, verdict>>
    /\ UNCHANGED <<args, checked, clock>>

\* The checkbox is visible only when it is offered.
ToggleRemember ==
    /\ stage = "shown" /\ RememberOffered
    /\ checked' = ~checked
    /\ UNCHANGED <<args, stage, elapsed, allowEnabled, verdict, due, clock>>

OptIn == RememberOffered /\ checked

Allow ==
    /\ stage = "shown" /\ allowEnabled
    /\ Finish("allow", OptIn)
    /\ UNCHANGED <<args, elapsed, allowEnabled, checked, due, clock>>

\* Deny, Escape, or the event loop ended because the surface is gone.
Deny ==
    /\ stage = "shown"
    /\ Finish("deny", FALSE)
    /\ UNCHANGED <<args, elapsed, allowEnabled, checked, due, clock>>

-----------------------------------------------------------------------------
(* The parent and time                                                     *)

\* Past every deadline the clock need not count on.
ClockCap == IntMax \div TickMs + 2

Interval ==
    /\ stage \in {"starting", "shown"}
    /\ clock' = SmallerOf(clock + 1, ClockCap)
    /\ due' = (due \/ stage = "shown")
    /\ UNCHANGED <<args, stage, elapsed, allowEnabled, checked, verdict>>

\* poll() returned 0: the child is killed and the request is denied.
ParentGivesUp ==
    /\ stage \in {"starting", "shown"}
    /\ ParentPollTimeout(args.timeout) # Infinite
    /\ clock * TickMs >= ParentPollTimeout(args.timeout)
    /\ stage' = "killed"
    /\ UNCHANGED <<args, elapsed, allowEnabled, checked, verdict, due, clock>>

Next ==
    \/ Show \/ CannotShow \/ Tick \/ ToggleRemember \/ Allow \/ Deny
    \/ Interval \/ ParentGivesUp

Spec == Init /\ [][Next]_vars

\* Time passes, the scene comes up and Qt's event loop serves the timer;
\* neither the user nor the parent owes a step.
FairSpec ==
    Spec /\ WF_vars(Show) /\ WF_vars(Interval) /\ WF_vars(Tick)

-----------------------------------------------------------------------------
(* Properties                                                              *)

\* Every variable stays in its type, and a verdict is there exactly when the
\* dialog ended by itself: whichever way it exits it leaves one line, and
\* none before (bridge.rs: finish; main.rs).
TypeOK ==
    /\ args \in [timeout : Nat, minTime : Nat, rememberSecs : Nat]
    /\ stage \in {"starting", "shown", "exited", "killed"}
    /\ elapsed \in -(IntMax + 1) .. IntMax
    /\ allowEnabled \in BOOLEAN /\ checked \in BOOLEAN /\ due \in BOOLEAN
    /\ verdict \in [outcome : {"none", "allow", "deny", "timeout"}, remember : BOOLEAN]
    /\ clock \in 0 .. ClockCap
    /\ verdict.outcome # "none" <=> stage = "exited"

\* Timeouts whose milliseconds, the grace and one more firing fit an i32.
FittingTimeouts == {t \in Timeouts : (t + GraceSecs) * MsPerSec + TickMs <= IntMax}

\* Allow cannot be pressed before min_time of real time has passed, however
\* the timer lags: a click meant for another window does not elevate
\* (bridge.rs: tick, allow).
NoEarlyAllow ==
    verdict.outcome = "allow" => clock * TickMs >= MinTime

\* The dialog auto-denies only with a timeout set and never before it, and
\* the parent cuts it off only after the timeout and the grace, for every
\* timeout whose milliseconds fit (bridge.rs: tick; helper.rs:
\* parent_poll_timeout).
NoEarlyEnd ==
    args.timeout \in FittingTimeouts =>
        /\ verdict.outcome = "timeout" =>
             args.timeout > 0 /\ clock * TickMs >= args.timeout * MsPerSec
        /\ stage = "killed" =>
             args.timeout > 0 /\ clock * TickMs >= (args.timeout + GraceSecs) * MsPerSec

\* A dialog with a timeout that fits ends by itself (bridge.rs: tick).
AutoDenies ==
    args.timeout \in FittingTimeouts \ {0} ~> stage \in {"exited", "killed"}

\* What parent_poll_timeout's comment says, of every timeout that is an i32:
\* the parent outlasts the dialog's own timeout, so that its verdict can
\* arrive.
ParentOutlastsDialog ==
    stage = "killed" /\ args.timeout <= IntMax => clock * TickMs >= Total
=============================================================================
