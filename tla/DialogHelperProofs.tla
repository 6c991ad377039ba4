------------------------- MODULE DialogHelperProofs -------------------------
(***************************************************************************)
(* Proofs about the dialog for integers of any width, any timer interval,  *)
(* any grace and any command line.  Everything rests on one comparison:    *)
(* the milliseconds the dialog counted, with the interval that is still to *)
(* be counted, never exceed the time that has really passed.  Wrapping can *)
(* only make the count fall behind further.                                *)
(***************************************************************************)
EXTENDS DialogHelper, TLAPS

\* The dialog's count lags behind real time.
CountLags == elapsed + (IF due THEN TickMs ELSE 0) <= clock * TickMs

\* The gate is open only after min_time of real time.
GateIsLate == allowEnabled => clock * TickMs >= MinTime

\* A dialog that is up, or was killed, has written nothing.
SilentUntilExit == stage # "exited" => verdict = NoVerdict

DialogInv ==
    TypeOK /\ CountLags /\ GateIsLate /\ SilentUntilExit
        /\ NoEarlyAllow /\ NoEarlyEnd

-----------------------------------------------------------------------------
(* Arithmetic                                                              *)

\* Wrapping lands in the range of an i32, and is the identity on it.
LEMMA WrapRange ==
    ASSUME NEW n \in Int
    PROVE  /\ Wrap(n) \in -(IntMax + 1) .. IntMax
           /\ n \in -(IntMax + 1) .. IntMax => Wrap(n) = n
<1> DEFINE w == 2 * (IntMax + 1)
           m == n + IntMax + 1
<1>1. IntMax \in Nat /\ w \in Nat /\ w > 0 /\ m \in Int
  BY DialogAssumption
<1>2. m % w \in 0 .. w - 1
  BY <1>1
<1>3. m \in 0 .. w - 1 => m % w = m
  BY <1>1
<1> QED
  BY <1>1, <1>2, <1>3 DEF Wrap

\* A sum that overflows wraps below itself.
LEMMA WrapNotAbove ==
    ASSUME NEW n \in Int, n >= -(IntMax + 1)
    PROVE  Wrap(n) <= n
  BY WrapRange, DialogAssumption

\* The clock's cap lies past every count, with one interval to spare.
LEMMA CapIsPast == ClockCap \in Nat /\ ClockCap * TickMs >= IntMax + TickMs
<1> DEFINE d == IntMax \div TickMs
<1>1. IntMax \in Nat /\ TickMs \in Nat /\ TickMs > 0
  BY DialogAssumption
<1>2. d \in Int /\ d >= 0 /\ IntMax = d * TickMs + (IntMax % TickMs) /\ IntMax % TickMs \in 0 .. TickMs - 1
  BY <1>1
<1>3. (d + 2) * TickMs = d * TickMs + 2 * TickMs
  BY <1>1, <1>2
<1> QED
  BY <1>1, <1>2, <1>3 DEF ClockCap

\* Milliseconds that fit are computed without a wrap, by the dialog and by
\* its parent (bridge.rs: tick; helper.rs: parent_poll_timeout).
LEMMA FittingIsExact ==
    ASSUME TypeOK, args.timeout \in FittingTimeouts
    PROVE  /\ TimeoutSecs = args.timeout
           /\ Total = args.timeout * MsPerSec
           /\ args.timeout > 0 => ParentPollTimeout(args.timeout) = (args.timeout + GraceSecs) * MsPerSec
<1> DEFINE t == args.timeout
           x == t + GraceSecs
<1>1. t \in Nat /\ x \in Nat /\ x * MsPerSec + TickMs <= IntMax
  BY DialogAssumption DEF TypeOK, FittingTimeouts
<1>2. IntMax \in Nat /\ TickMs \in Nat /\ MsPerSec \in Nat /\ MsPerSec >= 1 /\ t <= x
  BY <1>1, DialogAssumption
<1>3. x * MsPerSec \in Nat /\ t * MsPerSec \in Nat /\ x <= x * MsPerSec /\ t * MsPerSec <= x * MsPerSec
  BY <1>1, <1>2
<1>4. t <= IntMax /\ x <= IntMax /\ x * MsPerSec <= IntMax /\ t * MsPerSec <= IntMax
  BY <1>1, <1>2, <1>3
<1>5. TryFrom(t, IntMax) = t /\ TryFrom(t, FallbackSecs) = t
  BY <1>4 DEF TryFrom
<1>6. TimeoutSecs = t /\ Total = t * MsPerSec
  BY <1>4, <1>5 DEF TimeoutSecs, Total, SaturatingMul, SmallerOf
<1>7. Wrap(x) = x /\ Wrap(x * MsPerSec) = x * MsPerSec
  BY <1>1, <1>2, <1>3, <1>4, WrapRange
<1> HIDE DEF x, t
<1>8. t > 0 => ParentPollTimeout(t) = x * MsPerSec
  BY <1>1, <1>3, <1>5, <1>7 DEF ParentPollTimeout, PollTimeoutOf, x
<1> QED
  BY <1>6, <1>8 DEF t, x

-----------------------------------------------------------------------------
(* The invariant                                                           *)

\* What is derived from the command line is an i32.
LEMMA Conversions ==
    ASSUME TypeOK
    PROVE  MinTime \in 0 .. IntMax /\ TimeoutSecs \in 0 .. IntMax
  BY DialogAssumption DEF TypeOK, MinTime, TimeoutSecs, TryFrom

\* The dialog starts with nothing counted and nothing written.
LEMMA InitDialog == Init => DialogInv
<1> SUFFICES ASSUME Init PROVE DialogInv
  OBVIOUS
<1>1. TypeOK
  <2>1. args \in [timeout : Nat, minTime : Nat, rememberSecs : Nat]
    BY DialogAssumption DEF Init
  <2>2. allowEnabled \in BOOLEAN /\ checked \in BOOLEAN /\ due \in BOOLEAN
    BY DEF Init
  <2>3. elapsed \in -(IntMax + 1) .. IntMax /\ clock \in 0 .. ClockCap
    BY DialogAssumption, CapIsPast DEF Init
  <2> QED
    BY <2>1, <2>2, <2>3 DEF Init, TypeOK, NoVerdict
<1>2. CountLags
  BY DialogAssumption DEF Init, CountLags
<1>3. GateIsLate
  <2>1. allowEnabled => args.minTime = 0
    BY DEF Init
  <2>2. args.minTime = 0 => MinTime = 0
    BY DialogAssumption DEF MinTime, TryFrom
  <2>3. clock * TickMs = 0
    BY DialogAssumption DEF Init
  <2> QED
    BY <2>1, <2>2, <2>3 DEF GateIsLate
<1>4. SilentUntilExit /\ NoEarlyAllow /\ NoEarlyEnd
  BY DEF Init, SilentUntilExit, NoEarlyAllow, NoEarlyEnd, NoVerdict
<1> QED
  BY <1>1, <1>2, <1>3, <1>4 DEF DialogInv

\* A firing counts one interval that has passed, opens the gate or ends the
\* dialog only when the count, hence the time, is there (bridge.rs: tick).
LEMMA TickStep == DialogInv /\ Tick => DialogInv'
<1> SUFFICES ASSUME DialogInv, Tick PROVE DialogInv'
  OBVIOUS
<1> DEFINE e == Wrap(elapsed + TickMs)
<1> USE DEF DialogInv
<1>1. /\ elapsed \in Int /\ elapsed >= -(IntMax + 1) /\ TickMs \in Nat /\ clock \in Nat
      /\ clock * TickMs \in Nat /\ IntMax \in Nat
  BY DialogAssumption, CapIsPast DEF TypeOK
<1>2. e \in -(IntMax + 1) .. IntMax /\ e <= elapsed + TickMs
  BY <1>1, WrapRange, WrapNotAbove
<1>3. e <= clock * TickMs
  BY <1>1, <1>2 DEF Tick, CountLags
<1>4. /\ elapsed' = e /\ due' = FALSE /\ allowEnabled' = (allowEnabled \/ PastMinTime(e))
      /\ UNCHANGED <<args, checked, clock>>
      /\ stage = "shown" /\ verdict = NoVerdict
  BY DEF Tick, SilentUntilExit
<1>5. \/ UNCHANGED <<stage, verdict>>
      \/ PastTimeout(e) /\ stage' = "exited" /\ verdict' = [outcome |-> "timeout", remember |-> FALSE]
  BY DEF Tick, Finish
<1> HIDE DEF e
<1>6. TypeOK'
  <2>1. (allowEnabled \/ PastMinTime(e)) \in BOOLEAN
    OBVIOUS
  <2>2. allowEnabled' \in BOOLEAN
    BY ONLY <1>4, <2>1
  <2>3. /\ stage' \in {"starting", "shown", "exited", "killed"}
        /\ verdict' \in [outcome : {"none", "allow", "deny", "timeout"}, remember : BOOLEAN]
        /\ verdict'.outcome # "none" <=> stage' = "exited"
    <3>1. CASE UNCHANGED <<stage, verdict>>
      BY <3>1 DEF TypeOK
    <3>2. CASE stage' = "exited" /\ verdict' = [outcome |-> "timeout", remember |-> FALSE]
      BY <3>2
    <3> QED
      BY <1>5, <3>1, <3>2
  <2> QED
    BY <1>2, <1>4, <2>2, <2>3 DEF TypeOK
<1>7. CountLags'
  BY <1>1, <1>2, <1>3, <1>4 DEF CountLags
<1>8. GateIsLate'
  <2>1. MinTime' = MinTime
    BY <1>4 DEF MinTime
  <2>2. MinTime \in Int
    BY Conversions, DialogAssumption
  <2>3. PastMinTime(e) => clock * TickMs >= MinTime
    BY <1>1, <1>2, <1>3, <2>2 DEF PastMinTime
  <2> QED
    BY <1>4, <2>1, <2>3 DEF GateIsLate
<1>9. NoEarlyEnd'
  <2> SUFFICES ASSUME args.timeout \in FittingTimeouts, verdict'.outcome = "timeout"
               PROVE  args.timeout > 0 /\ clock * TickMs >= args.timeout * MsPerSec
    BY <1>4, <1>5 DEF NoEarlyEnd, NoVerdict
  <2>1. PastTimeout(e)
    BY <1>4, <1>5 DEF NoVerdict
  <2>2. args.timeout \in Nat /\ args.timeout * MsPerSec \in Nat
    BY DialogAssumption DEF TypeOK
  <2> QED
    BY <1>1, <1>2, <1>3, <2>1, <2>2, FittingIsExact DEF PastTimeout
<1>10. SilentUntilExit' /\ NoEarlyAllow'
  BY <1>4, <1>5 DEF SilentUntilExit, NoEarlyAllow, NoVerdict
<1> QED
  BY <1>6, <1>7, <1>8, <1>9, <1>10

\* Time passes: the count falls behind by at most the interval that is due,
\* also when the clock is at its cap.
LEMMA IntervalStep == DialogInv /\ Interval => DialogInv'
<1> SUFFICES ASSUME DialogInv, Interval PROVE DialogInv'
  OBVIOUS
<1> USE DEF DialogInv
<1>1. /\ elapsed \in Int /\ elapsed <= IntMax /\ TickMs \in Nat /\ TickMs > 0 /\ IntMax \in Nat
      /\ clock \in Nat /\ clock <= ClockCap /\ ClockCap \in Nat /\ ClockCap * TickMs >= IntMax + TickMs
  BY DialogAssumption, CapIsPast DEF TypeOK
<1>2. /\ clock' = SmallerOf(clock + 1, ClockCap) /\ due' \in BOOLEAN
      /\ UNCHANGED <<args, stage, elapsed, allowEnabled, checked, verdict>>
      /\ stage # "exited" /\ stage # "killed" /\ verdict = NoVerdict
  BY DEF Interval, SilentUntilExit, TypeOK
<1>3. /\ clock' \in 0 .. ClockCap /\ clock' * TickMs \in Int
      /\ clock' * TickMs >= clock * TickMs /\ clock * TickMs \in Int
      /\ clock' * TickMs >= clock * TickMs + TickMs \/ clock' * TickMs >= IntMax + TickMs
  <2>1. (clock + 1) * TickMs = clock * TickMs + TickMs /\ clock * TickMs \in Int
    BY <1>1
  <2>2. CASE clock + 1 <= ClockCap
    BY <1>1, <1>2, <2>1, <2>2 DEF SmallerOf
  <2>3. CASE ~(clock + 1 <= ClockCap)
    <3>1. clock = ClockCap /\ clock' = ClockCap
      BY <1>1, <1>2, <2>3 DEF SmallerOf
    <3> QED
      BY <1>1, <2>1, <3>1
  <2> QED BY <2>2, <2>3
<1>4. TypeOK'
  BY <1>2, <1>3 DEF TypeOK
<1>5. CountLags'
  <2>1. elapsed <= clock * TickMs
    BY <1>1, <1>3 DEF CountLags
  <2> DEFINE now == clock * TickMs
             later == clock' * TickMs
  <2>2. /\ now \in Int /\ later \in Int /\ elapsed <= now
        /\ later >= now + TickMs \/ later >= IntMax + TickMs
    BY <1>3, <2>1
  <2> HIDE DEF now, later
  <2>3. elapsed + TickMs <= later
    BY <1>1, <2>2
  <2> QED
    BY <1>1, <1>2, <2>2, <2>3 DEF CountLags, later
<1>6. GateIsLate'
  <2>1. MinTime' = MinTime /\ MinTime \in Int
    BY <1>2, Conversions, DialogAssumption DEF MinTime
  <2> QED
    BY <1>2, <1>3, <2>1 DEF GateIsLate
<1>7. SilentUntilExit' /\ NoEarlyAllow' /\ NoEarlyEnd'
  BY <1>2 DEF SilentUntilExit, NoEarlyAllow, NoEarlyEnd, NoVerdict
<1> QED
  BY <1>4, <1>5, <1>6, <1>7

\* The parent's poll expires only after the timeout and the grace, where
\* their milliseconds fit (helper.rs: parent_wait).
LEMMA ParentStep == DialogInv /\ ParentGivesUp => DialogInv'
<1> SUFFICES ASSUME DialogInv, ParentGivesUp PROVE DialogInv'
  OBVIOUS
<1> USE DEF DialogInv
<1>1. /\ stage' = "killed" /\ UNCHANGED <<args, elapsed, allowEnabled, checked, verdict, due, clock>>
      /\ verdict = NoVerdict
  BY DEF ParentGivesUp, SilentUntilExit
<1>2. TypeOK' /\ CountLags' /\ GateIsLate' /\ SilentUntilExit' /\ NoEarlyAllow'
  BY <1>1 DEF TypeOK, CountLags, GateIsLate, MinTime, SilentUntilExit, NoEarlyAllow, NoVerdict
<1>3. NoEarlyEnd'
  <2> SUFFICES ASSUME args.timeout \in FittingTimeouts
               PROVE  args.timeout > 0 /\ clock * TickMs >= (args.timeout + GraceSecs) * MsPerSec
    BY <1>1 DEF NoEarlyEnd, NoVerdict
  <2>1. args.timeout > 0
    BY DEF ParentGivesUp, ParentPollTimeout, TypeOK
  <2> QED
    BY <2>1, FittingIsExact DEF ParentGivesUp
<1> QED
  BY <1>2, <1>3

\* Every step of the dialog, of its parent and of time keeps the invariant.
LEMMA DialogStep == DialogInv /\ [Next]_vars => DialogInv'
<1> SUFFICES ASSUME DialogInv, [Next]_vars PROVE DialogInv'
  OBVIOUS
<1> USE DEF DialogInv
<1>1. CASE Show \/ ToggleRemember
  <2>1. /\ UNCHANGED <<args, elapsed, allowEnabled, verdict, due, clock>> /\ verdict = NoVerdict
        /\ stage' = "shown" /\ checked' \in BOOLEAN
    BY <1>1 DEF Show, ToggleRemember, SilentUntilExit, TypeOK
  <2> QED
    BY <2>1 DEF TypeOK, CountLags, GateIsLate, MinTime, SilentUntilExit, NoEarlyAllow,
                NoEarlyEnd, NoVerdict
<1>2. CASE CannotShow \/ Deny
  <2>1. /\ UNCHANGED <<args, elapsed, allowEnabled, checked, due, clock>>
        /\ stage' = "exited" /\ verdict' = [outcome |-> "deny", remember |-> FALSE]
    BY <1>2 DEF CannotShow, Deny, Finish
  <2> QED
    BY <2>1 DEF TypeOK, CountLags, GateIsLate, MinTime, SilentUntilExit, NoEarlyAllow,
                NoEarlyEnd
<1>3. CASE Allow
  <2>1. /\ UNCHANGED <<args, elapsed, allowEnabled, checked, due, clock>> /\ allowEnabled
        /\ stage' = "exited" /\ verdict' = [outcome |-> "allow", remember |-> OptIn]
    BY <1>3 DEF Allow, Finish
  <2>2. OptIn \in BOOLEAN
    BY DEF OptIn, RememberOffered, TypeOK
  <2>3. TypeOK' /\ CountLags' /\ GateIsLate' /\ SilentUntilExit' /\ NoEarlyEnd'
    BY <2>1, <2>2 DEF TypeOK, CountLags, GateIsLate, MinTime, SilentUntilExit, NoEarlyEnd
  <2>4. NoEarlyAllow'
    BY <2>1, <2>2 DEF GateIsLate, MinTime, NoEarlyAllow
  <2> QED
    BY <2>3, <2>4
<1>4. CASE Tick
  BY <1>4, TickStep
<1>5. CASE Interval
  BY <1>5, IntervalStep
<1>6. CASE ParentGivesUp
  BY <1>6, ParentStep
<1>7. CASE UNCHANGED vars
  BY <1>7 DEF vars, TypeOK, CountLags, GateIsLate, MinTime, SilentUntilExit, NoEarlyAllow,
              NoEarlyEnd
<1> QED
  BY <1>1, <1>2, <1>3, <1>4, <1>5, <1>6, <1>7 DEF Next

\* The invariant holds in every reachable state.
LEMMA DialogInvariant == Spec => []DialogInv
  BY InitDialog, DialogStep, PTL DEF Spec

-----------------------------------------------------------------------------
(* Theorems                                                                *)

\* The controller's fields stay in their types, and the dialog leaves a
\* verdict exactly when it ends by itself (bridge.rs: finish).
THEOREM DialogTypeCorrect == Spec => []TypeOK
  BY DialogInvariant, PTL DEF DialogInv

\* Whatever the width of an integer, the timer's lag and the command line,
\* Allow is not written before min_time of real time (bridge.rs: allow).
THEOREM NoAllowIsEarly == Spec => []NoEarlyAllow
  BY DialogInvariant, PTL DEF DialogInv

\* With a timeout that fits, neither the dialog's own clock nor the parent's
\* poll ends it early (bridge.rs: tick; helper.rs: parent_poll_timeout).
THEOREM NoEndIsEarly == Spec => []NoEarlyEnd
  BY DialogInvariant, PTL DEF DialogInv

\* The comment of parent_poll_timeout, which a timeout of several weeks refutes, is
\* right of every timeout that fits: whoever is killed had the time for its own
\* verdict (helper.rs: parent_poll_timeout).
THEOREM ParentOutlastsFitting ==
    Spec => [](args.timeout \in FittingTimeouts => ParentOutlastsDialog)
<1>1. DialogInv => (args.timeout \in FittingTimeouts => ParentOutlastsDialog)
  <2> SUFFICES ASSUME DialogInv, args.timeout \in FittingTimeouts, stage = "killed"
               PROVE  clock * TickMs >= Total
    BY DEF ParentOutlastsDialog
  <2>1. TypeOK /\ clock * TickMs >= (args.timeout + GraceSecs) * MsPerSec
    BY DEF DialogInv, NoEarlyEnd
  <2>2. Total = args.timeout * MsPerSec
    BY <2>1, FittingIsExact
  <2>3. /\ args.timeout \in Nat /\ GraceSecs \in Nat /\ MsPerSec \in Nat
        /\ clock \in Nat /\ TickMs \in Nat
    BY <2>1, DialogAssumption, CapIsPast DEF TypeOK
  <2>4. /\ (args.timeout + GraceSecs) * MsPerSec = args.timeout * MsPerSec + GraceSecs * MsPerSec
        /\ args.timeout * MsPerSec \in Nat /\ GraceSecs * MsPerSec \in Nat
        /\ clock * TickMs \in Nat
    BY <2>3
  <2> QED BY <2>1, <2>2, <2>4
<1> QED BY <1>1, DialogInvariant, PTL
=============================================================================
