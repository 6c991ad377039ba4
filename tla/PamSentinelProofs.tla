------------------------- MODULE PamSentinelProofs --------------------------
(***************************************************************************)
(* Proofs about pam_sentinel composed with sentinel-broker, for any number *)
(* of concurrent calls and any requests.  What a call makes of its request *)
(* enters through the lemmas of PamRequestProofs, the broker through those *)
(* of RememberBrokerProofs: every step of the composition is a step of the *)
(* broker or leaves it alone.  The inductive invariant follows a grant     *)
(* from the tick in a dialog to the call it spares one: a call that may    *)
(* record has a request that was consented to, a record on its way and a   *)
(* grant in the store belong to one, and so does a "fresh" on its way back.*)
(***************************************************************************)
EXTENDS PamRequestProofs, RememberBrokerProofs, SequenceTheorems

AllowLines == {<<"ALLOW">>, <<"ALLOW", "REMEMBER">>, Overlong}
Lines == AllowLines \cup {<<>>, <<"DENY">>, <<"TIMEOUT">>, Noise}

\* Returns before the request is looked at, or before the remember window is.
Early == {"agent", "disabled", "headless", "policy"}

CallRecords ==
    [stage : Stages, req : SUBSET AuthRequests, key : Keys \cup {NoKey}, secs : Ttls,
     timeout : Nat, left : Nat \cup {Unbounded}, line : Lines,
     result : {"none", "success", "ignore", "auth_err"},
     source : Early \cup {"none", "remember", "error", "dialog"}]

Dialogs == [running : BOOLEAN, line : Lines]

CallTypeOK ==
    /\ call \in [Calls -> CallRecords]
    /\ dialog \in [Calls -> Dialogs]
    /\ consented \subseteq AuthRequests

Granted == {RememberKey(q) : q \in consented}

\* The file gives the request's service a window.
OptsIn(r) ==
    \/ r.service = POLKIT_PAM_SERVICE
    \/ /\ Parses(r.file) /\ r.service \in DOMAIN r.file.services
       /\ "remember_seconds" \in DOMAIN r.file.services[r.service]

\* Where a call stands: what an early return is based on, and that every
\* other call has the key of its request, which [policy] left undecided, and
\* a window only if its service is opted in.
Undecided(c) ==
    \E r \in AuthRequests :
        /\ c.req = {r} /\ c.key = RememberKey(r) /\ check_policy(r) = "Ask"
        /\ c.secs > 0 => OptsIn(r) /\ c.key # NoKey

Decided(c) ==
    /\ c.key = NoKey /\ c.secs = 0
    /\ c.source = "agent" => c.req = {}
    /\ c.source # "agent" => \E r \in AuthRequests :
         /\ c.req = {r}
         /\ c.source = "headless" /\ c.result = "success" =>
              Parses(r.file) /\ r.file.general.headless_action = "allow"
         /\ c.source = "policy" =>
              /\ check_policy(r) # "Ask"
              /\ c.result = IF check_policy(r) = "Allow" THEN "success" ELSE "auth_err"

\* A call without a timeout, besides, polls without a deadline.
CallOK(a) ==
    LET c == call[a]
    IN  /\ c.stage = "idle" => c = Idle
        /\ c.source # "none" <=> c.stage = "returned"
        /\ c.source \in {"none", "disabled", "error"} => c.result # "success"
        /\ c.source \in Early => Decided(c)
        /\ c.source \notin Early /\ c.stage # "idle" => Undecided(c)
        /\ c.stage = "asking" => c.secs > 0
        /\ c.stage = "polling" /\ c.timeout = 0 => c.left = Unbounded

\* The dialog of a call: it is waited for, what is read of it is what it
\* wrote, and a tick in it is consent to the call's request.
DialogOK(a) ==
    LET c == call[a]
        d == dialog[a]
    IN  /\ c.stage = "idle" => d = NoDialog
        /\ d.running => c.stage \in {"polling", "reaping", "dead"}
        /\ c.stage = "reaping" => c.line \in {<<>>, d.line}
        /\ d.line = <<"ALLOW", "REMEMBER">> => c.req \subseteq consented
        /\ c.stage \in {"granting", "recording"} =>
             d.line \in AllowLines /\ c.secs > 0 /\ c.req \subseteq consented
        /\ c.source = "dialog" /\ c.result = "success" => d.line \in AllowLines

\* The connections of a call carry its own key, opted in and, in a record or
\* in a "fresh", consented to.
CheckOK(a) ==
    LET c == call[a]
        k == conn[Check(a)]
    IN  /\ c.stage = "idle" \/ c.source \in Early => k = Closed
        /\ c.source = "remember" => k.answer = "fresh"
        /\ k # Closed =>
             /\ k.stage # "closed" /\ k.request.op = "check"
             /\ k.request.key = c.key /\ c.key # NoKey
             /\ \A r \in c.req : OptsIn(r)
             /\ k.answer \in {"none", "fresh", "stale"}
             /\ k.answer # "none" => k.stage = "answered"
             /\ k.answer = "fresh" => c.key \in Granted

RecordOK(a) ==
    LET m == conn[RecordOn(a)]
    IN  m # Closed => /\ m.stage # "closed" /\ m.request.op = "record"
                      /\ m.request.key \in Granted
                      /\ m.answer \in {"none", "recorded"}

StoreOK == \A k \in Keys : store[k] # Absent => k \in Granted

PamOK(a) == CallOK(a) /\ DialogOK(a) /\ CheckOK(a) /\ RecordOK(a)

PamInv == BrokerInv /\ CallTypeOK /\ StoreOK /\ \A a \in Calls : PamOK(a)

-----------------------------------------------------------------------------
(* What the updates of a call do to its record                             *)

\* A call that has not begun is a call.
LEMMA IdleType == Idle \in CallRecords
<1>1. 0 \in Ttls
  BY PamAssumption
<1> QED BY <1>1 DEF Idle, CallRecords, Stages, Lines

\* A call that returns, or dies, keeps its request and key and loses its locals.
LEMMA Returned ==
    ASSUME CallTypeOK, NEW a \in Calls, NEW req \in SUBSET AuthRequests,
           NEW result \in {"success", "ignore", "auth_err"},
           NEW source \in Early \cup {"remember", "error", "dialog"},
           ReturnAs(a, req, result, source)
    PROVE  /\ call' \in [Calls -> CallRecords]
           /\ call'[a].stage = "returned" /\ call'[a].req = req /\ call'[a].key = call[a].key
           /\ call'[a].secs = 0 /\ call'[a].result = result /\ call'[a].source = source
           /\ \A b \in Calls : b # a => call'[b] = call[b]
<1> DEFINE new == [Idle EXCEPT !.stage = "returned", !.req = req, !.key = call[a].key,
                               !.result = result, !.source = source]
<1>1. call[a].key \in Keys \cup {NoKey}
  BY DEF CallTypeOK, CallRecords
<1>2. new \in CallRecords
  BY <1>1, IdleType DEF CallRecords, Stages
<1>3. /\ new.stage = "returned" /\ new.req = req /\ new.key = call[a].key
      /\ new.result = result /\ new.source = source
  BY IdleType DEF CallRecords
<1>4. new.secs = 0
  BY DEF Idle
<1>5. call' = [call EXCEPT ![a] = new]
  BY DEF ReturnAs
<1> HIDE DEF new
<1> QED BY <1>2, <1>3, <1>4, <1>5 DEF CallTypeOK

\* The record of a request that got past the early returns is a call record.
LEMMA RequestSet ==
    ASSUME NEW x \in CallRecords, NEW stage \in Stages, NEW req \in SUBSET AuthRequests,
           NEW key \in Keys \cup {NoKey}, NEW secs \in Ttls, NEW timeout \in Nat
    PROVE  [x EXCEPT !.stage = stage, !.req = req, !.key = key,
                     !.secs = secs, !.timeout = timeout] \in CallRecords
  BY DEF CallRecords

\* So is that of a call that blocks,
LEMMA PollSet ==
    ASSUME NEW x \in CallRecords, NEW stage \in Stages, NEW left \in Nat \cup {Unbounded}
    PROVE  [x EXCEPT !.stage = stage, !.left = left] \in CallRecords
  BY DEF CallRecords

\* of one that has read its dialog's line,
LEMMA LineSet ==
    ASSUME NEW x \in CallRecords, NEW stage \in Stages, NEW line \in Lines
    PROVE  [x EXCEPT !.stage = stage, !.line = line, !.left = Unbounded] \in CallRecords
  BY DEF CallRecords

\* and of one whose poll runs down.
LEMMA LeftSet ==
    ASSUME NEW x \in CallRecords, NEW left \in Nat \cup {Unbounded}
    PROVE  [x EXCEPT !.left = left] \in CallRecords
  BY DEF CallRecords

\* A call that goes on keeps everything but its stage.
LEMMA Moved ==
    ASSUME CallTypeOK, NEW a \in Calls, NEW stage \in Stages, Goto(a, stage)
    PROVE  /\ call' \in [Calls -> CallRecords]
           /\ call'[a] = [call[a] EXCEPT !.stage = stage]
           /\ \A b \in Calls : b # a => call'[b] = call[b]
  BY DEF CallTypeOK, CallRecords, Goto

\* A call that blocks keeps everything but its stage and how long it may.
LEMMA Waiting ==
    ASSUME CallTypeOK, NEW a \in Calls, NEW stage \in Stages, NEW left \in Nat \cup {Unbounded},
           Wait(a, stage, left)
    PROVE  /\ call' \in [Calls -> CallRecords]
           /\ call'[a].stage = stage /\ call'[a].left = left
           /\ call'[a].req = call[a].req /\ call'[a].key = call[a].key
           /\ call'[a].secs = call[a].secs /\ call'[a].timeout = call[a].timeout
           /\ call'[a].result = call[a].result /\ call'[a].source = call[a].source
           /\ \A b \in Calls : b # a => call'[b] = call[b]
<1> DEFINE new == [call[a] EXCEPT !.stage = stage, !.left = left]
<1>1. call \in [Calls -> CallRecords]
  BY DEF CallTypeOK
<1>2. new \in CallRecords
  BY <1>1, PollSet
<1>3. /\ new.stage = stage /\ new.left = left /\ new.req = call[a].req
      /\ new.key = call[a].key /\ new.secs = call[a].secs /\ new.timeout = call[a].timeout
      /\ new.result = call[a].result /\ new.source = call[a].source
  BY <1>1 DEF CallRecords
<1>4. call' = [call EXCEPT ![a] = new]
  BY <1>1 DEF Wait
<1> HIDE DEF new
<1> QED BY <1>1, <1>2, <1>3, <1>4

\* A request that has begun and was not decided early.
LEMMA Pending ==
    ASSUME CallTypeOK, NEW a \in Calls, CallOK(a),
           call[a].stage \notin {"idle", "returned"}
    PROVE  call[a].source = "none" /\ call[a].result # "success" /\ Undecided(call[a])
  BY DEF CallTypeOK, CallRecords, CallOK, Early

-----------------------------------------------------------------------------
(* What a step leaves alone                                                *)

\* Consent is never withdrawn.
LEMMA GrantedGrows ==
    ASSUME consented \subseteq consented'
    PROVE  Granted \subseteq Granted'
  BY DEF Granted

\* A call whose own state and connections a step leaves alone stays as it was,
\* even when another dialog adds consent.
LEMMA Frame ==
    ASSUME NEW b \in Calls, PamOK(b), consented \subseteq consented',
           call'[b] = call[b], dialog'[b] = dialog[b],
           conn'[Check(b)] = conn[Check(b)], conn'[RecordOn(b)] = conn[RecordOn(b)]
    PROVE  PamOK(b)'
<1>1. Granted \subseteq Granted'
  BY GrantedGrows
<1>2. CallOK(b)'
  BY DEF PamOK, CallOK, Decided, Undecided
<1>3. DialogOK(b)'
  BY DEF PamOK, DialogOK
<1>4. CheckOK(b)'
  BY <1>1 DEF PamOK, CheckOK, Check
<1>5. RecordOK(b)'
  BY <1>1 DEF PamOK, RecordOK, RecordOn
<1> QED BY <1>2, <1>3, <1>4, <1>5 DEF PamOK

\* A step of one call, and at most of its own connections.
LEMMA CallStep ==
    ASSUME PamInv, NEW a \in Calls, [BrokerNext]_brokerVars, store' = store, CallTypeOK',
           consented \subseteq consented',
           \A b \in Calls : b # a =>
             /\ call'[b] = call[b] /\ dialog'[b] = dialog[b]
             /\ conn'[Check(b)] = conn[Check(b)] /\ conn'[RecordOn(b)] = conn[RecordOn(b)],
           PamOK(a)'
    PROVE  PamInv'
<1>1. BrokerInv'
  BY BrokerNextInv DEF PamInv
<1>2. StoreOK'
  BY GrantedGrows DEF PamInv, StoreOK
<1>3. ASSUME NEW b \in Calls PROVE PamOK(b)'
  <2>1. CASE b = a
    BY <2>1
  <2>2. CASE b # a
    BY <2>2, Frame DEF PamInv
  <2> QED BY <2>1, <2>2
<1> QED BY <1>1, <1>2, <1>3 DEF PamInv

\* One that leaves the broker alone.
LEMMA LocalStep ==
    ASSUME PamInv, NEW a \in Calls, UNCHANGED brokerVars, CallTypeOK',
           consented \subseteq consented',
           \A b \in Calls : b # a => call'[b] = call[b] /\ dialog'[b] = dialog[b],
           PamOK(a)'
    PROVE  PamInv'
  BY CallStep DEF brokerVars

-----------------------------------------------------------------------------
(* sm_authenticate up to the remember window                               *)

\* A call that returns before it has a key: it never had a dialog or a
\* connection, and what it decided is what the file or the agent said.
LEMMA EarlyReturn ==
    ASSUME PamInv, NEW a \in Calls, call[a].stage = "idle",
           NEW req \in SUBSET AuthRequests,
           NEW result \in {"success", "ignore", "auth_err"}, NEW source \in Early,
           ReturnAs(a, req, result, source), dialogUnchanged, brokerUnchanged,
           source = "disabled" => result # "success",
           source = "agent" => req = {},
           source # "agent" => \E r \in AuthRequests :
             /\ req = {r}
             /\ source = "headless" /\ result = "success" =>
                  Parses(r.file) /\ r.file.general.headless_action = "allow"
             /\ source = "policy" =>
                  /\ check_policy(r) # "Ask"
                  /\ result = IF check_policy(r) = "Allow" THEN "success" ELSE "auth_err"
    PROVE  PamInv'
<1>1. /\ call' \in [Calls -> CallRecords]
      /\ call'[a].stage = "returned" /\ call'[a].req = req /\ call'[a].key = call[a].key
      /\ call'[a].secs = 0 /\ call'[a].result = result /\ call'[a].source = source
      /\ \A b \in Calls : b # a => call'[b] = call[b]
  BY Returned DEF PamInv
<1>2. call[a].key = NoKey /\ dialog[a] = NoDialog /\ conn[Check(a)] = Closed /\ RecordOK(a)
  BY DEF PamInv, PamOK, CallOK, DialogOK, CheckOK, Idle
<1>3. UNCHANGED <<dialog, consented, conn>>
  BY DEF dialogUnchanged, brokerUnchanged, brokerVars
<1>4. CallTypeOK'
  BY <1>1, <1>3 DEF PamInv, CallTypeOK
<1>5. Decided(call[a])'
  BY <1>1, <1>2 DEF Decided
<1>6. CallOK(a)'
  BY <1>1, <1>5 DEF CallOK, Early
<1>7. DialogOK(a)'
  <2>1. dialog'[a].running = FALSE /\ dialog'[a].line = <<>>
    BY <1>2, <1>3 DEF NoDialog
  <2>2. dialog'[a].line # <<"ALLOW", "REMEMBER">>
    BY <2>1
  <2> QED BY <1>1, <2>1, <2>2 DEF DialogOK, Early
<1>8. CheckOK(a)'
  BY <1>1, <1>2, <1>3 DEF CheckOK, Check, Early
<1>9. RecordOK(a)'
  BY <1>2, <1>3 DEF RecordOK, RecordOn, Granted
<1>10. PamOK(a)'
  BY <1>6, <1>7, <1>8, <1>9 DEF PamOK
<1> QED
  BY <1>1, <1>3, <1>4, <1>10, LocalStep DEF brokerUnchanged

\* The three early returns that look at the request.
LEMMA EarlySteps ==
    ASSUME PamInv, NEW a \in Calls, NEW r \in AuthRequests,
           Disabled(a, r) \/ Headless(a, r) \/ PolicyDecides(a, r)
    PROVE  PamInv'
<1>1. CASE Disabled(a, r)
  BY <1>1, EarlyReturn DEF Disabled, Early
<1>2. CASE Headless(a, r)
  <2> DEFINE result == HeadlessResult(Config(r).headless_action)
  <2>1. result \in {"success", "ignore", "auth_err"}
    BY DEF HeadlessResult
  <2>2. result = "success" => Parses(r.file) /\ r.file.general.headless_action = "allow"
    BY ConfigFacts
  <2>3. ReturnAs(a, {r}, result, "headless")
    BY <1>2 DEF Headless
  <2> HIDE DEF result
  <2> QED BY <1>2, <2>1, <2>2, <2>3, EarlyReturn DEF Headless, Early
<1>3. CASE PolicyDecides(a, r)
  <2> DEFINE result == IF check_policy(r) = "Allow" THEN "success" ELSE "auth_err"
  <2>1. result \in {"success", "ignore", "auth_err"}
    OBVIOUS
  <2>2. ReturnAs(a, {r}, result, "policy")
    BY <1>3 DEF PolicyDecides
  <2> QED BY <1>3, <2>1, <2>2, EarlyReturn DEF PolicyDecides, Early
<1> QED BY <1>1, <1>2, <1>3

\* A request that gets past the early returns has its key, and a window only
\* where its service is opted in.
LEMMA RequestStep ==
    ASSUME PamInv, NEW a \in Calls, NEW r \in AuthRequests, Request(a, r)
    PROVE  PamInv'
<1> DEFINE key == RememberKey(r)
           secs == IF key # NoKey THEN Config(r).remember_seconds ELSE 0
           stage == IF secs > 0 THEN "asking" ELSE "spawning"
           timeout == Config(r).timeout
<1>1. /\ call[a].stage = "idle" /\ check_policy(r) = "Ask"
      /\ call' = [call EXCEPT ![a].stage = stage, ![a].req = {r}, ![a].key = key,
                              ![a].secs = secs, ![a].timeout = timeout]
  BY DEF Request
<1>2. UNCHANGED <<dialog, consented>> /\ UNCHANGED brokerVars
  BY DEF Request, dialogUnchanged, brokerUnchanged
<1>3. key \in Keys \cup {NoKey}
  BY KeysAssumption
<1>4. /\ secs \in Ttls /\ secs \in Nat /\ timeout \in Nat
      /\ secs > 0 => OptsIn(r) /\ key # NoKey
  BY ConfigFacts, PamAssumption, BrokerAssumption DEF OptsIn
<1>5. stage \in {"asking", "spawning"} /\ (stage = "asking" => secs > 0)
  OBVIOUS
<1> HIDE DEF key, secs, stage, timeout
<1>6. /\ call' \in [Calls -> CallRecords]
      /\ \A b \in Calls : b # a => call'[b] = call[b]
  <2>1. stage \in Stages
    BY <1>5 DEF Stages
  <2> DEFINE new == [call[a] EXCEPT !.stage = stage, !.req = {r}, !.key = key,
                                    !.secs = secs, !.timeout = timeout]
  <2>2. call \in [Calls -> CallRecords]
    BY DEF PamInv, CallTypeOK
  <2>3. new \in CallRecords
    <3>1. call[a] \in CallRecords /\ {r} \in SUBSET AuthRequests
      BY <2>2
    <3> QED BY <1>3, <1>4, <2>1, <3>1, RequestSet
  <2>4. call' = [call EXCEPT ![a] = new]
    BY <1>1, <2>2
  <2> HIDE DEF new
  <2> QED BY <2>2, <2>3, <2>4
<1>7. /\ call'[a].stage = stage /\ call'[a].req = {r} /\ call'[a].key = key
      /\ call'[a].secs = secs
      /\ call'[a].source = call[a].source /\ call'[a].result = call[a].result
  BY <1>1 DEF PamInv, CallTypeOK, CallRecords
<1>8. /\ call[a].source = "none" /\ call[a].result = "none"
      /\ dialog[a] = NoDialog /\ conn[Check(a)] = Closed /\ RecordOK(a)
  BY <1>1 DEF PamInv, PamOK, CallOK, DialogOK, CheckOK, Idle
<1>9. CallTypeOK'
  BY <1>2, <1>6 DEF PamInv, CallTypeOK
<1>10. Undecided(call[a])'
  BY <1>1, <1>4, <1>7 DEF Undecided, key
<1>11. CallOK(a)'
  BY <1>5, <1>7, <1>8, <1>10 DEF CallOK, Early
<1>12. DialogOK(a)'
  <2>1. dialog'[a].running = FALSE /\ dialog'[a].line = <<>>
    BY <1>2, <1>8 DEF NoDialog
  <2>2. dialog'[a].line # <<"ALLOW", "REMEMBER">>
    BY <2>1
  <2> QED BY <1>5, <1>7, <1>8, <2>1, <2>2 DEF DialogOK
<1>13. CheckOK(a)' /\ RecordOK(a)'
  BY <1>2, <1>7, <1>8 DEF CheckOK, Check, RecordOK, RecordOn, brokerVars, Granted
<1> QED
  BY <1>2, <1>6, <1>9, <1>11, <1>12, <1>13, LocalStep DEF PamOK

-----------------------------------------------------------------------------
(* Returns behind the remember window                                      *)

\* A call that returns later has the broker's "fresh" or its dialog's Allow
\* behind a success, and leaves no dialog running.
LEMMA LateReturn ==
    ASSUME PamInv, NEW a \in Calls, call[a].stage \notin {"idle", "returned"},
           NEW result \in {"success", "auth_err"},
           NEW source \in {"remember", "error", "dialog"},
           Return(a, result, source), UNCHANGED consented, UNCHANGED brokerVars,
           \/ dialog' = dialog /\ ~dialog[a].running
           \/ dialog' = [dialog EXCEPT ![a] = NoDialog],
           source = "error" => result # "success",
           source = "remember" => conn[Check(a)].answer = "fresh",
           source = "dialog" /\ result = "success" => dialog'[a].line \in AllowLines
    PROVE  PamInv'
<1>1. call[a].req \in SUBSET AuthRequests /\ dialog \in [Calls -> Dialogs]
  BY DEF PamInv, CallTypeOK, CallRecords
<1>2. /\ call' \in [Calls -> CallRecords]
      /\ call'[a].stage = "returned" /\ call'[a].req = call[a].req
      /\ call'[a].key = call[a].key /\ call'[a].secs = 0
      /\ call'[a].result = result /\ call'[a].source = source
      /\ \A b \in Calls : b # a => call'[b] = call[b]
  <2>1. CallTypeOK
    BY DEF PamInv
  <2>2. ReturnAs(a, call[a].req, result, source)
    BY DEF Return
  <2>3. result \in {"success", "ignore", "auth_err"}
    OBVIOUS
  <2>4. source \in Early \cup {"remember", "error", "dialog"}
    OBVIOUS
  <2> QED BY <1>1, <2>1, <2>2, <2>3, <2>4, Returned
<1>3. call[a].source = "none" /\ Undecided(call[a])
  BY Pending DEF PamInv, PamOK
<1>4. /\ dialog' \in [Calls -> Dialogs] /\ ~dialog'[a].running
      /\ dialog'[a].line = dialog[a].line \/ dialog'[a].line = <<>>
      /\ \A b \in Calls : b # a => dialog'[b] = dialog[b]
  <2>1. NoDialog \in Dialogs /\ ~NoDialog.running /\ NoDialog.line = <<>>
    BY DEF NoDialog, Dialogs, Lines
  <2> QED BY <1>1, <2>1
<1>5. CallTypeOK'
  BY <1>2, <1>4 DEF PamInv, CallTypeOK
<1>6. Undecided(call[a])'
  BY <1>2, <1>3 DEF Undecided
<1>7. CallOK(a)'
  BY <1>2, <1>6 DEF CallOK, Early
<1>8. DialogOK(a)'
  <2>1. dialog'[a].line = <<"ALLOW", "REMEMBER">> => call[a].req \subseteq consented
    <3>1. <<>> # <<"ALLOW", "REMEMBER">>
      OBVIOUS
    <3> QED BY <1>4, <3>1 DEF PamInv, PamOK, DialogOK
  <2> QED BY <1>2, <1>4, <2>1 DEF DialogOK
<1>9. conn' = conn /\ Granted' = Granted
  BY DEF brokerVars, Granted
<1>10. CheckOK(a)'
  BY <1>2, <1>3, <1>9 DEF PamInv, PamOK, CheckOK, Check, Early
<1>11. RecordOK(a)'
  BY <1>9 DEF PamInv, PamOK, RecordOK, RecordOn
<1> QED
  BY <1>2, <1>4, <1>5, <1>7, <1>8, <1>10, <1>11, LocalStep DEF PamOK

-----------------------------------------------------------------------------
(* broker_client.rs                                                        *)

\* No fresh grant: the dialog is next.
LEMMA NotFresh ==
    ASSUME PamInv, NEW a \in Calls, call[a].stage \in {"asking", "checking"},
           Goto(a, "spawning") \/ Wait(a, "spawning", Unbounded),
           dialogUnchanged, brokerUnchanged
    PROVE  PamInv'
<1>1. /\ call' \in [Calls -> CallRecords]
      /\ \A b \in Calls : b # a => call'[b] = call[b]
  BY Moved, Waiting DEF PamInv, Stages
<1>2. /\ call'[a].stage = "spawning" /\ call'[a].req = call[a].req
      /\ call'[a].key = call[a].key /\ call'[a].secs = call[a].secs
      /\ call'[a].result = call[a].result /\ call'[a].source = call[a].source
  <2>1. CASE Goto(a, "spawning")
    <3>1. call'[a] = [call[a] EXCEPT !.stage = "spawning"]
      BY <2>1, Moved DEF PamInv, Stages
    <3> QED BY <3>1 DEF PamInv, CallTypeOK, CallRecords
  <2>2. CASE Wait(a, "spawning", Unbounded)
    BY <2>2, Waiting DEF PamInv, Stages
  <2> QED BY <2>1, <2>2
<1>3. UNCHANGED <<dialog, consented>> /\ UNCHANGED brokerVars /\ conn' = conn
  BY DEF dialogUnchanged, brokerUnchanged, brokerVars
<1>4. call[a].source = "none" /\ call[a].result # "success" /\ Undecided(call[a])
  BY Pending DEF PamInv, PamOK
<1>5. CallTypeOK'
  BY <1>1, <1>3 DEF PamInv, CallTypeOK
<1>6. Undecided(call[a])'
  BY <1>2, <1>4 DEF Undecided
<1>7. CallOK(a)'
  BY <1>2, <1>4, <1>6 DEF CallOK, Early
<1>8. DialogOK(a)'
  BY <1>2, <1>3, <1>4 DEF PamInv, PamOK, DialogOK
<1>9. CheckOK(a)'
  BY <1>2, <1>3, <1>4 DEF PamInv, PamOK, CheckOK, Check, Granted, Early
<1>10. RecordOK(a)'
  BY <1>3 DEF PamInv, PamOK, RecordOK, RecordOn, Granted
<1> QED
  BY <1>1, <1>3, <1>5, <1>7, <1>8, <1>9, <1>10, LocalStep DEF PamOK

\* The two connections of a call are its own.
LEMMA ConnsApart ==
    ASSUME NEW a \in Calls, NEW b \in Calls
    PROVE  /\ Check(a) \in Conns /\ RecordOn(a) \in Conns
           /\ Check(a) # RecordOn(b)
           /\ a # b => Check(a) # Check(b) /\ RecordOn(a) # RecordOn(b)
  BY PamAssumption DEF Check, RecordOn

\* A connection that is opened changes nothing else.
LEMMA Connected ==
    ASSUME BrokerTypeOK, NEW c \in Conns, NEW request \in Requests, Connect(c, "root", request)
    PROVE  /\ BrokerNext /\ store' = store
           /\ conn'[c].stage = "open" /\ conn'[c].request = request /\ conn'[c].answer = "none"
           /\ \A d \in Conns : d # c => conn'[d] = conn[d]
<1>1. BrokerNext
  BY DEF BrokerNext, Peers
<1> QED BY <1>1 DEF Connect, BrokerTypeOK

\* The key that is checked is the call's own, of a service that is opted in.
LEMMA SendCheckStep ==
    ASSUME PamInv, NEW a \in Calls, SendCheck(a)
    PROVE  PamInv'
<1> DEFINE request == [op |-> "check", key |-> call[a].key, ttl |-> call[a].secs]
<1>1. call[a].stage = "asking" /\ Wait(a, "checking", IoTimeout) /\ UNCHANGED <<dialog, consented>>
  BY DEF SendCheck, dialogUnchanged
<1>2. call[a].source = "none" /\ call[a].result # "success" /\ Undecided(call[a])
  BY <1>1, Pending DEF PamInv, PamOK
<1>3. call[a].secs > 0 /\ call[a].secs \in Ttls /\ call[a].key \in Keys \cup {NoKey}
  BY <1>1 DEF PamInv, PamOK, CallOK, CallTypeOK, CallRecords
<1>4. call[a].key # NoKey /\ \A r \in call[a].req : OptsIn(r)
  BY <1>2, <1>3 DEF Undecided
<1>5. request \in Requests /\ request.op = "check" /\ request.key = call[a].key
  BY <1>3, <1>4 DEF Requests
<1> HIDE DEF request
<1>6. /\ BrokerNext /\ store' = store
      /\ conn'[Check(a)].stage = "open" /\ conn'[Check(a)].request = request
      /\ conn'[Check(a)].answer = "none"
      /\ \A d \in Conns : d # Check(a) => conn'[d] = conn[d]
  BY <1>5, Connected, ConnsApart DEF SendCheck, PamInv, BrokerInv, request
<1>7. /\ call' \in [Calls -> CallRecords]
      /\ \A b \in Calls : b # a => call'[b] = call[b]
  BY <1>1, Waiting, PamAssumption DEF PamInv, Stages
<1>8. /\ call'[a].stage = "checking" /\ call'[a].req = call[a].req
      /\ call'[a].key = call[a].key /\ call'[a].secs = call[a].secs
      /\ call'[a].result = call[a].result /\ call'[a].source = call[a].source
  BY <1>1, Waiting, PamAssumption DEF PamInv, Stages
<1>9. CallTypeOK'
  BY <1>1, <1>7 DEF PamInv, CallTypeOK
<1>10. Undecided(call[a])'
  BY <1>2, <1>8 DEF Undecided
<1>11. CallOK(a)'
  BY <1>2, <1>8, <1>10 DEF CallOK, Early
<1>12. DialogOK(a)'
  BY <1>1, <1>2, <1>8 DEF PamInv, PamOK, DialogOK
<1>13. CheckOK(a)'
  BY <1>2, <1>4, <1>5, <1>6, <1>8 DEF CheckOK, Check, Early
<1>14. RecordOK(a)'
  <2>1. conn'[RecordOn(a)] = conn[RecordOn(a)]
    BY <1>6, ConnsApart
  <2> QED BY <1>1, <2>1 DEF PamInv, PamOK, RecordOK, RecordOn, Granted
<1>15. \A b \in Calls : b # a => /\ conn'[Check(b)] = conn[Check(b)]
                                 /\ conn'[RecordOn(b)] = conn[RecordOn(b)]
  BY <1>6, ConnsApart
<1> QED
  BY <1>1, <1>6, <1>7, <1>9, <1>11, <1>12, <1>13, <1>14, <1>15, CallStep DEF PamOK

\* The key of a call whose request was consented to is granted.
LEMMA ConsentGrants ==
    ASSUME NEW c, Undecided(c), c.req \subseteq consented
    PROVE  c.key \in Granted
  BY DEF Undecided, Granted

\* The key that is recorded is the call's own, and was consented to.
LEMMA SendRecordStep ==
    ASSUME PamInv, NEW a \in Calls, SendRecord(a)
    PROVE  PamInv'
<1> DEFINE request == [op |-> "record", key |-> call[a].key]
<1>1. call[a].stage = "granting" /\ Wait(a, "recording", IoTimeout) /\ UNCHANGED <<dialog, consented>>
  BY DEF SendRecord, dialogUnchanged
<1>2. call[a].source = "none" /\ call[a].result # "success" /\ Undecided(call[a])
  BY <1>1, Pending DEF PamInv, PamOK
<1>3. /\ call[a].secs > 0 /\ call[a].req \subseteq consented
      /\ call[a].key \in Keys \cup {NoKey}
  BY <1>1 DEF PamInv, PamOK, DialogOK, CallTypeOK, CallRecords
<1>4. call[a].key # NoKey /\ call[a].key \in Granted
  BY <1>2, <1>3, ConsentGrants DEF Undecided
<1>5. request \in Requests /\ request.op = "record" /\ request.key = call[a].key
  BY <1>3, <1>4 DEF Requests
<1> HIDE DEF request
<1>6. /\ BrokerNext /\ store' = store
      /\ conn'[RecordOn(a)].stage = "open" /\ conn'[RecordOn(a)].request = request
      /\ conn'[RecordOn(a)].answer = "none"
      /\ \A d \in Conns : d # RecordOn(a) => conn'[d] = conn[d]
  BY <1>5, Connected, ConnsApart DEF SendRecord, PamInv, BrokerInv, request
<1>7. /\ call' \in [Calls -> CallRecords]
      /\ \A b \in Calls : b # a => call'[b] = call[b]
  BY <1>1, Waiting, PamAssumption DEF PamInv, Stages
<1>8. /\ call'[a].stage = "recording" /\ call'[a].req = call[a].req
      /\ call'[a].key = call[a].key /\ call'[a].secs = call[a].secs
      /\ call'[a].result = call[a].result /\ call'[a].source = call[a].source
  BY <1>1, Waiting, PamAssumption DEF PamInv, Stages
<1>9. CallTypeOK'
  BY <1>1, <1>7 DEF PamInv, CallTypeOK
<1>10. Undecided(call[a])'
  BY <1>2, <1>8 DEF Undecided
<1>11. CallOK(a)'
  BY <1>2, <1>8, <1>10 DEF CallOK, Early
<1>12. DialogOK(a)'
  BY <1>1, <1>2, <1>8 DEF PamInv, PamOK, DialogOK
<1>13. CheckOK(a)'
  <2>1. conn'[Check(a)] = conn[Check(a)]
    BY <1>6, ConnsApart
  <2> QED BY <1>1, <1>2, <1>8, <2>1 DEF PamInv, PamOK, CheckOK, Check, Granted, Early
<1>14. RecordOK(a)'
  BY <1>1, <1>4, <1>5, <1>6 DEF RecordOK, RecordOn, Granted
<1>15. \A b \in Calls : b # a => /\ conn'[Check(b)] = conn[Check(b)]
                                 /\ conn'[RecordOn(b)] = conn[RecordOn(b)]
  BY <1>6, ConnsApart
<1> QED
  BY <1>1, <1>6, <1>7, <1>9, <1>11, <1>12, <1>13, <1>14, <1>15, CallStep DEF PamOK

\* Every end of a round trip, an answer or none.
LEMMA RoundTripStep ==
    ASSUME PamInv, NEW a \in Calls,
           Connecting(a) \/ ReadCheck(a) \/ CheckGivesUp(a) \/ RecordEnds(a)
    PROVE  PamInv'
<1>1. CASE CheckNotSent(a)
  BY <1>1, NotFresh DEF CheckNotSent
<1>2. CASE ReadCheck(a) \/ CheckGivesUp(a)
  <2>1. PICK answer : /\ Proceed(a, answer)
                      /\ SaysFresh(answer) => conn[Check(a)].answer = "fresh"
    BY <1>2 DEF ReadCheck, CheckGivesUp, SaysFresh
  <2>2. call[a].stage = "checking" /\ dialogUnchanged /\ brokerUnchanged
    BY <1>2 DEF ReadCheck, CheckGivesUp
  <2>3. CASE ~SaysFresh(answer)
    BY <2>1, <2>2, <2>3, NotFresh DEF Proceed
  <2>4. CASE SaysFresh(answer)
    <3>1. ~dialog[a].running
      BY <2>2 DEF PamInv, PamOK, DialogOK
    <3> QED
      BY <2>1, <2>2, <2>4, <3>1, LateReturn DEF Proceed, dialogUnchanged, brokerUnchanged
  <2> QED BY <2>3, <2>4
<1>3. CASE RecordNotSent(a) \/ RecordEnds(a)
  <2>1. /\ call[a].stage \in {"granting", "recording"} /\ Return(a, "success", "dialog")
        /\ UNCHANGED <<dialog, consented>> /\ UNCHANGED brokerVars
    BY <1>3 DEF RecordNotSent, RecordEnds, dialogUnchanged, brokerUnchanged
  <2>2. dialog[a].line \in AllowLines /\ ~dialog[a].running
    BY <2>1 DEF PamInv, PamOK, DialogOK
  <2> QED BY <2>1, <2>2, LateReturn
<1> QED
  BY <1>1, <1>2, <1>3, SendCheckStep, SendRecordStep DEF Connecting

-----------------------------------------------------------------------------
(* helper.rs, and the dialog's process                                     *)

\* Only a line that begins as an Allow is read as one, and only the one with
\* the token as a tick; noise that contains both words is not.
LEMMA VerdictRead ==
    ASSUME NEW line \in Lines
    PROVE  LET v == ParseVerdict(line)
           IN  is_allow(v.outcome) =>
                 /\ line \in AllowLines
                 /\ v.remember => line = <<"ALLOW", "REMEMBER">>
<1>1. CASE line = <<>>
  BY <1>1 DEF ParseVerdict, is_allow
<1>2. CASE line \in {<<"DENY">>, <<"TIMEOUT">>}
  BY <1>2 DEF ParseVerdict, is_allow
<1>3. CASE line = Noise
  BY <1>3 DEF ParseVerdict, is_allow, Noise, Outcomes
<1>4. CASE line = <<"ALLOW">>
  <2>1. Len(line) = 1
    BY <1>4
  <2>2. ~ParseVerdict(line).remember
    BY <1>4, <2>1 DEF ParseVerdict, Outcomes
  <2> QED BY <1>4, <2>2 DEF AllowLines
<1>5. CASE line = <<"ALLOW", "REMEMBER">>
  BY <1>5 DEF AllowLines
<1>6. CASE line = Overlong
  <2>1. Len(line) = 2 /\ line[1] = "ALLOW" /\ line[2] = "?"
    BY <1>6 DEF Overlong
  <2>2. ~ParseVerdict(line).remember
    BY <2>1 DEF ParseVerdict, Outcomes, REMEMBER_TOKEN
  <2> QED BY <1>6, <2>2 DEF AllowLines
<1> QED BY <1>1, <1>2, <1>3, <1>4, <1>5, <1>6 DEF Lines, AllowLines

\* A line of two words.
LEMMA PairOfWords ==
    ASSUME NEW x, NEW y
    PROVE  <<x>> \o <<y>> = <<x, y>>
<1> DEFINE s == <<x>> \o <<y>>
           t == <<x, y>>
           W == {x, y}
<1>1. <<x>> \in Seq(W) /\ <<y>> \in Seq(W) /\ Len(<<x>>) = 1 /\ Len(<<y>>) = 1
  OBVIOUS
<1>2. s \in Seq(W) /\ Len(s) = 2
  BY <1>1
<1>3. s[1] = x /\ s[2] = y
  BY <1>1
<1>4. t \in Seq(W) /\ Len(t) = 2 /\ t[1] = x /\ t[2] = y
  OBVIOUS
<1> HIDE DEF s, t, W
<1>5. \A i \in 1 .. Len(s) : s[i] = t[i]
  BY <1>2, <1>3, <1>4
<1>6. s = t
  BY <1>2, <1>4, <1>5, SeqEqual
<1> QED BY <1>6 DEF s, t

\* The longer one is written only by an Allow with the box ticked.
LEMMA VerdictWritten ==
    ASSUME NEW v \in Verdicts
    PROVE  /\ FormatVerdict(v) \in Lines
           /\ FormatVerdict(v) = <<"ALLOW", "REMEMBER">> => v.remember /\ is_allow(v.outcome)
<1>1. v.outcome \in Outcomes
  BY DEF Verdicts
<1>2. CASE v.remember /\ is_allow(v.outcome)
  <2>1. FormatVerdict(v) = <<"ALLOW">> \o <<"REMEMBER">>
    BY <1>2 DEF FormatVerdict, is_allow, REMEMBER_TOKEN
  <2>2. <<"ALLOW">> \o <<"REMEMBER">> = <<"ALLOW", "REMEMBER">>
    BY PairOfWords
  <2> QED BY <1>2, <2>1, <2>2 DEF Lines, AllowLines
<1>3. CASE ~(v.remember /\ is_allow(v.outcome))
  <2>1. FormatVerdict(v) = <<v.outcome>> \o <<>>
    BY <1>3 DEF FormatVerdict
  <2>2. <<v.outcome>> \o <<>> = <<v.outcome>>
    OBVIOUS
  <2>3. <<v.outcome>> # <<"ALLOW", "REMEMBER">>
    OBVIOUS
  <2>4. <<v.outcome>> \in Lines
    BY <1>1 DEF Outcomes, Lines, AllowLines
  <2> QED BY <2>1, <2>2, <2>3, <2>4
<1> QED BY <1>2, <1>3

\* A dialog comes up for a call that then polls.
LEMMA SpawnStep ==
    ASSUME PamInv, NEW a \in Calls, SpawnDialog(a)
    PROVE  PamInv'
<1> DEFINE left == ParentPollTimeout(call[a].timeout)
           new == [running |-> TRUE, line |-> <<>>]
<1>1. /\ call[a].stage = "spawning"
      /\ Wait(a, "polling", left)
      /\ dialog' = [dialog EXCEPT ![a] = new]
      /\ consented' = consented /\ UNCHANGED brokerVars
  BY DEF SpawnDialog, brokerUnchanged
<1>2. left \in Nat \cup {Unbounded} /\ (call[a].timeout = 0 => left = Unbounded)
  <2>1. call[a].timeout \in Nat
    BY DEF PamInv, CallTypeOK, CallRecords
  <2> QED BY <2>1, PamAssumption DEF ParentPollTimeout
<1>3. new \in Dialogs /\ new.running /\ new.line = <<>>
  BY DEF Dialogs, Lines
<1> HIDE DEF left, new
<1>4. /\ call' \in [Calls -> CallRecords] /\ dialog' \in [Calls -> Dialogs]
      /\ dialog'[a] = new
      /\ \A b \in Calls : b # a => call'[b] = call[b] /\ dialog'[b] = dialog[b]
  <2>1. dialog \in [Calls -> Dialogs]
    BY DEF PamInv, CallTypeOK
  <2>2. /\ call' \in [Calls -> CallRecords]
        /\ \A b \in Calls : b # a => call'[b] = call[b]
    BY <1>1, <1>2, Waiting DEF PamInv, Stages
  <2> QED BY <1>1, <1>3, <2>1, <2>2
<1>5. /\ call'[a].stage = "polling" /\ call'[a].req = call[a].req
      /\ call'[a].key = call[a].key /\ call'[a].secs = call[a].secs
      /\ call'[a].result = call[a].result /\ call'[a].source = call[a].source
      /\ call'[a].timeout = 0 => call'[a].left = Unbounded
  BY <1>1, <1>2, Waiting DEF PamInv, Stages
<1>6. call[a].source = "none" /\ call[a].result # "success" /\ Undecided(call[a])
  BY <1>1, Pending DEF PamInv, PamOK
<1>7. CallTypeOK'
  BY <1>1, <1>4 DEF PamInv, CallTypeOK
<1>8. Undecided(call[a])'
  BY <1>5, <1>6 DEF Undecided
<1>9. CallOK(a)'
  BY <1>5, <1>6, <1>8 DEF CallOK, Early
<1>10. DialogOK(a)'
  <2>1. <<>> # <<"ALLOW", "REMEMBER">>
    OBVIOUS
  <2> QED BY <1>3, <1>4, <1>5, <1>6, <2>1 DEF DialogOK
<1>11. CheckOK(a)'
  BY <1>1, <1>5, <1>6 DEF PamInv, PamOK, CheckOK, Check, Granted, Early, brokerVars
<1>12. RecordOK(a)'
  BY <1>1 DEF PamInv, PamOK, RecordOK, RecordOn, Granted, brokerVars
<1> QED
  BY <1>1, <1>4, <1>7, <1>9, <1>10, <1>11, <1>12, LocalStep DEF PamOK

\* What is read is what the dialog wrote, or nothing.
LEMMA ReadVerdictStep ==
    ASSUME PamInv, NEW a \in Calls, ReadVerdict(a)
    PROVE  PamInv'
<1>1. PICK line \in {dialog[a].line, <<>>} :
         call' = [call EXCEPT ![a].stage = "reaping", ![a].line = line, ![a].left = Unbounded]
  BY DEF ReadVerdict
<1>2. /\ call[a].stage = "polling" /\ UNCHANGED <<dialog, consented>> /\ UNCHANGED brokerVars
  BY DEF ReadVerdict, dialogUnchanged, brokerUnchanged
<1>3. line \in Lines
  BY DEF PamInv, CallTypeOK, Dialogs, Lines
<1>4. /\ call' \in [Calls -> CallRecords]
      /\ \A b \in Calls : b # a => call'[b] = call[b]
  <2> DEFINE next == [call[a] EXCEPT !.stage = "reaping", !.line = line, !.left = Unbounded]
  <2>1. call \in [Calls -> CallRecords]
    BY DEF PamInv, CallTypeOK
  <2>2. next \in CallRecords
    <3>1. call[a] \in CallRecords
      BY <2>1
    <3>2. "reaping" \in Stages
      BY DEF Stages
    <3> QED BY <1>3, <3>1, <3>2, LineSet
  <2>3. call' = [call EXCEPT ![a] = next]
    BY <1>1, <2>1
  <2> HIDE DEF next
  <2> QED BY <2>1, <2>2, <2>3
<1>5. /\ call'[a].stage = "reaping" /\ call'[a].line = line /\ call'[a].req = call[a].req
      /\ call'[a].key = call[a].key /\ call'[a].secs = call[a].secs
      /\ call'[a].result = call[a].result /\ call'[a].source = call[a].source
  BY <1>1 DEF PamInv, CallTypeOK, CallRecords
<1>6. call[a].source = "none" /\ call[a].result # "success" /\ Undecided(call[a])
  BY <1>2, Pending DEF PamInv, PamOK
<1>7. CallTypeOK'
  BY <1>2, <1>4 DEF PamInv, CallTypeOK
<1>8. Undecided(call[a])'
  BY <1>5, <1>6 DEF Undecided
<1>9. CallOK(a)'
  BY <1>5, <1>6, <1>8 DEF CallOK, Early
<1>10. DialogOK(a)'
  BY <1>2, <1>5, <1>6 DEF PamInv, PamOK, DialogOK
<1>11. CheckOK(a)'
  BY <1>2, <1>5, <1>6 DEF PamInv, PamOK, CheckOK, Check, Granted, Early, brokerVars
<1>12. RecordOK(a)'
  BY <1>2 DEF PamInv, PamOK, RecordOK, RecordOn, Granted, brokerVars
<1> QED
  BY <1>2, <1>4, <1>7, <1>9, <1>10, <1>11, <1>12, LocalStep DEF PamOK

\* What the verdict says decides the call; a tick counts only for an Allow of
\* a call with a window.
LEMMA ReapStep ==
    ASSUME PamInv, NEW a \in Calls, Reap(a)
    PROVE  PamInv'
<1> DEFINE v == ParseVerdict(call[a].line)
<1>1. /\ call[a].stage = "reaping" /\ ~dialog[a].running
      /\ consented' = consented /\ UNCHANGED brokerVars
  BY DEF Reap, brokerUnchanged
<1>2. \/ Return(a, "auth_err", "dialog") /\ dialog' = [dialog EXCEPT ![a] = NoDialog]
      \/ /\ is_allow(v.outcome) /\ dialog' = dialog
         /\ \/ Return(a, "success", "dialog")
            \/ v.remember /\ call[a].secs > 0 /\ Goto(a, "granting")
  BY DEF Reap
<1>3. call[a].line \in Lines /\ call[a].line \in {<<>>, dialog[a].line}
  BY <1>1 DEF PamInv, PamOK, DialogOK, CallTypeOK, CallRecords
<1>4. is_allow(v.outcome) =>
        /\ dialog[a].line \in AllowLines
        /\ v.remember => dialog[a].line = <<"ALLOW", "REMEMBER">>
  <2>1. is_allow(v.outcome) =>
          /\ call[a].line \in AllowLines
          /\ v.remember => call[a].line = <<"ALLOW", "REMEMBER">>
    BY <1>3, VerdictRead
  <2>2. <<>> \notin AllowLines
    BY DEF AllowLines, Overlong
  <2> HIDE DEF v
  <2> QED BY <1>3, <2>1, <2>2
<1> HIDE DEF v
<1>5. CASE Return(a, "auth_err", "dialog") /\ dialog' = [dialog EXCEPT ![a] = NoDialog]
  BY <1>1, <1>5, LateReturn
<1>6. CASE is_allow(v.outcome) /\ dialog' = dialog /\ Return(a, "success", "dialog")
  BY <1>1, <1>4, <1>6, LateReturn
<1>7. CASE /\ is_allow(v.outcome) /\ dialog' = dialog
           /\ v.remember /\ call[a].secs > 0 /\ Goto(a, "granting")
  <2>1. /\ call' \in [Calls -> CallRecords]
        /\ call'[a] = [call[a] EXCEPT !.stage = "granting"]
        /\ \A b \in Calls : b # a => call'[b] = call[b]
    BY <1>7, Moved DEF PamInv, Stages
  <2>2. /\ call'[a].stage = "granting" /\ call'[a].req = call[a].req
        /\ call'[a].key = call[a].key /\ call'[a].secs = call[a].secs
        /\ call'[a].result = call[a].result /\ call'[a].source = call[a].source
    BY <2>1 DEF PamInv, CallTypeOK, CallRecords
  <2>3. call[a].source = "none" /\ call[a].result # "success" /\ Undecided(call[a])
    BY <1>1, Pending DEF PamInv, PamOK
  <2>4. CallTypeOK'
    BY <1>1, <1>7, <2>1 DEF PamInv, CallTypeOK
  <2>5. Undecided(call[a])'
    BY <2>2, <2>3 DEF Undecided
  <2>6. CallOK(a)'
    BY <2>2, <2>3, <2>5 DEF CallOK, Early
  <2>7. DialogOK(a)'
    BY <1>1, <1>4, <1>7, <2>2, <2>3 DEF PamInv, PamOK, DialogOK
  <2>8. CheckOK(a)'
    BY <1>1, <2>2, <2>3 DEF PamInv, PamOK, CheckOK, Check, Granted, Early, brokerVars
  <2>9. RecordOK(a)'
    BY <1>1 DEF PamInv, PamOK, RecordOK, RecordOn, Granted, brokerVars
  <2> QED
    BY <1>1, <1>7, <2>1, <2>4, <2>6, <2>7, <2>8, <2>9, LocalStep DEF PamOK
<1> QED BY <1>2, <1>5, <1>6, <1>7

\* A dialog that cannot be started or waited for denies, and is gone.
LEMMA PollSteps ==
    ASSUME PamInv, NEW a \in Calls, SpawnFails(a) \/ PollExpires(a) \/ PollFails(a)
    PROVE  PamInv'
<1>1. CASE SpawnFails(a)
  <2>1. /\ call[a].stage = "spawning" /\ Return(a, "auth_err", "error")
        /\ UNCHANGED <<dialog, consented>> /\ UNCHANGED brokerVars
    BY <1>1 DEF SpawnFails, dialogUnchanged, brokerUnchanged
  <2>2. ~dialog[a].running
    BY <2>1 DEF PamInv, PamOK, DialogOK
  <2> QED BY <2>1, <2>2, LateReturn
<1>2. CASE PollExpires(a) \/ PollFails(a)
  <2>1. /\ call[a].stage = "polling" /\ Return(a, "auth_err", "error")
        /\ dialog' = [dialog EXCEPT ![a] = NoDialog]
        /\ UNCHANGED consented /\ UNCHANGED brokerVars
    BY <1>2 DEF PollExpires, PollFails, KillAndReap, brokerUnchanged
  <2> QED BY <2>1, LateReturn
<1> QED BY <1>1, <1>2

\* A killed host leaves its dialog; a tick in it is still consent.
LEMMA HostDiesStep ==
    ASSUME PamInv, NEW a \in Calls, HostDies(a)
    PROVE  PamInv'
<1> DEFINE new == [Idle EXCEPT !.stage = "dead", !.req = call[a].req,
                               !.key = call[a].key, !.secs = call[a].secs]
<1>1. /\ call[a].stage \notin {"idle", "returned", "dead"}
      /\ call' = [call EXCEPT ![a] = new]
      /\ UNCHANGED <<dialog, consented>> /\ UNCHANGED brokerVars
  BY DEF HostDies, dialogUnchanged, brokerUnchanged
<1>2. /\ call[a].key \in Keys \cup {NoKey} /\ call[a].req \in SUBSET AuthRequests
      /\ call[a].secs \in Ttls
  BY DEF PamInv, CallTypeOK, CallRecords
<1>3. new \in CallRecords
  BY <1>2, IdleType DEF CallRecords, Stages
<1>4. /\ new.stage = "dead" /\ new.req = call[a].req /\ new.key = call[a].key
      /\ new.secs = call[a].secs
  BY IdleType DEF CallRecords
<1>5. new.source = "none" /\ new.result = "none"
  BY DEF Idle
<1> HIDE DEF new
<1>6. /\ call' \in [Calls -> CallRecords] /\ call'[a] = new
      /\ \A b \in Calls : b # a => call'[b] = call[b]
  BY <1>1, <1>3 DEF PamInv, CallTypeOK
<1>7. call[a].source = "none" /\ Undecided(call[a])
  BY <1>1, Pending DEF PamInv, PamOK
<1>8. CallTypeOK'
  BY <1>1, <1>6 DEF PamInv, CallTypeOK
<1>9. Undecided(call[a])'
  BY <1>4, <1>6, <1>7 DEF Undecided
<1>10. CallOK(a)'
  BY <1>4, <1>5, <1>6, <1>9 DEF CallOK, Early
<1>11. DialogOK(a)'
  BY <1>1, <1>4, <1>5, <1>6 DEF PamInv, PamOK, DialogOK
<1>12. CheckOK(a)'
  BY <1>1, <1>4, <1>5, <1>6, <1>7 DEF PamInv, PamOK, CheckOK, Check, Granted, Early, brokerVars
<1>13. RecordOK(a)'
  BY <1>1 DEF PamInv, PamOK, RecordOK, RecordOn, Granted, brokerVars
<1> QED
  BY <1>1, <1>6, <1>8, <1>10, <1>11, <1>12, <1>13, LocalStep DEF PamOK

\* What the dialog's process does: a tick that is written is consent.
LEMMA HelperSteps ==
    ASSUME PamInv, NEW a \in Calls,
           \/ \E v \in Verdicts : HelperSays(a, v)
           \/ HelperSaysElse(a) \/ HelperExits(a)
    PROVE  PamInv'
<1>1. call' = call /\ UNCHANGED brokerVars /\ dialog[a].running
  BY DEF HelperSays, HelperSaysElse, HelperExits, brokerUnchanged
<1>2. call \in [Calls -> CallRecords] /\ dialog \in [Calls -> Dialogs]
  BY DEF PamInv, CallTypeOK
<1>3. call[a].stage \in {"polling", "reaping", "dead"}
  BY <1>1 DEF PamInv, PamOK, DialogOK
<1>4. call[a].source = "none"
  BY <1>3, Pending DEF PamInv, PamOK
<1> DEFINE Goal ==
             /\ dialog' \in [Calls -> Dialogs]
             /\ \A b \in Calls : b # a => dialog'[b] = dialog[b]
             /\ consented \subseteq consented' /\ consented' \subseteq AuthRequests
             /\ dialog'[a].line = <<"ALLOW", "REMEMBER">> => call[a].req \subseteq consented'
             /\ dialog'[a].line = dialog[a].line \/ dialog[a].line = <<>>
<1>5. Goal
  <2>1. ASSUME NEW v \in Verdicts, HelperSays(a, v)
        PROVE  Goal
    <3> DEFINE line == FormatVerdict(v)
    <3>1. /\ dialog[a].line = <<>> /\ dialog' = [dialog EXCEPT ![a].line = line]
          /\ consented' = IF v.remember /\ is_allow(v.outcome)
                            THEN consented \cup call[a].req ELSE consented
      BY <2>1 DEF HelperSays
    <3>2. line \in Lines
          /\ (line = <<"ALLOW", "REMEMBER">> => v.remember /\ is_allow(v.outcome))
      BY VerdictWritten
    <3> HIDE DEF line
    <3>3. /\ dialog' \in [Calls -> Dialogs] /\ dialog'[a].line = line
          /\ \A b \in Calls : b # a => dialog'[b] = dialog[b]
      BY <1>2, <3>1, <3>2 DEF Dialogs
    <3>4. call[a].req \subseteq AuthRequests /\ consented \subseteq AuthRequests
      BY DEF PamInv, CallTypeOK, CallRecords
    <3> QED BY <3>1, <3>2, <3>3, <3>4
  <2>2. CASE HelperSaysElse(a)
    <3>1. PICK line \in {<<"DENY">>, Noise, Overlong} : dialog' = [dialog EXCEPT ![a].line = line]
      BY <2>2 DEF HelperSaysElse
    <3>2. line \in Lines /\ line # <<"ALLOW", "REMEMBER">>
      BY DEF Lines, AllowLines, Noise, Overlong
    <3>3. /\ dialog' \in [Calls -> Dialogs] /\ dialog'[a].line = line
          /\ \A b \in Calls : b # a => dialog'[b] = dialog[b]
      BY <1>2, <3>1, <3>2 DEF Dialogs
    <3> QED BY <2>2, <3>2, <3>3 DEF HelperSaysElse, PamInv, CallTypeOK
  <2>3. CASE HelperExits(a)
    <3>1. dialog' = [dialog EXCEPT ![a].running = FALSE] /\ consented' = consented
      BY <2>3 DEF HelperExits
    <3>2. /\ dialog' \in [Calls -> Dialogs] /\ dialog'[a].line = dialog[a].line
          /\ \A b \in Calls : b # a => dialog'[b] = dialog[b]
      BY <1>2, <3>1 DEF Dialogs
    <3> QED BY <3>1, <3>2 DEF PamInv, PamOK, DialogOK, CallTypeOK
  <2> QED BY <2>1, <2>2, <2>3
<1>6. CallTypeOK'
  BY <1>1, <1>2, <1>5 DEF CallTypeOK
<1>7. CallOK(a)'
  BY <1>1 DEF PamInv, PamOK, CallOK, Decided, Undecided
<1>8. DialogOK(a)'
  BY <1>1, <1>3, <1>4, <1>5 DEF PamInv, PamOK, DialogOK
<1>9. CheckOK(a)' /\ RecordOK(a)'
  BY <1>1, <1>5, GrantedGrows DEF PamInv, PamOK, CheckOK, Check, RecordOK, RecordOn, brokerVars
<1> QED
  BY <1>1, <1>5, <1>6, <1>7, <1>8, <1>9, LocalStep DEF PamOK

-----------------------------------------------------------------------------
(* The broker's own steps                                                  *)

\* A granted key is one the broker accepts.
LEMMA GrantedBinds ==
    ASSUME CallTypeOK, NEW k \in Keys, k \in Granted
    PROVE  IsBindable(k)
<1>1. PICK q \in consented : k = RememberKey(q)
  BY DEF Granted
<1>2. q \in AuthRequests /\ RememberKey(q) # NoKey
  BY <1>1, PamAssumption DEF CallTypeOK
<1> QED BY <1>1, <1>2, KeyFacts

\* A connection is a call's check or its record.
LEMMA ConnCases ==
    ASSUME NEW c \in Conns
    PROVE  \E a \in Calls : c = Check(a) \/ c = RecordOn(a)
  BY PamAssumption DEF Check, RecordOn

\* A broker step that leaves the calls alone keeps the invariant if it keeps
\* what their connections and the store are known to hold.
LEMMA ServedStep ==
    ASSUME PamInv, [BrokerNext]_brokerVars, UNCHANGED <<call, dialog, consented>>,
           StoreOK', \A a \in Calls : CheckOK(a)' /\ RecordOK(a)'
    PROVE  PamInv'
<1>1. BrokerInv'
  BY BrokerNextInv DEF PamInv
<1>2. CallTypeOK'
  BY DEF PamInv, CallTypeOK
<1>3. ASSUME NEW a \in Calls PROVE CallOK(a)' /\ DialogOK(a)'
  BY DEF PamInv, PamOK, CallOK, DialogOK, Decided, Undecided
<1> QED BY <1>1, <1>2, <1>3 DEF PamInv, PamOK

\* A connection that is served: a check is answered or dropped, a record is
\* made for a key that was consented to or dropped.
LEMMA ServeStep ==
    ASSUME PamInv, NEW c \in Conns, ServeConnection(c), UNCHANGED <<call, dialog, consented>>
    PROVE  PamInv'
<1>1. /\ conn \in [Conns -> Connections] /\ store \in [Keys -> Ages] /\ CallTypeOK
      /\ call \in [Calls -> CallRecords]
  BY DEF PamInv, BrokerInv, BrokerTypeOK, CallTypeOK
<1>2. conn[c].stage = "open" /\ conn[c] # Closed
  BY DEF ServeConnection, RejectPeer, ReadFails, DispatchCheck, DispatchRecord, DispatchPing,
         Serving, Closed
<1>3. \A d \in Conns : d # c => conn'[d] = conn[d]
  BY <1>1 DEF ServeConnection, RejectPeer, ReadFails, DispatchCheck, DispatchRecord,
              DispatchPing, Drop, Answer
<1>4. Granted' = Granted /\ [BrokerNext]_brokerVars
  BY DEF Granted, BrokerNext
<1>5. PICK a \in Calls : c = Check(a) \/ c = RecordOn(a)
  BY ConnCases
<1>6. \A b \in Calls : b # a => CheckOK(b)' /\ RecordOK(b)'
  <2> SUFFICES ASSUME NEW b \in Calls, b # a PROVE CheckOK(b)' /\ RecordOK(b)'
    OBVIOUS
  <2>1. conn'[Check(b)] = conn[Check(b)] /\ conn'[RecordOn(b)] = conn[RecordOn(b)]
    BY <1>3, <1>5, ConnsApart
  <2> QED
    BY <1>4, <2>1 DEF PamInv, PamOK, CheckOK, Check, RecordOK, RecordOn
<1>7. CASE c = Check(a)
  <2>1. /\ conn[c].request.op = "check" /\ conn[c].request.key = call[a].key
        /\ call[a].key \in Keys /\ \A r \in call[a].req : OptsIn(r)
        /\ conn[c].answer = "none"
        /\ call[a].stage # "idle" /\ call[a].source \notin Early
        /\ call[a].source # "remember" /\ call[a].key # NoKey
    BY <1>1, <1>2, <1>7 DEF PamInv, PamOK, CheckOK, CallRecords
  <2>2. ~DispatchRecord(c) /\ ~DispatchPing(c)
    BY <2>1 DEF DispatchRecord, DispatchPing, Serving
  <2>3. /\ store' = store
        /\ conn'[c].stage \in {"answered", "dropped"} /\ conn'[c].request = conn[c].request
        /\ conn'[c].answer \in {"none", "fresh", "stale"}
        /\ conn'[c].answer # "none" => conn'[c].stage = "answered"
        /\ conn'[c].answer = "fresh" => store[call[a].key] # Absent
    <3>1. CASE RejectPeer(c) \/ ReadFails(c)
      BY <1>1, <2>1, <3>1 DEF RejectPeer, ReadFails, Drop, Connections
    <3>2. CASE DispatchCheck(c)
      BY <1>1, <2>1, <3>2 DEF DispatchCheck, Answer, IsFresh, Connections
    <3> QED BY <2>2, <3>1, <3>2 DEF ServeConnection
  <2>4. StoreOK'
    BY <1>4, <2>3 DEF PamInv, StoreOK
  <2>5. conn'[c].answer = "fresh" => call[a].key \in Granted
    BY <2>1, <2>3 DEF PamInv, StoreOK
  <2>6. CheckOK(a)'
    BY <1>4, <1>7, <2>1, <2>3, <2>5 DEF CheckOK, Check
  <2>7. RecordOK(a)'
    <3>1. conn'[RecordOn(a)] = conn[RecordOn(a)]
      BY <1>3, <1>7, ConnsApart
    <3> QED BY <1>4, <3>1 DEF PamInv, PamOK, RecordOK, RecordOn
  <2> QED BY <1>4, <1>6, <2>4, <2>6, <2>7, ServedStep
<1>8. CASE c = RecordOn(a)
  <2> DEFINE k == conn[c].request.key
  <2>1. /\ conn[c].request.op = "record" /\ k \in Granted
        /\ conn[c].answer \in {"none", "recorded"}
    BY <1>2, <1>8 DEF PamInv, PamOK, RecordOK
  <2>2. k \in Keys
    BY <1>1, <2>1 DEF Connections, Requests, NoRequest
  <2>3. IsBindable(k)
    BY <1>1, <2>1, <2>2, GrantedBinds
  <2>4. ~DispatchCheck(c) /\ ~DispatchPing(c)
    BY <2>1 DEF DispatchCheck, DispatchPing, Serving
  <2>5. /\ conn'[c].stage \in {"answered", "dropped"} /\ conn'[c].request = conn[c].request
        /\ conn'[c].answer \in {"none", "recorded"}
        /\ store' = store \/ Record(k)
    <3>1. CASE RejectPeer(c) \/ ReadFails(c)
      BY <1>1, <2>1, <3>1 DEF RejectPeer, ReadFails, Drop, Connections
    <3>2. CASE DispatchRecord(c)
      BY <1>1, <2>1, <2>3, <3>2 DEF DispatchRecord, Answer, Connections
    <3> QED BY <2>4, <3>1, <3>2 DEF ServeConnection
  <2>6. StoreOK'
    <3>1. CASE store' = store
      BY <1>4, <3>1 DEF PamInv, StoreOK
    <3>2. CASE Record(k)
      BY <1>4, <2>1, <3>2 DEF PamInv, StoreOK, Record
    <3> QED BY <2>5, <3>1, <3>2
  <2>7. RecordOK(a)'
    BY <1>4, <1>8, <2>1, <2>5 DEF RecordOK, RecordOn
  <2>8. CheckOK(a)'
    <3>1. conn'[Check(a)] = conn[Check(a)]
      BY <1>3, <1>8, ConnsApart
    <3> QED BY <1>4, <3>1 DEF PamInv, PamOK, CheckOK, Check
  <2> QED BY <1>4, <1>6, <2>6, <2>7, <2>8, ServedStep
<1> QED BY <1>5, <1>7, <1>8

\* A crash drops what was not answered and forgets every grant.
LEMMA CrashStep ==
    ASSUME PamInv, Crash, UNCHANGED <<call, dialog, consented>>
    PROVE  PamInv'
<1>1. conn \in [Conns -> Connections]
  BY DEF PamInv, BrokerInv, BrokerTypeOK
<1>2. [BrokerNext]_brokerVars /\ Granted' = Granted
  BY DEF BrokerNext, Granted
<1>3. StoreOK'
  BY DEF Crash, LoseStore, EmptyStore, StoreOK
<1>4. ASSUME NEW c \in Conns
      PROVE  \/ conn'[c] = conn[c]
             \/ /\ conn[c].stage = "open" /\ conn[c] # Closed
                /\ conn'[c].stage = "dropped" /\ conn'[c].request = conn[c].request
                /\ conn'[c].answer = conn[c].answer
  BY <1>1 DEF Crash, Connections, Closed
<1>5. ASSUME NEW a \in Calls PROVE CheckOK(a)' /\ RecordOK(a)'
  <2>1. Check(a) \in Conns /\ RecordOn(a) \in Conns
    BY ConnsApart
  <2>2. CheckOK(a)'
    BY <1>2, <1>4, <2>1 DEF PamInv, PamOK, CheckOK, Check
  <2>3. RecordOK(a)'
    BY <1>2, <1>4, <2>1 DEF PamInv, PamOK, RecordOK, RecordOn
  <2> QED BY <2>2, <2>3
<1> QED BY <1>2, <1>3, <1>5, ServedStep

\* All the broker does by itself.
LEMMA BrokerStepKeeps ==
    ASSUME PamInv, BrokerStep
    PROVE  PamInv'
<1>1. UNCHANGED <<call, dialog, consented>>
  BY DEF BrokerStep
<1>2. CASE Restart
  <2>1. UNCHANGED <<store, conn>> /\ Granted' = Granted /\ BrokerNext
    BY <1>1, <1>2 DEF Restart, Granted, BrokerNext
  <2>2. StoreOK' /\ \A a \in Calls : CheckOK(a)' /\ RecordOK(a)'
    BY <1>1, <2>1 DEF PamInv, PamOK, StoreOK, CheckOK, Check, RecordOK, RecordOn
  <2> QED BY <1>1, <2>1, <2>2, ServedStep
<1> QED
  BY <1>1, <1>2, CrashStep, ServeStep DEF BrokerStep

\* Time changes ages and what is left of a poll, and nothing else.
LEMMA TickKeeps ==
    ASSUME PamInv, PamTick
    PROVE  PamInv'
<1>1. /\ BrokerTick /\ UNCHANGED <<dialog, consented>>
      /\ call' = [a \in Calls |-> [call[a] EXCEPT !.left = Countdown(@)]]
  BY DEF PamTick, dialogUnchanged
<1>2. call \in [Calls -> CallRecords]
  BY DEF PamInv, CallTypeOK
<1>3. \A n \in Nat \cup {Unbounded} : Countdown(n) \in Nat \cup {Unbounded}
  BY DEF Countdown, Unbounded
<1>4. call' \in [Calls -> CallRecords]
  <2> DEFINE ticked(a) == [call[a] EXCEPT !.left = Countdown(call[a].left)]
  <2>1. ASSUME NEW a \in Calls PROVE ticked(a) \in CallRecords
    <3>1. call[a] \in CallRecords
      BY <1>2
    <3>2. call[a].left \in Nat \cup {Unbounded}
      BY <3>1 DEF CallRecords
    <3>3. Countdown(call[a].left) \in Nat \cup {Unbounded}
      BY <1>3, <3>2
    <3> QED BY <3>1, <3>3, LeftSet
  <2>2. call' = [a \in Calls |-> ticked(a)]
    BY <1>1
  <2> HIDE DEF ticked
  <2> QED BY <2>1, <2>2
<1>5. ASSUME NEW a \in Calls
      PROVE  /\ call'[a].stage = call[a].stage /\ call'[a].req = call[a].req
             /\ call'[a].key = call[a].key /\ call'[a].secs = call[a].secs
             /\ call'[a].line = call[a].line /\ call'[a].timeout = call[a].timeout
             /\ call'[a].result = call[a].result /\ call'[a].source = call[a].source
             /\ call[a].left = Unbounded => call'[a].left = Unbounded
  <2>1. Countdown(Unbounded) = Unbounded
    BY DEF Countdown, Unbounded
  <2> QED BY <1>1, <1>2, <2>1 DEF CallRecords
<1>6. ASSUME NEW a \in Calls, call[a].stage = "idle" PROVE call'[a] = Idle
  <2>1. call[a] = Idle
    BY <1>6 DEF PamInv, PamOK, CallOK
  <2>2. Countdown(Idle.left) = Idle.left
    BY DEF Countdown, Idle, Unbounded
  <2>3. call'[a] = [Idle EXCEPT !.left = Idle.left]
    BY <1>1, <2>1, <2>2
  <2>4. [Idle EXCEPT !.left = Idle.left] = Idle
    BY IdleType DEF CallRecords
  <2> QED BY <2>3, <2>4
<1>7. BrokerInv' /\ Granted' = Granted /\ conn' = conn
  BY <1>1, BrokerNextInv DEF PamInv, BrokerNext, BrokerTick, Granted
<1>8. StoreOK'
  BY <1>1, <1>7 DEF PamInv, StoreOK, BrokerTick, Older
<1>9. CallTypeOK'
  BY <1>1, <1>4 DEF PamInv, CallTypeOK
<1>10. ASSUME NEW a \in Calls PROVE PamOK(a)'
  <2>1. Undecided(call[a])' <=> Undecided(call[a])
    BY <1>5 DEF Undecided
  <2>2. Decided(call[a])' <=> Decided(call[a])
    BY <1>5 DEF Decided
  <2>3. CallOK(a)'
    BY <1>5, <1>6, <2>1, <2>2 DEF PamInv, PamOK, CallOK
  <2>4. DialogOK(a)'
    BY <1>1, <1>5 DEF PamInv, PamOK, DialogOK
  <2>5. CheckOK(a)'
    BY <1>5, <1>7 DEF PamInv, PamOK, CheckOK, Check
  <2>6. RecordOK(a)'
    BY <1>7 DEF PamInv, PamOK, RecordOK, RecordOn
  <2> QED BY <2>3, <2>4, <2>5, <2>6 DEF PamOK
<1> QED BY <1>7, <1>8, <1>9, <1>10 DEF PamInv

-----------------------------------------------------------------------------
(* The composition                                                         *)

\* At first no call has begun and nothing is granted.
LEMMA PamInitInv == PamInit => PamInv
<1> SUFFICES ASSUME PamInit PROVE PamInv
  OBVIOUS
<1>1. BrokerInv
  BY BrokerInitInv DEF PamInit
<1>2. CallTypeOK
  BY IdleType DEF PamInit, CallTypeOK, NoDialog, Dialogs, Lines
<1>3. StoreOK
  BY DEF PamInit, BrokerInit, EmptyStore, StoreOK
<1>4. ASSUME NEW a \in Calls PROVE PamOK(a)
  <2>1. call[a] = Idle /\ dialog[a] = NoDialog /\ consented = {}
    BY DEF PamInit
  <2>2. conn[Check(a)] = Closed /\ conn[RecordOn(a)] = Closed
    BY ConnsApart DEF PamInit, BrokerInit
  <2>3. Idle.stage = "idle" /\ Idle.source = "none" /\ Idle.result = "none"
    BY DEF Idle
  <2>4. NoDialog.running = FALSE /\ NoDialog.line # <<"ALLOW", "REMEMBER">>
    BY DEF NoDialog
  <2>5. CallOK(a)
    BY <2>1, <2>3 DEF CallOK, Early
  <2>6. DialogOK(a)
    BY <2>1, <2>3, <2>4 DEF DialogOK
  <2>7. CheckOK(a) /\ RecordOK(a)
    BY <2>1, <2>2, <2>3 DEF CheckOK, RecordOK
  <2> QED BY <2>5, <2>6, <2>7 DEF PamOK
<1> QED BY <1>1, <1>2, <1>3, <1>4 DEF PamInv

\* One step per action of the composition.
LEMMA PamNextInv == PamInv /\ [PamNext]_pamVars => PamInv'
<1> SUFFICES ASSUME PamInv, [PamNext]_pamVars PROVE PamInv'
  OBVIOUS
<1>1. ASSUME NEW a \in Calls, Bypass(a) PROVE PamInv'
  <2>1. call[a].stage = "idle" /\ ReturnAs(a, {}, "success", "agent")
        /\ dialogUnchanged /\ brokerUnchanged
    BY <1>1 DEF Bypass
  <2> QED BY <2>1, EarlyReturn DEF Early
<1>2. ASSUME NEW a \in Calls, NEW r \in AuthRequests,
             Disabled(a, r) \/ Headless(a, r) \/ PolicyDecides(a, r)
      PROVE  PamInv'
  BY <1>2, EarlySteps
<1>3. ASSUME NEW a \in Calls, NEW r \in AuthRequests, Request(a, r) PROVE PamInv'
  BY <1>3, RequestStep
<1>4. ASSUME NEW a \in Calls, Connecting(a) \/ PamStep(a) PROVE PamInv'
  BY <1>4, RoundTripStep, SpawnStep, PollSteps, ReadVerdictStep, ReapStep DEF PamStep
<1>5. ASSUME NEW a \in Calls,
             (\E v \in Verdicts : HelperSays(a, v)) \/ HelperSaysElse(a) \/ HelperExits(a)
      PROVE  PamInv'
  BY <1>5, HelperSteps
<1>6. ASSUME NEW a \in Calls, PamFailure(a) PROVE PamInv'
  BY <1>6, PollSteps, HostDiesStep DEF PamFailure
<1>7. CASE UNCHANGED pamVars
  <2>1. UNCHANGED brokerVars /\ UNCHANGED <<call, dialog, consented>>
    BY <1>7 DEF pamVars, brokerVars
  <2>2. StoreOK' /\ \A a \in Calls : CheckOK(a)' /\ RecordOK(a)'
    BY <2>1 DEF PamInv, PamOK, StoreOK, CheckOK, Check, RecordOK, RecordOn, Granted, brokerVars
  <2> QED BY <2>1, <2>2, ServedStep
<1> QED
  BY <1>1, <1>2, <1>3, <1>4, <1>5, <1>6, <1>7, BrokerStepKeeps, TickKeeps DEF PamNext

\* The invariant holds in every reachable state.
LEMMA PamInvariant == PamSpec => []PamInv
  BY PamInitInv, PamNextInv, PTL DEF PamSpec

-----------------------------------------------------------------------------
(* What follows                                                            *)

\* What a call sends the broker is a request of the broker's protocol.
LEMMA SendIsConnect ==
    ASSUME PamInv, NEW a \in Calls, SendCheck(a) \/ SendRecord(a)
    PROVE  BrokerNext
<1>1. call[a].stage \in {"asking", "granting"}
  BY DEF SendCheck, SendRecord
<1>2. /\ Undecided(call[a]) /\ call[a].secs > 0 /\ call[a].secs \in Ttls
      /\ call[a].key \in Keys \cup {NoKey}
  BY <1>1, Pending DEF PamInv, PamOK, CallOK, DialogOK, CallTypeOK, CallRecords
<1>3. call[a].key \in Keys
  BY <1>2 DEF Undecided
<1>4. \E c \in Conns, request \in Requests : Connect(c, "root", request)
  <2>1. CASE SendCheck(a)
    BY <1>2, <1>3, <2>1, ConnsApart DEF SendCheck, Requests
  <2>2. CASE SendRecord(a)
    BY <1>3, <2>2, ConnsApart DEF SendRecord, Requests
  <2> QED BY <2>1, <2>2
<1> QED BY <1>4 DEF BrokerNext, Peers

\* Calls are clients of the broker as RememberBroker describes them: whatever
\* they do, the broker behaves as specified, so that all that is proved of it
\* holds of the composition (broker_client.rs).
THEOREM CallsAreClients == PamSpec => BrokerSpec
<1>1. PamInit => BrokerInit
  BY DEF PamInit
<1>2. PamInv /\ [PamNext]_pamVars => [BrokerNext]_brokerVars
  <2> SUFFICES ASSUME PamInv, [PamNext]_pamVars PROVE [BrokerNext]_brokerVars
    OBVIOUS
  <2>1. ASSUME NEW a \in Calls,
               Connecting(a) \/ ReadCheck(a) \/ CheckGivesUp(a) \/ RecordEnds(a)
        PROVE  [BrokerNext]_brokerVars
    <3>1. CASE SendCheck(a) \/ SendRecord(a)
      BY <3>1, SendIsConnect
    <3>2. CASE CheckNotSent(a) \/ ReadCheck(a) \/ CheckGivesUp(a)
      BY <3>2 DEF CheckNotSent, ReadCheck, CheckGivesUp, brokerUnchanged
    <3>3. CASE RecordNotSent(a) \/ RecordEnds(a)
      BY <3>3 DEF RecordNotSent, RecordEnds, brokerUnchanged
    <3> QED BY <2>1, <3>1, <3>2, <3>3 DEF Connecting
  <2>2. ASSUME NEW a \in Calls, Connecting(a) \/ PamStep(a) PROVE [BrokerNext]_brokerVars
    BY <2>1, <2>2 DEF PamStep, SpawnDialog, PollExpires, ReadVerdict, Reap, brokerUnchanged
  <2>3. ASSUME NEW a \in Calls, Bypass(a) \/ PamFailure(a) PROVE UNCHANGED brokerVars
    BY <2>3 DEF Bypass, PamFailure, SpawnFails, PollFails, HostDies, brokerUnchanged
  <2>4. ASSUME NEW a \in Calls, NEW r \in AuthRequests,
               Disabled(a, r) \/ Headless(a, r) \/ PolicyDecides(a, r) \/ Request(a, r)
        PROVE  UNCHANGED brokerVars
    BY <2>4 DEF Disabled, Headless, PolicyDecides, Request, brokerUnchanged
  <2>5. ASSUME NEW a \in Calls,
               (\E v \in Verdicts : HelperSays(a, v)) \/ HelperSaysElse(a) \/ HelperExits(a)
        PROVE  UNCHANGED brokerVars
    BY <2>5 DEF HelperSays, HelperSaysElse, HelperExits, brokerUnchanged
  <2>6. CASE BrokerStep \/ PamTick
    BY <2>6 DEF BrokerStep, PamTick, BrokerNext
  <2>7. CASE UNCHANGED pamVars
    BY <2>7 DEF pamVars, brokerVars
  <2> QED
    BY <2>2, <2>3, <2>4, <2>5, <2>6, <2>7 DEF PamNext
<1> QED
  BY <1>1, <1>2, PamInvariant, PTL DEF PamSpec, BrokerSpec

\* "fresh" is earned, also when the clients are calls.
THEOREM FreshToCallsIsEarned == PamSpec => FreshIsEarned
  BY CallsAreClients, FreshAnswersAreEarned, PTL

\* Every variable of the composition stays in its type, and without an
\* auto-deny timeout the poll has no deadline (helper.rs: parent_poll_timeout).
THEOREM PamTypeCorrect == PamSpec => []PamTypeOK
<1>1. PamInv => PamTypeOK
  <2> SUFFICES ASSUME PamInv PROVE PamTypeOK
    OBVIOUS
  <2>1. BrokerTypeOK /\ consented \subseteq AuthRequests
    BY DEF PamInv, BrokerInv, CallTypeOK
  <2>2. ASSUME NEW a \in Calls
        PROVE  /\ call[a].stage \in Stages
               /\ call[a].req \subseteq AuthRequests
               /\ call[a].key \in Keys \cup {NoKey}
               /\ call[a].secs \in Ttls \cup {0}
               /\ call[a].timeout \in Nat
               /\ call[a].left \in Nat \cup {Unbounded}
               /\ call[a].stage = "polling" /\ call[a].timeout = 0 => call[a].left = Unbounded
               /\ dialog[a].running \in BOOLEAN
    BY DEF PamInv, PamOK, CallOK, CallTypeOK, CallRecords, Dialogs
  <2>3. ASSUME NEW a \in Calls
        PROVE  call[a].req = {} <=> call[a].stage = "idle" \/ call[a].source = "agent"
    <3>1. CallOK(a)
      BY DEF PamInv, PamOK
    <3>2. CASE call[a].stage = "idle"
      BY <3>1, <3>2 DEF CallOK, Idle
    <3>3. CASE call[a].stage # "idle" /\ call[a].source \notin Early
      BY <3>1, <3>3 DEF CallOK, Undecided, Early
    <3>4. CASE call[a].stage # "idle" /\ call[a].source \in Early
      BY <3>1, <3>4 DEF CallOK, Decided
    <3> QED BY <3>2, <3>3, <3>4
  <2> QED BY <2>1, <2>2, <2>3 DEF PamTypeOK
<1> QED BY <1>1, PamInvariant, PTL

\* The module fails closed: whatever breaks, a user gets in only on the
\* agent's approval, on a file that says so, on the broker's own "fresh" or on
\* a line of this call's dialog that begins with ALLOW (lib.rs: sm_authenticate).
THEOREM FailsClosed == PamSpec => []SuccessIsBacked
<1>1. PamInv => SuccessIsBacked
  <2> SUFFICES ASSUME PamInv, NEW a \in Calls, call[a].result = "success"
               PROVE  CASE call[a].source = "remember" ->
                             /\ conn[Check(a)].answer = "fresh"
                             /\ conn[Check(a)].request.key = call[a].key
                        [] call[a].source = "dialog" ->
                             dialog[a].line # <<>> /\ Head(dialog[a].line) = "ALLOW"
                        [] call[a].source = "headless" ->
                             \A r \in call[a].req :
                                 Parses(r.file) /\ r.file.general.headless_action = "allow"
                        [] OTHER -> call[a].source \in {"agent", "policy"}
    BY DEF SuccessIsBacked
  <2>1. CallOK(a) /\ DialogOK(a) /\ CheckOK(a)
    BY DEF PamInv, PamOK
  <2>2. call[a].source \in {"agent", "headless", "policy", "remember", "dialog"}
    BY <2>1 DEF PamInv, CallTypeOK, CallRecords, CallOK, Early
  <2>3. CASE call[a].source = "remember"
    <3>1. conn[Check(a)].answer = "fresh"
      BY <2>1, <2>3 DEF CheckOK
    <3>2. conn[Check(a)] # Closed
      BY <3>1 DEF Closed
    <3> QED BY <2>1, <2>3, <3>1, <3>2 DEF CheckOK
  <2>4. CASE call[a].source = "dialog"
    BY <2>1, <2>4 DEF DialogOK, AllowLines, Overlong
  <2>5. CASE call[a].source = "headless"
    BY <2>1, <2>5 DEF CallOK, Decided, Early
  <2>6. CASE call[a].source \in {"agent", "policy"}
    BY <2>6
  <2> QED BY <2>2, <2>3, <2>4, <2>5, <2>6
<1> QED BY <1>1, PamInvariant, PTL

\* No grant without consent, from the tick to the call it spares a dialog
\* (lib.rs: the record after spawn_dialog; server.rs: dispatch).
THEOREM NoGrantWithoutConsent == PamSpec => []GrantsNeedConsent
<1>1. PamInv => GrantsNeedConsent
  <2> SUFFICES ASSUME PamInv PROVE GrantsNeedConsent
    OBVIOUS
  <2>1. \A k \in Keys : store[k] # Absent => k \in Granted
    BY DEF PamInv, StoreOK
  <2>2. ASSUME NEW c \in Conns, conn[c].request.op = "record"
        PROVE  conn[c].request.key \in Granted
    <3>1. PICK a \in Calls : c = Check(a) \/ c = RecordOn(a)
      BY ConnCases
    <3>2. conn[c] # Closed
      BY <2>2 DEF Closed, NoRequest
    <3> QED BY <2>2, <3>1, <3>2 DEF PamInv, PamOK, CheckOK, RecordOK
  <2>3. ASSUME NEW a \in Calls, call[a].source = "remember", NEW r \in call[a].req
        PROVE  \E q \in consented : Covers(q, r)
    <3>1. CallOK(a) /\ CheckOK(a)
      BY DEF PamInv, PamOK
    <3>2. conn[Check(a)].answer = "fresh"
      BY <2>3, <3>1 DEF CheckOK
    <3>3. conn[Check(a)] # Closed
      BY <3>2 DEF Closed
    <3>4. call[a].key \in Granted /\ call[a].key # NoKey
      BY <3>1, <3>2, <3>3 DEF CheckOK
    <3>5. call[a].source \notin Early /\ call[a].stage # "idle"
      BY <2>3, <3>1 DEF CallOK, Early
    <3>6. r \in AuthRequests /\ call[a].key = RememberKey(r)
      BY <3>1, <3>5 DEF CallOK, Undecided
    <3>7. PICK q \in consented : RememberKey(q) = RememberKey(r)
      BY <3>4, <3>6 DEF Granted
    <3>8. q \in AuthRequests
      BY DEF PamInv, CallTypeOK
    <3> QED BY <3>4, <3>6, <3>7, <3>8, SameKeyCovers
  <2> QED BY <2>1, <2>2, <2>3 DEF GrantsNeedConsent, Granted
<1> QED BY <1>1, PamInvariant, PTL

\* No return path leaves a dialog on the screen (helper.rs: parent_wait).
THEOREM DialogsAreAwaited == PamSpec => []DialogIsAwaited
<1>1. PamInv => DialogIsAwaited
  BY DEF PamInv, PamOK, DialogOK, DialogIsAwaited
<1> QED BY <1>1, PamInvariant, PTL

\* The broker refuses nothing the shim sends it (lib.rs: remember_key).
THEOREM NothingIsRefused == PamSpec => []RecordsAreAccepted
<1>1. PamInv => RecordsAreAccepted
  <2> SUFFICES ASSUME PamInv, NEW c \in Conns, conn[c].request.op # "none"
               PROVE  conn[c].answer # "error" /\ IsBindable(conn[c].request.key)
    BY DEF RecordsAreAccepted
  <2>1. conn[c] # Closed
    BY DEF Closed, NoRequest
  <2>2. PICK a \in Calls : c = Check(a) \/ c = RecordOn(a)
    BY ConnCases
  <2>3. CASE c = Check(a)
    <3>1. /\ conn[c].answer # "error" /\ conn[c].request.key = call[a].key
          /\ call[a].key # NoKey /\ call[a].stage # "idle" /\ call[a].source \notin Early
      BY <2>1, <2>3 DEF PamInv, PamOK, CheckOK
    <3>2. Undecided(call[a])
      BY <3>1 DEF PamInv, PamOK, CallOK
    <3> QED BY <3>1, <3>2, KeyFacts DEF Undecided
  <2>4. CASE c = RecordOn(a)
    <3>1. /\ conn[c].answer # "error" /\ conn[c].request.key \in Granted
          /\ conn[c].request.op = "record"
      BY <2>1, <2>4 DEF PamInv, PamOK, RecordOK
    <3>2. conn[c].request.key \in Keys
      BY <3>1 DEF PamInv, BrokerInv, BrokerTypeOK, Connections, Requests, NoRequest
    <3> QED BY <3>1, <3>2, GrantedBinds DEF PamInv
  <2> QED BY <2>2, <2>3, <2>4
<1> QED BY <1>1, PamInvariant, PTL

\* On every plain command line [policy] is applied to the program the user
\* typed, behind however many options (proc_info.rs: for_pid; lib.rs:
\* check_policy).
THEOREM PolicyIsOnTarget == PamSpec => []PolicySeesTheTarget
<1>1. PamInv => PolicySeesTheTarget
  <2> SUFFICES ASSUME PamInv, NEW a \in Calls, NEW r \in call[a].req, IsPlain(r)
               PROVE  LET named(list) == ~IsRootShell(r) /\ \E e \in list : Names(e, TypedProgram(r))
                      IN  CASE call[a].source = "policy" ->
                                 /\ Parses(r.file)
                                 /\ call[a].result = "success" =>
                                      named(r.file.allow) /\ ~named(r.file.deny)
                                 /\ call[a].result = "auth_err" => named(r.file.deny)
                            [] call[a].source \in {"disabled", "headless"} -> TRUE
                            [] OTHER -> Parses(r.file) => ~named(r.file.deny) /\ ~named(r.file.allow)
    BY DEF PolicySeesTheTarget
  <2> DEFINE named(list) == ~IsRootShell(r) /\ \E e \in list : Names(e, TypedProgram(r))
  <2>1. CallOK(a) /\ r \in AuthRequests
    BY DEF PamInv, PamOK, CallTypeOK, CallRecords
  <2>2. /\ check_policy(r) = "Allow" =>
              Parses(r.file) /\ named(r.file.allow) /\ ~named(r.file.deny)
        /\ check_policy(r) = "Deny" => Parses(r.file) /\ named(r.file.deny)
        /\ check_policy(r) = "Ask" /\ Parses(r.file) =>
              ~named(r.file.deny) /\ ~named(r.file.allow)
    BY <2>1, PolicyFacts
  <2>3. check_policy(r) \in {"Allow", "Deny", "Ask"}
    BY DEF check_policy, decide
  <2> HIDE DEF named
  <2>4. CASE call[a].source = "policy"
    <3>1. /\ check_policy(r) # "Ask"
          /\ call[a].result = IF check_policy(r) = "Allow" THEN "success" ELSE "auth_err"
      BY <2>1, <2>4 DEF CallOK, Decided, Early
    <3>2. /\ Parses(r.file)
          /\ call[a].result = "success" => named(r.file.allow) /\ ~named(r.file.deny)
          /\ call[a].result = "auth_err" => named(r.file.deny)
      BY <2>2, <2>3, <3>1
    <3> QED BY <2>4, <3>2 DEF named
  <2>5. CASE call[a].source \in {"disabled", "headless"}
    BY <2>5
  <2>6. CASE call[a].source \notin {"policy", "disabled", "headless"}
    <3>1. call[a].stage # "idle"
      BY <2>1 DEF CallOK, Idle
    <3>2. call[a].source \notin Early
      BY <2>1, <2>6 DEF CallOK, Decided, Early
    <3>3. check_policy(r) = "Ask"
      BY <2>1, <3>1, <3>2 DEF CallOK, Undecided
    <3>4. Parses(r.file) => ~named(r.file.deny) /\ ~named(r.file.allow)
      BY <2>2, <3>3
    <3> QED BY <2>6, <3>4 DEF named
  <2> QED BY <2>4, <2>5, <2>6
<1> QED BY <1>1, PamInvariant, PTL

\* On a plain command line no shell, interpreter or nested elevation has a key
\* or a window, behind however many options (lib.rs: remember_eligible_command).
THEOREM ShellsAreNeverRemembered == PamSpec => []ShellsAlwaysAsk
<1>1. PamInv => ShellsAlwaysAsk
  <2> SUFFICES ASSUME PamInv, NEW a \in Calls, NEW r \in call[a].req,
                      IsPlain(r), RunsAnything(r)
               PROVE  call[a].key = NoKey /\ call[a].secs = 0
    BY DEF ShellsAlwaysAsk
  <2>1. CallOK(a) /\ r \in AuthRequests /\ call[a].secs \in Nat
    BY BrokerAssumption DEF PamInv, PamOK, CallTypeOK, CallRecords
  <2>2. RememberKey(r) = NoKey
    BY <2>1, ShellsHaveNoKey
  <2>3. CASE call[a].source \in Early
    BY <2>1, <2>3 DEF CallOK, Decided
  <2>4. CASE call[a].source \notin Early
    <3>1. call[a].stage # "idle"
      BY <2>1 DEF CallOK, Idle
    <3>2. call[a].key = NoKey /\ ~(call[a].secs > 0)
      BY <2>1, <2>2, <2>4, <3>1 DEF CallOK, Undecided
    <3> QED BY <2>1, <3>2
  <2> QED BY <2>3, <2>4
<1> QED BY <1>1, PamInvariant, PTL

\* A terminal service has a window only where its file opts it in (lib.rs:
\* for_service).
THEOREM TerminalsOptIn == PamSpec => []TerminalOptsIn
<1>1. PamInv => TerminalOptsIn
  <2> SUFFICES ASSUME PamInv, NEW a \in Calls, NEW r \in call[a].req,
                      call[a].secs > 0 \/ conn[Check(a)].stage # "closed"
               PROVE  OptsIn(r)
    BY DEF TerminalOptsIn, OptsIn
  <2>1. CallOK(a) /\ CheckOK(a)
    BY DEF PamInv, PamOK
  <2>2. CASE conn[Check(a)].stage # "closed"
    BY <2>1, <2>2 DEF CheckOK, Closed
  <2>3. CASE call[a].secs > 0
    <3>1. call[a].stage # "idle" /\ call[a].source \notin Early
      BY <2>1, <2>3 DEF CallOK, Idle, Decided
    <3> QED BY <2>1, <2>3, <3>1 DEF CallOK, Undecided
  <2> QED BY <2>2, <2>3
<1> QED BY <1>1, PamInvariant, PTL
=============================================================================
