------------------------ MODULE RememberBrokerProofs ------------------------
(***************************************************************************)
(* Proofs about sentinel-broker, for any number of connections and keys,   *)
(* any windows and any cap.  The inductive invariant ties the store to the *)
(* history: a grant that is held was recorded, by this incarnation of the  *)
(* daemon, exactly as long ago as its age says, and is for a key that      *)
(* binds.                                                                  *)
(***************************************************************************)
EXTENDS RememberBroker, TLAPS

\* What the store holds was recorded, is as old as it says, and binds.
StoreIsEarned ==
    \A k \in Keys : store[k] # Absent => store[k] = sinceRecord[k] /\ IsBindable(k)

BrokerInv == BrokerTypeOK /\ StoreIsEarned

\* Fields of a connection that are changed one at a time keep its type.
LEMMA ConnectionUpdate ==
    ASSUME NEW f \in [Conns -> Connections], NEW c \in Conns,
           NEW s \in {"closed", "open", "answered", "dropped"}, NEW a \in Answers
    PROVE  /\ [f EXCEPT ![c].stage = s] \in [Conns -> Connections]
           /\ [f EXCEPT ![c].stage = s, ![c].answer = a] \in [Conns -> Connections]
  BY DEF Connections

\* A connection that is open has no answer yet; giving it one, or closing it
\* without, keeps its type and keeps answers to those that were served.
LEMMA AnswerType ==
    ASSUME BrokerTypeOK, NEW c \in Conns, conn[c].stage = "open",
           \/ Drop(c)
           \/ \E a \in Answers \ {"none"} : Answer(c, a)
    PROVE  /\ conn' \in [Conns -> Connections]
           /\ \A d \in Conns : conn'[d].answer # "none" <=> conn'[d].stage = "answered"
<1>1. conn \in [Conns -> Connections] /\ conn[c].answer = "none"
  BY DEF BrokerTypeOK
<1>2. CASE Drop(c)
  <2>1. conn' \in [Conns -> Connections]
    BY <1>1, <1>2, ConnectionUpdate DEF Drop, Answers
  <2>2. conn'[c].answer = "none" /\ conn'[c].stage = "dropped"
    BY <1>1, <1>2 DEF Drop, Connections
  <2>3. \A d \in Conns \ {c} : conn'[d] = conn[d]
    BY <1>1, <1>2 DEF Drop
  <2> QED
    BY <2>1, <2>2, <2>3 DEF BrokerTypeOK
<1>3. CASE \E a \in Answers \ {"none"} : Answer(c, a)
  <2>1. PICK a \in Answers \ {"none"} : Answer(c, a)
    BY <1>3
  <2>2. conn' \in [Conns -> Connections]
    BY <1>1, <2>1, ConnectionUpdate DEF Answer
  <2>3. conn'[c].answer = a /\ conn'[c].stage = "answered"
    BY <1>1, <2>1 DEF Answer, Connections
  <2>4. \A d \in Conns \ {c} : conn'[d] = conn[d]
    BY <1>1, <2>1 DEF Answer
  <2> QED
    BY <2>2, <2>3, <2>4 DEF BrokerTypeOK
<1> QED
  BY <1>2, <1>3

\* Ages stay in their range as time passes.
LEMMA OlderType ==
    ASSUME NEW a \in Ages
    PROVE  Older(a) \in Ages
  BY BrokerAssumption DEF Older, Ages, Absent

\* The daemon starts with an empty store and no connection.
LEMMA BrokerInitInv == BrokerInit => BrokerInv
<1> SUFFICES ASSUME BrokerInit PROVE BrokerInv
  OBVIOUS
<1>1. EmptyStore \in [Keys -> Ages]
  BY BrokerAssumption DEF EmptyStore, Ages, Absent
<1>2. Closed \in Connections
  BY DEF Closed, Connections, Peers, Answers, NoRequest
<1>3. BrokerTypeOK
  BY <1>1, <1>2 DEF BrokerInit, BrokerTypeOK, Closed
<1>4. StoreIsEarned
  BY DEF BrokerInit, StoreIsEarned, EmptyStore
<1> QED
  BY <1>3, <1>4 DEF BrokerInv

\* Each step of the daemon and of its clients keeps the invariant.
LEMMA BrokerNextInv == BrokerInv /\ [BrokerNext]_brokerVars => BrokerInv'
<1> SUFFICES ASSUME BrokerInv, [BrokerNext]_brokerVars PROVE BrokerInv'
  OBVIOUS
<1> USE DEF BrokerInv
<1>1. ASSUME NEW c \in Conns, NEW peer \in Peers, NEW request \in Requests,
             Connect(c, peer, request)
      PROVE  BrokerInv'
  <2>1. [stage |-> "open", peer |-> peer, request |-> request, answer |-> "none"]
          \in Connections
    BY DEF Connections, Answers
  <2>2. BrokerTypeOK'
    BY <1>1, <2>1 DEF Connect, BrokerTypeOK
  <2>3. StoreIsEarned'
    BY <1>1 DEF Connect, StoreIsEarned
  <2> QED BY <2>2, <2>3
<1>2. ASSUME NEW c \in Conns, RejectPeer(c) \/ ReadFails(c) PROVE BrokerInv'
  <2>1. conn[c].stage = "open" /\ Drop(c) /\ UNCHANGED <<up, store, sinceRecord>>
    BY <1>2 DEF RejectPeer, ReadFails
  <2>2. BrokerTypeOK'
    BY <2>1, AnswerType DEF BrokerTypeOK
  <2>3. StoreIsEarned'
    BY <2>1 DEF StoreIsEarned
  <2> QED BY <2>2, <2>3
<1>3. ASSUME NEW c \in Conns, DispatchCheck(c) \/ DispatchPing(c) PROVE BrokerInv'
  <2>1. conn[c].stage = "open" /\ \E a \in Answers \ {"none"} : Answer(c, a)
    BY <1>3 DEF DispatchCheck, DispatchPing, Answers, Serving
  <2>2. UNCHANGED <<up, store, sinceRecord>>
    BY <1>3 DEF DispatchCheck, DispatchPing
  <2>3. BrokerTypeOK'
    BY <2>1, <2>2, AnswerType DEF BrokerTypeOK
  <2>4. StoreIsEarned'
    BY <2>2 DEF StoreIsEarned
  <2> QED BY <2>3, <2>4
<1>4. ASSUME NEW c \in Conns, DispatchRecord(c) PROVE BrokerInv'
  <2> DEFINE k == conn[c].request.key
  <2>1. conn[c].stage = "open" /\ \E a \in Answers \ {"none"} : Answer(c, a)
    BY <1>4 DEF DispatchRecord, Answers, Serving
  <2>2. /\ conn' \in [Conns -> Connections]
        /\ \A d \in Conns : conn'[d].answer # "none" <=> conn'[d].stage = "answered"
    BY <2>1, AnswerType
  <2>3. k \in Keys
    BY <1>4 DEF DispatchRecord, Serving, BrokerTypeOK, Connections, Requests, NoRequest
  <2>4. CASE IsBindable(k)
    <3>1. Record(k) /\ sinceRecord' = [sinceRecord EXCEPT ![k] = 0] /\ up' = up
      BY <1>4, <2>4 DEF DispatchRecord
    <3>2. BrokerTypeOK'
      BY <2>2, <2>3, <3>1, BrokerAssumption DEF Record, BrokerTypeOK, Ages, Absent
    <3>3. StoreIsEarned'
      BY <2>3, <2>4, <3>1 DEF Record, StoreIsEarned, BrokerTypeOK, IsBindable
    <3> QED BY <3>2, <3>3
  <2>5. CASE ~IsBindable(k)
    <3>1. UNCHANGED <<up, store, sinceRecord>>
      BY <1>4, <2>5 DEF DispatchRecord
    <3> QED
      BY <2>2, <3>1 DEF StoreIsEarned, BrokerTypeOK
  <2> QED BY <2>4, <2>5
<1>5. CASE Crash
  <2>1. \A c \in Conns : [conn[c] EXCEPT !.stage = "dropped"] \in Connections
    BY DEF BrokerTypeOK, Connections
  <2>2. EmptyStore \in [Keys -> Ages]
    BY BrokerAssumption DEF EmptyStore, Ages, Absent
  <2>3. BrokerTypeOK'
    BY <1>5, <2>1, <2>2 DEF Crash, LoseStore, BrokerTypeOK, Connections
  <2>4. StoreIsEarned'
    BY <1>5 DEF Crash, LoseStore, StoreIsEarned, EmptyStore
  <2> QED BY <2>3, <2>4
<1>6. CASE Restart
  BY <1>6 DEF Restart, BrokerTypeOK, StoreIsEarned
<1>7. CASE BrokerTick
  <2>1. BrokerTypeOK'
    BY <1>7, OlderType DEF BrokerTick, BrokerTypeOK
  <2>2. StoreIsEarned'
    BY <1>7, BrokerAssumption DEF BrokerTick, BrokerTypeOK, StoreIsEarned, Older, Ages, Absent, IsBindable
  <2> QED BY <2>1, <2>2
<1>8. CASE UNCHANGED brokerVars
  BY <1>8 DEF brokerVars, BrokerTypeOK, StoreIsEarned
<1> QED
  BY <1>1, <1>2, <1>3, <1>4, <1>5, <1>6, <1>7, <1>8 DEF BrokerNext, ServeConnection

\* The invariant holds in every reachable state.
LEMMA BrokerInvariant == BrokerSpec => []BrokerInv
  BY BrokerInitInv, BrokerNextInv, PTL DEF BrokerSpec

\* The daemon is type correct, and exactly the served connections were
\* answered (server.rs: handle).
THEOREM BrokerTypeCorrect == BrokerSpec => []BrokerTypeOK
  BY BrokerInvariant, PTL DEF BrokerInv

\* Whatever clients ask for, no grant is ever held for a key without an
\* audit session or without a command (server.rs: dispatch).
THEOREM GrantsAreBound == BrokerSpec => []OnlyBoundGrants
<1>1. BrokerInv => OnlyBoundGrants
  BY DEF BrokerInv, StoreIsEarned, OnlyBoundGrants, IsBindable
<1> QED
  BY <1>1, BrokerInvariant, PTL

\* What a step of the running daemon may do to a grant.
LEMMA KeepStep ==
    ASSUME BrokerInv, [BrokerNext]_brokerVars, up', NEW k \in Keys, store'[k] # store[k]
    PROVE  \/ store[k] # Absent /\ store'[k] = store[k] + 1 /\ conn' = conn
           \/ \E c \in Conns :
                 /\ conn[c].stage = "open" /\ conn'[c].stage = "answered"
                 /\ conn[c].peer = "root" /\ conn[c].request.op = "record"
                 /\ IF conn[c].request.key = k
                      THEN store'[k] = 0
                      ELSE store[k] = MaxRemember /\ store'[k] = Absent
<1>1. CASE \E c \in Conns : DispatchRecord(c)
  <2>1. PICK c \in Conns : DispatchRecord(c)
    BY <1>1
  <2>2. IsBindable(conn[c].request.key) /\ Record(conn[c].request.key) /\ Answer(c, "recorded")
    BY <2>1 DEF DispatchRecord
  <2>3. store[k] \in Ages /\ MaxRemember \in Nat
    BY BrokerAssumption DEF BrokerInv, BrokerTypeOK
  <2>4. conn'[c].stage = "answered"
    BY <2>2 DEF Answer, BrokerInv, BrokerTypeOK, Connections
  <2>5. CASE conn[c].request.key = k
    <3>1. store'[k] = 0
      BY <2>2, <2>5 DEF Record
    <3> QED
      BY <2>1, <2>4, <2>5, <3>1 DEF DispatchRecord, Serving, PeerIsRoot
  <2>6. CASE conn[c].request.key # k
    <3>1. ~(store[k] < MaxRemember) /\ store'[k] = Absent
      BY <2>2, <2>6 DEF Record
    <3>2. store[k] = MaxRemember
      BY <2>3, <3>1 DEF Ages, Absent
    <3> QED
      BY <2>1, <2>4, <2>6, <3>1, <3>2 DEF DispatchRecord, Serving, PeerIsRoot
  <2> QED
    BY <2>5, <2>6
<1>2. CASE BrokerTick
  BY <1>2, BrokerAssumption DEF BrokerTick, Older, BrokerInv, BrokerTypeOK, Ages, Absent
<1>3. CASE Crash
  BY <1>3 DEF Crash
<1>4. CASE UNCHANGED store
  BY <1>4
<1> QED
  BY <1>1, <1>2, <1>3, <1>4
  DEF BrokerNext, ServeConnection, RejectPeer, ReadFails, DispatchCheck, DispatchPing,
      Connect, Restart, brokerVars

\* While the daemon runs a grant only ages, is recorded again by root, or is
\* pruned at the cap; no other request touches it (store.rs: record).
THEOREM GrantsAreOnlyAged == BrokerSpec => GrantsAreKept
<1>1. BrokerInv /\ [BrokerNext]_brokerVars =>
        [up' => \A k \in Keys : store'[k] # store[k] =>
          \/ store[k] # Absent /\ store'[k] = store[k] + 1 /\ conn' = conn
          \/ \E c \in Conns :
                /\ conn[c].stage = "open" /\ conn'[c].stage = "answered"
                /\ conn[c].peer = "root" /\ conn[c].request.op = "record"
                /\ IF conn[c].request.key = k
                     THEN store'[k] = 0
                     ELSE store[k] = MaxRemember /\ store'[k] = Absent]_brokerVars
  BY KeepStep
<1> QED
  BY <1>1, BrokerInvariant, PTL DEF BrokerSpec, GrantsAreKept

\* A connection comes to be answered "fresh" only by a check of a held,
\* young enough grant.
LEMMA FreshStep ==
    ASSUME BrokerInv, [BrokerNext]_brokerVars, NEW c \in Conns,
           conn'[c].answer = "fresh", conn[c].answer # "fresh"
    PROVE  LET q   == conn[c].request
               age == sinceRecord[q.key]
           IN  /\ conn[c].peer = "root" /\ IsBindable(q.key)
               /\ age # Absent /\ age < q.ttl /\ age < MaxRemember
<1> DEFINE q == conn[c].request
<1> USE DEF BrokerInv
<1>1. CASE DispatchCheck(c)
  <2>1. q.key \in Keys /\ q.ttl \in Nat
    BY <1>1, BrokerAssumption
    DEF DispatchCheck, Serving, BrokerTypeOK, Connections, Requests, NoRequest
  <2>2. IsBindable(q.key) /\ IsFresh(q.key, q.ttl)
    BY <1>1 DEF DispatchCheck, Answer, BrokerTypeOK, Connections
  <2>3. store[q.key] = sinceRecord[q.key] /\ store[q.key] \in Ages
    BY <2>1, <2>2 DEF IsFresh, StoreIsEarned, BrokerTypeOK
  <2>4. sinceRecord[q.key] # Absent /\ sinceRecord[q.key] < q.ttl
          /\ sinceRecord[q.key] < MaxRemember
    BY <2>1, <2>2, <2>3, BrokerAssumption DEF IsFresh, Shorter, Ages, Absent
  <2> QED
    BY <1>1, <2>2, <2>4 DEF DispatchCheck, Serving, PeerIsRoot
<1>2. ASSUME NEW d \in Conns, DispatchCheck(d), d # c PROVE FALSE
  BY <1>2 DEF DispatchCheck, Answer, BrokerTypeOK
<1>3. ASSUME NEW d \in Conns, DispatchRecord(d) \/ DispatchPing(d) PROVE FALSE
  BY <1>3 DEF DispatchRecord, DispatchPing, Answer, BrokerTypeOK, Connections
<1>4. ASSUME NEW d \in Conns, RejectPeer(d) \/ ReadFails(d) PROVE FALSE
  BY <1>4 DEF RejectPeer, ReadFails, Drop, BrokerTypeOK, Connections
<1>5. ASSUME NEW d \in Conns, NEW peer \in Peers, NEW request \in Requests,
             Connect(d, peer, request)
      PROVE  FALSE
  BY <1>5 DEF Connect, BrokerTypeOK, Connections
<1>6. CASE Crash
  BY <1>6 DEF Crash, BrokerTypeOK, Connections
<1>7. CASE UNCHANGED conn
  BY <1>7
<1> QED
  BY <1>1, <1>2, <1>3, <1>4, <1>5, <1>6, <1>7
  DEF BrokerNext, ServeConnection, Restart, BrokerTick, brokerVars

\* "fresh" is only ever said to root, about a bindable key this incarnation recorded
\* less than the window asked about, and than MAX_REMEMBER, ago.
THEOREM FreshAnswersAreEarned == BrokerSpec => FreshIsEarned
<1>1. BrokerInv /\ [BrokerNext]_brokerVars =>
        [\A c \in Conns : conn'[c].answer = "fresh" /\ conn[c].answer # "fresh" =>
          LET q   == conn[c].request
              age == sinceRecord[q.key]
          IN  /\ conn[c].peer = "root" /\ IsBindable(q.key)
              /\ age # Absent /\ age < q.ttl /\ age < MaxRemember]_brokerVars
  BY FreshStep
<1> QED
  BY <1>1, BrokerInvariant, PTL DEF BrokerSpec, FreshIsEarned
=============================================================================
