--------------------------- MODULE RememberBroker ---------------------------
(***************************************************************************)
(* sentinel-broker: the daemon that owns the remember grants of the sudo   *)
(* and su paths (store.rs, server.rs, main.rs), with the keys and messages *)
(* of sentinel-broker-proto.  One thread serves one connection: it checks  *)
(* the peer's credentials, reads one request, dispatches it under the      *)
(* store's mutex and answers.  The store lives in memory only: a crash     *)
(* loses it and drops what was not yet served; systemd restarts the        *)
(* daemon.  Ages are ticks since a grant was recorded.                     *)
(***************************************************************************)
EXTENDS Integers

CONSTANTS
    Conns,         \* connections; each carries one request
    Keys,          \* remember keys: loginuid, sessionid, service and command
    Unset,         \* u32::MAX, the kernel's "no audit session"
    Empty,         \* the empty command
    Ttls,          \* windows a client may ask about
    MaxRemember    \* MAX_REMEMBER

ASSUME BrokerAssumption ==
    /\ \A k \in Keys : k = [loginuid |-> k.loginuid, sessionid |-> k.sessionid,
                            service |-> k.service, command |-> k.command]
    /\ Ttls \subseteq Nat
    /\ MaxRemember \in Nat \ {0}

VARIABLES
    up,          \* the daemon is running
    store,       \* age of each recorded grant, Absent if none
    conn,        \* what is known of each connection
    sinceRecord  \* history: ticks since this incarnation dispatched a record

brokerVars == <<up, store, conn, sinceRecord>>

-----------------------------------------------------------------------------
Absent == -1
Ages == Absent .. MaxRemember

Requests ==
    [op : {"check"}, key : Keys, ttl : Ttls]
        \cup [op : {"record"}, key : Keys]
        \cup {[op |-> "ping"]}

Answers == {"none", "fresh", "stale", "recorded", "error", "pong"}

Peers == {"root", "user"}

NoRequest == [op |-> "none"]
Closed == [stage |-> "closed", peer |-> "root", request |-> NoRequest, answer |-> "none"]

Connections ==
    [stage : {"closed", "open", "answered", "dropped"}, peer : Peers,
     request : Requests \cup {NoRequest}, answer : Answers]

\* The store is indexed by every key; a grant no record made is Absent.
EmptyStore == [k \in Keys |-> Absent]

-----------------------------------------------------------------------------
(* sentinel-broker-proto: RememberKey                                      *)

\* Mutant: only the audit login is looked at.
IsBindableByLogin(k) == k.loginuid # Unset

IsBindable(k) == k.loginuid # Unset /\ k.sessionid # Unset /\ k.command # Empty

-----------------------------------------------------------------------------
(* store.rs                                                                *)

Shorter(a, b) == IF a < b THEN a ELSE b

\* Mutant: a grant is still fresh at the age that ends its window.
IsFreshAtLimit(k, ttl) ==
    /\ ttl > 0
    /\ store[k] # Absent
    /\ store[k] <= Shorter(ttl, MaxRemember)

IsFresh(k, ttl) ==
    /\ ttl > 0
    /\ store[k] # Absent
    /\ store[k] < Shorter(ttl, MaxRemember)

\* Mutant: grants are pruned before they reach the cap.
PruneEarly(k) ==
    store' = [x \in Keys |-> IF x = k THEN 0
                             ELSE IF store[x] + 1 < MaxRemember THEN store[x]
                             ELSE Absent]

\* Prune the grants past the cap, then record or refresh this one.
Record(k) ==
    store' = [x \in Keys |-> IF x = k THEN 0
                             ELSE IF store[x] < MaxRemember THEN store[x]
                             ELSE Absent]

-----------------------------------------------------------------------------
(* server.rs, main.rs                                                      *)

BrokerInit ==
    /\ up = TRUE
    /\ store = EmptyStore
    /\ conn = [c \in Conns |-> Closed]
    /\ sinceRecord = EmptyStore

\* A client connects and sends its request; the listener must be up.
Connect(c, peer, request) ==
    /\ up /\ conn[c].stage = "closed"
    /\ conn' = [conn EXCEPT ![c] = [stage |-> "open", peer |-> peer,
                                    request |-> request, answer |-> "none"]]
    /\ UNCHANGED <<up, store, sinceRecord>>

\* Mutant: the peer is told why before it is turned away.
DropWithError(c) == conn' = [conn EXCEPT ![c].stage = "dropped", ![c].answer = "error"]

\* The connection is closed without a word.
Drop(c) == conn' = [conn EXCEPT ![c].stage = "dropped"]

PeerIsRoot(c) == conn[c].peer = "root"

\* handle: a peer that is not root is turned away before it is read.
RejectPeer(c) ==
    /\ conn[c].stage = "open" /\ ~PeerIsRoot(c)
    /\ Drop(c)
    /\ UNCHANGED <<up, store, sinceRecord>>

\* handle: a framing error, or nothing to read within IO_TIMEOUT.
ReadFails(c) ==
    /\ conn[c].stage = "open" /\ PeerIsRoot(c)
    /\ Drop(c)
    /\ UNCHANGED <<up, store, sinceRecord>>

Answer(c, a) == conn' = [conn EXCEPT ![c].stage = "answered", ![c].answer = a]

Serving(c, op) ==
    conn[c].stage = "open" /\ PeerIsRoot(c) /\ conn[c].request.op = op

DispatchCheck(c) ==
    /\ Serving(c, "check")
    /\ LET q == conn[c].request
       IN  Answer(c, IF IsBindable(q.key) /\ IsFresh(q.key, q.ttl) THEN "fresh" ELSE "stale")
    /\ UNCHANGED <<up, store, sinceRecord>>

DispatchRecord(c) ==
    /\ Serving(c, "record")
    /\ LET k == conn[c].request.key
       IN  IF IsBindable(k)
             THEN /\ Record(k)
                  /\ sinceRecord' = [sinceRecord EXCEPT ![k] = 0]
                  /\ Answer(c, "recorded")
             ELSE /\ Answer(c, "error")
                  /\ UNCHANGED <<store, sinceRecord>>
    /\ UNCHANGED up

DispatchPing(c) ==
    /\ Serving(c, "ping")
    /\ Answer(c, "pong")
    /\ UNCHANGED <<up, store, sinceRecord>>

\* Mutant: the grants outlive the process.
KeepStore == store' = store

LoseStore == store' = EmptyStore

\* The process dies: the store and every connection not yet answered go.
Crash ==
    /\ up
    /\ up' = FALSE
    /\ LoseStore
    /\ sinceRecord' = EmptyStore
    /\ conn' = [c \in Conns |-> IF conn[c].stage = "open"
                                  THEN [conn[c] EXCEPT !.stage = "dropped"] ELSE conn[c]]

\* systemd restarts it with a new listener and an empty store.
Restart ==
    /\ ~up
    /\ up' = TRUE
    /\ UNCHANGED <<store, conn, sinceRecord>>

Older(a) == IF a = Absent \/ a = MaxRemember THEN a ELSE a + 1

BrokerTick ==
    /\ store' = [k \in Keys |-> Older(store[k])]
    /\ sinceRecord' = [k \in Keys |-> Older(sinceRecord[k])]
    /\ UNCHANGED <<up, conn>>

ServeConnection(c) ==
    \/ RejectPeer(c) \/ ReadFails(c)
    \/ DispatchCheck(c) \/ DispatchRecord(c) \/ DispatchPing(c)

BrokerNext ==
    \/ \E c \in Conns :
         \/ ServeConnection(c)
         \/ \E peer \in Peers, request \in Requests : Connect(c, peer, request)
    \/ Crash \/ Restart \/ BrokerTick

BrokerSpec == BrokerInit /\ [][BrokerNext]_brokerVars

-----------------------------------------------------------------------------
(* Properties                                                              *)

\* Every variable stays in its type, and exactly the connections that were
\* served have been answered: a peer that is not root, a broken frame and a
\* crash get no word (server.rs: handle).
BrokerTypeOK ==
    /\ up \in BOOLEAN
    /\ store \in [Keys -> Ages]
    /\ conn \in [Conns -> Connections]
    /\ sinceRecord \in [Keys -> Ages]
    /\ \A c \in Conns : conn[c].answer # "none" <=> conn[c].stage = "answered"

\* The store never holds a grant for a key without a login session or
\* without a command, whatever clients ask for (proto: bind; server.rs:
\* dispatch).
OnlyBoundGrants == \A k \in Keys : store[k] # Absent =>
    k.loginuid # Unset /\ k.sessionid # Unset /\ k.command # Empty

\* "fresh" is answered only to root, only about a bindable key, and only
\* while a record of that very key, dispatched by this incarnation of the
\* daemon, is younger than the window asked about and than MAX_REMEMBER
\* (store.rs: is_fresh, record; server.rs: handle).
FreshIsEarned ==
    [][\A c \in Conns : conn'[c].answer = "fresh" /\ conn[c].answer # "fresh" =>
          LET q   == conn[c].request
              age == sinceRecord[q.key]
          IN  /\ conn[c].peer = "root" /\ IsBindable(q.key)
              /\ age # Absent /\ age < q.ttl /\ age < MaxRemember]_brokerVars

\* A grant is not lost, shortened or extended by anybody else's request: while
\* the daemon runs it only gets older, until a root peer records its own key
\* again, or, when it has reached MAX_REMEMBER, a root peer's record of
\* another key prunes it (store.rs: record; server.rs: handle, dispatch).
GrantsAreKept ==
    [][up' => \A k \in Keys : store'[k] # store[k] =>
          \/ store[k] # Absent /\ store'[k] = store[k] + 1 /\ conn' = conn
          \/ \E c \in Conns :
                /\ conn[c].stage = "open" /\ conn'[c].stage = "answered"
                /\ conn[c].peer = "root" /\ conn[c].request.op = "record"
                /\ IF conn[c].request.key = k
                     THEN store'[k] = 0
                     ELSE store[k] = MaxRemember /\ store'[k] = Absent]_brokerVars
=============================================================================
