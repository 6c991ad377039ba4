-------------------------- MODULE PamRequestProofs --------------------------
(***************************************************************************)
(* What pam_sentinel makes of a request, for every request: which words of *)
(* a command line are the command, which program [policy] sees, which keys *)
(* bind and what a tick covers, which services have a window, and when a   *)
(* host without a display lets a user in.  The proofs about the calls      *)
(* (PamSentinelProofs) use these facts and expand none of the operators.   *)
(***************************************************************************)
EXTENDS PamSentinel, WellFoundedInduction, TLAPS

-----------------------------------------------------------------------------
(* Induction over positions, as the choice of an extreme element           *)

\* The order on the naturals that the library proves well founded.
NatOrder == {ss \in Nat \X Nat : ss[1] < ss[2]}

\* A set of naturals that is not empty has a least element.
LEMMA Least ==
    ASSUME NEW T, T \subseteq Nat, T # {}
    PROVE  \E n \in T : \A m \in T : ~(m < n)
<1>1. IsWellFoundedOn(NatOrder, Nat)
  BY NatLessThanWellFounded, Zenon DEF OpToRel, NatOrder
<1>2. PICK x \in T : \A y \in T : ~ (<<y, x>> \in NatOrder)
  BY <1>1, WFMin
<1>3. \A m \in T : m < x => <<m, x>> \in NatOrder
  BY DEF NatOrder
<1> QED BY <1>2, <1>3

\* A bounded set of naturals that is not empty has a greatest element.
LEMMA Greatest ==
    ASSUME NEW n \in Nat, NEW T, T \subseteq 0 .. n, T # {}
    PROVE  \E k \in T : \A m \in T : m <= k
<1> DEFINE S == {j \in Nat : n - j \in T}
<1>1. S # {}
  <2>1. PICK m \in T : TRUE OBVIOUS
  <2>2. n - m \in Nat /\ n - (n - m) = m OBVIOUS
  <2> QED BY <2>1, <2>2
<1>2. S \subseteq Nat OBVIOUS
<1>3. PICK j \in S : \A i \in S : ~(i < j)
  <2> HIDE DEF S
  <2> QED BY <1>1, <1>2, Least
<1>4. j \in Nat /\ n - j \in T BY <1>3
<1>5. ASSUME NEW m \in T PROVE m <= n - j
  <2>1. n - m \in Nat /\ n - (n - m) = m OBVIOUS
  <2>2. n - m \in S BY <2>1
  <2>3. ~(n - m < j) BY <2>2, <1>3
  <2> QED BY <2>1, <2>3, <1>4
<1> QED BY <1>4, <1>5

-----------------------------------------------------------------------------
(* The words of a command line                                             *)

\* The equation of the scan over the options has a solution: built from the
\* last position down.
LEMMA ScanExists ==
  ASSUME NEW W, NEW c \in Seq(W)
  PROVE  \E f : f = [i \in 1 .. Len(c) + 2 |-> IF i <= Len(c) /\ Is(c[i], Options)
                                                THEN f[i + OptionWidth(c[i])] ELSE i]
<1> DEFINE L == Len(c)
           O(i) == Is(c[i], Options)
           w(i) == OptionWidth(c[i])
           IsScan(f, k) == f = [i \in k .. L + 2 |-> IF i <= L /\ O(i) THEN f[i + w(i)] ELSE i]
           Good(k) == \E f : IsScan(f, k)
           Bad == {j \in 1 .. L + 2 : ~Good(j)}
<1>a. L \in Nat /\ \A i \in 1 .. L : w(i) \in {1, 2}
  BY DEF OptionWidth
<1> HIDE DEF L, O, w
<1>0. Bad \subseteq 0 .. L + 2 /\ L + 2 \in Nat BY <1>a
<1>1. SUFFICES ASSUME Bad # {} PROVE FALSE
  <2>1. 1 \notin Bad
    BY <1>1
  <2>2. Good(1)
    BY <1>a, <2>1
  <2> QED BY <2>2, Zenon DEF L, O, w
<1>2. PICK k \in Bad : \A m \in Bad : m <= k
  <2> HIDE DEF Bad
  <2> QED BY <1>0, <1>1, Greatest
<1>3. k \in 1 .. L + 2 /\ ~Good(k)
  BY <1>a, <1>2
<1>4. CASE k = L + 2
  <2>1. IsScan([i \in k .. L + 2 |-> i], k)
    BY <1>a, <1>4
  <2> QED BY <1>a, <1>3, <2>1
<1>5. CASE k < L + 2
  <2>1. k + 1 \in 1 .. L + 2 /\ ~(k + 1 \in Bad)
    BY <1>a, <1>2, <1>3, <1>5
  <2>2. Good(k + 1)
    BY <2>1
  <2>3. PICK g : IsScan(g, k + 1)
    BY <2>2
  <2> DEFINE first == IF k <= L /\ O(k) THEN g[k + w(k)] ELSE k
             h == [i \in k .. L + 2 |-> IF i = k THEN first ELSE g[i]]
  <2>4. \A i \in k + 1 .. L + 2 : h[i] = g[i]
    BY <1>a, <1>3
  <2>5. ASSUME NEW i \in k .. L + 2, i <= L
        PROVE  i + w(i) \in k + 1 .. L + 2
    <3>1. w(i) \in {1, 2} BY <1>a, <1>3, <2>5
    <3> QED BY <1>a, <1>3, <2>5, <3>1
  <2>6. ASSUME NEW i \in k .. L + 2
        PROVE  h[i] = IF i <= L /\ O(i) THEN h[i + w(i)] ELSE i
    <3>1. CASE i = k
      <4>1. h[i] = IF i <= L /\ O(i) THEN g[i + w(i)] ELSE i
        BY <3>1
      <4> QED BY <4>1, <2>4, <2>5
    <3>2. CASE i # k
      <4>1. i \in k + 1 .. L + 2 BY <1>a, <1>3, <3>2
      <4>2. g[i] = IF i <= L /\ O(i) THEN g[i + w(i)] ELSE i
        BY <2>3, <4>1
      <4> HIDE DEF h
      <4> QED BY <4>1, <4>2, <2>4, <2>5
    <3> QED BY <3>1, <3>2
  <2>7. IsScan(h, k)
    BY <2>6
  <2> QED BY <1>a, <1>3, <2>7
<1> QED BY <1>a, <1>3, <1>4, <1>5

\* The scan over the options is the function its equation describes.
LEMMA AfterOptionsFact ==
    ASSUME NEW W, NEW c \in Seq(W), NEW i \in 1 .. Len(c) + 2
    PROVE  AfterOptions(c)[i] = IF i <= Len(c) /\ Is(c[i], Options)
                                  THEN AfterOptions(c)[i + OptionWidth(c[i])] ELSE i
<1> DEFINE L == Len(c)
           f == AfterOptions(c)
<1>1. PICK g : g = [j \in 1 .. L + 2 |-> IF j <= L /\ Is(c[j], Options)
                                           THEN g[j + OptionWidth(c[j])] ELSE j]
  BY ScanExists
<1>2. f = [j \in 1 .. L + 2 |-> IF j <= L /\ Is(c[j], Options)
                                  THEN f[j + OptionWidth(c[j])] ELSE j]
  BY <1>1, Zenon DEF AfterOptions
<1>3. f[i] = IF i <= L /\ Is(c[i], Options) THEN f[i + OptionWidth(c[i])] ELSE i
  <2> HIDE DEF f
  <2> QED BY <1>2
<1> QED BY <1>3, Zenon

\* The words of a request are sequences over one set of words.
LEMMA RequestWords ==
    ASSUME NEW r \in AuthRequests
    PROVE  \E W : r.prefix \in Seq(W) /\ r.target \in Seq(W)
<1> DEFINE A == {r.prefix[i] : i \in DOMAIN r.prefix}
           B == {r.target[i] : i \in DOMAIN r.target}
<1>1. r.prefix \in Seq(A) /\ r.target \in Seq(B)
  BY PamAssumption DEF IsCommandLine
<1> HIDE DEF A, B
<1>2. r.prefix \in Seq(A \cup B) /\ r.target \in Seq(A \cup B)
  BY <1>1
<1> QED BY <1>2

\* Behind an elevation tool and the options of a plain command line comes the
\* command: however many options there are, in whatever order, the scan ends
\* exactly where the tool itself ends its options and takes no option's value
\* for the command; a value missing at the end of the line leaves no command.
\* Plain is what the option table can read: options that are words of their
\* own and that the table and the tool's manual agree on (lib.rs:
\* strip_elevation_prefix).
THEOREM ElevationStripped ==
    ASSUME NEW r \in AuthRequests, r.prefix # <<>>, IsPlain(r)
    PROVE  strip_elevation_prefix(Cmdline(r)) = r.target
<1> DEFINE p == r.prefix
           t == r.target
           tool == process_basename(p[1])
           Valued(word) == word.dir = "" /\ <<tool, word.base>> \in ValueOptions
<1>0. PICK W : p \in Seq(W) /\ t \in Seq(W)
  BY RequestWords
<1>p. /\ p # <<>> /\ process_basename(Head(p)) \in ELEVATION_TOOLS
      /\ t # <<>> => ~Is(Head(t), Options)
  BY PamAssumption DEF IsPlain
<1>s. PICK starts \in SUBSET (2 .. Len(p) + 2) :
         /\ 2 \in starts
         /\ \A i \in starts : i <= Len(p) =>
               /\ Is(p[i], Options)
               /\ Valued(p[i]) <=> Is(p[i], ELEVATION_FLAGS_WITH_VALUE)
               /\ (IF Valued(p[i]) THEN i + 2 ELSE i + 1) \in starts
         /\ Len(p) + 2 \in starts => t = <<>>
  BY DEF IsPlain
<1> HIDE DEF p, t, Valued
<1> DEFINE c == p \o t
           n == Len(p)
           f == AfterOptions(c)
<1>1. /\ c \in Seq(W) /\ n \in Nat \ {0} /\ Len(t) \in Nat /\ Len(c) = n + Len(t)
      /\ \A i \in 1 .. n : c[i] = p[i]
      /\ t # <<>> => c[n + 1] = Head(t) /\ Len(t) > 0
  BY <1>0, <1>p
<1>2. /\ starts \in SUBSET (2 .. n + 2)
      /\ 2 \in starts
      /\ \A i \in starts : i <= n =>
            /\ Is(p[i], Options)
            /\ (IF Is(p[i], ELEVATION_FLAGS_WITH_VALUE) THEN i + 2 ELSE i + 1) \in starts
      /\ n + 2 \in starts => t = <<>>
  BY <1>s
<1> DEFINE Ends(j) == j = n + 1 \/ (j = n + 2 /\ t = <<>>)
           Bad == {i \in starts : ~Ends(f[i])}
<1>3. \A i \in 1 .. Len(c) + 2 :
         f[i] = IF i <= Len(c) /\ Is(c[i], Options) THEN f[i + OptionWidth(c[i])] ELSE i
  BY <1>1, AfterOptionsFact
<1>4. Bad = {}
  <2>0. Bad \subseteq 0 .. n + 2 /\ n + 2 \in Nat
    <3>1. n + 2 \in Nat /\ 2 .. n + 2 \subseteq 0 .. n + 2
      BY <1>1
    <3>2. Bad \subseteq starts
      OBVIOUS
    <3> QED BY <3>1, <3>2
  <2>1. SUFFICES ASSUME Bad # {} PROVE FALSE
    OBVIOUS
  <2>2. PICK i \in Bad : \A m \in Bad : m <= i
    <3> HIDE DEF Bad
    <3> QED BY <2>0, <2>1, Greatest
  <2>3. i \in starts /\ i \in 2 .. n + 2 /\ ~Ends(f[i])
    BY <2>2
  <2>4. CASE i <= n
    <3>1. c[i] = p[i] /\ i <= Len(c) /\ i \in 1 .. Len(c) + 2
      BY <1>1, <2>3, <2>4
    <3>2. PICK j \in starts : j = i + OptionWidth(c[i]) /\ j > i
      BY <1>2, <2>3, <2>4, <3>1 DEF OptionWidth
    <3>3. Is(c[i], Options)
      BY <1>2, <2>3, <2>4, <3>1
    <3>4. f[i] = f[j]
      BY <1>3, <3>1, <3>2, <3>3
    <3>5. j \in Bad
      <4> HIDE DEF f
      <4> QED BY <2>3, <3>4
    <3>6. j <= i /\ j \in 2 .. n + 2
      BY <2>2, <3>5
    <3>7. j > i
      BY <3>2, Zenon
    <3> HIDE DEF c, n, Bad, Ends
    <3>8. i \in Int /\ j \in Int
      BY <1>1, <2>3, <3>6
    <3> QED BY <3>6, <3>7, <3>8
  <2>5. CASE i = n + 1
    <3>1. ~(i <= Len(c) /\ Is(c[i], Options))
      <4>1. CASE t = <<>>
        BY <1>1, <2>5, <4>1
      <4>2. CASE t # <<>>
        BY <1>1, <1>p, <2>5, <4>2
      <4> QED BY <4>1, <4>2
    <3>2. f[i] = i
      BY <1>1, <1>3, <2>5, <3>1
    <3> QED BY <2>3, <2>5, <3>2
  <2>6. CASE i = n + 2
    <3>1. t = <<>> /\ ~(i <= Len(c))
      BY <1>1, <1>2, <2>3, <2>6
    <3>2. f[i] = i
      BY <1>1, <1>3, <2>6, <3>1
    <3> QED BY <2>3, <2>6, <3>1, <3>2
  <2> QED BY <1>1, <2>3, <2>4, <2>5, <2>6
<1>5. Ends(f[2])
  BY <1>2, <1>4
<1>6. strip_elevation_prefix(c) = SubSeq(c, f[2], Len(c))
  <2>1. c # <<>> /\ process_basename(Head(c)) \in ELEVATION_TOOLS
    BY <1>0, <1>1, <1>p
  <2> QED BY <2>1 DEF strip_elevation_prefix
<1>7. ASSUME f[2] = n + 1 PROVE strip_elevation_prefix(c) = t
  BY <1>0, <1>1, <1>6, <1>7
<1>8. ASSUME f[2] = n + 2, t = <<>> PROVE strip_elevation_prefix(c) = t
  BY <1>0, <1>1, <1>6, <1>8
<1>9. strip_elevation_prefix(c) = t
  BY <1>5, <1>7, <1>8
<1> QED BY <1>9 DEF p, t, Cmdline

\* What the module learns of its host: the command to remember is what is
\* left of the line, and so is the command the dialog displays.
LEMMA ProcessFacts ==
    ASSUME NEW r \in AuthRequests
    PROVE  LET stripped == strip_elevation_prefix(Cmdline(r))
           IN  /\ ProcessInfo(r).remember_command = remember_command_for(stripped)
               /\ stripped # <<>> => ProcessInfo(r).cmdline = stripped
<1> DEFINE stripped == strip_elevation_prefix(Cmdline(r))
<1>1. CASE stripped = Cmdline(r)
  <2>1. ProcessInfo(r) = Process(r.exe, stripped, remember_command_for(stripped), {r.exe})
    BY <1>1 DEF ProcessInfo
  <2> QED BY <2>1 DEF Process
<1>2. CASE stripped # Cmdline(r) /\ stripped # <<>>
  <2>1. ProcessInfo(r) = Process(Head(stripped), stripped, remember_command_for(stripped),
                                 {Head(stripped)})
    BY <1>2 DEF ProcessInfo
  <2> QED BY <2>1 DEF Process
<1>3. CASE stripped # Cmdline(r) /\ stripped = <<>>
  <2>1. \E exe, cmdline : ProcessInfo(r) = Process(exe, cmdline, <<>>, {})
    BY <1>3 DEF ProcessInfo, ShellPolicyExe
  <2>2. remember_command_for(stripped) = <<>>
    BY <1>3 DEF remember_command_for, remember_eligible_command
  <2> QED BY <1>3, <2>1, <2>2 DEF Process
<1> QED BY <1>1, <1>2, <1>3

\* Of a plain line the command that will run is left, and [policy] sees the
\* program that was typed or, for a root shell, nothing.
LEMMA PlainFacts ==
    ASSUME NEW r \in AuthRequests, IsPlain(r)
    PROVE  /\ strip_elevation_prefix(Cmdline(r)) = r.target
           /\ ~IsRootShell(r) => ProcessInfo(r).policy_exe = {TypedProgram(r)}
           /\ IsRootShell(r) => ProcessInfo(r).policy_exe = {}
<1>1. PICK W : r.prefix \in Seq(W) /\ r.target \in Seq(W)
  BY RequestWords
<1>2. CASE r.prefix = <<>>
  <2>1. Cmdline(r) = r.target
    BY <1>1, <1>2 DEF Cmdline
  <2>2. r.target # <<>> => process_basename(Head(r.target)) \notin ELEVATION_TOOLS
    BY <1>2, PamAssumption
  <2>3. strip_elevation_prefix(Cmdline(r)) = r.target
    BY <2>1, <2>2 DEF strip_elevation_prefix
  <2>4. ProcessInfo(r) = Process(r.exe, r.target, remember_command_for(r.target), {r.exe})
    BY <2>1, <2>3 DEF ProcessInfo
  <2> QED BY <1>2, <2>3, <2>4 DEF Process, IsRootShell, TypedProgram
<1>3. CASE r.prefix # <<>>
  <2>1. strip_elevation_prefix(Cmdline(r)) = r.target
    BY <1>3, ElevationStripped
  <2>2. Cmdline(r) # r.target
    <3>1. /\ Len(r.prefix \o r.target) = Len(r.prefix) + Len(r.target)
          /\ Len(r.prefix) \in Nat /\ Len(r.target) \in Nat /\ Len(r.prefix) > 0
      BY <1>1, <1>3
    <3>2. \A x, y \in Nat : x > 0 => x + y # y
      OBVIOUS
    <3> QED BY <3>1, <3>2, Zenon DEF Cmdline
  <2>3. CASE r.target # <<>>
    <3>1. ProcessInfo(r) = Process(Head(r.target), r.target, remember_command_for(r.target),
                                   {Head(r.target)})
      BY <2>1, <2>2, <2>3 DEF ProcessInfo
    <3> QED BY <1>3, <2>1, <2>3, <3>1 DEF Process, IsRootShell, TypedProgram
  <2>4. CASE r.target = <<>>
    <3>1. \E exe, cmdline : ProcessInfo(r) = Process(exe, cmdline, <<>>, {})
      BY <2>1, <2>2, <2>4 DEF ProcessInfo, ShellPolicyExe
    <3> QED BY <1>3, <2>1, <2>4, <3>1 DEF Process, IsRootShell
  <2> QED BY <2>3, <2>4
<1> QED BY <1>2, <1>3

-----------------------------------------------------------------------------
(* Keys                                                                    *)

\* A request that has a key has an audit session, and its key binds and is
\* made of the command its dialog displays; of a plain line that is the command
\* that will run, and neither a shell, an interpreter nor another elevation.
LEMMA KeyFacts ==
    ASSUME NEW r \in AuthRequests, RememberKey(r) # NoKey
    PROVE  /\ RememberKey(r) \in Keys /\ IsBindable(RememberKey(r))
           /\ r.loginuid # Unset /\ r.sessionid # Unset
           /\ Command(r) = ProcessInfo(r).cmdline
           /\ IsPlain(r) => ~RunsAnything(r)
           /\ RememberKey(r) =
                [loginuid |-> r.loginuid, sessionid |-> r.sessionid, service |-> r.service,
                 command |-> remember_key_command(Command(r), Config(r).remember_scope)]
<1> DEFINE stripped == strip_elevation_prefix(Cmdline(r))
<1>1. /\ ProcessInfo(r).remember_command = remember_command_for(stripped)
      /\ stripped # <<>> => ProcessInfo(r).cmdline = stripped
      /\ IsPlain(r) => stripped = r.target
  BY ProcessFacts, PlainFacts
<1> HIDE DEF stripped
<1>2. HasAuditSession(r) /\ remember_command_for(stripped) # <<>>
  BY <1>1 DEF RememberKey
<1>3. /\ stripped # <<>> /\ process_basename(Head(stripped)) \notin REMEMBER_INELIGIBLE
      /\ remember_command_for(stripped) = stripped
  BY <1>2 DEF remember_command_for, remember_eligible_command
<1>4. Command(r) = stripped /\ ProcessInfo(r).cmdline = stripped
  BY <1>1, <1>3 DEF Command
<1>5. RememberKey(r) =
        [loginuid |-> r.loginuid, sessionid |-> r.sessionid, service |-> r.service,
         command |-> remember_key_command(Command(r), Config(r).remember_scope)]
  BY <1>1, <1>2, <1>3, <1>4 DEF RememberKey
<1>6. remember_key_command(Command(r), Config(r).remember_scope) # <<>>
  BY <1>3, <1>4 DEF remember_key_command
<1>7. IsBindable(RememberKey(r))
  BY <1>2, <1>5, <1>6, PamAssumption DEF IsBindable, HasAuditSession
<1>8. RememberKey(r) \in Keys
  BY KeysAssumption
<1>9. IsPlain(r) => ~RunsAnything(r)
  BY <1>1, <1>3 DEF RunsAnything
<1> QED
  BY <1>2, <1>4, <1>5, <1>7, <1>8, <1>9 DEF HasAuditSession

\* Two requests with one key: a tick for the first covers the second.
LEMMA SameKeyCovers ==
    ASSUME NEW q \in AuthRequests, NEW r \in AuthRequests,
           RememberKey(q) = RememberKey(r), RememberKey(r) # NoKey
    PROVE  Covers(q, r)
<1> DEFINE qc == remember_key_command(Command(q), Config(q).remember_scope)
           rc == remember_key_command(Command(r), Config(r).remember_scope)
           Key(x, c) == [loginuid |-> x.loginuid, sessionid |-> x.sessionid,
                         service |-> x.service, command |-> c]
<1>1. /\ r.loginuid # Unset /\ r.sessionid # Unset
      /\ Command(q) = ProcessInfo(q).cmdline
      /\ RememberKey(q) = Key(q, qc) /\ RememberKey(r) = Key(r, rc)
  BY KeyFacts
<1>2. <<q.loginuid, q.sessionid, q.service>> = <<r.loginuid, r.sessionid, r.service>> /\ qc = rc
  <2> HIDE DEF qc, rc
  <2>1. Key(q, qc) = Key(r, rc)
    BY <1>1
  <2>2. /\ Key(q, qc).loginuid = q.loginuid /\ Key(r, rc).loginuid = r.loginuid
        /\ Key(q, qc).sessionid = q.sessionid /\ Key(r, rc).sessionid = r.sessionid
        /\ Key(q, qc).service = q.service /\ Key(r, rc).service = r.service
        /\ Key(q, qc).command = qc /\ Key(r, rc).command = rc
    OBVIOUS
  <2> HIDE DEF Key
  <2> QED BY <2>1, <2>2
<1>3. \/ Command(q) = Command(r)
      \/ /\ "program" \in {Config(q).remember_scope, Config(r).remember_scope}
         /\ Head(Command(q)) = Head(Command(r))
  <2>1. CASE Config(q).remember_scope # "program" /\ Config(r).remember_scope # "program"
    BY <1>2, <2>1 DEF remember_key_command
  <2>2. CASE Config(q).remember_scope = "program" \/ Config(r).remember_scope = "program"
    <3>1. /\ Head(<<Head(Command(q))>>) = Head(Command(q))
          /\ Head(<<Head(Command(r))>>) = Head(Command(r))
      OBVIOUS
    <3>2. Head(qc) = Head(Command(q)) /\ Head(rc) = Head(Command(r))
      BY <3>1 DEF remember_key_command
    <3> QED BY <1>2, <2>2, <3>2
  <2> QED BY <2>1, <2>2
<1> QED
  BY <1>1, <1>2, <1>3 DEF Covers

\* On a plain line, root shells, interpreters and nested elevation have no key.
LEMMA ShellsHaveNoKey ==
    ASSUME NEW r \in AuthRequests, IsPlain(r), RunsAnything(r)
    PROVE  RememberKey(r) = NoKey
  BY KeyFacts

-----------------------------------------------------------------------------
(* The configuration and [policy]                                          *)

\* What [policy] decides of a plain line, it decides on the program typed.
LEMMA PolicyFacts ==
    ASSUME NEW r \in AuthRequests, IsPlain(r)
    PROVE  LET named(list) == ~IsRootShell(r) /\ \E e \in list : Names(e, TypedProgram(r))
           IN  /\ check_policy(r) = "Allow" =>
                     Parses(r.file) /\ named(r.file.allow) /\ ~named(r.file.deny)
               /\ check_policy(r) = "Deny" => Parses(r.file) /\ named(r.file.deny)
               /\ check_policy(r) = "Ask" /\ Parses(r.file) =>
                     ~named(r.file.deny) /\ ~named(r.file.allow)
<1> DEFINE named(list) == ~IsRootShell(r) /\ \E e \in list : Names(e, TypedProgram(r))
           doc == load_from(r.file)
<1>1. ASSUME NEW list
      PROVE  list_matches(list, ProcessInfo(r).policy_exe, {}) <=> named(list)
  <2>1. CASE IsRootShell(r)
    BY <2>1, PlainFacts DEF list_matches
  <2>2. CASE ~IsRootShell(r)
    BY <2>2, PlainFacts DEF list_matches
  <2> QED BY <2>1, <2>2
<1>2. Parses(r.file) => doc.allow = r.file.allow /\ doc.deny = r.file.deny
  BY DEF load_from
<1>3. ~Parses(r.file) => doc.allow = {} /\ doc.deny = {}
  BY DEF load_from, Defaults
<1>4. ~named({})
  OBVIOUS
<1>5. check_policy(r) = IF named(doc.deny) THEN "Deny"
                        ELSE IF named(doc.allow) THEN "Allow" ELSE "Ask"
  BY <1>1 DEF check_policy, decide
<1> HIDE DEF named, doc
<1>6. /\ check_policy(r) \in {"Allow", "Deny", "Ask"}
      /\ check_policy(r) = "Allow" =>
            Parses(r.file) /\ named(r.file.allow) /\ ~named(r.file.deny)
      /\ check_policy(r) = "Deny" => Parses(r.file) /\ named(r.file.deny)
      /\ check_policy(r) = "Ask" /\ Parses(r.file) =>
            ~named(r.file.deny) /\ ~named(r.file.allow)
  BY <1>2, <1>3, <1>4, <1>5
<1> QED BY <1>6 DEF named

\* A file's own table overrides the defaults, key by key.
LEMMA OverlayFacts ==
    ASSUME NEW table, NEW defaults, NEW key \in DOMAIN defaults
    PROVE  /\ DOMAIN Overlay(table, defaults) = DOMAIN defaults
           /\ Overlay(table, defaults)[key] =
                IF key \in DOMAIN table THEN table[key] ELSE defaults[key]
  BY DEF Overlay

\* The general section of a loaded file.
LEMMA LoadedGeneral ==
    ASSUME NEW file, IsTable(file.general)
    PROVE  LET general == load_from(file).general
           IN  /\ DOMAIN general = {"enabled", "timeout", "headless_action",
                                    "remember_seconds", "remember_scope"}
               /\ general = [key \in DOMAIN general |-> general[key]]
               /\ general["timeout"] \in Nat
               /\ general["remember_seconds"] \in Ttls
               /\ general["headless_action"] = "allow" =>
                    Parses(file) /\ file.general["headless_action"] = "allow"
<1> DEFINE general == load_from(file).general
           Set == {"enabled", "timeout", "headless_action", "remember_seconds", "remember_scope"}
<1>1. /\ DOMAIN General = Set /\ General["timeout"] = DEFAULT_TIMEOUT
      /\ General["remember_seconds"] = DEFAULT_REMEMBER_SECONDS
      /\ General["headless_action"] = "password"
      /\ General = [key \in Set |-> General[key]]
  BY DEF General
<1>2. CASE Parses(file)
  <2>1. general = Overlay(file.general, General)
    BY <1>2 DEF load_from
  <2>2. general = [key \in Set |-> IF key \in DOMAIN file.general THEN file.general[key]
                                                                ELSE General[key]]
    BY <1>1, <2>1 DEF Overlay
  <2> HIDE DEF general
  <2>3. general["timeout"] \in Nat
    BY <1>1, <2>2, SharedAssumption DEF IsTable
  <2>4. general["remember_seconds"] \in Ttls
    BY <1>1, <2>2, PamAssumption DEF IsTable
  <2>5. general["headless_action"] = "allow" => file.general["headless_action"] = "allow"
    BY <1>1, <2>2
  <2>6. DOMAIN general = Set /\ general = [key \in DOMAIN general |-> general[key]]
    BY <2>2
  <2> QED BY <1>2, <2>3, <2>4, <2>5, <2>6 DEF general
<1>3. CASE ~Parses(file)
  <2>1. general = General
    BY <1>3 DEF load_from, Defaults
  <2> HIDE DEF general
  <2>2. /\ general["timeout"] \in Nat /\ general["remember_seconds"] \in Ttls
        /\ general["headless_action"] # "allow"
    BY <1>1, <2>1, SharedAssumption, PamAssumption
  <2>3. DOMAIN general = Set /\ general = [key \in DOMAIN general |-> general[key]]
    BY <1>1, <2>1
  <2> QED BY <2>2, <2>3 DEF general
<1> QED BY <1>2, <1>3

\* What a service makes of it: its window is one of the file's or the default
\* one, and a terminal service has none unless the file opts it in; without a
\* display the user is let in only where the file says so.
LEMMA ConfigFacts ==
    ASSUME NEW r \in AuthRequests
    PROVE  /\ Config(r).timeout \in Nat
           /\ Config(r).remember_seconds \in Ttls
           /\ Config(r).remember_seconds > 0 =>
                \/ r.service = POLKIT_PAM_SERVICE
                \/ /\ Parses(r.file) /\ r.service \in DOMAIN r.file.services
                   /\ "remember_seconds" \in DOMAIN r.file.services[r.service]
           /\ HeadlessResult(Config(r).headless_action) = "success" =>
                Parses(r.file) /\ r.file.general.headless_action = "allow"
<1> DEFINE doc == load_from(r.file)
           general == doc.general
           Set == {"enabled", "timeout", "headless_action", "remember_seconds", "remember_scope"}
           window == BaseWindow(doc, r.service)
           base == [general EXCEPT !.remember_seconds = window]
           config == Config(r)
<1>1. /\ DOMAIN general = Set
      /\ general = [key \in DOMAIN general |-> general[key]]
      /\ general["timeout"] \in Nat /\ general["remember_seconds"] \in Ttls
      /\ general["headless_action"] = "allow" =>
           Parses(r.file) /\ r.file.general["headless_action"] = "allow"
  BY LoadedGeneral, PamAssumption
<1>2. window \in Ttls /\ (window > 0 => r.service = POLKIT_PAM_SERVICE)
  BY <1>1, PamAssumption, BrokerAssumption DEF BaseWindow
<1>3. config = IF r.service \in DOMAIN doc.services
                 THEN Overlay(doc.services[r.service], base) ELSE base
  BY DEF Config, for_service
<1>4. /\ Parses(r.file) => doc.services = r.file.services
      /\ ~Parses(r.file) => DOMAIN doc.services = {}
  BY DEF load_from, Defaults, NoTable
<1> HIDE DEF doc, general, window, config
<1>5. /\ DOMAIN base = Set /\ base["timeout"] = general["timeout"]
      /\ base["headless_action"] = general["headless_action"]
      /\ base["remember_seconds"] = window
  BY <1>1
<1> HIDE DEF base
<1>6. CASE r.service \in DOMAIN doc.services
  <2> DEFINE table == r.file.services[r.service]
  <2>1. /\ Parses(r.file) /\ r.service \in DOMAIN r.file.services
        /\ config = Overlay(table, base)
    BY <1>3, <1>4, <1>6
  <2>2. IsTable(table) /\ "headless_action" \notin DOMAIN table
    BY <2>1, PamAssumption DEF Parses, ServiceOverrideKeys
  <2> HIDE DEF table
  <2>3. \A key \in Set : config[key] = IF key \in DOMAIN table THEN table[key] ELSE base[key]
    BY <1>5, <2>1, OverlayFacts
  <2>4. config["timeout"] \in Nat
    BY <1>1, <1>5, <2>2, <2>3 DEF IsTable
  <2>5. /\ config["remember_seconds"] \in Ttls
        /\ config["remember_seconds"] > 0 =>
             "remember_seconds" \in DOMAIN table \/ r.service = POLKIT_PAM_SERVICE
    BY <1>2, <1>5, <2>2, <2>3 DEF IsTable
  <2>6. config["headless_action"] = general["headless_action"]
    BY <1>5, <2>2, <2>3
  <2> QED BY <1>1, <2>1, <2>4, <2>5, <2>6 DEF HeadlessResult, config, table
<1>7. CASE r.service \notin DOMAIN doc.services
  <2>1. config = base
    BY <1>3, <1>7
  <2> QED BY <1>1, <1>2, <1>5, <2>1 DEF HeadlessResult, config
<1> QED BY <1>6, <1>7
=============================================================================
