--------------------------- MODULE MCPamSentinel ----------------------------
(***************************************************************************)
(* Instances of PamSentinel.  SafetyRequests are requests of two calls     *)
(* that could share, or wrongly share, a grant: the same command under     *)
(* other arguments, scopes, sessions and files.  BroadRequests combine     *)
(* every shape of command line with every file, for one call.  RootShells  *)
(* are written so that a word before the shell is taken for the command.   *)
(***************************************************************************)
EXTENDS PamSentinel, TLC

CONSTANTS a1, a2, uid, other, ses1, ses2

Path(name) == [dir |-> "/usr/bin", base |-> name]

Table(pairs) == [key \in {p[1] : p \in pairs} |-> (CHOOSE p \in pairs : p[1] = key)[2]]

\* A window of w for sudo, with a scope and a timeout.
OptIn(w, scope, timeout) ==
    [remember_seconds |-> w, remember_scope |-> scope, timeout |-> timeout]

File(general, services, allow, deny) ==
    [readable |-> TRUE, general |-> general, services |-> services, allow |-> allow, deny |-> deny]

Broken(file) == [file EXCEPT !.readable = FALSE]

SudoFile(w, scope, timeout) == File(<<>>, [sudo |-> OptIn(w, scope, timeout)], {}, {})

Paru == [exe |-> Path("paru"), cmdline |-> <<Bare("paru"), Bare("-Syu")>>]

Sudo(words, target) ==
    [service |-> "sudo", prefix |-> <<Bare("sudo")>> \o words, target |-> target,
     exe |-> Path("sudo"), parent |-> {Paru}, loginuid |-> uid, sessionid |-> ses1,
     realuid |-> uid, wayland |-> FALSE, displays |-> {uid}, file |-> SudoFile(2, "command", 1)]

AsRoot == <<Bare("-u"), Bare("root")>>
Upgrade == <<Bare("pacman"), Bare("-Syu")>>
Install == <<Bare("pacman"), Bare("-U")>>

-----------------------------------------------------------------------------
(* Two calls                                                               *)

SafetyRequests ==
    LET r == Sudo(AsRoot, Upgrade)
        q == [r EXCEPT !.file = SudoFile(2, "command", 0)]
        lenient == File([headless_action |-> "allow"], <<>>, {}, {})
    IN  {r,
         [q EXCEPT !.target = Install, !.prefix = <<Bare("sudo")>>],
         [q EXCEPT !.target = Install, !.file = SudoFile(2, "program", 0)],
         [q EXCEPT !.sessionid = ses2],
         [q EXCEPT !.sessionid = Unset],
         [q EXCEPT !.displays = {}, !.file = lenient],
         [q EXCEPT !.displays = {}, !.file = Broken(lenient)]}

-----------------------------------------------------------------------------
(* One call                                                                *)

\* Options on their own and with a value, and forms that are not plain: bundles
\* that end in an option with a value, and a variable.
Prefixes ==
    {<<Bare(tool)>> : tool \in {"sudo", "doas"}}
        \cup {<<Path("sudo-rs")>> \o words :
                words \in {<<Bare("-E")>>, AsRoot, <<Bare("-E")>> \o AsRoot, AsRoot \o <<Bare("-i")>>}}
        \cup {<<Bare("sudo")>> \o words :
                words \in {<<Bare("-Eu"), Bare("root")>>, <<Bare("-ER"), Bare("/srv")>>,
                           <<Bare("A=1")>>}}

Targets ==
    {<<>>, Upgrade, <<Path("pacman"), Bare("-Syu")>>, <<Path("bash")>>,
     <<Bare("sudo"), Bare("-u"), Bare("pacman")>>, <<Bare("su")>>,
     <<Bare("systemctl"), Bare("pacman")>>}

Files ==
    LET window == OptIn(2, "command", 1)
        typo == Table({<<"remember_seconds", 2>>, <<"ramdomize", TRUE>>})
        listed == File(<<>>, [sudo |-> window], {Bare("pacman"), Bare("paru"), Path("systemctl")},
                       {Path("pacman"), Bare("root")})
    IN  {File(<<>>, <<>>, {}, {}),
         SudoFile(2, "program", 0),
         listed, Broken(listed),
         File([remember_seconds |-> 2, timeout |-> 0], [su |-> [enabled |-> FALSE]],
              {Bare("bash")}, {Bare("bash"), Bare("paru")}),
         File(<<>>, [sudo |-> typo], {}, {})}

\* What su may be given before the shell it opens.
SuWords == {<<>>, <<Bare("root")>>, <<Bare("-p")>>, <<Bare("-s"), Path("zsh")>>}

\* Elevation tools with and without a command, a host that is none, one whose
\* command line cannot be read, and one with no readable parent.
Shapes ==
    {[Sudo(<<>>, target) EXCEPT !.prefix = prefix] : prefix \in Prefixes, target \in Targets}
        \cup {[Sudo(<<>>, <<>>) EXCEPT !.prefix = <<Bare("su")>> \o words, !.exe = Path("su")] :
                words \in SuWords}
        \cup {[Sudo(<<>>, <<Bare("pacman"), Bare("-Syu")>>) EXCEPT !.prefix = <<>>, !.exe = Path("pacman")],
              [Sudo(<<>>, <<>>) EXCEPT !.prefix = <<>>],
              [Sudo(<<Bare("-u")>>, <<>>) EXCEPT !.parent = {}]}

BroadRequests ==
    {[shape EXCEPT !.file = file] : shape \in Shapes, file \in Files}
        \cup {[Sudo(<<>>, Upgrade) EXCEPT !.service = service, !.file = file] :
                service \in {"su", "polkit-1", "other"}, file \in Files}
        \cup {[Sudo(<<>>, Upgrade) EXCEPT !.loginuid = Unset, !.realuid = u, !.wayland = w,
                                          !.file.general = general] :
                u \in {uid, other}, w \in BOOLEAN, general \in {[headless_action |-> h] : h \in {"allow", "deny", "password"}}}

-----------------------------------------------------------------------------
(* Two root shells                                                         *)

\* `su root`, with a window for su, and `sudo -Eu root bash`.
RootShells ==
    {[Sudo(<<>>, <<>>) EXCEPT !.service = "su", !.prefix = <<Bare("su"), Bare("root")>>,
                              !.exe = Path("su"),
                              !.file = File(<<>>, [su |-> OptIn(2, "command", 1)], {}, {})],
     Sudo(<<Bare("-Eu"), Bare("root")>>, <<Bare("bash")>>)}

-----------------------------------------------------------------------------
\* The keys the requests can lead to; a store over more only costs time.
KeysOfRequests == {RememberKey(r) : r \in AuthRequests} \ {NoKey}

ConnsOfCalls == Calls \X {"check", "record"}

\* TLC evaluates a definition once, but what a constant stands for each time:
\* the constants stand for names of definitions.
TwoCallRequests == SafetyRequests
OneCallRequests == BroadRequests
ShellRequests == RootShells
RequestKeys == KeysOfRequests
CallConns == ConnsOfCalls

NoCommand == <<>>

OptionWords == ELEVATION_FLAGS_WITH_VALUE \cup {"-E", "-i", "-Syu", "-U", "-Eu", "-ER", "-s"}

\* sudo(8), doas(1), pkexec(1), su(1), as far as the words above go: sudo and
\* sudo-rs read the table's options as the table does, and also the end of a
\* bundle; su's -p takes no value, and its -s, unknown to the table, does.
ManualValues ==
    ({"sudo", "sudo-rs"} \X (ELEVATION_FLAGS_WITH_VALUE \cup {"-Eu", "-ER"}))
        \cup {<<"doas", "-u">>, <<"doas", "-C">>, <<"pkexec", "--user">>}
        \cup ({"su"} \X {"-s", "-g", "--group"})

Symmetry == Permutations(Calls)
=============================================================================
