--------------------------- MODULE SentinelShared ---------------------------
(***************************************************************************)
(* The rules of sentinel-shared that every authentication path applies,    *)
(* as pure operators: the configuration file and its per-service           *)
(* overrides, the [policy] lists, the elevated command behind sudo's       *)
(* command line, what of it a grant binds to, and the verdict line between *)
(* dialog and caller.                                                      *)
(*                                                                         *)
(* A word of a command line is [dir, base]: a directory part ("" for a     *)
(* bare name) and a file name.  A command line is a sequence of words: the *)
(* boundaries of the arguments are gone once /proc's NULs are blanks.  An  *)
(* optional value is a set of at most one element.  A table of a TOML file *)
(* is a function on the keys it sets.                                      *)
(***************************************************************************)
EXTENDS Integers, Sequences

CONSTANTS
    Options,                   \* the words that start with '-', by name
    DEFAULT_TIMEOUT,           \* default_timeout
    DEFAULT_REMEMBER_SECONDS   \* default_remember_seconds

-----------------------------------------------------------------------------
(* Words and command lines                                                 *)

Bare(name) == [dir |-> "", base |-> name]

process_basename(word) == word.base

ELEVATION_TOOLS == {"pkexec", "sudo", "sudo-rs", "su", "doas"}

ELEVATION_FLAGS_WITH_VALUE ==
    {"--user", "-u", "--group", "-g", "--host", "-h", "--chdir", "-D", "--prompt", "-p",
     "--command-timeout", "-T", "--close-from", "-C", "--type", "-t", "--role", "-r",
     "--other-user", "-U", "--chroot", "-R"}

REMEMBER_INELIGIBLE ==
    {"sh", "bash", "dash", "zsh", "fish", "ksh", "tcsh", "csh", "ash", "busybox",
     "python", "python2", "python3", "perl", "ruby", "node", "nodejs", "lua", "php",
     "gdb", "tclsh", "expect",
     "su", "sudo", "sudo-rs", "doas", "pkexec", "run0", "env",
     "vi", "vim", "nvim", "view", "emacs", "nano", "less", "more", "man", "ed",
     "awk", "find"}

ASSUME SharedAssumption ==
    /\ ELEVATION_FLAGS_WITH_VALUE \subseteq Options
    /\ DEFAULT_TIMEOUT \in Nat /\ DEFAULT_REMEMBER_SECONDS \in Nat

Is(word, names) == word.dir = "" /\ word.base \in names

\* Mutant: the value of an option is taken for the command.
SkipOption(word) == 1

\* How many words an option of an elevation tool takes.
OptionWidth(word) == IF Is(word, ELEVATION_FLAGS_WITH_VALUE) THEN 2 ELSE 1

\* Where the options that begin at a word end.
AfterOptions(cmdline) ==
    LET after[i \in 1 .. Len(cmdline) + 2] ==
            IF i <= Len(cmdline) /\ Is(cmdline[i], Options)
              THEN after[i + OptionWidth(cmdline[i])] ELSE i
    IN  after

\* What is left of a command line behind an elevation tool and its options.
strip_elevation_prefix(cmdline) ==
    IF cmdline # <<>> /\ process_basename(Head(cmdline)) \in ELEVATION_TOOLS
      THEN SubSeq(cmdline, AfterOptions(cmdline)[2], Len(cmdline)) ELSE cmdline

remember_eligible_command(command) ==
    command # <<>> /\ process_basename(Head(command)) \notin REMEMBER_INELIGIBLE

\* Mutant: a grant always covers every use of the program.
KeyOnProgram(command, scope) == <<Head(command)>>

remember_key_command(command, scope) ==
    IF scope = "program" THEN <<Head(command)>> ELSE command

-----------------------------------------------------------------------------
(* The configuration                                                       *)

POLKIT_PAM_SERVICE == "polkit-1"

General == [enabled |-> TRUE, timeout |-> DEFAULT_TIMEOUT, headless_action |-> "password",
            remember_seconds |-> DEFAULT_REMEMBER_SECONDS, remember_scope |-> "command"]

ServiceOverrideKeys == {"enabled", "timeout", "randomize", "remember_seconds", "remember_scope"}

NoTable == <<>>

Overlay(table, defaults) ==
    [key \in DOMAIN defaults |-> IF key \in DOMAIN table THEN table[key] ELSE defaults[key]]

Defaults == [general |-> General, services |-> NoTable, allow |-> {}, deny |-> {}]

\* A file parses unless it is missing, unreadable or malformed, or sets a key
\* that no service has.
Parses(file) ==
    /\ file.readable
    /\ \A service \in DOMAIN file.services :
          DOMAIN file.services[service] \subseteq ServiceOverrideKeys

load_from(file) ==
    IF Parses(file)
      THEN [general |-> Overlay(file.general, General), services |-> file.services,
            allow |-> file.allow, deny |-> file.deny]
      ELSE Defaults

\* Mutant: every service inherits the window of the polkit path.
InheritWindow(doc, service) == doc.general.remember_seconds

BaseWindow(doc, service) ==
    IF service = POLKIT_PAM_SERVICE THEN doc.general.remember_seconds ELSE 0

for_service(doc, service) ==
    LET base == [doc.general EXCEPT !.remember_seconds = BaseWindow(doc, service)]
    IN  IF service \in DOMAIN doc.services
          THEN Overlay(doc.services[service], base) ELSE base

-----------------------------------------------------------------------------
(* [policy]                                                                *)

\* A bare name matches a program's basename, a path the whole path.
Names(entry, exe) == IF entry.dir = "" THEN process_basename(exe) = entry.base ELSE entry = exe

list_matches(list, exe, action) ==
    \E entry \in list : entry \in action \/ \E word \in exe : Names(entry, word)

decide(doc, exe, action) ==
    IF list_matches(doc.deny, exe, action) THEN "Deny"
    ELSE IF list_matches(doc.allow, exe, action) THEN "Allow" ELSE "Ask"

-----------------------------------------------------------------------------
(* The verdict line, as the words written to the pipe                      *)

Outcomes == {"ALLOW", "DENY", "TIMEOUT"}
REMEMBER_TOKEN == "REMEMBER"

Verdicts == [outcome : Outcomes, remember : BOOLEAN]

is_allow(outcome) == outcome = "ALLOW"

FormatVerdict(v) ==
    <<v.outcome>> \o IF v.remember /\ is_allow(v.outcome) THEN <<REMEMBER_TOKEN>> ELSE <<>>

\* Anything unrecognised, or nothing at all, is a bare Deny.
ParseVerdict(line) ==
    IF line # <<>> /\ line[1] \in Outcomes
      THEN [outcome |-> line[1], remember |-> \E i \in 2 .. Len(line) : line[i] = REMEMBER_TOKEN]
      ELSE [outcome |-> "DENY", remember |-> FALSE]
=============================================================================
