--------------------------- MODULE EmulatorSelection ---------------------------
(***************************************************************************)
(* Which emulator and core a game is launched with: replace_variables of   *)
(* ProcessLauncher, as far as {emulator.name} and {emulator.core} go.      *)
(*                                                                         *)
(* A list is the commonEmulators of a collection, as es_systems gives      *)
(* them: records with name, core, priority and the suffixes the core       *)
(* takes.  The code counts from 0; here indices count from 1 and 0 stands  *)
(* for -1.                                                                 *)
(***************************************************************************)
EXTENDS Integers, Sequences

CONSTANTS
  Unset,        \* a setting that is not in recalbox.conf, an empty name
  Undefined     \* the name and the core that at(-1) of a list has

Supports(e, suffix) == suffix \in e.suffixes

\* Game::getEmulatorName and getEmulatorCore: the first of lowest priority.  Only
\* es_systems gives a collection emulators; the others have an empty list.
Default(list) ==
  LET best == CHOOSE i \in DOMAIN list :
        \A j \in DOMAIN list :
          \/ list[i].priority < list[j].priority
          \/ list[i].priority = list[j].priority /\ i <= j
  IN  IF list = <<>> THEN [name |-> Unset, core |-> Unset] ELSE list[best]

\* getIndexFromEmulatorCore.
IndexFromEmulatorCore(list, pair) ==
  LET there == {i \in DOMAIN list : list[i].name = pair.name /\ list[i].core = pair.core}
  IN  IF there = {} THEN 0 ELSE CHOOSE i \in there : \A j \in there : i <= j

\* getAutoSelectedEmulatorIndex: the best one after each turn of its loop, which
\* compares the index of the best one so far, not its priority, with the
\* priority of the next.
BestAfter(list, suffix) ==
  LET best[i \in 0 .. Len(list)] ==
        IF i = 0 THEN 0
        ELSE IF (best[i - 1] = 0 \/ best[i - 1] > list[i].priority + 1)
                /\ Supports(list[i], suffix)
             THEN i ELSE best[i - 1]
  IN  best

AutoSelectedEmulatorIndex(list, suffix) == BestAfter(list, suffix)[Len(list)]

\* The name and the core are looked up one by one, each only if the command holds
\* its placeholder.  A netplay client takes those of its host; the host's core goes
\* into the command at once, and the autoselection does not know it.
Configured(list, conf, host, command) ==
  [name |-> CASE "emulator.name" \notin command -> Unset
              [] "emulator.name" \in command /\ host # Unset -> host.name
              [] OTHER -> IF conf.name = Unset THEN Default(list).name ELSE conf.name,
   core |-> CASE "emulator.core" \notin command \/ host # Unset -> Unset
              [] OTHER -> IF conf.core = Unset THEN Default(list).core ELSE conf.core]

OutOfRange == [name |-> Undefined, core |-> Undefined]

MutantNotReselected(list, pair, suffix) ==
  IF IndexFromEmulatorCore(list, pair) = 0 THEN OutOfRange ELSE pair

\* The list is asked for the emulator at the index of the pair without a test.
Reselected(list, pair, suffix) ==
  LET i == IndexFromEmulatorCore(list, pair)
      j == AutoSelectedEmulatorIndex(list, suffix)
  IN  CASE i = 0 -> OutOfRange
        [] i # 0 /\ (Supports(list[i], suffix) \/ j = 0) -> pair
        [] OTHER -> [name |-> list[j].name, core |-> list[j].core]

\* The pair a command with placeholders is launched with: where a placeholder is
\* missing nothing takes its place.
Selected(list, conf, host, command, suffix) ==
  LET pair  == Configured(list, conf, host, command)
      taken == IF conf.autoselection THEN Reselected(list, pair, suffix) ELSE pair
  IN  IF taken = OutOfRange THEN OutOfRange
      ELSE [name |-> IF "emulator.name" \in command THEN taken.name ELSE Unset,
            core |-> CASE "emulator.core" \notin command -> Unset
                       [] "emulator.core" \in command /\ host # Unset -> host.core
                       [] OTHER -> taken.core]

(***************************************************************************)
(* What the loop is for, whatever its comparison: some emulator that takes *)
(* the suffix, if there is one.                                            *)
(***************************************************************************)
SelectsSupporting(list, suffix) ==
  LET j == AutoSelectedEmulatorIndex(list, suffix)
  IN  IF \E i \in DOMAIN list : Supports(list[i], suffix)
      THEN j \in DOMAIN list /\ Supports(list[j], suffix)
      ELSE j = 0
=============================================================================
