-------------------------------- MODULE ConfStore --------------------------------
(***************************************************************************)
(* What the settings promise: values read in memory, values a restart      *)
(* would read from the disk, and which of the first were set by the        *)
(* program and may therefore be written over the second.                   *)
(***************************************************************************)
CONSTANTS Paths, Keys, Values, Missing

VARIABLES
  path,      \* the file in use
  view,      \* what the program reads
  disk,      \* what it would read from each file after a restart
  exists,    \* the files that are there: the values of another one are defaults
  touched,   \* the keys it has set since it read the file
  torn       \* history: the keys it may have lost from the file in a save

vars == <<path, view, disk, exists, touched, torn>>

Store == [Keys -> Values \cup {Missing}]

Init ==
  /\ path \in Paths
  /\ disk \in [Paths -> Store]
  /\ exists \in SUBSET Paths
  /\ view = disk[path]
  /\ touched = {}
  /\ torn = {}

Set(k, v) ==
  /\ touched' = touched \cup {k}
  /\ view' = [view EXCEPT ![k] = v]
  /\ UNCHANGED <<path, disk, exists, torn>>

\* Only in the file in use, and only keys that were set.  In a file that was
\* not there they are all that is there afterwards.
Written ==
  /\ exists' = exists \cup {path}
  /\ \E here \in Store :
       /\ \A k \in touched : here[k] \in {view[k], disk[path][k]}
       /\ \A k \in Keys \ touched : here[k] = IF path \in exists THEN disk[path][k] ELSE Missing
       /\ disk' = [disk EXCEPT ![path] = here]

Save ==
  /\ torn' = torn \ touched
  /\ UNCHANGED <<path, view, touched>>
  /\ Written

\* A save of a key that was set is cut short: any part of the file in use may be
\* lost, and nothing of another one.
Torn ==
  /\ touched # {}
  /\ exists' = exists \cup {path}
  /\ \E here \in Store : disk' = [disk EXCEPT ![path] = here]

SaveCutShort ==
  /\ torn' = Keys
  /\ UNCHANGED <<path, view, touched>>
  /\ Torn

\* Reads a file anew: all that was set and not saved is forgotten.
Open(p) ==
  /\ path' = p
  /\ view' = disk[p]
  /\ touched' = {} /\ torn' = {}
  /\ UNCHANGED <<disk, exists>>

ReloadValue(k) ==
  /\ disk[path][k] # Missing
  /\ touched' = touched \ {k}
  /\ torn' = torn \ {k}
  /\ view' = [view EXCEPT ![k] = disk[path][k]]
  /\ UNCHANGED <<path, disk, exists>>

\* The program ends, with a save or without, or cut off in one, and starts again.
Restart ==
  /\ path' = path
  /\ touched' = {} /\ torn' = {}
  /\ view' = disk'[path]
  /\ UNCHANGED <<disk, exists>> \/ Torn \/ Written

\* Another program changes the file.
ChangeOutside(k) ==
  /\ path \in exists
  /\ UNCHANGED <<path, view, exists, touched, torn>>
  /\ \E v \in Values \cup {Missing} : disk' = [disk EXCEPT ![path][k] = v]

Next ==
  \/ \E k \in Keys, v \in Values : Set(k, v)
  \/ Save
  \/ SaveCutShort
  \/ \E p \in Paths : Open(p)
  \/ \E k \in Keys : ReloadValue(k)
  \/ Restart
  \/ \E k \in Keys : ChangeOutside(k)

Spec == Init /\ [][Next]_vars
=============================================================================
