------------------------------ MODULE FileStore ------------------------------
(***************************************************************************)
(* What the file system promises: a file is changed only by writing to it, *)
(* and only while nobody runs it; it lives as long as it has a name or is  *)
(* open; and a crash changes no file that has a name.  Files implements    *)
(* this.                                                                   *)
(***************************************************************************)
EXTENDS Integers, Sequences

CONSTANTS Name, Id, None,
          MaxLength     \* of a file, in sectors

VARIABLES names,        \* names[n]: the file called n, or None
          store,        \* store[i]: the sectors of file i, or None
          running       \* the files being executed

Init ==
  /\ names \in [Name -> Id \cup {None}]
  /\ store \in [Id -> {None} \cup Seq({0, 1})]
  /\ \A i \in Id : store[i] # None <=> \E n \in Name : names[n] = i
  /\ running = {}

Named(f) == {i \in Id : \E n \in Name : f[n] = i}

\* A new file of zeros.
Create(n, i) ==
  /\ names[n] = None /\ store[i] = None
  /\ names' = [names EXCEPT ![n] = i]
  /\ \E k \in 0..MaxLength : store' = [store EXCEPT ![i] = [j \in 1..k |-> 0]]
  /\ UNCHANGED running

Write(i) ==
  /\ store[i] # None /\ i \notin running
  /\ \E j \in DOMAIN store[i], v \in {0, 1} : store' = [store EXCEPT ![i][j] = v]
  /\ UNCHANGED <<names, running>>

Run(i) == store[i] # None /\ running' = running \cup {i} /\ UNCHANGED <<names, store>>

Remove(n) == names' = [names EXCEPT ![n] = None] /\ UNCHANGED <<store, running>>

\* Files nobody holds, and that have no name (left), are gone, as after a close
\* or a crash; files stop being executed.
Forget ==
  /\ names' \in {names} \cup {[names EXCEPT ![n] = None] : n \in Name}
  /\ \A i \in Id : store'[i] \in {store[i], None}
  /\ \A i \in Named(names') : store'[i] = store[i]
  /\ running' \subseteq running

\* A step that changes nothing is a stuttering step.
Next ==
  /\ <<names, store, running>>' # <<names, store, running>>
  /\ \/ \E n \in Name : Remove(n) \/ \E i \in Id : Create(n, i)
     \/ \E i \in Id : Write(i) \/ Run(i)
     \/ Forget

Spec == Init /\ [][Next]_<<names, store, running>>
=============================================================================
