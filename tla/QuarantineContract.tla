--------------------------- MODULE QuarantineContract ---------------------------
(***************************************************************************)
(* What a writer of quarantined records promises: a record it has taken    *)
(* waits, in order, until it is known to be in the table, and none is lost *)
(* or given up; records get to the table in that order, each once, unless  *)
(* a writing of it was in doubt and is done again; and a record that was   *)
(* acknowledged is there. The specification says nothing of threads, locks,*)
(* batches, copies of the buffer or attempts.                              *)
(***************************************************************************)
EXTENDS SequencesExt, Naturals

CONSTANT Record

VARIABLES table,   \* what is durable
          waiting, \* what was taken and is not known to be durable
          told,    \* what callers were told is durable
          doubted  \* what is durable of writings that were in doubt

vars == <<table, waiting, told, doubted>>

Init == table = << >> /\ waiting = << >> /\ told = {} /\ doubted = {}

Take ==
  /\ \E r \in Record \ ToSet(table \o waiting) : waiting' = Append(waiting, r)
  /\ UNCHANGED <<table, told, doubted>>

(* Those that waited longest become durable together.                      *)
Persist ==
  /\ \E n \in 1..Len(waiting) :
       /\ table' = table \o SubSeq(waiting, 1, n)
       /\ waiting' = SubSeq(waiting, n + 1, Len(waiting))
  /\ UNCHANGED <<told, doubted>>

(* The same without the writer's knowing: they wait on.                    *)
PersistInDoubt ==
  /\ \E n \in 1..Len(waiting) :
       /\ table' = table \o SubSeq(waiting, 1, n)
       /\ doubted' = doubted \cup ToSet(SubSeq(waiting, 1, n))
  /\ UNCHANGED <<waiting, told>>

Tell ==
  /\ told \subseteq told' /\ told' \subseteq ToSet(table)
  /\ UNCHANGED <<table, waiting, doubted>>

Next == Take \/ Persist \/ PersistInDoubt \/ Tell

Spec == Init /\ [][Next]_vars

===============================================================================
