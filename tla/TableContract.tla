----------------------------- MODULE TableContract -----------------------------
(***************************************************************************)
(* What a lakehouse table promises those who read it, now or by time       *)
(* travel to a version it has kept: an append adds a row of its own, and   *)
(* nothing else changes what the table holds. Compaction cannot be seen    *)
(* at all, and expiry only takes versions away, never the current one.     *)
(* The specification says nothing of files, snapshots, attempts or clocks. *)
(***************************************************************************)
CONSTANT Row

VARIABLES rows,    \* what a query of the table returns
          versions \* what it may still be asked to have held

vars == <<rows, versions>>

Init == rows = {} /\ versions = {{}}

Append ==
  \E r \in Row \ rows :
    /\ rows' = rows \cup {r}
    /\ versions' = versions \cup {rows'}

Expire ==
  /\ versions' \subseteq versions /\ rows \in versions'
  /\ UNCHANGED rows

Next == Append \/ Expire

Spec == Init /\ [][Next]_vars

===============================================================================
