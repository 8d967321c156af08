------------------------------ MODULE RunAgain ------------------------------
(***************************************************************************)
(* What the de-duplicating work queue promises its users, as two sets: the *)
(* keys that must still run and the keys that are running.  Adding a key   *)
(* any number of times before it is taken makes it run once; adding it     *)
(* while it runs makes it run once more; no key runs twice at a time.      *)
(* Only a closed queue forgets.                                            *)
(***************************************************************************)
CONSTANT Keys

VARIABLES pending, running, closed

Init == pending = {} /\ running = {} /\ closed = "no"

Ask(k) == closed = "no" /\ pending' = pending \cup {k} /\ UNCHANGED <<running, closed>>

Run(k) ==
  /\ k \in pending \ running
  /\ pending' = pending \ {k}
  /\ running' = running \cup {k}
  /\ UNCHANGED closed

Finish(k) ==
  /\ k \in running
  /\ running' = running \ {k}
  /\ \/ pending' = pending
     \/ closed = "yes" /\ pending' = pending \ {k}
  /\ UNCHANGED closed

Close == closed' = "yes" /\ UNCHANGED <<pending, running>>

Next == Close \/ \E k \in Keys : Ask(k) \/ Run(k) \/ Finish(k)

Spec == Init /\ [][Next]_<<pending, running, closed>>

=============================================================================
