------------------------------ MODULE EachOnce ------------------------------
(***************************************************************************)
(* What an action over a selection promises: when it is over, every item   *)
(* has been tried once, whatever became of the others, and the next one    *)
(* does not start before.                                                  *)
(***************************************************************************)
CONSTANT Items    \* what an action can be about

VARIABLES left,   \* items not tried yet
          tried,  \* items tried
          over    \* nothing is being done

vars == <<left, tried, over>>

Init == left = {} /\ tried = {} /\ over = TRUE

Start(items) == over /\ left' = items /\ tried' = {} /\ over' = FALSE

Try(x) == x \in left /\ left' = left \ {x} /\ tried' = tried \cup {x} /\ UNCHANGED over

End == ~over /\ left = {} /\ over' = TRUE /\ UNCHANGED <<left, tried>>

Next == (\E items \in SUBSET Items : Start(items)) \/ (\E x \in left : Try(x)) \/ End

Spec == Init /\ [][Next]_vars
=============================================================================
