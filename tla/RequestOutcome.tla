--------------------------- MODULE RequestOutcome ---------------------------
(***************************************************************************)
(* What a client transaction promises the application that sends a         *)
(* request: at most one outcome, none after the end, and an end that is    *)
(* final. A failure (timeout or I/O error) is reported with the end; a     *)
(* final response may come before it.                                      *)
(***************************************************************************)
VARIABLES
    over,      \* the transaction is terminated
    outcome    \* the set of outcomes reported so far

outcomeVars == <<over, outcome>>

Init == over = FALSE /\ outcome = {}

Answer ==
    /\ ~over
    /\ outcome = {}
    /\ outcome' = {"final"}
    /\ over' \in BOOLEAN

Fail ==
    /\ ~over
    /\ outcome = {}
    /\ outcome' \in {{"timeout"}, {"io_error"}}
    /\ over' = TRUE

End ==
    /\ ~over
    /\ over' = TRUE
    /\ UNCHANGED outcome

Next == Answer \/ Fail \/ End

Spec == Init /\ [][Next]_outcomeVars
=============================================================================
