------------------------------- MODULE Runtime -------------------------------
(***************************************************************************)
(* What everything else runs on: the main loop (MainLoop), of one thread,  *)
(* and the object system (ObjectSystem), of several. The main loop uses    *)
(* reference counts and pools as module ObjectHeap has them; memory and    *)
(* heap are the objects of the one and of the other. A behaviour is about  *)
(* one of the two.                                                         *)
(***************************************************************************)
EXTENDS MainLoop, ObjectSystem

VARIABLE part

vars == <<part, loopVars, objectVars>>

Init ==
    /\ part \in {"loop", "objects"} /\ LoopInit /\ ObjectsInit
    /\ part = "objects" => pools = <<>>

Next ==
    \/ part = "loop" /\ LoopNext /\ UNCHANGED <<part, objectVars>>
    \/ part = "objects" /\ ObjectsNext /\ UNCHANGED <<part, loopVars>>

\* In a behaviour about objects the main loop is never started, and no turn is needed.
Spec == Init /\ [][Next]_vars /\ LoopFairness
=============================================================================
