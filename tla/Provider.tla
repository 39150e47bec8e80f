------------------------------ MODULE Provider ------------------------------
(***************************************************************************)
(* The provider as the server of a call (Dispatch), as the client whose    *)
(* requests are authenticated (Authentication), as the client whose INVITE *)
(* is answered by several peers (Forking), and the HTTP provider           *)
(* (HttpProvider).  They share no state: the lists of server transactions  *)
(* and dialogs, the authentication contexts, the dialogs of a client       *)
(* transaction, the HTTP channels.  A behaviour is about one of them.      *)
(***************************************************************************)
EXTENDS Dispatch, Authentication, Forking, HttpProvider

VARIABLE role

vars == <<role, dispatchVars, authVars, forkVars, httpVars>>

\* The parts a behaviour is not about have one initial state.
Init ==
    /\ role \in {"UAS", "UAC", "forked", "HTTP"}
    /\ DispatchInit /\ AuthInit /\ ForkInit
    /\ IF role = "HTTP" THEN HttpInit ELSE NoHttp
    /\ role # "UAS" => ~old /\ ~unconditional
    /\ role # "forked" => forks = <<>>
    /\ role # "UAC" => setting = [path |-> {}, realm |-> NoRealm, register |-> FALSE]

Next ==
    \/ role = "UAS" /\ DispatchNext /\ UNCHANGED <<role, authVars, forkVars, httpVars>>
    \/ role = "UAC" /\ AuthNext /\ UNCHANGED <<role, dispatchVars, forkVars, httpVars>>
    \/ role = "forked" /\ ForkNext /\ UNCHANGED <<role, dispatchVars, authVars, httpVars>>
    \/ role = "HTTP" /\ HttpNext /\ UNCHANGED <<role, dispatchVars, authVars, forkVars>>

\* In the other roles no request is sent, and the formulas of AuthFairness hold.
Spec == Init /\ [][Next]_vars /\ AuthFairness
=============================================================================
