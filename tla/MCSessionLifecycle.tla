-------------------------- MODULE MCSessionLifecycle --------------------------
(***************************************************************************)
(* Instances of SessionLifecycle for TLC: one session, since sessions      *)
(* share no key, with the wallet requests that race on it.                 *)
(***************************************************************************)
EXTENDS SessionRefinement, TLC

CONSTANTS s1

OneSession == [r \in Posts \cup Gets |-> s1]

\* Requests of one kind differ only in their names.
Symmetry == Permutations(Posts) \cup Permutations(Gets)

\* Every store call that can fail, and a crash of the handler.
AllOps == {"create", "resolve", "load", "mark", "sign", "status", "claim", "persist",
           "rollback", "meta", "deliver", "dispose", "report", "code", "crash"}
=============================================================================
