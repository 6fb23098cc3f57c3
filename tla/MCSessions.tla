----------------------------- MODULE MCSessions -----------------------------
(* Sessions, and its refinement of SessionGate, on small instances; the requests
   are interchangeable. *)
EXTENDS SessionsRefine, FiniteSets, TLC

ReqSymmetry == Permutations(Req)

FirstUser == CHOOSE u \in Uid : TRUE

\* One session and the roles of one user, or two sessions of two users who have
\* no roles.
OneSessionOrNoRoles ==
  \/ /\ Cardinality({s \in Sid : row[s] # "absent"}) <= 1
     /\ \A u \in Uid \ {FirstUser} : account[u] = NoRoles
  \/ \A u \in Uid : account[u] \in {NoRoles, NoAccount}
=============================================================================
