------------------------------ MODULE MCSignIn ------------------------------
(* SignIn on small instances. *)
EXTENDS SignIn, FiniteSets, TLC

FirstSecret == CHOOSE k \in Secret : TRUE

\* Two forms and restarts before any session, or two sessions of two users
\* around one form.
FormsOrSessions ==
  \/ /\ \A s \in Sid : row[s] = NoUser
     /\ \A t \in Tab : pc[t] \notin {"resolve_user", "insert"}
  \/ /\ secret = FirstSecret
     /\ \A x \in CsrfToken : drawn[x] \in {Undrawn, FirstSecret}
     /\ Cardinality({x \in CsrfToken : drawn[x] # Undrawn}) <= 1
=============================================================================
