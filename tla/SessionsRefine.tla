--------------------------- MODULE SessionsRefine ---------------------------
(***************************************************************************)
(* The session walk of the code implements SessionGate.  A lookup has seen *)
(* its session open once its last liveness query has passed; a sign-in is  *)
(* no request of the gate, it only opens a session.                        *)
(***************************************************************************)
EXTENDS Sessions

IsLookup(r) == job[r].kind \in {"check", "refresh", "web"}

StatusOf(s) ==
  IF row[s] = "absent" THEN "none"
  ELSE IF row[s] # "live" THEN "ended"
  ELSE IF owner[s] = NoUser THEN "barred" ELSE "open"

\* Where a request that stands at l is in the gate.
PhaseAt(r, l) ==
  IF ~IsLookup(r) THEN "idle"
  ELSE IF l \in {"hit_roles", "hit_set", "db_user", "db_set"}
       THEN (IF job[r].owner = NoUser THEN "asked" ELSE "seen")
  ELSE IF l = "granted" THEN "granted"
  ELSE IF l \in Refusals THEN "refused"
  ELSE IF l = "error" THEN "failed" ELSE "asked"

statusBar == [s \in Sid |-> StatusOf(s)]
phaseBar  == [r \in Req |-> PhaseAt(r, pc[r])]
aboutBar  == [r \in Req |-> IF IsLookup(r) THEN job[r].sid ELSE NoSid]

Gate == INSTANCE SessionGate WITH
          status <- statusBar, phase <- phaseBar, about <- aboutBar

\* Every behaviour of the session walk, without fairness, is one the gate
\* allows: no cache and no interleaving lets a request through otherwise.
SafelyImplementsGate == Gate!Spec

\* Every behaviour of the session walk is one the gate allows, and it answers
\* every lookup that is not dropped.
ImplementsGate == Gate!FairSpec
=============================================================================
