----------------------------- MODULE SessionGate -----------------------------
(***************************************************************************)
(* What authrust promises about sessions, with no cache, no roles and no   *)
(* queries: a request asks for a session, at one instant sees it open, and *)
(* only then may be granted; a refusal is given only while the session is  *)
(* not open.  A session that was opened without a user is barred: it never *)
(* lets a request through.                                                 *)
(***************************************************************************)
CONSTANTS Sid, Req, NoSid

VARIABLES
  status,   \* [Sid -> Status]
  phase,    \* [Req -> Phase]
  about     \* [Req -> the session asked for]

vars == <<status, phase, about>>

Status  == {"none", "open", "barred", "ended"}
Pending == {"asked", "seen"}
Answer  == {"granted", "refused", "failed"}
Phase   == {"idle"} \cup Pending \cup Answer

Init ==
  /\ status = [s \in Sid |-> "none"]
  /\ phase  = [r \in Req |-> "idle"]
  /\ about  = [r \in Req |-> NoSid]

Open(s) ==
  /\ status[s] = "none"
  /\ \E new \in {"open", "barred"} : status' = [status EXCEPT ![s] = new]
  /\ UNCHANGED <<phase, about>>

\* Logout, expiry, deletion: any number of sessions end for good.
End(S) ==
  /\ \A s \in S : status[s] # "none"
  /\ status' = [s \in Sid |-> IF s \in S THEN "ended" ELSE status[s]]
  /\ UNCHANGED <<phase, about>>

Ask(r) ==
  /\ phase[r] = "idle"
  /\ \E s \in Sid : status[s] # "none" /\ about' = [about EXCEPT ![r] = s]
  /\ phase' = [phase EXCEPT ![r] = "asked"]
  /\ UNCHANGED status

See(r) ==
  /\ phase[r] = "asked"
  /\ status[about[r]] = "open"
  /\ phase' = [phase EXCEPT ![r] = "seen"]
  /\ UNCHANGED <<status, about>>

Grant(r) ==
  /\ phase[r] = "seen"
  /\ phase' = [phase EXCEPT ![r] = "granted"]
  /\ UNCHANGED <<status, about>>

Refuse(r) ==
  /\ phase[r] \in Pending
  /\ status[about[r]] # "open"
  /\ phase' = [phase EXCEPT ![r] = "refused"]
  /\ UNCHANGED <<status, about>>

Fail(r) ==
  /\ phase[r] \in Pending
  /\ phase' = [phase EXCEPT ![r] = "failed"]
  /\ UNCHANGED <<status, about>>

Leave(r) ==
  /\ phase[r] # "idle"
  /\ phase' = [phase EXCEPT ![r] = "idle"]
  /\ about' = [about EXCEPT ![r] = NoSid]
  /\ UNCHANGED status

Decide(r) == Grant(r) \/ Refuse(r) \/ Fail(r)

Next ==
  \/ \E s \in Sid : Open(s)
  \/ \E S \in SUBSET Sid : End(S)
  \/ \E r \in Req : Ask(r) \/ See(r) \/ Decide(r) \/ Leave(r)

Spec == Init /\ [][Next]_vars

\* Every request that asks is answered, or has left.
FairSpec == Spec /\ \A r \in Req : WF_vars(Decide(r))
=============================================================================
