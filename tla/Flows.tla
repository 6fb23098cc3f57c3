-------------------------------- MODULE Flows --------------------------------
(***************************************************************************)
(* What an OAuth flow promises the person who starts it.  A flow is asked  *)
(* for one deed, a session or a connect, in one browser.  Once the person  *)
(* has consented at the provider, it is done at most once, and as it was   *)
(* asked for, if the provider's checks tie the callback to it.  A browser  *)
(* is signed in by nothing but a flow that was done in it.  There are no   *)
(* cookies, no codes and no requests that can be mixed up or repeated.     *)
(***************************************************************************)
CONSTANTS
  Flow, Callback, Browser,
  Resource,       \* what a connect may name, and what it may not
  NoFlow, NoDeed

Deed == [kind : {"session", "connect"}, browser : Browser, resource : Resource]

\* A deed, and whether the checks of the provider tie the callback to it.
Wish == [deed : Deed, checked : BOOLEAN]

VARIABLES
  stage,   \* [Flow -> Stage]
  asked,   \* [Flow -> Wish or NoDeed]
  done,    \* [Flow -> what came of it, with the callback that did it]
  signed   \* [Browser -> the flow its session comes from, or NoFlow]

vars == <<stage, asked, done, signed>>

Stage == {"new", "asked", "allowed", "over"}

Init ==
  /\ stage  = [f \in Flow |-> "new"]
  /\ asked  = [f \in Flow |-> NoDeed]
  /\ done   = [f \in Flow |-> {}]
  /\ signed = [b \in Browser |-> NoFlow]

Ask(f) ==
  /\ stage[f] = "new"
  /\ stage' = [stage EXCEPT ![f] = "asked"]
  /\ \E w \in Wish : asked' = [asked EXCEPT ![f] = w]
  /\ UNCHANGED <<done, signed>>

\* The person consents,
Allow(f) ==
  /\ stage[f] = "asked"
  /\ stage' = [stage EXCEPT ![f] = "allowed"]
  /\ UNCHANGED <<asked, done, signed>>

\* or declines, or is never asked to.
End(f) ==
  /\ stage[f] = "asked"
  /\ stage' = [stage EXCEPT ![f] = "over"]
  /\ UNCHANGED <<asked, done, signed>>

\* What may come of a flow.
Due(f) == IF asked[f].checked THEN {asked[f].deed} ELSE Deed

Complete(f) ==
  /\ stage[f] = "allowed"
  /\ done[f] = {}
  /\ \E c \in Callback, d \in Due(f) : done' = [done EXCEPT ![f] = {[by |-> c, deed |-> d]}]
  /\ UNCHANGED <<stage, asked, signed>>

\* The session that came of a flow reaches the browser it was done in, maybe after
\* that of another.
Receive(f) ==
  /\ \E x \in done[f] :
       /\ x.deed.kind = "session"
       /\ signed' = [signed EXCEPT ![x.deed.browser] = f]
  /\ UNCHANGED <<stage, asked, done>>

Next ==
  \E f \in Flow : Ask(f) \/ Allow(f) \/ End(f) \/ Complete(f) \/ Receive(f)

Spec == Init /\ [][Next]_vars

-----------------------------------------------------------------------------
(* Properties *)

TypeOK ==
  /\ stage  \in [Flow -> Stage]
  /\ asked  \in [Flow -> Wish \cup {NoDeed}]
  /\ done   \in [Flow -> SUBSET [by : Callback, deed : Deed]]
  /\ signed \in [Browser -> Flow \cup {NoFlow}]
  /\ \A f \in Flow : stage[f] # "new" => asked[f] \in Wish

\* Whatever came of a flow, the person had consented, and it is what was asked for.
DoneAsAsked ==
  \A f \in Flow : \A x \in done[f] :
    stage[f] = "allowed" /\ (asked[f].checked => x.deed = asked[f].deed)

\* The session of a browser comes from a flow that was done there,
SignedByDone ==
  \A b \in Browser :
    signed[b] # NoFlow =>
      \E x \in done[signed[b]] : x.deed.kind = "session" /\ x.deed.browser = b

\* so, if the flow was checked, it is one somebody asked for in this browser, and to
\* sign in.
SignedInAsAsked ==
  \A b \in Browser :
    signed[b] # NoFlow /\ asked[signed[b]].checked =>
      asked[signed[b]].deed.kind = "session" /\ asked[signed[b]].deed.browser = b
=============================================================================
