----------------------------- MODULE FlowsRefine -----------------------------
(***************************************************************************)
(* OAuthFlow implements Flows: whatever becomes of the cookies the flows   *)
(* of a browser share, and however often a callback is sent, each flow     *)
(* behaves as if it were alone and its callback came once.                 *)
(***************************************************************************)
EXTENDS OAuthFlow

StageAt(p) ==
  IF p \in {"sent", "answered", "at_provider"} THEN "asked"
  ELSE IF p \in {"new", "allowed"} THEN p ELSE "over"

DeedOf(session, browser, resource) ==
  [kind |-> IF session THEN "session" ELSE "connect", browser |-> browser,
   resource |-> IF session THEN NoResource ELSE resource]

\* What a sign-in request asked for.
WishOf(f) ==
  IF ask[f] = NoAsk THEN NoAsk
  ELSE [deed    |-> DeedOf(~ask[f].purpose.intent, ask[f].browser, ask[f].purpose.resource),
        checked |-> Guarded(f)]

\* What a callback did, once it did something.
Did(c) ==
  [by   |-> c,
   deed |-> DeedOf(did[c] = "session" \/ result[c] = "signed_in",
                   req[c].browser, req[c].cookies.resource)]

DoneBy(c, f) == Completed(c) /\ req[c].flow = f

stageBar  == [f \in Flow |-> StageAt(phase[f])]
askedBar  == [f \in Flow |-> WishOf(f)]
doneBar   == [f \in Flow |-> {Did(c) : c \in {d \in Callback : DoneBy(d, f)}}]
signedBar == [b \in Browser |-> jar[b].signed]

Alone == INSTANCE Flows WITH
           Resource <- Named \cup {BadResource}, NoDeed <- NoAsk,
           stage <- stageBar, asked <- askedBar, done <- doneBar, signed <- signedBar

\* Every behaviour of the flows, their cookies and callbacks is one of flows that
\* share nothing.
ImplementsFlows == Alone!Spec
=============================================================================
