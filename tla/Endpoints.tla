------------------------------ MODULE Endpoints ------------------------------
(***************************************************************************)
(* What a provider promises the handlers that share it.  Its endpoints are *)
(* those of the configuration and of one document, which is settled once,  *)
(* at one instant, for all of them.  Whoever asks for an endpoint is given *)
(* it, or told that there is none, once that is settled; until then it may *)
(* fail.  Nobody fetches anything, and nobody waits for another.           *)
(***************************************************************************)
CONSTANTS
  Caller, Document,
  Names,       \* [Document -> SUBSET Endpoint]
  Config,      \* the sets of endpoints a configuration may set
  HasIssuer, NoDoc

Endpoint == {"authorization", "token", "userinfo"}

VARIABLES
  configured,  \* the endpoints that are set in the configuration
  document,    \* the document that was settled on, or NoDoc
  want,        \* [Caller -> the endpoint it asked for last, or "none"]
  phase        \* [Caller -> Phase]

vars == <<configured, document, want, phase>>

Phase == {"idle", "asking", "given", "missing", "failed"}

\* There is nothing to find, or it was found.
Settled ==
  ~HasIssuer \/ {"authorization", "token"} \subseteq configured \/ document # NoDoc

NamedBy(e, doc) == e \in configured \/ (doc # NoDoc /\ e \in Names[doc])

Verdict(e, doc) == IF NamedBy(e, doc) THEN "given" ELSE "missing"

Init ==
  /\ configured \in Config
  /\ document = NoDoc
  /\ want  = [c \in Caller |-> "none"]
  /\ phase = [c \in Caller |-> "idle"]

\* A handler that was given one endpoint may ask for another.
Ask(c) ==
  /\ phase[c] \in {"idle", "given"}
  /\ \E e \in Endpoint :
       /\ want'  = [want  EXCEPT ![c] = e]
       /\ phase' = [phase EXCEPT ![c] = IF Settled THEN Verdict(e, document) ELSE "asking"]
  /\ UNCHANGED <<configured, document>>

Answer(c) ==
  /\ phase[c] = "asking" /\ Settled
  /\ phase' = [phase EXCEPT ![c] = Verdict(want[c], document)]
  /\ UNCHANGED <<configured, document, want>>

Settle(c) ==
  /\ phase[c] = "asking" /\ ~Settled
  /\ \E doc \in Document :
       /\ document' = doc
       /\ phase' = [phase EXCEPT ![c] = Verdict(want[c], doc)]
  /\ UNCHANGED <<configured, want>>

Fail(c) ==
  /\ phase[c] = "asking" /\ ~Settled
  /\ phase' = [phase EXCEPT ![c] = "failed"]
  /\ UNCHANGED <<configured, document, want>>

Leave(c) ==
  /\ phase' = [phase EXCEPT ![c] = "idle"]
  /\ want'  = [want  EXCEPT ![c] = "none"]
  /\ UNCHANGED <<configured, document>>

Next == \E c \in Caller : Ask(c) \/ Answer(c) \/ Settle(c) \/ Fail(c) \/ Leave(c)

Spec == Init /\ [][Next]_vars

-----------------------------------------------------------------------------
(* Properties *)

TypeOK ==
  /\ configured \in SUBSET Endpoint
  /\ document \in Document \cup {NoDoc}
  /\ want  \in [Caller -> Endpoint \cup {"none"}]
  /\ phase \in [Caller -> Phase]

\* What a handler was told of an endpoint is true as long as it acts on it.
AnswersStand ==
  \A c \in Caller :
    phase[c] \in {"given", "missing"} => Settled /\ phase[c] = Verdict(want[c], document)
=============================================================================
