------------------------------ MODULE Discovery ------------------------------
(***************************************************************************)
(* The endpoints of one OAuth provider, found by OIDC discovery.           *)
(*                                                                         *)
(* Sign-ins and callbacks of all browsers share the provider's once-cell.  *)
(* The first of them fetches the issuer's document while the others queue; *)
(* when its fetch fails, or its client goes away, the next in the queue    *)
(* fetches for itself.  What has been stored stays until the process ends. *)
(* Meanwhile the issuer goes down, comes back, and serves other documents. *)
(***************************************************************************)
EXTENDS Naturals, Sequences, FiniteSets

CONSTANTS
  Caller,      \* handler futures that need the provider's endpoints
  Document,    \* documents an issuer may answer with (any JSON object)
  Names,       \* [Document -> SUBSET Endpoint] the endpoints a document names
  Config,      \* the sets of endpoints a provider's configuration may set
  HasIssuer,   \* whether an issuer is configured
  Down,        \* the issuer fails, or answers with no document at all
  NoDoc,       \* the cell is empty
  NoCaller     \* nobody holds the permit

Endpoint == {"authorization", "token", "userinfo"}

ASSUME DiscoveryAssumption ==
  /\ Names \in [Document -> SUBSET Endpoint]
  /\ Config \subseteq SUBSET Endpoint
  /\ HasIssuer \in BOOLEAN
  /\ Down \notin Document /\ NoDoc \notin Document
  /\ NoCaller \notin Caller

VARIABLES
  configured,  \* the endpoints that are set in the configuration
  issuer,   \* what the issuer answers now: Document or Down
  cell,     \* OAuthProvider.discovered
  permit,   \* the caller that initialises the cell
  queue,    \* callers waiting for the permit, first come first served
  kind,     \* [Caller -> Kind]   which handler it is in
  pc,       \* [Caller -> next await or outcome]
  read,     \* SUBSET Document: documents an endpoint was ever taken from (ghost)
  hurt      \* SUBSET Caller: callers that overlap with an outage (ghost)

vars == <<configured, issuer, cell, permit, queue, kind, pc, read, hurt>>

Kind     == {"start", "callback"}
Running  == {"waiting", "fetching", "exchange", "userinfo"}
Outcome  == {"redirected", "profile", "empty_profile", "no_endpoint", "undiscovered",
             "failed"}

TypeOK ==
  /\ configured \in SUBSET Endpoint
  /\ issuer \in Document \cup {Down}
  /\ cell   \in Document \cup {NoDoc}
  /\ permit \in Caller \cup {NoCaller}
  /\ queue  \in Seq(Caller)
  /\ kind   \in [Caller -> Kind]
  /\ pc     \in [Caller -> Running \cup Outcome \cup {"idle"}]
  /\ read   \in SUBSET Document
  /\ hurt   \in SUBSET Caller

Init ==
  /\ configured \in Config
  /\ issuer \in Document \cup {Down}
  /\ cell   = NoDoc
  /\ permit = NoCaller
  /\ queue  = <<>>
  /\ kind   = [c \in Caller |-> "start"]
  /\ pc     = [c \in Caller |-> "idle"]
  /\ read   = {}
  /\ hurt   = {}

-----------------------------------------------------------------------------
(* Helpers *)

\* (mutant) one configured endpoint is taken for both
discover_is_noop_for_one ==
  ~HasIssuer \/ {"authorization", "token"} \cap configured # {}

\* discover returns at once: no issuer, or both of these endpoints are set.
discover_is_noop ==
  ~HasIssuer \/ {"authorization", "token"} \subseteq configured

\* OAuthProvider::endpoint: the configured value, or the document's.
EndpointIn(e, doc) == e \in configured \/ (doc # NoDoc /\ e \in Names[doc])

TakenFrom(e, doc) == IF e \in configured \/ doc = NoDoc THEN {} ELSE {doc}

Goto(c, label) == pc' = [pc EXCEPT ![c] = label]

\* What the handler does right after discover, with doc in the cell.
AfterDiscover(c, k, doc) ==
  IF k = "start"
  THEN /\ read' = read \cup TakenFrom("authorization", doc)
       /\ Goto(c, IF EndpointIn("authorization", doc) THEN "redirected" ELSE "no_endpoint")
  ELSE /\ read' = read \cup TakenFrom("token", doc)
       /\ Goto(c, IF EndpointIn("token", doc) THEN "exchange" ELSE "no_endpoint")

-----------------------------------------------------------------------------
(* The awaits of discover *)

\* A handler calls discover: it goes on at once, or queues for the permit.
discover(c) ==
  /\ pc[c] = "idle"
  /\ \E k \in Kind :
       /\ kind' = [kind EXCEPT ![c] = k]
       /\ IF discover_is_noop \/ cell # NoDoc
          THEN AfterDiscover(c, k, cell) /\ UNCHANGED queue
          ELSE /\ Goto(c, "waiting")
               /\ queue' = Append(queue, c)
               /\ UNCHANGED read
  /\ hurt' = IF issuer = Down THEN hurt \cup {c} ELSE hurt \ {c}
  /\ UNCHANGED <<configured, issuer, cell, permit>>

\* A caller stands in the queue at most once.
Without(q, c) ==
  IF \A i \in DOMAIN q : q[i] # c THEN q
  ELSE [j \in 1 .. (Len(q) - 1) |-> IF \A i \in 1 .. j : q[i] # c THEN q[j] ELSE q[j + 1]]

\* (mutant) the cell is filled by whoever finds it empty, without a permit
get_or_try_init_unguarded(c) ==
  /\ pc[c] = "waiting"
  /\ queue' = Without(queue, c)
  /\ \/ /\ cell = NoDoc
        /\ permit' = c
        /\ Goto(c, "fetching")
        /\ UNCHANGED read
     \/ /\ cell # NoDoc
        /\ AfterDiscover(c, kind[c], cell)
        /\ UNCHANGED permit
  /\ UNCHANGED <<configured, issuer, cell, kind, hurt>>

\* (mutant) a caller that finds the cell being filled fails at once
get_or_try_init_no_wait(c) ==
  /\ pc[c] = "waiting"
  /\ queue' = Without(queue, c)
  /\ \/ /\ cell = NoDoc /\ permit = NoCaller /\ Head(queue) = c
        /\ permit' = c
        /\ Goto(c, "fetching")
        /\ UNCHANGED read
     \/ /\ cell = NoDoc /\ permit # NoCaller
        /\ Goto(c, "undiscovered")
        /\ UNCHANGED <<permit, read>>
     \/ /\ cell # NoDoc
        /\ AfterDiscover(c, kind[c], cell)
        /\ UNCHANGED permit
  /\ UNCHANGED <<configured, issuer, cell, kind, hurt>>

\* OnceCell::get_or_try_init: the first in the queue takes a free permit; once
\* the cell is filled every waiter goes on.
get_or_try_init(c) ==
  /\ pc[c] = "waiting"
  /\ queue' = Without(queue, c)
  /\ \/ /\ cell = NoDoc /\ permit = NoCaller /\ Head(queue) = c
        /\ permit' = c
        /\ Goto(c, "fetching")
        /\ UNCHANGED read
     \/ /\ cell # NoDoc
        /\ AfterDiscover(c, kind[c], cell)
        /\ UNCHANGED permit
  /\ UNCHANGED <<configured, issuer, cell, kind, hurt>>

\* (mutant) the permit of a failed fetch is not given back
fetch_oidc_config_keeps_permit(c) ==
  /\ pc[c] = "fetching"
  /\ \/ /\ issuer # Down
        /\ cell' = issuer
        /\ permit' = NoCaller
        /\ AfterDiscover(c, kind[c], issuer)
     \/ /\ issuer = Down
        /\ Goto(c, "undiscovered")
        /\ UNCHANGED <<cell, permit, read>>
  /\ UNCHANGED <<configured, issuer, queue, kind, hurt>>

\* fetch_oidc_config: status 200 and a JSON object of any content is a document;
\* everything else, the 15 seconds of the client included, is an error.
fetch_oidc_config(c) ==
  /\ pc[c] = "fetching"
  /\ permit' = NoCaller
  /\ \/ /\ issuer # Down
        /\ cell' = issuer
        /\ AfterDiscover(c, kind[c], issuer)
     \/ /\ issuer = Down
        /\ Goto(c, "undiscovered")
        /\ UNCHANGED <<cell, read>>
  /\ UNCHANGED <<configured, issuer, queue, kind, hurt>>

-----------------------------------------------------------------------------
(* The awaits of the callback after discover *)

\* exchange_code comes back; fetch_user_info without an endpoint asks nobody.
exchange_code(c) ==
  /\ pc[c] = "exchange"
  /\ \/ /\ EndpointIn("userinfo", cell)
        /\ Goto(c, "userinfo")
        /\ read' = read \cup TakenFrom("userinfo", cell)
     \/ /\ ~EndpointIn("userinfo", cell)
        /\ Goto(c, "empty_profile")
        /\ UNCHANGED read
     \/ Goto(c, "failed") /\ UNCHANGED read
  /\ UNCHANGED <<configured, issuer, cell, permit, queue, kind, hurt>>

fetch_user_info(c) ==
  /\ pc[c] = "userinfo"
  /\ \E outcome \in {"profile", "failed"} : Goto(c, outcome)
  /\ UNCHANGED <<configured, issuer, cell, permit, queue, kind, read, hurt>>

\* The answer is delivered.
Respond(c) ==
  /\ pc[c] \in Outcome
  /\ Goto(c, "idle")
  /\ UNCHANGED <<configured, issuer, cell, permit, queue, kind, read, hurt>>

\* The client goes away: the future is dropped at its await, and with it its
\* place in the queue or the permit.
Cancel(c) ==
  /\ pc[c] \in Running
  /\ Goto(c, "idle")
  /\ queue' = Without(queue, c)
  /\ permit' = IF permit = c THEN NoCaller ELSE permit
  /\ UNCHANGED <<configured, issuer, cell, kind, read, hurt>>

\* The issuer fails, recovers, or publishes another document.
IssuerChanges ==
  /\ issuer' \in (Document \cup {Down}) \ {issuer}
  /\ hurt' = IF issuer' = Down THEN hurt \cup {c \in Caller : pc[c] \in Running} ELSE hurt
  /\ UNCHANGED <<configured, cell, permit, queue, kind, pc, read>>

-----------------------------------------------------------------------------

Step(c) ==
  get_or_try_init(c) \/ fetch_oidc_config(c) \/ exchange_code(c) \/ fetch_user_info(c)

Next ==
  \/ \E c \in Caller : discover(c) \/ Step(c) \/ Respond(c) \/ Cancel(c)
  \/ IssuerChanges

Spec == Init /\ [][Next]_vars

\* Every I/O future completes (the HTTP client has a timeout of 15 seconds), a
\* free permit goes to the first waiter, and woken futures are polled.
Fairness == \A c \in Caller : WF_vars(Step(c))

FairSpec == Spec /\ Fairness

-----------------------------------------------------------------------------
(* Properties *)

\* Sign-ins that arrive together cause one request to the issuer at a time.
OneFetchAtATime == Cardinality({c \in Caller : pc[c] = "fetching"}) <= 1

\* The start and the callback of a flow, and all flows, talk to the endpoints of
\* one document, whatever the issuer publishes later and however the first
\* fetches raced.
OneDocument == \A d, e \in read : d = e

\* A handler fails discovery only if the issuer was down while it ran: nobody is
\* failed for a fetch that somebody else runs, loses or drops.
UndiscoveredOnlyIfDown == \A c \in Caller : pc[c] = "undiscovered" => c \in hurt

\* A handler is refused for a missing endpoint only if the configuration lacks
\* it and so does the document that was fetched, or there is no issuer to ask.
MissingOnlyIfNamedNowhere ==
  \A c \in Caller :
    LET e == IF kind[c] = "start" THEN "authorization" ELSE "token" IN
    pc[c] = "no_endpoint" =>
      e \notin configured /\ (HasIssuer => cell # NoDoc /\ e \notin Names[cell])

\* A sign-in goes on with an empty profile only if its userinfo endpoint is named
\* neither by the configuration nor by the document; or if the configuration names
\* the other two, as discover then asks nobody for the third.
EmptyProfileOnlyIfUnnamed ==
  \A c \in Caller :
    pc[c] = "empty_profile" =>
      /\ "userinfo" \notin configured
      /\ \/ ~HasIssuer \/ {"authorization", "token"} \subseteq configured
         \/ cell # NoDoc /\ "userinfo" \notin Names[cell]

\* Whoever asks for the endpoints is answered, whoever before him fails or
\* leaves, and even if the issuer never answers.
EveryCallerEnds == \A c \in Caller : pc[c] \in Running ~> pc[c] \notin Running

\* Once the issuer is up for good, no further handler fails discovery.
OutagesEnd ==
  <>[](issuer # Down) =>
  <>[][\A c \in Caller : pc'[c] = "undiscovered" => pc[c] = "undiscovered"]_vars
=============================================================================
