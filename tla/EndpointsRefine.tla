--------------------------- MODULE EndpointsRefine ---------------------------
(***************************************************************************)
(* Discovery implements Endpoints: the queue for the permit, the fetches   *)
(* that fail or are dropped and the issuer that changes its mind cannot be *)
(* told from one document that is settled once.                            *)
(***************************************************************************)
EXTENDS Discovery

PhaseAt(label) ==
  IF label \in {"waiting", "fetching"} THEN "asking"
  ELSE IF label \in {"redirected", "exchange", "userinfo"} THEN "given"
  ELSE IF label \in {"no_endpoint", "empty_profile"} THEN "missing"
  ELSE IF label = "undiscovered" THEN "failed" ELSE "idle"

\* The first endpoint its handler takes, or the third.
WantAt(label, k) ==
  IF PhaseAt(label) = "idle" THEN "none"
  ELSE IF label \in {"userinfo", "empty_profile"} THEN "userinfo"
  ELSE IF k = "start" THEN "authorization" ELSE "token"

phaseBar == [c \in Caller |-> PhaseAt(pc[c])]
wantBar  == [c \in Caller |-> WantAt(pc[c], kind[c])]

Once == INSTANCE Endpoints WITH document <- cell, want <- wantBar, phase <- phaseBar

\* Every behaviour of the handlers that share a provider is one the endpoints of a
\* single document allow.
ImplementsEndpoints == Once!Spec
=============================================================================
