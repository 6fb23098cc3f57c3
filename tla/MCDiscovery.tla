----------------------------- MODULE MCDiscovery -----------------------------
(* Discovery on small instances, and Layers on all requests made of a few words. *)
EXTENDS EndpointsRefine, Layers, TLC

CONSTANTS d1, d2   \* documents of the issuer

\* d2 is what an issuer that is being set up or broken may serve.
SomeNames == (d1 :> Endpoint) @@ (d2 :> {"authorization"})

\* None of the endpoints is set, or one, or two, with discovery and without.
SomeConfigs ==
  {{}, {"authorization"}, {"token"}, {"authorization", "token"}, {"token", "userinfo"}}

-----------------------------------------------------------------------------
(* Layers *)

\* An application with a layer, or one whose handlers share a provider: a layer does
\* not look at providers, and changes nothing.
MCInit == Init /\ LayersInit /\ (layer # NoLayer => configured = {} /\ issuer = Down)

\* Next, action by action.
MCNext ==
  \/ \E c \in Caller : \/ discover(c)          /\ UNCHANGED layer
                       \/ get_or_try_init(c)   /\ UNCHANGED layer
                       \/ fetch_oidc_config(c) /\ UNCHANGED layer
                       \/ exchange_code(c)     /\ UNCHANGED layer
                       \/ fetch_user_info(c)   /\ UNCHANGED layer
                       \/ Respond(c)           /\ UNCHANGED layer
                       \/ Cancel(c)            /\ UNCHANGED layer
  \/ IssuerChanges /\ UNCHANGED layer

MCSpec == MCInit /\ [][MCNext]_<<vars, layer>> /\ Fairness

LayerOrProvider == layer = NoLayer

Words == {" ", ":", "admin", "Admin", "hr", "rw"}

SomeLower   == [w \in Words |-> IF w = "Admin" THEN "admin" ELSE w]
SomeLetters == [w \in Words |-> IF w = "rw" THEN {"r", "w"} ELSE IF w = "hr" THEN {"r"} ELSE {}]

\* All texts of up to four words.
ShortTexts == UNION {[1 .. n -> Words] : n \in 0 .. 4}

SomeRoles == {<<>>, <<" ">>, <<"admin">>, <<" ", "Admin", ":", "rw">>, <<"hr", " ", ":", "hr">>,
              <<"hr", ":", " ">>, <<":", "rw">>}

SomeLists == {l \in SUBSET SomeRoles : Cardinality(l) <= 2}

SomePaths == {<<>>, <<"/">>, <<"/", "public">>, <<"/", "public", "ity">>, <<"/", "private">>}
=============================================================================
