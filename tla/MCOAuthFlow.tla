----------------------------- MODULE MCOAuthFlow -----------------------------
(* OAuthFlow on small instances; flows, callbacks and browsers are alike. *)
EXTENDS FlowsRefine, TLC

CONSTANTS
  r1,      \* the resource id of a connect
  p1, p2   \* two providers

Plain      == [intent |-> FALSE, resource |-> NoResource, token |-> FALSE]
PlainToken == [intent |-> FALSE, resource |-> NoResource, token |-> TRUE]
Connect    == [intent |-> TRUE, resource |-> NoResource, token |-> FALSE]
ConnectTo  == [intent |-> TRUE, resource |-> r1, token |-> FALSE]
ConnectBad == [intent |-> TRUE, resource |-> BadResource, token |-> FALSE]

AllPurposes   == {Plain, Connect, ConnectTo, ConnectBad}
PlainOrTo     == {Plain, ConnectTo}
PlainOrTokens == {Plain, PlainToken}

UsesState == [p \in Provider |-> {"state"}]
UsesPkce  == [p \in Provider |-> {"pkce"}]
Mixed     == (p1 :> {"state"}) @@ (p2 :> {"pkce"})
UsesNonce == [p \in Provider |-> {"nonce"}]

Alike == Permutations(Flow) \cup Permutations(Callback) \cup Permutations(Browser)
=============================================================================
