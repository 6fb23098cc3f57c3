------------------------------ MODULE MCHandles ------------------------------
(* Handles and its refinement on small instances. *)
EXTENDS HandlesRefine, FiniteSets, TLC

CONSTANT v1

Fields   == {"jwt_secret", "redis_prefix"}
Objects  == {"db"}
Defaults == [f \in Fields |-> v1]

\* Three handles and a call, two handles and two calls, or two handles with any
\* text.
ThreeHandlesOrTexts ==
  \/ /\ \A h \in Handle : at[h] = Dropped \/ Conf(h).text = Defaults
     /\ \/ Cardinality({c \in Call : pc[c] # "idle"}) <= 1
        \/ Cardinality({h \in Handle : at[h] # Dropped}) <= 2
  \/ /\ Cardinality({h \in Handle : at[h] # Dropped}) <= 2
     /\ \A c \in Call : pc[c] = "idle"
=============================================================================
