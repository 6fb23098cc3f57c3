----------------------------- MODULE MCLdapLogin -----------------------------
(***************************************************************************)
(* LdapLogin on small instances.  Two people share the attribute that the  *)
(* filters of the searching clients look at, or live in different naming   *)
(* contexts; their principal names differ.                                 *)
(***************************************************************************)
EXTENDS LdapLogin, FiniteSets, TLC

CONSTANTS p1, p2, n1, n2, w1, o1, o2

Namesakes == (p1 :> n1) @@ (p2 :> n1)
Different == (p1 :> n1) @@ (p2 :> n2)
Alone     == p1 :> n1

AllModes   == {"service", "anonymous", "direct"}
ByService  == {"service"}

NamesakesExceptDirect == [m \in Modes |-> IF m = "direct" THEN Different ELSE Namesakes]
AloneAlways           == [m \in Modes |-> Alone]

FirstExceptDirect == [m \in Modes |-> IF m = "direct" THEN NoBase ELSE o1]

InFirst == (p1 :> o1) @@ (p2 :> o1)
OnlyOne == p1 :> o1

LoginSymmetry == Permutations(Login)

\* One login of any kind, where the entry of one person is anything and that of the
\* other has one password, or two direct logins of one person that race to store
\* the search base.  Only direct logins look at the RootDSE.
SecondIsRace ==
  \/ /\ Cardinality({l \in Login : pc[l] # "idle"}) <= 1
     /\ \A p \in Person \ {p1} : entry[p] \in {w1, Absent}
     /\ (\A l \in Login : pc[l] # "idle" => typed[l].mode # "direct") => root = o1
  \/ /\ \A l \in Login :
          pc[l] # "idle" => typed[l] = [mode |-> "direct", name |-> n1, password |-> w1]
     /\ \A p \in Person \ {p1} : entry[p] = Absent
     /\ entry[p1] # Locked
=============================================================================
