----------------------------- MODULE LdapProofs -----------------------------
(***************************************************************************)
(* What a login may answer, for any directory, any number of logins and    *)
(* each of the three modes.  seen collects what the entries were while a   *)
(* login ran; the invariant says that it is up to date, and that in direct *)
(* mode the search runs for a person whose bind was accepted, and in the   *)
(* others the bind for a person that the search of the right base found.   *)
(***************************************************************************)
EXTENDS LdapLogin, FiniteSetTheorems, TLAPS

\* While a login runs, what an entry is has been seen.
Overlap ==
  \A l \in Login : pc[l] \in Trips => \A p \in Person : entry[p] \in seen[l][p]

\* A login in direct mode that is past its bind holds the person that was bound.
BoundFirst ==
  \A l \in Login : typed[l].mode = "direct" /\ pc[l] \in {"resolve", "search"} =>
    /\ who[l] \in Person
    /\ NameOf["direct"][who[l]] = typed[l].name
    /\ typed[l].password \in seen[l][who[l]]

\* Only a service account is bound first.
ServiceFirst == \A l \in Login : pc[l] = "service_bind" => typed[l].mode # "direct"

\* Whoever was found by name was found alone.
FoundAlone ==
  \A l \in Login : pc[l] \in {"user_bind", "ok"} =>
    \A q \in Person \ {who[l]} :
      NameOf[typed[l].mode][q] = typed[l].name /\ BaseOf[q] = under[l] => Absent \in seen[l][q]

\* A directory that is never at fault does not fall silent.
SilenceIsFault == silent => Faults

\* Only a direct client has no base of its own; the others search theirs.
OwnBase ==
  \A l \in Login :
    /\ pc[l] \in {"resolve", "direct_bind"} => typed[l].mode = "direct"
    /\ pc[l] = "resolve" => BaseDn["direct"] = NoBase
    /\ pc[l] \in {"search", "user_bind"} /\ typed[l].mode # "direct" =>
         under[l] = BaseDn[typed[l].mode]

\* Whoever a searching client binds as is of the name, below the base, and was there.
FoundIsThere ==
  \A l \in Login : pc[l] = "user_bind" =>
    /\ typed[l].mode # "direct"
    /\ NameOf[typed[l].mode][who[l]] = typed[l].name
    /\ BaseOf[who[l]] = under[l]
    /\ \E x \in seen[l][who[l]] : x # Absent

\* How a login of somebody rightful may end without success.
Excused(l, label) ==
  \/ label \in {"connection", "invalid_detail"} /\ Faults
  \/ label = "config" /\ typed[l].mode = "direct" /\ BaseDn["direct"] = NoBase

IInv ==
  /\ TypeOK
  /\ SilenceIsFault
  /\ Overlap
  /\ ServiceFirst
  /\ BoundFirst
  /\ FoundAlone
  /\ NotFoundOnlyIfAbsent
  /\ OwnBase
  /\ FoundIsThere
  /\ LoginIsVerified
  /\ RightPasswordIsTaken

\* The parts of the invariant that speak of logins, for one of them.
Fine(l) ==
  /\ pc[l] # "idle" => typed[l] \in Typed
  /\ pc[l] = "search" => under[l] \in Base
  /\ pc[l] = "user_bind" => who[l] \in Person
  /\ pc[l] = "service_bind" => typed[l].mode # "direct"
  /\ pc[l] \in Trips => \A p \in Person : entry[p] \in seen[l][p]
  /\ typed[l].mode = "direct" /\ pc[l] \in {"resolve", "search"} =>
       /\ who[l] \in Person
       /\ NameOf["direct"][who[l]] = typed[l].name
       /\ typed[l].password \in seen[l][who[l]]
  /\ pc[l] = "not_found" =>
       \A p \in Person :
         NameOf[typed[l].mode][p] = typed[l].name /\ BaseOf[p] = under[l] =>
           Absent \in seen[l][p]
  /\ pc[l] \in {"user_bind", "ok"} =>
       \A q \in Person \ {who[l]} :
         NameOf[typed[l].mode][q] = typed[l].name /\ BaseOf[q] = under[l] =>
           Absent \in seen[l][q]
  /\ pc[l] = "ok" => who[l] \in Person /\ typed[l].password \in seen[l][who[l]]
  /\ pc[l] \in {"resolve", "direct_bind"} => typed[l].mode = "direct"
  /\ pc[l] = "resolve" => BaseDn["direct"] = NoBase
  /\ pc[l] \in {"search", "user_bind"} /\ typed[l].mode # "direct" =>
       under[l] = BaseDn[typed[l].mode]
  /\ pc[l] = "user_bind" =>
       /\ typed[l].mode # "direct"
       /\ NameOf[typed[l].mode][who[l]] = typed[l].name
       /\ BaseOf[who[l]] = under[l]
       /\ \E x \in seen[l][who[l]] : x # Absent
  /\ pc[l] \in Outcomes => \A p \in Person :
       Rightful(l, p) => (pc[l] = "ok" /\ who[l] = p) \/ Excused(l, pc[l])

Types ==
  /\ entry   \in [Person -> Entry]
  /\ root    \in Base \cup {NoBase}
  /\ silent  \in BOOLEAN /\ (silent => Faults)
  /\ base_dn \in Base \cup {NoBase}
  /\ pc      \in [Login -> Trips \cup Outcomes \cup {"idle"}]
  /\ typed   \in [Login -> Typed \cup {Nothing}]
  /\ who     \in [Login -> Person \cup {NoPerson}]
  /\ under   \in [Login -> Base \cup {NoBase}]
  /\ armed   \in [Login -> BOOLEAN]
  /\ seen    \in [Login -> [Person -> SUBSET Entry]]

\* The invariant read login by login, before and after a step.
LEMMA AllFine == IInv <=> Types /\ \A l \in Login : Fine(l)
  BY DEF IInv, Types, Fine, TypeOK, Overlap, ServiceFirst, BoundFirst, FoundAlone,
         NotFoundOnlyIfAbsent, LoginIsVerified, RightPasswordIsTaken, SilenceIsFault,
         OwnBase, FoundIsThere, Excused

LEMMA AllFineNext == Types' /\ (\A l \in Login : Fine(l)') => IInv'
  BY DEF IInv, Types, Fine, TypeOK, Overlap, ServiceFirst, BoundFirst, FoundAlone,
         NotFoundOnlyIfAbsent, LoginIsVerified, RightPasswordIsTaken, SilenceIsFault,
         OwnBase, FoundIsThere, Excused

-----------------------------------------------------------------------------

LEMMA InitFine == Init => IInv
  <1> SUFFICES ASSUME Init PROVE Types /\ \A l \in Login : Fine(l)
    BY AllFine
  <1>1. Types
    BY DEF Init, Types, Typed
  <1>2. \A l \in Login : Fine(l)
    BY DEF Init, Fine, Trips, Outcomes
  <1> QED BY <1>1, <1>2

\* A step of login l on its own: the other logins stay fine as long as the
\* directory and what they hold is not touched.
LEMMA Others ==
  ASSUME IInv, NEW l \in Login, Types',
         UNCHANGED entry,
         \A k \in Login \ {l} :
           /\ pc'[k] = pc[k] /\ typed'[k] = typed[k] /\ who'[k] = who[k]
           /\ under'[k] = under[k] /\ seen'[k] = seen[k],
         Fine(l)'
  PROVE  IInv'
  <1>1. ASSUME NEW k \in Login \ {l} PROVE Fine(k)'
    <2>1. Fine(k)
      BY AllFine
    <2> QED BY <2>1 DEF Fine, Rightful, Excused
  <1>2. \A k \in Login : Fine(k)'
    BY <1>1
  <1> QED BY <1>2, AllFineNext

\* A step that moves l to where nothing but its place changes.
LEMMA Moves ==
  ASSUME IInv, NEW l \in Login, NEW label \in Outcomes \cup {"direct_bind", "service_bind"},
         label = "service_bind" => typed[l].mode # "direct",
         label = "direct_bind" => typed[l].mode = "direct",
         label \notin {"ok", "not_found"},
         label \in Outcomes => \A p \in Person : Rightful(l, p) => Excused(l, label),
         pc[l] \in Trips, Goto(l, label),
         armed' \in [Login -> BOOLEAN],
         UNCHANGED <<directory, history, base_dn, who, under>>
  PROVE  IInv'
  <1>1. Types /\ Fine(l)
    BY AllFine
  <1>2. Types'
    BY <1>1 DEF Types, Goto, directory, history, Trips
  <1>3. Fine(l)'
    <2>1. pc'[l] = label /\ UNCHANGED <<entry, typed, seen, who, under>>
      BY <1>1 DEF Types, Goto, directory, history
    <2>2. \A p \in Person : Rightful(l, p)' = Rightful(l, p)
      BY <2>1 DEF Rightful
    <2>3. Excused(l, label)' = Excused(l, label)
      BY <2>1 DEF Excused
    <2> QED BY <1>1, <2>1, <2>2, <2>3 DEF Fine, Trips, Outcomes
  <1> QED BY <1>2, <1>3, Others, <1>1 DEF Types, Goto, directory, history

\* The bind that precedes a search is done: l goes on to the search or its base.
LEMMA Searches ==
  ASSUME IInv, NEW l \in Login, pc[l] \in Trips, ToSearch(l),
         armed' \in [Login -> BOOLEAN],
         who' \in [Login -> Person \cup {NoPerson}],
         \A k \in Login \ {l} : who'[k] = who[k],
         typed[l].mode = "direct" =>
           /\ who'[l] \in Person
           /\ NameOf["direct"][who'[l]] = typed[l].name
           /\ typed[l].password \in seen[l][who'[l]],
         UNCHANGED <<directory, history, base_dn>>
  PROVE  IInv'
  <1>1. Types /\ Fine(l)
    BY AllFine
  <1> DEFINE given == BaseDn[typed[l].mode]
             b     == IF given # NoBase THEN given ELSE base_dn
  <1>2. /\ b \in Base \cup {NoBase}
        /\ pc' = [pc EXCEPT ![l] = IF b = NoBase THEN "resolve" ELSE "search"]
        /\ under' = [under EXCEPT ![l] = b]
        /\ b = NoBase => typed[l].mode = "direct" /\ BaseDn["direct"] = NoBase
        /\ typed[l].mode # "direct" => b = BaseDn[typed[l].mode]
    <2>1. typed[l].mode \in Modes
      BY <1>1 DEF Fine, Trips, Typed
    <2>2. given \in Base \cup {NoBase}
      BY <2>1, LdapAssumption
    <2>3. b \in Base \cup {NoBase}
      BY <1>1, <2>2 DEF Types
    <2>4. typed[l].mode # "direct" => given # NoBase
      <3>1. \A m \in Modes : m # "direct" => BaseDn[m] # NoBase
        BY LdapAssumption
      <3> QED BY <2>1, <3>1
    <2> QED BY <2>3, <2>4 DEF ToSearch, Goto
  <1> HIDE DEF b
  <1>3. Types'
    BY <1>1, <1>2 DEF Types, directory, history, Trips
  <1>4. Fine(l)'
    BY <1>1, <1>2 DEF Fine, Types, directory, history, Trips, Outcomes
  <1> QED BY <1>1, <1>2, <1>3, <1>4, Others DEF Types, directory, history

-----------------------------------------------------------------------------

LEMMA LoginKeeps ==
  ASSUME IInv, NEW l \in Login, login(l) PROVE IInv'
  <1>1. Types /\ pc[l] = "idle"
    BY AllFine DEF login
  <1>2. PICK t \in Typed :
          /\ typed' = [typed EXCEPT ![l] = t]
          /\ seen'  = [seen  EXCEPT ![l] = [p \in Person |-> {entry[p]}]]
          /\ Goto(l, IF t.password = NoPassword THEN "invalid" ELSE "dial")
    BY DEF login
  <1>3. UNCHANGED <<directory, base_dn, who, under, armed>>
    BY DEF login
  <1>4. Types'
    BY <1>1, <1>2, <1>3 DEF Types, Goto, directory, Trips, Outcomes
  <1>5. \A p \in Person : pc'[l] \in Outcomes => ~Rightful(l, p)'
    <2>1. ASSUME NEW p \in Person, t.password = NoPassword PROVE ~Rightful(l, p)'
      <3>1. typed'[l].password = NoPassword /\ seen'[l][p] = {entry[p]}
        BY <1>1, <1>2, <2>1 DEF Types
      <3>2. entry[p] # NoPassword
        BY <1>1, LdapAssumption DEF Types
      <3> QED BY <3>1, <3>2 DEF Rightful
    <2> QED BY <1>1, <1>2, <2>1 DEF Goto, Types, Outcomes
  <1>6. Fine(l)'
    BY <1>1, <1>2, <1>3, <1>5 DEF Fine, Types, Goto, directory, Trips
  <1> QED BY <1>1, <1>2, <1>3, <1>4, <1>6, Others DEF Types, Goto, directory

LEMMA DialKeeps ==
  ASSUME IInv, NEW l \in Login, dial(l) PROVE IInv'
  <1>1. /\ Types /\ pc[l] = "dial" /\ pc[l] \in Trips
        /\ UNCHANGED <<directory, history, base_dn, who>>
    BY AllFine DEF dial, Trips
  <1>2. armed' \in [Login -> BOOLEAN]
    BY <1>1 DEF dial, Types
  <1>3. CASE typed[l].mode = "direct" /\ Goto(l, "direct_bind") /\ UNCHANGED under
    BY <1>1, <1>2, <1>3, Moves DEF Outcomes
  <1>4. CASE typed[l].mode = "service" /\ Goto(l, "service_bind") /\ UNCHANGED under
    BY <1>1, <1>2, <1>4, Moves DEF Outcomes
  <1>5. CASE typed[l].mode = "anonymous" /\ ToSearch(l)
    BY <1>1, <1>2, <1>5, Searches DEF Types
  <1>6. CASE Faults /\ Goto(l, "connection") /\ UNCHANGED <<armed, under>>
    BY <1>1, <1>2, <1>6, Moves DEF Outcomes, Excused
  <1> QED BY <1>3, <1>4, <1>5, <1>6 DEF dial

LEMMA AnsweredFacts ==
  ASSUME IInv, NEW l \in Login, NEW trip \in Trips, Answered(l, trip)
  PROVE  /\ Types /\ Fine(l) /\ pc[l] = trip
         /\ armed' \in [Login -> BOOLEAN]
         /\ UNCHANGED <<directory, history>>
  BY AllFine DEF Answered, Types

LEMMA ServiceBindKeeps ==
  ASSUME IInv, NEW l \in Login, service_bind(l) PROVE IInv'
  <1>1. /\ Types /\ pc[l] = "service_bind" /\ pc[l] \in Trips
        /\ armed' \in [Login -> BOOLEAN]
        /\ UNCHANGED <<directory, history, base_dn, who>>
        /\ Fine(l)
    BY AnsweredFacts DEF service_bind, Trips
  <1>2. CASE Faults /\ Goto(l, "connection") /\ UNCHANGED under
    BY <1>1, <1>2, Moves DEF Outcomes, Excused
  <1>3. CASE ToSearch(l)
    <2>1. typed[l].mode # "direct"
      BY <1>1 DEF Fine
    <2> QED BY <1>1, <1>3, <2>1, Searches DEF Types
  <1> QED BY <1>2, <1>3 DEF service_bind

LEMMA ResolveKeeps ==
  ASSUME IInv, NEW l \in Login, resolve_base_dn(l) PROVE IInv'
  <1>1. /\ Types /\ Fine(l) /\ pc[l] = "resolve" /\ pc[l] \in Trips
        /\ armed' \in [Login -> BOOLEAN]
        /\ UNCHANGED <<directory, history, who>>
    BY AnsweredFacts DEF resolve_base_dn, Trips
  <1>2. CASE /\ root # NoBase
             /\ base_dn' = IF base_dn = NoBase THEN root ELSE base_dn
             /\ under' = [under EXCEPT ![l] = root]
             /\ Goto(l, "search")
    <2>1. Types'
      BY <1>1, <1>2 DEF Types, Goto, directory, history, Trips
    <2>2. Fine(l)'
      BY <1>1, <1>2 DEF Fine, Types, Goto, directory, history, Trips, Outcomes
    <2> QED BY <1>1, <1>2, <2>1, <2>2, Others DEF Types, Goto, directory, history
  <1>3. CASE Goto(l, "config") /\ UNCHANGED <<base_dn, under>>
    <2>1. typed[l].mode = "direct" /\ BaseDn["direct"] = NoBase
      BY <1>1 DEF Fine
    <2> QED BY <1>1, <1>3, <2>1, Moves DEF Outcomes, Excused
  <1>4. CASE Faults /\ Goto(l, "connection") /\ UNCHANGED <<base_dn, under>>
    BY <1>1, <1>4, Moves DEF Outcomes, Excused
  <1> QED BY <1>2, <1>3, <1>4 DEF resolve_base_dn

\* A password that was right all the while is the one the entry has now.
LEMMA RightfulIsThere ==
  ASSUME IInv, NEW l \in Login, NEW p \in Person, pc[l] \in Trips, Rightful(l, p)
  PROVE  /\ typed[l] \in Typed /\ typed[l].mode \in Modes
         /\ entry[p] = typed[l].password /\ entry[p] # Absent
  <1>1. Types /\ Fine(l)
    BY AllFine
  <1>2. entry[p] \in seen[l][p] /\ seen[l][p] = {typed[l].password}
    BY <1>1 DEF Fine, Rightful
  <1>3. typed[l] \in Typed
    BY <1>1 DEF Fine, Trips
  <1>4. typed[l].mode \in Modes /\ typed[l].password \in Password \cup {NoPassword}
    BY <1>3 DEF Typed
  <1>5. entry[p] \in Entry
    BY <1>1 DEF Types
  <1>6. entry[p] \in Password
    BY <1>2, <1>4, <1>5, LdapAssumption
  <1> QED BY <1>2, <1>3, <1>4, <1>6, LdapAssumption

\* Its entry is the only one a search can find, and the one there is to bind as.
LEMMA RightfulIsFound ==
  ASSUME IInv, NEW l \in Login, NEW p \in Person, pc[l] = "search", Rightful(l, p)
  PROVE  /\ format_user_filter(l) \subseteq {p}
         /\ typed[l].mode # "direct" => format_user_filter(l) = {p}
         /\ typed[l].mode = "direct" => who[l] = p
  <1>1. Types /\ Fine(l) /\ pc[l] \in Trips
    BY AllFine DEF Trips
  <1>2. typed[l].mode \in Modes /\ entry[p] # Absent
    BY <1>1, RightfulIsThere
  <1>3. CASE typed[l].mode = "direct"
    <2>1. \A q \in Person : NameOf["direct"][q] = typed[l].name => q = p
      BY <1>2, <1>3, LdapAssumption DEF Rightful
    <2> QED BY <1>1, <1>3, <2>1 DEF format_user_filter, Fine
  <1>4. CASE typed[l].mode # "direct"
    <2>1. under[l] = BaseDn[typed[l].mode]
      BY <1>1, <1>4 DEF Fine
    <2>2. p \in format_user_filter(l)
      BY <1>2, <1>4, <2>1 DEF format_user_filter, Rightful
    <2>3. ASSUME NEW q \in Person \ {p}, q \in format_user_filter(l) PROVE FALSE
      <3>1. seen[l][q] = {Absent}
        BY <1>4, <2>1, <2>3 DEF format_user_filter, Rightful
      <3>2. entry[q] \in seen[l][q] /\ entry[q] # Absent
        BY <1>1, <2>3 DEF Fine, format_user_filter
      <3> QED BY <3>1, <3>2
    <2>4. format_user_filter(l) \subseteq Person
      BY DEF format_user_filter
    <2> QED BY <1>4, <2>2, <2>3, <2>4
  <1> QED BY <1>3, <1>4

LEMMA RightfulIsAccepted ==
  ASSUME IInv, NEW l \in Login, NEW p \in Person,
         pc[l] \in {"user_bind", "direct_bind"}, Rightful(l, p)
  PROVE  Accepted(l, p) /\ (pc[l] = "user_bind" => who[l] = p)
  <1>1. Types /\ Fine(l) /\ pc[l] \in Trips
    BY AllFine DEF Trips
  <1>2. entry[p] = typed[l].password
    BY <1>1, RightfulIsThere
  <1>3. CASE pc[l] = "direct_bind"
    BY <1>1, <1>2, <1>3 DEF Accepted, BindsAs, Fine, Rightful
  <1>4. CASE pc[l] = "user_bind"
    <2>1. /\ typed[l].mode # "direct" /\ who[l] \in Person
          /\ NameOf[typed[l].mode][who[l]] = typed[l].name
          /\ BaseOf[who[l]] = BaseDn[typed[l].mode]
          /\ seen[l][who[l]] # {Absent}
      BY <1>1, <1>4 DEF Fine
    <2>2. who[l] = p
      BY <2>1 DEF Rightful
    <2> QED BY <1>2, <2>1, <2>2 DEF Accepted, BindsAs
  <1> QED BY <1>3, <1>4

LEMMA SearchKeeps ==
  ASSUME IInv, NEW l \in Login, search_user(l) PROVE IInv'
  <1>1. /\ Types /\ Fine(l) /\ pc[l] = "search" /\ pc[l] \in Trips
        /\ armed' \in [Login -> BOOLEAN]
        /\ UNCHANGED <<directory, history, base_dn, under>>
    BY AnsweredFacts DEF search_user, Trips
  <1> DEFINE match == format_user_filter(l)
  <1>2. CASE match = {} /\ FoundNobody(l)
    <2>1. Types'
      BY <1>1, <1>2 DEF Types, FoundNobody, Goto, directory, history, Trips, Outcomes
    <2>2. \A p \in Person :
            NameOf[typed[l].mode][p] = typed[l].name /\ BaseOf[p] = under[l] => entry[p] = Absent
      BY <1>2 DEF format_user_filter
    <2>3. CASE typed[l].mode = "direct"
      <3>0. \A q \in Person \ {who[l]} : NameOf["direct"][q] # typed[l].name
        <4>1. typed[l].mode \in Modes
          BY <1>1 DEF Fine, Trips, Typed
        <4> QED BY <1>1, <2>3, <4>1, LdapAssumption DEF Fine
      <3>1. \A p \in Person : Rightful(l, p)' => who'[l] = p
        BY <1>1, <1>2, <2>3, RightfulIsFound DEF FoundNobody, Rightful, history
      <3>2. Fine(l)'
        BY <1>1, <1>2, <2>3, <3>0, <3>1
        DEF Fine, Types, FoundNobody, Goto, directory, history, Trips
      <3> QED BY <1>1, <1>2, <2>1, <3>2, Others
          DEF Types, FoundNobody, Goto, directory, history
    <2>4. CASE typed[l].mode # "direct"
      <3>1. \A p \in Person : ~Rightful(l, p)'
        BY <1>1, <1>2, <2>4, RightfulIsFound DEF FoundNobody, Rightful, history
      <3>2. Fine(l)'
        BY <1>1, <1>2, <2>2, <2>4, <3>1
        DEF Fine, Types, FoundNobody, Goto, directory, history, Trips
      <3> QED BY <1>1, <1>2, <2>1, <3>2, Others
          DEF Types, FoundNobody, Goto, directory, history
    <2> QED BY <2>3, <2>4
  <1>3. ASSUME NEW p \in match, match = {p}, Found(l, p) PROVE IInv'
    <2>1. p \in Person /\ NameOf[typed[l].mode][p] = typed[l].name
      BY <1>3 DEF format_user_filter
    <2>2. Types'
      BY <1>1, <1>3, <2>1 DEF Types, Found, Goto, directory, history, Trips, Outcomes
    <2>3. typed[l].mode = "direct" => p = who[l]
      <3>1. typed[l].mode \in Modes
        BY <1>1 DEF Fine, Trips, Typed
      <3> QED BY <1>1, <2>1, <3>1, LdapAssumption DEF Fine
    <2>4. \A q \in Person \ {p} :
            NameOf[typed[l].mode][q] = typed[l].name /\ BaseOf[q] = under[l] =>
              entry[q] = Absent
      BY <1>3 DEF format_user_filter
    <2>5. \A q \in Person : Rightful(l, q)' => p = q
      <3>1. ASSUME NEW q \in Person, Rightful(l, q) PROVE p = q
        <4>1. match \subseteq {q}
          BY <1>1, <3>1, RightfulIsFound
        <4> QED BY <1>3, <4>1
      <3>2. \A q \in Person : Rightful(l, q)' = Rightful(l, q)
        BY <1>1 DEF Rightful, history
      <3> QED BY <3>1, <3>2
    <2>6. BaseOf[p] = under[l] /\ entry[p] # Absent /\ entry[p] \in seen[l][p]
      BY <1>1, <1>3 DEF format_user_filter, Fine
    <2>7. Fine(l)'
      <3>1. CASE typed[l].mode = "direct"
        BY <1>1, <1>3, <2>1, <2>3, <2>4, <2>5, <3>1
        DEF Fine, Types, Found, Goto, directory, history, Trips
      <3>2. CASE typed[l].mode # "direct"
        BY <1>1, <1>3, <2>1, <2>4, <2>6, <3>2
        DEF Fine, Types, Found, Goto, directory, history, Trips, Outcomes
      <3> QED BY <3>1, <3>2
    <2> QED BY <1>1, <1>3, <2>2, <2>7, Others
        DEF Types, Found, Goto, directory, history
  <1>4. CASE Cardinality(match) > 1 /\ UNCHANGED who
                 /\ \E label \in {"ambiguous", "connection"} : Goto(l, label)
    <2>1. ASSUME NEW p \in Person PROVE ~Rightful(l, p)
      <3>1. ASSUME Rightful(l, p) PROVE match = {} \/ match = {p}
        BY <1>1, <3>1, RightfulIsFound
      <3> QED BY <1>4, <3>1, FS_EmptySet, FS_Singleton
    <2> QED BY <1>1, <1>4, <2>1, Moves DEF Outcomes
  <1>5. CASE Faults /\ Goto(l, "connection") /\ UNCHANGED who
    BY <1>1, <1>5, Moves DEF Outcomes, Excused
  <1> QED BY <1>2, <1>3, <1>4, <1>5 DEF search_user

\* A bind that is not accepted.
LEMMA RefusedKeeps ==
  ASSUME IInv, NEW l \in Login, pc[l] \in {"user_bind", "direct_bind"}, bind_failure(l),
         armed' \in [Login -> BOOLEAN],
         UNCHANGED <<directory, history, base_dn, who, under>>
  PROVE  IInv'
  <1>1. Types /\ Fine(l) /\ pc[l] \in Trips
    BY AllFine DEF Trips
  <1>2. CASE /\ \A p \in Person : ~Accepted(l, p)
             /\ \E label \in {"invalid", "invalid_detail"} : Goto(l, label)
    <2>1. \A p \in Person : ~Rightful(l, p)
      BY <1>2, RightfulIsAccepted
    <2> QED BY <1>1, <1>2, <2>1, Moves DEF Outcomes
  <1>3. CASE Faults /\ Goto(l, "invalid_detail")
    BY <1>1, <1>3, Moves DEF Outcomes, Excused
  <1> QED BY <1>2, <1>3 DEF bind_failure

LEMMA UserBindKeeps ==
  ASSUME IInv, NEW l \in Login, user_bind(l) PROVE IInv'
  <1>1. /\ Types /\ Fine(l) /\ pc[l] = "user_bind" /\ pc[l] \in Trips
        /\ armed' \in [Login -> BOOLEAN]
        /\ UNCHANGED <<directory, history, base_dn, who, under>>
    BY AnsweredFacts DEF user_bind, Trips
  <1>2. CASE Accepted(l, who[l]) /\ Goto(l, "ok")
    <2>1. who[l] \in Person /\ typed[l].password \in seen[l][who[l]]
      BY <1>1, <1>2 DEF Accepted, BindsAs, Fine
    <2>2. Types'
      BY <1>1, <1>2 DEF Types, Goto, directory, history, Outcomes
    <2>3. \A p \in Person : Rightful(l, p)' => who'[l] = p
      BY <1>1, RightfulIsAccepted DEF Rightful, history
    <2>4. Fine(l)'
      BY <1>1, <1>2, <2>1, <2>3 DEF Fine, Types, Goto, directory, history, Trips
    <2> QED BY <1>1, <1>2, <2>2, <2>4, Others DEF Types, Goto, directory, history
  <1>3. CASE bind_failure(l)
    BY <1>1, <1>3, RefusedKeeps
  <1> QED BY <1>2, <1>3 DEF user_bind

LEMMA DirectBindKeeps ==
  ASSUME IInv, NEW l \in Login, direct_bind(l) PROVE IInv'
  <1>1. /\ Types /\ Fine(l) /\ pc[l] = "direct_bind" /\ pc[l] \in Trips
        /\ armed' \in [Login -> BOOLEAN]
        /\ UNCHANGED <<directory, history, base_dn>>
    BY AnsweredFacts DEF direct_bind, Trips
  <1>2. ASSUME NEW p \in Person, Accepted(l, p),
               who' = [who EXCEPT ![l] = p], ToSearch(l)
        PROVE  IInv'
    <2>1. entry[p] = typed[l].password /\ entry[p] \in seen[l][p]
      BY <1>1, <1>2 DEF Accepted, Fine
    <2>2. typed[l].mode = "direct" => NameOf["direct"][p] = typed[l].name
      BY <1>2 DEF Accepted, BindsAs
    <2>3. who'[l] = p /\ who' \in [Login -> Person \cup {NoPerson}]
      BY <1>1, <1>2 DEF Types
    <2> QED BY <1>1, <1>2, <2>1, <2>2, <2>3, Searches DEF Types
  <1>3. CASE bind_failure(l) /\ UNCHANGED <<who, under>>
    BY <1>1, <1>3, RefusedKeeps
  <1> QED BY <1>2, <1>3 DEF direct_bind

LEMMA BrokenKeeps ==
  ASSUME IInv, NEW l \in Login, Faults, Broken(l) PROVE IInv'
  <1>1. /\ Types /\ pc[l] \in Trips
        /\ UNCHANGED <<directory, history, base_dn, who, under>>
    BY AllFine DEF Broken
  <1>2. armed' \in [Login -> BOOLEAN]
    BY <1>1 DEF Broken, Types
  <1>3. CASE Goto(l, "invalid_detail")
    BY <1>1, <1>2, <1>3, Moves DEF Outcomes, Excused
  <1>4. CASE Goto(l, "connection")
    BY <1>1, <1>2, <1>4, Moves DEF Outcomes, Excused
  <1> QED BY <1>3, <1>4 DEF Broken

LEMMA LeaveKeeps ==
  ASSUME IInv, NEW l \in Login, Leave(l) PROVE IInv'
  <1>1. Types
    BY AllFine
  <1>2. Types'
    BY <1>1 DEF Leave, Types, Goto, directory, Typed
  <1>3. Fine(l)'
    BY <1>1 DEF Leave, Fine, Types, Goto, Trips, Outcomes
  <1> QED BY <1>1, <1>2, <1>3, Others DEF Leave, Types, Goto, directory

\* The directory changes under running logins: what has been seen only grows.
LEMMA WorldKeeps ==
  ASSUME IInv, (\E p \in Person : EntryChanges(p)) \/ RootChanges \/ Silence
  PROVE  IInv'
  <1>1. Types /\ \A l \in Login : Fine(l)
    BY AllFine
  <1>2. ASSUME NEW p \in Person, EntryChanges(p) PROVE IInv'
    <2>1. PICK w \in Entry \ {entry[p]} :
            /\ entry' = [entry EXCEPT ![p] = w]
            /\ seen' = [l \in Login |-> IF pc[l] \in Trips
                                        THEN [seen[l] EXCEPT ![p] = @ \cup {w}]
                                        ELSE seen[l]]
      BY <1>2 DEF EntryChanges
    <2>2. UNCHANGED <<root, silent, base_dn, pc, typed, who, under, armed>>
      BY <1>2 DEF EntryChanges
    <2>3. Types'
      BY <1>1, <2>1, <2>2 DEF Types
    <2>4. \A l \in Login, q \in Person :
            /\ seen[l][q] \subseteq seen'[l][q]
            /\ pc[l] \notin Trips => seen'[l] = seen[l]
            /\ pc[l] \in Trips => entry'[q] \in seen'[l][q]
      BY <1>1, <2>1 DEF Types, Fine
    <2>5. ASSUME NEW l \in Login PROVE Fine(l)'
      <3>1. CASE pc[l] \in Trips
        BY <1>1, <2>2, <2>4, <3>1 DEF Fine, Trips, Outcomes
      <3>2. CASE pc[l] \notin Trips
        <4>1. seen'[l] = seen[l]
          BY <2>1, <3>2, <1>1 DEF Types
        <4>2. \A q \in Person : Rightful(l, q)' = Rightful(l, q)
          BY <2>2, <4>1 DEF Rightful
        <4>3. Excused(l, pc[l])' = Excused(l, pc[l])
          BY <2>2 DEF Excused
        <4> QED BY <1>1, <2>2, <3>2, <4>1, <4>2, <4>3 DEF Fine, Trips
      <3> QED BY <3>1, <3>2
    <2> QED BY <2>3, <2>5, AllFineNext
  <1>3. ASSUME RootChanges \/ Silence PROVE IInv'
    <2>1. Types'
      <3>1. CASE RootChanges
        BY <1>1, <3>1 DEF RootChanges, Types, history
      <3>2. CASE Silence
        <4>1. Faults /\ silent' \in BOOLEAN
          BY <3>2 DEF Silence
        <4>2. UNCHANGED <<entry, root, base_dn, pc, who, under, armed, typed, seen>>
          BY <3>2 DEF Silence, history
        <4> QED BY <1>1, <4>1, <4>2 DEF Types
      <3> QED BY <1>3, <3>1, <3>2
    <2>2. \A l \in Login : Fine(l)'
      BY <1>1, <1>3 DEF RootChanges, Silence, Fine, Rightful, Excused, history
    <2> QED BY <2>1, <2>2, AllFineNext
  <1> QED BY <1>2, <1>3

LEMMA NextKeeps == IInv /\ [Next]_vars => IInv'
  <1> SUFFICES ASSUME IInv, [Next]_vars PROVE IInv'
    OBVIOUS
  <1>1. ASSUME NEW l \in Login,
               login(l) \/ Step(l) \/ (Faults /\ Broken(l)) \/ Leave(l)
        PROVE  IInv'
    BY <1>1, LoginKeeps, DialKeeps, ServiceBindKeeps, ResolveKeeps, SearchKeeps,
       UserBindKeeps, DirectBindKeeps, BrokenKeeps, LeaveKeeps
    DEF Step, TimesOut, IInv, SilenceIsFault
  <1>2. CASE (\E p \in Person : EntryChanges(p)) \/ RootChanges \/ Silence
    BY <1>2, WorldKeeps
  <1>3. CASE UNCHANGED vars
    <2>1. Types /\ \A l \in Login : Fine(l)
      BY AllFine
    <2>2. Types'
      BY <1>3, <2>1 DEF Types, vars
    <2>3. \A l \in Login : Fine(l)'
      BY <1>3, <2>1 DEF Fine, Rightful, Excused, vars
    <2> QED BY <2>2, <2>3, AllFineNext
  <1> QED BY <1>1, <1>2, <1>3 DEF Next

\* The inductive invariant holds in every reachable state.
THEOREM Invariant == Spec => []IInv
  BY InitFine, NextKeeps, PTL DEF Spec

\* TypeOK: the type invariant of LdapLogin; no search runs without a base.
THEOREM TypeCorrect == Spec => []TypeOK
  <1>1. IInv => TypeOK
    BY DEF IInv
  <1> QED BY <1>1, Invariant, PTL

\* LoginIsVerified: who logs in had the password typed, in all three modes.
THEOREM LoginsAreVerified == Spec => []LoginIsVerified
  <1>1. IInv => LoginIsVerified
    BY DEF IInv
  <1> QED BY <1>1, Invariant, PTL

\* NobodySharesTheName: no login is given to one of two who share a name.
THEOREM NamesAreUnshared == Spec => []NobodySharesTheName
  <1>1. IInv => NobodySharesTheName
    BY DEF IInv, FoundAlone, NobodySharesTheName
  <1> QED BY <1>1, Invariant, PTL

\* RightPasswordIsTaken: whoever's password was right all the while gets in, or is
\* told of a fault; no change of others, and no other login, turns it into a refusal.
THEOREM RightPasswordsAreTaken == Spec => []RightPasswordIsTaken
  <1>1. IInv => RightPasswordIsTaken
    BY DEF IInv
  <1> QED BY <1>1, Invariant, PTL

\* NotFoundOnlyIfAbsent: so does UserNotFound.
THEOREM AbsencesAreReal == Spec => []NotFoundOnlyIfAbsent
  <1>1. IInv => NotFoundOnlyIfAbsent
    BY DEF IInv
  <1> QED BY <1>1, Invariant, PTL

\* BaseSettles: no login replaces a search base that another one has stored.
THEOREM BaseStays == Spec => BaseSettles
  <1>1. [Next]_vars => [base_dn # NoBase => base_dn' = base_dn]_vars
    BY DEF Next, vars, login, Step, dial, service_bind, resolve_base_dn, search_user,
           user_bind, direct_bind, TimesOut, Broken, Leave, EntryChanges, RootChanges,
           Silence
  <1> QED BY <1>1, PTL DEF Spec, BaseSettles
=============================================================================
