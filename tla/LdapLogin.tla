------------------------------ MODULE LdapLogin ------------------------------
(***************************************************************************)
(* Logins against an LDAP directory.                                       *)
(*                                                                         *)
(* A login is up to four round trips on a connection of its own: the bind  *)
(* of the service account, the search of the entry, the bind as that entry *)
(* with the password that was typed; or, in direct mode, the bind first    *)
(* and the search after it, under a search base that may have to be read   *)
(* from the directory and is then shared by all logins.  Between any two   *)
(* of them passwords change, entries come and go, the connection breaks or *)
(* the directory falls silent.                                             *)
(***************************************************************************)
EXTENDS Naturals, FiniteSets

CONSTANTS
  Login,       \* concurrent calls of Client::login
  Person,      \* entries, by dn
  Name,        \* usernames
  Password,
  Base,        \* naming contexts
  BaseOf,      \* [Person -> Base] where an entry lives
  Modes,       \* how the application's clients are configured to log in
  NameOf,      \* [Modes -> [Person -> Name]] the attribute user_filter looks at
  BaseDn,      \* [Modes -> the configured search base, or NoBase]
  Faults,      \* whether connections break and the directory refuses or hangs
  Absent,      \* no entry
  Locked,      \* an entry that is found, and whose binds are refused whatever the
               \* password: locked, disabled, expired
  NoBase, NoName, NoPassword, NoPerson

Entry == Password \cup {Absent, Locked}

ASSUME LdapAssumption ==
  /\ Modes \subseteq {"service", "anonymous", "direct"}
  /\ NameOf \in [Modes -> [Person -> Name]] /\ BaseOf \in [Person -> Base]
  /\ BaseDn \in [Modes -> Base \cup {NoBase}]
  /\ \A m \in Modes \ {"direct"} : BaseDn[m] \in Base    \* Client::new
  /\ "direct" \in Modes =>                              \* principals are unique
       \A p, q \in Person : NameOf["direct"][p] = NameOf["direct"][q] => p = q
  /\ Faults \in BOOLEAN
  /\ NoBase \notin Base /\ NoName \notin Name
  /\ NoPerson \notin Person
  /\ Absent \notin Password /\ Locked \notin Password /\ Absent # Locked
  /\ NoPassword \notin Entry

VARIABLES
  entry,    \* [Person -> Entry]   the directory: the password of an entry
  root,     \* what the RootDSE names as search base: Base or NoBase
  silent,   \* the directory accepts connections and answers nothing
  base_dn,  \* the OnceCell of the direct client: Base or NoBase
  pc,       \* [Login -> next round trip or outcome]
  typed,    \* [Login -> the client it is on, the username and password given]
  who,      \* [Login -> the person whose entry or bind it holds]
  under,    \* [Login -> the base it searches]
  armed,    \* [Login -> whether the timeout applies to the next operation]
  seen      \* [Login -> [Person -> what the entry was while the login ran]] (ghost)

vars == <<entry, root, silent, base_dn, pc, typed, who, under, armed, seen>>

Trips    == {"dial", "service_bind", "resolve", "search", "user_bind", "direct_bind"}
Outcomes == {"ok", "invalid", "invalid_detail", "not_found", "ambiguous",
             "connection", "config"}
\* NoPassword: the password, or the name, is empty.
Typed    == [mode : Modes, name : Name, password : Password \cup {NoPassword}]
Nothing  == [mode |-> "none", name |-> NoName, password |-> NoPassword]

TypeOK ==
  /\ entry   \in [Person -> Entry]
  /\ root    \in Base \cup {NoBase}
  /\ silent  \in BOOLEAN
  /\ base_dn \in Base \cup {NoBase}
  /\ pc      \in [Login -> Trips \cup Outcomes \cup {"idle"}]
  /\ typed   \in [Login -> Typed \cup {Nothing}]
  /\ who     \in [Login -> Person \cup {NoPerson}]
  /\ under   \in [Login -> Base \cup {NoBase}]
  /\ armed   \in [Login -> BOOLEAN]
  /\ seen    \in [Login -> [Person -> SUBSET Entry]]
  /\ \A l \in Login : pc[l] # "idle" => typed[l] \in Typed
  /\ \A l \in Login : pc[l] = "search" => under[l] \in Base
  /\ \A l \in Login : pc[l] = "user_bind" => who[l] \in Person

Init ==
  /\ entry   \in [Person -> Entry]
  /\ root    \in Base \cup {NoBase}
  /\ silent  = FALSE
  /\ base_dn = NoBase
  /\ pc      = [l \in Login |-> "idle"]
  /\ typed   = [l \in Login |-> Nothing]
  /\ who     = [l \in Login |-> NoPerson]
  /\ under   = [l \in Login |-> NoBase]
  /\ armed   = [l \in Login |-> FALSE]
  /\ seen    = [l \in Login |-> [p \in Person |-> {}]]

-----------------------------------------------------------------------------
(* Helpers *)

Goto(l, label) == pc' = [pc EXCEPT ![l] = label]

directory == <<entry, root, silent>>
history   == <<typed, seen>>

\* The round trip of l comes back: the timeout was for this one only.
Answered(l, trip) ==
  /\ pc[l] = trip
  /\ ~silent
  /\ armed' = [armed EXCEPT ![l] = FALSE]
  /\ UNCHANGED <<directory, history>>

\* Whom the search of l finds: the entries below its base that match the filter,
\* which has a place for the name.
format_user_filter(l) ==
  {p \in Person : /\ entry[p] # Absent
                  /\ NameOf[typed[l].mode][p] = typed[l].name
                  /\ BaseOf[p] = under[l]}

\* After a bind: the search, or first the base when none is configured or known.
ToSearch(l) ==
  LET given == BaseDn[typed[l].mode]
      b     == IF given # NoBase THEN given ELSE base_dn
  IN  /\ Goto(l, IF b = NoBase THEN "resolve" ELSE "search")
      /\ under' = [under EXCEPT ![l] = b]

\* Whom a bind of l is as: the entry found, or whoever has the name typed.
BindsAs(l) ==
  {p \in Person : IF typed[l].mode = "direct"
                  THEN NameOf["direct"][p] = typed[l].name ELSE p = who[l]}

\* The bind of p is accepted.
Accepted(l, p) == p \in BindsAs(l) /\ entry[p] = typed[l].password

\* (mutant) whatever the result code, the credentials are wrong
bind_failure_any_rc(l) ==
  /\ Faults \/ \A p \in Person : ~Accepted(l, p)
  /\ Goto(l, "invalid")

\* bind_failure: which of the two errors it is hangs on the result code.  49 and 34
\* are for a bind that is not accepted, be it for the password, the name or the
\* state of the account, which a directory may also refuse with another code; the
\* other codes are also for a directory that is busy, or wants another protocol.
bind_failure(l) ==
  \/ /\ \A p \in Person : ~Accepted(l, p)
     /\ \E label \in {"invalid", "invalid_detail"} : Goto(l, label)
  \/ Faults /\ Goto(l, "invalid_detail")

-----------------------------------------------------------------------------
(* Client::login *)

login(l) ==
  /\ pc[l] = "idle"
  /\ \E t \in Typed :
       /\ typed' = [typed EXCEPT ![l] = t]
       /\ seen'  = [seen  EXCEPT ![l] = [p \in Person |-> {entry[p]}]]
       /\ Goto(l, IF t.password = NoPassword THEN "invalid" ELSE "dial")
  /\ UNCHANGED <<directory, base_dn, who, under, armed>>

\* dial has a timeout of its own; a connection arms the one for what follows.
dial(l) ==
  /\ pc[l] = "dial"
  /\ \/ /\ armed' = [armed EXCEPT ![l] = TRUE]
        /\ \/ typed[l].mode = "direct" /\ Goto(l, "direct_bind") /\ UNCHANGED under
           \/ typed[l].mode = "service" /\ Goto(l, "service_bind") /\ UNCHANGED under
           \/ typed[l].mode = "anonymous" /\ ToSearch(l)
     \/ Faults /\ Goto(l, "connection") /\ UNCHANGED <<armed, under>>
  /\ UNCHANGED <<directory, history, base_dn, who>>

\* The service account is accepted, or not (service_bind_error).
service_bind(l) ==
  /\ Answered(l, "service_bind")
  /\ \/ ToSearch(l)
     \/ Faults /\ Goto(l, "connection") /\ UNCHANGED under
  /\ UNCHANGED <<base_dn, who>>

\* (mutant) the loser of the race replaces the base of the winner
resolve_base_dn_last_wins(l) ==
  /\ Answered(l, "resolve")
  /\ \/ /\ root # NoBase
        /\ base_dn' = root
        /\ under' = [under EXCEPT ![l] = root]
        /\ Goto(l, "search")
     \/ root = NoBase /\ Goto(l, "config") /\ UNCHANGED <<base_dn, under>>
     \/ Faults /\ Goto(l, "connection") /\ UNCHANGED <<base_dn, under>>
  /\ UNCHANGED who

\* discover_base_dn, then OnceCell::set, which keeps what is already there: the
\* login goes on with what it read itself.
resolve_base_dn(l) ==
  /\ Answered(l, "resolve")
  /\ \/ /\ root # NoBase
        /\ base_dn' = IF base_dn = NoBase THEN root ELSE base_dn
        /\ under' = [under EXCEPT ![l] = root]
        /\ Goto(l, "search")
     \/ root = NoBase /\ Goto(l, "config") /\ UNCHANGED <<base_dn, under>>
     \/ Faults /\ Goto(l, "connection") /\ UNCHANGED <<base_dn, under>>
  /\ UNCHANGED who

\* What is done with the only entry found: in direct mode the user is bound
\* already, otherwise it is the one to bind as.
Found(l, p) ==
  /\ who' = [who EXCEPT ![l] = p]
  /\ Goto(l, IF typed[l].mode = "direct" THEN "ok" ELSE "user_bind")

\* Nobody is found: in direct mode the bind identity has to do as a user.
FoundNobody(l) ==
  /\ Goto(l, IF typed[l].mode = "direct" THEN "ok" ELSE "not_found")
  /\ UNCHANGED who

\* (mutant) a search that fails is an empty one
search_user_failure_is_empty(l) ==
  /\ Answered(l, "search")
  /\ LET match == format_user_filter(l)
     IN  \/ \E p \in match : match = {p} /\ Found(l, p)
         \/ FoundNobody(l)
  /\ UNCHANGED <<base_dn, under>>

\* (mutant) the first of the entries is taken
search_user_first(l) ==
  /\ Answered(l, "search")
  /\ LET match == format_user_filter(l)
     IN  \/ match = {} /\ FoundNobody(l)
         \/ \E p \in match : Found(l, p)
         \/ Faults /\ Goto(l, "connection") /\ UNCHANGED who
  /\ UNCHANGED <<base_dn, under>>

\* search_user asks for one entry at most: more of them make the directory
\* report an exceeded limit, an error like any other; only a directory that
\* ignores the limit lets the client see two.
search_user(l) ==
  /\ Answered(l, "search")
  /\ LET match == format_user_filter(l)
     IN  \/ match = {} /\ FoundNobody(l)
         \/ \E p \in match : match = {p} /\ Found(l, p)
         \/ Cardinality(match) > 1 /\ Goto(l, "ambiguous") /\ UNCHANGED who
         \/ Cardinality(match) > 1 /\ Goto(l, "connection") /\ UNCHANGED who
         \/ Faults /\ Goto(l, "connection") /\ UNCHANGED who
  /\ UNCHANGED <<base_dn, under>>

\* (mutant) the result code of the bind is not looked at
user_bind_unread_rc(l) ==
  /\ Answered(l, "user_bind")
  /\ Goto(l, "ok")
  /\ UNCHANGED <<base_dn, who, under>>

\* The bind as the entry that was found.
user_bind(l) ==
  /\ Answered(l, "user_bind")
  /\ \/ Accepted(l, who[l]) /\ Goto(l, "ok")
     \/ bind_failure(l)
  /\ UNCHANGED <<base_dn, who, under>>

\* login_direct: the bind as the identity made of the username.
direct_bind(l) ==
  /\ Answered(l, "direct_bind")
  /\ \/ \E p \in Person :
          /\ Accepted(l, p)
          /\ who' = [who EXCEPT ![l] = p]
          /\ ToSearch(l)
     \/ bind_failure(l) /\ UNCHANGED <<who, under>>
  /\ UNCHANGED base_dn

\* How a broken round trip is reported: for the user's bind as a credentials
\* error with a detail.
Broken(l) ==
  /\ pc[l] \in Trips \ {"dial"}
  /\ Goto(l, IF pc[l] \in {"user_bind", "direct_bind"} THEN "invalid_detail"
             ELSE "connection")
  /\ armed' = [armed EXCEPT ![l] = FALSE]
  /\ UNCHANGED <<directory, history, base_dn, who, under>>

\* The timeout of the operation runs out.
TimesOut(l) == silent /\ armed[l] /\ Broken(l)

\* The answer is given; or the future is dropped, and its connection with it.
Leave(l) ==
  /\ pc[l] # "idle"
  /\ Goto(l, "idle")
  /\ typed' = [typed EXCEPT ![l] = Nothing]
  /\ who'   = [who   EXCEPT ![l] = NoPerson]
  /\ under' = [under EXCEPT ![l] = NoBase]
  /\ armed' = [armed EXCEPT ![l] = FALSE]
  /\ seen'  = [seen  EXCEPT ![l] = [p \in Person |-> {}]]
  /\ UNCHANGED <<directory, base_dn>>

-----------------------------------------------------------------------------
(* The directory *)

\* A password is set, an entry is removed or created again.
EntryChanges(p) ==
  /\ \E w \in Entry \ {entry[p]} :
       /\ entry' = [entry EXCEPT ![p] = w]
       /\ seen' = [l \in Login |-> IF pc[l] \in Trips
                                   THEN [seen[l] EXCEPT ![p] = @ \cup {w}]
                                   ELSE seen[l]]
  /\ UNCHANGED <<root, silent, base_dn, pc, typed, who, under, armed>>

\* Another server, or another configuration, answers for the RootDSE.
RootChanges ==
  /\ root' \in (Base \cup {NoBase}) \ {root}
  /\ UNCHANGED <<entry, silent, base_dn, pc, who, under, armed, history>>

\* The directory hangs, or is back.
Silence ==
  /\ Faults
  /\ silent' = ~silent
  /\ UNCHANGED <<entry, root, base_dn, pc, who, under, armed, history>>

-----------------------------------------------------------------------------

Step(l) ==
  \/ dial(l) \/ service_bind(l) \/ resolve_base_dn(l) \/ search_user(l)
  \/ user_bind(l) \/ direct_bind(l) \/ TimesOut(l)

Next ==
  \/ \E l \in Login : login(l) \/ Step(l) \/ (Faults /\ Broken(l)) \/ Leave(l)
  \/ \E p \in Person : EntryChanges(p)
  \/ RootChanges \/ Silence

Spec == Init /\ [][Next]_vars

\* A directory that is not silent answers, timeouts fire, futures are polled.
FairSpec == Spec /\ \A l \in Login : WF_vars(Step(l))

-----------------------------------------------------------------------------
(* Properties *)

\* A login succeeds only for a person whose password it was at some moment of
\* the login, whatever changed between its round trips.
LoginIsVerified ==
  \A l \in Login : pc[l] = "ok" =>
    who[l] \in Person /\ typed[l].password \in seen[l][who[l]]

\* A login succeeds only under a name that the person did not share, all the while,
\* with anybody below the base that was searched: the client never has to choose,
\* though it asks for one entry and so hardly ever sees that there are two.
NobodySharesTheName ==
  \A l \in Login : pc[l] = "ok" =>
    \A q \in Person \ {who[l]} :
      NameOf[typed[l].mode][q] = typed[l].name /\ BaseOf[q] = under[l] => Absent \in seen[l][q]

\* The person whose password was typed, and was right all through the login, under
\* a name that nobody below the base that is searched had meanwhile.
Rightful(l, p) ==
  LET m == typed[l].mode IN
  /\ NameOf[m][p] = typed[l].name
  /\ seen[l][p] = {typed[l].password}
  /\ m # "direct" =>
       /\ BaseOf[p] = BaseDn[m]
       /\ \A q \in Person \ {p} :
            NameOf[m][q] = typed[l].name /\ BaseOf[q] = BaseDn[m] => seen[l][q] = {Absent}

\* Whoever's password was right all the while is let in, whatever happens to
\* others, to the RootDSE and in other logins: never a wrong password, a user
\* that is not found or one of several.  Only a fault can come between, and it is
\* called one; or, for a client that has to ask for its base, that there is none.
RightPasswordIsTaken ==
  \A l \in Login, p \in Person : pc[l] \in Outcomes /\ Rightful(l, p) =>
    \/ pc[l] = "ok" /\ who[l] = p
    \/ pc[l] \in {"connection", "invalid_detail"} /\ Faults
    \/ pc[l] = "config" /\ typed[l].mode = "direct" /\ BaseDn["direct"] = NoBase

\* UserNotFound is only answered when no entry of that name below the base that
\* was searched was there all through the login.
NotFoundOnlyIfAbsent ==
  \A l \in Login : pc[l] = "not_found" =>
    \A p \in Person :
      NameOf[typed[l].mode][p] = typed[l].name /\ BaseOf[p] = under[l] =>
        Absent \in seen[l][p]

\* Concurrent first logins settle on one search base: once it is stored it stays.
BaseSettles == [][base_dn # NoBase => base_dn' = base_dn]_vars

\* What mod.rs:98 says of the timeout, that it "applies to dial, bind and search
\* operations": every login ends, whatever the directory does.
EveryLoginEnds == \A l \in Login : pc[l] \in Trips ~> pc[l] \notin Trips
=============================================================================
