------------------------------ MODULE TokenLife ------------------------------
(***************************************************************************)
(* How long a sign-in lasts.                                               *)
(*                                                                         *)
(* A session row has an expiry, a refresh token has another, and access    *)
(* tokens are good for themselves: the API layer looks at nothing but      *)
(* their expiry and the roles they carry.  The three expiries come from    *)
(* different readings of the clock, tokens keep whole seconds and are      *)
(* given a leeway, and what a token says of the session and of the roles   *)
(* was read some awaits before it was signed.  This module follows one     *)
(* session of one user, without Redis, through all of that.                *)
(***************************************************************************)
EXTENDS Integers, FiniteSets

CONSTANTS
  Req,          \* concurrent sign-in and refresh requests
  Role,         \* role names
  Required,     \* the roles an API route asks for (AuthConfig.roles)
  Second,       \* clock ticks per second
  AccessLife,   \* access_token_duration, in ticks
  RefreshLife,  \* refresh_token_duration, in ticks
  Leeway,       \* jsonwebtoken's leeway on exp, in seconds
  MaxTime,      \* bound of the clock
  NoToken

ASSUME TokenLifeAssumption ==
  /\ Required \subseteq Role
  /\ Second \in Nat \ {0} /\ AccessLife \in Nat /\ RefreshLife \in Nat
  /\ Leeway \in Nat /\ MaxTime \in Nat
  /\ NoToken \notin Nat

VARIABLES
  now,      \* the clock, in ticks
  row,      \* the session: status and expires_at
  account,  \* SUBSET Role: users.roles
  refresh,  \* the exp of the session's refresh token, or NoToken
  access,   \* one of its access tokens, any of them
  pc,       \* [Req -> next await or outcome]
  read,     \* [Req -> what the sign-in has read: the clock and the roles]
  open,     \* [Req -> the session had not ended when it arrived] (ghost)
  held      \* [Req -> the user held a required role while it ran] (ghost)

vars == <<now, row, account, refresh, access, pc, read, open, held>>

Time    == 0 .. MaxTime
Awaits  == {"si_roles", "si_create", "si_sign", "check", "load"}
Unread  == [clock |-> 0, roles |-> {}]

\* `open` and `held` are those of the request that had the token signed.
Token   == [exp : Nat \cup {NoToken}, roles : SUBSET Role, open : BOOLEAN, held : BOOLEAN]
Unsigned == [exp |-> NoToken, roles |-> {}, open |-> TRUE, held |-> TRUE]

TypeOK ==
  /\ now     \in Time
  /\ row     \in [status : {"absent", "live", "deleted"}, expires : Nat]
  /\ account \in SUBSET Role
  /\ refresh \in Nat \cup {NoToken}
  /\ access  \in Token
  /\ pc      \in [Req -> Awaits \cup {"idle", "refused", "token_invalid"}]
  /\ read    \in [Req -> [clock : Time, roles : SUBSET Role]]
  /\ open    \in [Req -> BOOLEAN]
  /\ held    \in [Req -> BOOLEAN]

Init ==
  /\ now     = 0
  /\ row     = [status |-> "absent", expires |-> 0]
  /\ account \in SUBSET Role
  /\ refresh = NoToken
  /\ access  = Unsigned
  /\ pc      = [r \in Req |-> "idle"]
  /\ read    = [r \in Req |-> Unread]
  /\ open    = [r \in Req |-> FALSE]
  /\ held    = [r \in Req |-> FALSE]

-----------------------------------------------------------------------------
(* Helpers *)

Goto(r, label) == pc' = [pc EXCEPT ![r] = label]

Read(r, clock, grants) == read' = [read EXCEPT ![r] = [clock |-> clock, roles |-> grants]]

\* DateTime::timestamp: whole seconds.
timestamp(t) == t \div Second

\* validation: exp is compared in whole seconds, with a leeway.
validation(exp) == exp + Leeway >= timestamp(now)

\* session_usable: neither deleted nor past its expiry.
session_usable == row.status = "live" /\ now <= row.expires

\* get_role: one of the route's roles is among the grants.
get_role(grants) == Required \cap grants # {}

\* The claims of an access token signed now, for the roles given.
Claims(r, grants) ==
  [exp |-> timestamp(now + AccessLife), roles |-> grants, open |-> open[r], held |-> held[r]]

\* A request arrives, and ends.
Arrive(r, label) ==
  /\ pc[r] = "idle"
  /\ Goto(r, label)
  /\ open' = [open EXCEPT ![r] = row.status = "absent" \/ session_usable]
  /\ held' = [held EXCEPT ![r] = get_role(account)]

Finish(r) ==
  /\ Goto(r, "idle")
  /\ read' = [read EXCEPT ![r] = Unread]
  /\ open' = [open EXCEPT ![r] = FALSE]
  /\ held' = [held EXCEPT ![r] = FALSE]

-----------------------------------------------------------------------------
(* Authorization::authorize *)

\* The application, asked to sign the user in, hands over the roles it has just
\* read, or none.  The module follows the one session that comes of it.
authorize(r) ==
  /\ row.status = "absent"
  /\ \A q \in Req : pc[q] = "idle"
  /\ Arrive(r, "si_roles")
  /\ \E grants \in {account, {}} : Read(r, now, grants)
  /\ UNCHANGED <<now, row, account, refresh, access>>

\* The roles are read, or the query fails and those handed over stay;
\* create_session then reads the clock for expires_at.
authorize_roles(r) ==
  /\ pc[r] = "si_roles"
  /\ \E grants \in {account, read[r].roles} : Read(r, now, grants)
  /\ Goto(r, "si_create")
  /\ UNCHANGED <<now, row, account, refresh, access, open, held>>

\* The INSERT: from here on the application can see the row, and end it.
create_session(r) ==
  /\ pc[r] = "si_create"
  /\ row' = [status |-> "live", expires |-> read[r].clock + RefreshLife]
  /\ Goto(r, "si_sign")
  /\ UNCHANGED <<now, account, refresh, access, read, open, held>>

\* (mutant) both tokens are given the access token's lifetime
refresh_exp_short == timestamp(now + AccessLife)

refresh_exp == timestamp(now + RefreshLife)

\* sign_token_pair reads the clock again, once for both tokens.
sign_token_pair(r) ==
  /\ pc[r] = "si_sign"
  /\ refresh' = refresh_exp
  /\ access' = Claims(r, read[r].roles)
  /\ Finish(r)
  /\ UNCHANGED <<now, row, account>>

-----------------------------------------------------------------------------
(* refresh_response *)

\* extract_token: the expiry of the refresh token itself.
refresh_response(r) ==
  /\ refresh # NoToken
  /\ Arrive(r, IF validation(refresh) THEN "check" ELSE "token_invalid")
  /\ UNCHANGED <<now, row, account, refresh, access, read>>

\* (mutant) a refresh token that is still valid is enough
get_session_unchecked(r) ==
  /\ pc[r] = "check"
  /\ Goto(r, "load")
  /\ UNCHANGED <<now, row, account, refresh, access, read, open, held>>

\* get_session_from_db without Redis: the row, and whether it is usable.
get_session(r) ==
  /\ pc[r] = "check"
  /\ Goto(r, IF session_usable THEN "load" ELSE "refused")
  /\ UNCHANGED <<now, row, account, refresh, access, read, open, held>>

\* (mutant) the new token is given the roles of the old one
refresh_access_token_old_roles(r, grants) == Claims(r, access.roles)

refresh_access_token(r, grants) == Claims(r, grants)

\* The user is loaded, and the token signed for the roles found; the client of
\* the API goes on with it, or with the one it has.
load_session_user(r) ==
  /\ pc[r] = "load"
  /\ access' \in {access, refresh_access_token(r, account)}
  /\ Finish(r)
  /\ UNCHANGED <<now, row, account, refresh>>

\* The answer is delivered, a query fails, or the future is dropped.
Leave(r) ==
  /\ pc[r] # "idle"
  /\ Finish(r)
  /\ UNCHANGED <<now, row, account, refresh, access>>

-----------------------------------------------------------------------------
(* The application and the clock *)

Logout ==
  /\ row.status = "live"
  /\ row' = [row EXCEPT !.status = "deleted"]
  /\ UNCHANGED <<now, account, refresh, access, pc, read, open, held>>

ChangeRoles ==
  /\ account' \in SUBSET Role \ {account}
  /\ held' = [r \in Req |-> pc[r] # "idle" /\ (held[r] \/ get_role(account'))]
  /\ UNCHANGED <<now, row, refresh, access, pc, read, open>>

Tick ==
  /\ now < MaxTime
  /\ now' = now + 1
  /\ UNCHANGED <<row, account, refresh, access, pc, read, open, held>>

-----------------------------------------------------------------------------

Next ==
  \/ \E r \in Req :
       \/ authorize(r) \/ authorize_roles(r) \/ create_session(r) \/ sign_token_pair(r)
       \/ refresh_response(r) \/ get_session(r) \/ load_session_user(r) \/ Leave(r)
  \/ Logout \/ ChangeRoles \/ Tick

Spec == Init /\ [][Next]_vars

-----------------------------------------------------------------------------
(* What the API layer makes of the token it is shown. *)

parse_jwt == access.exp # NoToken /\ validation(access.exp)

api_outcome ==
  IF ~parse_jwt THEN "unauthorized"
  ELSE IF Required # {} /\ ~get_role(access.roles) THEN "forbidden"
  ELSE "ok"

-----------------------------------------------------------------------------
(* Properties *)

\* The API layer never asks the database, and yet lets nobody in on a token that
\* was asked for after the session had been deleted or had expired.
AccessEndsWithSession == api_outcome = "ok" => access.open

\* Nor on a token whose request found the required roles taken away from its
\* start to its end.
AccessEndsWithRole == api_outcome = "ok" /\ Required # {} => access.held

\* A genuine refresh token is only called invalid when its session has expired:
\* clients can take that answer for the end of the session.
RefreshEndsWithSession == refresh # NoToken /\ ~validation(refresh) => now > row.expires
=============================================================================
