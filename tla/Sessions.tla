------------------------------ MODULE Sessions ------------------------------
(***************************************************************************)
(* The session store of authrust and the requests that read it.            *)
(*                                                                         *)
(* A session is a row of the sessions table, trimmed copies of it live in  *)
(* Redis, and every request that presents a session id walks through       *)
(* get_session_from_db: cache, liveness re-check, role re-read, write-back,*)
(* or the database fallback.  Each .await of that walk is one step here,   *)
(* so any number of requests, logouts, role changes and cache losses       *)
(* interleave between any two of them.  Requests of four kinds run:        *)
(*   check    check_session          (refresh token, two liveness checks)  *)
(*   refresh  refresh_response       (refresh token)                       *)
(*   web      web_outcome            (session cookie)                      *)
(*   signin   authorize              (creates the row, signs the tokens)   *)
(* Time appears only as what it does: a row passes its expires_at, a cache *)
(* entry counts its TTL down.                                              *)
(***************************************************************************)
EXTENDS Naturals

CONSTANTS
  Sid,        \* session ids: the uuids create_session draws, never reused
  Uid,        \* application users
  Req,        \* concurrent requests (handler futures)
  Grants,     \* role lists a user may hold
  NoRoles,    \* the empty role list, a member of Grants
  NoUser,     \* the empty user id
  NoAccount,  \* what a deleted user's row holds
  NoSid,      \* no session id
  Miss,       \* no cache entry
  UseRedis,   \* whether Redis is configured (self.redis().is_some())
  CacheTtl    \* lifetime of a cache entry, in Redis clock ticks

User       == Uid \cup {NoUser}
CacheEntry == [user : Uid, roles : Grants, ttl : 1..CacheTtl]

ASSUME SessionsAssumption ==
  /\ NoRoles \in Grants
  /\ NoAccount \notin Grants
  /\ NoUser \notin Uid
  /\ NoSid \notin Sid
  /\ Miss \notin CacheEntry
  /\ UseRedis \in BOOLEAN
  /\ CacheTtl \in Nat \ {0}

VARIABLES
  row,      \* [Sid -> RowStatus]       the sessions table: is the row usable?
  owner,    \* [Sid -> User]            its user_id column
  account,  \* [Uid -> Grants or NoAccount]  the users table: the roles column
  cache,    \* [Sid -> CacheEntry or Miss]   Redis, by the key of the session
  tokens,   \* refresh tokens (and session cookies) handed out
  pc,       \* [Req -> next await or outcome]
  job,      \* [Req -> what the request presented]
  got,      \* [Req -> the session it has loaded so far]
  held      \* [Req -> roles its user had since it began] (ghost)

vars == <<row, owner, account, cache, tokens, pc, job, got, held>>

RowStatus == {"absent", "live", "expired", "deleted", "gone"}
Token     == [sid : Sid, user : User]
Lookups   == {"check_active", "redis_get", "hit_active", "hit_roles", "hit_set",
              "db_row", "db_user", "db_set"}
SignIns   == {"si_roles", "si_create", "si_sign"}
Running   == Lookups \cup SignIns
Refusals  == {"missing", "expired", "invalid"}
Outcomes  == Refusals \cup {"granted", "signed_in", "error"}
Job       == [kind  : {"none", "check", "refresh", "web", "signin"},
              sid   : Sid \cup {NoSid},
              owner : User,       \* ghost: the owner of the session at stake
              claim : User,       \* user_id of the refresh token's claims
              live  : BOOLEAN]    \* ghost: was the row live when it began?
Loaded    == [user   : User,
              roles  : Grants,
              unread : BOOLEAN]   \* ghost: the role query failed

NoJob    == [kind |-> "none", sid |-> NoSid, owner |-> NoUser, claim |-> NoUser,
             live |-> FALSE]
NoLoaded == [user |-> NoUser, roles |-> NoRoles, unread |-> FALSE]

TypeOK ==
  /\ row     \in [Sid -> RowStatus]
  /\ owner   \in [Sid -> User]
  /\ account \in [Uid -> Grants \cup {NoAccount}]
  /\ cache   \in [Sid -> CacheEntry \cup {Miss}]
  /\ tokens  \in SUBSET Token
  /\ pc      \in [Req -> Running \cup Outcomes \cup {"idle"}]
  /\ job     \in [Req -> Job]
  /\ got     \in [Req -> Loaded]
  /\ held    \in [Req -> SUBSET (Grants \cup {NoAccount})]

Init ==
  /\ row     = [s \in Sid |-> "absent"]
  /\ owner   = [s \in Sid |-> NoUser]
  /\ account \in [Uid -> Grants]
  /\ cache   = [s \in Sid |-> Miss]
  /\ tokens  = {}
  /\ pc      = [r \in Req |-> "idle"]
  /\ job     = [r \in Req |-> NoJob]
  /\ got     = [r \in Req |-> NoLoaded]
  /\ held    = [r \in Req |-> {}]

-----------------------------------------------------------------------------
(* Helpers *)

\* (mutant) the key without the session id: all sessions share one entry
build_redis_key_prefix_only(s) == CHOOSE k \in Sid : TRUE

\* The Redis key of a session: the prefix and the whole session id.
build_redis_key(s) == s

\* What SELECT ... WHERE is_deleted = false and session_usable make of a row.
session_usable(s) ==
  IF row[s] = "live" THEN "ok"
  ELSE IF row[s] = "expired" THEN "expired" ELSE "missing"

\* What the caller of get_session makes of a session that loaded: check_session
\* alone compares it with the user the refresh token names.
Verdict(r, user) ==
  IF job[r].kind = "check" /\ job[r].claim \notin {NoUser, user}
  THEN "invalid"
  ELSE "granted"

AccountExists(u) == u \in Uid /\ account[u] # NoAccount

RolesOf(u) == IF u = NoUser THEN {} ELSE {account[u]}

Goto(r, label) == pc' = [pc EXCEPT ![r] = label]

Reset(r) ==
  /\ Goto(r, "idle")
  /\ job'  = [job  EXCEPT ![r] = NoJob]
  /\ got'  = [got  EXCEPT ![r] = NoLoaded]
  /\ held' = [held EXCEPT ![r] = {}]
  /\ UNCHANGED <<row, owner, account, cache, tokens>>

-----------------------------------------------------------------------------
(* A request arrives *)

Begin(r, kind, t, label) ==
  /\ pc[r] = "idle"
  /\ Goto(r, label)
  /\ job'  = [job  EXCEPT ![r] = [kind |-> kind, sid |-> t.sid,
                                  owner |-> owner[t.sid], claim |-> t.user,
                                  live |-> row[t.sid] = "live"]]
  /\ held' = [held EXCEPT ![r] = RolesOf(owner[t.sid])]
  /\ UNCHANGED <<row, owner, account, cache, tokens, got>>

\* get_session_from_db asks Redis first when it is configured.
get_session == IF UseRedis THEN "redis_get" ELSE "db_row"

\* check_session with a refresh token whose signature and exp are valid.
check_session(r) == \E t \in tokens : Begin(r, "check", t, "check_active")

\* refresh_response: the same token, no liveness check of its own.
refresh_response(r) == \E t \in tokens : Begin(r, "refresh", t, get_session)

\* web_outcome with the session cookie that was set along with the tokens.
web_outcome(r) == \E t \in tokens : Begin(r, "web", t, get_session)

\* authorize: a user, or none, and the roles the sign-in resolved for it.
authorize(r) ==
  /\ pc[r] = "idle"
  /\ \E u \in User, g \in Grants :
       /\ Goto(r, IF u = NoUser THEN "si_create" ELSE "si_roles")
       /\ job'  = [job  EXCEPT ![r] = [kind |-> "signin", sid |-> NoSid, owner |-> u,
                                       claim |-> u, live |-> FALSE]]
       /\ got'  = [got  EXCEPT ![r] = [user |-> u, roles |-> g, unread |-> FALSE]]
       /\ held' = [held EXCEPT ![r] = RolesOf(u)]
  /\ UNCHANGED <<row, owner, account, cache, tokens>>

-----------------------------------------------------------------------------
(* The awaits of a lookup *)

\* ensure_session_active, called by check_session and by the cache-hit path.
ensure_session_active(r) ==
  /\ pc[r] \in {"check_active", "hit_active"}
  /\ LET usable == session_usable(job[r].sid)
         next   == IF pc[r] = "hit_active" THEN "hit_roles" ELSE get_session
     IN  Goto(r, IF usable = "ok" THEN next ELSE usable)
  /\ UNCHANGED <<row, owner, account, cache, tokens, job, got, held>>

\* get_session_from_redis: a hit goes on to the liveness re-check.
CacheHit(r, label) ==
  LET entry == cache[build_redis_key(job[r].sid)]
  IN  /\ entry # Miss
      /\ got' = [got EXCEPT ![r] = [user |-> entry.user, roles |-> entry.roles,
                                    unread |-> FALSE]]
      /\ Goto(r, label)

\* A miss, an entry that does not parse, or a Redis error: the database.
CacheMiss(r, label) ==
  /\ Goto(r, label)
  /\ UNCHANGED got

\* (mutant) a hit is not re-checked against the row
get_session_from_redis_unchecked(r) ==
  /\ pc[r] = "redis_get"
  /\ CacheHit(r, "hit_roles") \/ CacheMiss(r, "db_row")
  /\ UNCHANGED <<row, owner, account, cache, tokens, job, held>>

\* (mutant) what is not in Redis is no session
get_session_from_redis_no_fallback(r) ==
  /\ pc[r] = "redis_get"
  /\ CacheHit(r, "hit_active") \/ CacheMiss(r, "missing")
  /\ UNCHANGED <<row, owner, account, cache, tokens, job, held>>

\* (mutant) a miss asks Redis again
get_session_from_redis_retry(r) ==
  /\ pc[r] = "redis_get"
  /\ CacheHit(r, "hit_active") \/ CacheMiss(r, "redis_get")
  /\ UNCHANGED <<row, owner, account, cache, tokens, job, held>>

get_session_from_redis(r) ==
  /\ pc[r] = "redis_get"
  /\ CacheHit(r, "hit_active") \/ CacheMiss(r, "db_row")
  /\ UNCHANGED <<row, owner, account, cache, tokens, job, held>>

\* get_user_roles_from_db on the cache-hit path: a non-empty answer replaces the
\* cached roles and is written back; an empty or failed one keeps them.
FreshRoles(r) ==
  /\ account[got[r].user] \notin {NoAccount, NoRoles}
  /\ got' = [got EXCEPT ![r].roles = account[got[r].user]]
  /\ Goto(r, "hit_set")

EmptyRoles(r) ==
  /\ account[got[r].user] = NoRoles
  /\ Goto(r, Verdict(r, got[r].user))
  /\ UNCHANGED got

UnreadRoles(r) ==
  /\ got' = [got EXCEPT ![r].unread = TRUE]
  /\ Goto(r, Verdict(r, got[r].user))

\* (mutant) trusts the cached roles and writes them back, renewing the entry
get_user_roles_from_db_trusting(r) ==
  /\ pc[r] = "hit_roles"
  /\ Goto(r, "hit_set")
  /\ UNCHANGED <<row, owner, account, cache, tokens, job, got, held>>

get_user_roles_from_db(r) ==
  /\ pc[r] = "hit_roles"
  /\ FreshRoles(r) \/ EmptyRoles(r) \/ UnreadRoles(r)
  /\ UNCHANGED <<row, owner, account, cache, tokens, job, held>>

\* SELECT of the session row in the fallback, then session_usable.
select_session(r) ==
  /\ pc[r] = "db_row"
  /\ LET s == job[r].sid
     IN  IF session_usable(s) = "ok"
         THEN /\ got' = [got EXCEPT ![r].user = owner[s]]
              /\ Goto(r, "db_user")
         ELSE /\ Goto(r, session_usable(s))
              /\ UNCHANGED got
  /\ UNCHANGED <<row, owner, account, cache, tokens, job, held>>

\* (mutant) a user-less session becomes a guest with no roles
load_session_user_guest(r) ==
  /\ pc[r] = "db_user"
  /\ LET u == got[r].user
     IN  \/ /\ AccountExists(u)
            /\ got' = [got EXCEPT ![r].roles = account[u]]
            /\ Goto(r, IF UseRedis THEN "db_set" ELSE Verdict(r, u))
         \/ /\ ~AccountExists(u)
            /\ Goto(r, IF UseRedis THEN "db_set" ELSE Verdict(r, u))
            /\ UNCHANGED got
  /\ UNCHANGED <<row, owner, account, cache, tokens, job, held>>

\* load_session_user: no row is RowNotFound, which callers read as a missing
\* session; the empty id of a user-less session also fails on a uuid column.
load_session_user(r) ==
  /\ pc[r] = "db_user"
  /\ LET u == got[r].user
     IN  \/ /\ AccountExists(u)
            /\ got' = [got EXCEPT ![r].roles = account[u]]
            /\ Goto(r, IF UseRedis THEN "db_set" ELSE Verdict(r, u))
         \/ /\ ~AccountExists(u)
            /\ Goto(r, "missing")
            /\ UNCHANGED got
         \/ /\ u = NoUser
            /\ Goto(r, "error")
            /\ UNCHANGED got
  /\ UNCHANGED <<row, owner, account, cache, tokens, job, held>>

\* set_session_to_redis (SET EX): a failure is ignored by both callers.
set_session_to_redis(r) ==
  /\ pc[r] \in {"hit_set", "db_set"}
  /\ \/ cache' = [cache EXCEPT ![build_redis_key(job[r].sid)] =
                    [user |-> got[r].user, roles |-> got[r].roles,
                     ttl |-> CacheTtl]]
     \/ UNCHANGED cache
  /\ Goto(r, Verdict(r, got[r].user))
  /\ UNCHANGED <<row, owner, account, tokens, job, got, held>>

-----------------------------------------------------------------------------
(* The awaits of a sign-in *)

\* The roles query of authorize: a failure keeps the roles of the options.
authorize_roles(r) ==
  /\ pc[r] = "si_roles"
  /\ \/ /\ AccountExists(got[r].user)
        /\ got' = [got EXCEPT ![r].roles = account[got[r].user]]
     \/ got' = [got EXCEPT ![r].unread = TRUE]
  /\ Goto(r, "si_create")
  /\ UNCHANGED <<row, owner, account, cache, tokens, job, held>>

\* The INSERT of create_session: its foreign key needs the user's row; when the
\* reply is lost the row stays although the sign-in fails.
InsertSession(r, user) ==
  \E s \in Sid :
    /\ row[s] = "absent"
    /\ got[r].user = NoUser \/ AccountExists(got[r].user)
    /\ row'   = [row EXCEPT ![s] = "live"]
    /\ owner' = [owner EXCEPT ![s] = user]
    /\ \/ /\ Goto(r, "si_sign")
          /\ job' = [job EXCEPT ![r].sid = s]
       \/ /\ Goto(r, "error")
          /\ UNCHANGED job

\* (mutant) the user_id column is left out of the INSERT
create_session_userless(r) ==
  /\ pc[r] = "si_create"
  /\ InsertSession(r, NoUser)
  /\ UNCHANGED <<account, cache, tokens, got, held>>

create_session(r) ==
  /\ pc[r] = "si_create"
  /\ InsertSession(r, got[r].user)
  /\ UNCHANGED <<account, cache, tokens, got, held>>

\* sign_token_pair, and the answer that carries the pair and the cookie.
sign_token_pair(r) ==
  /\ pc[r] = "si_sign"
  /\ tokens' = tokens \cup {[sid |-> job[r].sid, user |-> got[r].user]}
  /\ Goto(r, "signed_in")
  /\ UNCHANGED <<row, owner, account, cache, job, got, held>>

\* A query, or the signing of the pair, fails where the error is passed on with
\* `?`: a sign-in that fails at its last step leaves its row behind.  That the new
\* access token cannot be signed after a lookup is left out: the request is answered
\* with an error then, and has been granted nothing.
Fails(r) ==
  /\ pc[r] \in {"check_active", "hit_active", "db_row", "db_user", "si_create",
               "si_sign"}
  /\ Goto(r, "error")
  /\ UNCHANGED <<row, owner, account, cache, tokens, job, got, held>>

\* The answer is delivered, or the client goes away and the future is dropped
\* at an await: what the request wrote so far stays written.
Respond(r) == pc[r] \in Outcomes /\ Reset(r)
Cancel(r)  == pc[r] \in Running  /\ Reset(r)

-----------------------------------------------------------------------------
(* The world around the requests *)

\* The clock passes the row's expires_at.
Expire(s) ==
  /\ row[s] = "live"
  /\ row' = [row EXCEPT ![s] = "expired"]
  /\ UNCHANGED <<owner, account, cache, tokens, pc, job, got, held>>

\* The application logs the session out: is_deleted := true.
Logout(s) ==
  /\ row[s] \in {"live", "expired"}
  /\ row' = [row EXCEPT ![s] = "deleted"]
  /\ UNCHANGED <<owner, account, cache, tokens, pc, job, got, held>>

\* Every running request of user u now also overlaps with u holding v.
HeldWith(u, v) ==
  [r \in Req |-> IF pc[r] \in Running /\ job[r].owner = u
                 THEN held[r] \cup {v} ELSE held[r]]

\* The application rewrites the roles column of a user.
ChangeRoles(u, v) ==
  /\ account[u] # NoAccount
  /\ account' = [account EXCEPT ![u] = v]
  /\ held' = HeldWith(u, v)
  /\ UNCHANGED <<row, owner, cache, tokens, pc, job, got>>

\* The user's row is deleted; ON DELETE CASCADE removes the user's sessions.
DeleteAccount(u) ==
  /\ account[u] # NoAccount
  /\ account' = [account EXCEPT ![u] = NoAccount]
  /\ row' = [s \in Sid |-> IF owner[s] = u /\ row[s] # "absent"
                           THEN "gone" ELSE row[s]]
  /\ held' = HeldWith(u, NoAccount)
  /\ UNCHANGED <<owner, cache, tokens, pc, job, got>>

\* A tick of the Redis clock on one entry; the last one removes it.
CacheAge(k) ==
  /\ cache[k] # Miss
  /\ cache' = [cache EXCEPT ![k] = IF cache[k].ttl > 1
                                   THEN [cache[k] EXCEPT !.ttl = @ - 1]
                                   ELSE Miss]
  /\ UNCHANGED <<row, owner, account, tokens, pc, job, got, held>>

\* Redis evicts the entry, is flushed or restarts.
CacheLoss(k) ==
  /\ cache[k] # Miss
  /\ cache' = [cache EXCEPT ![k] = Miss]
  /\ UNCHANGED <<row, owner, account, tokens, pc, job, got, held>>

-----------------------------------------------------------------------------

Arrive(r) == check_session(r) \/ refresh_response(r) \/ web_outcome(r) \/ authorize(r)

Lookup(r) ==
  \/ ensure_session_active(r)
  \/ get_session_from_redis(r)
  \/ get_user_roles_from_db(r)
  \/ select_session(r)
  \/ load_session_user(r)
  \/ set_session_to_redis(r)

SignIn(r) == authorize_roles(r) \/ create_session(r) \/ sign_token_pair(r)

Step(r) == Lookup(r) \/ SignIn(r) \/ Fails(r)

World ==
  \/ \E s \in Sid : Expire(s) \/ Logout(s) \/ CacheAge(s) \/ CacheLoss(s)
  \/ \E u \in Uid : DeleteAccount(u) \/ \E v \in Grants : ChangeRoles(u, v)

Next ==
  \/ \E r \in Req : Arrive(r) \/ Step(r) \/ Respond(r) \/ Cancel(r)
  \/ World

Spec == Init /\ [][Next]_vars

\* Every I/O future completes, with a result or an error, and its continuation
\* is polled; Redis' clock runs.  Clients, logouts and role changes owe nothing.
Fairness ==
  /\ \A r \in Req : WF_vars(Step(r))
  /\ \A k \in Sid : WF_vars(CacheAge(k))

FairSpec == Spec /\ Fairness

-----------------------------------------------------------------------------
(* Properties *)

\* A request is granted only if its session was live when the request began:
\* nothing, and no cache entry written late, revives a session that was logged
\* out, expired or deleted before (ensure_session_active on the hit path).
GrantWasLive == \A r \in Req : pc[r] = "granted" => job[r].live

\* The user a request acts as is the owner of the session row it named, whether
\* the answer came from Redis or from the database.
GrantIsOwner == \A r \in Req : pc[r] = "granted" => got[r].user = job[r].owner

\* A session is refused only when its row has ended, or has no user to load: a
\* Redis miss or failure never turns a live session away.
RefusedOnlyIfEnded ==
  \A r \in Req : pc[r] \in Refusals =>
    row[job[r].sid] # "live" \/ job[r].owner = NoUser

\* Roles older than the request are served only when the user held no roles at
\* some moment of the request, or the role query failed: the cases in which
\* get_session_from_db keeps the cached list.
StaleOnlyIfUnreadable ==
  \A r \in Req : pc[r] = "granted" /\ got[r].roles \notin held[r] =>
    got[r].unread \/ NoRoles \in held[r] \/ NoAccount \in held[r]

\* A granted request carries roles that its user held at some moment of it.
RolesUpToDate ==
  \A r \in Req : pc[r] = "granted" => got[r].roles \in held[r]

\* What check_session promises ("refreshes the access token with up-to-date
\* roles", session_check.rs:22), where the role query answered.
CheckSessionRolesUpToDate ==
  \A r \in Req :
    pc[r] = "granted" /\ job[r].kind = "check" /\ ~got[r].unread =>
    got[r].roles \in held[r]

\* A token pair that was handed out names a session row that was created for
\* the user the tokens name.
TokensNameTheirRow ==
  \A t \in tokens : row[t.sid] # "absent" /\ owner[t.sid] = t.user

\* Every request that arrives is answered or dropped.
EveryRequestEnds == \A r \in Req : (pc[r] \in Running) ~> (pc[r] \notin Running)

\* Once a user's roles stay revoked, Redis eventually holds no other roles for
\* that user's sessions: the stale path must not renew the entry's TTL.
RevocationSettles ==
  \A u \in Uid :
    <>[](account[u] = NoRoles) =>
    <>[](\A k \in Sid : cache[k] # Miss /\ cache[k].user = u
                        => cache[k].roles = NoRoles)
=============================================================================
