--------------------------- MODULE SessionsProofs ---------------------------
(***************************************************************************)
(* Proofs about Sessions for every number of sessions, users, requests and *)
(* role lists, with or without Redis.                                      *)
(*                                                                         *)
(* None of the safety properties is inductive: that a granted request has  *)
(* seen its session live, say, needs that the liveness query was asked of  *)
(* the row the request named, that a row never comes back to life, and     *)
(* that whatever sits in Redis belongs to the owner of that row.  IInv     *)
(* collects these facts, part by part.                                     *)
(***************************************************************************)
EXTENDS SessionsRefine, TLAPS

\* The awaits that only a request whose liveness query passed can reach.
Passed == {"hit_roles", "hit_set", "db_user", "db_set", "granted"}
Hit    == {"hit_active", "hit_roles", "hit_set"}

\* Redis holds entries of existing rows only, under the row's owner.
CacheInv ==
  \A s \in Sid : cache[s] # Miss => row[s] # "absent" /\ cache[s].user = owner[s]

\* The foreign key: the sessions of a deleted user are gone.
CascadeInv ==
  \A s \in Sid : owner[s] \in Uid /\ account[owner[s]] = NoAccount
                 => row[s] \in {"absent", "gone"}

\* What a request is about does not change under it, and what was dead when it
\* began is dead.
JobOK(r) ==
  IsLookup(r) =>
    /\ job[r].sid \in Sid
    /\ row[job[r].sid] # "absent"
    /\ owner[job[r].sid] = job[r].owner
    /\ job[r].claim = job[r].owner
    /\ ~job[r].live => row[job[r].sid] # "live"

(* What request r must satisfy to stand at await l with g loaded. *)

\* Which kind of request is at which await.
KindOK(r, l) ==
  /\ l \in Lookups \cup Refusals \cup {"granted"} => IsLookup(r)
  /\ l \in SignIns \cup {"signed_in"} => job[r].kind = "signin"
  /\ l = "idle" => job[r].kind = "none"
  /\ ~UseRedis => l \notin Hit \cup {"redis_get", "db_set"}

\* What a request has loaded belongs to the session it named.
LoadOK(r, l, g) ==
  /\ l \in Passed \cup Hit \cup SignIns => g.user = job[r].owner
  /\ l \in Hit \cup {"db_set", "si_roles"} => g.user \in Uid
  /\ l = "si_sign" => /\ job[r].sid \in Sid
                      /\ row[job[r].sid] # "absent"
                      /\ owner[job[r].sid] = g.user

\* Past the liveness query, the session was live when the request began.
LiveOK(r, l) == l \in Passed => job[r].live

\* A refusal is given to a request whose session has ended or has no user.
RefuseOK(r, l) ==
  l \in Refusals => row[job[r].sid] # "live" \/ job[r].owner = NoUser

\* The ghost held follows the users table; a list about to be written to Redis
\* is one of it, and so are the roles of a grant unless the query left them.
HeldOK(r, l, g) ==
  /\ l \in Running /\ job[r].owner \in Uid => account[job[r].owner] \in held[r]
  /\ l \in {"hit_set", "db_set"} => g.roles \in held[r]
  /\ l = "granted" => \/ g.roles \in held[r]
                      \/ UseRedis /\ (g.unread \/ NoRoles \in held[r])

Fits(r, l, g) ==
  KindOK(r, l) /\ LoadOK(r, l, g) /\ LiveOK(r, l) /\ RefuseOK(r, l) /\ HeldOK(r, l, g)

IInv ==
  /\ TypeOK
  /\ CacheInv
  /\ CascadeInv
  /\ TokensNameTheirRow
  /\ \A r \in Req : JobOK(r)
  /\ \A r \in Req : Fits(r, pc[r], got[r])

-----------------------------------------------------------------------------
(* Steps of a request *)

\* A step that moves request r to await l with g loaded, and writes nothing
\* else, keeps the invariant when l and g fit.
LEMMA QuietStep ==
  ASSUME IInv, NEW r \in Req,
         NEW l \in Running \cup Outcomes \cup {"idle"}, NEW g \in Loaded,
         UNCHANGED <<row, owner, account, cache, tokens, job, held>>,
         pc'  = [pc  EXCEPT ![r] = l],
         got' = [got EXCEPT ![r] = g],
         Fits(r, l, g)
  PROVE  IInv'
<1>1. TypeOK'
  BY DEF IInv, TypeOK
<1>2. CacheInv' /\ CascadeInv' /\ TokensNameTheirRow'
  BY DEF IInv, CacheInv, CascadeInv, TokensNameTheirRow
<1>3. \A q \in Req : JobOK(q)'
  BY DEF IInv, JobOK, IsLookup
<1>4. ASSUME NEW q \in Req PROVE Fits(q, pc[q], got[q])'
  <2>1. Fits(q, pc'[q], got'[q])
    BY DEF IInv, TypeOK
  <2>2. QED
    BY <2>1 DEF Fits, KindOK, LoadOK, LiveOK, RefuseOK, HeldOK, IsLookup
<1>5. QED
  BY <1>1, <1>2, <1>3, <1>4 DEF IInv

LEMMA EnsureSessionActiveStep ==
  ASSUME IInv, NEW r \in Req, ensure_session_active(r)
  PROVE  IInv'
<1> DEFINE l == pc'[r]
<1>1. /\ l \in Running \cup Outcomes \cup {"idle"}
      /\ pc' = [pc EXCEPT ![r] = l]
      /\ got' = [got EXCEPT ![r] = got[r]]
      /\ got[r] \in Loaded
  BY DEF IInv, TypeOK, ensure_session_active, Goto, session_usable, get_session,
         Running, Outcomes, Lookups, Refusals
<1>2. KindOK(r, l) /\ LoadOK(r, l, got[r])
  BY DEF IInv, TypeOK, ensure_session_active, Goto, session_usable, get_session, Fits,
         KindOK, LoadOK, Lookups, Refusals, SignIns, Passed, Hit
<1>3. LiveOK(r, l) /\ RefuseOK(r, l)
  BY DEF IInv, TypeOK, ensure_session_active, Goto, session_usable, get_session, Fits,
         KindOK, JobOK, LiveOK, RefuseOK, Lookups, Refusals, Passed
<1>4. HeldOK(r, l, got[r])
  BY DEF IInv, TypeOK, ensure_session_active, Goto, session_usable, get_session, Fits,
         HeldOK, Running, Lookups
<1>5. QED
  BY <1>1, <1>2, <1>3, <1>4, QuietStep DEF ensure_session_active, Fits

LEMMA GetSessionFromRedisStep ==
  ASSUME IInv, NEW r \in Req, get_session_from_redis(r)
  PROVE  IInv'
<1>0. pc[r] = "redis_get" /\ IsLookup(r) /\ UseRedis
  BY DEF get_session_from_redis, IInv, Fits, KindOK, Lookups
<1>1. CASE CacheHit(r, "hit_active")
  <2> DEFINE entry == cache[job[r].sid]
             g == [user |-> entry.user, roles |-> entry.roles, unread |-> FALSE]
  <2>1. /\ entry \in CacheEntry
        /\ entry.user = job[r].owner
        /\ got' = [got EXCEPT ![r] = g]
        /\ pc' = [pc EXCEPT ![r] = "hit_active"]
    BY <1>0, <1>1 DEF CacheHit, Goto, build_redis_key, IInv, TypeOK, JobOK, CacheInv
  <2>2. g \in Loaded /\ g.user \in Uid
    BY <2>1 DEF Loaded, CacheEntry, User
  <2>3. Fits(r, "hit_active", g)
    BY <1>0, <2>1, <2>2 DEF IInv, Fits, KindOK, LoadOK, LiveOK, RefuseOK, HeldOK, Lookups,
       SignIns, Refusals, Passed, Hit, Running
  <2>4. QED
    BY <2>1, <2>2, <2>3, QuietStep DEF get_session_from_redis, Running, Lookups
<1>2. CASE CacheMiss(r, "db_row")
  <2>1. /\ got' = [got EXCEPT ![r] = got[r]]
        /\ got[r] \in Loaded
        /\ pc' = [pc EXCEPT ![r] = "db_row"]
    BY <1>2 DEF CacheMiss, Goto, IInv, TypeOK
  <2>2. Fits(r, "db_row", got[r])
    BY <1>0 DEF IInv, Fits, KindOK, LoadOK, LiveOK, RefuseOK, HeldOK, Lookups,
       SignIns, Refusals, Passed, Hit, Running
  <2>3. QED
    BY <2>1, <2>2, QuietStep DEF get_session_from_redis, Running, Lookups
<1>3. QED
  BY <1>1, <1>2 DEF get_session_from_redis

\* What the caller makes of a session that loaded under its owner: a grant,
\* since tokens name the owner.
LEMMA VerdictGranted ==
  ASSUME IInv, NEW r \in Req, IsLookup(r), got[r].user = job[r].owner
  PROVE  Verdict(r, got[r].user) = "granted"
BY DEF Verdict, IInv, JobOK

LEMMA GetUserRolesFromDbStep ==
  ASSUME IInv, NEW r \in Req, get_user_roles_from_db(r)
  PROVE  IInv'
<1>1. /\ pc[r] = "hit_roles" /\ IsLookup(r) /\ UseRedis
      /\ got[r] \in Loaded /\ got[r].user \in Uid /\ got[r].user = job[r].owner
      /\ job[r].live
      /\ account[got[r].user] \in held[r]
      /\ account[got[r].user] \in Grants \cup {NoAccount}
  BY DEF get_user_roles_from_db, IInv, TypeOK, Fits, KindOK, LoadOK, LiveOK, HeldOK,
         Lookups, Passed, Hit, Running
<1>2. Verdict(r, got[r].user) = "granted"
  BY <1>1, VerdictGranted
<1>3. CASE FreshRoles(r)
  <2> DEFINE g == [got[r] EXCEPT !.roles = account[got[r].user]]
  <2>1. /\ got' = [got EXCEPT ![r] = g]
        /\ pc' = [pc EXCEPT ![r] = "hit_set"]
        /\ g \in Loaded /\ g.user = got[r].user /\ g.roles = account[got[r].user]
    BY <1>1, <1>3 DEF FreshRoles, Goto, Loaded
  <2>2. Fits(r, "hit_set", g)
    BY <1>1, <2>1 DEF IInv, Fits, KindOK, LoadOK, LiveOK, RefuseOK, HeldOK, Lookups,
       SignIns, Refusals, Passed, Hit, Running
  <2>3. QED
    BY <2>1, <2>2, QuietStep DEF get_user_roles_from_db, Running, Lookups
<1>4. CASE EmptyRoles(r)
  <2>1. /\ got' = [got EXCEPT ![r] = got[r]]
        /\ pc' = [pc EXCEPT ![r] = "granted"]
        /\ NoRoles \in held[r]
    BY <1>1, <1>2, <1>4 DEF EmptyRoles, Goto, IInv, TypeOK
  <2>2. Fits(r, "granted", got[r])
    BY <1>1, <2>1 DEF IInv, Fits, KindOK, LoadOK, LiveOK, RefuseOK, HeldOK, Lookups,
       SignIns, Refusals, Passed, Hit, Running
  <2>3. QED
    BY <1>1, <2>1, <2>2, QuietStep DEF get_user_roles_from_db, Outcomes
<1>5. CASE UnreadRoles(r)
  <2> DEFINE g == [got[r] EXCEPT !.unread = TRUE]
  <2>1. /\ got' = [got EXCEPT ![r] = g]
        /\ pc' = [pc EXCEPT ![r] = "granted"]
        /\ g \in Loaded /\ g.user = got[r].user /\ g.unread
    BY <1>1, <1>2, <1>5 DEF UnreadRoles, Goto, Loaded
  <2>2. Fits(r, "granted", g)
    BY <1>1, <2>1 DEF IInv, Fits, KindOK, LoadOK, LiveOK, RefuseOK, HeldOK, Lookups,
       SignIns, Refusals, Passed, Hit, Running
  <2>3. QED
    BY <2>1, <2>2, QuietStep DEF get_user_roles_from_db, Outcomes
<1>6. QED
  BY <1>3, <1>4, <1>5 DEF get_user_roles_from_db

LEMMA SelectSessionStep ==
  ASSUME IInv, NEW r \in Req, select_session(r)
  PROVE  IInv'
<1> DEFINE s == job[r].sid
<1>1. /\ pc[r] = "db_row" /\ IsLookup(r) /\ got[r] \in Loaded
      /\ s \in Sid /\ owner[s] = job[r].owner /\ owner[s] \in User
      /\ ~job[r].live => row[s] # "live"
  BY DEF select_session, IInv, TypeOK, JobOK, Fits, KindOK, Lookups
<1>2. CASE session_usable(s) = "ok"
  <2> DEFINE g == [got[r] EXCEPT !.user = owner[s]]
  <2>1. /\ got' = [got EXCEPT ![r] = g]
        /\ pc' = [pc EXCEPT ![r] = "db_user"]
        /\ g \in Loaded /\ g.user = owner[s]
        /\ row[s] = "live"
    BY <1>1, <1>2 DEF select_session, Goto, Loaded, session_usable
  <2>2. Fits(r, "db_user", g)
    BY <1>1, <2>1 DEF IInv, Fits, KindOK, LoadOK, LiveOK, RefuseOK, HeldOK, Lookups,
       SignIns, Refusals, Passed, Hit, Running
  <2>3. QED
    BY <2>1, <2>2, QuietStep DEF select_session, Running, Lookups
<1>3. CASE session_usable(s) # "ok"
  <2> DEFINE l == session_usable(s)
  <2>1. /\ got' = [got EXCEPT ![r] = got[r]]
        /\ pc' = [pc EXCEPT ![r] = l]
        /\ l \in {"missing", "expired"}
        /\ row[s] # "live"
    BY <1>1, <1>3 DEF select_session, Goto, session_usable, IInv, TypeOK
  <2>2. Fits(r, l, got[r])
    BY <1>1, <2>1 DEF IInv, Fits, KindOK, LoadOK, LiveOK, RefuseOK, HeldOK, Lookups,
       SignIns, Refusals, Passed, Hit, Running
  <2>3. QED
    BY <1>1, <2>1, <2>2, QuietStep DEF select_session, Outcomes, Refusals
<1>4. QED
  BY <1>2, <1>3

LEMMA LoadSessionUserStep ==
  ASSUME IInv, NEW r \in Req, load_session_user(r)
  PROVE  IInv'
<1> DEFINE u == got[r].user
<1>1. /\ pc[r] = "db_user" /\ IsLookup(r) /\ got[r] \in Loaded
      /\ u = job[r].owner /\ u \in User /\ job[r].live
      /\ job[r].sid \in Sid /\ owner[job[r].sid] = job[r].owner
      /\ row[job[r].sid] # "absent"
      /\ u \in Uid => account[u] \in held[r] /\ account[u] \in Grants \cup {NoAccount}
  BY DEF load_session_user, IInv, TypeOK, JobOK, Fits, KindOK, LoadOK, LiveOK, HeldOK,
         Lookups, Loaded, Passed, Running
<1>2. Verdict(r, u) = "granted"
  BY <1>1, VerdictGranted
<1>3. CASE AccountExists(u) /\ got' = [got EXCEPT ![r].roles = account[u]]
           /\ Goto(r, IF UseRedis THEN "db_set" ELSE Verdict(r, u))
  <2> DEFINE g == [got[r] EXCEPT !.roles = account[u]]
             l == IF UseRedis THEN "db_set" ELSE "granted"
  <2>1. /\ got' = [got EXCEPT ![r] = g]
        /\ pc' = [pc EXCEPT ![r] = l]
        /\ g \in Loaded /\ g.user = u /\ u \in Uid /\ g.roles \in held[r]
    BY <1>1, <1>2, <1>3 DEF Goto, Loaded, AccountExists
  <2>2. Fits(r, l, g)
    BY <1>1, <2>1 DEF IInv, Fits, KindOK, LoadOK, LiveOK, RefuseOK, HeldOK, Lookups,
       SignIns, Refusals, Passed, Hit, Running
  <2>3. QED
    BY <2>1, <2>2, QuietStep DEF load_session_user, Running, Lookups, Outcomes
<1>4. ASSUME NEW l \in {"missing", "error"}, Goto(r, l), UNCHANGED got,
             ~AccountExists(u) \/ u = NoUser
      PROVE  IInv'
  <2>1. /\ got' = [got EXCEPT ![r] = got[r]]
        /\ pc' = [pc EXCEPT ![r] = l]
    BY <1>1, <1>4 DEF Goto, IInv, TypeOK
  <2>2. row[job[r].sid] # "live" \/ job[r].owner = NoUser
    BY <1>1, <1>4 DEF AccountExists, IInv, CascadeInv, User
  <2>3. Fits(r, l, got[r])
    BY <1>1, <2>1, <2>2 DEF IInv, Fits, KindOK, LoadOK, LiveOK, RefuseOK, HeldOK,
       Lookups, SignIns, Refusals, Passed, Hit, Running
  <2>4. QED
    BY <1>1, <1>4, <2>1, <2>3, QuietStep DEF load_session_user, Outcomes, Refusals
<1>5. \/ /\ AccountExists(u)
         /\ got' = [got EXCEPT ![r].roles = account[u]]
         /\ Goto(r, IF UseRedis THEN "db_set" ELSE Verdict(r, u))
      \/ /\ ~AccountExists(u)
         /\ Goto(r, "missing")
         /\ UNCHANGED got
      \/ /\ u = NoUser
         /\ Goto(r, "error")
         /\ UNCHANGED got
  BY DEF load_session_user
<1>6. QED
  BY <1>3, <1>4, <1>5

LEMMA AuthorizeRolesStep ==
  ASSUME IInv, NEW r \in Req, authorize_roles(r)
  PROVE  IInv'
<1>1. /\ pc[r] = "si_roles" /\ got[r] \in Loaded /\ job[r].kind = "signin"
      /\ got[r].user = job[r].owner
      /\ got[r].user \in Uid
      /\ account[got[r].user] \in Grants \cup {NoAccount}
      /\ job[r].owner \in Uid => account[job[r].owner] \in held[r]
      /\ pc' = [pc EXCEPT ![r] = "si_create"]
  BY DEF authorize_roles, IInv, TypeOK, Fits, KindOK, LoadOK, HeldOK, SignIns, Running,
     Goto
<1>2. ASSUME NEW g \in Loaded, g.user = got[r].user, got' = [got EXCEPT ![r] = g]
      PROVE  IInv'
  <2>1. Fits(r, "si_create", g)
    BY <1>1, <1>2 DEF IInv, Fits, KindOK, LoadOK, LiveOK, RefuseOK, HeldOK, Lookups,
       SignIns, Refusals, Passed, Hit, Running
  <2>2. QED
    BY <1>1, <1>2, <2>1, QuietStep DEF authorize_roles, Running, SignIns
<1>3. CASE /\ AccountExists(got[r].user)
           /\ got' = [got EXCEPT ![r].roles = account[got[r].user]]
  <2> DEFINE g == [got[r] EXCEPT !.roles = account[got[r].user]]
  <2>1. g \in Loaded /\ g.user = got[r].user /\ got' = [got EXCEPT ![r] = g]
    BY <1>1, <1>3 DEF Loaded, AccountExists
  <2>2. QED
    BY <2>1, <1>2
<1>4. CASE got' = [got EXCEPT ![r].unread = TRUE]
  <2> DEFINE g == [got[r] EXCEPT !.unread = TRUE]
  <2>1. g \in Loaded /\ g.user = got[r].user /\ got' = [got EXCEPT ![r] = g]
    BY <1>1, <1>4 DEF Loaded
  <2>2. QED
    BY <2>1, <1>2
<1>5. QED
  BY <1>3, <1>4 DEF authorize_roles

LEMMA FailsStep ==
  ASSUME IInv, NEW r \in Req, Fails(r)
  PROVE  IInv'
<1>1. /\ got' = [got EXCEPT ![r] = got[r]]
      /\ got[r] \in Loaded
      /\ pc' = [pc EXCEPT ![r] = "error"]
  BY DEF Fails, Goto, IInv, TypeOK
<1>2. Fits(r, "error", got[r])
  BY DEF Fits, KindOK, LoadOK, LiveOK, RefuseOK, HeldOK, Lookups,
     SignIns, Refusals, Passed, Hit, Running
<1>3. QED
  BY <1>1, <1>2, QuietStep DEF Fails, Outcomes

\* The same for a step that also writes to Redis or hands out tokens.
LEMMA WritingStep ==
  ASSUME IInv, NEW r \in Req, NEW l \in Running \cup Outcomes,
         UNCHANGED <<row, owner, account, job, got, held>>,
         pc' = [pc EXCEPT ![r] = l],
         cache' \in [Sid -> CacheEntry \cup {Miss}], CacheInv',
         tokens' \in SUBSET Token, TokensNameTheirRow',
         Fits(r, l, got[r])
  PROVE  IInv'
<1>1. TypeOK'
  BY DEF IInv, TypeOK
<1>2. CascadeInv'
  BY DEF IInv, CascadeInv
<1>3. \A q \in Req : JobOK(q)'
  BY DEF IInv, JobOK, IsLookup
<1>4. ASSUME NEW q \in Req PROVE Fits(q, pc[q], got[q])'
  <2>1. Fits(q, pc'[q], got[q])
    BY DEF IInv, TypeOK
  <2>2. QED
    BY <2>1 DEF Fits, KindOK, LoadOK, LiveOK, RefuseOK, HeldOK, IsLookup
<1>5. QED
  BY <1>1, <1>2, <1>3, <1>4 DEF IInv

LEMMA SetSessionToRedisStep ==
  ASSUME IInv, NEW r \in Req, set_session_to_redis(r)
  PROVE  IInv'
<1> DEFINE s == job[r].sid
           e == [user |-> got[r].user, roles |-> got[r].roles, ttl |-> CacheTtl]
<1>1. /\ pc[r] \in {"hit_set", "db_set"} /\ IsLookup(r)
      /\ got[r] \in Loaded /\ got[r].user = job[r].owner /\ got[r].user \in Uid
      /\ got[r].roles \in held[r] /\ job[r].live
      /\ s \in Sid /\ row[s] # "absent" /\ owner[s] = job[r].owner
  BY DEF set_session_to_redis, IInv, TypeOK, JobOK, Fits, KindOK, LoadOK, LiveOK, HeldOK,
         Lookups, Passed, Hit
<1>2. pc' = [pc EXCEPT ![r] = "granted"]
  BY <1>1, VerdictGranted DEF set_session_to_redis, Goto
<1>3. e \in CacheEntry /\ e.user = owner[s]
  BY <1>1, SessionsAssumption DEF CacheEntry, Loaded
<1>4. cache' = [cache EXCEPT ![s] = e] \/ cache' = cache
  BY DEF set_session_to_redis, build_redis_key
<1>5. cache' \in [Sid -> CacheEntry \cup {Miss}] /\ CacheInv'
  BY <1>1, <1>3, <1>4 DEF IInv, TypeOK, CacheInv, set_session_to_redis
<1>6. tokens' \in SUBSET Token /\ TokensNameTheirRow'
  BY DEF IInv, TypeOK, TokensNameTheirRow, set_session_to_redis
<1>7. Fits(r, "granted", got[r])
  BY <1>1 DEF Fits, KindOK, LoadOK, LiveOK, RefuseOK, HeldOK, Lookups,
     SignIns, Refusals, Passed, Hit, Running, IInv
<1>8. QED
  BY <1>2, <1>5, <1>6, <1>7, WritingStep DEF set_session_to_redis, Outcomes

LEMMA SignTokenPairStep ==
  ASSUME IInv, NEW r \in Req, sign_token_pair(r)
  PROVE  IInv'
<1> DEFINE t == [sid |-> job[r].sid, user |-> got[r].user]
<1>1. /\ pc[r] = "si_sign" /\ job[r].kind = "signin"
      /\ t.sid \in Sid /\ t.user \in User
      /\ row[t.sid] # "absent" /\ owner[t.sid] = t.user
      /\ tokens' = tokens \cup {t}
      /\ pc' = [pc EXCEPT ![r] = "signed_in"]
  BY DEF sign_token_pair, Goto, IInv, TypeOK, Loaded, Fits, KindOK, LoadOK, SignIns
<1>2. tokens' \in SUBSET Token /\ TokensNameTheirRow'
  BY <1>1 DEF IInv, TypeOK, Token, TokensNameTheirRow, sign_token_pair
<1>3. cache' \in [Sid -> CacheEntry \cup {Miss}] /\ CacheInv'
  BY DEF IInv, TypeOK, CacheInv, sign_token_pair
<1>4. Fits(r, "signed_in", got[r])
  BY <1>1 DEF Fits, KindOK, LoadOK, LiveOK, RefuseOK, HeldOK, Lookups,
     SignIns, Refusals, Passed, Hit, Running
<1>5. QED
  BY <1>1, <1>2, <1>3, <1>4, WritingStep DEF sign_token_pair, Outcomes

\* A step that only starts or ends request r.
LEMMA JobStep ==
  ASSUME IInv, NEW r \in Req,
         UNCHANGED <<row, owner, account, cache, tokens>>,
         NEW l \in Running \cup Outcomes \cup {"idle"},
         NEW j \in Job, NEW g \in Loaded, NEW h \in SUBSET (Grants \cup {NoAccount}),
         pc'   = [pc   EXCEPT ![r] = l],
         job'  = [job  EXCEPT ![r] = j],
         got'  = [got  EXCEPT ![r] = g],
         held' = [held EXCEPT ![r] = h],
         JobOK(r)', Fits(r, pc[r], got[r])'
  PROVE  IInv'
<1>1. TypeOK'
  BY DEF IInv, TypeOK
<1>2. CacheInv' /\ CascadeInv' /\ TokensNameTheirRow'
  BY DEF IInv, CacheInv, CascadeInv, TokensNameTheirRow
<1>3. ASSUME NEW q \in Req, q # r
      PROVE  /\ pc'[q] = pc[q] /\ job'[q] = job[q]
             /\ got'[q] = got[q] /\ held'[q] = held[q]
  BY <1>3 DEF IInv, TypeOK
<1>4. ASSUME NEW q \in Req, q # r PROVE JobOK(q)'
  BY <1>3, <1>4 DEF IInv, JobOK, IsLookup
<1>5. ASSUME NEW q \in Req, q # r PROVE Fits(q, pc[q], got[q])'
  <2>1. Fits(q, pc[q], got[q])
    BY DEF IInv
  <2>2. QED
    BY <2>1, <1>3, <1>5
       DEF Fits, KindOK, LoadOK, LiveOK, RefuseOK, HeldOK, IsLookup
<1>6. QED
  BY <1>1, <1>2, <1>4, <1>5 DEF IInv

LEMMA ResetStep ==
  ASSUME IInv, NEW r \in Req, Reset(r)
  PROVE  IInv'
<1>1. NoJob \in Job /\ NoLoaded \in Loaded /\ NoJob.kind = "none"
  BY SessionsAssumption DEF NoJob, NoLoaded, Job, Loaded, User
<1>2. pc'[r] = "idle" /\ job'[r] = NoJob
  BY DEF Reset, Goto, IInv, TypeOK
<1>3. JobOK(r)' /\ Fits(r, pc[r], got[r])'
  BY <1>1, <1>2 DEF JobOK, IsLookup, Fits, KindOK, LoadOK, LiveOK, RefuseOK, HeldOK,
     Lookups, SignIns, Refusals, Passed, Hit, Running
<1>4. QED
  BY <1>1, <1>3, JobStep DEF Reset, Goto

LEMMA BeginStep ==
  ASSUME IInv, NEW r \in Req, NEW t \in tokens, NEW kind \in {"check", "refresh", "web"},
         NEW l \in {"check_active", "redis_get", "db_row"}, l = "redis_get" => UseRedis,
         Begin(r, kind, t, l)
  PROVE  IInv'
<1> DEFINE j == [kind |-> kind, sid |-> t.sid, owner |-> owner[t.sid],
                 claim |-> t.user, live |-> row[t.sid] = "live"]
           h == RolesOf(owner[t.sid])
<1>1. /\ t.sid \in Sid /\ t.user \in User
      /\ row[t.sid] # "absent" /\ owner[t.sid] = t.user
  BY DEF IInv, TypeOK, Token, TokensNameTheirRow
<1>2. j \in Job /\ h \in SUBSET (Grants \cup {NoAccount}) /\ got[r] \in Loaded
  BY <1>1 DEF Job, RolesOf, User, IInv, TypeOK
<1>3. /\ pc' = [pc EXCEPT ![r] = l] /\ job' = [job EXCEPT ![r] = j]
      /\ got' = [got EXCEPT ![r] = got[r]] /\ held' = [held EXCEPT ![r] = h]
      /\ UNCHANGED <<row, owner, account, cache, tokens>>
  BY DEF Begin, Goto, IInv, TypeOK
<1>4. pc'[r] = l /\ job'[r] = j /\ held'[r] = h
  BY <1>3 DEF IInv, TypeOK
<1>5. JobOK(r)'
  <2>1. ~job'[r].live => row[t.sid] # "live"
    <3>1. job'[r].live = (row[t.sid] = "live")
      BY <1>4
    <3>2. QED
      BY <3>1, Zenon
  <2>2. /\ job'[r].sid = t.sid /\ job'[r].owner = owner[t.sid]
        /\ job'[r].claim = t.user /\ row' = row /\ owner' = owner
    BY <1>3, <1>4
  <2>3. QED
    BY <1>1, <2>1, <2>2 DEF JobOK
<1>6. Fits(r, pc[r], got[r])'
  BY <1>1, <1>3, <1>4, SessionsAssumption DEF RolesOf, IsLookup, Fits, KindOK, LoadOK, LiveOK,
     RefuseOK, HeldOK, Lookups, SignIns, Refusals, Passed, Hit, Running
<1>7. QED
  BY <1>2, <1>3, <1>5, <1>6, JobStep DEF Running, Lookups

LEMMA AuthorizeStep ==
  ASSUME IInv, NEW r \in Req, authorize(r)
  PROVE  IInv'
<1>1. PICK u \in User, n \in Grants :
        /\ pc'   = [pc EXCEPT ![r] = IF u = NoUser THEN "si_create" ELSE "si_roles"]
        /\ job'  = [job EXCEPT ![r] = [kind |-> "signin", sid |-> NoSid, owner |-> u,
                                       claim |-> u, live |-> FALSE]]
        /\ got'  = [got EXCEPT ![r] = [user |-> u, roles |-> n, unread |-> FALSE]]
        /\ held' = [held EXCEPT ![r] = RolesOf(u)]
  BY DEF authorize, Goto
<1> DEFINE l == IF u = NoUser THEN "si_create" ELSE "si_roles"
           j == [kind |-> "signin", sid |-> NoSid, owner |-> u, claim |-> u,
                 live |-> FALSE]
           g == [user |-> u, roles |-> n, unread |-> FALSE]
<1>2. /\ j \in Job /\ g \in Loaded
      /\ l \in Running \cup Outcomes \cup {"idle"}
      /\ RolesOf(u) \in SUBSET (Grants \cup {NoAccount})
  BY DEF Job, Loaded, Running, SignIns, RolesOf, User, IInv, TypeOK
<1>3. pc'[r] = l /\ job'[r] = j /\ got'[r] = g /\ held'[r] = RolesOf(u) /\ account' = account
  BY <1>1 DEF authorize, IInv, TypeOK
<1>4. JobOK(r)' /\ Fits(r, pc[r], got[r])'
  BY <1>3, SessionsAssumption DEF JobOK, RolesOf, User, IsLookup, Fits, KindOK, LoadOK, LiveOK,
     RefuseOK, HeldOK, Lookups, SignIns, Refusals, Passed, Hit, Running
<1>5. QED
  BY <1>1, <1>2, <1>4, JobStep DEF authorize

\* The new row's id is in no cache entry, token or request: absent rows are not.
LEMMA CreateSessionStep ==
  ASSUME IInv, NEW r \in Req, create_session(r)
  PROVE  IInv'
<1> DEFINE u == got[r].user
<1>1. /\ pc[r] = "si_create" /\ job[r].kind = "signin"
      /\ u = job[r].owner /\ u \in User
  BY DEF create_session, IInv, TypeOK, Loaded, Fits, KindOK, LoadOK, SignIns
<1>2. PICK s \in Sid :
        /\ row[s] = "absent"
        /\ u = NoUser \/ AccountExists(u)
        /\ row'   = [row EXCEPT ![s] = "live"]
        /\ owner' = [owner EXCEPT ![s] = u]
        /\ \/ /\ pc' = [pc EXCEPT ![r] = "si_sign"]
              /\ job' = [job EXCEPT ![r].sid = s]
           \/ /\ pc' = [pc EXCEPT ![r] = "error"]
              /\ UNCHANGED job
  BY DEF create_session, InsertSession, Goto
<1>3. UNCHANGED <<account, cache, tokens, got, held>>
  BY DEF create_session
<1>4. /\ row'[s] = "live" /\ owner'[s] = u
      /\ \A x \in Sid : x # s => row'[x] = row[x] /\ owner'[x] = owner[x]
  BY <1>2 DEF IInv, TypeOK
<1>5. /\ job'[r] \in Job /\ job'[r].kind = "signin"
      /\ job'[r].owner = job[r].owner
      /\ pc'[r] = "si_sign" => job'[r].sid = s
      /\ pc'[r] \in {"si_sign", "error"}
      /\ \A q \in Req : q # r => job'[q] = job[q] /\ pc'[q] = pc[q]
      /\ job' = [job EXCEPT ![r] = job'[r]]
      /\ pc' = [pc EXCEPT ![r] = pc'[r]]
  <2> DEFINE j == [job[r] EXCEPT !.sid = s]
  <2>1. /\ job[r] \in Job /\ j \in Job
        /\ j.kind = job[r].kind /\ j.owner = job[r].owner /\ j.sid = s
    BY DEF IInv, TypeOK, Job
  <2>2. CASE pc' = [pc EXCEPT ![r] = "si_sign"] /\ job' = [job EXCEPT ![r] = j]
    BY <1>1, <2>1, <2>2 DEF IInv, TypeOK
  <2>3. CASE pc' = [pc EXCEPT ![r] = "error"] /\ UNCHANGED job
    BY <1>1, <2>1, <2>3 DEF IInv, TypeOK
  <2>4. QED
    BY <1>2, <2>2, <2>3
<1>6. TypeOK'
  <2>1. job' \in [Req -> Job] /\ pc' \in [Req -> Running \cup Outcomes \cup {"idle"}]
    BY <1>5 DEF IInv, TypeOK, Running, SignIns, Outcomes
  <2>2. QED
    BY <1>1, <1>2, <1>3, <2>1 DEF IInv, TypeOK, RowStatus
<1>7. CacheInv' /\ TokensNameTheirRow'
  BY <1>2, <1>3, <1>4 DEF IInv, TypeOK, Token, CacheInv, TokensNameTheirRow
<1>8. CascadeInv'
  BY <1>2, <1>3, <1>4, SessionsAssumption DEF IInv, CascadeInv, AccountExists
<1>9. ASSUME NEW q \in Req PROVE JobOK(q)'
  <2>1. CASE q = r
    BY <1>5, <2>1 DEF JobOK, IsLookup
  <2>2. CASE q # r
    BY <1>2, <1>4, <1>5, <2>2 DEF IInv, JobOK, IsLookup
  <2>3. QED
    BY <2>1, <2>2
<1>10. ASSUME NEW q \in Req PROVE Fits(q, pc[q], got[q])'
  <2>0. Fits(q, pc[q], got[q]) /\ JobOK(q)
    BY DEF IInv
  <2>1. CASE q = r
    BY <1>1, <1>3, <1>4, <1>5, <2>0, <2>1
       DEF Fits, KindOK, LoadOK, LiveOK, RefuseOK, HeldOK, IsLookup, Lookups,
           SignIns, Refusals, Passed, Hit, Running
  <2>2. CASE q # r
    <3>1. KindOK(q, pc[q])' /\ LiveOK(q, pc[q])' /\ HeldOK(q, pc[q], got[q])'
      BY <1>3, <1>5, <2>0, <2>2 DEF Fits, KindOK, LiveOK, HeldOK, IsLookup
    <3>2. LoadOK(q, pc[q], got[q])'
      BY <1>2, <1>3, <1>4, <1>5, <2>0, <2>2 DEF Fits, LoadOK
    <3>3. RefuseOK(q, pc[q])'
      BY <1>2, <1>4, <1>5, <2>0, <2>2 DEF Fits, KindOK, RefuseOK, JobOK
    <3>4. QED
      BY <3>1, <3>2, <3>3 DEF Fits
  <2>3. QED
    BY <2>1, <2>2
<1>11. QED
  BY <1>6, <1>7, <1>8, <1>9, <1>10 DEF IInv

-----------------------------------------------------------------------------
(* Steps of the world *)

\* Rows that end stay ended, so ending some keeps the invariant.
LEMMA RowsEndStep ==
  ASSUME IInv, NEW S \in SUBSET Sid, NEW v \in {"expired", "deleted", "gone"},
         UNCHANGED <<owner, account, cache, tokens, pc, job, got, held>>,
         \A s \in S : row[s] \notin {"absent", "gone"},
         row' = [s \in Sid |-> IF s \in S THEN v ELSE row[s]]
  PROVE  IInv'
<1>1. TypeOK' /\ CacheInv' /\ CascadeInv' /\ TokensNameTheirRow'
  BY DEF IInv, TypeOK, RowStatus, Token, CacheInv, CascadeInv, TokensNameTheirRow
<1>2. \A q \in Req : JobOK(q)'
  BY DEF IInv, JobOK, IsLookup
<1>3. ASSUME NEW q \in Req PROVE Fits(q, pc[q], got[q])'
  <2>1. Fits(q, pc[q], got[q]) /\ JobOK(q)
    BY DEF IInv
  <2>2. QED
    BY <2>1 DEF Fits, KindOK, LoadOK, LiveOK, RefuseOK, HeldOK, IsLookup, JobOK
<1>4. QED
  BY <1>1, <1>2, <1>3 DEF IInv

LEMMA CacheShrinksStep ==
  ASSUME IInv, NEW k \in Sid, CacheAge(k) \/ CacheLoss(k)
  PROVE  IInv'
<1>1. /\ cache' \in [Sid -> CacheEntry \cup {Miss}]
      /\ CacheInv'
  <2>1. CASE CacheLoss(k) \/ cache' = [cache EXCEPT ![k] = Miss]
    BY <2>1 DEF CacheAge, CacheLoss, IInv, TypeOK, CacheInv
  <2>2. CASE /\ cache[k] # Miss /\ cache[k].ttl > 1
             /\ cache' = [cache EXCEPT ![k] = [cache[k] EXCEPT !.ttl = @ - 1]]
    <3> DEFINE e == [cache[k] EXCEPT !.ttl = @ - 1]
    <3>1. e \in CacheEntry /\ e.user = cache[k].user
      BY <2>2, SessionsAssumption DEF IInv, TypeOK, CacheEntry
    <3>2. cache' = [cache EXCEPT ![k] = e]
      BY <2>2
    <3>3. UNCHANGED <<row, owner>>
      BY DEF CacheAge, CacheLoss
    <3>4. QED
      BY <2>2, <3>1, <3>2, <3>3 DEF IInv, TypeOK, CacheInv
  <2>3. QED
    BY <2>1, <2>2 DEF CacheAge
<1>2. UNCHANGED <<row, owner, account, tokens, pc, job, got, held>>
  BY DEF CacheAge, CacheLoss
<1>3. TypeOK' /\ CascadeInv' /\ TokensNameTheirRow'
  BY <1>1, <1>2 DEF IInv, TypeOK, CascadeInv, TokensNameTheirRow
<1>4. \A q \in Req : JobOK(q)' /\ Fits(q, pc[q], got[q])'
  BY <1>2 DEF IInv, JobOK, IsLookup, Fits, KindOK, LoadOK, LiveOK, RefuseOK, HeldOK
<1>5. QED
  BY <1>1, <1>3, <1>4 DEF IInv

\* What the users table holds from now on is added to the ghost of every running
\* request of that user.
LEMMA HeldWithFollows ==
  ASSUME TypeOK, NEW u \in Uid, NEW v \in Grants \cup {NoAccount},
         account' = [account EXCEPT ![u] = v], held' = HeldWith(u, v),
         UNCHANGED <<pc, job, got>>,
         NEW q \in Req, HeldOK(q, pc[q], got[q])
  PROVE  /\ held' \in [Req -> SUBSET (Grants \cup {NoAccount})]
         /\ HeldOK(q, pc[q], got[q])'
<1>1. held' \in [Req -> SUBSET (Grants \cup {NoAccount})]
  BY DEF HeldWith, TypeOK
<1>2. /\ held[q] \subseteq held'[q]
      /\ pc[q] \in Running /\ job[q].owner = u => v \in held'[q]
  BY DEF HeldWith, TypeOK
<1>3. QED
  BY <1>1, <1>2 DEF HeldOK, TypeOK

LEMMA ChangeRolesStep ==
  ASSUME IInv, NEW u \in Uid, NEW v \in Grants, ChangeRoles(u, v)
  PROVE  IInv'
<1>1. /\ account[u] # NoAccount /\ account' = [account EXCEPT ![u] = v]
      /\ held' = HeldWith(u, v)
      /\ UNCHANGED <<row, owner, cache, tokens, pc, job, got>>
  BY DEF ChangeRoles
<1>2. TypeOK'
  <2>1. held' \in [Req -> SUBSET (Grants \cup {NoAccount})]
    BY <1>1 DEF IInv, TypeOK, HeldWith
  <2>2. QED
    BY <1>1, <2>1 DEF IInv, TypeOK
<1>3. CacheInv' /\ CascadeInv' /\ TokensNameTheirRow'
  BY <1>1, SessionsAssumption DEF IInv, TypeOK, CacheInv, CascadeInv, TokensNameTheirRow
<1>4. ASSUME NEW q \in Req PROVE JobOK(q)' /\ Fits(q, pc[q], got[q])'
  <2>1. Fits(q, pc[q], got[q]) /\ JobOK(q)
    BY DEF IInv
  <2>2. HeldOK(q, pc[q], got[q])'
    BY <1>1, <2>1, HeldWithFollows DEF IInv, Fits
  <2>3. QED
    BY <1>1, <2>1, <2>2 DEF JobOK, IsLookup, Fits, KindOK, LoadOK, LiveOK, RefuseOK
<1>5. QED
  BY <1>2, <1>3, <1>4 DEF IInv

LEMMA DeleteAccountStep ==
  ASSUME IInv, NEW u \in Uid, DeleteAccount(u)
  PROVE  IInv'
<1>1. /\ account' = [account EXCEPT ![u] = NoAccount]
      /\ row' = [s \in Sid |-> IF owner[s] = u /\ row[s] # "absent"
                               THEN "gone" ELSE row[s]]
      /\ held' = HeldWith(u, NoAccount)
      /\ UNCHANGED <<owner, cache, tokens, pc, job, got>>
  BY DEF DeleteAccount
<1>2. TypeOK'
  <2>1. held' \in [Req -> SUBSET (Grants \cup {NoAccount})]
    BY <1>1 DEF IInv, TypeOK, HeldWith
  <2>2. QED
    BY <1>1, <2>1 DEF IInv, TypeOK, RowStatus
<1>3. CacheInv' /\ CascadeInv' /\ TokensNameTheirRow'
  BY <1>1 DEF IInv, TypeOK, Token, CacheInv, CascadeInv, TokensNameTheirRow
<1>4. ASSUME NEW q \in Req PROVE JobOK(q)' /\ Fits(q, pc[q], got[q])'
  <2>1. Fits(q, pc[q], got[q]) /\ JobOK(q)
    BY DEF IInv
  <2>2. HeldOK(q, pc[q], got[q])'
    BY <1>1, <2>1, HeldWithFollows DEF IInv, Fits
  <2>3. JobOK(q)'
    BY <1>1, <2>1 DEF JobOK, IsLookup
  <2>4. KindOK(q, pc[q])' /\ LoadOK(q, pc[q], got[q])' /\ LiveOK(q, pc[q])'
    BY <1>1, <2>1 DEF Fits, KindOK, LoadOK, LiveOK, IsLookup
  <2>5. RefuseOK(q, pc[q])'
    BY <1>1, <2>1 DEF Fits, KindOK, RefuseOK, JobOK
  <2>6. QED
    BY <2>2, <2>3, <2>4, <2>5 DEF Fits
<1>5. QED
  BY <1>2, <1>3, <1>4 DEF IInv

-----------------------------------------------------------------------------
(* The invariant *)

LEMMA InitIInv == Init => IInv
<1> SUFFICES ASSUME Init PROVE IInv
  OBVIOUS
<1>1. TypeOK
  BY SessionsAssumption DEF Init, TypeOK, RowStatus, User, NoJob, Job, NoLoaded, Loaded
<1>2. CacheInv /\ CascadeInv /\ TokensNameTheirRow
  BY DEF Init, CacheInv, CascadeInv, TokensNameTheirRow
<1>3. \A q \in Req : JobOK(q) /\ Fits(q, pc[q], got[q])
  BY DEF Init, NoJob, JobOK, IsLookup, Fits, KindOK, LoadOK, LiveOK, RefuseOK, HeldOK,
     Lookups, SignIns, Refusals, Passed, Hit, Running
<1>4. QED
  BY <1>1, <1>2, <1>3 DEF IInv

LEMMA NextIInv == IInv /\ [Next]_vars => IInv'
<1> SUFFICES ASSUME IInv, [Next]_vars PROVE IInv'
  OBVIOUS
<1>1. CASE UNCHANGED vars
  <2>1. UNCHANGED <<row, owner, account, cache, tokens, pc, job, got, held>>
    BY <1>1 DEF vars
  <2>2. TypeOK' /\ CacheInv' /\ CascadeInv' /\ TokensNameTheirRow'
    BY <2>1 DEF IInv, TypeOK, CacheInv, CascadeInv, TokensNameTheirRow
  <2>3. \A q \in Req : JobOK(q)' /\ Fits(q, pc[q], got[q])'
    BY <2>1 DEF IInv, JobOK, IsLookup, Fits, KindOK, LoadOK, LiveOK, RefuseOK, HeldOK
  <2>4. QED
    BY <2>2, <2>3 DEF IInv
<1>2. ASSUME NEW r \in Req, Arrive(r) PROVE IInv'
  <2>1. get_session = "redis_get" => UseRedis
    BY DEF get_session
  <2>2. get_session \in {"redis_get", "db_row"}
    BY DEF get_session
  <2>3. QED
    BY <1>2, <2>1, <2>2, BeginStep, AuthorizeStep
       DEF Arrive, check_session, refresh_response, web_outcome
<1>3. ASSUME NEW r \in Req, Step(r) PROVE IInv'
  BY <1>3, EnsureSessionActiveStep, GetSessionFromRedisStep, GetUserRolesFromDbStep,
     SelectSessionStep, LoadSessionUserStep, SetSessionToRedisStep, AuthorizeRolesStep,
     CreateSessionStep, SignTokenPairStep, FailsStep DEF Step, Lookup, SignIn
<1>4. ASSUME NEW r \in Req, Respond(r) \/ Cancel(r) PROVE IInv'
  BY <1>4, ResetStep DEF Respond, Cancel
<1>5. ASSUME NEW s \in Sid, Expire(s) \/ Logout(s) PROVE IInv'
  <2>1. PICK v \in {"expired", "deleted"} : row' = [row EXCEPT ![s] = v]
    BY <1>5 DEF Expire, Logout
  <2>2. row' = [x \in Sid |-> IF x \in {s} THEN v ELSE row[x]]
    BY <2>1 DEF IInv, TypeOK
  <2>3. QED
    BY <1>5, <2>2, RowsEndStep DEF Expire, Logout
<1>6. QED
  BY <1>1, <1>2, <1>3, <1>4, <1>5, CacheShrinksStep, ChangeRolesStep, DeleteAccountStep
     DEF Next, World

\* IInv is inductive, so it holds of every reachable state.
THEOREM Invariant == Spec => []IInv
BY InitIInv, NextIInv, PTL DEF Spec

-----------------------------------------------------------------------------
(* What the invariant gives *)

\* Every variable keeps its type: above all, Redis only ever holds entries
\* with a user and a TTL (validate_session_data, session_ttl).
THEOREM TypeCorrect == Spec => []TypeOK
<1>1. IInv => TypeOK
  BY DEF IInv
<1>2. QED
  BY Invariant, <1>1, PTL

\* No interleaving grants a request whose session had ended before it began.
THEOREM GrantsOnlyLiveSessions == Spec => []GrantWasLive
<1>1. IInv => GrantWasLive
  BY DEF IInv, Fits, LiveOK, Passed, GrantWasLive
<1>2. QED
  BY Invariant, <1>1, PTL

\* No interleaving lets a request act as another user than the session's.
THEOREM GrantsActAsOwner == Spec => []GrantIsOwner
<1>1. IInv => GrantIsOwner
  BY DEF IInv, Fits, LoadOK, Passed, GrantIsOwner
<1>2. QED
  BY Invariant, <1>1, PTL

\* Redis missing, failing or losing entries never turns a live session away.
THEOREM RefusalsAreJustified == Spec => []RefusedOnlyIfEnded
<1>1. IInv => RefusedOnlyIfEnded
  BY DEF IInv, Fits, RefuseOK, RefusedOnlyIfEnded
<1>2. QED
  BY Invariant, <1>1, PTL

\* Stale roles are served only where get_session_from_db chose to keep them.
THEOREM StaleRolesAreExplained == Spec => []StaleOnlyIfUnreadable
<1>1. IInv => StaleOnlyIfUnreadable
  BY DEF IInv, Fits, HeldOK, StaleOnlyIfUnreadable
<1>2. QED
  BY Invariant, <1>1, PTL

\* Without Redis a granted request carries roles its user held meanwhile.
THEOREM RolesUpToDateWithoutRedis == ~UseRedis => (Spec => []RolesUpToDate)
<1>1. ~UseRedis /\ IInv => RolesUpToDate
  BY DEF IInv, Fits, HeldOK, RolesUpToDate
<1>2. CASE UseRedis
  BY <1>2
<1>3. CASE ~UseRedis
  <2>1. IInv => RolesUpToDate
    BY <1>1, <1>3
  <2>2. QED
    BY Invariant, <2>1, PTL
<1>4. QED
  BY <1>2, <1>3

\* A token pair never names a row that was not created for its user.
THEOREM TokensAreBacked == Spec => []TokensNameTheirRow
<1>1. IInv => TokensNameTheirRow
  BY DEF IInv
<1>2. QED
  BY Invariant, <1>1, PTL

-----------------------------------------------------------------------------
(* SessionsRefine: every step of the walk is a step of SessionGate or changes
   nothing the gate sees.  The invariant supplies what a single step does not
   show: a lookup past its last liveness query is about a session with a user,
   and its verdict is a grant. *)

\* A step of lookup r that only moves it to l, the rows and jobs being kept.
LEMMA LookupMoves ==
  ASSUME IInv, NEW r \in Req, NEW l \in Running \cup Outcomes, IsLookup(r),
         UNCHANGED <<row, owner, job>>, pc' = [pc EXCEPT ![r] = l]
  PROVE  /\ statusBar' = statusBar
         /\ aboutBar' = aboutBar
         /\ phaseBar' = [phaseBar EXCEPT ![r] = PhaseAt(r, l)]
         /\ phaseBar[r] = PhaseAt(r, pc[r])
         /\ aboutBar[r] = job[r].sid
         /\ job[r].sid \in Sid
         /\ statusBar[job[r].sid] = StatusOf(job[r].sid)
         /\ owner[job[r].sid] = job[r].owner
<1>1. statusBar' = statusBar
  BY DEF statusBar, StatusOf
<1>2. aboutBar' = aboutBar /\ aboutBar[r] = job[r].sid
  BY DEF aboutBar, IsLookup
<1>3. phaseBar' = [phaseBar EXCEPT ![r] = PhaseAt(r, l)] /\ phaseBar[r] = PhaseAt(r, pc[r])
  <2>1. ASSUME NEW q \in Req
        PROVE  PhaseAt(q, pc[q])' = IF q = r THEN PhaseAt(r, l) ELSE PhaseAt(q, pc[q])
    BY DEF PhaseAt, IsLookup, IInv, TypeOK
  <2>2. QED
    BY <2>1 DEF phaseBar
<1>4. job[r].sid \in Sid /\ owner[job[r].sid] = job[r].owner
  BY DEF IInv, JobOK
<1>5. QED
  BY <1>1, <1>2, <1>3, <1>4 DEF statusBar

\* A step that keeps rows and jobs, of a request that is no lookup, is invisible.
LEMMA SignInMoves ==
  ASSUME NEW r \in Req, ~IsLookup(r), NEW l, TypeOK,
         UNCHANGED <<row, owner>>, pc' = [pc EXCEPT ![r] = l],
         \A q \in Req \ {r} : job'[q] = job[q], ~IsLookup(r)'
  PROVE  UNCHANGED <<statusBar, phaseBar, aboutBar>>
<1>1. statusBar' = statusBar
  BY DEF statusBar, StatusOf
<1>2. ASSUME NEW q \in Req
      PROVE  /\ PhaseAt(q, pc[q])' = PhaseAt(q, pc[q])
             /\ (IF IsLookup(q) THEN job[q].sid ELSE NoSid)'
                  = (IF IsLookup(q) THEN job[q].sid ELSE NoSid)
  BY DEF PhaseAt, IsLookup, TypeOK
<1>3. QED
  BY <1>1, <1>2 DEF phaseBar, aboutBar

\* The steps of a lookup.
LEMMA LookupImplements ==
  ASSUME IInv, NEW r \in Req, Lookup(r)
  PROVE  [Gate!Next]_(Gate!vars)
<1> DEFINE l == pc'[r]
           s == job[r].sid
<1>0. IsLookup(r) /\ pc[r] \in Lookups
  BY DEF IInv, Fits, KindOK, Lookups, Lookup, ensure_session_active,
     get_session_from_redis, get_user_roles_from_db, select_session, load_session_user,
     set_session_to_redis
<1>1. UNCHANGED <<row, owner, job>>
  BY DEF Lookup, ensure_session_active,
     get_session_from_redis, get_user_roles_from_db, select_session, load_session_user,
     set_session_to_redis
<1>2. pc[r] \in {"hit_roles", "hit_set", "db_user", "db_set"}
        => Verdict(r, got[r].user) = "granted"
  BY <1>0, VerdictGranted DEF IInv, Fits, LoadOK, Passed
<1>3. pc[r] \in {"hit_active", "hit_roles", "hit_set", "db_set"} => job[r].owner \in Uid
  BY DEF IInv, Fits, LoadOK, Hit, Passed
<1>4. pc' = [pc EXCEPT ![r] = l] /\ l \in Running \cup Outcomes
  BY <1>2 DEF Lookup, Goto, ensure_session_active, get_session_from_redis, CacheHit,
     CacheMiss, get_user_roles_from_db, FreshRoles, EmptyRoles, UnreadRoles, select_session,
     load_session_user, set_session_to_redis, session_usable, get_session, Running,
     Outcomes, Refusals, Lookups, IInv, TypeOK
<1>5. /\ statusBar' = statusBar
      /\ aboutBar' = aboutBar
      /\ phaseBar' = [phaseBar EXCEPT ![r] = PhaseAt(r, l)]
      /\ phaseBar[r] = PhaseAt(r, pc[r])
      /\ aboutBar[r] = s /\ s \in Sid
      /\ statusBar[s] = StatusOf(s)
      /\ owner[s] = job[r].owner
  BY <1>0, <1>1, <1>4, LookupMoves
<1>6. CASE PhaseAt(r, l) = PhaseAt(r, pc[r])
  <2>1. phaseBar' = phaseBar
    BY <1>5, <1>6 DEF phaseBar
  <2>2. QED
    BY <1>5, <2>1 DEF Gate!vars
<1>7. CASE PhaseAt(r, pc[r]) = "asked" /\ PhaseAt(r, l) = "seen" /\ row[s] = "live"
           /\ job[r].owner # NoUser
  <2>1. Gate!See(r)
    BY <1>5, <1>7 DEF Gate!See, StatusOf
  <2>2. QED
    BY <2>1 DEF Gate!Next
<1>8. CASE PhaseAt(r, pc[r]) = "seen" /\ PhaseAt(r, l) = "granted"
  <2>1. Gate!Grant(r)
    BY <1>5, <1>8 DEF Gate!Grant
  <2>2. QED
    BY <2>1 DEF Gate!Next, Gate!Decide
<1>9. CASE /\ PhaseAt(r, pc[r]) \in {"asked", "seen"} /\ PhaseAt(r, l) = "refused"
           /\ row[s] # "live" \/ job[r].owner = NoUser
  <2>1. Gate!Refuse(r)
    BY <1>5, <1>9 DEF Gate!Refuse, Gate!Pending, StatusOf
  <2>2. QED
    BY <2>1 DEF Gate!Next, Gate!Decide
<1>10. CASE PhaseAt(r, pc[r]) \in {"asked", "seen"} /\ PhaseAt(r, l) = "failed"
  <2>1. Gate!Fail(r)
    BY <1>5, <1>10 DEF Gate!Fail, Gate!Pending
  <2>2. QED
    BY <2>1 DEF Gate!Next, Gate!Decide
<1>11. CASE ensure_session_active(r)
  <2>1. \/ session_usable(s) = "ok" /\ row[s] = "live"
             /\ l = (IF pc[r] = "hit_active" THEN "hit_roles" ELSE get_session)
        \/ session_usable(s) \in {"missing", "expired"} /\ row[s] # "live"
             /\ l = session_usable(s)
    BY <1>5, <1>11 DEF ensure_session_active, session_usable, Goto, IInv, TypeOK
  <2>2. get_session \in {"redis_get", "db_row"} /\ pc[r] \in {"check_active", "hit_active"}
    BY <1>11 DEF get_session, ensure_session_active
  <2>3. NoUser \notin Uid
    BY SessionsAssumption
  <2>4. QED
    BY <1>0, <1>3, <1>6, <1>7, <1>9, <2>1, <2>2, <2>3 DEF PhaseAt, Refusals
<1>12. CASE get_session_from_redis(r)
  BY <1>0, <1>6, <1>12 DEF get_session_from_redis, CacheHit, CacheMiss, Goto, PhaseAt,
     Refusals, IInv, TypeOK
<1>13. CASE get_user_roles_from_db(r)
  <2>1. l \in {"hit_set", "granted"} /\ pc[r] = "hit_roles"
    BY <1>2, <1>13 DEF get_user_roles_from_db, FreshRoles, EmptyRoles, UnreadRoles, Goto,
       IInv, TypeOK
  <2>2. job[r].owner # NoUser
    BY <1>3, <2>1, SessionsAssumption
  <2>3. QED
    BY <1>0, <1>6, <1>8, <2>1, <2>2 DEF PhaseAt, Refusals
<1>14. CASE select_session(r)
  <2>1. \/ row[s] = "live" /\ l = "db_user"
        \/ row[s] # "live" /\ l \in {"missing", "expired"}
    BY <1>5, <1>14 DEF select_session, session_usable, Goto, IInv, TypeOK
  <2>2. pc[r] = "db_row"
    BY <1>14 DEF select_session
  <2>3. QED
    BY <1>0, <1>6, <1>7, <1>9, <2>1, <2>2 DEF PhaseAt, Refusals
<1>15. CASE load_session_user(r)
  <2>1. pc[r] = "db_user" /\ got[r].user = job[r].owner /\ job[r].owner \in User
    BY <1>5, <1>15 DEF load_session_user, IInv, TypeOK, Fits, LoadOK, Passed
  <2>2. \/ AccountExists(got[r].user) /\ l \in {"db_set", "granted"}
        \/ ~AccountExists(got[r].user) /\ l = "missing"
        \/ got[r].user = NoUser /\ l = "error"
    BY <1>2, <2>1, <1>15 DEF load_session_user, Goto, IInv, TypeOK
  <2>3. AccountExists(got[r].user) => job[r].owner # NoUser
    BY <2>1, SessionsAssumption DEF AccountExists
  <2>4. ~AccountExists(got[r].user) => row[s] # "live" \/ job[r].owner = NoUser
    BY <1>5, <2>1 DEF AccountExists, IInv, CascadeInv, User
  <2>5. QED
    BY <1>0, <1>6, <1>8, <1>9, <1>10, <2>1, <2>2, <2>3, <2>4 DEF PhaseAt, Refusals
<1>16. CASE set_session_to_redis(r)
  <2>1. l = "granted" /\ pc[r] \in {"hit_set", "db_set"}
    BY <1>2, <1>16 DEF set_session_to_redis, Goto, IInv, TypeOK
  <2>2. job[r].owner # NoUser
    BY <1>3, <2>1, SessionsAssumption
  <2>3. QED
    BY <1>0, <1>8, <2>1, <2>2 DEF PhaseAt, Refusals
<1>17. QED
  BY <1>11, <1>12, <1>13, <1>14, <1>15, <1>16 DEF Lookup

\* A sign-in opens a session when it inserts the row, and is invisible before
\* and after; a query error fails a lookup.
LEMMA SignInImplements ==
  ASSUME IInv, NEW r \in Req, SignIn(r)
  PROVE  [Gate!Next]_(Gate!vars)
<1>0. job[r].kind = "signin" /\ TypeOK
  BY DEF SignIn, authorize_roles, create_session, sign_token_pair, IInv, Fits, KindOK, SignIns
<1>1. CASE authorize_roles(r)
  <2>1. UNCHANGED <<statusBar, phaseBar, aboutBar>>
    BY <1>0, <1>1, SignInMoves DEF authorize_roles, Goto, IsLookup
  <2>2. QED
    BY <2>1 DEF Gate!vars
<1>2. CASE sign_token_pair(r)
  <2>1. UNCHANGED <<statusBar, phaseBar, aboutBar>>
    BY <1>0, <1>2, SignInMoves DEF sign_token_pair, Goto, IsLookup
  <2>2. QED
    BY <2>1 DEF Gate!vars
<1>3. CASE create_session(r)
  <2>1. PICK s \in Sid :
          /\ row[s] = "absent"
          /\ row'   = [row EXCEPT ![s] = "live"]
          /\ owner' = [owner EXCEPT ![s] = got[r].user]
          /\ \/ /\ Goto(r, "si_sign")
                /\ job' = [job EXCEPT ![r].sid = s]
             \/ /\ Goto(r, "error")
                /\ UNCHANGED job
    BY <1>3 DEF create_session, InsertSession
  <2>2. \A q \in Req : /\ job'[q].kind = job[q].kind
                       /\ job'[q].owner = job[q].owner
                       /\ q # r => job'[q].sid = job[q].sid /\ pc'[q] = pc[q]
    BY <1>0, <2>1 DEF TypeOK, Job, Goto
  <2>3. phaseBar' = phaseBar /\ aboutBar' = aboutBar
    BY <1>0, <2>2 DEF phaseBar, aboutBar, PhaseAt, IsLookup
  <2>4. PICK new \in {"open", "barred"} : StatusOf(s)' = new
    BY <1>0, <2>1 DEF TypeOK, StatusOf
  <2>5. statusBar' = [statusBar EXCEPT ![s] = new]
    BY <1>0, <2>1, <2>4 DEF TypeOK, statusBar, StatusOf
  <2>6. Gate!Open(s)
    BY <2>1, <2>3, <2>5 DEF Gate!Open, statusBar, StatusOf
  <2>7. QED
    BY <2>6 DEF Gate!Next
<1>4. QED
  BY <1>1, <1>2, <1>3 DEF SignIn

LEMMA FailsImplements ==
  ASSUME IInv, NEW r \in Req, Fails(r)
  PROVE  [Gate!Next]_(Gate!vars)
<1>1. CASE IsLookup(r)
  <2>1. /\ statusBar' = statusBar
        /\ aboutBar' = aboutBar
        /\ phaseBar' = [phaseBar EXCEPT ![r] = PhaseAt(r, "error")]
        /\ phaseBar[r] = PhaseAt(r, pc[r])
    BY <1>1, LookupMoves DEF Fails, Goto, Outcomes
  <2>2. PhaseAt(r, "error") = "failed" /\ PhaseAt(r, pc[r]) \in {"asked", "seen"}
    BY <1>1 DEF PhaseAt, Refusals, Fails
  <2>3. Gate!Fail(r)
    BY <2>1, <2>2 DEF Gate!Fail, Gate!Pending
  <2>4. QED
    BY <2>3 DEF Gate!Next, Gate!Decide
<1>2. CASE ~IsLookup(r)
  <2>1. UNCHANGED <<statusBar, phaseBar, aboutBar>>
    BY <1>2, SignInMoves DEF Fails, Goto, IsLookup, IInv
  <2>2. QED
    BY <2>1 DEF Gate!vars
<1>3. QED
  BY <1>1, <1>2

\* A lookup asks when it arrives; a sign-in stays outside of the gate.
LEMMA ArriveImplements ==
  ASSUME IInv, NEW r \in Req, Arrive(r)
  PROVE  [Gate!Next]_(Gate!vars)
<1>0. job[r].kind = "none" /\ TypeOK /\ pc[r] = "idle"
  BY DEF Arrive, check_session, refresh_response, web_outcome, Begin, authorize, IInv,
     Fits, KindOK
<1>1. CASE authorize(r)
  <2>1. PICK j : j.kind = "signin" /\ job' = [job EXCEPT ![r] = j]
    BY <1>1 DEF authorize
  <2>2. PICK l : pc' = [pc EXCEPT ![r] = l]
    BY <1>1 DEF authorize, Goto
  <2>3. job'[r] = j /\ \A q \in Req \ {r} : job'[q] = job[q]
    BY <1>0, <2>1 DEF TypeOK
  <2>4. UNCHANGED <<statusBar, phaseBar, aboutBar>>
    BY <1>0, <1>1, <2>1, <2>2, <2>3, SignInMoves DEF authorize, IsLookup
  <2>5. QED
    BY <2>4 DEF Gate!vars
<1>2. ASSUME NEW t \in tokens, NEW k \in {"check", "refresh", "web"},
             NEW l \in {"check_active", "redis_get", "db_row"}, Begin(r, k, t, l)
      PROVE  [Gate!Next]_(Gate!vars)
  <2> DEFINE j == [kind |-> k, sid |-> t.sid, owner |-> owner[t.sid], claim |-> t.user,
                   live |-> row[t.sid] = "live"]
  <2>1. t.sid \in Sid /\ row[t.sid] # "absent"
    BY <1>0 DEF TypeOK, Token, IInv, TokensNameTheirRow
  <2>2. /\ pc' = [pc EXCEPT ![r] = l]
        /\ job' = [job EXCEPT ![r] = j]
        /\ j.kind = k /\ j.sid = t.sid
    BY <1>2 DEF Begin, Goto
  <2>3. statusBar' = statusBar
    BY <1>2 DEF Begin, statusBar, StatusOf
  <2>4. ASSUME NEW q \in Req
        PROVE  /\ PhaseAt(q, pc[q])' = IF q = r THEN "asked" ELSE PhaseAt(q, pc[q])
               /\ (IF IsLookup(q) THEN job[q].sid ELSE NoSid)'
                    = IF q = r THEN t.sid ELSE IF IsLookup(q) THEN job[q].sid ELSE NoSid
    BY <1>0, <2>2 DEF TypeOK, PhaseAt, IsLookup, Refusals
  <2>5. /\ phaseBar' = [phaseBar EXCEPT ![r] = "asked"]
        /\ aboutBar' = [aboutBar EXCEPT ![r] = t.sid]
    BY <2>4 DEF phaseBar, aboutBar
  <2>6. phaseBar[r] = "idle"
    BY <1>0 DEF phaseBar, PhaseAt, IsLookup
  <2>7. statusBar[t.sid] # "none"
    BY <2>1 DEF statusBar, StatusOf
  <2>8. Gate!Ask(r)
    BY <2>1, <2>3, <2>5, <2>6, <2>7 DEF Gate!Ask
  <2>9. QED
    BY <2>8 DEF Gate!Next
<1>3. get_session \in {"redis_get", "db_row"}
  BY DEF get_session
<1>4. QED
  BY <1>1, <1>2, <1>3 DEF Arrive, check_session, refresh_response, web_outcome

\* An answered or dropped lookup leaves the gate.
LEMMA ResetImplements ==
  ASSUME IInv, NEW r \in Req, Reset(r)
  PROVE  [Gate!Next]_(Gate!vars)
<1>0. TypeOK /\ NoJob.kind = "none" /\ pc' = [pc EXCEPT ![r] = "idle"]
      /\ job' = [job EXCEPT ![r] = NoJob]
  BY DEF IInv, NoJob, Reset, Goto
<1>1. CASE ~IsLookup(r)
  <2>1. UNCHANGED <<statusBar, phaseBar, aboutBar>>
    BY <1>0, <1>1, SignInMoves DEF Reset, TypeOK, IsLookup
  <2>2. QED
    BY <2>1 DEF Gate!vars
<1>2. CASE IsLookup(r)
  <2>1. statusBar' = statusBar
    BY DEF Reset, statusBar, StatusOf
  <2>2. ASSUME NEW q \in Req
        PROVE  /\ PhaseAt(q, pc[q])' = IF q = r THEN "idle" ELSE PhaseAt(q, pc[q])
               /\ (IF IsLookup(q) THEN job[q].sid ELSE NoSid)'
                    = IF q = r THEN NoSid ELSE IF IsLookup(q) THEN job[q].sid ELSE NoSid
    BY <1>0 DEF TypeOK, PhaseAt, IsLookup
  <2>3. /\ phaseBar' = [phaseBar EXCEPT ![r] = "idle"]
        /\ aboutBar' = [aboutBar EXCEPT ![r] = NoSid]
    BY <2>2 DEF phaseBar, aboutBar
  <2>4. phaseBar[r] # "idle"
    BY <1>2 DEF phaseBar, PhaseAt
  <2>5. Gate!Leave(r)
    BY <2>1, <2>3, <2>4 DEF Gate!Leave
  <2>6. QED
    BY <2>5 DEF Gate!Next
<1>3. QED
  BY <1>1, <1>2

\* Expiry, logout and account deletion end sessions; the rest of the world
\* (roles, Redis) is no part of the gate.
LEMMA WorldImplements ==
  ASSUME IInv, World
  PROVE  [Gate!Next]_(Gate!vars)
<1>1. ASSUME UNCHANGED <<row, owner, pc, job>> PROVE UNCHANGED (Gate!vars)
  BY <1>1 DEF Gate!vars, statusBar, StatusOf, phaseBar, PhaseAt, aboutBar, IsLookup
<1>2. ASSUME NEW S \in SUBSET Sid, NEW v \in {"expired", "deleted", "gone"},
             \A s \in S : row[s] # "absent",
             row' = [s \in Sid |-> IF s \in S THEN v ELSE row[s]],
             UNCHANGED <<owner, pc, job>>
      PROVE  Gate!Next
  <2>1. phaseBar' = phaseBar /\ aboutBar' = aboutBar
    BY <1>2 DEF phaseBar, PhaseAt, aboutBar, IsLookup
  <2>2. statusBar' = [s \in Sid |-> IF s \in S THEN "ended" ELSE statusBar[s]]
    BY <1>2 DEF statusBar, StatusOf
  <2>3. \A s \in S : statusBar[s] # "none"
    BY <1>2 DEF statusBar, StatusOf
  <2>4. Gate!End(S)
    BY <2>1, <2>2, <2>3 DEF Gate!End
  <2>5. QED
    BY <2>4 DEF Gate!Next
<1>3. ASSUME NEW s \in Sid, Expire(s) \/ Logout(s) PROVE Gate!Next
  <2>1. PICK v \in {"expired", "deleted"} : row' = [row EXCEPT ![s] = v]
    BY <1>3 DEF Expire, Logout
  <2>2. row' = [x \in Sid |-> IF x \in {s} THEN v ELSE row[x]]
    BY <2>1 DEF IInv, TypeOK
  <2>3. row[s] # "absent"
    BY <1>3 DEF Expire, Logout
  <2>4. QED
    BY <1>2, <1>3, <2>2, <2>3 DEF Expire, Logout
<1>4. ASSUME NEW u \in Uid, DeleteAccount(u) PROVE Gate!Next
  <2> DEFINE S == {s \in Sid : owner[s] = u /\ row[s] # "absent"}
  <2>1. row' = [s \in Sid |-> IF s \in S THEN "gone" ELSE row[s]]
    BY <1>4 DEF DeleteAccount
  <2>2. S \in SUBSET Sid /\ \A s \in S : row[s] # "absent"
    OBVIOUS
  <2> HIDE DEF S
  <2>3. QED
    BY <1>2, <1>4, <2>1, <2>2 DEF DeleteAccount
<1>5. ASSUME NEW s \in Sid, CacheAge(s) \/ CacheLoss(s) PROVE UNCHANGED (Gate!vars)
  BY <1>1, <1>5 DEF CacheAge, CacheLoss
<1>6. ASSUME NEW u \in Uid, NEW v \in Grants, ChangeRoles(u, v)
      PROVE  UNCHANGED (Gate!vars)
  BY <1>1, <1>6 DEF ChangeRoles
<1>7. QED
  BY <1>3, <1>4, <1>5, <1>6 DEF World

LEMMA NextImplements == IInv /\ [Next]_vars => [Gate!Next]_(Gate!vars)
<1> SUFFICES ASSUME IInv, [Next]_vars PROVE [Gate!Next]_(Gate!vars)
  OBVIOUS
<1>1. CASE UNCHANGED vars
  BY <1>1 DEF vars, Gate!vars, statusBar, StatusOf, phaseBar, PhaseAt, aboutBar, IsLookup
<1>2. ASSUME NEW r \in Req, Respond(r) \/ Cancel(r) PROVE [Gate!Next]_(Gate!vars)
  BY <1>2, ResetImplements DEF Respond, Cancel
<1>3. QED
  BY <1>1, <1>2, ArriveImplements, LookupImplements, SignInImplements, FailsImplements,
     WorldImplements DEF Next, Step

LEMMA InitImplements == Init => Gate!Init
<1> SUFFICES ASSUME Init PROVE Gate!Init
  OBVIOUS
<1>1. \A r \in Req : ~IsLookup(r)
  BY DEF Init, NoJob, IsLookup
<1>2. QED
  BY <1>1 DEF Init, Gate!Init, statusBar, StatusOf, phaseBar, PhaseAt, aboutBar

\* The session walk implements the gate: whatever interleaves with a request,
\* it is granted only after an instant at which its session was open, and
\* refused only while it is not.
THEOREM WalkImplementsGate == Spec => SafelyImplementsGate
<1>1. Spec => Gate!Init /\ [][Gate!Next]_(Gate!vars)
  BY Invariant, InitImplements, NextImplements, PTL DEF Spec
<1>2. QED
  BY <1>1 DEF SafelyImplementsGate, Gate!Spec
=============================================================================
