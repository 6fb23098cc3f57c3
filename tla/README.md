# authrust in TLA+

A model of the `authrust` crate (sign-in, sessions, OAuth, LDAP, middleware for
axum services), the TLC runs that check it on small instances, and TLAPS proofs
of what matters most.  Paths are relative to the repository; `session.rs` is
`src/session.rs` of the crate.

## The system

authrust is a library linked into an application.  It keeps almost no state of
its own in memory: what it remembers lives in the application's database, in
Redis, in the cookies of browsers, and in three once-initialised cells.  Every
handler is an `async` function; between two `.await`s any other request, any
write of the application, any loss of a cache entry may happen, and at every
`.await` the future may be dropped because the client went away.

| component | state | operations | what is hard about it |
|---|---|---|---|
| sessions (`session.rs`, `session_check.rs`, `refresh.rs`, `authorize.rs`, `user.rs`) | rows of `sessions` and `users`, trimmed copies in Redis with a TTL, the token pairs handed out | `authorize`, `create_session`, `get_session_from_db`, `ensure_session_active`, `check_session`, `refresh_response` | two stores written without a transaction, late cache writes, revocation while a lookup runs, Redis failing half way |
| oauth flow (`action_auth.rs`, `cookies.rs`, `flow_intent.rs`, `connect_resource.rs`, `redirect.rs`, `checks.rs`, `oauth.rs`) | seven cookies of a browser, shared by all flows; the provider's code | `start_oauth`, `oauth_callback_inner`, `exchange_code`, `fetch_user_info`, `complete_sign_in`, `complete_provider_connect` | tabs overwriting each other's cookies, repeated callbacks, errors that leave cookies behind |
| ldap login (`providers/ldap/`) | one connection per login, the cached search base | `login`, `login_direct`, `resolve_base_dn`, `search_user` | three round trips between which the directory changes, a race for the cached base, timeouts |
| discovery (`provider_utils.rs`, `provider.rs`) | a `OnceCell` per provider | `discover`, `fetch_oidc_config`, `endpoint` | single flight with failing or dropped initialisers; a cached document is never refreshed |
| handles and the redis connection (`authorization.rs`) | settings shared by the clones of a handle, a `OnceCell` with the connection manager among them | `new_with`, `with_*`, `clone`, `redis_connection` | copy on write under running calls, a cell that is copied with the rest, a queue of attempts |
| tokens (`token.rs`, `claims.rs`) | none; signed claims in the hands of clients | `sign_token_pair`, `refresh_access_token`, `extract_token` | two readings of the clock, whole seconds, the leeway of the validation |
| middleware (`middleware.rs`, `options.rs`, `claims.rs`; again in `examples/actix`) | none | `api_outcome`, `web_outcome`; `jwt_guard`, `web_auth` | order of exclusion, token, session and role checks; the same rules written twice for two frameworks |
| credentials sign-in and csrf (`action_auth.rs`, `csrf.rs`, `callback_page.rs`) | csrf cookie, session cookie and local storage of a browser | `credentials_callback`, `verify_csrf`, `complete_sign_in`, `persistSignIn` | double submit across tabs; cookie, storage and row written in three places; a storage that is read and written back without a lock |
| role grants (`roles.rs`) | none | `get_role`, `parse_user_role_grant`, `roles_from_any` | many input shapes |
| durations (`utils.rs`) | none | `parse_custom_duration`, `go_duration_string` | two integer widths, parts that are left out |
| plumbing, passwords, provider definitions | none | | |

Interactions: the oauth flow, the LDAP and the credentials sign-in all end in
`authorize`, which creates a session; tokens and cookies name sessions; the
middleware, `check_session` and the refresh handler look them up;
`start_oauth` and the callback wait for discovery; lookups and `authorize`
wait for the Redis connection.

What makes each component correct:

- *sessions*: a session that has ended lets nobody in, whatever the cache says;
  a live one is never refused because of the cache; a request acts as the owner
  of the session it names; roles are those of the moment unless the code says
  otherwise; a lookup always ends.
- *oauth flow*: a flow ends as what it was started as, in the browser that
  started it, at most once; an error is reported only when there was one.
- *ldap login*: a login succeeds only with the password of the person it names;
  whoever has the right password, and a name of their own, gets in unless there is a
  fault; a login ends.
- *discovery*: one fetch at a time, every waiter is served, the document never
  changes once it is there.
- *tokens and the API layer*: an access token is never asked for after its
  session, or the role it opens a route with, has gone; a refresh token outlives
  its session.
- *credentials sign-in*: a sign-in that asks for a cookie comes from a form this browser
  was shown (one that asks for tokens need not, though it sets the cookie too), and such a
  form is not refused unless something outdated it; cookie and storage name sessions that
  exist, the same one, and a sign-in loses the session of another only if both were at the
  storage at once.
- *handles*: a handle behaves as a value of its own, whatever it shares with its
  clones, and is connected to its own Redis client; one attempt to connect at a time.
- *role grants and layers*: the roles somebody has are those the texts say, through
  whichever decoder they come; the two layers, and the guards of the example, agree on
  who is let through.
- *durations*: a lifetime is what was written if its number is below 2^32 and never longer
  than that, and is read back as it was.

## Modules

| module | models | proofs |
|---|---|---|
| `Sessions` | the walk of a request through cache and database | `SessionsProofs` |
| `SessionGate` | abstract specification: a session lookup is decided at one instant | |
| `SessionsRefine` | the mapping under which `Sessions` implements `SessionGate` | `SessionsProofs` |
| `OAuthFlow` | flows, cookie jars, callbacks, the provider's code | `OAuthProofs` |
| `Flows` | abstract specification: flows share nothing and are completed once, as they were asked for | |
| `FlowsRefine` | the mapping under which `OAuthFlow` implements `Flows` | `OAuthProofs` |
| `Discovery` | the once-cell of a provider's endpoints and the handlers that share it | `DiscoveryProofs` |
| `Endpoints` | abstract specification: a provider's endpoints are settled once | |
| `EndpointsRefine` | the mapping under which `Discovery` implements `Endpoints` | `DiscoveryProofs` |
| `LdapLogin` | logins of the three kinds of LDAP client against a directory | `LdapProofs` |
| `TokenLife` | one session, its tokens and the API layer against a clock | `TokenLifeProofs` |
| `SignIn` | credentials sign-ins in the tabs of a browser: form, csrf, answer, page | `SignInProofs` |
| `Handles` | shared settings, copy on write, the cell of the Redis connection | `HandlesProofs` |
| `HandleValues` | abstract specification: every handle is a value | |
| `HandlesRefine` | the mapping under which `Handles` implements `HandleValues` | `HandlesProofs` |
| `Layers` | the options of a layer and what becomes of a request: role texts, their decoders, the two layers and the example's guards | `LayersProofs` |
| `Durations` | a setting and what becomes of it: lifetimes as they are written and told | `TokenLifeProofs` |
| `MCSessions`, `MCOAuthFlow`, `MCDiscovery`, `MCLdapLogin`, `MCTokenLife`, `MCSignIn`, `MCHandles` | instances for TLC (`MCSessions`, `MCOAuthFlow`, `MCDiscovery` and `MCHandles` with their refinements, `MCDiscovery` also with `Layers`, `MCTokenLife` with `Durations`) | |

### Sessions

`row` and `owner` are the `sessions` table (`expires_at` and `is_deleted` folded
into one status), `account` the roles column of `users`, `cache` Redis,
`tokens` the token pairs and session cookies in circulation (the refresh token
and the cookie name the same session and user).  A request `r` is a handler
future: `pc[r]` is the query it is waiting for, `job[r]` what it presented,
`got[r]` the session it has loaded so far.  There is one action per `.await`,
named after the function that awaits; what runs between two awaits belongs to
the action of the first.  `Fails` is the query that returns an error where the
code passes it on with `?`; where the code swallows the error (Redis reads and
writes, the role queries) the failure is a disjunct of the action itself.  That
`refresh_access_token` cannot sign (`session_check.rs:58`, `refresh.rs:158`) is left out:
it awaits nothing, and an error is all the request gets.
`Cancel` drops the future at any await.

External, modelled from how the crate uses it: the application's logout
(`is_deleted`), role changes and account deletion (`examples/schema.sql` has the
`ON DELETE CASCADE`), Redis' TTL and evictions, the database clock.

Three ghosts serve the properties only: `job.owner` and `job.live` (the owner
and state of the row when the request began), `got.unread` (the role query
failed), `held` (every role list the user had while the request ran).

Taken as given: session ids are never reused (random uuids), clients present a
token of the right kind for the endpoint, the JWT secret is not empty
(`Authorization::new` makes sure of it), Redis entries are written by
this code alone.

### SessionGate and its refinement

The gate knows sessions that are open, barred (opened without a user) or ended
and requests that ask, see the session open once, and are granted or refused.
`SessionsRefine` maps a lookup to `seen` from the moment its last liveness query
has passed: `ensure_session_active` on the cache path, the `SELECT` of the row
on the other.  A refusal needs the session not to be open *at that step*.

### OAuthFlow

The server keeps nothing of a flow between its two requests, so the state is
the browser's `jar`, what each flow asked (`ask`, `phase`), the provider's `code`
and the callbacks in progress.  A random value is represented by the flow it was
drawn for, so that comparing `state` is comparing flows.  A response takes effect
when it *reaches* the browser (`StartDelivered`, `CallbackDelivered`), in any
order and maybe never; a callback carries the jar of the moment it was *sent*.
`result` is what the callback's response says, `did` what it left behind even
when the response is an error or is lost.  `signed` in a jar is the flow whose
sign-in set the session cookie.  `stirred` is a ghost: the flows whose cookies
another response, or their age, has touched since they were set.
`on_provider_connect` is taken to be configured.  The provider and the
application's `resolve_user` and `on_provider_connect` are external.

### Flows and the refinement

In `Flows` a flow is asked for one *deed*, a session or a connect of a resource, in one
browser; once the person has consented, it is done by one callback or by none, and as
asked for if it was `checked`, that is if the provider asks for `state` or PKCE.
The session of a browser comes from a flow that was done there.  There are no cookies and
no codes.  `FlowsRefine` reads all of it off `OAuthFlow`: `askedBar` from what the sign-in
request said, `doneBar` from what callbacks left behind or answered, each under the name of
its callback, so that a flow that is done twice has two of them.  A response that is lost
after its call was made (`CallbackLost`) completes its flow like any other.

### Discovery

`cell` is the provider's `OnceCell`, `permit` the caller that initialises it and
`queue` those that wait: tokio's cell is a one-permit semaphore, first come first
served, that gives the permit back when an initialiser fails or is dropped.
`get_or_try_init` and `fetch_oidc_config` are the two awaits of `discover`;
`AfterDiscover` is what the calling handler does at once with the endpoint it came
for, and `exchange_code` and `fetch_user_info` are there for the third endpoint,
read later.  A failing `issuer` (`Down`) is any answer that is not status 200 with a JSON
object.  `read` (documents an endpoint was taken from) and `hurt` (callers that
overlapped with an outage) are ghosts.  `configured` is the set of endpoints the
configuration names, one of `Config` for a whole behaviour.  `OAuthFlow` takes
`discover` as one step; its callers there have no cell in common.

In `Endpoints` nobody fetches and nobody waits for another: a handler asks for an endpoint
and is told that it has it or that there is none; one of those that ask settles on a
document, in one step and for all of them, and until then each may fail by itself.  When
configuration alone settles the matter, there is no document.  `EndpointsRefine` reads
the question off the handler (`wantBar`: `authorization` at the start, `token` and then
`userinfo` in the callback) and the answer off where it has got to (`phaseBar`).

### LdapLogin

The directory is `entry` (passwords by entry), `root` (what its RootDSE names as
search base) and `silent`; `base_dn` is the client's `OnceCell`, filled with `set`,
which keeps the first value.  A login `l` is one call of `Client::login`: `typed[l]`
says which client it is on (service account, anonymous search, direct bind) and
what was typed, `pc[l]` is the round trip it waits for, `who[l]` the entry it has
found or bound, `under[l]` the base it searches.  There is one action per round
trip; what the code does with the answer belongs to it.  `armed[l]` is `ldap3`'s
timeout, which `with_timeout` sets for the next operation only.  `Broken` is a
connection that is lost in the middle of a round trip.  `seen[l]` is a ghost: what
each entry was while the login ran.  An entry that is `Locked` is found and its binds are
refused, whatever the password: it stands for accounts that are locked, disabled or expired.
`bind_failure` answers `InvalidCredentials` to the result codes 49 and 34.  Directories
may send 49 for such accounts too, as Active Directory and OpenLDAP's password policy do, or a
code of their own; so a bind that is not accepted may end in either error.  That 49
and 34 are not sent for a bind the directory would accept is an assumption about it, and so
is that the filter has a place for the name: a template without `{}`
(`providers/ldap/mod.rs:380`) finds the same people whoever logs in.  That principal names
are unique in direct mode is another.  The mapping of attributes onto a user
(`user.rs`) is left out; TLS, StartTLS and URL parsing are part of `dial`.

### TokenLife

One session of one user and the application's requests for it, with a clock `now`
in fractions of a second.  `row` has the status and `expires_at` as the database
has them, `refresh` and `access` are the `exp` of a refresh token and an access
token of the session, with the roles in the latter.  `authorize` reads the clock
twice, in `create_session` and in `sign_token_pair`, with the INSERT between them;
`validation` compares whole seconds with `jsonwebtoken`'s leeway.  `access` is one of
the access tokens, any of them: each refresh may replace it.  `api_outcome` is the
answer of the API layer when it is shown that token now.  The ghosts `open` and
`held` say what was true when the request arrived and while it ran; a token keeps
those of the request that had it signed.  Redis is left to `Sessions`, so the roles
are those of the database; a sign-in whose INSERT fails, or whose reply is lost,
ends in `Leave`, before or after the row is there.

### SignIn

One browser with tabs `t`.  `pc[t]` goes from the form, through the awaits of
`credentials_callback` and `complete_sign_in`, to the answer and, if it is the page, its
script and its timer; `job[t]` is the request the tab sent.  The tabs share the `csrf`
cookie, the session `cookie`, and the local storage (`stored`, `current`).  A form takes
its token when it is shown; whether its cookie is still there is found out when it comes
back.  A token stands for itself, and its signature for the secret it was made with
(`by`): `verify_csrf` compares both.  An answer takes effect when it is received
(`Receive` sets the cookie), and a tab may be closed at any moment before (`Close`).
`persistSignIn` reads the storage with `getItem` and writes it back with `setItem`, in
`ReadStorage` and `WriteStorage`; `held[t]` is what it has read.  The script does not wait
in between, but windows may run in processes of their own and browsers lock nothing
between them, so another window's script, or a sign-out, may come in the middle.  The
application's own forms, its sign-out and its switch of sessions are external and one step
each, so that what its frontend may lose by writing on its own is not seen here; external
too is `resolve_user`.  Ghosts: `drawn` (the secret a token was drawn under), `fresh` (a form's
cookie is still the one it was shown with), `calm` (nobody touched the browser's session
since the tab's answer), `put` (the sessions that pages have written since the last
sign-out), `raced` (those written, or signed out of, while a script was between reading
and writing).  Rows are deleted in `Sessions`, not here.

### Handles, HandleValues and the refinement

`at[h]` is the `Arc` of a handle, `inner` the allocations; a handle that shares its
allocation copies it in `make_mut`, with whatever the cell holds.  All settings that are
texts or durations are one function, as their builders have one shape; likewise the ones
that are present or not.  A call of `redis_connection` borrows its handle: no builder
takes that handle, and it is not dropped, until the call returns; its clones are free.
`wait` and `connect` are the awaits of the cell's `get_or_try_init`; the free permit is the
absence of a call that connects.  In `HandleValues` there are no allocations, no cells and
no permit: each handle has its settings, a call is answered with a connection to the
client of its handle or fails.  `HandlesRefine` maps a handle to the settings behind it.

### Layers

All but the variable `layer`, the options the layer was made with, are operators: a text is a sequence of words, of which one is a blank, one a
colon, and the others have a lower-case form and may have the letters `r` and `w`.  A list of
roles is the set of its elements, since nothing asks for their order, and an element that
is no string is `Other`.  A request is its path, the token of its header and of its query, or
the answer of `get_session` for its cookie.  The options of a layer are closures that each
set one field, so the last one for a field stays (`LastOption`).  A token is valid or not; `parse_jwt` against
the clock is in `TokenLife`.

### Durations

The variable `setting` is one duration of the configuration: its digits and what follows
them.  The number is read as a `u64` and cut to a
`u32` before it multiplies the unit; both widths are parameters, as TLC's own numbers have
32 bits.  With 8 and 64 for them, the run has numbers below, at and above both.
`go_duration_string` is taken at whole seconds, all it is ever given.

## Runs

| run | instance | shows |
|---|---|---|
| `sessions_race` | 1 session, 1 user, 2 requests, 2 role lists, TTL 1, with Redis | `TypeOK`, `GrantWasLive`, `RefusedOnlyIfEnded`, `StaleOnlyIfUnreadable`, `SafelyImplementsGate` |
| `sessions_live` | 1 request, TTL 2; 1 session of a user with and without roles, or 2 sessions of 2 users without roles; fair | `GrantIsOwner`, `TokensNameTheirRow`, `EveryRequestEnds`, `RevocationSettles`, `ImplementsGate` |
| `sessions_stale_roles` | 1 request | violation: `CheckSessionRolesUpToDate` |
| `oauth_mixed` | 2 flows, 2 callbacks, 2 browsers, a provider with `state` and one with `pkce` | `MismatchOnlyIfStirred`, `CompletedAsStarted`, `ImplementsFlows` |
| `oauth_tokens` | 1 flow | violation: `TokensInsteadOfCookie` |
| `oauth_nonce` | 2 flows, a provider with `nonce` alone | violation: `NonceChecked` |
| `discovery` | 3 callers, 2 documents that name different endpoints, 5 sets of configured endpoints, fair; role texts of up to 4 of 6 words, lists of up to 2 of 7 roles, 5 paths, 2 users | `OneDocument`, `UndiscoveredOnlyIfDown`, `ImplementsEndpoints`, `EveryCallerEnds`, `OutagesEnd`; of `Layers`: `RolesAsWritten`, `LayersAgree`, `OnlyHoldersPass`, `GuardsAreLayers` |
| `ldap_modes` | 1 login on any of three clients, 2 people, 2 passwords and a locked account, 2 naming contexts; the two share the attribute the filters look at; or 2 direct logins of 1 person | `LoginIsVerified`, `NobodySharesTheName`, `RightPasswordIsTaken`, `NotFoundOnlyIfAbsent`, `BaseSettles` |
| `ldap_timeout` | 1 login with a service account, fair | violation: `EveryLoginEnds` |
| `token_life` | 2 requests, 2 roles of which a route asks for one, a clock of 9 half seconds, an access token of one tick, a session of four, a leeway of one second | `AccessEndsWithSession`, `AccessEndsWithRole`, `RefreshEndsWithSession`; of `Durations`: `LastsAsWritten`, `TokenLifeReadsBack` |
| `sign_in` | 2 tabs, 2 users, 2 sessions, 2 csrf tokens, 2 secrets | `SignInFromOwnForm`, `ForbiddenOnlyIfOutdated`, `CookieAgreesWithStorage`, `LostOnlyInRaces` |
| `handles` | 3 handles, 3 allocations, 2 calls, 2 clients, 2 texts, fair | `ConnectsToOwnClient`, `OneConnectionAtATime`, `ImplementsValues`, `EveryCallEnds` |

Why the bounds are enough.  A hazard of the session walk involves a request, one
other request that writes the cache, and the world: two requests on one session
produce every order of two cache writes, of a write and a logout, of a read and
a role change.  Mixing up sessions needs two of them with two owners, and one
request, since any number of earlier requests can have filled the cache.  Two
role lists are one that is empty and one that is not, which is the only thing
the code asks of a list.  The TTL only has to be able to run down
(1), and to run down partly and be renewed (2, for `RevocationSettles`).  For the
flows, two of them in one of two browsers, with two callbacks, give every
overwriting of a jar, both repeated and foreign callbacks, and a callback of one
flow while the other is on its way.

For the cell, three callers are the initialiser, the waiter that takes over when it
fails, and one that arrives late and finds the cell filled; two documents are
enough to disagree.  For LDAP a race for the base needs two logins, everything else
is between one login and the directory; two people in one naming context under one
name, or in two, give every answer of a search.  For the clock, the lifetimes only
have to be told apart, to straddle a second, and to end within its bound: with nine
ticks both tokens and the row can expire, in every order the code allows.  For forms, two tabs
and two tokens give every order of showing, outdating and posting two forms, and two
secrets a restart between any two of them; two sessions of two users are what two windows
can mix up or lose.  For handles, two share an allocation while a third has taken part of it
away; two calls are one that connects and one that waits.  The texts of `Layers` are long
enough for a blank on either side of a name, a colon and permissions, or two colons, and
the lists for a role that matches next to one that does not.

Six runs have a state constraint, so that two questions need not be multiplied with
each other; each names both halves (`OneSessionOrNoRoles`, `SecondIsRace`,
`FormsOrSessions`, `ThreeHandlesOrTexts`).  In `sessions_live`, two sessions are without
roles, which is all that mixing them up needs; in `ldap_modes` the second login is a
direct one, as only those write what logins share, the account of one person alone is
locked or gets another password, and the RootDSE changes under direct logins; in `sign_in` there are either two
forms and restarts, or two sessions, which do not look at each other's state; in
`handles` three handles go with one call, two with two, and texts other than the defaults
with none.  `Layers` and `Durations` never change their variable: `discovery` and
`token_life` start from each of its values, where their properties are checked, and go
on from one of them (`LayerOrProvider`, `OneSetting`).  `token_life` and
`ldap_modes` use symmetry with no liveness among their properties.

The proofs lift the bounds for every safety property of a passing run, those of `Layers`
and `Durations` included.  Type invariants, and five invariants that others of their run
rest on or imply (`OneFetchAtATime`, `MissingOnlyIfNamedNowhere`, `HandlesAreComplete`,
`BrowserNamesRows`, `CompletedOnce`), are proved and no longer checked in a run, with the
exception of `Sessions`' type.

Symmetry is used for interchangeable requests, flows, callbacks, browsers and
logins in runs that check no liveness.

Deadlock is checked in all runs but those of the flows, as a client can always come back.  It is off for the flows: each flow and each callback of an instance is
sent once, so an instance ends.

Fairness (`FairSpec` of `Sessions`): weak fairness of the step of each request
(the runtime polls a future whose I/O is ready, and every query and Redis
command completes with a result or an error), and of the Redis clock on each
entry.  Nothing is assumed of clients, logouts, role changes or evictions.
`FairSpec` of `Discovery`: the same for each handler: the HTTP client has a timeout of 15
seconds (`provider_utils.rs`), the semaphore of the cell is fair, woken futures are
polled; nothing is assumed of the issuer or of clients that wait or leave.
`FairSpec` of `Handles`: an attempt to connect ends; and strong fairness of a call that waits
for the permit: tokio's queue is first come first served, so a call gets the permit if it
is free again and again.  Nobody has to return a handle or drop it.
`FairSpec` of `LdapLogin`: a directory that is not silent answers, and a timeout that
is armed fires; nothing makes a silent directory come back.

What `LostOnlyInRaces` leaves open does happen: of two windows that sign in at once, the one
that writes last drops the other's session from the storage, and a page that read before a
sign-out brings the sessions back that were signed out.  Their rows, and the cookie, are
untouched by it.  No doc or comment promises otherwise, so it is no finding.

### What the violations mean

- `sessions_stale_roles`: `get_session_from_db` replaces the cached roles only when
  the list read from the database is not empty (`session.rs:155`).  A user whose
  roles were all taken away keeps the cached ones until the entry expires;
  `check_session` promises up-to-date roles (`session_check.rs:22`).
  `StaleOnlyIfUnreadable` says that this and a failing role query are the only
  ways to stale roles, and `RevocationSettles` that it ends with the entry.
- `oauth_tokens`: the token-flow preference is carried to the callback and then
  ignored; the answer sets a session cookie (`action_auth.rs:214`, `532`).
- `oauth_nonce`: the nonce is drawn, stored and sent, never compared.
- `ldap_timeout`: `Config::timeout` "applies to dial, bind and search operations"
  (`providers/ldap/mod.rs:97`), but `with_timeout` is called once after dialling
  (line 331) and the client library takes it for the next operation alone.  The
  search and the second bind of a login wait for ever on a directory that has
  fallen silent.

Disagreements seen while modelling that no run is needed for: `docs/providers/ldap.md`
writes templates with `%s`, the code replaces `{}`; `AmbiguousUser` needs a directory that
ignores `sizelimit(1)` (`providers/ldap/mod.rs:301`), which is why `NobodySharesTheName`
has to say what a success means; `docs/providers/ldap.md:97` has `InvalidCredentials` for
"user bind failed", while only the result codes 49 and 34 are answered so: every other one,
and a bind that breaks off, is an `InvalidCredentialsDetail`, which the table does not name; `discover` "fills in any missing OAuth endpoints"
(`provider_utils.rs:99`), but not the userinfo endpoint when the other two are configured,
so that the profile is empty after the code was spent (`EmptyProfileOnlyIfUnnamed` has
this case); `docs/providers/credentials.md` has token-flow clients "not cookie-based",
while `complete_sign_in` sets the session cookie in both flows (`action_auth.rs:614`), and
has `fields` "returned by `GET /providers`", while `PublicProvider` has none
(`provider.rs:76`); `Config::auth_url` is never empty after the defaults, which are
`localhost`; the callback-url cookie, the one flow cookie without an age, is written from
sign-in to sign-in (`redirect.rs:20`) and never becomes the target of a redirect; the page of
the callback writes a bare snapshot, whether or not it found one in a wrapper of the
frontend's store; the guard of the actix example answers 403 where the layer answers 500
(roles that cannot be read), and its `web_auth` redirects where the layer answers 500 (a
failing database); a string that is no JSON list is a role in a claim
(`roles.rs:120`) and an error in the database column (`types.rs:192`).

## Proofs

All theorems hold for every value of the constants allowed by
`SessionsAssumption` (the special values are not ordinary ones, the TTL is
positive), `OAuthFlowAssumption` (the same, and only a connect names a
resource: `connect_resource_id` is read in the connect branch only),
`DiscoveryAssumption` (constants of the right kind), `LdapAssumption` (what
`Client::new` insists on, and unique principal names), `TokenLifeAssumption`
(lifetimes, leeway and clock are natural numbers, a second has at least one tick),
`SignInAssumption` (the special values are not ordinary ones), `HandlesAssumption`
with `FreedAssumption` (the same, defaults are not empty, and there are the settings
`jwt_secret` and `db`), `LayersAssumption` (texts are sequences of words, a list is one of
roles, a blank has no letters of a permission, and what is no text is no word) and
`DurationsAssumption` (numbers and widths are natural, no width is zero).

*`SessionsProofs`.*  No listed property is inductive.  The invariant `IInv` adds,
to the type, what each await may rely on: an entry of the cache was written for
its session's owner, so a hit loads the right user although the row is not read;
a request past its last liveness query began on a live row, because rows never
come back to life; refusals point at a row that is no longer live, and stays so;
`held` contains the roles of the user's row as long as the request runs, so roles
just read are in it, and stale ones can only come from the two branches that
keep them.  `NextIInv` has one case per action; the properties follow from the
conjuncts for `granted` and the refusals.

The second half of the module is `WalkImplementsGate`: the initial states map, and with
`IInv` every step of the walk is a step of the gate or a stutter, action by
action.  `IInv` is needed for the steps of the cached path, whose guard speaks of
the row and not of the user.

*`OAuthProofs`.*  The heart of `IInv` is that the values in a jar are *tied*: all
flow cookies in a jar belong to one start response, so a jar that holds the
`state` or verifier of a flow also holds its intent and its resource, and belongs
to the browser that sent it.  Callbacks carry such jars; so a callback that passed the
check carries the purpose of its own flow.  `CompletedOnce` rests on the code: at
most one callback per flow is past the exchange, and then the code is spent.
`MismatchOnlyIfStirred` rests on the jar still holding the flow's values as long as
the flow is not stirred.  `FlowsAreAlone` shows each step of `OAuthFlow` to be one of
`Flows` or a stutter.  What completes a flow is told by `HolderIsTied`: a callback past the
exchange has the browser, the intent and the resource of its flow, if that is guarded, and by
`OnceInv` no other callback was there before; every step on the way there, every cookie and
every failure is a stutter.  A session cookie that arrives is one more step of `Flows`.
`SessionsAreAsked` is then proved of `Flows` alone (`AloneInv`) and holds of `OAuthFlow`
through the refinement.

`RolesUpToDateWithoutRedis` is proved only: without Redis a granted request carries
roles its user held during it.

*`DiscoveryProofs`.*  Two facts carry everything: a caller that fetches holds the
permit and the cell is empty, so there is one fetch and a filled cell is never
filled again; and every document an endpoint was taken from is the one in the cell.
`Goes` states once what a handler does after `discover`.  The order of the queue is
needed for liveness only; `WithoutType` says that it stays a queue of callers.
`EmptyProfilesAreUnnamed` also needs that a code is only exchanged after discovery
(`ExchangesAreDiscovered`), as the document is looked at a second time then.
`EndpointsAreOnce` shows each step of `Discovery` to be one of `Endpoints` or a stutter.
A fetch settles a matter that is not settled: its cell is empty, and nobody queues for an
endpoint that needs no document (`AsksAreNeeded`).  Taking the permit is a stutter, and so
is everything the issuer does.  `AnswersAreKept` is proved of `Endpoints` alone
(`OnceInv`) and holds of `Discovery` through the refinement.

*`LdapProofs`.*  The ghost `seen` contains what each entry is now as long as the login
runs (`Overlap`), so an answer of the directory is about a moment of the login.  The
rest is pointwise in the logins (`Fine`): an entry that is bound as was found, a search
has a base, and each outcome has its witness in `seen`.  For `RightPasswordIsTaken`: a password that was right all the while is
the one the entry has now (`RightfulIsThere`), so the search of the right base (`OwnBase`) finds
that entry and no other (`RightfulIsFound`), and the bind as it is accepted
(`RightfulIsAccepted`); an entry that was found and then replaced by another of the name would
have been seen (`FoundIsThere`).  `FoundAlone` keeps, from the search
to the success, that nobody else of the name was there when it ran.

*`TokenLifeProofs`.*  A sign-in is the only request until its tokens are signed, so
the row's expiry was computed from an earlier reading of the clock than the refresh
token's, and whole seconds are monotone (`SecondsMonotone`): the token outlives the
row.  A session that is usable now was usable when the request arrived, because
nothing makes it usable again; and what a request has read of the roles was held
while it ran.  So every token is signed well (`SignedWell`).

The second half of the module is about `Durations`.  The number that is cut to
its width is no greater than the one that was written, and the same one below the width
(`CutIsNoGreater`), and so is its product with a unit; hours, minutes and seconds are quotients and remainders that add up
again (`PartsAddUp`).

*`SignInProofs`.*  The invariant follows the three things a browser holds.  The csrf cookie
was drawn under the secret it is signed with (`CookieIsDrawn`), and a form that is still
fresh has its token (`FreshHasToken`): so what passes the check was drawn by this server,
and what fails it is not fresh.  A request that created a session is for the user of its
row (`JobNamesRow`), and cookie and storage take sessions from such requests only.
`CalmAgrees` follows an undisturbed answer from the cookie to the storage.
What a script has read is as good as the storage but for the sessions that are raced
(`HeldIsKept`): whoever writes meanwhile puts its own session among these, and so does a
sign-out with all there are.

*`HandlesProofs`.*  `make_mut` leaves every other handle its allocation, and what it puts
into the handle's own is `Sound`: complete settings, and no connection but one to their
client.  A call has read the client its handle is still set to (`CallsBorrow`), because a
borrowed handle cannot be built upon; so the connection it makes belongs to the
allocation it is stored in.  `HandlesImplementValues` maps each action: a builder with an
empty text, a wait and an attempt that starts are stutters.

*`LayersProofs`.*  `trim`, `split_once` and `trim` once more leave a piece of the text they
started with: `TrimPiece` and `SplitPiece` say which, by the first and the last of its
positions that are not blank, before and after the first colon (`TextsAreSpans`).  The
longest of the candidates for a name in `RoleName` is that very piece (`RoleNameIs`), so a
grant is for an endpoint iff the two texts share a name (`HasRole`), and the letters in the
last piece are those behind the colon (`PermsSay`).  No induction over texts is needed, only
that a set of positions has a least and a greatest one.  The layers follow: with roles
that the database can hold, both decoders come to the same roles (`LayersGiveOneAnswer`),
and the guards differ from the layers only in the status of a refusal.

Proved and not in a run: the type invariants of all modules but `Sessions`,
`FetchesAreSerial`, `RefusalsAreReal`, `EmptyProfilesAreUnnamed`, `AnswersAreKept`, `BrowserNamesExistingRows`, `HandlesStayComplete`,
`FlowsCompleteOnce`, `SessionsAreAsked` and `RolesUpToDateWithoutRedis`.

Model-checked only: `EveryRequestEnds`, `RevocationSettles`, `EveryCallerEnds`,
`OutagesEnd`, `EveryCallEnds`, the fairness part of `ImplementsGate` (liveness, which is out
of the proof system's reach), and the violations.

## Not modelled, and why

- Formatting, parsing and adapters (`http.rs`, `response.rs`, `axum_support.rs`,
  `types.rs` beyond `JsonbArray::scan`, `db.rs`, `errors.rs`): no state; the outcomes that
  matter are guards of the modules that call them.
- `password.rs`: one key derivation and a comparison.
- Provider definitions (`providers/google.rs`, `azuread.rs`, `common.rs`): constant tables
  and mappings of profiles; `OAuthFlow` takes the checks as a constant.
- The names and attributes of cookies (`cookies.rs`): a jar has one cookie of a kind; that the
  names of secure and plain origins differ only shows when an origin changes its scheme.
- Of `SignIn`: other browsers, as they share only the table of sessions, which `Sessions`
  has; of `Handles`: the settings that have no builder.
- The example applications beyond the guards of `examples/actix`.

## How it was ordered, and what could follow

Sessions and their gate came first, then the OAuth flow, discovery, LDAP, token
lifetimes; then the credentials sign-in and what it leaves in the browser, handles and
their abstract specification, layers and durations.  After these the proofs
were extended to layers and durations, and to abstract specifications of the flows and of
the endpoints.  What could follow: an abstract specification of an LDAP login, decided at one
instant of the directory where that is so; the choice of cookie names and domains by scheme
and configuration.
