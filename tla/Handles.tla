------------------------------- MODULE Handles -------------------------------
(***************************************************************************)
(* Authorization: handles around shared configuration.                     *)
(*                                                                         *)
(* A handle is an Arc of an Inner.  Clones share it until a builder is     *)
(* called on one of them: Arc::make_mut changes the Inner in place when    *)
(* the handle is the only one, and otherwise leaves the others the old one *)
(* and copies it, with what its once-cell holds.  The cell is filled by    *)
(* the first call that needs Redis while the others wait for its permit;   *)
(* a call borrows its handle, so no builder and no drop is possible there  *)
(* until it returns.                                                       *)
(***************************************************************************)
EXTENDS Naturals

CONSTANTS
  Handle,       \* Authorization values of the process
  InnerId,      \* allocations of Inner
  Call,         \* redis_connection futures
  TextField,    \* jwt_secret, auth_url, redis_prefix, redis_ttl, cookie_session_name, ...
  Text,         \* their non-empty (non-zero) values
  Default,      \* [TextField -> Text] what Config::default has, but for jwt_secret
  Empty,        \* the empty string, or a zero duration
  ObjectField,  \* db, resolve_user, ...
  Object,       \* pools and functions
  Client,       \* Redis clients
  None, Dropped, NoHandle, Freed

ASSUME HandlesAssumption ==
  /\ "jwt_secret" \in TextField /\ "db" \in ObjectField
  /\ Default \in [TextField -> Text]
  /\ Empty \notin Text /\ None \notin Object /\ None \notin Client
  /\ Dropped \notin InnerId /\ NoHandle \notin Handle

\* A Config, and the part of an Inner that comes from it.
Config == [text   : [TextField -> Text \cup {Empty}],
           object : [ObjectField -> Object \cup {None}],
           redis  : Client \cup {None}]

\* redis_manager: empty, or a connection to a client.
Inner == [conf : Config, cell : Client \cup {None}]

ASSUME FreedAssumption == Freed \notin Inner /\ \A v \in Config : v # Dropped

VARIABLES
  at,       \* [Handle -> InnerId] the Arc
  inner,    \* [InnerId -> Inner]
  pc,       \* [Call -> Label]
  holder,   \* [Call -> Handle] the handle it borrows
  client,   \* [Call -> Client] the client it found in the Inner
  got       \* [Call -> Client] where its connection goes

vars == <<at, inner, pc, holder, client, got>>

Label == {"idle", "wait", "connect", "ok", "err"}

TypeOK ==
  /\ at     \in [Handle -> InnerId \cup {Dropped}]
  /\ inner  \in [InnerId -> Inner \cup {Freed}]
  /\ pc     \in [Call -> Label]
  /\ holder \in [Call -> Handle \cup {NoHandle}]
  /\ client \in [Call -> Client \cup {None}]
  /\ got    \in [Call -> Client \cup {None}]

Init ==
  /\ at     = [h \in Handle |-> Dropped]
  /\ inner  = [i \in InnerId |-> Freed]
  /\ pc     = [c \in Call |-> "idle"]
  /\ holder = [c \in Call |-> NoHandle]
  /\ client = [c \in Call |-> None]
  /\ got    = [c \in Call |-> None]

calls == <<pc, holder, client, got>>

-----------------------------------------------------------------------------
(* Making handles *)

\* Config::apply_defaults: everything but the secret has a default.
apply_defaults(v) ==
  [text   |-> [f \in TextField |->
                 IF v.text[f] = Empty /\ f # "jwt_secret" THEN Default[f] ELSE v.text[f]],
   object |-> v.object,
   redis  |-> v.redis]

\* What new_with asks of a configuration.
Valid(v) == v.text["jwt_secret"] # Empty /\ v.object["db"] # None

\* from_config_unchecked: a new Inner, with an empty cell.
from_config_unchecked(h, v) ==
  \E i \in InnerId :
    /\ inner[i] = Freed
    /\ inner' = [inner EXCEPT ![i] = [conf |-> apply_defaults(v), cell |-> None]]
    /\ at'    = [at EXCEPT ![h] = i]

\* new_with: the options leave any configuration; one that is refused leaves
\* nothing behind.
new_with(h) ==
  /\ at[h] = Dropped
  /\ \E v \in Config : Valid(apply_defaults(v)) /\ from_config_unchecked(h, v)
  /\ UNCHANGED calls

\* #[derive(Clone)] of Authorization: the Arc is counted up.
Clone(g, h) ==
  /\ at[g] # Dropped /\ at[h] = Dropped
  /\ at' = [at EXCEPT ![h] = at[g]]
  /\ UNCHANGED <<inner, calls>>

Shared(h) == \E g \in Handle \ {h} : at[g] = at[h]

\* The builders take the handle by value, and a handle cannot be moved or
\* dropped while a call borrows it.
Owned(h) == at[h] # Dropped /\ \A c \in Call : holder[c] # h

Drop(h) ==
  /\ Owned(h)
  /\ at' = [at EXCEPT ![h] = Dropped]
  /\ inner' = IF Shared(h) THEN inner ELSE [inner EXCEPT ![at[h]] = Freed]
  /\ UNCHANGED calls

-----------------------------------------------------------------------------
(* Builders *)

\* (mutant) the Inner is changed in place, shared or not
make_mut_in_place(h, new) ==
  /\ inner' = [inner EXCEPT ![at[h]] = new]
  /\ UNCHANGED at

\* Arc::make_mut, and the assignments that follow it: the Inner that comes out
\* is h's alone.
make_mut(h, new) ==
  \/ /\ ~Shared(h)
     /\ inner' = [inner EXCEPT ![at[h]] = new]
     /\ UNCHANGED at
  \/ /\ Shared(h)
     /\ \E i \in InnerId :
          /\ inner[i] = Freed
          /\ inner' = [inner EXCEPT ![i] = new]
          /\ at'    = [at EXCEPT ![h] = i]

Conf(h) == inner[at[h]].conf
Cell(h) == inner[at[h]].cell

\* with_jwt_secret, with_auth_url, with_redis_prefix, with_redis_ttl and
\* with_cookie_session_name: an empty value changes nothing.
with_text(h, f, x) ==
  IF x = Empty THEN UNCHANGED <<at, inner>>
  ELSE make_mut(h, [conf |-> [text   |-> [Conf(h).text EXCEPT ![f] = x],
                              object |-> Conf(h).object, redis |-> Conf(h).redis],
                    cell |-> Cell(h)])

\* with_db and with_resolve_user.
with_object(h, f, x) ==
  make_mut(h, [conf |-> [text   |-> Conf(h).text,
                         object |-> [Conf(h).object EXCEPT ![f] = x],
                         redis  |-> Conf(h).redis],
               cell |-> Cell(h)])

\* (mutant) the connection that is open stays
with_redis_keeps_cell(h, x) ==
  make_mut(h, [conf |-> [text |-> Conf(h).text, object |-> Conf(h).object, redis |-> x],
               cell |-> Cell(h)])

\* with_redis: a new client, and a new cell for its connection.
with_redis(h, x) ==
  make_mut(h, [conf |-> [text |-> Conf(h).text, object |-> Conf(h).object, redis |-> x],
               cell |-> None])

Build(h) ==
  /\ Owned(h)
  /\ \/ \E f \in TextField, x \in Text \cup {Empty} : with_text(h, f, x)
     \/ \E f \in ObjectField, x \in Object : with_object(h, f, x)
     \/ \E x \in Client : with_redis(h, x)
  /\ UNCHANGED calls

-----------------------------------------------------------------------------
(* redis_connection *)

Goto(c, label) == pc' = [pc EXCEPT ![c] = label]

\* Somebody has the permit of the cell of i.
Initialising(i) == \E d \in Call : pc[d] = "connect" /\ at[holder[d]] = i

\* It is called on h: without a client it fails at once.
redis_connection(c, h) ==
  LET x == Conf(h).redis IN
  /\ pc[c] = "idle" /\ at[h] # Dropped
  /\ holder' = [holder EXCEPT ![c] = h]
  /\ \/ /\ x = None /\ Goto(c, "err") /\ UNCHANGED <<client, got>>
     \/ /\ x # None /\ Goto(c, "wait")
        /\ client' = [client EXCEPT ![c] = x] /\ UNCHANGED got
  /\ UNCHANGED <<at, inner>>

\* (mutant) whoever finds the cell empty connects
get_or_try_init_unguarded(c) ==
  LET i == at[holder[c]] IN
  /\ pc[c] = "wait"
  /\ \/ /\ inner[i].cell # None
        /\ Goto(c, "ok") /\ got' = [got EXCEPT ![c] = inner[i].cell]
     \/ inner[i].cell = None /\ Goto(c, "connect") /\ UNCHANGED got
  /\ UNCHANGED <<at, inner, holder, client>>

\* (mutant) those who wait are only woken by a connection
get_or_try_init_first_only(c) ==
  LET i == at[holder[c]] IN
  /\ pc[c] = "wait"
  /\ \/ /\ inner[i].cell # None
        /\ Goto(c, "ok") /\ got' = [got EXCEPT ![c] = inner[i].cell]
     \/ /\ inner[i].cell = None
        /\ ~\E d \in Call \ {c} : pc[d] # "idle" /\ at[holder[d]] = i
        /\ Goto(c, "connect") /\ UNCHANGED got
  /\ UNCHANGED <<at, inner, holder, client>>

\* get_or_try_init: what the cell holds, or the permit if it is free.
get_or_try_init(c) ==
  LET i == at[holder[c]] IN
  /\ pc[c] = "wait"
  /\ \/ /\ inner[i].cell # None
        /\ Goto(c, "ok") /\ got' = [got EXCEPT ![c] = inner[i].cell]
     \/ /\ inner[i].cell = None /\ ~Initialising(i)
        /\ Goto(c, "connect") /\ UNCHANGED got
  /\ UNCHANGED <<at, inner, holder, client>>

\* ConnectionManager::new comes back with a connection, which fills the cell, or
\* with an error, which leaves it empty for the next who waits.
ConnectionManager(c) ==
  LET i == at[holder[c]] IN
  /\ pc[c] = "connect"
  /\ \/ /\ inner' = [inner EXCEPT ![i] = [conf |-> inner[i].conf, cell |-> client[c]]]
        /\ got'   = [got EXCEPT ![c] = client[c]]
        /\ Goto(c, "ok")
     \/ Goto(c, "err") /\ UNCHANGED <<inner, got>>
  /\ UNCHANGED <<at, holder, client>>

\* The future returns, or is dropped at its await.
Return(c) ==
  /\ pc[c] # "idle"
  /\ Goto(c, "idle")
  /\ holder' = [holder EXCEPT ![c] = NoHandle]
  /\ client' = [client EXCEPT ![c] = None]
  /\ got'    = [got    EXCEPT ![c] = None]
  /\ UNCHANGED <<at, inner>>

-----------------------------------------------------------------------------

Next ==
  \/ \E h \in Handle : \/ new_with(h) \/ Drop(h) \/ Build(h)
                       \/ \E g \in Handle : Clone(g, h)
                       \/ \E c \in Call : redis_connection(c, h)
  \/ \E c \in Call : get_or_try_init(c) \/ ConnectionManager(c) \/ Return(c)

Spec == Init /\ [][Next]_vars

\* Connections are made or fail, and the permit's queue is first come first
\* served: who waits for it gets it if it is free again and again.
FairSpec ==
  Spec /\ \A c \in Call : WF_vars(ConnectionManager(c)) /\ SF_vars(get_or_try_init(c))

-----------------------------------------------------------------------------
(* Properties *)

\* Every handle has all of its settings, a secret to sign with and a database,
\* whatever it was made from and whatever builders were given.
HandlesAreComplete ==
  \A h \in Handle : at[h] # Dropped =>
    /\ \A f \in TextField : Conf(h).text[f] # Empty
    /\ Conf(h).object["db"] # None

\* An open connection goes to the client of the handles that share it, although
\* the client can be replaced and the cell is copied with everything else.
ConnectsToOwnClient ==
  \A h \in Handle : at[h] # Dropped /\ Cell(h) # None => Cell(h) = Conf(h).redis

\* At most one connection is being made for the handles that share a cell, and
\* none for a full one.
OneConnectionAtATime ==
  \A c, d \in Call : pc[c] = "connect" =>
    /\ Cell(holder[c]) = None
    /\ pc[d] = "connect" /\ at[holder[d]] = at[holder[c]] => c = d

\* A call that waits for the attempt of another is answered or tries itself,
\* whether that attempt succeeds, fails or is dropped.
EveryCallEnds == \A c \in Call : pc[c] \in {"wait", "connect"} ~> pc[c] \in {"ok", "err", "idle"}
=============================================================================
