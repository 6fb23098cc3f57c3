---------------------------- MODULE HandlesProofs ----------------------------
(***************************************************************************)
(* Handles for any number of handles, settings, clients and calls.  The    *)
(* argument is that make_mut leaves the other handles their Inner, and     *)
(* that a call's handle cannot be built: so what a call read is what its   *)
(* handle is still set to when it is answered.                             *)
(***************************************************************************)
EXTENDS HandlesRefine, TLAPS

\* A handle's Inner has not been freed.
LiveInner == \A h \in Handle : at[h] # Dropped => inner[at[h]] # Freed

\* A call runs on a live handle, and has read the client that is set there.
CallsBorrow ==
  \A c \in Call :
    /\ pc[c] = "idle" <=> holder[c] = NoHandle
    /\ pc[c] # "idle" => at[holder[c]] # Dropped
    /\ pc[c] \in {"wait", "connect"} => client[c] # None /\ client[c] = Conf(holder[c]).redis

IInv ==
  /\ TypeOK
  /\ LiveInner
  /\ CallsBorrow
  /\ HandlesAreComplete
  /\ ConnectsToOwnClient
  /\ OneConnectionAtATime

\* What may stand in an Inner: a configuration that is complete, and no
\* connection but one to its client.
Sound(new) ==
  /\ \A f \in TextField : new.conf.text[f] # Empty
  /\ new.conf.object["db"] # None
  /\ new.cell # None => new.cell = new.conf.redis

-----------------------------------------------------------------------------

LEMMA InnerOfHandle ==
  ASSUME IInv, NEW h \in Handle, at[h] # Dropped
  PROVE  /\ at[h] \in InnerId /\ inner[at[h]] \in Inner
         /\ Conf(h) \in Config /\ Cell(h) \in Client \cup {None}
         /\ Sound(inner[at[h]])
  <1>1. at[h] \in InnerId /\ inner[at[h]] \in Inner
    BY DEF IInv, TypeOK, LiveInner
  <1>2. Conf(h) \in Config /\ Cell(h) \in Client \cup {None}
    BY <1>1 DEF Conf, Cell, Inner
  <1> QED BY <1>1, <1>2 DEF IInv, HandlesAreComplete, ConnectsToOwnClient, Sound, Conf, Cell

\* Arc::make_mut: the handle has its Inner alone, and the others have theirs.
LEMMA MakeMut ==
  ASSUME IInv, NEW h \in Handle, at[h] # Dropped, NEW new \in Inner, make_mut(h, new)
  PROVE  /\ at' \in [Handle -> InnerId \cup {Dropped}]
         /\ inner' \in [InnerId -> Inner \cup {Freed}]
         /\ at'[h] \in InnerId /\ inner'[at'[h]] = new
         /\ \A g \in Handle \ {h} :
              /\ at'[g] = at[g] /\ at'[g] # at'[h]
              /\ at[g] # Dropped => inner'[at[g]] = inner[at[g]]
  <1>1. at[h] \in InnerId
    BY DEF IInv, TypeOK
  <1>2. CASE ~Shared(h) /\ inner' = [inner EXCEPT ![at[h]] = new] /\ UNCHANGED at
    BY <1>1, <1>2 DEF IInv, TypeOK, Shared
  <1>3. CASE Shared(h) /\ \E i \in InnerId :
               /\ inner[i] = Freed
               /\ inner' = [inner EXCEPT ![i] = new]
               /\ at'    = [at EXCEPT ![h] = i]
    <2>1. PICK i \in InnerId : /\ inner[i] = Freed
                               /\ inner' = [inner EXCEPT ![i] = new]
                               /\ at'    = [at EXCEPT ![h] = i]
      BY <1>3
    <2>2. \A g \in Handle : at[g] # i
      BY <2>1, HandlesAssumption DEF IInv, LiveInner
    <2> QED BY <2>1, <2>2 DEF IInv, TypeOK
  <1> QED BY <1>2, <1>3 DEF make_mut

\* A builder that leaves its handle a sound Inner keeps the invariant.
LEMMA BuilderKeeps ==
  ASSUME IInv, NEW h \in Handle, Owned(h), UNCHANGED calls,
         NEW new \in Inner, Sound(new), make_mut(h, new)
  PROVE  IInv'
  <1>1. at[h] # Dropped /\ \A c \in Call : holder[c] # h
    BY DEF Owned
  <1>2. /\ at' \in [Handle -> InnerId \cup {Dropped}]
        /\ inner' \in [InnerId -> Inner \cup {Freed}]
        /\ at'[h] \in InnerId /\ inner'[at'[h]] = new
        /\ \A g \in Handle \ {h} :
             /\ at'[g] = at[g] /\ at'[g] # at'[h]
             /\ at[g] # Dropped => inner'[at[g]] = inner[at[g]]
    BY <1>1, MakeMut
  <1>3. UNCHANGED <<pc, holder, client, got>>
    BY DEF calls
  <1>4. \A c \in Call : pc[c] # "idle" =>
          /\ holder[c] \in Handle \ {h} /\ at[holder[c]] # Dropped
          /\ at'[holder[c]] = at[holder[c]]
          /\ inner'[at[holder[c]]] = inner[at[holder[c]]]
    BY <1>1, <1>2 DEF IInv, TypeOK, CallsBorrow
  <1>5. TypeOK'
    BY <1>2, <1>3 DEF IInv, TypeOK
  <1>6. LiveInner'
    BY <1>2, FreedAssumption DEF IInv, LiveInner
  <1>7. CallsBorrow'
    BY <1>3, <1>4 DEF IInv, CallsBorrow, Conf
  <1>8. HandlesAreComplete'
    BY <1>2 DEF IInv, HandlesAreComplete, Conf, Sound
  <1>9. ConnectsToOwnClient'
    BY <1>2 DEF IInv, ConnectsToOwnClient, Conf, Cell, Sound
  <1>10. OneConnectionAtATime'
    BY <1>3, <1>4 DEF IInv, OneConnectionAtATime, Cell
  <1> QED BY <1>5, <1>6, <1>7, <1>8, <1>9, <1>10 DEF IInv

-----------------------------------------------------------------------------
(* The Inner that each builder asks for *)

\* What with_text, with_object and with_redis pass to make_mut.
TextInner(h, f, x) ==
  [conf |-> [text |-> [Conf(h).text EXCEPT ![f] = x], object |-> Conf(h).object,
             redis |-> Conf(h).redis],
   cell |-> Cell(h)]

ObjectInner(h, f, x) ==
  [conf |-> [text |-> Conf(h).text, object |-> [Conf(h).object EXCEPT ![f] = x],
             redis |-> Conf(h).redis],
   cell |-> Cell(h)]

RedisInner(h, x) ==
  [conf |-> [text |-> Conf(h).text, object |-> Conf(h).object, redis |-> x], cell |-> None]

LEMMA BuildersAreSound ==
  ASSUME IInv, NEW h \in Handle, at[h] # Dropped
  PROVE  /\ \A f \in TextField, x \in Text : TextInner(h, f, x) \in Inner /\ Sound(TextInner(h, f, x))
         /\ \A f \in ObjectField, x \in Object :
              ObjectInner(h, f, x) \in Inner /\ Sound(ObjectInner(h, f, x))
         /\ \A x \in Client : RedisInner(h, x) \in Inner /\ Sound(RedisInner(h, x))
  <1>1. /\ Conf(h) \in Config /\ Cell(h) \in Client \cup {None}
        /\ Sound(inner[at[h]])
    BY InnerOfHandle
  <1>2. /\ Conf(h).text \in [TextField -> Text \cup {Empty}]
        /\ Conf(h).object \in [ObjectField -> Object \cup {None}]
        /\ Conf(h).redis \in Client \cup {None}
        /\ \A f \in TextField : Conf(h).text[f] # Empty
        /\ Conf(h).object["db"] # None
        /\ Cell(h) # None => Cell(h) = Conf(h).redis
    BY <1>1 DEF Config, Sound, Conf, Cell
  <1> DEFINE t == Conf(h).text
             o == Conf(h).object
             r == Conf(h).redis
             l == Cell(h)
  <1> HIDE DEF t, o, r, l
  <1>3. /\ t \in [TextField -> Text \cup {Empty}] /\ \A f \in TextField : t[f] # Empty
        /\ o \in [ObjectField -> Object \cup {None}] /\ o["db"] # None
        /\ r \in Client \cup {None} /\ l \in Client \cup {None} /\ (l # None => l = r)
    BY <1>1, <1>2 DEF t, o, r, l
  <1>4. ASSUME NEW f \in TextField, NEW x \in Text
        PROVE  TextInner(h, f, x) \in Inner /\ Sound(TextInner(h, f, x))
    <2>1. /\ [t EXCEPT ![f] = x] \in [TextField -> Text \cup {Empty}]
          /\ \A g \in TextField : [t EXCEPT ![f] = x][g] # Empty
      BY <1>3, HandlesAssumption
    <2>2. TextInner(h, f, x) = [conf |-> [text |-> [t EXCEPT ![f] = x], object |-> o, redis |-> r],
                                cell |-> l]
      BY DEF TextInner, t, o, r, l
    <2> QED BY <1>3, <2>1, <2>2 DEF Inner, Config, Sound
  <1>5. ASSUME NEW f \in ObjectField, NEW x \in Object
        PROVE  ObjectInner(h, f, x) \in Inner /\ Sound(ObjectInner(h, f, x))
    <2> DEFINE p == [o EXCEPT ![f] = x]
    <2>1. p \in [ObjectField -> Object \cup {None}] /\ p["db"] # None
      BY <1>3, HandlesAssumption
    <2>2. ObjectInner(h, f, x) = [conf |-> [text |-> t, object |-> p, redis |-> r], cell |-> l]
      BY DEF ObjectInner, t, o, r, l
    <2> HIDE DEF p
    <2> QED BY <1>3, <2>1, <2>2 DEF Inner, Config, Sound
  <1>6. ASSUME NEW x \in Client PROVE RedisInner(h, x) \in Inner /\ Sound(RedisInner(h, x))
    <2>1. RedisInner(h, x) = [conf |-> [text |-> t, object |-> o, redis |-> x], cell |-> None]
      BY DEF RedisInner, t, o, r, l
    <2> QED BY <1>3, <2>1 DEF Inner, Config, Sound
  <1> QED BY <1>4, <1>5, <1>6

\* A builder's step is one of four.
LEMMA BuildSteps ==
  ASSUME NEW h \in Handle, Build(h)
  PROVE  /\ Owned(h) /\ at[h] # Dropped /\ UNCHANGED calls
         /\ \/ UNCHANGED <<at, inner>>
            \/ \E f \in TextField, x \in Text : make_mut(h, TextInner(h, f, x))
            \/ \E f \in ObjectField, x \in Object : make_mut(h, ObjectInner(h, f, x))
            \/ \E x \in Client : make_mut(h, RedisInner(h, x))
  <1>1. Owned(h) /\ at[h] # Dropped /\ UNCHANGED calls
    BY DEF Build, Owned
  <1>2. ASSUME NEW f \in TextField, NEW x \in Text \cup {Empty}, with_text(h, f, x)
        PROVE  UNCHANGED <<at, inner>> \/ (x \in Text /\ make_mut(h, TextInner(h, f, x)))
    BY <1>2 DEF with_text, TextInner
  <1>3. ASSUME NEW f \in ObjectField, NEW x \in Object, with_object(h, f, x)
        PROVE  make_mut(h, ObjectInner(h, f, x))
    BY <1>3 DEF with_object, ObjectInner
  <1>4. ASSUME NEW x \in Client, with_redis(h, x)
        PROVE  make_mut(h, RedisInner(h, x))
    BY <1>4 DEF with_redis, RedisInner
  <1> QED BY <1>1, <1>2, <1>3, <1>4 DEF Build

-----------------------------------------------------------------------------

LEMMA InitIInv == Init => IInv
  BY HandlesAssumption
  DEF Init, IInv, TypeOK, LiveInner, CallsBorrow, HandlesAreComplete, ConnectsToOwnClient,
      OneConnectionAtATime, Label

LEMMA DefaultsAreComplete ==
  ASSUME NEW v \in Config, Valid(apply_defaults(v))
  PROVE  LET new == [conf |-> apply_defaults(v), cell |-> None] IN new \in Inner /\ Sound(new)
  <1> DEFINE t == apply_defaults(v).text
  <1>1. t \in [TextField -> Text \cup {Empty}] /\ \A f \in TextField : t[f] # Empty
    BY HandlesAssumption DEF apply_defaults, Config, Valid
  <1>2. /\ apply_defaults(v).object = v.object /\ apply_defaults(v).redis = v.redis
        /\ v.object \in [ObjectField -> Object \cup {None}] /\ v.redis \in Client \cup {None}
        /\ v.object["db"] # None
    BY DEF apply_defaults, Config, Valid
  <1>3. apply_defaults(v) \in Config
    BY <1>1, <1>2 DEF apply_defaults, Config
  <1> QED BY <1>1, <1>2, <1>3 DEF Inner, Sound

\* A call that goes on changes nothing of the handles.
LEMMA CallMoves ==
  ASSUME IInv, UNCHANGED <<at, inner>>, NEW c \in Call,
         holder' = holder, client' = client,
         NEW l \in Label, l # "idle", pc[c] # "idle", Goto(c, l), got' \in [Call -> Client \cup {None}],
         l \in {"wait", "connect"} => pc[c] \in {"wait", "connect"},
         l = "connect" => Cell(holder[c]) = None /\ ~Initialising(at[holder[c]])
  PROVE  IInv'
  <1>1. pc' \in [Call -> Label] /\ pc'[c] = l /\ \A d \in Call \ {c} : pc'[d] = pc[d]
    BY DEF IInv, TypeOK, Goto
  <1>2. TypeOK'
    BY <1>1 DEF IInv, TypeOK
  <1>3. LiveInner' /\ HandlesAreComplete' /\ ConnectsToOwnClient'
    BY DEF IInv, LiveInner, HandlesAreComplete, ConnectsToOwnClient, Conf, Cell
  <1>4. CallsBorrow'
    BY <1>1 DEF IInv, CallsBorrow, Conf
  <1>5. OneConnectionAtATime'
    BY <1>1 DEF IInv, OneConnectionAtATime, Cell, Initialising
  <1> QED BY <1>2, <1>3, <1>4, <1>5 DEF IInv

LEMMA NextIInv == IInv /\ [Next]_vars => IInv'
  <1> SUFFICES ASSUME IInv, [Next]_vars PROVE IInv'
    OBVIOUS
  <1>1. ASSUME NEW h \in Handle, new_with(h) PROVE IInv'
    <2>1. PICK v \in Config, i \in InnerId :
            /\ Valid(apply_defaults(v)) /\ inner[i] = Freed
            /\ inner' = [inner EXCEPT ![i] = [conf |-> apply_defaults(v), cell |-> None]]
            /\ at' = [at EXCEPT ![h] = i]
      BY <1>1 DEF new_with, from_config_unchecked
    <2> DEFINE new == [conf |-> apply_defaults(v), cell |-> None]
    <2>2. new \in Inner /\ Sound(new)
      BY <2>1, DefaultsAreComplete
    <2>3. inner' = [inner EXCEPT ![i] = new]
      BY <2>1
    <2> HIDE DEF new
    <2>4. /\ at[h] = Dropped /\ UNCHANGED <<pc, holder, client, got>>
      BY <1>1 DEF new_with, calls
    <2>5. \A g \in Handle : at[g] # i
      BY <2>1, HandlesAssumption DEF IInv, LiveInner
    <2>6. /\ at' \in [Handle -> InnerId \cup {Dropped}]
          /\ inner' \in [InnerId -> Inner \cup {Freed}]
          /\ at'[h] = i /\ inner'[i] = new
          /\ \A g \in Handle \ {h} : at'[g] = at[g] /\ (at[g] # Dropped => inner'[at[g]] = inner[at[g]])
      BY <2>1, <2>2, <2>3, <2>5 DEF IInv, TypeOK
    <2>7. \A c \in Call : pc[c] # "idle" =>
            /\ holder[c] \in Handle \ {h} /\ at[holder[c]] # Dropped
            /\ at'[holder[c]] = at[holder[c]] /\ inner'[at[holder[c]]] = inner[at[holder[c]]]
      BY <2>4, <2>6 DEF IInv, TypeOK, CallsBorrow
    <2>8. TypeOK'
      BY <2>4, <2>6 DEF IInv, TypeOK
    <2>9. LiveInner'
      BY <2>2, <2>6, FreedAssumption DEF IInv, LiveInner
    <2>10. CallsBorrow'
      BY <2>4, <2>7 DEF IInv, CallsBorrow, Conf
    <2>11. HandlesAreComplete' /\ ConnectsToOwnClient'
      BY <2>2, <2>6 DEF IInv, HandlesAreComplete, ConnectsToOwnClient, Conf, Cell, Sound
    <2>12. OneConnectionAtATime'
      BY <2>4, <2>7 DEF IInv, OneConnectionAtATime, Cell
    <2> QED BY <2>8, <2>9, <2>10, <2>11, <2>12 DEF IInv
  <1>2. ASSUME NEW h \in Handle, Drop(h) PROVE IInv'
    <2>1. /\ at[h] # Dropped /\ at[h] \in InnerId /\ \A c \in Call : holder[c] # h
          /\ UNCHANGED <<pc, holder, client, got>>
          /\ at' = [at EXCEPT ![h] = Dropped]
          /\ inner' = IF Shared(h) THEN inner ELSE [inner EXCEPT ![at[h]] = Freed]
      BY <1>2 DEF Drop, Owned, calls, IInv, TypeOK
    <2>2. /\ at' \in [Handle -> InnerId \cup {Dropped}]
          /\ inner' \in [InnerId -> Inner \cup {Freed}]
          /\ at'[h] = Dropped
          /\ \A g \in Handle \ {h} : at'[g] = at[g] /\ (at[g] # Dropped => inner'[at[g]] = inner[at[g]])
      BY <2>1 DEF IInv, TypeOK, Shared
    <2>3. \A c \in Call : pc[c] # "idle" =>
            /\ holder[c] \in Handle \ {h} /\ at[holder[c]] # Dropped
            /\ at'[holder[c]] = at[holder[c]] /\ inner'[at[holder[c]]] = inner[at[holder[c]]]
      BY <2>1, <2>2 DEF IInv, TypeOK, CallsBorrow
    <2>4. TypeOK'
      BY <2>1, <2>2 DEF IInv, TypeOK
    <2>5. LiveInner'
      BY <2>2 DEF IInv, LiveInner
    <2>6. CallsBorrow'
      BY <2>1, <2>3 DEF IInv, CallsBorrow, Conf
    <2>7. HandlesAreComplete' /\ ConnectsToOwnClient'
      BY <2>2 DEF IInv, HandlesAreComplete, ConnectsToOwnClient, Conf, Cell
    <2>8. OneConnectionAtATime'
      BY <2>1, <2>3 DEF IInv, OneConnectionAtATime, Cell
    <2> QED BY <2>4, <2>5, <2>6, <2>7, <2>8 DEF IInv
  <1>3. ASSUME NEW h \in Handle, Build(h) PROVE IInv'
    <2>1. CASE UNCHANGED <<at, inner>>
      <3>1. UNCHANGED vars
        BY <1>3, <2>1, BuildSteps DEF calls, vars
      <3> QED BY <3>1 DEF vars, IInv, TypeOK, LiveInner, CallsBorrow, HandlesAreComplete,
             ConnectsToOwnClient, OneConnectionAtATime, Conf, Cell
    <2>2. ASSUME NEW f \in TextField, NEW x \in Text, make_mut(h, TextInner(h, f, x)) PROVE IInv'
      BY <1>3, <2>2, BuildSteps, BuildersAreSound, BuilderKeeps
    <2>3. ASSUME NEW f \in ObjectField, NEW x \in Object, make_mut(h, ObjectInner(h, f, x)) PROVE IInv'
      BY <1>3, <2>3, BuildSteps, BuildersAreSound, BuilderKeeps
    <2>4. ASSUME NEW x \in Client, make_mut(h, RedisInner(h, x)) PROVE IInv'
      BY <1>3, <2>4, BuildSteps, BuildersAreSound, BuilderKeeps
    <2> QED BY <1>3, <2>1, <2>2, <2>3, <2>4, BuildSteps
  <1>4. ASSUME NEW g \in Handle, NEW h \in Handle, Clone(g, h) PROVE IInv'
    <2>1. /\ at[g] # Dropped /\ at[h] = Dropped /\ at' = [at EXCEPT ![h] = at[g]]
          /\ UNCHANGED <<inner, pc, holder, client, got>>
      BY <1>4 DEF Clone, calls
    <2>2. /\ at' \in [Handle -> InnerId \cup {Dropped}] /\ at'[h] = at[g]
          /\ \A k \in Handle \ {h} : at'[k] = at[k]
      BY <2>1 DEF IInv, TypeOK
    <2>3. \A c \in Call : pc[c] # "idle" => holder[c] \in Handle \ {h}
      BY <2>1 DEF IInv, TypeOK, CallsBorrow
    <2>4. TypeOK' /\ LiveInner'
      BY <2>1, <2>2 DEF IInv, TypeOK, LiveInner
    <2>5. CallsBorrow'
      BY <2>1, <2>2, <2>3 DEF IInv, CallsBorrow, Conf
    <2>6. HandlesAreComplete' /\ ConnectsToOwnClient'
      BY <2>1, <2>2 DEF IInv, HandlesAreComplete, ConnectsToOwnClient, Conf, Cell
    <2>7. OneConnectionAtATime'
      BY <2>1, <2>2, <2>3 DEF IInv, OneConnectionAtATime, Cell
    <2> QED BY <2>4, <2>5, <2>6, <2>7 DEF IInv
  <1>5. ASSUME NEW c \in Call, NEW h \in Handle, redis_connection(c, h) PROVE IInv'
    <2>1. /\ pc[c] = "idle" /\ at[h] # Dropped
          /\ holder' = [holder EXCEPT ![c] = h] /\ UNCHANGED <<at, inner, got>>
          /\ \/ /\ Conf(h).redis = None /\ pc' = [pc EXCEPT ![c] = "err"]
                /\ client' = client
             \/ /\ Conf(h).redis # None /\ pc' = [pc EXCEPT ![c] = "wait"]
                /\ client' = [client EXCEPT ![c] = Conf(h).redis]
      BY <1>5 DEF redis_connection, Goto
    <2>2. Conf(h).redis \in Client \cup {None}
      BY <2>1, InnerOfHandle DEF Config
    <2>3. /\ pc' \in [Call -> Label] /\ pc'[c] \in {"err", "wait"}
          /\ holder' \in [Call -> Handle \cup {NoHandle}] /\ holder'[c] = h
          /\ client' \in [Call -> Client \cup {None}]
          /\ pc'[c] = "wait" => client'[c] # None /\ client'[c] = Conf(h).redis
          /\ \A d \in Call \ {c} : pc'[d] = pc[d] /\ holder'[d] = holder[d] /\ client'[d] = client[d]
      BY <2>1, <2>2 DEF IInv, TypeOK, Label
    <2>4. TypeOK'
      BY <2>1, <2>3 DEF IInv, TypeOK
    <2>5. LiveInner' /\ HandlesAreComplete' /\ ConnectsToOwnClient'
      BY <2>1 DEF IInv, LiveInner, HandlesAreComplete, ConnectsToOwnClient, Conf, Cell
    <2>6. CallsBorrow'
      BY <2>1, <2>3, HandlesAssumption DEF IInv, CallsBorrow, Conf
    <2>7. OneConnectionAtATime'
      BY <2>1, <2>3 DEF IInv, OneConnectionAtATime, Cell
    <2> QED BY <2>4, <2>5, <2>6, <2>7 DEF IInv
  <1>6. ASSUME NEW c \in Call, get_or_try_init(c) PROVE IInv'
    <2>1. /\ pc[c] = "wait" /\ UNCHANGED <<at, inner, holder, client>>
          /\ holder[c] \in Handle /\ at[holder[c]] # Dropped
      BY <1>6 DEF get_or_try_init, IInv, TypeOK, CallsBorrow
    <2>2. Cell(holder[c]) \in Client \cup {None}
      BY <2>1, InnerOfHandle
    <2>3. CASE Cell(holder[c]) # None /\ Goto(c, "ok") /\ got' = [got EXCEPT ![c] = Cell(holder[c])]
      <3>1. got' \in [Call -> Client \cup {None}]
        BY <2>2, <2>3 DEF IInv, TypeOK
      <3> QED BY <2>1, <2>3, <3>1, CallMoves DEF Label
    <2>4. CASE Cell(holder[c]) = None /\ ~Initialising(at[holder[c]]) /\ Goto(c, "connect") /\ UNCHANGED got
      <3>1. got' \in [Call -> Client \cup {None}]
        BY <2>4 DEF IInv, TypeOK
      <3> QED BY <2>1, <2>4, <3>1, CallMoves DEF Label
    <2> QED BY <1>6, <2>3, <2>4 DEF get_or_try_init, Cell
  <1>7. ASSUME NEW c \in Call, ConnectionManager(c) PROVE IInv'
    <2>1. /\ pc[c] = "connect" /\ UNCHANGED <<at, holder, client>>
          /\ holder[c] \in Handle /\ at[holder[c]] # Dropped
          /\ client[c] \in Client /\ client[c] = Conf(holder[c]).redis
      BY <1>7 DEF ConnectionManager, IInv, TypeOK, CallsBorrow
    <2>2. CASE Goto(c, "err") /\ UNCHANGED <<inner, got>>
      <3>1. got' \in [Call -> Client \cup {None}]
        BY <2>2 DEF IInv, TypeOK
      <3> QED BY <2>1, <2>2, <3>1, CallMoves DEF Label
    <2>3. CASE /\ inner' = [inner EXCEPT ![at[holder[c]]] =
                              [conf |-> inner[at[holder[c]]].conf, cell |-> client[c]]]
               /\ got' = [got EXCEPT ![c] = client[c]]
               /\ Goto(c, "ok")
      <3> DEFINE i == at[holder[c]]
                 new == [conf |-> inner[i].conf, cell |-> client[c]]
      <3>1. i \in InnerId /\ inner[i] \in Inner /\ Sound(inner[i])
        BY <2>1, InnerOfHandle
      <3>2. new \in Inner /\ new.conf = inner[i].conf /\ new.cell = client[c]
        BY <2>1, <3>1 DEF Inner
      <3>3. inner' = [inner EXCEPT ![i] = new]
        BY <2>3
      <3>4. client[c] = inner[i].conf.redis /\ client[c] # None
        BY <2>1, HandlesAssumption DEF Conf
      <3> HIDE DEF i, new
      <3>5. /\ inner' \in [InnerId -> Inner \cup {Freed}] /\ inner'[i] = new
            /\ \A j \in InnerId \ {i} : inner'[j] = inner[j]
        BY <3>1, <3>2, <3>3 DEF IInv, TypeOK
      <3>6. /\ pc' \in [Call -> Label] /\ pc'[c] = "ok"
            /\ \A d \in Call \ {c} : pc'[d] = pc[d]
            /\ got' \in [Call -> Client \cup {None}]
        BY <2>1, <2>3 DEF IInv, TypeOK, Goto, Label
      <3>7. TypeOK'
        BY <2>1, <3>5, <3>6 DEF IInv, TypeOK
      <3>8. LiveInner'
        BY <2>1, <3>2, <3>5, FreedAssumption DEF IInv, TypeOK, LiveInner
      <3>9. \A h \in Handle : at[h] # Dropped => inner'[at[h]].conf = inner[at[h]].conf
        BY <3>2, <3>5 DEF IInv, TypeOK
      <3>10. CallsBorrow'
        BY <2>1, <3>6, <3>9 DEF IInv, TypeOK, CallsBorrow, Conf
      <3>11. HandlesAreComplete'
        BY <2>1, <3>9 DEF IInv, HandlesAreComplete, Conf
      <3>12. ConnectsToOwnClient'
        BY <2>1, <3>2, <3>4, <3>5, <3>9 DEF IInv, TypeOK, ConnectsToOwnClient, Conf, Cell
      <3>13. \A d \in Call : pc'[d] = "connect" => d # c /\ pc[d] = "connect" /\ at[holder[d]] # i
        BY <2>1, <3>6 DEF IInv, OneConnectionAtATime, i
      <3>14. \A d \in Call : pc'[d] = "connect" => inner'[at[holder[d]]] = inner[at[holder[d]]]
        BY <3>5, <3>13 DEF IInv, TypeOK, CallsBorrow
      <3>15. OneConnectionAtATime'
        BY <2>1, <3>13, <3>14 DEF IInv, OneConnectionAtATime, Cell
      <3> QED BY <3>7, <3>8, <3>10, <3>11, <3>12, <3>15 DEF IInv
    <2> QED BY <1>7, <2>2, <2>3 DEF ConnectionManager
  <1>8. ASSUME NEW c \in Call, Return(c) PROVE IInv'
    <2>1. /\ UNCHANGED <<at, inner>>
          /\ pc' \in [Call -> Label] /\ pc'[c] = "idle"
          /\ holder' \in [Call -> Handle \cup {NoHandle}] /\ holder'[c] = NoHandle
          /\ client' \in [Call -> Client \cup {None}] /\ got' \in [Call -> Client \cup {None}]
          /\ \A d \in Call \ {c} : pc'[d] = pc[d] /\ holder'[d] = holder[d] /\ client'[d] = client[d]
      BY <1>8 DEF Return, Goto, IInv, TypeOK, Label
    <2>2. TypeOK'
      BY <2>1 DEF IInv, TypeOK
    <2>3. LiveInner' /\ HandlesAreComplete' /\ ConnectsToOwnClient'
      BY <2>1 DEF IInv, LiveInner, HandlesAreComplete, ConnectsToOwnClient, Conf, Cell
    <2>4. CallsBorrow'
      BY <2>1 DEF IInv, CallsBorrow, Conf
    <2>5. OneConnectionAtATime'
      BY <2>1 DEF IInv, OneConnectionAtATime, Cell
    <2> QED BY <2>2, <2>3, <2>4, <2>5 DEF IInv
  <1>9. CASE UNCHANGED vars
    BY <1>9 DEF vars, IInv, TypeOK, LiveInner, CallsBorrow, HandlesAreComplete,
       ConnectsToOwnClient, OneConnectionAtATime, Conf, Cell
  <1> QED BY <1>1, <1>2, <1>3, <1>4, <1>5, <1>6, <1>7, <1>8, <1>9 DEF Next

LEMMA SpecIInv == Spec => []IInv
  <1>1. Init => IInv
    BY InitIInv
  <1>2. IInv /\ [Next]_vars => IInv'
    BY NextIInv
  <1> QED BY <1>1, <1>2, PTL DEF Spec

-----------------------------------------------------------------------------

\* The Arcs, the allocations and the calls keep their types: a failed attempt
\* leaves nothing in a cell.
THEOREM HandlesTyped == Spec => []TypeOK
  <1>1. IInv => TypeOK
    BY DEF IInv
  <1> QED BY <1>1, SpecIInv, PTL

\* No configuration, default or builder leaves a handle without a secret or a
\* database.
THEOREM HandlesStayComplete == Spec => []HandlesAreComplete
  <1>1. IInv => HandlesAreComplete
    BY DEF IInv
  <1> QED BY <1>1, SpecIInv, PTL

\* with_redis and the copies of a cell never leave a handle connected to another
\* client than its own.
THEOREM ConnectionsAreOwn == Spec => []ConnectsToOwnClient
  <1>1. IInv => ConnectsToOwnClient
    BY DEF IInv
  <1> QED BY <1>1, SpecIInv, PTL

\* get_or_try_init makes one connection at a time for the handles of a cell.
THEOREM ConnectionsAreSingle == Spec => []OneConnectionAtATime
  <1>1. IInv => OneConnectionAtATime
    BY DEF IInv
  <1> QED BY <1>1, SpecIInv, PTL

-----------------------------------------------------------------------------
(* The refinement *)

LEMMA InitImplements == Init => Values!Init
  BY HandlesAssumption DEF Init, Values!Init, valueBar, phaseBar, PhaseAt

LEMMA CompleteIsSettings ==
  ASSUME NEW new \in Inner, Sound(new)
  PROVE  new.conf \in Values!Settings
  BY DEF Inner, Config, Sound, Values!Settings

\* What the handles are worth after one of them got a new Inner.
LEMMA ValueOfOne ==
  ASSUME IInv, NEW h \in Handle, NEW v,
         at'[h] # Dropped => inner'[at'[h]].conf = v,
         at'[h] = Dropped => v = Dropped,
         \A g \in Handle \ {h} :
           at'[g] = at[g] /\ (at[g] # Dropped => inner'[at[g]] = inner[at[g]])
  PROVE  valueBar' = [valueBar EXCEPT ![h] = v]
  BY DEF valueBar, Conf

\* A live handle is worth its configuration, and no configuration is Dropped.
LEMMA ValueOfLive ==
  ASSUME IInv, NEW h \in Handle, at[h] # Dropped
  PROVE  valueBar[h] = Conf(h) /\ valueBar[h] # Dropped
  <1>1. Conf(h) \in Config
    BY InnerOfHandle
  <1> QED BY <1>1, FreedAssumption DEF valueBar

LEMMA BuildImplements ==
  ASSUME IInv, NEW h \in Handle, Build(h)
  PROVE  Values!Next \/ UNCHANGED Values!vars
  <1>1. Owned(h) /\ at[h] # Dropped /\ UNCHANGED calls
    BY BuildSteps
  <1>2. valueBar[h] = Conf(h) /\ valueBar[h] # Dropped /\ ~Values!Borrowed(h)
    BY <1>1, ValueOfLive DEF Owned, Values!Borrowed
  <1>3. UNCHANGED <<phaseBar, holder, got>>
    BY <1>1 DEF calls, phaseBar
  <1>4. CASE UNCHANGED <<at, inner>>
    <2>1. UNCHANGED valueBar
      BY <1>4 DEF valueBar, Conf
    <2> QED BY <2>1, <1>3 DEF Values!vars
  <1>5. ASSUME NEW new \in Inner, make_mut(h, new)
        PROVE  valueBar' = [valueBar EXCEPT ![h] = new.conf]
    <2>1. /\ at'[h] # Dropped /\ inner'[at'[h]].conf = new.conf
          /\ \A g \in Handle \ {h} :
               at'[g] = at[g] /\ (at[g] # Dropped => inner'[at[g]] = inner[at[g]])
      BY <1>1, <1>5, MakeMut, HandlesAssumption
    <2> QED BY <2>1, ValueOfOne
  <1>6. ASSUME NEW f \in TextField, NEW x \in Text, make_mut(h, TextInner(h, f, x))
        PROVE  Values!SetText(h)
    <2>1. valueBar' = [valueBar EXCEPT ![h] = TextInner(h, f, x).conf]
      BY <1>1, <1>5, <1>6, BuildersAreSound
    <2> QED BY <1>2, <1>3, <2>1 DEF Values!SetText, TextInner
  <1>7. ASSUME NEW f \in ObjectField, NEW x \in Object, make_mut(h, ObjectInner(h, f, x))
        PROVE  Values!SetObject(h)
    <2>1. valueBar' = [valueBar EXCEPT ![h] = ObjectInner(h, f, x).conf]
      BY <1>1, <1>5, <1>7, BuildersAreSound
    <2> QED BY <1>2, <1>3, <2>1 DEF Values!SetObject, ObjectInner
  <1>8. ASSUME NEW x \in Client, make_mut(h, RedisInner(h, x))
        PROVE  Values!SetRedis(h)
    <2>1. valueBar' = [valueBar EXCEPT ![h] = RedisInner(h, x).conf]
      BY <1>1, <1>5, <1>8, BuildersAreSound
    <2> QED BY <1>2, <1>3, <2>1 DEF Values!SetRedis, RedisInner
  <1> QED BY <1>4, <1>6, <1>7, <1>8, BuildSteps DEF Values!Next

\* A call that goes on moves its phase alone.
LEMMA PhaseOfOne ==
  ASSUME IInv, NEW c \in Call, NEW l, Goto(c, l)
  PROVE  phaseBar' = [phaseBar EXCEPT ![c] = PhaseAt(l)]
  BY DEF IInv, TypeOK, Goto, phaseBar

LEMMA NextImplements ==
  ASSUME IInv, [Next]_vars
  PROVE  Values!Next \/ UNCHANGED Values!vars
  <1>1. ASSUME NEW h \in Handle, new_with(h) PROVE Values!Make(h)
    <2>1. PICK v \in Config, i \in InnerId :
            /\ Valid(apply_defaults(v)) /\ inner[i] = Freed
            /\ inner' = [inner EXCEPT ![i] = [conf |-> apply_defaults(v), cell |-> None]]
            /\ at' = [at EXCEPT ![h] = i]
      BY <1>1 DEF new_with, from_config_unchecked
    <2>2. apply_defaults(v) \in Values!Settings
      <3> DEFINE new == [conf |-> apply_defaults(v), cell |-> None]
      <3>1. new \in Inner /\ Sound(new)
        BY <2>1, DefaultsAreComplete
      <3>2. new.conf \in Values!Settings
        BY <3>1, CompleteIsSettings
      <3> QED BY <3>2
    <2>3. at[h] = Dropped /\ UNCHANGED <<pc, holder, client, got>>
      BY <1>1 DEF new_with, calls
    <2>4. \A g \in Handle : at[g] # i
      BY <2>1, HandlesAssumption DEF IInv, LiveInner
    <2>5. /\ at'[h] = i /\ inner'[i].conf = apply_defaults(v)
          /\ \A g \in Handle \ {h} :
               at'[g] = at[g] /\ (at[g] # Dropped => inner'[at[g]] = inner[at[g]])
      BY <2>1, <2>4 DEF IInv, TypeOK
    <2>6. valueBar' = [valueBar EXCEPT ![h] = apply_defaults(v)]
      BY <2>5, HandlesAssumption, ValueOfOne
    <2>7. valueBar[h] = Dropped
      BY <2>3 DEF valueBar
    <2>8. UNCHANGED <<phaseBar, holder, got>>
      BY <2>3 DEF phaseBar
    <2> QED BY <2>2, <2>6, <2>7, <2>8 DEF Values!Make
  <1>2. ASSUME NEW h \in Handle, Drop(h) PROVE Values!Drop(h)
    <2>1. /\ at[h] # Dropped /\ \A c \in Call : holder[c] # h
          /\ UNCHANGED <<pc, holder, client, got>>
          /\ at' = [at EXCEPT ![h] = Dropped]
          /\ inner' = IF Shared(h) THEN inner ELSE [inner EXCEPT ![at[h]] = Freed]
      BY <1>2 DEF Drop, Owned, calls
    <2>2. /\ at'[h] = Dropped
          /\ \A g \in Handle \ {h} :
               at'[g] = at[g] /\ (at[g] # Dropped => inner'[at[g]] = inner[at[g]])
      BY <2>1 DEF IInv, TypeOK, Shared
    <2>3. valueBar' = [valueBar EXCEPT ![h] = Dropped]
      BY <2>2, ValueOfOne
    <2>4. valueBar[h] # Dropped
      BY <2>1, ValueOfLive
    <2>5. UNCHANGED <<phaseBar, holder, got>>
      BY <2>1 DEF phaseBar
    <2> QED BY <2>1, <2>3, <2>4, <2>5 DEF Values!Drop, Values!Borrowed
  <1>3. ASSUME NEW h \in Handle, Build(h) PROVE Values!Next \/ UNCHANGED Values!vars
    BY <1>3, BuildImplements
  <1>4. ASSUME NEW g \in Handle, NEW h \in Handle, Clone(g, h) PROVE Values!Copy(g, h)
    <2>1. /\ at[g] # Dropped /\ at[h] = Dropped /\ at' = [at EXCEPT ![h] = at[g]]
          /\ UNCHANGED <<inner, pc, holder, client, got>>
      BY <1>4 DEF Clone, calls
    <2>2. /\ valueBar[g] = Conf(g) /\ valueBar[g] # Dropped /\ valueBar[h] = Dropped
      BY <2>1, ValueOfLive DEF valueBar
    <2>3. /\ at'[h] = at[g] /\ inner'[at[g]].conf = Conf(g)
          /\ \A k \in Handle \ {h} :
               at'[k] = at[k] /\ (at[k] # Dropped => inner'[at[k]] = inner[at[k]])
      BY <2>1 DEF IInv, TypeOK, Conf
    <2>4. valueBar' = [valueBar EXCEPT ![h] = Conf(g)]
      BY <2>1, <2>3, ValueOfOne
    <2>5. UNCHANGED <<phaseBar, holder, got>>
      BY <2>1 DEF phaseBar
    <2> QED BY <2>2, <2>4, <2>5 DEF Values!Copy
  <1>5. ASSUME NEW c \in Call, NEW h \in Handle, redis_connection(c, h) PROVE Values!Ask(c, h)
    <2>1. /\ pc[c] = "idle" /\ at[h] # Dropped
          /\ holder' = [holder EXCEPT ![c] = h] /\ UNCHANGED <<at, inner, got>>
          /\ Goto(c, IF Conf(h).redis = None THEN "err" ELSE "wait")
      BY <1>5 DEF redis_connection
    <2>2. valueBar[h] = Conf(h) /\ valueBar[h] # Dropped
      BY <2>1, ValueOfLive
    <2>3. phaseBar' = [phaseBar EXCEPT ![c] = IF Conf(h).redis = None THEN "failed" ELSE "asked"]
      BY <2>1, PhaseOfOne DEF PhaseAt
    <2>4. phaseBar[c] = "idle" /\ UNCHANGED valueBar
      BY <2>1 DEF phaseBar, PhaseAt, valueBar, Conf
    <2> QED BY <2>1, <2>2, <2>3, <2>4 DEF Values!Ask
  <1>6. ASSUME NEW c \in Call, get_or_try_init(c) PROVE Values!Answer(c) \/ UNCHANGED Values!vars
    <2>1. /\ pc[c] = "wait" /\ UNCHANGED <<at, inner, holder>>
          /\ holder[c] \in Handle /\ at[holder[c]] # Dropped
      BY <1>6 DEF get_or_try_init, IInv, TypeOK, CallsBorrow
    <2>2. phaseBar[c] = "asked" /\ UNCHANGED valueBar /\ valueBar[holder[c]] = Conf(holder[c])
      BY <2>1, ValueOfLive DEF phaseBar, PhaseAt, valueBar, Conf
    <2>3. CASE Cell(holder[c]) # None /\ Goto(c, "ok") /\ got' = [got EXCEPT ![c] = Cell(holder[c])]
      <3>1. phaseBar' = [phaseBar EXCEPT ![c] = "answered"]
        BY <2>3, PhaseOfOne DEF PhaseAt
      <3>2. Cell(holder[c]) = Conf(holder[c]).redis
        BY <2>1, <2>3 DEF IInv, ConnectsToOwnClient
      <3> QED BY <2>1, <2>2, <2>3, <3>1, <3>2 DEF Values!Answer
    <2>4. CASE Goto(c, "connect") /\ UNCHANGED got
      <3>1. phaseBar' = [phaseBar EXCEPT ![c] = "asked"]
        BY <2>4, PhaseOfOne DEF PhaseAt
      <3>2. UNCHANGED phaseBar
        BY <2>2, <3>1 DEF phaseBar
      <3> QED BY <2>1, <2>2, <2>4, <3>2 DEF Values!vars
    <2> QED BY <1>6, <2>3, <2>4 DEF get_or_try_init, Cell
  <1>7. ASSUME NEW c \in Call, ConnectionManager(c) PROVE Values!Answer(c) \/ Values!Fail(c)
    <2>1. /\ pc[c] = "connect" /\ UNCHANGED <<at, holder, client>>
          /\ holder[c] \in Handle /\ at[holder[c]] # Dropped
          /\ client[c] = Conf(holder[c]).redis
      BY <1>7 DEF ConnectionManager, IInv, TypeOK, CallsBorrow
    <2>2. phaseBar[c] = "asked" /\ valueBar[holder[c]] = Conf(holder[c])
      BY <2>1, ValueOfLive DEF phaseBar, PhaseAt
    <2>3. CASE Goto(c, "err") /\ UNCHANGED <<inner, got>>
      <3>1. phaseBar' = [phaseBar EXCEPT ![c] = "failed"]
        BY <2>3, PhaseOfOne DEF PhaseAt
      <3>2. UNCHANGED valueBar
        BY <2>1, <2>3 DEF valueBar, Conf
      <3> QED BY <2>1, <2>2, <2>3, <3>1, <3>2 DEF Values!Fail
    <2>4. CASE /\ inner' = [inner EXCEPT ![at[holder[c]]] =
                              [conf |-> inner[at[holder[c]]].conf, cell |-> client[c]]]
               /\ got' = [got EXCEPT ![c] = client[c]]
               /\ Goto(c, "ok")
      <3>1. phaseBar' = [phaseBar EXCEPT ![c] = "answered"]
        BY <2>4, PhaseOfOne DEF PhaseAt
      <3>2. \A h \in Handle : at[h] # Dropped => inner'[at[h]].conf = inner[at[h]].conf
        BY <2>1, <2>4 DEF IInv, TypeOK
      <3>3. UNCHANGED valueBar
        BY <2>1, <3>2 DEF valueBar, Conf
      <3> QED BY <2>1, <2>2, <2>4, <3>1, <3>3 DEF Values!Answer
    <2> QED BY <1>7, <2>3, <2>4 DEF ConnectionManager
  <1>8. ASSUME NEW c \in Call, Return(c) PROVE Values!Leave(c)
    <2>1. /\ pc[c] # "idle" /\ Goto(c, "idle") /\ UNCHANGED <<at, inner>>
          /\ holder' = [holder EXCEPT ![c] = NoHandle] /\ got' = [got EXCEPT ![c] = None]
      BY <1>8 DEF Return
    <2>2. phaseBar' = [phaseBar EXCEPT ![c] = "idle"]
      BY <2>1, PhaseOfOne DEF PhaseAt
    <2>3. phaseBar[c] # "idle"
      BY <2>1 DEF phaseBar, PhaseAt, IInv, TypeOK, Label
    <2>4. UNCHANGED valueBar
      BY <2>1 DEF valueBar, Conf
    <2> QED BY <2>1, <2>2, <2>3, <2>4 DEF Values!Leave
  <1>9. CASE UNCHANGED vars
    BY <1>9 DEF vars, Values!vars, valueBar, phaseBar, Conf
  <1> QED BY <1>1, <1>2, <1>3, <1>4, <1>5, <1>6, <1>7, <1>8, <1>9 DEF Next, Values!Next

\* Clones that share an Inner behave as handles with settings of their own:
\* Arc::make_mut and the copy of the cell cannot be told from a copy of
\* everything.
THEOREM HandlesImplementValues == Spec => ImplementsValues
  <1>1. Init => Values!Init
    BY InitImplements
  <1>2. IInv /\ [Next]_vars => [Values!Next]_(Values!vars)
    BY NextImplements
  <1> QED BY <1>1, <1>2, SpecIInv, PTL DEF Spec, ImplementsValues, Values!Spec
=============================================================================
