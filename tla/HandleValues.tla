---------------------------- MODULE HandleValues ----------------------------
(***************************************************************************)
(* What an Authorization handle promises its owner: it is a value.  A copy *)
(* has the settings of its original, a builder changes one setting of one  *)
(* handle, and a call for a Redis connection is answered with one to the   *)
(* client its own handle is set to, or fails.  There is nothing to share.  *)
(***************************************************************************)
CONSTANTS
  Handle, Call,
  TextField, Text,      \* settings that are strings or durations, never empty
  ObjectField, Object,  \* settings that are present or not
  Client,               \* Redis clients
  None, Dropped, NoHandle

Settings == [text   : [TextField -> Text],
             object : [ObjectField -> Object \cup {None}],
             redis  : Client \cup {None}]

VARIABLES
  value,    \* [Handle -> Settings or Dropped]
  phase,    \* [Call -> Phase]
  holder,   \* [Call -> the handle it is called on]
  got       \* [Call -> the client it is connected to]

vars == <<value, phase, holder, got>>

Phase == {"idle", "asked", "answered", "failed"}

Init ==
  /\ value  = [h \in Handle |-> Dropped]
  /\ phase  = [c \in Call |-> "idle"]
  /\ holder = [c \in Call |-> NoHandle]
  /\ got    = [c \in Call |-> None]

Make(h) ==
  /\ value[h] = Dropped
  /\ \E v \in Settings : value' = [value EXCEPT ![h] = v]
  /\ UNCHANGED <<phase, holder, got>>

Copy(g, h) ==
  /\ value[g] # Dropped /\ value[h] = Dropped
  /\ value' = [value EXCEPT ![h] = value[g]]
  /\ UNCHANGED <<phase, holder, got>>

\* The handle is the caller's own: no call is running on it.
Borrowed(h) == \E c \in Call : holder[c] = h

SetText(h) ==
  /\ value[h] # Dropped /\ ~Borrowed(h)
  /\ \E f \in TextField, x \in Text :
       value' = [value EXCEPT ![h] = [text   |-> [value[h].text EXCEPT ![f] = x],
                                      object |-> value[h].object,
                                      redis  |-> value[h].redis]]
  /\ UNCHANGED <<phase, holder, got>>

SetObject(h) ==
  /\ value[h] # Dropped /\ ~Borrowed(h)
  /\ \E f \in ObjectField, x \in Object :
       value' = [value EXCEPT ![h] = [text   |-> value[h].text,
                                      object |-> [value[h].object EXCEPT ![f] = x],
                                      redis  |-> value[h].redis]]
  /\ UNCHANGED <<phase, holder, got>>

SetRedis(h) ==
  /\ value[h] # Dropped /\ ~Borrowed(h)
  /\ \E x \in Client :
       value' = [value EXCEPT ![h] = [text |-> value[h].text, object |-> value[h].object,
                                      redis |-> x]]
  /\ UNCHANGED <<phase, holder, got>>

Drop(h) ==
  /\ value[h] # Dropped /\ ~Borrowed(h)
  /\ value' = [value EXCEPT ![h] = Dropped]
  /\ UNCHANGED <<phase, holder, got>>

\* Without a client it fails at once.
Ask(c, h) ==
  /\ value[h] # Dropped /\ phase[c] = "idle"
  /\ phase'  = [phase  EXCEPT ![c] = IF value[h].redis = None THEN "failed" ELSE "asked"]
  /\ holder' = [holder EXCEPT ![c] = h]
  /\ UNCHANGED <<value, got>>

Answer(c) ==
  /\ phase[c] = "asked"
  /\ got'   = [got   EXCEPT ![c] = value[holder[c]].redis]
  /\ phase' = [phase EXCEPT ![c] = "answered"]
  /\ UNCHANGED <<value, holder>>

Fail(c) ==
  /\ phase[c] = "asked"
  /\ phase' = [phase EXCEPT ![c] = "failed"]
  /\ UNCHANGED <<value, holder, got>>

Leave(c) ==
  /\ phase[c] # "idle"
  /\ phase'  = [phase  EXCEPT ![c] = "idle"]
  /\ holder' = [holder EXCEPT ![c] = NoHandle]
  /\ got'    = [got    EXCEPT ![c] = None]
  /\ UNCHANGED value

Next ==
  \/ \E h \in Handle : \/ Make(h) \/ SetText(h) \/ SetObject(h) \/ SetRedis(h) \/ Drop(h)
                       \/ \E g \in Handle : Copy(g, h)
                       \/ \E c \in Call : Ask(c, h)
  \/ \E c \in Call : Answer(c) \/ Fail(c) \/ Leave(c)

Spec == Init /\ [][Next]_vars
=============================================================================
