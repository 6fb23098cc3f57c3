------------------------------- MODULE Layers -------------------------------
(***************************************************************************)
(* Who is let through.  A route is protected by one of two layers: the one *)
(* for APIs reads the roles from a signed token, the one for pages from    *)
(* the session that a cookie names.  The actix example writes both again   *)
(* as guards.  All of it are functions of one request; the roles reach     *)
(* them as text that was typed by people and that crossed JSON, tokens and *)
(* the database.                                                           *)
(***************************************************************************)
EXTENDS Naturals, Sequences, SequencesExt

CONSTANTS
  AnyText,     \* texts, as sequences of words
  RoleText,    \* those of them that roles are taken from
  RoleList,    \* sets of RoleText: what lists of roles may hold
  Lower,       \* [words -> words]: to_lowercase
  Letters,     \* [words -> SUBSET {"r", "w"}]: which of the two letters it has
  PathText,    \* the paths and the prefixes that are looked at
  User,        \* the users a token or a session may be about
  NoLayer

Blank == " "
Colon == ":"
Word  == DOMAIN Lower

\* The elements of a list are texts or something else, which is Other.
Other == <<"other">>

ASSUME LayersAssumption ==
  /\ AnyText \cup RoleText \subseteq Seq(Word)
  /\ RoleList \subseteq SUBSET RoleText
  /\ {Blank, Colon} \subseteq Word /\ "other" \notin Word
  /\ Lower \in [Word -> Word]
  /\ Letters \in [Word -> SUBSET {"r", "w"}]
  /\ Letters[Lower[Blank]] = {}
  /\ \A p \in PathText : p \in Seq(Range(p))

VARIABLE layer   \* the options of the layer that is looked at, or NoLayer

-----------------------------------------------------------------------------
(* The text of a role: name:perms *)

NotBlank(t) == {i \in DOMAIN t : t[i] # Blank}
Least(S)    == CHOOSE i \in S : \A j \in S : i <= j
Most(S)     == CHOOSE i \in S : \A j \in S : j <= i

trim(t) == IF NotBlank(t) = {} THEN <<>> ELSE SubSeq(t, Least(NotBlank(t)), Most(NotBlank(t)))

to_lowercase(t) == [i \in DOMAIN t |-> Lower[t[i]]]

Colons(t) == {i \in DOMAIN t : t[i] = Colon}

\* str::split_once at the first colon, or all of it and nothing.
Before(t) == IF Colons(t) = {} THEN t    ELSE SubSeq(t, 1, Least(Colons(t)) - 1)
After(t)  == IF Colons(t) = {} THEN <<>> ELSE SubSeq(t, Least(Colons(t)) + 1, Len(t))

\* A grant, unless its name is empty.
parse_user_role_grant(t) ==
  LET u == trim(t)
      g == [name |-> trim(Before(u)), perms |-> to_lowercase(trim(After(u)))]
  IN IF g.name = <<>> THEN {} ELSE {g}

\* (mutant) what stands before the colon is not trimmed
parse_endpoint_role_untrimmed(t) ==
  IF trim(t) = <<>> THEN {} ELSE {to_lowercase(Before(trim(t)))}

\* The name an endpoint asks for; a text that is blank asks for none.
parse_endpoint_role(t) ==
  IF trim(t) = <<>> THEN {} ELSE {to_lowercase(trim(Before(trim(t))))}

role_grant_allows(letter, perms) == \E i \in DOMAIN perms : letter \in Letters[perms[i]]

get_role(endpoint_roles, user_roles) ==
  LET allowed == UNION {parse_endpoint_role(t) : t \in endpoint_roles}
      matched == {g \in UNION {parse_user_role_grant(t) : t \in user_roles} :
                    to_lowercase(g.name) \in allowed}
  IN [has_role  |-> matched # {},
      can_read  |-> \E g \in matched : role_grant_allows("r", g.perms),
      can_write |-> \E g \in matched : role_grant_allows("w", g.perms)]

-----------------------------------------------------------------------------
(* Lists of roles, as JSON *)

\* What a claim or a column may hold: nothing, a list, a string that is the JSON of
\* a list, or begins like one and is none, any other string, any other value.
Value == [kind : {"null", "broken", "other"}, items : {{}}]
    \cup [kind : {"array", "encoded"}, items : RoleList \cup {l \cup {Other} : l \in RoleList}]
    \cup [kind : {"text"}, items : {{t} : t \in RoleText}]

InvalidRoles == {Other}

format_roles(items) == {trim(t) : t \in items \ {Other}} \ {<<>>}

\* (mutant) a list with anything but texts in it is refused
roles_from_any_strict(raw) ==
  LET s == {trim(t) : t \in raw.items} IN
  IF raw.kind \in {"array", "encoded"} /\ Other \notin raw.items THEN format_roles(raw.items)
  ELSE IF raw.kind = "text" /\ ~(s \subseteq {<<>>})             THEN s
  ELSE InvalidRoles

roles_from_any(raw) ==
  LET s == {trim(t) : t \in raw.items} IN
  IF raw.kind \in {"array", "encoded"}             THEN format_roles(raw.items)
  ELSE IF raw.kind = "text" /\ ~(s \subseteq {<<>>}) THEN s
  ELSE InvalidRoles

\* JsonbArray::scan.  A string is taken for the JSON of a list.
Scannable(v) ==
  \/ v.kind \in {"null", "array", "encoded"}
  \/ v.kind = "text" /\ v.items = {<<>>}

scan(v) == IF v.kind \in {"array", "encoded"} THEN v.items ELSE {}

-----------------------------------------------------------------------------
(* Requests and the options of a layer *)

NoToken == [valid |-> FALSE, user |-> "", roles |-> [kind |-> "null", items |-> {}]]
Token   == [valid : BOOLEAN, user : User, roles : Value] \cup {NoToken}

\* The Authorization header may carry a token, or be of another scheme.
extract_bearer_token(r) == IF r.scheme = "bearer" THEN r.header ELSE r.query

parse_jwt(token) == token.valid

\* (mutant) an empty prefix is one of every path
is_excluded_path_of_empty(excluded, path) == \E p \in excluded : IsPrefix(p, path)

is_excluded_path(excluded, path) == \E p \in excluded : p # <<>> /\ IsPrefix(p, path)

\* The options are applied in turn, each in place of what was there: the last one
\* for a field stays.
LastOption(opts, field) ==
  LET at == {i \in DOMAIN opts : opts[i].field = field}
  IN IF at = {} THEN {} ELSE opts[Most(at)].value

new_auth_config_options(opts) ==
  [excluded_paths |-> LastOption(opts, "excluded_paths"), roles |-> LastOption(opts, "roles")]

with_excluded_paths(paths) == [field |-> "excluded_paths", value |-> paths]
with_roles(roles)          == [field |-> "roles", value |-> roles]

\* No option, or roles and then paths or roles once more.
OptionLists ==
  {<<>>} \cup ({with_roles({e}) : e \in RoleText}
                 \X ({with_excluded_paths({p}) : p \in PathText} \cup {with_roles(l) : l \in RoleList}))

LayerConfig == {new_auth_config_options(o) : o \in OptionLists}

\* A layer keeps what it was made with as long as the application runs.
LayersInit == layer \in LayerConfig \cup {NoLayer}

LayersSpec == LayersInit /\ [][UNCHANGED layer]_layer

-----------------------------------------------------------------------------
(* The layers *)

\* What the handler behind a layer finds on its request: a token or none.
Pass(token)    == [status |-> 200, token |-> token]
Refuse(status) == [status |-> status, token |-> NoToken]

api_outcome(cfg, r) ==
  LET token == extract_bearer_token(r)
      roles == roles_from_any(token.roles)
  IN IF is_excluded_path(cfg.excluded_paths, r.path) THEN Pass(NoToken)
     ELSE IF ~parse_jwt(token)                         THEN Refuse(401)
     ELSE IF cfg.roles = {}                            THEN Pass(token)
     ELSE IF roles = InvalidRoles                      THEN Refuse(500)
     ELSE IF ~get_role(cfg.roles, roles).has_role      THEN Refuse(403)
     ELSE Pass(token)

\* The session a cookie names: no cookie, none there or ended, unreadable, or there
\* with the roles of its user.
Session == [answer : {"no_cookie", "missing", "error"}, items : {{}}]
      \cup [answer : {"found"}, items : {scan(v) : v \in {u \in Value : Scannable(u)}}]

web_outcome(cfg, r) ==
  IF is_excluded_path(cfg.excluded_paths, r.path)             THEN Pass(NoToken)
  ELSE IF r.session.answer \in {"no_cookie", "missing"}         THEN Refuse(307)
  ELSE IF r.session.answer = "error"                            THEN Refuse(500)
  ELSE IF /\ cfg.roles # {}
          /\ ~get_role(cfg.roles, format_roles(r.session.items)).has_role THEN Refuse(403)
  ELSE Pass(NoToken)

\* Authorization::get_auth_data_api: the principal a handler is told of, by the
\* token on its request; {} without one.
get_auth_data_api(token) ==
  IF token = NoToken THEN {}
  ELSE LET roles == roles_from_any(token.roles) IN
       {[user |-> token.user, roles |-> IF roles = InvalidRoles THEN {} ELSE roles]}

-----------------------------------------------------------------------------
(* The guards of the actix example *)

\* (mutant) roles that cannot be read are as good as those that were asked for
jwt_guard_lenient(required_roles, r) ==
  LET token == extract_bearer_token(r)
      roles == roles_from_any(token.roles)
  IN IF ~parse_jwt(token) THEN Refuse(401)
     ELSE IF /\ required_roles # {}
             /\ roles # InvalidRoles
             /\ ~get_role(required_roles, roles).has_role THEN Refuse(403)
     ELSE Pass(token)

\* Roles that cannot be read are no roles.
jwt_guard(required_roles, r) ==
  LET token == extract_bearer_token(r)
      roles == roles_from_any(token.roles)
      user_roles == IF roles = InvalidRoles THEN {} ELSE roles
  IN IF ~parse_jwt(token) THEN Refuse(401)
     ELSE IF /\ required_roles # {}
             /\ ~get_role(required_roles, user_roles).has_role THEN Refuse(403)
     ELSE Pass(token)

api_auth(r)   == jwt_guard({}, r)
admin_auth(r) == jwt_guard({<<"admin">>}, r)

\* get_auth_data_web fails without a session, whatever the reason.
web_auth(r) == IF r.session.answer = "found" THEN Pass(NoToken) ELSE Refuse(307)

-----------------------------------------------------------------------------
(* Properties *)

\* What a text says, without taking it apart in the order of the code: name \o
\* perms, where name is a word or more between blanks and perms follows a colon.
NameOf(t) ==
  {to_lowercase(SubSeq(t, i, j)) : i, j \in {k \in NotBlank(t) : \A c \in Colons(t) : k < c}}

RoleName(t) == {n \in NameOf(t) : \A m \in NameOf(t) : Len(m) <= Len(n)} \ {<<>>}

Says(letter, t) == \E c \in Colons(t), i \in DOMAIN t : c < i /\ letter \in Letters[Lower[t[i]]]

\* Someone has a role iff one of his grants names one of the endpoint's, whatever
\* blanks, cases and permissions are written with either; he may read or write iff
\* that grant says so; and texts without a name, on either side, are nobody's role.
RolesAsWritten ==
  layer # NoLayer =>
    \A g \in AnyText :
      LET same == \E e \in layer.roles : RoleName(e) \cap RoleName(g) # {}
          role == get_role(layer.roles, {g})
      IN /\ role.has_role  = same
         /\ role.can_read  = (same /\ Says("r", g))
         /\ role.can_write = (same /\ Says("w", g))

\* A token comes in the header or, as any other scheme is ignored, in the query.
Requests(path, token) ==
  {[path |-> path, scheme |-> "bearer", header |-> token, query |-> NoToken],
   [path |-> path, scheme |-> "other", header |-> NoToken, query |-> token]}

\* A user with roles that can be read from the database is let through by the API
\* layer, with a token signed for them, iff he is by the other, with his session.
LayersAgree ==
  layer # NoLayer =>
    \A path \in PathText, v \in {u \in Value : Scannable(u)}, user \in User :
      LET signed == [valid |-> TRUE, user |-> user,
                     roles |-> [kind |-> "array", items |-> scan(v)]]
          found  == [answer |-> "found", items |-> scan(v)]
          api    == api_outcome(layer, [path |-> path, scheme |-> "bearer",
                                        header |-> signed, query |-> NoToken])
          web    == web_outcome(layer, [path |-> path, session |-> found])
      IN api.status = web.status

\* A route that asks for roles is answered only to one who holds a role it asks for,
\* by his own token, unless a prefix of its path was excluded; and what the handler
\* is told of the principal was in a token that was validated.
OnlyHoldersPass ==
  layer # NoLayer =>
    \A path \in PathText, token \in Token : \A r \in Requests(path, token) :
      LET api == api_outcome(layer, r) IN
      api.status = 200 =>
           \/ /\ \E p \in layer.excluded_paths :
                     p # <<>> /\ Len(p) <= Len(path) /\ SubSeq(path, 1, Len(p)) = p
              /\ get_auth_data_api(api.token) = {}
           \/ /\ token.valid
              /\ \E d \in get_auth_data_api(api.token) :
                   /\ d.user = token.user
                   /\ layer.roles # {} => \E e \in layer.roles, t \in d.roles :
                                            RoleName(e) \cap RoleName(t) # {}

\* The guards of the example are the layers they say they are equivalent to: they let
\* through the same requests, with the same token.
GuardsAreLayers ==
  LET Guards(r) == {jwt_guard(layer.roles, r)}
              \cup (IF layer.roles = {} THEN {api_auth(r)} ELSE {})
              \cup (IF layer.roles = {<<"admin">>} THEN {admin_auth(r)} ELSE {})
  IN layer # NoLayer /\ layer.excluded_paths = {} =>
       /\ \A path \in PathText, token \in Token : \A r \in Requests(path, token) :
            LET api == api_outcome(layer, r) IN
            \A guard \in Guards(r) :
              guard.token = api.token /\ (guard.status = 200) = (api.status = 200)
       /\ layer.roles = {} =>
            \A s \in Session, path \in PathText :
              LET r == [path |-> path, session |-> s] IN
              (web_auth(r).status = 200) = (web_outcome(layer, r).status = 200)
=============================================================================
