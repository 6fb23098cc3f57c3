--------------------------- MODULE TokenLifeProofs ---------------------------
(***************************************************************************)
(* TokenLife for any number of requests, any lifetimes, any leeway and any *)
(* length of a second.  The invariant says what a request may rely on when *)
(* it signs a token: that a sign-in is alone until its session exists,     *)
(* that a session which is usable now was usable when the request arrived, *)
(* and that the roles it has read were held while it ran.                  *)
(***************************************************************************)
EXTENDS TokenLife, Durations, TLAPS

SignIn == {"si_roles", "si_create", "si_sign"}

\* A sign-in is the only request until its tokens are signed.
SignInIsAlone ==
  \A r \in Req : pc[r] \in SignIn =>
    /\ \A q \in Req : pc[q] # "idle" => q = r
    /\ refresh = NoToken
    /\ row.status = "absent" <=> pc[r] \in {"si_roles", "si_create"}

\* The session's expiry was computed before that of the refresh token.
RowBeforeToken ==
  /\ \A r \in Req :
       /\ pc[r] = "si_create" => read[r].clock <= now
       /\ pc[r] = "si_sign" => row.expires <= now + RefreshLife
  /\ refresh # NoToken =>
       row.status # "absent" /\ timestamp(row.expires) <= refresh

\* What is usable now was usable when the request arrived.
OpenWhileUsable ==
  \A r \in Req :
    /\ pc[r] = "check" /\ session_usable => open[r]
    /\ pc[r] \in SignIn \cup {"load"} => open[r]

\* The roles of the user now, and those a sign-in has read, are among those held
\* while the request ran.
HeldWhileRunning ==
  \A r \in Req : pc[r] # "idle" =>
    /\ get_role(account) => held[r]
    /\ pc[r] \in SignIn /\ get_role(read[r].roles) => held[r]

\* Tokens were signed for an open session, with roles that were held.
SignedWell == access.open /\ (get_role(access.roles) => access.held)

IInv ==
  /\ TypeOK
  /\ SignInIsAlone
  /\ RowBeforeToken
  /\ OpenWhileUsable
  /\ HeldWhileRunning
  /\ SignedWell

-----------------------------------------------------------------------------
(* Whole seconds *)

LEMMA SecondsNat == ASSUME NEW t \in Nat PROVE timestamp(t) \in Nat
  <1>1. t \div Second \in Nat
    BY TokenLifeAssumption
  <1> QED BY <1>1 DEF timestamp

LEMMA SecondsMonotone ==
  ASSUME NEW s \in Nat, NEW t \in Nat, s <= t
  PROVE  timestamp(s) <= timestamp(t)
  <1>1. s \div Second <= t \div Second
    BY TokenLifeAssumption
  <1> QED BY <1>1 DEF timestamp

\* get_role of no roles.
LEMMA NobodyHasNoRoles == ~get_role({})
  BY DEF get_role

-----------------------------------------------------------------------------

LEMMA InitIInv == Init => IInv
  BY TokenLifeAssumption, NobodyHasNoRoles
  DEF Init, IInv, TypeOK, SignInIsAlone, RowBeforeToken, OpenWhileUsable,
      HeldWhileRunning, SignedWell, Time, Awaits, Unread, Token, Unsigned, SignIn

\* The claims of a token signed by a request that found the session open and the
\* roles among those it held.
LEMMA ClaimsWell ==
  ASSUME TypeOK, NEW r \in Req, NEW grants \in SUBSET Role,
         open[r], get_role(grants) => held[r]
  PROVE  /\ Claims(r, grants) \in Token
         /\ Claims(r, grants).open
         /\ get_role(Claims(r, grants).roles) => Claims(r, grants).held
  <1>1. now + AccessLife \in Nat
    BY TokenLifeAssumption DEF TypeOK, Time
  <1>2. timestamp(now + AccessLife) \in Nat
    BY <1>1, SecondsNat
  <1>3. open[r] \in BOOLEAN /\ held[r] \in BOOLEAN
    BY DEF TypeOK
  <1> QED BY <1>2, <1>3 DEF Claims, Token

\* What the arrival and the end of a request change.
LEMMA Arrives ==
  ASSUME TypeOK, NEW r \in Req, NEW l \in Awaits \cup {"token_invalid"}, Arrive(r, l)
  PROVE  /\ pc' \in [Req -> Awaits \cup {"idle", "refused", "token_invalid"}]
         /\ open' \in [Req -> BOOLEAN] /\ held' \in [Req -> BOOLEAN]
         /\ pc[r] = "idle" /\ pc'[r] = l
         /\ open'[r] <=> row.status = "absent" \/ session_usable
         /\ held'[r] <=> get_role(account)
         /\ \A q \in Req \ {r} : pc'[q] = pc[q] /\ open'[q] = open[q] /\ held'[q] = held[q]
  <1> DEFINE o == row.status = "absent" \/ session_usable
             h == get_role(account)
  <1>1. o \in BOOLEAN /\ h \in BOOLEAN
    BY DEF get_role
  <1>2. pc[r] = "idle" /\ pc' = [pc EXCEPT ![r] = l]
    BY DEF Arrive, Goto
  <1>3. open' = [open EXCEPT ![r] = o] /\ held' = [held EXCEPT ![r] = h]
    BY DEF Arrive
  <1> HIDE DEF o, h
  <1>4. /\ open' \in [Req -> BOOLEAN] /\ held' \in [Req -> BOOLEAN]
        /\ open'[r] = o /\ held'[r] = h
        /\ \A q \in Req \ {r} : open'[q] = open[q] /\ held'[q] = held[q]
    BY <1>1, <1>3 DEF TypeOK
  <1>5. /\ pc' \in [Req -> Awaits \cup {"idle", "refused", "token_invalid"}]
        /\ pc'[r] = l /\ \A q \in Req \ {r} : pc'[q] = pc[q]
    BY <1>2 DEF TypeOK
  <1> QED BY <1>2, <1>4, <1>5 DEF o, h

LEMMA Finishes ==
  ASSUME TypeOK, NEW r \in Req, Finish(r)
  PROVE  /\ pc' \in [Req -> Awaits \cup {"idle", "refused", "token_invalid"}]
         /\ read' \in [Req -> [clock : Time, roles : SUBSET Role]]
         /\ open' \in [Req -> BOOLEAN] /\ held' \in [Req -> BOOLEAN]
         /\ pc'[r] = "idle"
         /\ \A q \in Req \ {r} : /\ pc'[q] = pc[q] /\ read'[q] = read[q]
                                 /\ open'[q] = open[q] /\ held'[q] = held[q]
  <1>1. Unread \in [clock : Time, roles : SUBSET Role]
    BY TokenLifeAssumption DEF Unread, Time
  <1> QED BY <1>1 DEF Finish, Goto, TypeOK

LEMMA NextIInv == IInv /\ [Next]_vars => IInv'
  <1> SUFFICES ASSUME IInv, [Next]_vars PROVE IInv'
    OBVIOUS
  <1> USE DEF IInv
  <1>1. ASSUME NEW r \in Req, authorize(r) PROVE IInv'
    <2>1. /\ row.status = "absent" /\ refresh = NoToken
          /\ \A q \in Req : pc[q] = "idle"
          /\ UNCHANGED <<now, row, account, refresh, access>>
      BY <1>1 DEF authorize, RowBeforeToken
    <2>2. Arrive(r, "si_roles") /\ "si_roles" \in Awaits
      BY <1>1 DEF authorize, Awaits
    <2>3. /\ read' \in [Req -> [clock : Time, roles : SUBSET Role]]
          /\ get_role(read'[r].roles) => get_role(account)
      BY <1>1 DEF authorize, Read, TypeOK, get_role
    <2>4. TypeOK'
      BY <2>1, <2>2, <2>3, Arrives DEF TypeOK
    <2>5. pc'[r] = "si_roles" /\ open'[r] /\ (get_role(account) => held'[r])
      BY <2>1, <2>2, Arrives
    <2>6. \A q \in Req : q # r => pc'[q] = "idle"
      BY <2>1, <2>2, Arrives
    <2> QED BY <2>1, <2>3, <2>4, <2>5, <2>6
        DEF SignInIsAlone, RowBeforeToken, OpenWhileUsable, HeldWhileRunning, SignedWell,
            SignIn, get_role, session_usable
  <1>2. ASSUME NEW r \in Req, authorize_roles(r) PROVE IInv'
    BY <1>2
    DEF authorize_roles, Read, Goto, TypeOK, SignInIsAlone, RowBeforeToken, OpenWhileUsable,
        HeldWhileRunning, SignedWell, Time, Awaits, SignIn, session_usable
  <1>3. ASSUME NEW r \in Req, create_session(r) PROVE IInv'
    BY <1>3, TokenLifeAssumption
    DEF create_session, Goto, TypeOK, SignInIsAlone, RowBeforeToken, OpenWhileUsable,
        HeldWhileRunning, SignedWell, Time, Awaits, SignIn
  <1>4. ASSUME NEW r \in Req, sign_token_pair(r) PROVE IInv'
    <2>1. access' = Claims(r, read[r].roles) /\ read[r].roles \in SUBSET Role
      BY <1>4 DEF sign_token_pair, TypeOK
    <2>2. access' \in Token /\ SignedWell'
      BY <1>4, <2>1, ClaimsWell
      DEF sign_token_pair, OpenWhileUsable, HeldWhileRunning, SignIn, SignedWell
    <2>3. now + RefreshLife \in Nat /\ row.expires \in Nat
      BY TokenLifeAssumption DEF TypeOK, Time
    <2>4. refresh' \in Nat
      BY <1>4, <2>3, SecondsNat DEF sign_token_pair, refresh_exp
    <2>5. timestamp(row.expires) <= refresh'
      BY <1>4, <2>3, SecondsMonotone DEF sign_token_pair, refresh_exp, RowBeforeToken
    <2>6. row.status # "absent" /\ row' = row
      BY <1>4 DEF sign_token_pair, SignInIsAlone, SignIn
    <2>7. Finish(r) /\ UNCHANGED <<now, row, account>>
      BY <1>4 DEF sign_token_pair
    <2>8. TypeOK'
      BY <2>2, <2>4, <2>7, Finishes DEF TypeOK
    <2>9. \A q \in Req : pc'[q] = "idle"
      BY <1>4, <2>7, Finishes DEF sign_token_pair, SignInIsAlone, SignIn
    <2> QED BY <2>2, <2>5, <2>6, <2>7, <2>8, <2>9
        DEF SignInIsAlone, RowBeforeToken, OpenWhileUsable, HeldWhileRunning, SignIn, timestamp
  <1>5. ASSUME NEW r \in Req, refresh_response(r) PROVE IInv'
    <2>1. /\ refresh # NoToken /\ row.status # "absent"
          /\ UNCHANGED <<now, row, account, refresh, access, read>>
      BY <1>5 DEF refresh_response, RowBeforeToken
    <2>2. PICK l \in {"check", "token_invalid"} : Arrive(r, l)
      BY <1>5 DEF refresh_response
    <2>3. TypeOK'
      BY <2>1, <2>2, Arrives DEF TypeOK, Awaits
    <2>4. /\ pc'[r] = l
          /\ session_usable => open'[r]
          /\ get_role(account) => held'[r]
          /\ \A q \in Req \ {r} : pc'[q] = pc[q] /\ open'[q] = open[q] /\ held'[q] = held[q]
      BY <2>2, Arrives DEF Awaits
    <2>5. SignInIsAlone' /\ RowBeforeToken'
      BY <2>1, <2>4 DEF SignInIsAlone, RowBeforeToken, SignIn, timestamp
    <2>6. OpenWhileUsable'
      BY <2>1, <2>4 DEF OpenWhileUsable, SignIn, session_usable
    <2>7. HeldWhileRunning' /\ SignedWell'
      BY <2>1, <2>4 DEF HeldWhileRunning, SignedWell, SignIn, get_role
    <2> QED BY <2>3, <2>5, <2>6, <2>7
  <1>6. ASSUME NEW r \in Req, get_session(r) PROVE IInv'
    BY <1>6
    DEF get_session, Goto, TypeOK, SignInIsAlone, RowBeforeToken, OpenWhileUsable,
        HeldWhileRunning, SignedWell, Awaits, SignIn, session_usable
  <1>7. ASSUME NEW r \in Req, load_session_user(r) PROVE IInv'
    <2>1. access' \in {access, Claims(r, account)} /\ account \in SUBSET Role
      BY <1>7 DEF load_session_user, refresh_access_token, TypeOK
    <2>2. access' \in Token /\ SignedWell'
      BY <1>7, <2>1, ClaimsWell
      DEF load_session_user, OpenWhileUsable, HeldWhileRunning, SignedWell, TypeOK
    <2>3. Finish(r) /\ UNCHANGED <<now, row, account, refresh>>
      BY <1>7 DEF load_session_user
    <2>4. TypeOK'
      BY <2>2, <2>3, Finishes DEF TypeOK
    <2>5. /\ pc'[r] = "idle"
          /\ \A q \in Req \ {r} : /\ pc'[q] = pc[q] /\ read'[q] = read[q]
                                  /\ open'[q] = open[q] /\ held'[q] = held[q]
      BY <2>3, Finishes
    <2>6. SignInIsAlone'
      BY <2>3, <2>5 DEF SignInIsAlone, SignIn
    <2>7. RowBeforeToken' /\ OpenWhileUsable'
      BY <2>3, <2>5 DEF RowBeforeToken, OpenWhileUsable, SignIn, session_usable, timestamp
    <2>8. HeldWhileRunning'
      BY <2>3, <2>5 DEF HeldWhileRunning, SignIn, get_role
    <2> QED BY <2>2, <2>4, <2>6, <2>7, <2>8
  <1>8. ASSUME NEW r \in Req, Leave(r) PROVE IInv'
    <2>1. Finish(r) /\ UNCHANGED <<now, row, account, refresh, access>>
      BY <1>8 DEF Leave
    <2>2. TypeOK'
      BY <2>1, Finishes DEF TypeOK
    <2>3. /\ pc'[r] = "idle"
          /\ \A q \in Req \ {r} : /\ pc'[q] = pc[q] /\ read'[q] = read[q]
                                  /\ open'[q] = open[q] /\ held'[q] = held[q]
      BY <2>1, Finishes
    <2>4. SignInIsAlone'
      BY <2>1, <2>3 DEF SignInIsAlone, SignIn
    <2>5. RowBeforeToken' /\ OpenWhileUsable'
      BY <2>1, <2>3 DEF RowBeforeToken, OpenWhileUsable, SignIn, session_usable, timestamp
    <2>6. HeldWhileRunning' /\ SignedWell'
      BY <2>1, <2>3 DEF HeldWhileRunning, SignedWell, SignIn, get_role
    <2> QED BY <2>2, <2>4, <2>5, <2>6
  <1>9. ASSUME Logout PROVE IInv'
    BY <1>9
    DEF Logout, TypeOK, SignInIsAlone, RowBeforeToken, OpenWhileUsable,
        HeldWhileRunning, SignedWell, SignIn, session_usable
  <1>10. ASSUME ChangeRoles PROVE IInv'
    BY <1>10
    DEF ChangeRoles, TypeOK, SignInIsAlone, RowBeforeToken, OpenWhileUsable,
        HeldWhileRunning, SignedWell, SignIn, session_usable
  <1>11. ASSUME Tick PROVE IInv'
    <2>1. /\ now \in Nat /\ now' = now + 1 /\ now' \in Time
          /\ UNCHANGED <<row, account, refresh, access, pc, read, open, held>>
      BY <1>11, TokenLifeAssumption DEF Tick, TypeOK, Time
    <2>2. TypeOK' /\ SignInIsAlone' /\ HeldWhileRunning' /\ SignedWell'
      BY <2>1 DEF TypeOK, SignInIsAlone, HeldWhileRunning, SignedWell, get_role
    <2>3. RowBeforeToken'
      BY <2>1, TokenLifeAssumption DEF RowBeforeToken, TypeOK, Time, timestamp
    <2>4. OpenWhileUsable'
      BY <2>1 DEF OpenWhileUsable, TypeOK, session_usable
    <2> QED BY <2>2, <2>3, <2>4
  <1>12. ASSUME UNCHANGED vars PROVE IInv'
    BY <1>12
    DEF vars, TypeOK, SignInIsAlone, RowBeforeToken, OpenWhileUsable,
        HeldWhileRunning, SignedWell, session_usable
  <1> QED BY <1>1, <1>2, <1>3, <1>4, <1>5, <1>6, <1>7, <1>8, <1>9, <1>10, <1>11, <1>12
      DEF Next

\* The inductive invariant holds in every reachable state.
THEOREM Invariant == Spec => []IInv
  BY InitIInv, NextIInv, PTL DEF Spec

\* TypeOK, for every value of the constants.
THEOREM TypeCorrect == Spec => []TypeOK
  <1>1. IInv => TypeOK
    BY DEF IInv
  <1> QED BY <1>1, Invariant, PTL

\* AccessEndsWithSession: no access token was signed on behalf of a request that
\* arrived after its session had ended.
THEOREM AccessIsBounded == Spec => []AccessEndsWithSession
  <1>1. IInv => AccessEndsWithSession
    BY DEF IInv, SignedWell, AccessEndsWithSession
  <1> QED BY <1>1, Invariant, PTL

\* AccessEndsWithRole: nor with roles the user did not hold during that request.
THEOREM RolesAreBounded == Spec => []AccessEndsWithRole
  <1>1. IInv => AccessEndsWithRole
    BY DEF IInv, SignedWell, AccessEndsWithRole, api_outcome
  <1> QED BY <1>1, Invariant, PTL

\* RefreshEndsWithSession: whatever the lifetimes, the leeway and the length of a
\* second, the refresh token outlives its session.
THEOREM TokenOutlivesRow == Spec => []RefreshEndsWithSession
  <1>1. IInv => RefreshEndsWithSession
    <2> SUFFICES ASSUME IInv, refresh # NoToken, ~validation(refresh), now <= row.expires
                 PROVE  FALSE
      BY DEF RefreshEndsWithSession, IInv, TypeOK, Time
    <2>1. now \in Nat /\ row.expires \in Nat /\ refresh \in Nat /\ Leeway \in Nat
      BY TokenLifeAssumption DEF IInv, TypeOK, Time
    <2>2. timestamp(now) \in Nat /\ timestamp(row.expires) \in Nat
      BY <2>1, SecondsNat
    <2>3. timestamp(now) <= timestamp(row.expires)
      BY <2>1, SecondsMonotone
    <2>4. timestamp(row.expires) <= refresh
      BY DEF IInv, RowBeforeToken
    <2> QED BY <2>1, <2>2, <2>3, <2>4 DEF validation
  <1> QED BY <1>1, Invariant, PTL

-----------------------------------------------------------------------------
(* Durations: a setting of any number, for any two widths *)

\* What is cut to a width is a number that is no greater, and the same below it.
LEMMA CutIsNoGreater ==
  ASSUME NEW n \in Nat, NEW w \in Nat \ {0}
  PROVE  /\ n % w \in Nat
         /\ n % w <= n
         /\ n < w => n % w = n
  <1>1. n = w * (n \div w) + (n % w) /\ n \div w \in Nat /\ n % w \in 0 .. (w - 1)
    OBVIOUS
  <1>2. w * (n \div w) \in Nat
    BY <1>1
  <1>3. ASSUME n < w PROVE n % w = n
    BY <1>3
  <1> QED BY <1>1, <1>2, <1>3

\* A longer number of the same unit lasts longer.
LEMMA UnitsMonotone ==
  ASSUME NEW u \in DOMAIN Multiplier, NEW m \in Nat, NEW n \in Nat, m <= n
  PROVE  /\ Multiplier[u] * m \in Nat
         /\ Multiplier[u] * m <= Multiplier[u] * n
  BY DEF Multiplier, Minute, Hour, Day

LEMMA ReadableSettings ==
  ASSUME NEW text \in Setting \cup {[number |-> 1, unit |-> "y"]}, Readable(text)
  PROVE  text.number \in Nat /\ text.unit \in DOMAIN Multiplier
  <1>1. CASE text \in Setting
    <2>1. text.number \in Number \cup {None}
      BY <1>1 DEF Setting
    <2> QED BY <2>1, DurationsAssumption DEF Readable
  <1>2. CASE text = [number |-> 1, unit |-> "y"]
    <2>1. text.number = 1
      BY <1>2
    <2> QED BY <2>1 DEF Readable
  <1> QED BY <1>1, <1>2

LEMMA Parsed ==
  ASSUME NEW input \in Setting,
         NEW default_input \in {EmptySetting, [number |-> 1, unit |-> "y"]},
         NEW text, text = IF input = EmptySetting THEN default_input ELSE input,
         NEW d, d = parse_custom_duration(input, default_input)
  PROVE  /\ (d = Invalid) = ~Readable(text)
         /\ d # Invalid => /\ d \in Nat
                           /\ d <= Written(text)
                           /\ text.number < Width32 => d = Written(text)
  <1>1. text \in Setting \cup {[number |-> 1, unit |-> "y"]}
    BY DEF EmptySetting, Setting
  <1>2. CASE ~Readable(text)
    BY <1>2 DEF parse_custom_duration
  <1>3. CASE Readable(text)
    <2> DEFINE cut == text.number % Width32
    <2>1. text.number \in Nat /\ text.unit \in DOMAIN Multiplier
      BY <1>1, <1>3, ReadableSettings
    <2>2. cut \in Nat /\ cut <= text.number /\ (text.number < Width32 => cut = text.number)
      BY <2>1, CutIsNoGreater, DurationsAssumption
    <2>3. d = Multiplier[text.unit] * cut
      BY <1>3 DEF parse_custom_duration
    <2> HIDE DEF cut
    <2>4. d \in Nat /\ d <= Written(text)
      BY <2>1, <2>2, <2>3, UnitsMonotone DEF Written
    <2>5. text.number < Width32 => d = Written(text)
      BY <2>2, <2>3 DEF Written
    <2> QED BY <1>3, <2>4, <2>5 DEF Invalid
  <1> QED BY <1>2, <1>3

\* The parts that are written make up the lifetime they were taken from.
LEMMA PartsAddUp ==
  ASSUME NEW d \in Nat
  PROVE  LET p == go_duration_string(d)
             Value(part) == IF part = None THEN 0 ELSE part
         IN  /\ Hour * Value(p.h) + Minute * Value(p.m) + p.s = d
             /\ p.h # None => p.m \in 0 .. 59
  BY DEF go_duration_string, None, Hour, Minute

LEMMA SettingStays == DurationsSpec => [](setting \in Setting)
  <1>1. DurationsInit => setting \in Setting
    BY DEF DurationsInit
  <1>2. setting \in Setting /\ [UNCHANGED setting]_setting => (setting \in Setting)'
    OBVIOUS
  <1> QED BY <1>1, <1>2, PTL DEF DurationsSpec

\* parse_custom_duration takes a number below the width it cuts to as it is written.
\* Beyond that a lifetime is never longer than it says, and may come to nothing
\* (2^32 seconds do).  What is no number with a unit is refused, and nothing else.
THEOREM LifetimesAreAsWritten == DurationsSpec => []LastsAsWritten
  <1>1. setting \in Setting => LastsAsWritten
    BY Parsed DEF LastsAsWritten
  <1> QED BY <1>1, SettingStays, PTL

\* The tokenlife claim says the lifetime the tokens are signed with, for every
\* lifetime that can be configured.
THEOREM TokenLifeIsTold == DurationsSpec => []TokenLifeReadsBack
  <1>1. setting \in Setting => TokenLifeReadsBack
    <2>1. ASSUME setting \in Setting,
                 parse_custom_duration(setting, EmptySetting) # Invalid
          PROVE  parse_custom_duration(setting, EmptySetting) \in Nat
      BY <2>1, Parsed
    <2> QED BY <2>1, PartsAddUp DEF TokenLifeReadsBack
  <1> QED BY <1>1, SettingStays, PTL
=============================================================================
