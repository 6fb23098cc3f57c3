---------------------------- MODULE SignInProofs ----------------------------
(***************************************************************************)
(* SignIn for any number of tabs, users, forms, secrets and sessions.  The *)
(* invariant follows what the browser holds: the csrf cookie was drawn     *)
(* under the secret it is signed with, a form that is still fresh has its  *)
(* token, a request that created a session is for the user of its row, and *)
(* a page nobody disturbed has left its session in cookie and storage.     *)
(* What a script has read of the storage is as good as the storage, but    *)
(* for the sessions that are raced.                                        *)
(***************************************************************************)
EXTENDS SignIn, TLAPS

CookieIsDrawn == csrf # NoCookie => drawn[csrf.token] = csrf.by

FreshHasToken ==
  \A t \in Tab : fresh[t] => csrf # NoCookie /\ csrf.by = secret /\ form[t] = csrf.token

JobNamesRow ==
  \A t \in Tab :
    /\ pc[t] = "insert" => job[t].user \in User
    /\ job[t].sid # NoSid => job[t].user \in User /\ row[job[t].sid] = job[t].user
    /\ pc[t] \in {"page", "json", "script", "snapshot", "timer"} <=> job[t].sid # NoSid

CalmAgrees ==
  \A t \in Tab : calm[t] =>
    /\ pc[t] \in {"script", "snapshot", "timer"}
    /\ cookie = job[t].sid
    /\ pc[t] = "timer" => current = job[t].sid

\* What a script has read are sessions of their users, and until it writes, the
\* ones that pages have put there, unless they are raced.
HeldNamesRows ==
  \A t \in Tab, s \in Sid : held[t][s] # NoUser => row[s] = held[t][s]

HeldIsKept ==
  \A t \in Tab : pc[t] = "snapshot" =>
    \A s \in Sid \ raced : held[t][s] # NoUser <=> s \in put

Basic ==
  /\ TypeOK
  /\ CookieIsDrawn
  /\ FreshHasToken
  /\ JobNamesRow
  /\ BrowserNamesRows
  /\ CalmAgrees
  /\ SignInFromOwnForm
  /\ ForbiddenOnlyIfOutdated

IInv == Basic /\ HeldNamesRows /\ HeldIsKept /\ LostOnlyInRaces

-----------------------------------------------------------------------------

LEMMA NoJobTyped == NoJob \in Job /\ NoJob.sid = NoSid /\ NoJob.user = NoUser
  BY DEF NoJob, Job

LEMMA NobodyTyped == Nobody \in [Tab -> BOOLEAN] /\ \A t \in Tab : ~Nobody[t]
  BY DEF Nobody

LEMMA InitIInv == Init => IInv
  BY SignInAssumption, NoJobTyped, NobodyTyped
  DEF Init, IInv, Basic, TypeOK, CookieIsDrawn, FreshHasToken, JobNamesRow, BrowserNamesRows,
      CalmAgrees, HeldNamesRows, HeldIsKept, LostOnlyInRaces, SignInFromOwnForm,
      ForbiddenOnlyIfOutdated, Empty, Labels, Awaits, Answers

\* What the requests keep when one of them learns its user or its session.
LEMMA JobGetsUser ==
  ASSUME job \in [Tab -> Job], NEW t \in Tab, NEW u \in User,
         job' = [job EXCEPT ![t].user = u]
  PROVE  /\ job' \in [Tab -> Job]
         /\ job'[t].user = u /\ job'[t].sid = job[t].sid
         /\ job'[t].flow = job[t].flow /\ job'[t].token = job[t].token
         /\ \A q \in Tab \ {t} : job'[q] = job[q]
  <1> DEFINE j == [job[t] EXCEPT !.user = u]
  <1>1. job[t] \in Job
    OBVIOUS
  <1>2. /\ j \in Job
        /\ j.user = u /\ j.sid = job[t].sid
        /\ j.flow = job[t].flow /\ j.token = job[t].token
    BY <1>1 DEF Job
  <1>3. job' = [job EXCEPT ![t] = j]
    OBVIOUS
  <1> HIDE DEF j
  <1>4. job' \in [Tab -> Job] /\ job'[t] = j /\ \A q \in Tab \ {t} : job'[q] = job[q]
    BY <1>2, <1>3
  <1> QED BY <1>2, <1>4

LEMMA JobGetsSid ==
  ASSUME job \in [Tab -> Job], NEW t \in Tab, NEW s \in Sid,
         job' = [job EXCEPT ![t].sid = s]
  PROVE  /\ job' \in [Tab -> Job]
         /\ job'[t].sid = s /\ job'[t].user = job[t].user
         /\ job'[t].flow = job[t].flow /\ job'[t].token = job[t].token
         /\ \A q \in Tab \ {t} : job'[q] = job[q]
  <1> DEFINE j == [job[t] EXCEPT !.sid = s]
  <1>1. job[t] \in Job
    OBVIOUS
  <1>2. /\ j \in Job
        /\ j.sid = s /\ j.user = job[t].user
        /\ j.flow = job[t].flow /\ j.token = job[t].token
    BY <1>1 DEF Job
  <1>3. job' = [job EXCEPT ![t] = j]
    OBVIOUS
  <1> HIDE DEF j
  <1>4. job' \in [Tab -> Job] /\ job'[t] = j /\ \A q \in Tab \ {t} : job'[q] = job[q]
    BY <1>2, <1>3
  <1> QED BY <1>2, <1>4

\* The request of a form.
LEMMA JobIsPosted ==
  ASSUME job \in [Tab -> Job], NEW t \in Tab, NEW flow \in BOOLEAN, NEW token \in CsrfToken \cup {NoToken},
         job' = [job EXCEPT ![t] = [flow |-> flow, token |-> token, user |-> NoUser,
                                    sid |-> NoSid]]
  PROVE  /\ job' \in [Tab -> Job]
         /\ job'[t].user = NoUser /\ job'[t].sid = NoSid
         /\ job'[t].flow = flow /\ job'[t].token = token
         /\ \A q \in Tab \ {t} : job'[q] = job[q]
  <1> DEFINE j == [flow |-> flow, token |-> token, user |-> NoUser, sid |-> NoSid]
  <1>1. job[t] \in Job
    OBVIOUS
  <1>2. /\ j \in Job
        /\ j.user = NoUser /\ j.sid = NoSid
        /\ j.flow = flow /\ j.token = token
    BY <1>1 DEF Job
  <1>3. job' = [job EXCEPT ![t] = j]
    OBVIOUS
  <1> HIDE DEF j
  <1>4. job' \in [Tab -> Job] /\ job'[t] = j /\ \A q \in Tab \ {t} : job'[q] = job[q]
    BY <1>2, <1>3
  <1> QED BY <1>2, <1>4

LEMMA NextBasic == Basic /\ HeldNamesRows /\ [Next]_vars => Basic'
  <1> SUFFICES ASSUME Basic, HeldNamesRows, [Next]_vars PROVE Basic'
    OBVIOUS
  <1> USE SignInAssumption, NoJobTyped, NobodyTyped
      DEF Basic, TypeOK, CookieIsDrawn, FreshHasToken, JobNamesRow, BrowserNamesRows,
          CalmAgrees, SignInFromOwnForm,
          ForbiddenOnlyIfOutdated, Goto, Labels, Awaits,
          Answers, browser, ghosts
  <1>1. ASSUME NEW t \in Tab, ShowForm(t) PROVE Basic'
    BY <1>1 DEF ShowForm, Cookie
  <1>2. ASSUME NEW t \in Tab, ShowFormAgain(t) PROVE Basic'
    BY <1>2 DEF ShowFormAgain, Cookie
  <1>3. ASSUME NEW t \in Tab, ShowForeignForm(t) PROVE Basic'
    BY <1>3 DEF ShowForeignForm
  <1>4. ASSUME NEW t \in Tab, credentials_callback(t) PROVE Basic'
    <2>1. CASE Goto(t, "refused") /\ UNCHANGED <<job, secret, browser, row, form, ghosts>>
      BY <1>4, <2>1 DEF credentials_callback
    <2>2. CASE \E flow \in BOOLEAN, token \in {form[t], NoToken} :
                 /\ job' = [job EXCEPT ![t] = [flow |-> flow, token |-> token,
                                               user |-> NoUser, sid |-> NoSid]]
                 /\ Goto(t, IF MayGoOn(flow, token) THEN "authorize" ELSE "forbidden")
      <3>1. PICK flow \in BOOLEAN, token \in {form[t], NoToken} :
                 /\ job' = [job EXCEPT ![t] = [flow |-> flow, token |-> token,
                                               user |-> NoUser, sid |-> NoSid]]
                 /\ Goto(t, IF MayGoOn(flow, token) THEN "authorize" ELSE "forbidden")
        BY <2>2
      <3>2. token \in CsrfToken \cup {NoToken}
        OBVIOUS
      <3>3. /\ job' \in [Tab -> Job]
            /\ job'[t].user = NoUser /\ job'[t].sid = NoSid
            /\ job'[t].flow = flow /\ job'[t].token = token
            /\ \A q \in Tab \ {t} : job'[q] = job[q]
        <4>1. job \in [Tab -> Job]
          OBVIOUS
        <4> QED BY ONLY <3>1, <3>2, <4>1, JobIsPosted
      <3>4. /\ pc[t] = "form"
            /\ UNCHANGED <<secret, browser, row, form, ghosts>>
        BY <1>4 DEF credentials_callback
      <3>5. pc' \in [Tab -> Labels] /\ pc'[t] \in {"authorize", "forbidden"}
            /\ \A q \in Tab \ {t} : pc'[q] = pc[q]
        BY <3>1
      <3>6. TypeOK' /\ CookieIsDrawn' /\ FreshHasToken' /\ BrowserNamesRows' /\ CalmAgrees'
        BY <3>3, <3>4, <3>5
      <3>7. JobNamesRow'
        BY <3>3, <3>4, <3>5
      <3>8. pc'[t] = "authorize" <=> flow \/ check_csrf(token)
        BY <3>1 DEF MayGoOn
      <3>9. SignInFromOwnForm' /\ ForbiddenOnlyIfOutdated'
        <4>1. UNCHANGED <<secret, csrf, form, drawn, fresh>>
          BY <3>4
        <4>2. ~flow /\ pc'[t] = "authorize" => token # NoToken /\ drawn[token] = secret
          BY <3>8 DEF check_csrf, verify_csrf, Cookie
        <4>3. pc'[t] = "forbidden" => ~flow /\ (fresh[t] => token # form[t])
          BY <3>8 DEF check_csrf, verify_csrf
        <4>4. SignInFromOwnForm'
          <5>1. pc'[t] \in Awaits => pc'[t] = "authorize"
            BY <3>5
          <5> SUFFICES ASSUME NEW q \in Tab, pc'[q] \in Awaits, ~job'[q].flow
                       PROVE  job'[q].token # NoToken /\ drawn'[job'[q].token] = secret'
            OBVIOUS
          <5>2. CASE q = t
            BY <3>3, <4>1, <4>2, <5>1, <5>2
          <5>3. CASE q # t
            BY <3>3, <3>5, <4>1, <5>3
          <5> QED BY <5>2, <5>3
        <4>5. ForbiddenOnlyIfOutdated'
          BY <3>3, <3>5, <4>1, <4>3
        <4> QED BY <4>4, <4>5
      <3> QED BY <3>6, <3>7, <3>9
    <2>3. UNCHANGED <<secret, browser, row, form, ghosts>>
      BY <1>4 DEF credentials_callback
    <2>4. \/ Goto(t, "refused") /\ UNCHANGED job
          \/ \E flow \in BOOLEAN, token \in {form[t], NoToken} :
               /\ job' = [job EXCEPT ![t] = [flow |-> flow, token |-> token,
                                             user |-> NoUser, sid |-> NoSid]]
               /\ Goto(t, IF MayGoOn(flow, token) THEN "authorize" ELSE "forbidden")
      BY <1>4 DEF credentials_callback
    <2> QED BY <2>1, <2>2, <2>3, <2>4
  <1>5. ASSUME NEW t \in Tab, authorize(t) PROVE Basic'
    BY <1>5 DEF authorize
  <1>6. ASSUME NEW t \in Tab, resolve_profile_user(t) PROVE Basic'
    <2>1. CASE Goto(t, "refused") /\ UNCHANGED job
      BY <1>6, <2>1 DEF resolve_profile_user
    <2>2. CASE \E u \in User : job' = [job EXCEPT ![t].user = u] /\ Goto(t, "insert")
      <3>1. PICK u \in User : job' = [job EXCEPT ![t].user = u] /\ Goto(t, "insert")
        BY <2>2
      <3>2. /\ job' \in [Tab -> Job]
            /\ job'[t].user = u /\ job'[t].sid = job[t].sid
            /\ job'[t].flow = job[t].flow /\ job'[t].token = job[t].token
            /\ \A q \in Tab \ {t} : job'[q] = job[q]
        <4>1. job \in [Tab -> Job]
          OBVIOUS
        <4> QED BY ONLY <3>1, <4>1, JobGetsUser
      <3>3. /\ pc[t] = "resolve_user"
            /\ UNCHANGED <<secret, browser, row, form, ghosts>>
        BY <1>6 DEF resolve_profile_user
      <3>4. JobNamesRow'
        BY <3>1, <3>2, <3>3
      <3>5. TypeOK' /\ CookieIsDrawn' /\ FreshHasToken' /\ BrowserNamesRows' /\ CalmAgrees'
            /\ SignInFromOwnForm' /\ ForbiddenOnlyIfOutdated'
        BY <3>1, <3>2, <3>3
      <3> QED BY <3>4, <3>5
    <2> QED BY <1>6, <2>1, <2>2 DEF resolve_profile_user
  <1>7. ASSUME NEW t \in Tab, complete_sign_in(t) PROVE Basic'
    <2>1. /\ pc[t] = "insert" /\ job[t].user \in User /\ job[t].sid = NoSid
          /\ UNCHANGED <<secret, browser, form, ghosts>>
      BY <1>7 DEF complete_sign_in
    <2>2. CASE Goto(t, "error_page") /\ UNCHANGED <<row, job>>
      BY <2>1, <2>2
    <2>3. CASE \E s \in Sid : /\ row[s] = NoUser
                              /\ row' = [row EXCEPT ![s] = job[t].user]
                              /\ \/ /\ job' = [job EXCEPT ![t].sid = s]
                                    /\ Goto(t, IF job[t].flow THEN "json" ELSE "page")
                                 \/ Goto(t, "error_page") /\ UNCHANGED job
      <3>1. PICK s \in Sid : /\ row[s] = NoUser
                             /\ row' = [row EXCEPT ![s] = job[t].user]
                             /\ \/ /\ job' = [job EXCEPT ![t].sid = s]
                                   /\ Goto(t, IF job[t].flow THEN "json" ELSE "page")
                                \/ Goto(t, "error_page") /\ UNCHANGED job
        BY <2>3
      <3>2. /\ job' \in [Tab -> Job]
            /\ job'[t].sid \in {s, NoSid} /\ job'[t].user = job[t].user
            /\ job'[t].flow = job[t].flow /\ job'[t].token = job[t].token
            /\ \A q \in Tab \ {t} : job'[q] = job[q]
        BY <2>1, <3>1, JobGetsSid
      <3>3. /\ pc' \in [Tab -> Labels] /\ pc'[t] \in {"json", "page", "error_page"}
            /\ pc'[t] = "error_page" <=> job'[t].sid = NoSid
            /\ \A q \in Tab \ {t} : pc'[q] = pc[q]
        <4>1. CASE job' = [job EXCEPT ![t].sid = s]
                     /\ Goto(t, IF job[t].flow THEN "json" ELSE "page")
          <5>1. job'[t].sid = s
            BY <4>1, JobGetsSid
          <5> QED BY <4>1, <5>1
        <4>2. CASE Goto(t, "error_page") /\ UNCHANGED job
          BY <2>1, <4>2
        <4> QED BY <3>1, <4>1, <4>2
      <3>4. /\ row' \in [Sid -> User \cup {NoUser}] /\ row'[s] = job[t].user
            /\ \A q \in Sid \ {s} : row'[q] = row[q]
        BY <2>1, <3>1
      <3>5. JobNamesRow'
        BY <2>1, <3>1, <3>2, <3>3, <3>4
      <3>6. BrowserNamesRows'
        BY <2>1, <3>1, <3>4
      <3>7. TypeOK' /\ CookieIsDrawn' /\ FreshHasToken'
        BY <2>1, <3>2, <3>3, <3>4
      <3>9. CalmAgrees'
        <4>1. UNCHANGED <<cookie, current, calm>> /\ ~calm[t]
          BY <2>1
        <4> QED BY <3>2, <3>3, <4>1
      <3>8. SignInFromOwnForm' /\ ForbiddenOnlyIfOutdated'
        <4>1. pc'[t] \notin Awaits \cup {"forbidden"}
          BY <3>3
        <4>2. UNCHANGED <<secret, form, drawn, fresh>>
          BY <2>1
        <4>3. SignInFromOwnForm'
          BY <3>2, <3>3, <4>1, <4>2
        <4>4. ForbiddenOnlyIfOutdated'
          BY <3>2, <3>3, <4>1, <4>2
        <4> QED BY <4>3, <4>4
      <3> QED BY <3>5, <3>6, <3>7, <3>8, <3>9
    <2> QED BY <1>7, <2>2, <2>3 DEF complete_sign_in
  <1>8. ASSUME NEW t \in Tab, Receive(t) PROVE Basic'
    <2>1. /\ pc[t] \in Answers
          /\ cookie' = IF job[t].sid = NoSid THEN cookie ELSE job[t].sid
          /\ UNCHANGED <<secret, csrf, stored, current, held, row, drawn, put, raced>>
      BY <1>8 DEF Receive, set_session_id_cookie
    <2>2. /\ calm' \in [Tab -> BOOLEAN]
          /\ calm'[t] => pc[t] = "page"
          /\ \A q \in Tab \ {t} : calm'[q] => calm[q] /\ job[t].sid = NoSid
      BY <1>8 DEF Receive
    <2>3. /\ pc' \in [Tab -> Labels]
          /\ \A q \in Tab \ {t} : pc'[q] = pc[q]
          /\ IF pc[t] = "page" THEN pc'[t] = "script" ELSE pc'[t] \in {"blank", "form"}
      BY <1>8 DEF Receive
    <2>4. /\ job' \in [Tab -> Job]
          /\ job'[t] = IF pc[t] = "page" THEN job[t] ELSE NoJob
          /\ \A q \in Tab \ {t} : job'[q] = job[q]
      BY <1>8 DEF Receive, Clear
    <2>5. /\ form' \in [Tab -> CsrfToken \cup {NoToken}] /\ fresh' \in [Tab -> BOOLEAN]
          /\ \A q \in Tab \ {t} : form'[q] = form[q] /\ fresh'[q] = fresh[q]
          /\ fresh'[t] => fresh[t] /\ form'[t] = form[t]
      <3>1. CASE UNCHANGED <<form, fresh>>
        BY <3>1
      <3>2. CASE Clear(t)
        BY <3>2 DEF Clear
      <3>3. UNCHANGED <<form, fresh>> \/ Clear(t)
        BY <1>8 DEF Receive
      <3> QED BY <3>1, <3>2, <3>3
    <2>6. job[t].sid # NoSid => job[t].sid \in Sid
      BY DEF Job
    <2>7. TypeOK'
      BY <2>1, <2>2, <2>3, <2>4, <2>5, <2>6
    <2>8. CookieIsDrawn' /\ FreshHasToken'
      BY <2>1, <2>5
    <2>9. JobNamesRow'
      BY <2>1, <2>3, <2>4
    <2>10. BrowserNamesRows'
      BY <2>1
    <2>11. CalmAgrees'
      BY <2>1, <2>2, <2>3, <2>4
    <2>12. SignInFromOwnForm' /\ ForbiddenOnlyIfOutdated'
      <3>1. pc'[t] \notin Awaits \cup {"forbidden"}
        BY <2>3
      <3>2. SignInFromOwnForm'
        BY <2>1, <2>3, <2>4, <3>1
      <3>3. ForbiddenOnlyIfOutdated'
        BY <2>3, <2>4, <2>5, <3>1
      <3> QED BY <3>2, <3>3
    <2> QED BY <2>7, <2>8, <2>9, <2>10, <2>11, <2>12
  <1>9. ASSUME NEW t \in Tab, ReadStorage(t) PROVE Basic'
    <2>1. /\ held' \in [Tab -> [Sid -> User \cup {NoUser}]] /\ held'[t] = stored
          /\ \A q \in Tab \ {t} : held'[q] = held[q]
      BY <1>9 DEF ReadStorage
    <2>2. /\ pc[t] = "script" /\ pc' = [pc EXCEPT ![t] = "snapshot"]
          /\ UNCHANGED <<secret, csrf, cookie, stored, current, row, form, job, ghosts>>
      BY <1>9 DEF ReadStorage
    <2>3. TypeOK' /\ CookieIsDrawn' /\ FreshHasToken' /\ BrowserNamesRows'
      BY <2>1, <2>2
    <2>4. JobNamesRow' /\ CalmAgrees' /\ SignInFromOwnForm' /\ ForbiddenOnlyIfOutdated'
      BY <2>2
    <2> QED BY <2>3, <2>4
  <1>10. ASSUME NEW t \in Tab, WriteStorage(t) PROVE Basic'
    <2> DEFINE sid == job[t].sid
    <2>1. /\ pc[t] = "snapshot" /\ pc' = [pc EXCEPT ![t] = "timer"]
          /\ UNCHANGED <<secret, csrf, cookie, row, form, job, drawn, fresh>>
      BY <1>10 DEF WriteStorage
    <2>2. sid \in Sid /\ job[t].user \in User /\ row[sid] = job[t].user
      BY <2>1 DEF Job
    <2>3. /\ stored' \in [Sid -> User \cup {NoUser}] /\ stored'[sid] = job[t].user
          /\ \A s \in Sid \ {sid} : stored'[s] = held[t][s]
          /\ current' = sid
      BY <1>10, <2>2 DEF WriteStorage, persistSignIn
    <2>4. /\ held' \in [Tab -> [Sid -> User \cup {NoUser}]]
          /\ held'[t] = Empty
          /\ \A q \in Tab \ {t} : held'[q] = held[q]
      BY <1>10 DEF WriteStorage, Empty
    <2>5. put' \in SUBSET Sid /\ raced' \in SUBSET Sid
      BY <1>10, <2>2 DEF WriteStorage
    <2>6. /\ calm' \in [Tab -> BOOLEAN] /\ \A q \in Tab \ {t} : ~calm'[q]
          /\ calm'[t] => calm[t]
      BY <1>10 DEF WriteStorage
    <2> HIDE DEF sid
    <2>7. TypeOK' /\ CookieIsDrawn' /\ FreshHasToken'
      BY <2>1, <2>2, <2>3, <2>4, <2>5, <2>6
    <2>8. JobNamesRow' /\ SignInFromOwnForm' /\ ForbiddenOnlyIfOutdated'
      BY <2>1
    <2>9. BrowserNamesRows'
      <3>1. stored'[sid] # NoUser
        BY <2>2, <2>3
      <3>2. ASSUME NEW s \in Sid, stored'[s] # NoUser PROVE row[s] = stored'[s]
        BY <2>2, <2>3, <3>2 DEF HeldNamesRows
      <3> QED BY <2>1, <2>3, <3>1, <3>2
    <2>10. CalmAgrees'
      BY <2>1, <2>3, <2>6 DEF sid
    <2> QED BY <2>7, <2>8, <2>9, <2>10
  <1>11. ASSUME NEW t \in Tab, finishSignIn(t) PROVE Basic'
    BY <1>11 DEF finishSignIn, Clear
  <1>12. ASSUME NEW t \in Tab, Close(t) PROVE Basic'
    <2>1. held' \in [Tab -> [Sid -> User \cup {NoUser}]]
      BY <1>12 DEF Close, Empty
    <2>2. TypeOK' /\ CookieIsDrawn' /\ FreshHasToken' /\ JobNamesRow'
      BY <1>12, <2>1 DEF Close, Clear
    <2>3. BrowserNamesRows' /\ CalmAgrees' /\ SignInFromOwnForm' /\ ForbiddenOnlyIfOutdated'
      BY <1>12 DEF Close, Clear
    <2> QED BY <2>2, <2>3
  <1>13. CASE SwitchSession
    BY <1>13 DEF SwitchSession
  <1>14. CASE SignOut
    BY <1>14 DEF SignOut, Empty
  <1>15. CASE DropCsrf
    BY <1>15 DEF DropCsrf
  <1>16. CASE Restart
    BY <1>16 DEF Restart
  <1>17. CASE UNCHANGED vars
    BY <1>17 DEF vars
  <1> QED
    BY <1>1, <1>2, <1>3, <1>4, <1>5, <1>6, <1>7, <1>8, <1>9, <1>10, <1>11, <1>12,
       <1>13, <1>14, <1>15, <1>16, <1>17 DEF Next, Step

\* The storage, and what scripts have read of it, besides the sessions that race.
LEMMA NextStorage ==
  IInv /\ [Next]_vars => HeldIsKept' /\ LostOnlyInRaces'
  <1> SUFFICES ASSUME IInv, [Next]_vars PROVE HeldIsKept' /\ LostOnlyInRaces'
    OBVIOUS
  <1>1. TypeOK /\ JobNamesRow
    BY DEF IInv, Basic
  <1> USE DEF IInv, HeldIsKept, LostOnlyInRaces, Goto
  <1>2. ASSUME NEW t \in Tab, ReadStorage(t) PROVE HeldIsKept' /\ LostOnlyInRaces'
    <2>1. /\ held'[t] = stored /\ \A q \in Tab \ {t} : held'[q] = held[q]
          /\ \A q \in Tab \ {t} : pc'[q] = pc[q]
          /\ UNCHANGED <<stored, put, raced>>
      BY <1>1, <1>2 DEF ReadStorage, TypeOK, ghosts
    <2> QED BY <2>1
  <1>3. ASSUME NEW t \in Tab, WriteStorage(t) PROVE HeldIsKept' /\ LostOnlyInRaces'
    <2> DEFINE sid == job[t].sid
    <2>1. /\ pc[t] = "snapshot" /\ pc'[t] = "timer"
          /\ \A q \in Tab \ {t} : pc'[q] = pc[q] /\ held'[q] = held[q]
      BY <1>1, <1>3 DEF WriteStorage, TypeOK
    <2>2. sid \in Sid /\ job[t].user \in User
      BY <1>1, <2>1 DEF JobNamesRow, TypeOK, Job
    <2>3. /\ stored'[sid] = job[t].user
          /\ \A s \in Sid \ {sid} : stored'[s] = held[t][s]
      BY <1>1, <1>3, <2>2 DEF WriteStorage, persistSignIn, TypeOK
    <2>4. /\ put' = put \cup {sid} /\ raced \subseteq raced'
          /\ \A q \in Tab \ {t} : pc[q] = "snapshot" => sid \in raced'
      BY <1>3 DEF WriteStorage, Reading
    <2> HIDE DEF sid
    <2>5. HeldIsKept'
      <3> SUFFICES ASSUME NEW q \in Tab, pc'[q] = "snapshot", NEW s \in Sid \ raced'
                   PROVE  held'[q][s] # NoUser <=> s \in put'
        OBVIOUS
      <3>1. q # t /\ pc[q] = "snapshot" /\ s # sid /\ s \notin raced
        BY <2>1, <2>4
      <3> QED BY <2>1, <2>4, <3>1
    <2>6. LostOnlyInRaces'
      BY <2>1, <2>2, <2>3, <2>4, SignInAssumption
    <2> QED BY <2>5, <2>6
  <1>4. CASE SignOut
    <2>1. /\ \A s \in Sid : stored'[s] = NoUser
          /\ put' = {} /\ UNCHANGED <<held, pc>>
          /\ raced' = IF \E t \in Tab : pc[t] = "snapshot" THEN raced \cup put ELSE {}
      BY <1>4 DEF SignOut, Empty
    <2> QED BY <2>1
  <1>5. ASSUME UNCHANGED <<stored, put, raced>>,
               \A t \in Tab : pc'[t] = "snapshot" => pc[t] = "snapshot" /\ held'[t] = held[t]
        PROVE  HeldIsKept' /\ LostOnlyInRaces'
    BY <1>5
  <1>6. ASSUME NEW t \in Tab,
               \/ ShowForm(t) \/ ShowFormAgain(t) \/ ShowForeignForm(t)
               \/ credentials_callback(t) \/ authorize(t) \/ resolve_profile_user(t)
               \/ complete_sign_in(t) \/ finishSignIn(t)
        PROVE  HeldIsKept' /\ LostOnlyInRaces'
    <2>1. /\ UNCHANGED <<stored, put, raced, held>>
          /\ \E label \in Labels \ {"snapshot"} : pc' = [pc EXCEPT ![t] = label]
      BY <1>6 DEF ShowForm, ShowFormAgain, ShowForeignForm, credentials_callback, authorize,
                  resolve_profile_user, complete_sign_in, finishSignIn, browser, ghosts,
                  Labels, Awaits, Answers
    <2> QED BY <1>1, <1>5, <2>1 DEF TypeOK
  <1>7. ASSUME NEW t \in Tab, Receive(t) \/ Close(t) PROVE HeldIsKept' /\ LostOnlyInRaces'
    <2>1. /\ UNCHANGED <<stored, put, raced>>
          /\ \A q \in Tab \ {t} : held'[q] = held[q]
          /\ \E label \in Labels \ {"snapshot"} : pc' = [pc EXCEPT ![t] = label]
      BY <1>1, <1>7 DEF Receive, Close, TypeOK, Labels, Awaits, Answers
    <2> QED BY <1>1, <1>5, <2>1 DEF TypeOK
  <1>8. CASE SwitchSession \/ DropCsrf \/ Restart \/ UNCHANGED vars
    <2>1. UNCHANGED <<stored, put, raced, held>>
      BY <1>8 DEF SwitchSession, DropCsrf, Restart, vars, browser, ghosts
    <2>2. \A t \in Tab : pc'[t] = "snapshot" => pc[t] = "snapshot"
      BY <1>8 DEF SwitchSession, DropCsrf, Restart, vars
    <2> QED BY <1>5, <2>1, <2>2
  <1> QED BY <1>2, <1>3, <1>4, <1>6, <1>7, <1>8 DEF Next, Step

LEMMA NextHeld == IInv /\ [Next]_vars => HeldNamesRows'
  <1> SUFFICES ASSUME IInv, [Next]_vars PROVE HeldNamesRows'
    OBVIOUS
  <1>1. TypeOK /\ BrowserNamesRows /\ HeldNamesRows
    BY DEF IInv, Basic
  <1>2. \A s \in Sid : row[s] # NoUser => row'[s] = row[s]
    <2>1. ASSUME NEW t \in Tab, complete_sign_in(t)
          PROVE  \A s \in Sid : row[s] # NoUser => row'[s] = row[s]
      BY <1>1, <2>1 DEF complete_sign_in, TypeOK
    <2>2. CASE row' = row
      BY <2>2
    <2> QED
      BY <2>1, <2>2 DEF Next, Step, vars, ShowForm, ShowFormAgain, ShowForeignForm,
         credentials_callback, authorize, resolve_profile_user, Receive, ReadStorage,
         WriteStorage, finishSignIn, Close, SwitchSession, SignOut, DropCsrf, Restart
  <1>3. ASSUME NEW t \in Tab, ReadStorage(t) \/ WriteStorage(t) \/ Close(t)
        PROVE  /\ \A q \in Tab \ {t} : held'[q] = held[q]
               /\ \A s \in Sid : held'[t][s] \in {NoUser, stored[s]}
    BY <1>1, <1>3 DEF ReadStorage, WriteStorage, Close, Empty, TypeOK
  <1>4. \A t \in Tab, s \in Sid : held'[t][s] \in {NoUser, stored[s], held[t][s]}
    <2>1. CASE held' = held
      BY <2>1
    <2>2. ASSUME NEW t \in Tab, ReadStorage(t) \/ WriteStorage(t) \/ Close(t)
          PROVE  \A q \in Tab, s \in Sid : held'[q][s] \in {NoUser, stored[s], held[q][s]}
      BY <1>3, <2>2
    <2>3. held' = held \/ \E t \in Tab : ReadStorage(t) \/ WriteStorage(t) \/ Close(t)
      BY DEF Next, Step, vars, ShowForm, ShowFormAgain, ShowForeignForm,
         credentials_callback, authorize, resolve_profile_user, complete_sign_in, Receive,
         finishSignIn, SwitchSession, SignOut, DropCsrf, Restart, browser
    <2> QED BY <2>1, <2>2, <2>3
  <1>5. ASSUME NEW t \in Tab, NEW s \in Sid, held'[t][s] # NoUser
        PROVE  row'[s] = held'[t][s]
    BY <1>1, <1>2, <1>4, <1>5 DEF BrowserNamesRows, HeldNamesRows
  <1> QED BY <1>5 DEF HeldNamesRows

LEMMA NextIInv == IInv /\ [Next]_vars => IInv'
  BY NextBasic, NextHeld, NextStorage DEF IInv

LEMMA SpecIInv == Spec => []IInv
  <1>1. Init => IInv
    BY InitIInv
  <1>2. IInv /\ [Next]_vars => IInv'
    BY NextIInv
  <1> QED BY <1>1, <1>2, PTL DEF Spec

-----------------------------------------------------------------------------

\* Every tab, cookie and stored session keeps its type: no answer writes a
\* cookie that is not the id of a session.
THEOREM SignInTyped == Spec => []TypeOK
  <1>1. IInv => TypeOK
    BY DEF IInv, Basic
  <1> QED BY <1>1, SpecIInv, PTL

\* However forms, tabs and restarts interleave, check_csrf lets a cookie sign-in
\* go on for a form of this browser only, drawn under the secret of now.
THEOREM SignInIsOwnForm == Spec => []SignInFromOwnForm
  <1>1. IInv => SignInFromOwnForm
    BY DEF IInv, Basic
  <1> QED BY <1>1, SpecIInv, PTL

\* credentials_callback answers 403 to no form whose cookie is still there.
THEOREM ForbiddenIsOutdated == Spec => []ForbiddenOnlyIfOutdated
  <1>1. IInv => ForbiddenOnlyIfOutdated
    BY DEF IInv, Basic
  <1> QED BY <1>1, SpecIInv, PTL

\* What complete_sign_in leaves in a browser names sessions that exist.
THEOREM BrowserNamesExistingRows == Spec => []BrowserNamesRows
  <1>1. IInv => BrowserNamesRows
    BY DEF IInv, Basic
  <1> QED BY <1>1, SpecIInv, PTL

\* A page nobody disturbed leaves cookie and storage at the session it signed in.
THEOREM CookieIsStorage == Spec => []CookieAgreesWithStorage
  <1>1. IInv => CookieAgreesWithStorage
    BY DEF IInv, Basic, CalmAgrees, CookieAgreesWithStorage
  <1> QED BY <1>1, SpecIInv, PTL

\* Whatever the windows do, the storage that persistSignIn writes back has the
\* sessions of the pages, save those of windows that were at it at the same time.
THEOREM StorageKeepsSessions == Spec => []LostOnlyInRaces
  <1>1. IInv => LostOnlyInRaces
    BY DEF IInv
  <1> QED BY <1>1, SpecIInv, PTL
=============================================================================
