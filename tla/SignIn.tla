------------------------------- MODULE SignIn -------------------------------
(***************************************************************************)
(* A credentials sign-in, from the form to what it leaves in the browser.  *)
(*                                                                         *)
(* The application shows a form with a csrf token and sets the cookie that *)
(* goes with it; authrust checks the two against each other when the form  *)
(* comes back, asks the application who this is, creates a session and     *)
(* answers with a cookie and a page whose script writes the session into   *)
(* the browser's local storage.  The tabs of a browser share the two       *)
(* cookies and the storage, each of them can be at any point of a sign-in, *)
(* and the server may be restarted with another secret.  Nothing locks the *)
(* storage: between a script's reading and its writing there may be those  *)
(* of another window.                                                      *)
(***************************************************************************)
EXTENDS Naturals

CONSTANTS
  Tab,          \* tabs and popups of one browser, each with one form at a time
  User,         \* users of the application
  CsrfToken,    \* random tokens of forms, each drawn once
  Secret,       \* values of jwt_secret, one at a time
  Sid,          \* session ids
  NoUser, NoToken, NoSid, NoCookie, Undrawn

Cookie == [token : CsrfToken, by : Secret]   \* token|hmac(token, secret)

ASSUME SignInAssumption ==
  /\ NoUser \notin User /\ NoToken \notin CsrfToken /\ NoSid \notin Sid
  /\ NoCookie \notin Cookie /\ Undrawn \notin Secret

VARIABLES
  secret,   \* the jwt_secret of the running server
  drawn,    \* [CsrfToken -> the secret it was drawn under] (ghost)
  csrf,     \* the csrf cookie of the browser
  cookie,   \* its session cookie
  stored,   \* [Sid -> User] the sessions of its local storage, with their users
  current,  \* current_session of the storage
  held,     \* [Tab -> [Sid -> User]] the sessions the tab's script has read there
  row,      \* [Sid -> User] the sessions table: the owner
  pc,       \* [Tab -> where its sign-in is]
  form,     \* [Tab -> the token in the form it shows]
  job,      \* [Tab -> the request it sent, and what has become of it]
  fresh,    \* [Tab -> the cookie is still the one its form was shown with] (ghost)
  calm,     \* [Tab -> nobody has touched the browser's session since its answer] (ghost)
  put,      \* the sessions that pages have written since the last sign-out (ghost)
  raced     \* those written, or signed out of, while a page was between reading
            \* and writing (ghost)

browser == <<csrf, cookie, stored, current, held>>
ghosts  == <<drawn, fresh, calm, put, raced>>
vars    == <<secret, browser, row, pc, form, job, ghosts>>

Awaits  == {"authorize", "resolve_user", "insert"}
Answers == {"refused", "forbidden", "error_page", "json", "page"}
Labels  == Awaits \cup Answers \cup {"blank", "form", "script", "snapshot", "timer"}

Job == [flow  : BOOLEAN,                      \* wants_tokens
        token : CsrfToken \cup {NoToken},     \* csrfToken of the body
        user  : User \cup {NoUser},           \* the user resolved
        sid   : Sid \cup {NoSid}]             \* the session created

NoJob == [flow |-> FALSE, token |-> NoToken, user |-> NoUser, sid |-> NoSid]

TypeOK ==
  /\ secret  \in Secret
  /\ drawn   \in [CsrfToken -> Secret \cup {Undrawn}]
  /\ csrf    \in Cookie \cup {NoCookie}
  /\ cookie  \in Sid \cup {NoSid}
  /\ stored  \in [Sid -> User \cup {NoUser}]
  /\ current \in Sid \cup {NoSid}
  /\ held    \in [Tab -> [Sid -> User \cup {NoUser}]]
  /\ row     \in [Sid -> User \cup {NoUser}]
  /\ pc      \in [Tab -> Labels]
  /\ form    \in [Tab -> CsrfToken \cup {NoToken}]
  /\ job     \in [Tab -> Job]
  /\ fresh   \in [Tab -> BOOLEAN]
  /\ calm    \in [Tab -> BOOLEAN]
  /\ put     \in SUBSET Sid
  /\ raced   \in SUBSET Sid

Empty  == [s \in Sid |-> NoUser]
Nobody == [t \in Tab |-> FALSE]

Init ==
  /\ secret  \in Secret
  /\ drawn   = [x \in CsrfToken |-> Undrawn]
  /\ csrf    = NoCookie
  /\ cookie  = NoSid
  /\ stored  = Empty
  /\ current = NoSid
  /\ held    = [t \in Tab |-> Empty]
  /\ row     = Empty
  /\ pc      = [t \in Tab |-> "blank"]
  /\ form    = [t \in Tab |-> NoToken]
  /\ job     = [t \in Tab |-> NoJob]
  /\ fresh   = Nobody
  /\ calm    = Nobody
  /\ put     = {}
  /\ raced   = {}

-----------------------------------------------------------------------------
(* Helpers *)

Goto(t, label) == pc' = [pc EXCEPT ![t] = label]

\* verify_csrf: the cookie is signed with the secret, and the body has its token.
verify_csrf(token) == csrf # NoCookie /\ csrf.by = secret /\ token = csrf.token

\* (mutant) the signature is not recomputed
check_csrf_unsigned(token) == csrf # NoCookie /\ token = csrf.token

\* check_csrf: the cookie the browser sends, and the token of the body.
check_csrf(token) == verify_csrf(token)

\* (mutant) the double submit is asked of every client
MayGoOn_no_exemption(flow, token) == check_csrf(token)

\* wants_tokens and check_csrf: who goes on to the provider's authorize function.
MayGoOn(flow, token) == flow \/ check_csrf(token)

-----------------------------------------------------------------------------
(* The application's sign-in page *)

\* It is shown with a new token and the cookie for it.
ShowForm(t) ==
  /\ pc[t] = "blank"
  /\ \E x \in CsrfToken :
       /\ drawn[x] = Undrawn
       /\ drawn' = [drawn EXCEPT ![x] = secret]
       /\ csrf'  = [token |-> x, by |-> secret]
       /\ form'  = [form  EXCEPT ![t] = x]
  /\ fresh' = [Nobody EXCEPT ![t] = TRUE]
  /\ Goto(t, "form")
  /\ UNCHANGED <<secret, cookie, stored, current, held, row, job, calm, put, raced>>

\* Or with the token of the cookie the browser has.
ShowFormAgain(t) ==
  /\ pc[t] = "blank"
  /\ csrf # NoCookie /\ csrf.by = secret
  /\ form'  = [form  EXCEPT ![t] = csrf.token]
  /\ fresh' = [fresh EXCEPT ![t] = TRUE]
  /\ Goto(t, "form")
  /\ UNCHANGED <<secret, browser, row, job, drawn, calm, put, raced>>

\* Or the form comes without a token, or from a page that cannot have the token
\* of this browser: NoToken stands for every string that is none of its tokens.
ShowForeignForm(t) ==
  /\ pc[t] = "blank"
  /\ Goto(t, "form")
  /\ UNCHANGED <<secret, browser, row, form, job, ghosts>>

-----------------------------------------------------------------------------
(* Authorization::route and credentials_callback *)

\* The routes, and what is behind them for the provider in the path: sign_in and
\* callback hand a credentials provider to the same handler.
Route == {"providers", "sign_in", "callback", "other"}

route(path, provider) ==
  IF path \in {"sign_in", "callback"} /\ provider = "credentials"
  THEN "credentials_callback" ELSE "refused"

\* Everything up to the call of authorize; a body that breaks off is an empty one.
credentials_callback(t) ==
  /\ pc[t] = "form"
  /\ \E handler \in {route(path, provider) : path \in Route, provider \in {"credentials", "unknown"}},
        post \in BOOLEAN :
       \/ /\ handler = "refused" \/ ~post
          /\ Goto(t, "refused")
          /\ UNCHANGED job
       \/ /\ handler = "credentials_callback" /\ post
          /\ \E flow \in BOOLEAN, token \in {form[t], NoToken} :
               /\ job' = [job EXCEPT ![t] = [flow |-> flow, token |-> token, user |-> NoUser,
                                             sid |-> NoSid]]
               /\ Goto(t, IF MayGoOn(flow, token) THEN "authorize" ELSE "forbidden")
  /\ UNCHANGED <<secret, browser, row, form, ghosts>>

\* The provider's authorize function: a user of the provider, or a refusal
\* (Ok(None), Err).
authorize(t) ==
  /\ pc[t] = "authorize"
  /\ \E label \in {"resolve_user", "refused"} : Goto(t, label)
  /\ UNCHANGED <<secret, browser, row, form, job, ghosts>>

\* resolve_profile_user: the user the application links to it now; no user, an
\* empty one and an error are refusals.
resolve_profile_user(t) ==
  /\ pc[t] = "resolve_user"
  /\ \/ \E u \in User :
          /\ job' = [job EXCEPT ![t].user = u]
          /\ Goto(t, "insert")
     \/ Goto(t, "refused") /\ UNCHANGED job
  /\ UNCHANGED <<secret, browser, row, form, ghosts>>

\* complete_sign_in: a session is created and answered with, as JSON or as the
\* callback page; when the tokens cannot be signed its row stays behind.
complete_sign_in(t) ==
  /\ pc[t] = "insert"
  /\ \/ \E s \in Sid :
          /\ row[s] = NoUser
          /\ row' = [row EXCEPT ![s] = job[t].user]
          /\ \/ /\ job' = [job EXCEPT ![t].sid = s]
                /\ Goto(t, IF job[t].flow THEN "json" ELSE "page")
             \/ Goto(t, "error_page") /\ UNCHANGED job
     \/ Goto(t, "error_page") /\ UNCHANGED <<row, job>>
  /\ UNCHANGED <<secret, browser, form, ghosts>>

-----------------------------------------------------------------------------
(* The answer in the browser *)

\* The tab leaves its form and its request behind.
Clear(t) ==
  /\ form'  = [form  EXCEPT ![t] = NoToken]
  /\ job'   = [job   EXCEPT ![t] = NoJob]
  /\ fresh' = [fresh EXCEPT ![t] = FALSE]

\* (mutant) the session cookie is left to the page's script
set_session_id_cookie_never(t) == cookie

\* The cookie that comes with the answer: with tokens as well as with the page.
set_session_id_cookie(t) == IF job[t].sid = NoSid THEN cookie ELSE job[t].sid

\* The head of the answer arrives, and its cookie with it.  A refusal leaves the
\* form as it is; tokens and a page that is not a sign-in leave a blank tab.
Receive(t) ==
  LET page == pc[t] = "page" IN
  /\ pc[t] \in Answers
  /\ cookie' = set_session_id_cookie(t)
  /\ calm' = [u \in Tab |-> IF u = t THEN page ELSE calm[u] /\ job[t].sid = NoSid]
  /\ \/ /\ page /\ Goto(t, "script")
        /\ UNCHANGED <<form, job, fresh>>
     \/ /\ pc[t] \in {"json", "error_page"} /\ Goto(t, "blank") /\ Clear(t)
     \/ /\ pc[t] \in {"refused", "forbidden"} /\ Goto(t, "form")
        /\ job' = [job EXCEPT ![t] = NoJob]
        /\ UNCHANGED <<form, fresh>>
  /\ UNCHANGED <<secret, csrf, stored, current, held, row, drawn, put, raced>>

\* Some window but that of t has read the storage and has not written it yet.
Reading(t) == \E u \in Tab \ {t} : pc[u] = "snapshot"

\* The script of the page runs: persistSignIn reads the storage.
ReadStorage(t) ==
  /\ pc[t] = "script"
  /\ held' = [held EXCEPT ![t] = stored]
  /\ Goto(t, "snapshot")
  /\ UNCHANGED <<secret, csrf, cookie, stored, current, row, form, job, ghosts>>

\* (mutant) the storage is started anew
persistSignIn_fresh(existing, s, u) == [Empty EXCEPT ![s] = u]

\* persistSignIn: what it has read, without an entry of that id, and the new one.
persistSignIn(existing, s, u) == [existing EXCEPT ![s] = u]

\* And writes it back, whatever is there by now; the new session becomes the
\* current one, and the timer is set.
WriteStorage(t) ==
  /\ pc[t] = "snapshot"
  /\ stored'  = persistSignIn(held[t], job[t].sid, job[t].user)
  /\ current' = job[t].sid
  /\ held'    = [held EXCEPT ![t] = Empty]
  /\ calm'    = [u \in Tab |-> u = t /\ calm[t]]
  /\ put'     = put \cup {job[t].sid}
  /\ raced'   = IF Reading(t) THEN raced \cup {job[t].sid} ELSE raced
  /\ Goto(t, "timer")
  /\ UNCHANGED <<secret, csrf, cookie, row, form, job, drawn, fresh>>

\* finishSignIn: 900 ms later the page closes or goes elsewhere.
finishSignIn(t) ==
  /\ pc[t] = "timer"
  /\ calm' = [calm EXCEPT ![t] = FALSE]
  /\ Goto(t, "blank")
  /\ Clear(t)
  /\ UNCHANGED <<secret, browser, row, drawn, put, raced>>

\* The tab is closed, the answer is lost, or the future is dropped on the way.
Close(t) ==
  /\ pc[t] # "blank"
  /\ calm' = [calm EXCEPT ![t] = FALSE]
  /\ held' = [held EXCEPT ![t] = Empty]
  /\ Goto(t, "blank")
  /\ Clear(t)
  /\ UNCHANGED <<secret, csrf, cookie, stored, current, row, drawn, put, raced>>

-----------------------------------------------------------------------------
(* The application, the browser and the operator *)

\* The application's frontend switches to another session it has stored.
SwitchSession ==
  /\ \E s \in Sid \ {current} : stored[s] # NoUser /\ current' = s
  /\ calm' = Nobody
  /\ UNCHANGED <<secret, csrf, cookie, stored, held, row, pc, form, job, drawn, fresh,
                 put, raced>>

\* It signs out of all of them, with or without the cookie.
SignOut ==
  /\ stored'  = Empty
  /\ current' = NoSid
  /\ cookie'  \in {cookie, NoSid}
  /\ calm' = Nobody
  /\ put'   = {}
  /\ raced' = IF \E t \in Tab : pc[t] = "snapshot" THEN raced \cup put ELSE {}
  /\ UNCHANGED <<secret, csrf, held, row, pc, form, job, drawn, fresh>>

\* The csrf cookie is one for the browser's session, which ends.
DropCsrf ==
  /\ csrf' = NoCookie
  /\ fresh' = Nobody
  /\ UNCHANGED <<secret, cookie, stored, current, held, row, pc, form, job, drawn, calm,
                 put, raced>>

\* The server comes back with another secret: what it was doing is lost.
Restart ==
  /\ secret' \in Secret \ {secret}
  /\ pc'  = [t \in Tab |-> IF pc[t] \in Awaits THEN "form" ELSE pc[t]]
  /\ job' = [t \in Tab |-> IF pc[t] \in Awaits THEN NoJob ELSE job[t]]
  /\ fresh' = Nobody
  /\ UNCHANGED <<browser, row, form, drawn, calm, put, raced>>

-----------------------------------------------------------------------------

Step(t) ==
  authorize(t) \/ resolve_profile_user(t) \/ complete_sign_in(t) \/ Receive(t)
    \/ ReadStorage(t) \/ WriteStorage(t) \/ finishSignIn(t)

Next ==
  \/ \E t \in Tab : \/ ShowForm(t) \/ ShowFormAgain(t) \/ ShowForeignForm(t)
                    \/ credentials_callback(t) \/ Step(t) \/ Close(t)
  \/ SwitchSession \/ SignOut \/ DropCsrf \/ Restart

Spec == Init /\ [][Next]_vars

-----------------------------------------------------------------------------
(* Properties *)

\* A sign-in that asks for a cookie only gets as far as the application's
\* callbacks for a form this server, with the secret it has, showed the browser.
SignInFromOwnForm ==
  \A t \in Tab : pc[t] \in Awaits /\ ~job[t].flow =>
    job[t].token # NoToken /\ drawn[job[t].token] = secret

\* A form is only refused with 403 when the cookie it was shown with is gone: a
\* newer form of another tab, a restart of browser or server, or a lost body.
ForbiddenOnlyIfOutdated ==
  \A t \in Tab : pc[t] = "forbidden" =>
    ~job[t].flow /\ (fresh[t] => job[t].token # form[t])

\* The cookie and the storage name sessions that exist, the storage with the
\* user they belong to.
BrowserNamesRows ==
  /\ cookie # NoSid => row[cookie] # NoUser
  /\ current # NoSid => stored[current] # NoUser
  /\ \A s \in Sid : stored[s] # NoUser => row[s] = stored[s]

\* When the page goes on to the application, its cookie and its storage are at
\* the same session, the one it signed in, unless another tab or the application
\* has touched them since the answer.
CookieAgreesWithStorage ==
  \A t \in Tab : pc[t] = "timer" /\ calm[t] =>
    cookie = job[t].sid /\ current = job[t].sid

\* The storage has exactly the sessions that pages have put there since the last
\* sign-out, except those that were written, or signed out of, while another
\* window's script was between its reading and its writing: that one may drop the
\* first and bring back the second.  Nothing else loses a session, and one that
\* was safe when it was written stays so, whatever races come later.
LostOnlyInRaces ==
  \A s \in Sid \ raced : stored[s] # NoUser <=> s \in put
=============================================================================
