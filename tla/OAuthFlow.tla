------------------------------ MODULE OAuthFlow ------------------------------
(***************************************************************************)
(* OAuth sign-ins and provider connects through browsers.                  *)
(*                                                                         *)
(* The server keeps nothing of a flow between start_oauth and              *)
(* oauth_callback: what the callback needs travels in cookies of the       *)
(* browser, one set of names shared by every flow, every tab and every     *)
(* provider.  Here flows are started in several tabs, responses that write *)
(* those cookies arrive late or never, callbacks carry the cookies of the  *)
(* moment they were sent, are repeated (reload, back button) or opened in  *)
(* another browser, and each call to the provider may fail on the way.     *)
(*                                                                         *)
(* A random value (state, PKCE verifier, nonce) drawn by start_oauth is    *)
(* represented by the flow it was drawn for.                               *)
(***************************************************************************)
EXTENDS Naturals

CONSTANTS
  Flow,        \* sign-in requests to an OAuth provider, each sent once
  Callback,    \* requests to the callback endpoint, each sent once
  Browser,     \* cookie jars
  Provider,    \* the configured OAuth providers
  Checks,      \* [Provider -> SUBSET Check] the checks each one asks for
  Purpose,     \* what sign-in requests ask for, out of AnyPurpose
  Resource,    \* resource ids that parse as uuids
  BadResource, \* a resource id that does not
  NoResource,  \* no resource id
  Target,      \* redirect targets other than the origin
  NoTarget,    \* the origin itself
  NoFlow,      \* no random value, no session
  NoAsk,       \* a sign-in request not sent yet
  NoReq        \* a callback request not sent yet

Check      == {"state", "pkce", "nonce"}
Named      == Resource \cup {NoResource}
Drawn      == Flow \cup {NoFlow}
AnyPurpose == [intent   : BOOLEAN,                    \* connect=1
               resource : Named \cup {BadResource},   \* resource_id
               token    : BOOLEAN]                    \* wants_tokens

\* What the cookies of a browser hold; signed is the flow whose sign-in the
\* session cookie comes from.
Jar == [state : Drawn, verifier : Drawn, nonce : Drawn,
        intent : BOOLEAN, resource : Named, token : BOOLEAN,
        target : Target \cup {NoTarget}, signed : Drawn]

Ask     == [browser : Browser, provider : Provider, purpose : Purpose,
            target : Target \cup {NoTarget}]
Request == [flow : Flow, browser : Browser, cookies : Jar]

ASSUME OAuthFlowAssumption ==
  /\ Checks \in [Provider -> SUBSET Check]
  /\ \A p \in Purpose : p \in AnyPurpose /\ (~p.intent => p.resource = NoResource)
  /\ NoFlow \notin Flow
  /\ NoTarget \notin Target
  /\ BadResource \notin Named
  /\ NoAsk \notin Ask
  /\ NoReq \notin Request

VARIABLES
  jar,     \* [Browser -> Jar]
  phase,   \* [Flow -> Phase]         where a sign-in request got to
  ask,     \* [Flow -> Ask or NoAsk]  what it asked for
  code,    \* [Flow -> Code]          the authorization code, at the provider
  pc,      \* [Callback -> next await or end of the request]
  req,     \* [Callback -> Request or NoReq]  what it carried
  did,     \* [Callback -> what it left behind]
  result,  \* [Callback -> what its response says]
  stirred  \* SUBSET Flow: flows whose cookies something else touched (ghost)

vars == <<jar, phase, ask, code, pc, req, did, result, stirred>>

Phase   == {"new", "sent", "answered", "refused", "at_provider", "allowed",
            "denied", "ended"}
Code    == {"none", "fresh", "spent"}
Awaits  == {"discover", "exchange", "userinfo", "resolve", "connect", "authorize"}
Success == {"signed_in", "connected"}

\* A jar with no flow cookie but, maybe, the intent.
Only(intent, signed) ==
  [state |-> NoFlow, verifier |-> NoFlow, nonce |-> NoFlow, intent |-> intent,
   resource |-> NoResource, token |-> FALSE, target |-> NoTarget, signed |-> signed]

TypeOK ==
  /\ jar     \in [Browser -> Jar]
  /\ phase   \in [Flow -> Phase]
  /\ ask     \in [Flow -> Ask \cup {NoAsk}]
  /\ code    \in [Flow -> Code]
  /\ pc      \in [Callback -> Awaits \cup {"new", "inner", "reply", "ended"}]
  /\ req     \in [Callback -> Request \cup {NoReq}]
  /\ did     \in [Callback -> {"nothing", "session", "link"}]
  /\ result  \in [Callback -> Success \cup {"none", "mismatch", "error", "failed"}]
  /\ stirred \in SUBSET Flow

Init ==
  /\ jar     = [b \in Browser |-> Only(FALSE, NoFlow)]
  /\ phase   = [f \in Flow |-> "new"]
  /\ ask     = [f \in Flow |-> NoAsk]
  /\ code    = [f \in Flow |-> "none"]
  /\ pc      = [c \in Callback |-> "new"]
  /\ req     = [c \in Callback |-> NoReq]
  /\ did     = [c \in Callback |-> "nothing"]
  /\ result  = [c \in Callback |-> "none"]
  /\ stirred = {}

-----------------------------------------------------------------------------
(* Cookies *)

Uses(f, check) == check \in Checks[ask[f].provider]

Drawing(f, check) == IF Uses(f, check) THEN f ELSE NoFlow

\* The jar after the six cookies of expire_oauth_flow_cookies are expired: the
\* flow intent is none of them.
expire_oauth_flow_cookies(j) == Only(j.intent, j.signed)

\* (mutant) a plain start leaves the flow intent in the jar
start_cookies_keep_intent(f, j) ==
  [state    |-> Drawing(f, "state"),
   verifier |-> Drawing(f, "pkce"),
   nonce    |-> Drawing(f, "nonce"),
   intent   |-> ask[f].purpose.intent \/ j.intent,
   resource |-> ask[f].purpose.resource,
   token    |-> ask[f].purpose.token,
   target   |-> ask[f].target,
   signed   |-> j.signed]

\* (mutant) the previous flow's cookies are expired after the new ones are set
start_cookies_expired_last(f, j) ==
  [expire_oauth_flow_cookies(j) EXCEPT !.intent = ask[f].purpose.intent]

\* The jar after the response of start_oauth: every flow cookie is either set to
\* the flow's value or expired.
start_cookies(f, j) ==
  [state    |-> Drawing(f, "state"),
   verifier |-> Drawing(f, "pkce"),
   nonce    |-> Drawing(f, "nonce"),
   intent   |-> ask[f].purpose.intent,
   resource |-> ask[f].purpose.resource,
   token    |-> ask[f].purpose.token,
   target   |-> ask[f].target,
   signed   |-> j.signed]

\* A response for flow f, or for none of the flows, or time, reaches the jar of b.
Stir(b, f) ==
  stirred' = (stirred \ {f}) \cup
             {g \in Flow \ {f} : ask[g] # NoAsk /\ ask[g].browser = b}

-----------------------------------------------------------------------------
(* Starting a flow *)

\* The browser sends the sign-in request; callback_target falls back to the
\* callback-url cookie when the request names no target.
SendSignIn(f) ==
  /\ phase[f] = "new"
  /\ phase' = [phase EXCEPT ![f] = "sent"]
  /\ \E b \in Browser, p \in Provider, w \in Purpose, t \in Target \cup {NoTarget} :
       ask' = [ask EXCEPT ![f] = [browser |-> b, provider |-> p, purpose |-> w,
                                  target |-> IF t = NoTarget THEN jar[b].target ELSE t]]
  /\ UNCHANGED <<jar, code, pc, req, did, result, stirred>>

\* start_oauth: discovery may fail before any cookie is written, a bad resource
\* id is noticed after the flow intent was set.
start_oauth(f) ==
  /\ phase[f] = "sent"
  /\ \/ phase' = [phase EXCEPT ![f] = "ended"]
     \/ phase' = [phase EXCEPT ![f] = IF ask[f].purpose.resource = BadResource
                                      THEN "refused" ELSE "answered"]
  /\ UNCHANGED <<jar, ask, code, pc, req, did, result, stirred>>

\* The response reaches the browser: a redirect to the provider,
StartDelivered(f) ==
  /\ phase[f] = "answered"
  /\ phase' = [phase EXCEPT ![f] = "at_provider"]
  /\ LET b == ask[f].browser
     IN  jar' = [jar EXCEPT ![b] = start_cookies(f, jar[b])] /\ Stir(b, f)
  /\ UNCHANGED <<ask, code, pc, req, did, result>>

\* or an error, whose cookies count all the same.
StartRefused(f) ==
  /\ phase[f] = "refused"
  /\ phase' = [phase EXCEPT ![f] = "ended"]
  /\ LET b == ask[f].browser
     IN  jar' = [jar EXCEPT ![b] = Only(TRUE, jar[b].signed)] /\ Stir(b, f)
  /\ UNCHANGED <<ask, code, pc, req, did, result>>

\* The tab is closed before the response arrives.
StartLost(f) ==
  /\ phase[f] \in {"answered", "refused"}
  /\ phase' = [phase EXCEPT ![f] = "ended"]
  /\ UNCHANGED <<jar, ask, code, pc, req, did, result, stirred>>

\* The user consents at the provider, or declines.
Consent(f) ==
  /\ phase[f] = "at_provider"
  /\ \/ phase' = [phase EXCEPT ![f] = "allowed"] /\ code' = [code EXCEPT ![f] = "fresh"]
     \/ phase' = [phase EXCEPT ![f] = "denied"] /\ UNCHANGED code
  /\ UNCHANGED <<jar, ask, pc, req, did, result, stirred>>

-----------------------------------------------------------------------------
(* The callback *)

\* A browser, not always the one that started the flow, follows the provider's
\* redirect, for the first time or again.
SendCallback(c, f) ==
  /\ pc[c] = "new"
  /\ phase[f] \in {"allowed", "denied"}
  /\ pc' = [pc EXCEPT ![c] = "inner"]
  /\ \E b \in Browser :
       req' = [req EXCEPT ![c] = [flow |-> f, browser |-> b, cookies |-> jar[b]]]
  /\ UNCHANGED <<jar, phase, ask, code, did, result, stirred>>

Await(c, label) == pc' = [pc EXCEPT ![c] = label] /\ UNCHANGED result

Answer(c, says) ==
  pc' = [pc EXCEPT ![c] = "reply"] /\ result' = [result EXCEPT ![c] = says]

\* Up to the first await: the provider's error, then the state check.
oauth_callback_inner(c) ==
  /\ pc[c] = "inner"
  /\ LET f == req[c].flow
     IN  IF phase[f] = "denied" THEN Answer(c, "error")
         ELSE IF Uses(f, "state") /\ req[c].cookies.state # f
              THEN Answer(c, "mismatch")
              ELSE Await(c, "discover")
  /\ UNCHANGED <<jar, phase, ask, code, req, did, stirred>>

discover(c) ==
  /\ pc[c] = "discover"
  /\ Await(c, "exchange") \/ Answer(c, "error")
  /\ UNCHANGED <<jar, phase, ask, code, req, did, stirred>>

\* (mutant) a token endpoint's refusal is not noticed
exchange_code_unread_status(c) ==
  /\ pc[c] = "exchange"
  /\ LET f == req[c].flow
     IN  code' = [code EXCEPT ![f] = "spent"]
  /\ Await(c, "userinfo") \/ Answer(c, "error")
  /\ UNCHANGED <<jar, phase, ask, req, did, stirred>>

\* The provider takes a code once, and only with the verifier of the challenge
\* it was shown; its answer may be lost after the code is spent.
exchange_code(c) ==
  /\ pc[c] = "exchange"
  /\ LET f == req[c].flow
     IN  \/ /\ code[f] = "fresh"
            /\ code' = [code EXCEPT ![f] = "spent"]
            /\ \/ /\ Uses(f, "pkce") => req[c].cookies.verifier = f
                  /\ Await(c, "userinfo")
               \/ Answer(c, "error")
         \/ Answer(c, "error") /\ UNCHANGED code
  /\ UNCHANGED <<jar, phase, ask, req, did, stirred>>

\* fetch_user_info and the provider's profile function.
fetch_user_info(c) ==
  /\ pc[c] = "userinfo"
  /\ Await(c, "resolve") \/ Answer(c, "error")
  /\ UNCHANGED <<jar, phase, ask, code, req, did, stirred>>

\* The application resolves the user; then consume_flow_intent decides between a
\* connect and a sign-in.  A connect without a resource id calls nobody.
resolve_user(c) ==
  /\ pc[c] = "resolve"
  /\ LET j == req[c].cookies
     IN  \/ Answer(c, "error")
         \/ ~j.intent /\ Await(c, "authorize")
         \/ j.intent /\ j.resource # NoResource /\ Await(c, "connect")
         \/ j.intent /\ j.resource = NoResource /\ Answer(c, "connected")
  /\ UNCHANGED <<jar, phase, ask, code, req, did, stirred>>

\* on_provider_connect may have stored the account although it reports an error.
complete_provider_connect(c) ==
  /\ pc[c] = "connect"
  /\ \/ did' = [did EXCEPT ![c] = "link"] /\ Answer(c, "connected")
     \/ did' = [did EXCEPT ![c] = "link"] /\ Answer(c, "failed")
     \/ UNCHANGED did /\ Answer(c, "failed")
  /\ UNCHANGED <<jar, phase, ask, code, req, stirred>>

\* authorize may have inserted the session row although it reports an error.
complete_sign_in(c) ==
  /\ pc[c] = "authorize"
  /\ \/ did' = [did EXCEPT ![c] = "session"] /\ Answer(c, "signed_in")
     \/ did' = [did EXCEPT ![c] = "session"] /\ Answer(c, "failed")
     \/ UNCHANGED did /\ Answer(c, "failed")
  /\ UNCHANGED <<jar, phase, ask, code, req, stirred>>

\* The client goes away and the future is dropped at an await, the call it was
\* waiting for done or not; or the response has nobody to go to.
CallbackLost(c) ==
  /\ pc[c] \in Awaits \cup {"reply"}
  /\ pc' = [pc EXCEPT ![c] = "ended"]
  /\ \/ UNCHANGED did
     \/ pc[c] = "connect" /\ did' = [did EXCEPT ![c] = "link"]
     \/ pc[c] = "authorize" /\ did' = [did EXCEPT ![c] = "session"]
  /\ UNCHANGED <<jar, phase, ask, code, req, result, stirred>>

\* The jar after the response of oauth_callback: the six cookies are expired
\* whatever happened.  consume_flow_intent, which expires the seventh, is only
\* reached after resolve_user: an earlier error leaves it in the jar.
callback_cookies(c, j) ==
  IF result[c] \in {"mismatch", "error"} THEN expire_oauth_flow_cookies(j)
  ELSE Only(FALSE, IF result[c] = "signed_in" THEN req[c].flow ELSE j.signed)

CallbackDelivered(c) ==
  /\ pc[c] = "reply"
  /\ pc' = [pc EXCEPT ![c] = "ended"]
  /\ LET b == req[c].browser
     IN  jar' = [jar EXCEPT ![b] = callback_cookies(c, jar[b])] /\ Stir(b, NoFlow)
  /\ UNCHANGED <<phase, ask, code, req, did, result>>

\* Fifteen minutes pass: every flow cookie but callback-url has that max_age,
\* and all of those in a jar were set by the same response.
MaxAge(b) ==
  /\ jar' = [jar EXCEPT ![b] = [Only(FALSE, jar[b].signed)
                                  EXCEPT !.target = jar[b].target]]
  /\ jar' # jar
  /\ Stir(b, NoFlow)
  /\ UNCHANGED <<phase, ask, code, pc, req, did, result>>

-----------------------------------------------------------------------------

Start(f) ==
  \/ SendSignIn(f) \/ start_oauth(f) \/ StartDelivered(f) \/ StartRefused(f)
  \/ StartLost(f) \/ Consent(f)

Handle(c) ==
  \/ oauth_callback_inner(c) \/ discover(c) \/ exchange_code(c) \/ fetch_user_info(c)
  \/ resolve_user(c) \/ complete_provider_connect(c) \/ complete_sign_in(c)

Next ==
  \/ \E f \in Flow : Start(f) \/ \E c \in Callback : SendCallback(c, f)
  \/ \E c \in Callback : Handle(c) \/ CallbackDelivered(c) \/ CallbackLost(c)
  \/ \E b \in Browser : MaxAge(b)

Spec == Init /\ [][Next]_vars

-----------------------------------------------------------------------------
(* Properties *)

Completed(c) == did[c] # "nothing" \/ result[c] \in Success

Guarded(f) == Uses(f, "state") \/ Uses(f, "pkce")

\* Whatever other flows, of this or of another provider, shared the jar in the
\* meantime, a flow is completed as what it was started as: in its own browser,
\* as a connect of its own resource or as a sign-in.
CompletedAsStarted ==
  \A c \in Callback :
    LET f == req[c].flow IN
    Completed(c) /\ Guarded(f) =>
      /\ req[c].browser = ask[f].browser
      /\ did[c] = "session" \/ result[c] = "signed_in" => ~ask[f].purpose.intent
      /\ did[c] = "link" \/ result[c] = "connected" =>
           ask[f].purpose.intent /\ req[c].cookies.resource = ask[f].purpose.resource

\* However often the callback is reloaded, re-sent or opened twice, a flow gets
\* one session or one connect out of it.
CompletedOnce ==
  \A c, d \in Callback :
    c # d /\ Completed(c) /\ Completed(d) => req[c].flow # req[d].flow

\* A callback in the browser that started the flow is told "State mismatch" only
\* when another response, or the cookies' age, got in between.
MismatchOnlyIfStirred ==
  \A c \in Callback :
    result[c] = "mismatch" =>
      req[c].browser # ask[req[c].flow].browser \/ req[c].flow \in stirred

\* What action_auth.rs:214 says of the token flow: tokens instead of a session
\* cookie.
TokensInsteadOfCookie ==
  \A b \in Browser : jar[b].signed # NoFlow => ~ask[jar[b].signed].purpose.token

\* What README.md:22 says of the checks: a flow that asks for the nonce check is
\* completed with the nonce it drew.
NonceChecked ==
  \A c \in Callback :
    Completed(c) /\ Uses(req[c].flow, "nonce") => req[c].cookies.nonce = req[c].flow
=============================================================================
