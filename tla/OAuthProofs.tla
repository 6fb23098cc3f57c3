----------------------------- MODULE OAuthProofs -----------------------------
(***************************************************************************)
(* Proofs about OAuthFlow for every number of flows, callbacks, browsers   *)
(* and providers and for every choice of checks.                           *)
(*                                                                         *)
(* The heart of the invariant is Tied: a jar, or the copy of one that a    *)
(* callback carries, never mixes the cookies of two flows.  Whoever's      *)
(* state or verifier is in it, the intent and the resource in it are the   *)
(* same flow's.  start_oauth keeps that by writing or expiring every flow  *)
(* cookie at once, oauth_callback by expiring state and verifier together  *)
(* with the rest.                                                          *)
(***************************************************************************)
EXTENDS FlowsRefine, TLAPS

\* The cookies j of browser b hold nothing of one flow beside another's.
Tied(b, j) ==
  \A f \in Flow :
    j.state = f \/ j.verifier = f =>
      /\ ask[f] \in Ask
      /\ ask[f].browser = b
      /\ j.intent = ask[f].purpose.intent
      /\ j.resource = ask[f].purpose.resource

Started == {"at_provider", "allowed", "denied"}
Holding == {"userinfo", "resolve", "connect", "authorize"}

\* A flow has asked once it is sent; a bad resource id goes no further; there is
\* no code before the user consents.
PhaseInv ==
  \A f \in Flow :
    /\ IF phase[f] = "new" THEN ask[f] = NoAsk ELSE ask[f] \in Ask
    /\ phase[f] \in Started \cup {"answered"} => ask[f].purpose.resource \in Named
    /\ phase[f] # "allowed" => code[f] = "none"

JarInv == \A b \in Browser : Tied(b, jar[b])

\* The state cookie of a started flow is there unless something touched the jar.
FreshInv ==
  \A f \in Flow :
    phase[f] \in Started /\ Uses(f, "state") /\ f \notin stirred =>
      jar[ask[f].browser].state = f

\* What a callback carries was in one jar at one moment.
ReqInv(c) ==
  /\ pc[c] = "new" => req[c] = NoReq
  /\ pc[c] # "new" => /\ req[c] \in Request
                      /\ phase[req[c].flow] \in {"allowed", "denied"}
  /\ req[c] # NoReq =>
       /\ Tied(req[c].browser, req[c].cookies)
       /\ \/ Uses(req[c].flow, "state") => req[c].cookies.state = req[c].flow
          \/ req[c].browser # ask[req[c].flow].browser
          \/ req[c].flow \in stirred

\* Past a check, the check has passed; past a decision, it was the intent's.
Holds(c) == pc[c] \in Holding \/ Completed(c)

WalkInv(c) ==
  /\ pc[c] \in Awaits \cup {"new", "inner"} => did[c] = "nothing" /\ result[c] = "none"
  /\ (pc[c] \in Awaits \/ Holds(c)) /\ Uses(req[c].flow, "state") =>
       req[c].cookies.state = req[c].flow
  /\ Holds(c) =>
       /\ req[c] \in Request
       /\ (Uses(req[c].flow, "pkce") => req[c].cookies.verifier = req[c].flow)
       /\ code[req[c].flow] = "spent"
  /\ pc[c] = "connect" \/ did[c] = "link" \/ result[c] = "connected" =>
       req[c].cookies.intent
  /\ pc[c] = "authorize" \/ did[c] = "session" \/ result[c] = "signed_in" =>
       ~req[c].cookies.intent

\* One callback at a time gets past the exchange of a code.
OnceInv ==
  \A c, d \in Callback : c # d /\ Holds(c) /\ Holds(d) => req[c].flow # req[d].flow

IInv ==
  /\ TypeOK
  /\ PhaseInv
  /\ JarInv
  /\ FreshInv
  /\ \A c \in Callback : ReqInv(c) /\ WalkInv(c)
  /\ OnceInv
  /\ MismatchOnlyIfStirred

-----------------------------------------------------------------------------
(* What a step leaves alone *)

\* Callbacks do not notice a step that keeps what the flows asked for, forgets
\* no spent code and no stirred flow of theirs, and at most ends answered ones.
LEMMA CallbacksKept ==
  ASSUME IInv, UNCHANGED <<req, did, result>>,
         \A c \in Callback : pc'[c] = pc[c] \/ (pc[c] = "reply" /\ pc'[c] = "ended"),
         \A f \in Flow : ask[f] \in Ask => ask'[f] = ask[f],
         \A f \in Flow : code[f] = "spent" => code'[f] = "spent",
         \A f \in Flow : phase[f] \in {"allowed", "denied"} =>
           phase'[f] = phase[f] /\ (f \in stirred => f \in stirred')
  PROVE  /\ \A c \in Callback : ReqInv(c)' /\ WalkInv(c)'
         /\ OnceInv'
         /\ MismatchOnlyIfStirred'
<1>1. ASSUME NEW b, NEW j, Tied(b, j) PROVE Tied(b, j)'
  BY <1>1 DEF Tied
<1>2. ASSUME NEW c \in Callback, req[c] \in Request
      PROVE  /\ req[c].flow \in Flow
             /\ ask[req[c].flow] \in Ask /\ ask'[req[c].flow] = ask[req[c].flow]
             /\ req[c].flow \in stirred => req[c].flow \in stirred'
             /\ phase'[req[c].flow] \in {"allowed", "denied"}
  <2>1. req[c] # NoReq /\ pc[c] # "new"
    BY <1>2, OAuthFlowAssumption DEF IInv, ReqInv
  <2>2. req[c].flow \in Flow /\ phase[req[c].flow] \in {"allowed", "denied"}
    BY <1>2, <2>1 DEF IInv, ReqInv, Request
  <2>3. QED
    BY <2>2 DEF IInv, PhaseInv
<1>3. ASSUME NEW c \in Callback PROVE req[c] \in Request \/ req[c] = NoReq
  BY DEF IInv, TypeOK
<1>4. ASSUME NEW c \in Callback PROVE Holds(c)' <=> Holds(c)
  BY DEF Holds, Completed, Holding
<1>5. ASSUME NEW c \in Callback PROVE ReqInv(c)'
  BY <1>1, <1>2, <1>3 DEF IInv, ReqInv, Uses
<1>6. ASSUME NEW c \in Callback PROVE WalkInv(c)'
  <2>1. req[c] = NoReq => ~Holds(c) /\ pc[c] \notin Awaits
    BY OAuthFlowAssumption DEF IInv, ReqInv, WalkInv, Holds, Completed, Awaits
  <2>2. QED
    BY <1>2, <1>3, <1>4, <2>1 DEF IInv, WalkInv, Uses, Awaits
<1>7. OnceInv'
  BY <1>4 DEF IInv, OnceInv
<1>8. MismatchOnlyIfStirred'
  <2>1. ASSUME NEW c \in Callback, result[c] = "mismatch" PROVE req[c] \in Request
    <3>1. pc[c] # "new"
      BY <2>1 DEF IInv, WalkInv
    <3>2. QED
      BY <3>1 DEF IInv, ReqInv
  <2>2. QED
    BY <1>2, <2>1 DEF IInv, MismatchOnlyIfStirred
<1>9. QED
  BY <1>5, <1>6, <1>7, <1>8

\* A step of flow f that writes no cookie and starts no flow.
LEMMA FlowStep ==
  ASSUME IInv, NEW f \in Flow, NEW l \in Phase,
         UNCHANGED <<jar, pc, req, did, result, stirred>>,
         phase' = [phase EXCEPT ![f] = l],
         phase[f] \notin {"allowed", "denied"},
         ask' = ask \/ (phase[f] = "new" /\ \E a \in Ask : ask' = [ask EXCEPT ![f] = a]),
         code' = code \/ (l = "allowed" /\ code' = [code EXCEPT ![f] = "fresh"]),
         l # "new", phase[f] = "new" => ask'[f] \in Ask,
         l \in Started => phase[f] \in Started,
         l = "answered" => ask'[f].purpose.resource \in Named,
         ask[f] \in Ask => ask' = ask
  PROVE  IInv'
<1>1. \A g \in Flow : ask[g] \in Ask => ask'[g] = ask[g]
  BY DEF IInv, TypeOK
<1>2. /\ \A g \in Flow : g # f => code'[g] = code[g]
      /\ code[f] # "spent" /\ (l # "allowed" => code' = code)
  BY DEF IInv, TypeOK, PhaseInv
<1>3. \A g \in Flow : g # f => phase'[g] = phase[g] /\ ask'[g] = ask[g]
  BY DEF IInv, TypeOK
<1>4. phase'[f] = l
  BY DEF IInv, TypeOK
<1>5. TypeOK'
  <2>1. ask' \in [Flow -> Ask \cup {NoAsk}]
    BY DEF IInv, TypeOK
  <2>2. code' \in [Flow -> Code]
    BY DEF IInv, TypeOK, Code
  <2>3. phase' \in [Flow -> Phase]
    BY DEF IInv, TypeOK
  <2>4. QED
    BY <2>1, <2>2, <2>3 DEF IInv, TypeOK
<1>6. PhaseInv'
  BY <1>1, <1>2, <1>3, <1>4 DEF IInv, PhaseInv, Started
<1>7. JarInv'
  BY <1>1 DEF IInv, JarInv, Tied
<1>8. FreshInv'
  <2>1. \A g \in Flow : phase[g] \in Started => ask'[g] = ask[g]
    BY <1>1 DEF IInv, PhaseInv, Started
  <2>2. QED
    BY <1>3, <1>4, <2>1 DEF IInv, FreshInv, Uses, Started
<1>9. QED
  BY <1>1, <1>2, <1>3, <1>5, <1>6, <1>7, <1>8, CallbacksKept DEF IInv

\* A response, the answer to flow g or to no flow, or time, writes the jar of b.
LEMMA JarStep ==
  ASSUME IInv, NEW b \in Browser, NEW j \in Jar, NEW g \in Flow \cup {NoFlow},
         jar' = [jar EXCEPT ![b] = j], Stir(b, g), Tied(b, j),
         UNCHANGED <<ask, code, req, did, result>>,
         phase' \in [Flow -> Phase],
         pc' \in [Callback -> Awaits \cup {"new", "inner", "reply", "ended"}],
         \A c \in Callback : pc'[c] = pc[c] \/ (pc[c] = "reply" /\ pc'[c] = "ended"),
         \A f \in Flow : f # g => phase'[f] = phase[f],
         g \in Flow =>
           /\ phase[g] \in {"answered", "refused"}
           /\ phase'[g] \notin {"new", "answered"}
           /\ phase'[g] \in Started => /\ phase[g] = "answered"
                                       /\ ask[g].browser = b
                                       /\ Uses(g, "state") => j.state = g
  PROVE  IInv'
<1>1. stirred' = (stirred \ {g}) \cup {f \in Flow \ {g} : ask[f] # NoAsk /\ ask[f].browser = b}
  BY DEF Stir
<1>2. TypeOK'
  <2>1. jar' \in [Browser -> Jar]
    BY DEF IInv, TypeOK
  <2>2. stirred' \in SUBSET Flow
    BY <1>1 DEF IInv, TypeOK
  <2>3. QED
    BY <2>1, <2>2 DEF IInv, TypeOK
<1>3. PhaseInv'
  <2>1. ASSUME NEW f \in Flow, f = g
        PROVE  /\ IF phase'[f] = "new" THEN ask'[f] = NoAsk ELSE ask'[f] \in Ask
               /\ phase'[f] \in Started \cup {"answered"} => ask'[f].purpose.resource \in Named
               /\ code[f] = "none"
    BY <2>1 DEF IInv, PhaseInv
  <2>2. QED
    BY <2>1 DEF IInv, PhaseInv
<1>4. ASSUME NEW d, NEW k, Tied(d, k) PROVE Tied(d, k)'
  BY <1>4 DEF Tied
<1>5. JarInv'
  <2>1. ASSUME NEW d \in Browser PROVE jar'[d] = IF d = b THEN j ELSE jar[d]
    BY DEF IInv, TypeOK
  <2>2. ASSUME NEW d \in Browser PROVE Tied(d, jar'[d])
    BY <2>1 DEF IInv, JarInv
  <2>3. QED
    BY <2>2 DEF JarInv, Tied
<1>6. FreshInv'
  <2> SUFFICES ASSUME NEW f \in Flow, phase'[f] \in Started, Uses(f, "state"), f \notin stirred'
               PROVE  jar'[ask[f].browser].state = f
    BY DEF FreshInv, Uses
  <2>1. CASE f = g
    BY <2>1 DEF IInv, TypeOK
  <2>2. CASE f # g
    <3>1. phase[f] \in Started /\ ask[f] \in Ask
      BY <2>2 DEF IInv, PhaseInv, Started
    <3>2. ask[f].browser # b /\ ask[f].browser \in Browser /\ f \notin stirred
      BY <1>1, <2>2, <3>1, OAuthFlowAssumption DEF Ask
    <3>3. QED
      BY <3>1, <3>2 DEF IInv, FreshInv, TypeOK
  <2>3. QED
    BY <2>1, <2>2
<1>7. \A f \in Flow : phase[f] \in {"allowed", "denied"} =>
        phase'[f] = phase[f] /\ (f \in stirred => f \in stirred')
  BY <1>1
<1>8. QED
  BY <1>2, <1>3, <1>5, <1>6, <1>7, CallbacksKept DEF IInv

-----------------------------------------------------------------------------
(* Steps of a callback *)

\* A step of the handler of callback c, from one await to the next or to the end.
LEMMA HandlerStep ==
  ASSUME IInv, NEW c \in Callback, pc[c] # "new",
         UNCHANGED <<jar, phase, ask, req, stirred>>,
         TypeOK',
         \A d \in Callback \ {c} :
           pc'[d] = pc[d] /\ did'[d] = did[d] /\ result'[d] = result[d],
         pc'[c] # "new",
         \A f \in Flow : code[f] = "spent" => code'[f] = "spent",
         \A f \in Flow : code[f] = "none" => code'[f] = "none",
         WalkInv(c)',
         Holds(c)' => Holds(c) \/ code[req[c].flow] # "spent",
         result'[c] = "mismatch" =>
           req[c].browser # ask[req[c].flow].browser \/ req[c].flow \in stirred
  PROVE  IInv'
<1>1. ASSUME NEW d \in Callback PROVE ReqInv(d)'
  <2>1. ReqInv(d)
    BY DEF IInv
  <2>2. Tied(req[d].browser, req[d].cookies) => Tied(req[d].browser, req[d].cookies)'
    BY DEF Tied
  <2>3. pc'[d] = "new" <=> pc[d] = "new"
    BY DEF IInv
  <2>4. QED
    BY <2>1, <2>2, <2>3 DEF ReqInv, Uses
<1>2. ASSUME NEW d \in Callback, d # c PROVE Holds(d)' <=> Holds(d)
  BY <1>2 DEF Holds, Completed
<1>3. ASSUME NEW d \in Callback, d # c PROVE WalkInv(d)'
  <2>1. WalkInv(d)
    BY DEF IInv
  <2>2. Holds(d) => req[d].flow \in Flow
    BY <2>1 DEF WalkInv, Request
  <2>3. QED
    BY <1>2, <1>3, <2>1, <2>2 DEF WalkInv, Uses
<1>4. OnceInv'
  <2>1. ASSUME NEW d \in Callback, d # c, Holds(c)', Holds(d)
        PROVE  req[c].flow # req[d].flow
    <3>1. code[req[d].flow] = "spent"
      BY <2>1 DEF IInv, WalkInv
    <3>2. QED
      BY <2>1, <3>1 DEF IInv, OnceInv
  <2>2. QED
    BY <1>2, <2>1 DEF IInv, OnceInv
<1>5. MismatchOnlyIfStirred'
  BY DEF IInv, MismatchOnlyIfStirred
<1>6. PhaseInv' /\ FreshInv'
  BY DEF IInv, PhaseInv, FreshInv, Uses
<1>7. JarInv'
  BY DEF IInv, JarInv, Tied
<1>8. QED
  BY <1>1, <1>3, <1>4, <1>5, <1>6, <1>7 DEF IInv

\* A callback leaves with a copy of a jar.
LEMMA SendStep ==
  ASSUME IInv, NEW c \in Callback, NEW f \in Flow, SendCallback(c, f)
  PROVE  IInv'
<1>1. PICK b \in Browser :
        req' = [req EXCEPT ![c] = [flow |-> f, browser |-> b, cookies |-> jar[b]]]
  BY DEF SendCallback
<1>2. /\ UNCHANGED <<jar, phase, ask, code, did, result, stirred>>
      /\ pc[c] = "new" /\ pc' = [pc EXCEPT ![c] = "inner"]
      /\ phase[f] \in {"allowed", "denied"}
  BY DEF SendCallback
<1>3. [flow |-> f, browser |-> b, cookies |-> jar[b]] \in Request
  BY DEF IInv, TypeOK, Request
<1>4. TypeOK'
  BY <1>1, <1>2, <1>3 DEF IInv, TypeOK
<1>5. /\ req'[c] = [flow |-> f, browser |-> b, cookies |-> jar[b]]
      /\ pc'[c] = "inner" /\ did[c] = "nothing" /\ result[c] = "none"
      /\ \A d \in Callback \ {c} : req'[d] = req[d] /\ pc'[d] = pc[d]
  BY <1>1, <1>2 DEF IInv, TypeOK, WalkInv
<1>6. ASSUME NEW d \in Browser, NEW j, Tied(d, j) PROVE Tied(d, j)'
  BY <1>2, <1>6 DEF Tied
<1>7. ASSUME NEW d \in Callback PROVE ReqInv(d)'
  <2>1. CASE d = c
    <3>1. Tied(b, jar[b])
      BY DEF IInv, JarInv
    <3>2. (Tied(b, jar[b]))'
      BY <1>2, <3>1 DEF Tied
    <3>3. \/ Uses(f, "state") => jar[b].state = f
          \/ b # ask[f].browser \/ f \in stirred
      BY <1>2 DEF IInv, FreshInv, Started
    <3>4. QED
      BY <1>2, <1>3, <1>5, <2>1, <3>2, <3>3 DEF ReqInv, Uses, Tied
  <2>2. CASE d # c
    <3>1. ReqInv(d)
      BY DEF IInv
    <3>2. QED
      BY <1>2, <1>5, <2>2, <3>1 DEF ReqInv, Uses, Tied
  <2>3. QED
    BY <2>1, <2>2
<1>8. ASSUME NEW d \in Callback PROVE (Holds(d)' <=> Holds(d)) /\ ~Holds(c)
  BY <1>2, <1>5 DEF Holds, Completed, Holding, Success
<1>9. ASSUME NEW d \in Callback PROVE WalkInv(d)'
  <2>1. CASE d = c
    BY <1>2, <1>5, <1>8, <2>1 DEF WalkInv, Awaits
  <2>2. CASE d # c
    <3>1. WalkInv(d)
      BY DEF IInv
    <3>2. QED
      BY <1>2, <1>5, <1>8, <2>2, <3>1 DEF WalkInv, Uses
  <2>3. QED
    BY <2>1, <2>2
<1>10. OnceInv' /\ MismatchOnlyIfStirred'
  BY <1>2, <1>5, <1>8 DEF IInv, OnceInv, MismatchOnlyIfStirred
<1>11. PhaseInv' /\ FreshInv'
  BY <1>2 DEF IInv, PhaseInv, FreshInv, Uses
<1>12. JarInv'
  BY <1>2 DEF IInv, JarInv, Tied
<1>13. QED
  BY <1>4, <1>7, <1>9, <1>10, <1>11, <1>12 DEF IInv

\* The same in terms of the await, the effect and the result that c moves to.
LEMMA Move ==
  ASSUME IInv, NEW c \in Callback, pc[c] # "new",
         UNCHANGED <<jar, phase, ask, req, stirred>>,
         NEW l \in Awaits \cup {"reply", "ended"},
         NEW w \in {"nothing", "session", "link"},
         NEW r \in Success \cup {"none", "mismatch", "error", "failed"},
         pc' = [pc EXCEPT ![c] = l],
         did' = [did EXCEPT ![c] = w],
         result' = [result EXCEPT ![c] = r],
         code' \in [Flow -> Code],
         \A f \in Flow : code[f] = "spent" => code'[f] = "spent",
         \A f \in Flow : code[f] = "none" => code'[f] = "none",
         l \in Awaits => w = "nothing" /\ r = "none",
         r = "mismatch" =>
           req[c].browser # ask[req[c].flow].browser \/ req[c].flow \in stirred,
         l \in Awaits \/ w # "nothing" \/ r \in Success =>
           (Uses(req[c].flow, "state") => req[c].cookies.state = req[c].flow),
         l \in Holding \/ w # "nothing" \/ r \in Success =>
           /\ Uses(req[c].flow, "pkce") => req[c].cookies.verifier = req[c].flow
           /\ code'[req[c].flow] = "spent"
           /\ Holds(c) \/ code[req[c].flow] # "spent",
         l = "connect" \/ w = "link" \/ r = "connected" => req[c].cookies.intent,
         l = "authorize" \/ w = "session" \/ r = "signed_in" => ~req[c].cookies.intent
  PROVE  IInv'
<1>1. /\ pc'[c] = l /\ did'[c] = w /\ result'[c] = r
      /\ \A d \in Callback \ {c} :
           pc'[d] = pc[d] /\ did'[d] = did[d] /\ result'[d] = result[d]
  BY DEF IInv, TypeOK
<1>2. TypeOK'
  <2>1. pc' \in [Callback -> Awaits \cup {"new", "inner", "reply", "ended"}]
    BY DEF IInv, TypeOK
  <2>2. did' \in [Callback -> {"nothing", "session", "link"}]
    BY DEF IInv, TypeOK
  <2>3. result' \in [Callback -> Success \cup {"none", "mismatch", "error", "failed"}]
    BY DEF IInv, TypeOK
  <2>4. QED
    BY <2>1, <2>2, <2>3 DEF IInv, TypeOK
<1>3. req[c] \in Request
  BY DEF IInv, ReqInv
<1>4. Holds(c)' <=> l \in Holding \/ w # "nothing" \/ r \in Success
  BY <1>1 DEF Holds, Completed
<1>5. WalkInv(c)'
  BY <1>1, <1>3, <1>4 DEF WalkInv, Uses, Awaits, Holding
<1>6. l # "new"
  BY DEF Awaits
<1>7. QED
  BY <1>1, <1>2, <1>4, <1>5, <1>6, HandlerStep

-----------------------------------------------------------------------------
(* The actions *)

\* One action of the handler at a time, one outcome of it at a time.
LEMMA HandleKeepsIInv ==
  ASSUME IInv, NEW c \in Callback, Handle(c)
  PROVE  IInv'
<1> DEFINE f == req[c].flow
           j == req[c].cookies
<1>1. /\ pc[c] # "new" /\ req[c] \in Request /\ f \in Flow
      /\ UNCHANGED <<jar, phase, ask, req, stirred>>
  <2>1. pc[c] # "new" /\ UNCHANGED <<jar, phase, ask, req, stirred>>
    BY DEF Handle, oauth_callback_inner, discover, exchange_code, fetch_user_info,
           resolve_user, complete_provider_connect, complete_sign_in
  <2>2. QED
    BY <2>1 DEF IInv, ReqInv, Request
<1>2. ReqInv(c) /\ WalkInv(c)
  BY DEF IInv
<1>3. did[c] = "nothing" /\ result[c] = "none"
  <2>1. pc[c] \in Awaits \cup {"inner"}
    BY DEF Handle, oauth_callback_inner, discover, exchange_code, fetch_user_info,
           resolve_user, complete_provider_connect, complete_sign_in, Awaits
  <2>2. QED
    BY <1>2, <2>1 DEF WalkInv
<1>4. /\ did = [did EXCEPT ![c] = "nothing"] /\ result = [result EXCEPT ![c] = "none"]
      /\ code \in [Flow -> Code]
  BY <1>3 DEF IInv, TypeOK
<1>5. pc[c] \in Awaits /\ Uses(f, "state") => j.state = f
  BY <1>2 DEF WalkInv
<1>6. pc[c] \in Holding =>
        /\ Holds(c) /\ code[f] = "spent"
        /\ Uses(f, "pkce") => j.verifier = f
  BY <1>2 DEF WalkInv, Holds
<1>7. ASSUME did' = did, code' \in [Flow -> Code],
             \A g \in Flow : code[g] = "spent" => code'[g] = "spent",
             \A g \in Flow : code[g] = "none" => code'[g] = "none",
             Answer(c, "error")
      PROVE  IInv'
  <2>1. pc' = [pc EXCEPT ![c] = "reply"] /\ result' = [result EXCEPT ![c] = "error"]
    BY <1>7 DEF Answer
  <2>2. QED
    BY <1>1, <1>4, <1>7, <2>1, Move DEF Awaits, Holding, Success
<1>8. ASSUME oauth_callback_inner(c) PROVE IInv'
  <2>1. code' = code /\ did' = did
    BY <1>8 DEF oauth_callback_inner
  <2>2. ASSUME Answer(c, "mismatch"), Uses(f, "state"), j.state # f PROVE IInv'
    <3>1. pc' = [pc EXCEPT ![c] = "reply"] /\ result' = [result EXCEPT ![c] = "mismatch"]
      BY <2>2 DEF Answer
    <3>2. req[c].browser # ask[f].browser \/ f \in stirred
      BY <1>1, <1>2, <2>2, OAuthFlowAssumption DEF ReqInv
    <3>3. QED
      BY <1>1, <1>4, <2>1, <3>1, <3>2, Move DEF Awaits, Holding, Success
  <2>3. ASSUME Await(c, "discover"), Uses(f, "state") => j.state = f PROVE IInv'
    <3>1. pc' = [pc EXCEPT ![c] = "discover"] /\ result' = result
      BY <2>3 DEF Await
    <3>2. QED
      BY <1>1, <1>4, <2>1, <2>3, <3>1, Move DEF Awaits, Holding, Success
  <2>4. QED
    BY <1>4, <1>7, <1>8, <2>1, <2>2, <2>3 DEF oauth_callback_inner
<1>9. ASSUME discover(c) PROVE IInv'
  <2>1. code' = code /\ did' = did /\ pc[c] \in Awaits
    BY <1>9 DEF discover, Awaits
  <2>2. ASSUME Await(c, "exchange") PROVE IInv'
    <3>1. pc' = [pc EXCEPT ![c] = "exchange"] /\ result' = result
      BY <2>2 DEF Await
    <3>2. QED
      BY <1>1, <1>4, <1>5, <2>1, <3>1, Move DEF Awaits, Holding, Success
  <2>3. QED
    BY <1>4, <1>7, <1>9, <2>1, <2>2 DEF discover
<1>10. ASSUME exchange_code(c) PROVE IInv'
  <2>1. did' = did /\ pc[c] \in Awaits
    BY <1>10 DEF exchange_code, Awaits
  <2>2. /\ code' \in [Flow -> Code]
        /\ \A g \in Flow : code[g] = "spent" => code'[g] = "spent"
        /\ \A g \in Flow : code[g] = "none" => code'[g] = "none"
    BY <1>1, <1>4, <1>10 DEF exchange_code, Code
  <2>3. ASSUME code[f] = "fresh", code' = [code EXCEPT ![f] = "spent"],
               Uses(f, "pkce") => j.verifier = f, Await(c, "userinfo")
        PROVE  IInv'
    <3>1. pc' = [pc EXCEPT ![c] = "userinfo"] /\ result' = result
      BY <2>3 DEF Await
    <3>2. code'[f] = "spent"
      BY <1>1, <1>4, <2>3
    <3>3. QED
      BY <1>1, <1>4, <1>5, <2>1, <2>2, <2>3, <3>1, <3>2, Move DEF Awaits, Holding, Success
  <2>4. QED
    BY <1>7, <1>10, <2>1, <2>2, <2>3 DEF exchange_code
<1>11. ASSUME fetch_user_info(c) PROVE IInv'
  <2>1. code' = code /\ did' = did /\ pc[c] \in Awaits /\ pc[c] \in Holding
    BY <1>11 DEF fetch_user_info, Awaits, Holding
  <2>2. ASSUME Await(c, "resolve") PROVE IInv'
    <3>1. pc' = [pc EXCEPT ![c] = "resolve"] /\ result' = result
      BY <2>2 DEF Await
    <3>2. QED
      BY <1>1, <1>4, <1>5, <1>6, <2>1, <3>1, Move DEF Awaits, Holding, Success
  <2>3. QED
    BY <1>4, <1>7, <1>11, <2>1, <2>2 DEF fetch_user_info
<1>12. ASSUME resolve_user(c) PROVE IInv'
  <2>1. code' = code /\ did' = did /\ pc[c] \in Awaits /\ pc[c] \in Holding
    BY <1>12 DEF resolve_user, Awaits, Holding
  <2>2. ASSUME ~j.intent, Await(c, "authorize") PROVE IInv'
    <3>1. pc' = [pc EXCEPT ![c] = "authorize"] /\ result' = result
      BY <2>2 DEF Await
    <3>2. QED
      BY <1>1, <1>4, <1>5, <1>6, <2>1, <2>2, <3>1, Move DEF Awaits, Holding, Success
  <2>3. ASSUME j.intent, Await(c, "connect") PROVE IInv'
    <3>1. pc' = [pc EXCEPT ![c] = "connect"] /\ result' = result
      BY <2>3 DEF Await
    <3>2. QED
      BY <1>1, <1>4, <1>5, <1>6, <2>1, <2>3, <3>1, Move DEF Awaits, Holding, Success
  <2>4. ASSUME j.intent, Answer(c, "connected") PROVE IInv'
    <3>1. pc' = [pc EXCEPT ![c] = "reply"] /\ result' = [result EXCEPT ![c] = "connected"]
      BY <2>4 DEF Answer
    <3>2. QED
      BY <1>1, <1>4, <1>5, <1>6, <2>1, <2>4, <3>1, Move DEF Awaits, Holding, Success
  <2>5. QED
    BY <1>4, <1>7, <1>12, <2>1, <2>2, <2>3, <2>4 DEF resolve_user
<1>13. ASSUME complete_provider_connect(c) PROVE IInv'
  <2>1. /\ code' = code /\ pc[c] \in Awaits /\ pc[c] \in Holding /\ j.intent
    BY <1>2, <1>13 DEF complete_provider_connect, Awaits, Holding, WalkInv
  <2>2. ASSUME NEW w \in {"nothing", "link"}, NEW r \in {"connected", "failed"},
               did' = [did EXCEPT ![c] = w], Answer(c, r)
        PROVE  IInv'
    <3>1. pc' = [pc EXCEPT ![c] = "reply"] /\ result' = [result EXCEPT ![c] = r]
      BY <2>2 DEF Answer
    <3>2. QED
      BY <1>1, <1>4, <1>5, <1>6, <2>1, <2>2, <3>1, Move DEF Awaits, Holding, Success
  <2>3. QED
    BY <1>4, <1>13, <2>2 DEF complete_provider_connect
<1>14. ASSUME complete_sign_in(c) PROVE IInv'
  <2>1. /\ code' = code /\ pc[c] \in Awaits /\ pc[c] \in Holding /\ ~j.intent
    BY <1>2, <1>14 DEF complete_sign_in, Awaits, Holding, WalkInv
  <2>2. ASSUME NEW w \in {"nothing", "session"}, NEW r \in {"signed_in", "failed"},
               did' = [did EXCEPT ![c] = w], Answer(c, r)
        PROVE  IInv'
    <3>1. pc' = [pc EXCEPT ![c] = "reply"] /\ result' = [result EXCEPT ![c] = r]
      BY <2>2 DEF Answer
    <3>2. QED
      BY <1>1, <1>4, <1>5, <1>6, <2>1, <2>2, <3>1, Move DEF Awaits, Holding, Success
  <2>3. QED
    BY <1>4, <1>14, <2>2 DEF complete_sign_in
<1>15. QED
  BY <1>8, <1>9, <1>10, <1>11, <1>12, <1>13, <1>14 DEF Handle

LEMMA LostKeepsIInv ==
  ASSUME IInv, NEW c \in Callback, CallbackLost(c)
  PROVE  IInv'
<1>1. /\ pc[c] # "new" /\ UNCHANGED <<jar, phase, ask, code, req, result, stirred>>
      /\ pc[c] \in Awaits \cup {"reply"}
      /\ pc' = [pc EXCEPT ![c] = "ended"]
  BY DEF CallbackLost, Awaits
<1>2. /\ did = [did EXCEPT ![c] = did[c]] /\ result = [result EXCEPT ![c] = result[c]]
      /\ code \in [Flow -> Code]
      /\ did[c] \in {"nothing", "session", "link"}
      /\ result[c] \in Success \cup {"none", "mismatch", "error", "failed"}
  BY DEF IInv, TypeOK
<1>3. /\ WalkInv(c)
      /\ result[c] = "mismatch" =>
           req[c].browser # ask[req[c].flow].browser \/ req[c].flow \in stirred
  BY DEF IInv, MismatchOnlyIfStirred
<1>4. Holds(c) <=> pc[c] \in Holding \/ did[c] # "nothing" \/ result[c] \in Success
  BY DEF Holds, Completed
<1>5. ASSUME NEW w \in {"link", "session"}, did' = [did EXCEPT ![c] = w],
             w = "link" => pc[c] = "connect", w = "session" => pc[c] = "authorize"
      PROVE  IInv'
  <2>1. Holds(c) /\ result[c] = "none"
    BY <1>3, <1>4, <1>5 DEF Holding, WalkInv, Awaits
  <2>2. QED
    BY <1>1, <1>2, <1>3, <1>5, <2>1, Move DEF WalkInv, Awaits, Holding, Success
<1>6. ASSUME did' = did PROVE IInv'
  <2> DEFINE w == did[c]
             r == result[c]
  <2>1. did' = [did EXCEPT ![c] = w] /\ result' = [result EXCEPT ![c] = r]
    BY <1>1, <1>2, <1>6
  <2>2. w # "nothing" \/ r \in Success =>
          /\ Holds(c) /\ code[req[c].flow] = "spent"
          /\ Uses(req[c].flow, "state") => req[c].cookies.state = req[c].flow
          /\ Uses(req[c].flow, "pkce") => req[c].cookies.verifier = req[c].flow
    BY <1>3, <1>4 DEF WalkInv
  <2>3. /\ w = "link" \/ r = "connected" => req[c].cookies.intent
        /\ w = "session" \/ r = "signed_in" => ~req[c].cookies.intent
    BY <1>3 DEF WalkInv
  <2>4. w \in {"nothing", "session", "link"}
        /\ r \in Success \cup {"none", "mismatch", "error", "failed"}
    BY <1>2
  <2>5. r = "mismatch" =>
          req[c].browser # ask[req[c].flow].browser \/ req[c].flow \in stirred
    BY <1>3
  <2> HIDE DEF w, r
  <2>6. QED
    BY <1>1, <1>2, <2>1, <2>2, <2>3, <2>4, <2>5, Move DEF Awaits, Holding
<1>7. QED
  BY <1>5, <1>6 DEF CallbackLost

\* The responses that write a jar: whichever cookies they leave are one flow's.
LEMMA CookiesKeepIInv ==
  ASSUME IInv,
         \/ \E f \in Flow : StartDelivered(f) \/ StartRefused(f)
         \/ \E c \in Callback : CallbackDelivered(c)
         \/ \E b \in Browser : MaxAge(b)
  PROVE  IInv'
<1>1. /\ jar \in [Browser -> Jar] /\ phase \in [Flow -> Phase]
      /\ pc \in [Callback -> Awaits \cup {"new", "inner", "reply", "ended"}]
  BY DEF IInv, TypeOK
<1>2. ASSUME NEW f \in Flow, StartDelivered(f) PROVE IInv'
  <2> DEFINE b == ask[f].browser
             j == start_cookies(f, jar[b])
  <2>1. /\ phase[f] = "answered" /\ phase' = [phase EXCEPT ![f] = "at_provider"]
        /\ jar' = [jar EXCEPT ![b] = j] /\ Stir(b, f)
        /\ UNCHANGED <<ask, code, pc, req, did, result>>
    BY <1>2 DEF StartDelivered
  <2>2. ask[f] \in Ask /\ ask[f].purpose.resource \in Named
    BY <2>1 DEF IInv, PhaseInv
  <2>3. b \in Browser /\ ask[f].target \in Target \cup {NoTarget}
    BY <2>2 DEF Ask
  <2>4. ask[f].purpose \in AnyPurpose
    BY <2>2, OAuthFlowAssumption DEF Ask
  <2>5. j \in Jar
    <3>1. jar[b].signed \in Drawn
      BY <1>1, <2>3 DEF Jar
    <3>2. \A check \in Check : Drawing(f, check) \in Drawn
      BY DEF Drawing, Drawn
    <3>3. ask[f].purpose.intent \in BOOLEAN /\ ask[f].purpose.token \in BOOLEAN
      BY <2>4 DEF AnyPurpose
    <3>4. QED
      BY <2>2, <2>3, <3>1, <3>2, <3>3 DEF Jar, start_cookies, Check
  <2>6. Tied(b, j)
    BY <2>2, OAuthFlowAssumption DEF Tied, start_cookies, Drawing
  <2>7. Uses(f, "state") => j.state = f
    BY DEF start_cookies, Drawing
  <2>8. phase' \in [Flow -> Phase] /\ phase'[f] = "at_provider"
    BY <1>1, <2>1 DEF Phase
  <2> HIDE DEF b, j
  <2>9. \A g \in Flow : g # f => phase'[g] = phase[g]
    BY <1>1, <2>1
  <2>10. QED
    BY <1>1, <2>1, <2>3, <2>5, <2>6, <2>7, <2>8, <2>9, JarStep DEF b
<1>3. ASSUME NEW b \in Browser, NEW intent \in BOOLEAN, NEW signed \in Drawn,
             NEW target \in Target \cup {NoTarget}
      PROVE  LET j == [Only(intent, signed) EXCEPT !.target = target]
             IN  j \in Jar /\ Tied(b, j)
  BY OAuthFlowAssumption DEF Only, Jar, Drawn, Named, Tied
<1>4. ASSUME NEW b \in Browser, NEW intent \in BOOLEAN, NEW signed \in Drawn
      PROVE  Only(intent, signed) \in Jar /\ Tied(b, Only(intent, signed))
  BY OAuthFlowAssumption DEF Only, Jar, Drawn, Named, Tied
<1>5. ASSUME NEW f \in Flow, StartRefused(f) PROVE IInv'
  <2> DEFINE b == ask[f].browser
             j == Only(TRUE, jar[b].signed)
  <2>1. /\ phase[f] = "refused" /\ phase' = [phase EXCEPT ![f] = "ended"]
        /\ jar' = [jar EXCEPT ![b] = j] /\ Stir(b, f)
        /\ UNCHANGED <<ask, code, pc, req, did, result>>
    BY <1>5 DEF StartRefused
  <2>2. b \in Browser
    BY <2>1 DEF IInv, PhaseInv, Ask
  <2>3. jar[b].signed \in Drawn
    BY <1>1, <2>2 DEF Jar
  <2>4. j \in Jar /\ Tied(b, j)
    BY <1>4, <2>2, <2>3
  <2>5. phase' \in [Flow -> Phase] /\ phase'[f] = "ended"
    BY <1>1, <2>1 DEF Phase
  <2>6. \A g \in Flow : g # f => phase'[g] = phase[g]
    BY <1>1, <2>1
  <2> HIDE DEF b, j
  <2>7. QED
    BY <1>1, <2>1, <2>2, <2>4, <2>5, <2>6, JarStep DEF Started
<1>6. ASSUME NEW c \in Callback, CallbackDelivered(c) PROVE IInv'
  <2> DEFINE b == req[c].browser
             j == callback_cookies(c, jar[b])
  <2>1. /\ pc[c] = "reply" /\ pc' = [pc EXCEPT ![c] = "ended"]
        /\ jar' = [jar EXCEPT ![b] = j] /\ Stir(b, NoFlow)
        /\ UNCHANGED <<phase, ask, code, req, did, result>>
    BY <1>6 DEF CallbackDelivered
  <2>2. b \in Browser /\ req[c].flow \in Flow
    BY <2>1 DEF IInv, ReqInv, Request
  <2>3. jar[b].signed \in Drawn /\ jar[b].intent \in BOOLEAN /\ req[c].flow \in Drawn
    BY <1>1, <2>2 DEF Jar, Drawn
  <2>4. j \in Jar /\ Tied(b, j)
    BY <1>4, <2>2, <2>3 DEF callback_cookies, expire_oauth_flow_cookies
  <2>5. pc' \in [Callback -> Awaits \cup {"new", "inner", "reply", "ended"}]
    BY <1>1, <2>1
  <2>6. \A d \in Callback : pc'[d] = pc[d] \/ (pc[d] = "reply" /\ pc'[d] = "ended")
    BY <1>1, <2>1
  <2> HIDE DEF b, j
  <2>7. QED
    BY <1>1, <2>1, <2>2, <2>4, <2>5, <2>6, JarStep, OAuthFlowAssumption
<1>7. ASSUME NEW b \in Browser, MaxAge(b) PROVE IInv'
  <2> DEFINE j == [Only(FALSE, jar[b].signed) EXCEPT !.target = jar[b].target]
  <2>1. /\ jar' = [jar EXCEPT ![b] = j] /\ Stir(b, NoFlow)
        /\ UNCHANGED <<phase, ask, code, pc, req, did, result>>
    BY <1>7 DEF MaxAge
  <2>2. jar[b].signed \in Drawn /\ jar[b].target \in Target \cup {NoTarget}
    BY <1>1 DEF Jar
  <2>3. j \in Jar /\ Tied(b, j)
    BY <1>3, <2>2
  <2> HIDE DEF j
  <2>4. QED
    BY <1>1, <2>1, <2>3, JarStep, OAuthFlowAssumption
<1>8. QED
  BY <1>2, <1>5, <1>6, <1>7

LEMMA FlowKeepsIInv ==
  ASSUME IInv, NEW f \in Flow,
         SendSignIn(f) \/ start_oauth(f) \/ StartLost(f) \/ Consent(f)
  PROVE  IInv'
<1>1. /\ ask \in [Flow -> Ask \cup {NoAsk}] /\ jar \in [Browser -> Jar]
      /\ phase[f] # "new" => ask[f] \in Ask
  BY DEF IInv, TypeOK, PhaseInv
<1>2. ASSUME SendSignIn(f) PROVE IInv'
  <2>1. PICK b \in Browser, p \in Provider, w \in Purpose, t \in Target \cup {NoTarget} :
          ask' = [ask EXCEPT ![f] = [browser |-> b, provider |-> p, purpose |-> w,
                                     target |-> IF t = NoTarget THEN jar[b].target ELSE t]]
    BY <1>2 DEF SendSignIn
  <2> DEFINE a == [browser |-> b, provider |-> p, purpose |-> w,
                   target |-> IF t = NoTarget THEN jar[b].target ELSE t]
  <2>2. a \in Ask
    BY <1>1 DEF Ask, Jar
  <2>3. ask' = [ask EXCEPT ![f] = a] /\ ask'[f] = a
    BY <1>1, <2>1
  <2>4. /\ phase[f] = "new" /\ phase' = [phase EXCEPT ![f] = "sent"]
        /\ UNCHANGED <<jar, code, pc, req, did, result, stirred>>
    BY <1>2 DEF SendSignIn
  <2> HIDE DEF a
  <2>5. ask[f] \notin Ask
    BY <2>4, OAuthFlowAssumption DEF IInv, PhaseInv
  <2>6. QED
    BY <2>2, <2>3, <2>4, <2>5, FlowStep DEF Phase, Started
<1>3. ASSUME NEW l \in Phase, phase' = [phase EXCEPT ![f] = l],
             UNCHANGED <<jar, ask, pc, req, did, result, stirred>>,
             phase[f] \notin {"new", "allowed", "denied"}, l # "new",
             l \in Started => phase[f] = "at_provider",
             l = "answered" => ask[f].purpose.resource \in Named,
             code' = code \/ (l = "allowed" /\ code' = [code EXCEPT ![f] = "fresh"])
      PROVE  IInv'
  BY <1>1, <1>3, FlowStep DEF Started
<1>4. ASSUME start_oauth(f) PROVE IInv'
  <2>1. /\ phase[f] = "sent" /\ UNCHANGED <<jar, ask, code, pc, req, did, result, stirred>>
        /\ \/ phase' = [phase EXCEPT ![f] = "ended"]
           \/ phase' = [phase EXCEPT ![f] = "refused"]
           \/ /\ ask[f].purpose.resource # BadResource
              /\ phase' = [phase EXCEPT ![f] = "answered"]
    BY <1>4 DEF start_oauth
  <2>2. ask[f].purpose.resource # BadResource => ask[f].purpose.resource \in Named
    BY <1>1, <2>1, OAuthFlowAssumption DEF Ask, AnyPurpose
  <2>3. QED
    BY <1>3, <2>1, <2>2 DEF Phase, Started
<1>5. ASSUME StartLost(f) PROVE IInv'
  BY <1>3, <1>5 DEF StartLost, Phase, Started
<1>6. ASSUME Consent(f) PROVE IInv'
  <2>1. /\ phase[f] = "at_provider"
        /\ UNCHANGED <<jar, ask, pc, req, did, result, stirred>>
        /\ \/ phase' = [phase EXCEPT ![f] = "allowed"] /\ code' = [code EXCEPT ![f] = "fresh"]
           \/ phase' = [phase EXCEPT ![f] = "denied"] /\ code' = code
    BY <1>6 DEF Consent
  <2>2. CASE phase' = [phase EXCEPT ![f] = "allowed"] /\ code' = [code EXCEPT ![f] = "fresh"]
    BY <1>3, <2>1, <2>2 DEF Phase, Started
  <2>3. CASE phase' = [phase EXCEPT ![f] = "denied"] /\ code' = code
    BY <1>3, <2>1, <2>3 DEF Phase, Started
  <2>4. QED
    BY <2>1, <2>2, <2>3
<1>7. QED
  BY <1>2, <1>4, <1>5, <1>6

LEMMA InitIInv == Init => IInv
<1> SUFFICES ASSUME Init PROVE IInv
  OBVIOUS
<1>1. TypeOK
  <2>1. Only(FALSE, NoFlow) \in Jar
    BY DEF Only, Jar, Drawn, Named
  <2>2. QED
    BY <2>1 DEF Init, TypeOK, Phase, Code
<1>2. PhaseInv /\ FreshInv
  BY DEF Init, PhaseInv, FreshInv, Started
<1>3. JarInv
  BY OAuthFlowAssumption DEF Init, JarInv, Tied, Only
<1>4. ASSUME NEW c \in Callback PROVE ReqInv(c) /\ WalkInv(c) /\ ~Holds(c)
  BY DEF Init, ReqInv, WalkInv, Holds, Completed, Awaits, Holding, Success
<1>5. OnceInv /\ MismatchOnlyIfStirred
  BY <1>4 DEF Init, OnceInv, MismatchOnlyIfStirred
<1>6. QED
  BY <1>1, <1>2, <1>3, <1>4, <1>5 DEF IInv

LEMMA NextIInv == IInv /\ [Next]_vars => IInv'
<1> SUFFICES ASSUME IInv, [Next]_vars PROVE IInv'
  OBVIOUS
<1>1. ASSUME NEW f \in Flow, Start(f) PROVE IInv'
  BY <1>1, FlowKeepsIInv, CookiesKeepIInv DEF Start
<1>2. ASSUME NEW c \in Callback, NEW f \in Flow, SendCallback(c, f) PROVE IInv'
  BY <1>2, SendStep
<1>3. ASSUME NEW c \in Callback, Handle(c) \/ CallbackLost(c) PROVE IInv'
  BY <1>3, HandleKeepsIInv, LostKeepsIInv
<1>4. ASSUME \/ \E c \in Callback : CallbackDelivered(c)
             \/ \E b \in Browser : MaxAge(b)
      PROVE  IInv'
  BY <1>4, CookiesKeepIInv
<1>5. ASSUME UNCHANGED vars PROVE IInv'
  <2>1. ASSUME NEW c \in Callback PROVE ReqInv(c)' /\ WalkInv(c)'
    BY <1>5 DEF vars, IInv, ReqInv, WalkInv, Holds, Completed, Uses, Tied
  <2>2. TypeOK' /\ PhaseInv' /\ FreshInv'
    BY <1>5 DEF vars, IInv, TypeOK, PhaseInv, FreshInv, Uses
  <2>3. JarInv'
    BY <1>5 DEF vars, IInv, JarInv, Tied
  <2>4. OnceInv' /\ MismatchOnlyIfStirred'
    BY <1>5 DEF vars, IInv, OnceInv, Holds, Completed, MismatchOnlyIfStirred
  <2>5. QED
    BY <2>1, <2>2, <2>3, <2>4 DEF IInv
<1>6. QED
  BY <1>1, <1>2, <1>3, <1>4, <1>5 DEF Next

\* The check a guarded flow passed has tied the callback to it.
LEMMA HolderIsTied ==
  ASSUME IInv, NEW c \in Callback, Holds(c)
  PROVE  /\ req[c] \in Request /\ req[c].flow \in Flow
         /\ phase[req[c].flow] = "allowed" /\ ask[req[c].flow] \in Ask
         /\ Guarded(req[c].flow) =>
              /\ ask[req[c].flow].browser = req[c].browser
              /\ ask[req[c].flow].purpose.intent = req[c].cookies.intent
              /\ ask[req[c].flow].purpose.resource = req[c].cookies.resource
<1> DEFINE f == req[c].flow
           j == req[c].cookies
<1>1. WalkInv(c) /\ ReqInv(c)
  BY DEF IInv
<1>2. req[c] \in Request /\ f \in Flow
  BY <1>1 DEF WalkInv, Request
<1>3. phase[f] = "allowed" /\ ask[f] \in Ask
  BY <1>1, <1>2 DEF WalkInv, IInv, PhaseInv
<1>4. Guarded(f) => j.state = f \/ j.verifier = f
  BY <1>1 DEF Guarded, WalkInv
<1>5. Tied(req[c].browser, j)
  BY <1>1, <1>2, OAuthFlowAssumption DEF ReqInv
<1>6. QED
  BY <1>2, <1>3, <1>4, <1>5 DEF Tied

-----------------------------------------------------------------------------
(* What is proved *)

\* IInv holds in every state start_oauth and oauth_callback can produce.
THEOREM Invariant == Spec => []IInv
<1>1. Init => IInv
  BY InitIInv
<1>2. IInv /\ [Next]_vars => IInv'
  BY NextIInv
<1>3. QED
  BY <1>1, <1>2, PTL DEF Spec

\* Cookies, requests and results stay what action_auth.rs and cookies.rs make them:
\* in particular no connect_resource cookie is ever set to an id that is no uuid.
THEOREM TypeCorrect == Spec => []TypeOK
<1>1. IInv => TypeOK
  BY DEF IInv
<1>2. QED
  BY <1>1, Invariant, PTL

\* A callback that completes a flow guarded by state or PKCE completes it in the
\* browser, with the intent and for the resource the flow was started with, however
\* many flows, tabs, providers and late responses wrote the same cookies.
THEOREM FlowsCompleteAsStarted == Spec => []CompletedAsStarted
<1>1. ASSUME IInv, NEW c \in Callback, Completed(c) PROVE Holds(c) /\ WalkInv(c)
  BY <1>1 DEF IInv, Holds
<1>2. IInv => CompletedAsStarted
  BY <1>1, HolderIsTied DEF CompletedAsStarted, WalkInv
<1>3. QED
  BY <1>2, Invariant, PTL

\* The authorization code makes a flow complete at most once, however often its
\* callback is repeated and wherever a repetition overtakes another.
THEOREM FlowsCompleteOnce == Spec => []CompletedOnce
<1>1. IInv => CompletedOnce
  BY DEF IInv, OnceInv, Holds, CompletedOnce
<1>2. QED
  BY <1>1, Invariant, PTL

\* oauth_callback reports a state mismatch only to a callback in a foreign browser
\* or after another response, or time, touched the cookies of the flow.
THEOREM MismatchesAreExplained == Spec => []MismatchOnlyIfStirred
<1>1. IInv => MismatchOnlyIfStirred
  BY DEF IInv
<1>2. QED
  BY <1>1, Invariant, PTL

-----------------------------------------------------------------------------
(* Flows that share nothing *)

\* What a callback did is done for good.
LEMMA DoneKept ==
  ASSUME \A c \in Callback : Completed(c)' <=> Completed(c),
         \A c \in Callback :
           Completed(c) => did'[c] = did[c] /\ result'[c] = result[c] /\ req'[c] = req[c]
  PROVE  doneBar' = doneBar
<1>1. ASSUME NEW f \in Flow PROVE (doneBar[f])' = doneBar[f]
  <2>1. \A c \in Callback : DoneBy(c, f)' <=> DoneBy(c, f)
    BY DEF DoneBy
  <2>2. \A c \in Callback : DoneBy(c, f) => Did(c)' = Did(c)
    BY DEF DoneBy, Did
  <2>3. QED
    BY <2>1, <2>2 DEF doneBar
<1>2. QED
  BY <1>1 DEF doneBar

\* What a flow was asked for is not asked again.
LEMMA AskedKept ==
  ASSUME UNCHANGED ask
  PROVE  askedBar' = askedBar
  BY DEF askedBar, WishOf, Guarded, Uses

\* A callback past the exchange does what its cookies say, and is the first to.
LEMMA CompleteStep ==
  ASSUME IInv, NEW c \in Callback, Holds(c), ~Completed(c), Completed(c)',
         UNCHANGED <<jar, phase, ask, req>>,
         \A d \in Callback \ {c} : did'[d] = did[d] /\ result'[d] = result[d],
         (did'[c] = "session" \/ result'[c] = "signed_in") <=> ~req[c].cookies.intent
  PROVE  Alone!Next
<1> DEFINE f == req[c].flow
           deed == DeedOf(~req[c].cookies.intent, req[c].browser, req[c].cookies.resource)
<1>1. f \in Flow /\ req[c] \in Request /\ phase[f] = "allowed" /\ ask[f] \in Ask
  BY HolderIsTied
<1>2. /\ stageBar' = stageBar /\ askedBar' = askedBar /\ signedBar' = signedBar
      /\ stageBar[f] = "allowed"
  BY <1>1, AskedKept DEF stageBar, StageAt, signedBar
<1>3. \A d \in Callback : ~DoneBy(d, f)
  BY DEF IInv, OnceInv, DoneBy, Holds
<1>4. ASSUME NEW d \in Callback, NEW g \in Flow
      PROVE  /\ DoneBy(d, g)' <=> DoneBy(d, g) \/ (d = c /\ g = f)
             /\ DoneBy(d, g) => Did(d)' = Did(d)
  <2>1. CASE d = c
    BY <2>1 DEF DoneBy
  <2>2. CASE d # c
    BY <2>2 DEF DoneBy, Completed, Did
  <2>3. QED
    BY <2>1, <2>2
<1>5. Did(c)' = [by |-> c, deed |-> deed]
  BY DEF Did, DeedOf
<1>6. doneBar[f] = {}
  BY <1>1, <1>3 DEF doneBar
<1>7. doneBar' = [doneBar EXCEPT ![f] = {[by |-> c, deed |-> deed]}]
  <2>1. (doneBar[f])' = {[by |-> c, deed |-> deed]}
    BY <1>1, <1>3, <1>4, <1>5 DEF doneBar
  <2>2. \A g \in Flow \ {f} : (doneBar[g])' = doneBar[g]
    BY <1>4 DEF doneBar
  <2>3. QED
    BY <1>1, <2>1, <2>2 DEF doneBar
<1>8. deed \in Alone!Due(f)
  <2>1. deed \in Alone!Deed
    BY <1>1 DEF DeedOf, Alone!Deed, Request, Jar, Named
  <2>2. Guarded(f) => deed = askedBar[f].deed
    BY <1>1, HolderIsTied, OAuthFlowAssumption DEF askedBar, WishOf, DeedOf
  <2>3. askedBar[f].checked <=> Guarded(f)
    BY <1>1, OAuthFlowAssumption DEF askedBar, WishOf
  <2>4. QED
    BY <2>1, <2>2, <2>3 DEF Alone!Due
<1>9. Alone!Complete(f)
  BY <1>2, <1>6, <1>7, <1>8 DEF Alone!Complete
<1>10. QED
  BY <1>1, <1>9 DEF Alone!Next

\* A step of a handler that does nothing yet.
LEMMA QuietStep ==
  ASSUME IInv, NEW c \in Callback, ~Completed(c), ~Completed(c)',
         UNCHANGED <<jar, phase, ask, req>>,
         \A d \in Callback \ {c} : did'[d] = did[d] /\ result'[d] = result[d]
  PROVE  UNCHANGED Alone!vars
<1>1. doneBar' = doneBar
  <2>1. ASSUME NEW d \in Callback
        PROVE  /\ Completed(d)' <=> Completed(d)
               /\ Completed(d) => did'[d] = did[d] /\ result'[d] = result[d] /\ req'[d] = req[d]
    <3>1. CASE d = c
      BY <3>1
    <3>2. CASE d # c
      BY <3>2 DEF Completed
    <3>3. QED
      BY <3>1, <3>2
  <2>2. QED
    BY <2>1, DoneKept
<1>2. QED
  BY <1>1, AskedKept DEF Alone!vars, stageBar, signedBar

LEMMA HandleImplements ==
  ASSUME IInv, NEW c \in Callback, Handle(c)
  PROVE  [Alone!Next]_(Alone!vars)
<1>1. pc[c] \in Awaits \cup {"inner"} /\ UNCHANGED <<jar, phase, ask, req>>
  BY DEF Handle, oauth_callback_inner, discover, exchange_code, fetch_user_info,
         resolve_user, complete_provider_connect, complete_sign_in, Awaits
<1>2. did[c] = "nothing" /\ result[c] = "none" /\ ~Completed(c)
  BY <1>1 DEF IInv, WalkInv, Completed, Success
<1>3. WalkInv(c)
  BY DEF IInv
<1>4. ASSUME NEW w, did' = [did EXCEPT ![c] = w], NEW r, result' = [result EXCEPT ![c] = r]
      PROVE  /\ did'[c] = w /\ result'[c] = r
             /\ \A d \in Callback \ {c} : did'[d] = did[d] /\ result'[d] = result[d]
  BY <1>4 DEF IInv, TypeOK
<1>5. did = [did EXCEPT ![c] = "nothing"] /\ result = [result EXCEPT ![c] = "none"]
  BY <1>2 DEF IInv, TypeOK
<1>6. ASSUME did' = did, NEW r \in {"none", "mismatch", "error", "failed"},
             result' = [result EXCEPT ![c] = r]
      PROVE  UNCHANGED Alone!vars
  BY <1>1, <1>2, <1>4, <1>5, <1>6, QuietStep DEF Completed, Success
<1>7. ASSUME NEW l, Await(c, l), did' = did PROVE UNCHANGED Alone!vars
  BY <1>5, <1>6, <1>7 DEF Await
<1>8. ASSUME NEW r \in {"mismatch", "error", "failed"}, Answer(c, r), did' = did
      PROVE  UNCHANGED Alone!vars
  BY <1>6, <1>8 DEF Answer
<1>9. CASE \/ oauth_callback_inner(c) \/ discover(c) \/ exchange_code(c) \/ fetch_user_info(c)
  BY <1>7, <1>8, <1>9 DEF oauth_callback_inner, discover, exchange_code, fetch_user_info
<1>10. CASE resolve_user(c)
  <2>1. Holds(c) /\ did' = did
    BY <1>10 DEF resolve_user, Holds, Holding
  <2>2. CASE req[c].cookies.intent /\ Answer(c, "connected")
    <3>1. did' = [did EXCEPT ![c] = "nothing"] /\ result' = [result EXCEPT ![c] = "connected"]
      BY <1>5, <2>1, <2>2 DEF Answer
    <3>2. /\ did'[c] = "nothing" /\ result'[c] = "connected"
          /\ \A d \in Callback \ {c} : did'[d] = did[d] /\ result'[d] = result[d]
      BY <1>4, <3>1
    <3>3. Completed(c)' /\ req[c].cookies.intent
      BY <2>2, <3>2 DEF Completed, Success
    <3>4. QED
      BY <1>1, <1>2, <2>1, <3>2, <3>3, CompleteStep
  <2>3. CASE Answer(c, "error") \/ \E l \in Awaits : Await(c, l)
    BY <1>7, <1>8, <2>1, <2>3
  <2>4. QED
    BY <1>10, <2>2, <2>3 DEF resolve_user, Awaits
<1>11. CASE complete_provider_connect(c)
  <2>1. Holds(c) /\ req[c].cookies.intent
    BY <1>3, <1>11 DEF complete_provider_connect, Holds, Holding, WalkInv
  <2>2. ASSUME NEW r \in {"connected", "failed"}, Answer(c, r), did' = [did EXCEPT ![c] = "link"]
        PROVE  Alone!Next
    <3>1. result' = [result EXCEPT ![c] = r]
      BY <2>2 DEF Answer
    <3>2. /\ did'[c] = "link" /\ result'[c] = r
          /\ \A d \in Callback \ {c} : did'[d] = did[d] /\ result'[d] = result[d]
      BY <1>4, <2>2, <3>1
    <3>3. Completed(c)'
      BY <3>2 DEF Completed
    <3>4. QED
      BY <1>1, <1>2, <2>1, <3>2, <3>3, CompleteStep
  <2>3. QED
    BY <1>8, <1>11, <2>2 DEF complete_provider_connect
<1>12. CASE complete_sign_in(c)
  <2>1. Holds(c) /\ ~req[c].cookies.intent
    BY <1>3, <1>12 DEF complete_sign_in, Holds, Holding, WalkInv
  <2>2. ASSUME NEW r \in {"signed_in", "failed"}, Answer(c, r),
               did' = [did EXCEPT ![c] = "session"]
        PROVE  Alone!Next
    <3>1. result' = [result EXCEPT ![c] = r]
      BY <2>2 DEF Answer
    <3>2. QED
      BY <1>1, <1>2, <1>4, <2>1, <2>2, <3>1, CompleteStep DEF Completed
  <2>3. QED
    BY <1>8, <1>12, <2>2 DEF complete_sign_in
<1>13. QED
  BY <1>9, <1>10, <1>11, <1>12 DEF Handle

\* A call that was dropped may have been made: its flow is completed all the same.
LEMMA LostImplements ==
  ASSUME IInv, NEW c \in Callback, CallbackLost(c)
  PROVE  [Alone!Next]_(Alone!vars)
<1>1. UNCHANGED <<jar, phase, ask, req, result>> /\ WalkInv(c)
  BY DEF CallbackLost, IInv
<1>2. CASE did' = did
  <2>1. doneBar' = doneBar
    BY <1>1, <1>2, DoneKept DEF Completed
  <2>2. QED
    BY <1>1, <2>1, AskedKept DEF Alone!vars, stageBar, signedBar
<1>3. ASSUME NEW w \in {"link", "session"}, did' = [did EXCEPT ![c] = w],
             w = "link" => pc[c] = "connect", w = "session" => pc[c] = "authorize"
      PROVE  Alone!Next
  <2>1. /\ Holds(c) /\ ~Completed(c) /\ result[c] = "none"
        /\ w = "session" <=> ~req[c].cookies.intent
    BY <1>1, <1>3 DEF Holds, Holding, Completed, WalkInv, Awaits, Success
  <2>2. did'[c] = w /\ \A d \in Callback \ {c} : did'[d] = did[d]
    BY <1>3 DEF IInv, TypeOK
  <2>3. QED
    BY <1>1, <1>3, <2>1, <2>2, CompleteStep DEF Completed
<1>4. QED
  BY <1>2, <1>3 DEF CallbackLost

\* A response, or time, writes a jar: only the answer to a sign-in that was done
\* changes whose session it holds.
LEMMA JarImplements ==
  ASSUME IInv, NEW b \in Browser, NEW j,
         jar' = [jar EXCEPT ![b] = j],
         UNCHANGED <<ask, req, did, result>>, stageBar' = stageBar,
         j.signed = jar[b].signed \/
           \E c \in Callback : /\ result[c] = "signed_in"
                               /\ b = req[c].browser /\ j.signed = req[c].flow
  PROVE  [Alone!Next]_(Alone!vars)
<1>1. doneBar' = doneBar /\ askedBar' = askedBar
  BY DoneKept, AskedKept DEF Completed
<1>2. signedBar' = [signedBar EXCEPT ![b] = j.signed]
  BY DEF signedBar, IInv, TypeOK
<1>3. CASE j.signed = jar[b].signed
  BY <1>1, <1>2, <1>3 DEF Alone!vars, signedBar
<1>4. ASSUME NEW c \in Callback, result[c] = "signed_in", b = req[c].browser,
             j.signed = req[c].flow
      PROVE  Alone!Next
  <2> DEFINE f == req[c].flow
  <2>1. Completed(c) /\ f \in Flow
    BY <1>4, HolderIsTied DEF Completed, Success, Holds
  <2>2. Did(c) \in doneBar[f]
    BY <2>1 DEF doneBar, DoneBy
  <2>3. Did(c).deed.kind = "session" /\ Did(c).deed.browser = b
    BY <1>4 DEF Did, DeedOf
  <2>4. Alone!Receive(f)
    BY <1>1, <1>2, <1>4, <2>2, <2>3 DEF Alone!Receive
  <2>5. QED
    BY <2>1, <2>4 DEF Alone!Next
<1>5. QED
  BY <1>3, <1>4

LEMMA CookiesImplement ==
  ASSUME IInv,
         \/ \E f \in Flow : StartDelivered(f) \/ StartRefused(f)
         \/ \E c \in Callback : CallbackDelivered(c)
         \/ \E b \in Browser : MaxAge(b)
  PROVE  [Alone!Next]_(Alone!vars)
<1>1. ASSUME NEW f \in Flow, StartDelivered(f) PROVE [Alone!Next]_(Alone!vars)
  <2>1. ask[f] \in Ask /\ ask[f].browser \in Browser
    BY <1>1 DEF StartDelivered, IInv, PhaseInv, Ask
  <2>2. stageBar' = stageBar
    BY <1>1 DEF StartDelivered, stageBar, StageAt, IInv, TypeOK
  <2>3. QED
    BY <1>1, <2>1, <2>2, JarImplements DEF StartDelivered, start_cookies
<1>2. ASSUME NEW f \in Flow, StartRefused(f) PROVE [Alone!Next]_(Alone!vars)
  <2>1. ask[f] \in Ask /\ ask[f].browser \in Browser
    BY <1>2 DEF StartRefused, IInv, PhaseInv, Ask
  <2>2. stageBar' = stageBar
    BY <1>2 DEF StartRefused, stageBar, StageAt, IInv, TypeOK
  <2>3. QED
    BY <1>2, <2>1, <2>2, JarImplements DEF StartRefused, Only
<1>3. ASSUME NEW c \in Callback, CallbackDelivered(c) PROVE [Alone!Next]_(Alone!vars)
  <2>1. req[c] \in Request /\ req[c].browser \in Browser
    BY <1>3 DEF CallbackDelivered, IInv, ReqInv, Request
  <2>2. stageBar' = stageBar
    BY <1>3 DEF CallbackDelivered, stageBar
  <2>3. QED
    BY <1>3, <2>1, <2>2, JarImplements
       DEF CallbackDelivered, callback_cookies, expire_oauth_flow_cookies, Only
<1>4. ASSUME NEW b \in Browser, MaxAge(b) PROVE [Alone!Next]_(Alone!vars)
  <2>1. stageBar' = stageBar
    BY <1>4 DEF MaxAge, stageBar
  <2>2. QED
    BY <1>4, <2>1, JarImplements DEF MaxAge, Only
<1>5. QED
  BY <1>1, <1>2, <1>3, <1>4

\* A step of a flow before it comes back.
LEMMA StageStep ==
  ASSUME IInv, NEW f \in Flow, NEW p \in Phase, phase' = [phase EXCEPT ![f] = p],
         UNCHANGED <<jar, ask, req, did, result>>,
         \/ StageAt(p) = StageAt(phase[f])
         \/ StageAt(phase[f]) = "asked" /\ StageAt(p) \in {"allowed", "over"}
  PROVE  [Alone!Next]_(Alone!vars)
<1>1. doneBar' = doneBar /\ askedBar' = askedBar /\ signedBar' = signedBar
  BY DoneKept, AskedKept DEF Completed, signedBar
<1>2. stageBar' = [stageBar EXCEPT ![f] = StageAt(p)] /\ stageBar[f] = StageAt(phase[f])
  BY DEF stageBar, IInv, TypeOK
<1>3. CASE StageAt(p) = StageAt(phase[f])
  <2>1. stageBar' = stageBar
    BY <1>2, <1>3 DEF stageBar
  <2>2. QED
    BY <1>1, <2>1 DEF Alone!vars
<1>4. CASE StageAt(phase[f]) = "asked" /\ StageAt(p) \in {"allowed", "over"}
  BY <1>1, <1>2, <1>4 DEF Alone!Next, Alone!Allow, Alone!End
<1>5. QED
  BY <1>3, <1>4

LEMMA StartImplements ==
  ASSUME IInv, NEW f \in Flow, Start(f)
  PROVE  [Alone!Next]_(Alone!vars)
<1>1. CASE SendSignIn(f)
  <2>1. PICK a \in Ask : ask' = [ask EXCEPT ![f] = a]
    <3>1. PICK b \in Browser, p \in Provider, w \in Purpose, t \in Target \cup {NoTarget} :
            ask' = [ask EXCEPT ![f] = [browser |-> b, provider |-> p, purpose |-> w,
                                       target |-> IF t = NoTarget THEN jar[b].target ELSE t]]
      BY <1>1 DEF SendSignIn
    <3>2. jar[b].target \in Target \cup {NoTarget}
      BY DEF IInv, TypeOK, Jar
    <3>3. [browser |-> b, provider |-> p, purpose |-> w,
           target |-> IF t = NoTarget THEN jar[b].target ELSE t] \in Ask
      BY <3>2 DEF Ask
    <3>4. QED
      BY <3>1, <3>3
  <2>2. /\ phase[f] = "new" /\ phase' = [phase EXCEPT ![f] = "sent"]
        /\ UNCHANGED <<jar, req, did, result>>
    BY <1>1 DEF SendSignIn
  <2>3. doneBar' = doneBar /\ signedBar' = signedBar
    BY <2>2, DoneKept DEF Completed, signedBar
  <2>4. stageBar' = [stageBar EXCEPT ![f] = "asked"] /\ stageBar[f] = "new"
    BY <2>2 DEF stageBar, StageAt, IInv, TypeOK
  <2>5. ask'[f] = a /\ \A g \in Flow \ {f} : ask'[g] = ask[g]
    BY <2>1 DEF IInv, TypeOK
  <2> DEFINE deed == DeedOf(~a.purpose.intent, a.browser, a.purpose.resource)
  <2>6. (WishOf(f))' = [deed |-> deed, checked |-> Guarded(f)']
    BY <2>5, OAuthFlowAssumption DEF WishOf
  <2>7. \A g \in Flow \ {f} : (WishOf(g))' = WishOf(g)
    BY <2>5 DEF WishOf, Guarded, Uses
  <2>8. askedBar' = [askedBar EXCEPT ![f] = [deed |-> deed, checked |-> Guarded(f)']]
    BY <2>6, <2>7 DEF askedBar
  <2>9. deed \in Alone!Deed
    <3>1. a.browser \in Browser /\ a.purpose \in AnyPurpose
      BY OAuthFlowAssumption DEF Ask
    <3>2. QED
      BY <3>1 DEF DeedOf, Alone!Deed, AnyPurpose, Named
  <2>10. Guarded(f)' \in BOOLEAN
    BY DEF Guarded
  <2>11. [deed |-> deed, checked |-> Guarded(f)'] \in Alone!Wish
    BY <2>9, <2>10 DEF Alone!Wish
  <2>12. Alone!Ask(f)
    BY <2>3, <2>4, <2>8, <2>11 DEF Alone!Ask
  <2>13. QED
    BY <2>12 DEF Alone!Next
<1>2. CASE start_oauth(f)
  BY <1>2, StageStep DEF start_oauth, StageAt, Phase
<1>3. CASE StartLost(f)
  BY <1>3, StageStep DEF StartLost, StageAt, Phase
<1>4. CASE Consent(f)
  BY <1>4, StageStep DEF Consent, StageAt, Phase
<1>5. CASE StartDelivered(f) \/ StartRefused(f)
  BY <1>5, CookiesImplement
<1>6. QED
  BY <1>1, <1>2, <1>3, <1>4, <1>5 DEF Start

LEMMA SendImplements ==
  ASSUME IInv, NEW c \in Callback, NEW f \in Flow, SendCallback(c, f)
  PROVE  UNCHANGED Alone!vars
<1>1. /\ UNCHANGED <<jar, phase, ask, did, result>> /\ ~Completed(c)
      /\ \A d \in Callback \ {c} : req'[d] = req[d]
  BY DEF SendCallback, IInv, TypeOK, WalkInv, Completed, Success
<1>2. \A d \in Callback : Completed(d)' <=> Completed(d)
  BY <1>1 DEF Completed
<1>3. doneBar' = doneBar
  BY <1>1, <1>2, DoneKept
<1>4. QED
  BY <1>1, <1>3, AskedKept DEF Alone!vars, stageBar, signedBar

LEMMA FlowsNext == IInv /\ [Next]_vars => [Alone!Next]_(Alone!vars)
<1> SUFFICES ASSUME IInv, [Next]_vars PROVE [Alone!Next]_(Alone!vars)
  OBVIOUS
<1>1. CASE UNCHANGED vars
  <2>1. doneBar' = doneBar
    BY <1>1, DoneKept DEF vars, Completed
  <2>2. QED
    BY <1>1, <2>1, AskedKept DEF vars, Alone!vars, stageBar, signedBar
<1>2. QED
  BY <1>1, StartImplements, SendImplements, HandleImplements, LostImplements,
     CookiesImplement DEF Next

LEMMA FlowsInit == Init => Alone!Init
<1> SUFFICES ASSUME Init PROVE Alone!Init
  OBVIOUS
<1>1. \A c \in Callback : ~Completed(c)
  BY DEF Init, Completed, Success
<1>2. doneBar = [f \in Flow |-> {}]
  BY <1>1 DEF doneBar, DoneBy
<1>3. QED
  BY <1>2 DEF Init, Alone!Init, stageBar, StageAt, askedBar, WishOf, signedBar, Only

\* start_oauth and oauth_callback, with the cookies all flows of a browser share and
\* callbacks that come any number of times, implement flows that share nothing and
\* whose callback comes once.
THEOREM FlowsAreAlone == Spec => ImplementsFlows
<1>1. Init => Alone!Init
  BY FlowsInit
<1>2. IInv /\ [Next]_vars => [Alone!Next]_(Alone!vars)
  BY FlowsNext
<1>3. QED
  BY <1>1, <1>2, Invariant, PTL DEF Spec, ImplementsFlows, Alone!Spec
\* What flows that share nothing keep.
AloneInv == Alone!TypeOK /\ Alone!DoneAsAsked /\ Alone!SignedByDone

LEMMA AloneKeeps == AloneInv /\ [Alone!Next]_(Alone!vars) => AloneInv'
<1> SUFFICES ASSUME AloneInv, [Alone!Next]_(Alone!vars) PROVE AloneInv'
  OBVIOUS
<1>1. ASSUME NEW f \in Flow, Alone!Ask(f) PROVE AloneInv'
  <2>1. Alone!TypeOK'
    BY <1>1 DEF AloneInv, Alone!Ask, Alone!TypeOK, Alone!Stage
  <2>2. (Alone!DoneAsAsked)'
    BY <1>1 DEF AloneInv, Alone!Ask, Alone!TypeOK, Alone!DoneAsAsked
  <2>3. (Alone!SignedByDone)'
    BY <1>1 DEF AloneInv, Alone!Ask, Alone!SignedByDone
  <2>4. QED
    BY <2>1, <2>2, <2>3 DEF AloneInv
<1>2. ASSUME NEW f \in Flow, Alone!Allow(f) \/ Alone!End(f) PROVE AloneInv'
  <2>1. Alone!TypeOK'
    BY <1>2 DEF AloneInv, Alone!Allow, Alone!End, Alone!TypeOK, Alone!Stage
  <2>2. (Alone!DoneAsAsked)'
    BY <1>2 DEF AloneInv, Alone!Allow, Alone!End, Alone!TypeOK, Alone!DoneAsAsked
  <2>3. (Alone!SignedByDone)'
    BY <1>2 DEF AloneInv, Alone!Allow, Alone!End, Alone!SignedByDone
  <2>4. QED
    BY <2>1, <2>2, <2>3 DEF AloneInv
<1>3. ASSUME NEW f \in Flow, Alone!Complete(f) PROVE AloneInv'
  <2>1. PICK c \in Callback, d \in Alone!Due(f) :
          doneBar' = [doneBar EXCEPT ![f] = {[by |-> c, deed |-> d]}]
    BY <1>3 DEF Alone!Complete
  <2>2. /\ stageBar[f] = "allowed" /\ doneBar[f] = {}
        /\ UNCHANGED <<stageBar, askedBar, signedBar>>
    BY <1>3 DEF Alone!Complete
  <2>3. d \in Alone!Deed /\ (askedBar[f].checked => d = askedBar[f].deed)
    BY <2>1, <2>2 DEF Alone!Due, AloneInv, Alone!TypeOK, Alone!Wish
  <2>4. Alone!TypeOK'
    BY <2>1, <2>2, <2>3 DEF AloneInv, Alone!TypeOK
  <2>5. (Alone!DoneAsAsked)'
    BY <2>1, <2>2, <2>3 DEF AloneInv, Alone!TypeOK, Alone!DoneAsAsked
  <2>6. (Alone!SignedByDone)'
    <3>1. ASSUME NEW b \in Browser, signedBar[b] # NoFlow
          PROVE  doneBar'[signedBar[b]] = doneBar[signedBar[b]]
      BY <2>1, <2>2, <3>1 DEF AloneInv, Alone!TypeOK, Alone!SignedByDone
    <3>2. QED
      BY <2>2, <3>1 DEF AloneInv, Alone!SignedByDone
  <2>7. QED
    BY <2>4, <2>5, <2>6 DEF AloneInv
<1>4. ASSUME NEW f \in Flow, Alone!Receive(f) PROVE AloneInv'
  <2>1. PICK x \in doneBar[f] :
          /\ x.deed.kind = "session"
          /\ signedBar' = [signedBar EXCEPT ![x.deed.browser] = f]
    BY <1>4 DEF Alone!Receive
  <2>2. UNCHANGED <<stageBar, askedBar, doneBar>>
    BY <1>4 DEF Alone!Receive
  <2>3. Alone!TypeOK' /\ (Alone!DoneAsAsked)'
    BY <2>1, <2>2 DEF AloneInv, Alone!TypeOK, Alone!DoneAsAsked
  <2>4. (Alone!SignedByDone)'
    BY <2>1, <2>2 DEF AloneInv, Alone!TypeOK, Alone!SignedByDone
  <2>5. QED
    BY <2>3, <2>4 DEF AloneInv
<1>5. CASE UNCHANGED Alone!vars
  BY <1>5 DEF AloneInv, Alone!vars, Alone!TypeOK, Alone!DoneAsAsked, Alone!SignedByDone
<1>6. QED
  BY <1>1, <1>2, <1>3, <1>4, <1>5 DEF Alone!Next

LEMMA AloneStarts == Alone!Init => AloneInv
<1> SUFFICES ASSUME Alone!Init PROVE AloneInv
  OBVIOUS
<1>1. Alone!TypeOK
  BY DEF Alone!Init, Alone!TypeOK, Alone!Stage
<1>2. Alone!DoneAsAsked /\ Alone!SignedByDone
  BY DEF Alone!Init, Alone!DoneAsAsked, Alone!SignedByDone
<1>3. QED
  BY <1>1, <1>2 DEF AloneInv

\* oauth_callback signs a browser in with nothing but a flow that was completed in it;
\* with the check of state or PKCE, that is a flow which this browser had started, and
\* as a sign-in.
THEOREM SessionsAreAsked == Spec => [](Alone!SignedByDone /\ Alone!SignedInAsAsked)
<1>1. Spec => Alone!Spec
  BY FlowsAreAlone DEF ImplementsFlows
<1>2. Alone!Spec => []AloneInv
  BY AloneStarts, AloneKeeps, PTL DEF Alone!Spec
<1>3. AloneInv => Alone!SignedByDone /\ Alone!SignedInAsAsked
  <2> SUFFICES ASSUME AloneInv PROVE Alone!SignedInAsAsked
    BY DEF AloneInv
  <2>1. ASSUME NEW b \in Browser, signedBar[b] # NoFlow
        PROVE  /\ signedBar[b] \in Flow
               /\ \E x \in doneBar[signedBar[b]] :
                    x.deed.kind = "session" /\ x.deed.browser = b
    BY <2>1 DEF AloneInv, Alone!TypeOK, Alone!SignedByDone
  <2>2. QED
    BY <2>1 DEF AloneInv, Alone!DoneAsAsked, Alone!SignedInAsAsked
<1>4. QED
  BY <1>1, <1>2, <1>3, PTL

=============================================================================
