--------------------------- MODULE DiscoveryProofs ---------------------------
(***************************************************************************)
(* The once-cell of Discovery, for any number of callers, documents and    *)
(* outages.  The invariant ties the three things the cell is made of: the  *)
(* permit names the one caller that fetches, a fetch only runs while the   *)
(* cell is empty, and endpoints were only ever taken from what is in it.   *)
(***************************************************************************)
EXTENDS EndpointsRefine, FiniteSetTheorems, SequenceTheorems, TLAPS


\* Only the holder of the permit fetches, and only for an empty cell.
FetchesHoldPermit ==
  \A c \in Caller : pc[c] = "fetching" => permit = c /\ cell = NoDoc

ReadFromCell == \A d \in read : d = cell

\* A request that runs while the issuer is down is known to have been hurt.
OutagesNoticed == \A c \in Caller : pc[c] \in Running /\ issuer = Down => c \in hurt

\* Discovery has been done, or there is none to do, when the code is exchanged.
ExchangesAreDiscovered ==
  \A c \in Caller : pc[c] = "exchange" /\ HasIssuer => discover_is_noop \/ cell # NoDoc

\* Nobody waits for a document, or fetches one, that nobody needs.
AsksAreNeeded ==
  \A c \in Caller : pc[c] \in {"waiting", "fetching"} => ~discover_is_noop

IInv ==
  /\ TypeOK
  /\ AsksAreNeeded
  /\ FetchesHoldPermit
  /\ ReadFromCell
  /\ OutagesNoticed
  /\ ExchangesAreDiscovered
  /\ UndiscoveredOnlyIfDown
  /\ MissingOnlyIfNamedNowhere
  /\ EmptyProfileOnlyIfUnnamed

-----------------------------------------------------------------------------

\* The queue without a caller is a queue of callers.
LEMMA WithoutType ==
  ASSUME NEW q \in Seq(Caller), NEW c \in Caller
  PROVE  Without(q, c) \in Seq(Caller)
  <1>1. CASE \A i \in DOMAIN q : q[i] # c
    BY <1>1 DEF Without
  <1>2. CASE ~\A i \in DOMAIN q : q[i] # c
    <2> DEFINE w == [j \in 1 .. (Len(q) - 1) |->
                      IF \A i \in 1 .. j : q[i] # c THEN q[j] ELSE q[j + 1]]
    <2>1. Len(q) - 1 \in Nat
      BY <1>2
    <2>2. \A j \in 1 .. (Len(q) - 1) : q[j] \in Caller /\ q[j + 1] \in Caller
      BY <2>1
    <2>3. w \in [1 .. (Len(q) - 1) -> Caller]
      BY <2>2
    <2>4. w \in Seq(Caller)
      BY <2>1, <2>3, IsASeq
    <2> QED BY <1>2, <2>4 DEF Without
  <1> QED BY <1>1, <1>2

LEMMA InitIInv == Init => IInv
  BY DiscoveryAssumption
  DEF Init, IInv, TypeOK, FetchesHoldPermit, ReadFromCell, OutagesNoticed,
      UndiscoveredOnlyIfDown, MissingOnlyIfNamedNowhere,
      EmptyProfileOnlyIfUnnamed, ExchangesAreDiscovered, AsksAreNeeded, Kind, Running, Outcome

\* What a handler does once discover has returned with doc, when doc is what the
\* cell holds from now on: it reads from doc alone, leaves the permit's holders
\* alone, and is refused only for an endpoint that is named nowhere.
LEMMA Goes ==
  ASSUME NEW c \in Caller, NEW k \in Kind, NEW doc \in Document \cup {NoDoc}, TypeOK,
         HasIssuer => discover_is_noop \/ doc # NoDoc,
         AfterDiscover(c, k, doc)
  PROVE  /\ pc' \in [Caller -> Running \cup Outcome \cup {"idle"}]
         /\ \A d \in Caller \ {c} : pc'[d] = pc[d]
         /\ pc'[c] \in {"redirected", "exchange", "no_endpoint"}
         /\ pc'[c] = "no_endpoint" =>
              LET e == IF k = "start" THEN "authorization" ELSE "token" IN
              e \notin configured /\ (HasIssuer => doc # NoDoc /\ e \notin Names[doc])
         /\ read' \in SUBSET Document
         /\ read' \subseteq read \cup {doc}
         /\ doc = NoDoc => read' = read
  <1>1. CASE k = "start"
    BY <1>1 DEF AfterDiscover, Goto, EndpointIn, TakenFrom, discover_is_noop, TypeOK,
                Running, Outcome, Kind
  <1>2. CASE k = "callback"
    BY <1>2 DEF AfterDiscover, Goto, EndpointIn, TakenFrom, discover_is_noop, TypeOK,
                Running, Outcome, Kind
  <1> QED BY <1>1, <1>2 DEF Kind

-----------------------------------------------------------------------------

LEMMA NextIInv == IInv /\ [Next]_vars => IInv'
  <1> SUFFICES ASSUME IInv, [Next]_vars PROVE IInv'
    OBVIOUS
  <1> USE DEF IInv
  <1>0. \A c \in Caller : Without(queue, c) \in Seq(Caller) /\ Append(queue, c) \in Seq(Caller)
    BY WithoutType DEF TypeOK
  <1>1. ASSUME NEW c \in Caller, discover(c) PROVE IInv'
    <2>1. PICK k \in Kind :
            /\ kind' = [kind EXCEPT ![c] = k]
            /\ IF discover_is_noop \/ cell # NoDoc
               THEN AfterDiscover(c, k, cell) /\ UNCHANGED queue
               ELSE /\ Goto(c, "waiting")
                    /\ queue' = Append(queue, c)
                    /\ UNCHANGED read
      BY <1>1 DEF discover
    <2>2. /\ hurt' = IF issuer = Down THEN hurt \cup {c} ELSE hurt \ {c}
          /\ UNCHANGED <<configured, issuer, cell, permit>>
          /\ pc[c] = "idle"
      BY <1>1 DEF discover
    <2>3. CASE discover_is_noop \/ cell # NoDoc
      <3>1. AfterDiscover(c, k, cell) /\ queue' = queue
        BY <2>1, <2>3
      <3>2. cell \in Document \cup {NoDoc}
        BY DEF TypeOK
      <3>3. /\ pc' \in [Caller -> Running \cup Outcome \cup {"idle"}]
            /\ \A d \in Caller \ {c} : pc'[d] = pc[d]
            /\ pc'[c] \in {"redirected", "exchange", "no_endpoint"}
            /\ pc'[c] = "no_endpoint" =>
                 LET e == IF k = "start" THEN "authorization" ELSE "token" IN
                 e \notin configured /\ (HasIssuer => cell # NoDoc /\ e \notin Names[cell])
            /\ read' \in SUBSET Document
            /\ read' \subseteq read \cup {cell}
            /\ cell = NoDoc => read' = read
        BY <3>1, <3>2, <2>3, Goes
      <3> QED BY <2>1, <2>2, <2>3, <3>1, <3>3
          DEF discover_is_noop, TypeOK, FetchesHoldPermit, ReadFromCell, OutagesNoticed,
              UndiscoveredOnlyIfDown, MissingOnlyIfNamedNowhere,
      EmptyProfileOnlyIfUnnamed, ExchangesAreDiscovered, AsksAreNeeded, Kind, Running
    <2>4. CASE ~(discover_is_noop \/ cell # NoDoc)
      <3>1. /\ Goto(c, "waiting") /\ UNCHANGED read
            /\ queue' \in Seq(Caller)
        BY <1>0, <2>1, <2>4
      <3>2. AsksAreNeeded'
        BY <2>2, <2>4, <3>1 DEF Goto, AsksAreNeeded, discover_is_noop, TypeOK
      <3> QED BY <2>1, <2>2, <3>1, <3>2
          DEF discover_is_noop, Goto, TypeOK, FetchesHoldPermit, ReadFromCell, OutagesNoticed,
              UndiscoveredOnlyIfDown, MissingOnlyIfNamedNowhere,
      EmptyProfileOnlyIfUnnamed, ExchangesAreDiscovered, Kind, Running, Outcome
    <2> QED BY <2>3, <2>4
  <1>2. ASSUME NEW c \in Caller, get_or_try_init(c) PROVE IInv'
    <2>1. /\ pc[c] = "waiting" /\ UNCHANGED <<configured, issuer, cell, kind, hurt>>
          /\ queue' \in Seq(Caller)
      BY <1>0, <1>2 DEF get_or_try_init
    <2>2. CASE /\ cell = NoDoc /\ permit = NoCaller /\ Head(queue) = c
               /\ permit' = c
               /\ Goto(c, "fetching")
               /\ UNCHANGED read
      BY <2>1, <2>2, DiscoveryAssumption
      DEF discover_is_noop, Goto, TypeOK, FetchesHoldPermit, ReadFromCell, OutagesNoticed,
          UndiscoveredOnlyIfDown, MissingOnlyIfNamedNowhere,
      EmptyProfileOnlyIfUnnamed, ExchangesAreDiscovered, AsksAreNeeded, Running, Outcome
    <2>3. CASE /\ cell # NoDoc
               /\ AfterDiscover(c, kind[c], cell)
               /\ UNCHANGED permit
      <3>1. kind[c] \in Kind /\ cell \in Document \cup {NoDoc}
        BY DEF TypeOK
      <3>2. /\ pc' \in [Caller -> Running \cup Outcome \cup {"idle"}]
            /\ \A d \in Caller \ {c} : pc'[d] = pc[d]
            /\ pc'[c] \in {"redirected", "exchange", "no_endpoint"}
            /\ pc'[c] = "no_endpoint" =>
                 LET e == IF kind[c] = "start" THEN "authorization" ELSE "token" IN
                 e \notin configured /\ (HasIssuer => cell # NoDoc /\ e \notin Names[cell])
            /\ read' \in SUBSET Document
            /\ read' \subseteq read \cup {cell}
        BY <2>3, <3>1, Goes
      <3> QED BY <2>1, <2>3, <3>2
          DEF discover_is_noop, TypeOK, FetchesHoldPermit, ReadFromCell, OutagesNoticed,
              UndiscoveredOnlyIfDown, MissingOnlyIfNamedNowhere,
      EmptyProfileOnlyIfUnnamed, ExchangesAreDiscovered, AsksAreNeeded, Running
    <2> QED BY <1>2, <2>2, <2>3 DEF get_or_try_init
  <1>3. ASSUME NEW c \in Caller, fetch_oidc_config(c) PROVE IInv'
    <2>1. /\ pc[c] = "fetching" /\ permit' = NoCaller
          /\ UNCHANGED <<configured, issuer, queue, kind, hurt>>
          /\ cell = NoDoc /\ permit = c /\ read = {}
          /\ \A d \in Caller \ {c} : pc[d] # "fetching"
      BY <1>3, DiscoveryAssumption
      DEF fetch_oidc_config, TypeOK, FetchesHoldPermit, ReadFromCell
    <2>2. CASE issuer # Down /\ cell' = issuer /\ AfterDiscover(c, kind[c], issuer)
      <3>1. kind[c] \in Kind /\ issuer \in Document /\ issuer # NoDoc
        BY <2>2, DiscoveryAssumption DEF TypeOK
      <3>2. /\ pc' \in [Caller -> Running \cup Outcome \cup {"idle"}]
            /\ \A d \in Caller \ {c} : pc'[d] = pc[d]
            /\ pc'[c] \in {"redirected", "exchange", "no_endpoint"}
            /\ pc'[c] = "no_endpoint" =>
                 LET e == IF kind[c] = "start" THEN "authorization" ELSE "token" IN
                 e \notin configured
                   /\ (HasIssuer => issuer # NoDoc /\ e \notin Names[issuer])
            /\ read' \in SUBSET Document
            /\ read' \subseteq read \cup {issuer}
        BY <2>2, <3>1, Goes
      <3> QED BY <2>1, <2>2, <3>1, <3>2
          DEF discover_is_noop, TypeOK, FetchesHoldPermit, ReadFromCell, OutagesNoticed,
              UndiscoveredOnlyIfDown, MissingOnlyIfNamedNowhere,
      EmptyProfileOnlyIfUnnamed, ExchangesAreDiscovered, AsksAreNeeded, Running
    <2>3. CASE issuer = Down /\ Goto(c, "undiscovered") /\ UNCHANGED <<cell, read>>
      BY <2>1, <2>3
      DEF discover_is_noop, Goto, TypeOK, FetchesHoldPermit, ReadFromCell, OutagesNoticed,
          UndiscoveredOnlyIfDown, MissingOnlyIfNamedNowhere,
      EmptyProfileOnlyIfUnnamed, ExchangesAreDiscovered, AsksAreNeeded, Running, Outcome
    <2> QED BY <1>3, <2>2, <2>3 DEF fetch_oidc_config
  <1>4. ASSUME NEW c \in Caller, exchange_code(c) PROVE IInv'
    <2>1. /\ pc[c] = "exchange"
          /\ UNCHANGED <<configured, issuer, cell, permit, queue, kind, hurt>>
          /\ pc' = [pc EXCEPT ![c] = pc'[c]]
          /\ pc'[c] \in {"userinfo", "empty_profile", "failed"}
          /\ pc'[c] = "empty_profile" => ~EndpointIn("userinfo", cell)
      BY <1>4 DEF exchange_code, Goto, TypeOK
    <2>2. /\ read' \in SUBSET Document
          /\ \A d \in read' : d = cell
      BY <1>4 DEF exchange_code, TakenFrom, TypeOK, ReadFromCell
    <2>3. /\ pc' \in [Caller -> Running \cup Outcome \cup {"idle"}]
          /\ \A d \in Caller \ {c} : pc'[d] = pc[d]
      BY <2>1 DEF TypeOK, Running, Outcome
    <2>4. HasIssuer => discover_is_noop \/ cell # NoDoc
      BY <2>1 DEF ExchangesAreDiscovered
    <2> QED BY <2>1, <2>2, <2>3, <2>4
        DEF EndpointIn, discover_is_noop, TypeOK, FetchesHoldPermit, ReadFromCell, OutagesNoticed,
            UndiscoveredOnlyIfDown, MissingOnlyIfNamedNowhere,
      EmptyProfileOnlyIfUnnamed, ExchangesAreDiscovered, AsksAreNeeded, Running, Outcome
  <1>5. ASSUME NEW c \in Caller, fetch_user_info(c) \/ Respond(c) PROVE IInv'
    <2>1. /\ UNCHANGED <<configured, issuer, cell, permit, queue, kind, read, hurt>>
          /\ pc' = [pc EXCEPT ![c] = pc'[c]]
          /\ pc'[c] \in {"profile", "failed", "idle"}
      BY <1>5 DEF fetch_user_info, Respond, Goto, TypeOK
    <2> QED BY <2>1
        DEF discover_is_noop, TypeOK, FetchesHoldPermit, ReadFromCell, OutagesNoticed,
            UndiscoveredOnlyIfDown, MissingOnlyIfNamedNowhere,
      EmptyProfileOnlyIfUnnamed, ExchangesAreDiscovered, AsksAreNeeded, Running, Outcome
  <1>6. ASSUME NEW c \in Caller, Cancel(c) PROVE IInv'
    BY <1>0, <1>6
    DEF discover_is_noop, Cancel, Goto, TypeOK, FetchesHoldPermit, ReadFromCell, OutagesNoticed,
        UndiscoveredOnlyIfDown, MissingOnlyIfNamedNowhere,
      EmptyProfileOnlyIfUnnamed, ExchangesAreDiscovered, AsksAreNeeded, Running, Outcome
  <1>7. ASSUME IssuerChanges PROVE IInv'
    BY <1>7
    DEF discover_is_noop, IssuerChanges, TypeOK, FetchesHoldPermit, ReadFromCell, OutagesNoticed,
        UndiscoveredOnlyIfDown, MissingOnlyIfNamedNowhere,
      EmptyProfileOnlyIfUnnamed, ExchangesAreDiscovered, AsksAreNeeded
  <1>8. ASSUME UNCHANGED vars PROVE IInv'
    BY <1>8
    DEF discover_is_noop, vars, TypeOK, FetchesHoldPermit, ReadFromCell, OutagesNoticed,
        UndiscoveredOnlyIfDown, MissingOnlyIfNamedNowhere,
      EmptyProfileOnlyIfUnnamed, ExchangesAreDiscovered, AsksAreNeeded
  <1> QED BY <1>1, <1>2, <1>3, <1>4, <1>5, <1>6, <1>7, <1>8 DEF Next, Step

\* The inductive invariant holds in every reachable state.
THEOREM Invariant == Spec => []IInv
  BY InitIInv, NextIInv, PTL DEF Spec

\* TypeOK, the queue of the cell included: a caller that gives up leaves the others
\* in it.
THEOREM DiscoveryTyped == Spec => []TypeOK
  <1>1. IInv => TypeOK
    BY DEF IInv
  <1> QED BY <1>1, Invariant, PTL

\* OneFetchAtATime, for any number of callers: the permit of the once-cell keeps
\* the fetches of discover apart.
THEOREM FetchesAreSerial == Spec => []OneFetchAtATime
  <1>1. IInv => OneFetchAtATime
    <2> SUFFICES ASSUME IInv PROVE OneFetchAtATime
      OBVIOUS
    <2> DEFINE F == {c \in Caller : pc[c] = "fetching"}
    <2>1. F \subseteq {permit}
      BY DEF IInv, FetchesHoldPermit
    <2>2. IsFiniteSet({permit}) /\ Cardinality({permit}) = 1
      BY FS_Singleton
    <2>3. IsFiniteSet(F) /\ Cardinality(F) <= Cardinality({permit})
      BY <2>1, <2>2, FS_Subset
    <2>4. Cardinality(F) \in Nat
      BY <2>3, FS_CardinalityType
    <2> QED BY <2>2, <2>3, <2>4 DEF OneFetchAtATime
  <1> QED BY <1>1, Invariant, PTL

\* OneDocument: all endpoints that were ever used come from one document.
THEOREM EndpointsAgree == Spec => []OneDocument
  <1>1. IInv => OneDocument
    BY DEF IInv, ReadFromCell, OneDocument
  <1> QED BY <1>1, Invariant, PTL

\* UndiscoveredOnlyIfDown: no handler fails discovery for another one's bad luck.
THEOREM FailuresAreOwn == Spec => []UndiscoveredOnlyIfDown
  <1>1. IInv => UndiscoveredOnlyIfDown
    BY DEF IInv
  <1> QED BY <1>1, Invariant, PTL

\* MissingOnlyIfNamedNowhere: no handler is refused an endpoint that is there.
THEOREM RefusalsAreReal == Spec => []MissingOnlyIfNamedNowhere
  <1>1. IInv => MissingOnlyIfNamedNowhere
    BY DEF IInv
  <1> QED BY <1>1, Invariant, PTL

\* EmptyProfileOnlyIfUnnamed: what discovery is skipped for, or does not find, is the
\* only endpoint a sign-in does without.
THEOREM EmptyProfilesAreUnnamed == Spec => []EmptyProfileOnlyIfUnnamed
  <1>1. IInv => EmptyProfileOnlyIfUnnamed
    BY DEF IInv
  <1> QED BY <1>1, Invariant, PTL
-----------------------------------------------------------------------------
(* What the handlers are told *)

\* A caller has now asked for endpoint e and been told p of it.
Told(c, p, e) ==
  /\ phaseBar' = [phaseBar EXCEPT ![c] = p]
  /\ wantBar'  = [wantBar  EXCEPT ![c] = e]

\* Where a handler is, and for what, says what it asked for and was told.
LEMMA Bars ==
  ASSUME TypeOK, NEW c \in Caller, NEW l, NEW k \in Kind, NEW p, NEW w,
         Goto(c, l), kind' = [kind EXCEPT ![c] = k], PhaseAt(l) = p, WantAt(l, k) = w
  PROVE  Told(c, p, w)
  BY DEF TypeOK, phaseBar, wantBar, Goto, Told

LEMMA KindStays ==
  ASSUME TypeOK, NEW c \in Caller, kind' = kind
  PROVE  kind[c] \in Kind /\ kind' = [kind EXCEPT ![c] = kind[c]]
  BY DEF TypeOK

Wanted(k) == IF k = "start" THEN "authorization" ELSE "token"

\* After discover a handler has been told about the endpoint it needs.
LEMMA Tells ==
  ASSUME TypeOK, NEW c \in Caller, NEW k \in Kind, NEW doc,
         AfterDiscover(c, k, doc), kind' = [kind EXCEPT ![c] = k]
  PROVE  Told(c, Once!Verdict(Wanted(k), doc), Wanted(k))
  <1>1. PICK l \in {"redirected", "exchange", "no_endpoint"} :
          /\ Goto(c, l)
          /\ PhaseAt(l) = Once!Verdict(Wanted(k), doc)
          /\ WantAt(l, k) = Wanted(k)
    BY DEF AfterDiscover, Goto, PhaseAt, WantAt, Wanted, EndpointIn, Once!Verdict,
           Once!NamedBy
  <1> QED BY <1>1, Bars

LEMMA SettledBar == Once!Settled <=> discover_is_noop \/ cell # NoDoc
  BY DEF Once!Settled, discover_is_noop

\* A handler that waits or fetches is asking for the endpoint that it needs.
LEMMA AsksForWanted ==
  ASSUME TypeOK, NEW c \in Caller, pc[c] \in {"waiting", "fetching"}
  PROVE  phaseBar[c] = "asking" /\ wantBar[c] = Wanted(kind[c])
  BY DEF phaseBar, wantBar, PhaseAt, WantAt, Wanted

LEMMA StillAsked ==
  ASSUME NEW c \in Caller, NEW p, NEW w, wantBar[c] = w, Told(c, p, w)
  PROVE  wantBar' = wantBar /\ (phaseBar[c] = p => phaseBar' = phaseBar)
  BY DEF Told, wantBar, phaseBar

LEMMA DiscoverAsks ==
  ASSUME IInv, NEW c \in Caller, discover(c)
  PROVE  Once!Ask(c)
  <1>1. PICK k \in Kind :
          /\ kind' = [kind EXCEPT ![c] = k]
          /\ IF discover_is_noop \/ cell # NoDoc
             THEN AfterDiscover(c, k, cell) /\ UNCHANGED queue
             ELSE /\ Goto(c, "waiting")
                  /\ queue' = Append(queue, c)
                  /\ UNCHANGED read
    BY DEF discover
  <1>2. TypeOK /\ pc[c] = "idle" /\ UNCHANGED <<configured, cell>>
    BY DEF discover, IInv
  <1>3. phaseBar[c] = "idle" /\ Wanted(k) \in Once!Endpoint
    BY <1>2 DEF phaseBar, PhaseAt, Wanted, Once!Endpoint
  <1>4. CASE Once!Settled
    <2>1. AfterDiscover(c, k, cell)
      BY <1>1, <1>4, SettledBar
    <2>2. Told(c, Once!Verdict(Wanted(k), cell), Wanted(k))
      BY <1>1, <1>2, <2>1, Tells
    <2> QED BY <1>2, <1>3, <1>4, <2>2 DEF Told, Once!Ask
  <1>5. CASE ~Once!Settled
    <2>1. Goto(c, "waiting")
      BY <1>1, <1>5, SettledBar
    <2>2. PhaseAt("waiting") = "asking" /\ WantAt("waiting", k) = Wanted(k)
      BY DEF PhaseAt, WantAt, Wanted
    <2>3. Told(c, "asking", Wanted(k))
      BY <1>1, <1>2, <2>1, <2>2, Bars
    <2> QED BY <1>2, <1>3, <1>5, <2>3 DEF Told, Once!Ask
  <1> QED BY <1>4, <1>5

\* Waiting for the permit, or for whoever holds it, asks for nothing new.
LEMMA WaiterIsAnswered ==
  ASSUME IInv, NEW c \in Caller, get_or_try_init(c)
  PROVE  Once!Answer(c) \/ UNCHANGED Once!vars
  <1>1. /\ TypeOK /\ pc[c] = "waiting" /\ UNCHANGED <<configured, kind, cell>>
    BY DEF get_or_try_init, IInv
  <1>2. phaseBar[c] = "asking" /\ wantBar[c] = Wanted(kind[c])
    BY <1>1, AsksForWanted
  <1>3. kind[c] \in Kind /\ kind' = [kind EXCEPT ![c] = kind[c]]
    BY <1>1, KindStays
  <1>4. CASE Goto(c, "fetching")
    <2>1. Goto(c, "fetching")
      BY <1>4
    <2>2. PhaseAt("fetching") = "asking" /\ WantAt("fetching", kind[c]) = Wanted(kind[c])
      BY DEF PhaseAt, WantAt, Wanted
    <2>3. Told(c, "asking", Wanted(kind[c]))
      BY <1>1, <1>3, <2>1, <2>2, Bars
    <2>4. phaseBar' = phaseBar /\ wantBar' = wantBar
      BY <1>2, <2>3, StillAsked
    <2> QED BY <1>1, <2>4 DEF Once!vars
  <1>5. CASE cell # NoDoc /\ AfterDiscover(c, kind[c], cell)
    <2>1. Told(c, Once!Verdict(Wanted(kind[c]), cell), Wanted(kind[c]))
      BY <1>1, <1>3, <1>5, Tells
    <2>2. wantBar' = wantBar /\ Once!Settled
      BY <1>2, <1>5, <2>1, StillAsked, SettledBar
    <2> QED BY <1>1, <1>2, <2>1, <2>2 DEF Told, Once!Answer
  <1> QED BY <1>4, <1>5 DEF get_or_try_init

LEMMA FetchSettles ==
  ASSUME IInv, NEW c \in Caller, fetch_oidc_config(c)
  PROVE  Once!Settle(c) \/ Once!Fail(c)
  <1>1. TypeOK /\ pc[c] = "fetching" /\ UNCHANGED <<configured, kind>>
    BY DEF fetch_oidc_config, IInv
  <1>2. phaseBar[c] = "asking" /\ wantBar[c] = Wanted(kind[c])
    BY <1>1, AsksForWanted
  <1>3. kind[c] \in Kind /\ kind' = [kind EXCEPT ![c] = kind[c]]
    BY <1>1, KindStays
  <1>4. ~Once!Settled
    BY <1>1, SettledBar DEF IInv, FetchesHoldPermit, AsksAreNeeded
  <1>5. CASE issuer # Down /\ cell' = issuer /\ AfterDiscover(c, kind[c], issuer)
    <2>1. Told(c, Once!Verdict(Wanted(kind[c]), issuer), Wanted(kind[c]))
      BY <1>1, <1>3, <1>5, Tells
    <2>2. wantBar' = wantBar /\ issuer \in Document
      BY <1>1, <1>2, <1>5, <2>1, StillAsked DEF TypeOK
    <2> QED BY <1>1, <1>2, <1>4, <1>5, <2>1, <2>2 DEF Told, Once!Settle
  <1>6. CASE Goto(c, "undiscovered") /\ cell' = cell
    <2>1. Goto(c, "undiscovered")
      BY <1>6
    <2>2. /\ PhaseAt("undiscovered") = "failed"
          /\ WantAt("undiscovered", kind[c]) = Wanted(kind[c])
      BY DEF PhaseAt, WantAt, Wanted
    <2>3. Told(c, "failed", Wanted(kind[c]))
      BY <1>1, <1>3, <2>1, <2>2, Bars
    <2>4. wantBar' = wantBar
      BY <1>2, <2>3, StillAsked
    <2> QED BY <1>1, <1>2, <1>4, <1>6, <2>3, <2>4 DEF Told, Once!Fail
  <1> QED BY <1>5, <1>6 DEF fetch_oidc_config

\* Whatever ends a request, or its last await, leaves the endpoints alone.
LEMMA GoesIdle ==
  ASSUME TypeOK, NEW c \in Caller, NEW l \in {"failed", "profile", "idle"}, Goto(c, l),
         UNCHANGED <<configured, cell, kind>>
  PROVE  Once!Leave(c)
  <1>1. kind[c] \in Kind /\ kind' = [kind EXCEPT ![c] = kind[c]]
    BY KindStays
  <1>2. PhaseAt(l) = "idle" /\ WantAt(l, kind[c]) = "none"
    BY DEF PhaseAt, WantAt
  <1>3. Told(c, "idle", "none")
    BY <1>1, <1>2, Bars
  <1> QED BY <1>3 DEF Told, Once!Leave

LEMMA ExchangeAsks ==
  ASSUME IInv, NEW c \in Caller, exchange_code(c)
  PROVE  Once!Ask(c) \/ Once!Leave(c)
  <1>1. TypeOK /\ pc[c] = "exchange" /\ UNCHANGED <<configured, cell, kind>>
    BY DEF exchange_code, IInv
  <1>2. CASE Goto(c, "failed")
    BY <1>1, <1>2, GoesIdle
  <1>3. CASE ~Goto(c, "failed")
    <2>1. PICK l \in {"userinfo", "empty_profile"} :
            /\ Goto(c, l)
            /\ PhaseAt(l) = Once!Verdict("userinfo", cell)
            /\ WantAt(l, kind[c]) = "userinfo"
      BY <1>3 DEF exchange_code, Goto, PhaseAt, WantAt, EndpointIn, Once!Verdict, Once!NamedBy
    <2>2. kind[c] \in Kind /\ kind' = [kind EXCEPT ![c] = kind[c]]
      BY <1>1, KindStays
    <2>3. Told(c, Once!Verdict("userinfo", cell), "userinfo")
      BY <1>1, <2>1, <2>2, Bars
    <2>4. phaseBar[c] = "given" /\ "userinfo" \in Once!Endpoint
      BY <1>1 DEF phaseBar, PhaseAt, Once!Endpoint
    <2>5. Once!Settled
      BY <1>1, SettledBar DEF IInv, ExchangesAreDiscovered, discover_is_noop
    <2> QED BY <1>1, <2>3, <2>4, <2>5 DEF Told, Once!Ask
  <1> QED BY <1>2, <1>3

LEMMA EndpointsNext == IInv /\ [Next]_vars => [Once!Next]_(Once!vars)
  <1> SUFFICES ASSUME IInv, [Next]_vars PROVE [Once!Next]_(Once!vars)
    OBVIOUS
  <1>0. TypeOK
    BY DEF IInv
  <1>1. ASSUME NEW c \in Caller, discover(c) PROVE Once!Next
    BY <1>1, DiscoverAsks DEF Once!Next
  <1>2. ASSUME NEW c \in Caller, get_or_try_init(c) PROVE [Once!Next]_(Once!vars)
    BY <1>2, WaiterIsAnswered DEF Once!Next
  <1>3. ASSUME NEW c \in Caller, fetch_oidc_config(c) PROVE Once!Next
    BY <1>3, FetchSettles DEF Once!Next
  <1>4. ASSUME NEW c \in Caller, exchange_code(c) PROVE Once!Next
    BY <1>4, ExchangeAsks DEF Once!Next
  <1>5. ASSUME NEW c \in Caller, fetch_user_info(c) \/ Respond(c) \/ Cancel(c)
        PROVE  Once!Next
    <2>1. PICK l \in {"failed", "profile", "idle"} : Goto(c, l)
      BY <1>5 DEF fetch_user_info, Respond, Cancel
    <2>2. UNCHANGED <<configured, cell, kind>>
      BY <1>5 DEF fetch_user_info, Respond, Cancel
    <2> QED BY <1>0, <2>1, <2>2, GoesIdle DEF Once!Next
  <1>6. CASE IssuerChanges \/ UNCHANGED vars
    BY <1>6 DEF IssuerChanges, vars, Once!vars, phaseBar, wantBar
  <1> QED BY <1>1, <1>2, <1>3, <1>4, <1>5, <1>6 DEF Next, Step

\* ImplementsEndpoints: the handlers that share a provider, with their queue, their
\* fetches and the issuer's outages, act on the endpoints of one document.
THEOREM EndpointsAreOnce == Spec => ImplementsEndpoints
  <1>1. Init => Once!Init
    BY DEF Init, Once!Init, phaseBar, wantBar, PhaseAt, WantAt, Once!Endpoint
  <1>2. IInv /\ [Next]_vars => [Once!Next]_(Once!vars)
    BY EndpointsNext
  <1> QED BY <1>1, <1>2, Invariant, PTL DEF Spec, ImplementsEndpoints, Once!Spec

OnceInv == Once!TypeOK /\ Once!AnswersStand

LEMMA OnceKeeps == OnceInv /\ [Once!Next]_(Once!vars) => OnceInv'
  <1> SUFFICES ASSUME OnceInv, [Once!Next]_(Once!vars) PROVE OnceInv'
    OBVIOUS
  <1> USE DEF OnceInv, Once!TypeOK, Once!AnswersStand, Once!Settled, Once!Verdict,
              Once!NamedBy, Once!Phase
  <1>1. ASSUME NEW c \in Caller, Once!Ask(c) PROVE OnceInv'
    BY <1>1 DEF Once!Ask
  <1>2. ASSUME NEW c \in Caller, Once!Answer(c) PROVE OnceInv'
    BY <1>2 DEF Once!Answer
  <1>3. ASSUME NEW c \in Caller, Once!Settle(c) PROVE OnceInv'
    BY <1>3, DiscoveryAssumption DEF Once!Settle
  <1>4. ASSUME NEW c \in Caller, Once!Fail(c) \/ Once!Leave(c) PROVE OnceInv'
    BY <1>4 DEF Once!Fail, Once!Leave
  <1>5. CASE UNCHANGED Once!vars
    BY <1>5 DEF Once!vars
  <1> QED BY <1>1, <1>2, <1>3, <1>4, <1>5 DEF Once!Next

\* What OAuthProvider::endpoint gave a handler, or found to be missing, is what the
\* configuration and the document say for as long as the handler acts on it.
THEOREM AnswersAreKept == Spec => []Once!AnswersStand
  <1>1. Spec => Once!Spec
    BY EndpointsAreOnce DEF ImplementsEndpoints
  <1>2. Once!Init => OnceInv
    BY DiscoveryAssumption
    DEF Once!Init, OnceInv, Once!TypeOK, Once!AnswersStand, Once!Phase, Once!Endpoint, Endpoint
  <1>3. OnceInv => Once!AnswersStand
    BY DEF OnceInv
  <1> QED BY <1>1, <1>2, <1>3, OnceKeeps, PTL DEF Once!Spec
=============================================================================
