------------------------- MODULE WsStreamingProofs -------------------------
(***************************************************************************)
(* Theorems about WsStreaming.tla, for every number of signals and every   *)
(* device.  First what the operators compute, then the inductive invariant *)
(* TypeInv part by part, and what rests on it: the subscription count, the *)
(* timer, and what openDAQ is told; then the order in which signals are    *)
(* published and the domain links openDAQ gets: deferral, links without    *)
(* cycles, and the catalogue of SignalCatalogue.tla; and last the waits: a *)
(* held subscription and a deferred signal are granted a whole run of the  *)
(* sweep timer, whenever they began to wait.                               *)
(***************************************************************************)
EXTENDS WsStreaming, WellFoundedInduction, TLAPS

-----------------------------------------------------------------------------
(* Reached(roots, dom, waiting): the signals published along with `roots`. *)

\* The signals publication starts from are published.
LEMMA ReachedContains ==
  ASSUME NEW roots \in SUBSET Signal, NEW dom, NEW waiting \in SUBSET Signal
  PROVE  roots \subseteq Reached(roots, dom, waiting)
BY DEF Reached

\* Every signal deferred on a published one is published with it.
LEMMA ReachedClosed ==
  ASSUME NEW roots \in SUBSET Signal, NEW dom, NEW waiting \in SUBSET Signal,
         NEW w \in waiting, dom[w] \in Reached(roots, dom, waiting)
  PROVE  w \in Reached(roots, dom, waiting)
BY DEF Reached

\* Nothing else is: a set that contains the roots and is closed contains them all.
LEMMA ReachedLeast ==
  ASSUME NEW roots, NEW dom, NEW waiting, NEW T \in SUBSET Signal,
         roots \subseteq T, {w \in waiting : dom[w] \in T} \subseteq T
  PROVE  Reached(roots, dom, waiting) \subseteq T
BY DEF Reached

\* What is published was a root or was waiting.
LEMMA ReachedBound ==
  ASSUME NEW roots \in SUBSET Signal, NEW dom, NEW waiting \in SUBSET Signal
  PROVE  /\ Reached(roots, dom, waiting) \subseteq roots \cup waiting
         /\ Reached(roots, dom, waiting) \subseteq Signal
<1>1. {w \in waiting : dom[w] \in roots \cup waiting} \subseteq roots \cup waiting
  OBVIOUS
<1> QED BY <1>1, ReachedLeast

\* Without roots nothing is published.
LEMMA ReachedFromNone ==
  ASSUME NEW dom, NEW waiting
  PROVE  Reached({}, dom, waiting) = {}
<1>1. Reached({}, dom, waiting) \subseteq {}
  BY ReachedLeast
<1> QED BY <1>1

-----------------------------------------------------------------------------
(* The inductive invariant.                                                *)

\* The wait of an entry that may still be counted is not over.
WaitsBounded ==
  \A s \in Signal : s \notin published \/ fetch[s] = "Held" => sweeps[s] \in 0 .. 1

TypeInv == TypeOK /\ FetchMatchesPublication /\ WaitsBounded

\* The streaming object starts out type correct, with an empty map.
LEMMA TypeInvInit == Init => TypeInv
BY SignalAssumption
   DEF Init, TypeInv, TypeOK, FetchMatchesPublication, WaitsBounded, NoSignal,
       FetchState, MaxAttempts, Request

\* What the metadata handlers have in common.
LEMMA DescribedTypeInv ==
  ASSUME TypeInv,
         NEW s \in known, NEW desc \in SUBSET known', NEW dom \in [Signal -> Signal \cup NoSignal],
         NEW first \in SUBSET known', first \cap published = {}, known \subseteq known', known' \subseteq Signal,
         described \subseteq desc, s \in desc,
         Described(s, desc, dom, first), Clock(FALSE)
  PROVE  TypeInv'
<1> DEFINE root == IF s \in published \/ MustDefer(dom[s], published \cup first)
                   THEN {} ELSE {s}
           new == first \cup Reached(root, dom, desc \ published)
<1>1. new \subseteq known' /\ new \cap published = {}
  <2>1. /\ root \subseteq {s} /\ root \in SUBSET Signal /\ root \cap published = {}
        /\ desc \ published \in SUBSET Signal
    BY DEF TypeInv, TypeOK
  <2>2. Reached(root, dom, desc \ published) \subseteq root \cup (desc \ published)
    BY <2>1, ReachedBound
  <2> QED BY <2>1, <2>2
<1>2. /\ described' = desc /\ domain' = dom /\ published' = published \cup new
      /\ parent' = [t \in Signal |-> IF t \in new THEN ParentOf(dom[t], published \cup new)
                                                  ELSE parent[t]]
      /\ fetch' = [t \in Signal |-> IF t \in new THEN FetchOncePublished(fetch[t])
                                                 ELSE fetch[t]]
      /\ attempts' = [t \in Signal |-> IF t \in new THEN 0 ELSE attempts[t]]
      /\ sweeps' = [t \in Signal |-> IF t \in new THEN 0 ELSE sweeps[t]]
      /\ timer' \in {timer, Arm(timer)}
      /\ UNCHANGED <<subscribed, acked, appVars, wireVars>>
  BY DEF Described, ArmIf
<1> HIDE DEF new
<1>3. heldFull' \subseteq Signal /\ deferFull' \subseteq Signal
  BY <1>1, <1>2 DEF Clock, Held, Deferred, TypeInv, TypeOK
<1>4. TypeOK'
  BY <1>1, <1>2, <1>3
  DEF TypeInv, TypeOK, NoSignal, ParentOf, FetchOncePublished, FetchState, MaxAttempts,
      Arm, appVars, wireVars
<1>5. FetchMatchesPublication'
  BY <1>1, <1>2
  DEF TypeInv, TypeOK, FetchMatchesPublication, FetchOncePublished, FetchState
<1>6. WaitsBounded'
  BY <1>1, <1>2
  DEF TypeInv, TypeOK, WaitsBounded
<1> QED BY <1>4, <1>5, <1>6 DEF TypeInv

\* The sweep publishes known, unpublished entries only.
LEMMA SweepPublishes ==
  ASSUME TypeOK, NEW expired \in SUBSET Deferred
  PROVE  /\ Reached(expired, domain, Deferred) \subseteq known
         /\ Reached(expired, domain, Deferred) \cap published = {}
         /\ Reached(expired, domain, Deferred) \subseteq described
<1>1. Deferred \in SUBSET Signal /\ expired \in SUBSET Signal
  BY DEF Deferred, TypeOK
<1>2. Reached(expired, domain, Deferred) \subseteq expired \cup Deferred
  BY <1>1, ReachedBound
<1> QED BY <1>2 DEF Deferred, TypeOK

\* onInitialFetchSweep() preserves the invariant: above all, no wait outlasts
\* its second sweep.
LEMMA SweepTypeInv == TypeInv /\ InitialFetchSweep => TypeInv'
<1> SUFFICES ASSUME TypeInv, InitialFetchSweep PROVE TypeInv'
  OBVIOUS
<1> DEFINE expired == {s \in Deferred : WaitEnds(sweeps[s])}
           new == Reached(expired, domain, Deferred)
           Later(s) == \E x \in expired : x < s /\ s \in Reached({x}, domain, Deferred)
           roots == {x \in expired : ~Later(x)}
           released == {s \in published : fetch[s] = "Held" /\ WaitEnds(sweeps[s])}
           silent == {s \in known : /\ s \notin published /\ s \notin described
                                    /\ fetch[s] = "Fetching"}
           retried == {s \in silent : MayRetry(attempts[s])}
           counted == {s \in published : fetch[s] = "Held"} \cup Deferred
<1>1. new \subseteq known /\ new \cap published = {} /\ new \subseteq described
  BY SweepPublishes DEF TypeInv
<1>2. \A s \in Deferred : WaitEnds(sweeps[s]) => s \in new
  BY ReachedContains DEF Deferred, TypeInv, TypeOK
<1>3. roots \subseteq new
  BY <1>2
<1>4. /\ UNCHANGED <<known, described, domain, subscribed, acked, appVars, share>>
      /\ published' = published \cup new
      /\ parent' = [s \in Signal |->
           CASE s \in roots -> ParentOf(domain[s], published)
             [] s \in new \ roots -> domain[s]
             [] OTHER -> parent[s]]
      /\ fetch' = [s \in Signal |->
           CASE s \in new -> FetchOncePublished(fetch[s])
             [] s \in retried -> "AwaitingRetry"
             [] s \in (silent \ retried) \cup released -> "None"
             [] OTHER -> fetch[s]]
      /\ attempts' = [s \in Signal |->
           CASE s \in new \cup (silent \ retried) -> 0
             [] s \in retried -> AttemptsAfter(attempts[s])
             [] OTHER -> attempts[s]]
      /\ sweeps' = [s \in Signal |->
           CASE s \in new -> IF Later(s) /\ fetch[s] = "Fetching" THEN 1 ELSE 0
             [] s \in counted \ new -> sweeps[s] + 1
             [] OTHER -> sweeps[s]]
      /\ wire' = [s \in Signal |->
           IF s \in silent \cup released THEN wire[s] - 1 ELSE wire[s]]
      /\ timer' = TimerAfterSweep(retried # {}, AnyPending(fetch', described, published'))
      /\ Clock(TRUE)
  BY DEF InitialFetchSweep
<1> HIDE DEF new, Later, roots
<1>5. published' \subseteq known' /\ known' = known /\ known \subseteq Signal
  BY <1>1, <1>4 DEF TypeInv, TypeOK
<1>6. fetch' \in [Signal -> FetchState]
  BY <1>4 DEF TypeInv, TypeOK, FetchOncePublished, FetchState
<1>7. attempts' \in [Signal -> 0 .. MaxAttempts]
  BY <1>4 DEF TypeInv, TypeOK, AttemptsAfter, MayRetry, MaxAttempts
<1>8. sweeps' \in [Signal -> 0 .. 2]
  BY <1>4 DEF TypeInv, TypeOK, WaitsBounded, Deferred
<1>9. parent' \in [Signal -> Signal \cup NoSignal]
  BY <1>4 DEF TypeInv, TypeOK, ParentOf, NoSignal
<1>10. wire' \in [Signal -> Int]
  BY <1>4 DEF TypeInv, TypeOK
<1>11. timer' \in {"Idle", "Sweep", "Resubscribe"}
  BY <1>4 DEF TimerAfterSweep
<1>12. heldFull' \subseteq Signal /\ deferFull' \subseteq Signal
  BY <1>4, <1>5 DEF Clock, Held, Deferred, TypeInv, TypeOK
<1>13. TypeOK'
  BY <1>4, <1>5, <1>6, <1>7, <1>8, <1>9, <1>10, <1>11, <1>12
  DEF TypeInv, TypeOK, appVars
<1>14. FetchMatchesPublication'
  BY <1>1, <1>4, <1>5
  DEF TypeInv, TypeOK, FetchMatchesPublication, FetchOncePublished
<1>15. WaitsBounded'
  <2> SUFFICES ASSUME NEW s \in Signal, s \notin published' \/ fetch'[s] = "Held"
               PROVE  sweeps'[s] \in 0 .. 1
    BY DEF WaitsBounded
  <2>1. CASE s \in new
    BY <2>1, <1>4
  <2>2. CASE s \notin new /\ s \notin published
    <3>1. s \in counted => s \in Deferred /\ ~WaitEnds(sweeps[s])
      BY <2>2, <1>2
    <3> QED BY <2>2, <3>1, <1>4 DEF WaitEnds, TypeInv, TypeOK, WaitsBounded
  <2>3. CASE s \notin new /\ s \in published
    <3>1. fetch[s] = "Held" /\ s \notin released
      BY <2>3, <1>4, <1>5, <1>6 DEF TypeInv, TypeOK, FetchMatchesPublication, FetchState
    <3> QED BY <2>3, <3>1, <1>4 DEF WaitEnds, TypeInv, TypeOK, WaitsBounded
  <2> QED BY <2>1, <2>2, <2>3
<1> QED BY <1>13, <1>14, <1>15 DEF TypeInv

\* The history of the running period ranges over signals.
LEMMA ClockTyped ==
  ASSUME NEW fired, Clock(fired), published' \subseteq Signal, described' \subseteq Signal,
         heldFull \subseteq Signal, deferFull \subseteq Signal
  PROVE  heldFull' \subseteq Signal /\ deferFull' \subseteq Signal
BY DEF Clock, Held, Deferred

\* The metadata handler preserves the invariant, whether the domain signal is
\* known, hidden, or hidden with its own metadata at hand.
LEMMA MetadataTypeInv ==
  ASSUME TypeInv, NEW s \in Signal, NEW b \in Signal, NEW d \in Signal \cup {NoDomain},
         Metadata(s, d) \/ MetadataFindsHidden(s, b) \/ MetadataFindsDescribed(s, b, d)
  PROVE  TypeInv'
<1>1. CASE Metadata(s, d)
  <2> DEFINE desc == described \cup {s}
             dom == [domain EXCEPT ![s] = d]
  <2>1. /\ s \in known /\ desc \in SUBSET known' /\ known \subseteq known'
        /\ known' \subseteq Signal /\ described \subseteq desc /\ s \in desc
    BY <1>1 DEF Metadata, TypeInv, TypeOK
  <2>2. dom \in [Signal -> Signal \cup NoSignal]
    BY DEF TypeInv, TypeOK, NoSignal
  <2>3. Described(s, desc, dom, {}) /\ Clock(FALSE)
    BY <1>1 DEF Metadata
  <2> HIDE DEF desc, dom
  <2>4. {} \in SUBSET known' /\ {} \cap published = {}
    OBVIOUS
  <2> QED BY <2>1, <2>2, <2>3, <2>4, DescribedTypeInv
<1>2. CASE MetadataFindsHidden(s, b)
  <2> DEFINE desc == described \cup {s}
             dom == [domain EXCEPT ![s] = b]
  <2>1. /\ s \in known /\ desc \in SUBSET known' /\ known \subseteq known'
        /\ known' \subseteq Signal /\ described \subseteq desc /\ s \in desc
    BY <1>2 DEF MetadataFindsHidden, TypeInv, TypeOK
  <2>2. dom \in [Signal -> Signal \cup NoSignal]
    BY DEF TypeInv, TypeOK, NoSignal
  <2>3. Described(s, desc, dom, {}) /\ Clock(FALSE)
    BY <1>2 DEF MetadataFindsHidden
  <2> HIDE DEF desc, dom
  <2>4. {} \in SUBSET known' /\ {} \cap published = {}
    OBVIOUS
  <2> QED BY <2>1, <2>2, <2>3, <2>4, DescribedTypeInv
<1>3. CASE MetadataFindsDescribed(s, b, d)
  <2> DEFINE first == IF MustDefer(d, published) THEN {} ELSE {b}
             desc == described \cup {s, b}
             dom == [domain EXCEPT ![s] = b, ![b] = d]
  <2>1. /\ s \in known /\ desc \in SUBSET known' /\ known \subseteq known'
        /\ known' \subseteq Signal /\ described \subseteq desc /\ s \in desc
    BY <1>3 DEF MetadataFindsDescribed, TypeInv, TypeOK
  <2>2. dom \in [Signal -> Signal \cup NoSignal]
    BY DEF TypeInv, TypeOK, NoSignal
  <2>3. Described(s, desc, dom, first) /\ Clock(FALSE)
    BY <1>3 DEF MetadataFindsDescribed
  <2>4. first \in SUBSET known' /\ first \cap published = {}
    BY <1>3 DEF MetadataFindsDescribed, TypeInv, TypeOK
  <2> HIDE DEF first, desc, dom
  <2> QED BY <2>1, <2>2, <2>3, <2>4, DescribedTypeInv
<1> QED BY <1>1, <1>2, <1>3

\* Serving a request leaves a queue of requests.
LEMMA RequestsTyped ==
  ASSUME NEW kind, NEW s, Serving(kind, s), requests \in Seq(Request)
  PROVE  requests' \in Seq(Request)
BY DEF Serving

\* Every handler preserves the invariant.
LEMMA TypeInvNext == TypeInv /\ [Next]_vars => TypeInv'
<1> SUFFICES ASSUME TypeInv, [Next]_vars PROVE TypeInv'
  OBVIOUS
<1> USE DEF TypeInv, TypeOK, FetchMatchesPublication, WaitsBounded
<1>1. ASSUME NEW s \in Signal, AvailableKnown(s) PROVE TypeInv'
  <2>1. heldFull' \subseteq Signal /\ deferFull' \subseteq Signal
    BY <1>1, ClockTyped DEF AvailableKnown, entryVars
  <2> QED BY <1>1, <2>1 DEF AvailableKnown, entryVars, appVars, wireVars
<1>2. ASSUME NEW s \in Signal, AvailableFetch(s) PROVE TypeInv'
  <2>1. heldFull' \subseteq Signal /\ deferFull' \subseteq Signal
    BY <1>2, ClockTyped DEF AvailableFetch
  <2> QED BY <1>2, <2>1 DEF AvailableFetch, NeedsFetch, appVars, Arm, FetchState, MaxAttempts
<1>3. ASSUME NEW s \in Signal, RemoteUnavailable(s) PROVE TypeInv'
  <2>1. heldFull' \subseteq Signal /\ deferFull' \subseteq Signal
    BY <1>3, ClockTyped DEF RemoteUnavailable
  <2>2. /\ domain' \in [Signal -> Signal \cup NoSignal]
        /\ parent' \in [Signal -> Signal \cup NoSignal]
    BY <1>3 DEF RemoteUnavailable, DomainsWithout, NoSignal
  <2>3. TypeOK'
    <3>1. /\ fetch' \in [Signal -> FetchState]
          /\ attempts' \in [Signal -> 0 .. MaxAttempts]
          /\ sweeps' \in [Signal -> 0 .. 2]
      BY <1>3 DEF RemoteUnavailable, Without, FetchState, MaxAttempts
    <3>2. wire' \in [Signal -> Int] /\ share' \in [Signal -> Int]
      BY <1>3 DEF RemoteUnavailable, Without
    <3>3. /\ known' \subseteq Signal /\ described' \subseteq known'
          /\ published' \subseteq known' /\ subscribed' \subseteq published'
          /\ acked' \subseteq Signal /\ wanted' \subseteq Signal
          /\ UNCHANGED <<timer, requests, phase>>
      BY <1>3 DEF RemoteUnavailable
    <3> QED BY <2>1, <2>2, <3>1, <3>2, <3>3
  <2>4. FetchMatchesPublication' /\ WaitsBounded'
    BY <1>3 DEF RemoteUnavailable, Without
  <2> QED BY <2>3, <2>4
<1>4. ASSUME NEW s \in Signal, RemoteSubscribed(s) PROVE TypeInv'
  <2>1. heldFull' \subseteq Signal /\ deferFull' \subseteq Signal
    BY <1>4, ClockTyped DEF RemoteSubscribed
  <2> QED BY <1>4, <2>1 DEF RemoteSubscribed, Acked, appVars, wireVars
<1>5. ASSUME NEW s \in Signal, RemoteUnsubscribed(s) PROVE TypeInv'
  <2>1. heldFull' \subseteq Signal /\ deferFull' \subseteq Signal
    BY <1>5, ClockTyped DEF RemoteUnsubscribed
  <2> QED BY <1>5, <2>1 DEF RemoteUnsubscribed, EndsHold, SubscribedWithout, Acked, appVars, FetchState
<1>6. ASSUME NEW s \in Signal, MetadataBad(s) PROVE TypeInv'
  <2>1. heldFull' \subseteq Signal /\ deferFull' \subseteq Signal
    BY <1>6, ClockTyped DEF MetadataBad
  <2> QED BY <1>6, <2>1 DEF MetadataBad, appVars, wireVars, NoSignal
<1>7. ASSUME NEW s \in Signal, AskSubscribe(s) PROVE TypeInv'
  <2>1. requests' \in Seq(Request)
    BY <1>7 DEF AskSubscribe, Request
  <2> QED BY <1>7, <2>1 DEF AskSubscribe, entryVars, wireVars
<1>8. ASSUME NEW s \in Signal, AskUnsubscribe(s) PROVE TypeInv'
  <2>1. requests' \in Seq(Request)
    BY <1>8 DEF AskUnsubscribe, Request
  <2> QED BY <1>8, <2>1 DEF AskUnsubscribe, entryVars, wireVars
<1>9. ASSUME NEW s \in Signal, SubscribeRefused(s) PROVE TypeInv'
  <2>1. requests' \in Seq(Request) /\ UNCHANGED <<known, described, published>>
    BY <1>9, RequestsTyped DEF SubscribeRefused, Serving
  <2>2. heldFull' \subseteq Signal /\ deferFull' \subseteq Signal
    BY <1>9, <2>1, ClockTyped DEF SubscribeRefused
  <2> QED BY <1>9, <2>1, <2>2 DEF SubscribeRefused, Serving, wireVars
<1>10. ASSUME NEW s \in Signal, SubscribeTakesOver(s) PROVE TypeInv'
  <2>1. requests' \in Seq(Request) /\ UNCHANGED <<known, described, published>>
    BY <1>10, RequestsTyped DEF SubscribeTakesOver, Serving
  <2>2. heldFull' \subseteq Signal /\ deferFull' \subseteq Signal
    BY <1>10, <2>1, ClockTyped DEF SubscribeTakesOver
  <2> QED BY <1>10, <2>1, <2>2 DEF SubscribeTakesOver, TakesOver, Serving, Acked, FetchState
<1>11. ASSUME NEW s \in Signal, SubscribeSent(s) PROVE TypeInv'
  <2>1. requests' \in Seq(Request) /\ UNCHANGED <<known, described, published>>
    BY <1>11, RequestsTyped DEF SubscribeSent, Serving
  <2>2. heldFull' \subseteq Signal /\ deferFull' \subseteq Signal
    BY <1>11, <2>1, ClockTyped DEF SubscribeSent
  <2> QED BY <1>11, <2>1, <2>2 DEF SubscribeSent, Serving
<1>12. ASSUME NEW s \in Signal, UnsubscribeServed(s) PROVE TypeInv'
  <2>1. requests' \in Seq(Request) /\ UNCHANGED <<known, described, published>>
    BY <1>12, RequestsTyped DEF UnsubscribeServed, Serving
  <2>2. heldFull' \subseteq Signal /\ deferFull' \subseteq Signal
    BY <1>12, <2>1, ClockTyped DEF UnsubscribeServed
  <2> QED BY <1>12, <2>1, <2>2 DEF UnsubscribeServed, Serving
<1>13. CASE InitialFetchResubscribe
  <2>1. heldFull' \subseteq Signal /\ deferFull' \subseteq Signal
    BY <1>13, ClockTyped DEF InitialFetchResubscribe
  <2> QED BY <1>13, <2>1
    DEF InitialFetchResubscribe, RetryDue, TimerAfterRetry, appVars, FetchState
<1>14. CASE Destroy \/ Teardown \/ Join
  BY <1>14 DEF Destroy, Teardown, Join, entryVars, wireVars
<1>15. CASE UNCHANGED vars
  BY <1>15 DEF vars, entryVars, appVars, wireVars
<1> QED
  BY <1>1, <1>2, <1>3, <1>4, <1>5, <1>6, <1>7, <1>8, <1>9, <1>10, <1>11, <1>12,
     <1>13, <1>14, <1>15, MetadataTypeInv, SweepTypeInv
  DEF Next, RemoteEvent, TimerEvent, ServeRequest, Application, Destroyed

\* The type invariant holds of every reachable state, for any number of
\* signals: in particular no entry is fetched more than three times in a row
\* and no counter of sweeps passes two.
THEOREM TypeCorrect == Spec => []TypeOK
<1>1. TypeInv => TypeOK
  BY DEF TypeInv
<1> QED BY TypeInvInit, TypeInvNext, <1>1, PTL DEF Spec

\* Fetch states agree with publication in every reachable state.
THEOREM FetchMatchesPublicationHolds == Spec => []FetchMatchesPublication
<1>1. TypeInv => FetchMatchesPublication
  BY DEF TypeInv
<1> QED BY TypeInvInit, TypeInvNext, <1>1, PTL DEF Spec

-----------------------------------------------------------------------------
(* What metadata does, in one form for its three actions.                  *)

\* The signals Described() publishes.
NewWith(s, desc, dom, first) ==
  first \cup Reached(IF s \in published \/ MustDefer(dom[s], published \cup first)
                     THEN {} ELSE {s}, dom, desc \ published)

\* A metadata handler for s, which may have discovered hidden signals: the
\* descriptors and domain links it leaves, and the signals `first` it published
\* on the way.
MetadataOf(s, desc, dom, first) ==
  /\ s \in known /\ known \subseteq known' /\ known' \subseteq Signal
  /\ desc \subseteq known' /\ described \subseteq desc /\ s \in desc
  /\ dom \in [Signal -> Signal \cup NoSignal]
  /\ first \subseteq desc \ known
  /\ \A t \in first : ~MustDefer(dom[t], published) /\ dom[t] \in known \cup {NoDomain}
  /\ \A t \in known \ {s} : dom[t] = domain[t]
  /\ dom[s] \in known' \cup {NoDomain}
  /\ \A t \in desc \ (described \cup {s} \cup first) :
       t \notin known /\ MustDefer(dom[t], published) /\ dom[t] \in known /\ dom[s] = t
  /\ Described(s, desc, dom, first)
  /\ Clock(FALSE)

\* Each of the three metadata actions is of that form.
LEMMA MetadataForm ==
  ASSUME TypeInv, NEW s \in Signal, NEW b \in Signal, NEW d \in Signal \cup {NoDomain},
         Metadata(s, d) \/ MetadataFindsHidden(s, b) \/ MetadataFindsDescribed(s, b, d)
  PROVE  \E desc, dom, first : MetadataOf(s, desc, dom, first)
<1>1. CASE Metadata(s, d)
  <2>1. MetadataOf(s, described \cup {s}, [domain EXCEPT ![s] = d], {})
    BY <1>1 DEF MetadataOf, Metadata, TypeInv, TypeOK, NoSignal
  <2> QED BY <2>1
<1>2. CASE MetadataFindsHidden(s, b)
  <2>1. MetadataOf(s, described \cup {s}, [domain EXCEPT ![s] = b], {})
    BY <1>2 DEF MetadataOf, MetadataFindsHidden, TypeInv, TypeOK, NoSignal
  <2> QED BY <2>1
<1>3. CASE MetadataFindsDescribed(s, b, d)
  <2> DEFINE dom == [domain EXCEPT ![s] = b, ![b] = d]
             first == IF MustDefer(d, published) THEN {} ELSE {b}
  <2>1. /\ s # b /\ dom[s] = b /\ dom[b] = d
        /\ dom \in [Signal -> Signal \cup NoSignal]
        /\ \A t \in known \ {s} : dom[t] = domain[t]
    BY <1>3 DEF MetadataFindsDescribed, TypeInv, TypeOK, NoSignal
  <2>2. d \in known \cup {NoDomain} /\ (d = NoDomain => ~MustDefer(d, published))
    BY <1>3 DEF MetadataFindsDescribed, MustDefer
  <2>3. /\ s \in known /\ b \notin known /\ known' = known \cup {b}
        /\ Described(s, described \cup {s, b}, dom, first) /\ Clock(FALSE)
    BY <1>3 DEF MetadataFindsDescribed
  <2> HIDE DEF dom
  <2>4. /\ first \subseteq (described \cup {s, b}) \ known
        /\ \A t \in first : ~MustDefer(dom[t], published) /\ dom[t] \in known \cup {NoDomain}
    BY <2>1, <2>2, <2>3
  <2>5. \A t \in (described \cup {s, b}) \ (described \cup {s} \cup first) :
          t = b /\ MustDefer(dom[t], published) /\ dom[t] \in known
    BY <2>1, <2>2, <2>3
  <2> HIDE DEF first
  <2>6. MetadataOf(s, described \cup {s, b}, dom, first)
    BY <2>1, <2>3, <2>4, <2>5 DEF MetadataOf, TypeInv, TypeOK
  <2> QED BY <2>6
<1> QED BY <1>1, <1>2, <1>3

\* What such a handler changes; only signals unknown to openDAQ are published.
LEMMA MetadataEffects ==
  ASSUME TypeInv, NEW s, NEW desc, NEW dom, NEW first, MetadataOf(s, desc, dom, first)
  PROVE  LET new == NewWith(s, desc, dom, first)
         IN  /\ new \subseteq desc /\ new \cap published = {}
             /\ described' = desc /\ domain' = dom /\ published' = published \cup new
             /\ parent' = [t \in Signal |-> IF t \in new THEN ParentOf(dom[t], published \cup new)
                                                         ELSE parent[t]]
             /\ fetch' = [t \in Signal |-> IF t \in new THEN FetchOncePublished(fetch[t])
                                                        ELSE fetch[t]]
             /\ sweeps' = [t \in Signal |-> IF t \in new THEN 0 ELSE sweeps[t]]
             /\ timer' = ArmIf(({s} \cup (desc \ described)) \ (published \cup new) # {}
                                 \/ new \cap Fetching # {}, timer)
             /\ UNCHANGED <<subscribed, acked, appVars, wireVars>>
<1> DEFINE root == IF s \in published \/ MustDefer(dom[s], published \cup first)
                   THEN {} ELSE {s}
<1>1. /\ root \in SUBSET Signal /\ root \subseteq desc /\ root \cap published = {}
      /\ desc \ published \in SUBSET Signal
      /\ first \subseteq desc /\ first \cap published = {}
  BY DEF MetadataOf, TypeInv, TypeOK
<1>2. Reached(root, dom, desc \ published) \subseteq root \cup (desc \ published)
  BY <1>1, ReachedBound
<1>3. Described(s, desc, dom, first)
  BY DEF MetadataOf
<1> QED BY <1>1, <1>2, <1>3 DEF Described, NewWith

-----------------------------------------------------------------------------
(* The subscription count.                                                 *)

\* The count agrees for signals without an entry as well.
WireInv ==
  \A s \in Signal :
    wire[s] = share[s] + (IF fetch[s] \in {"Fetching", "Held"} THEN 1 ELSE 0)

\* Every handler that takes up or gives back a fetch subscription moves the
\* fetch state with it.
LEMMA WireStep == TypeInv /\ WireInv /\ [Next]_vars => WireInv'
<1> SUFFICES ASSUME TypeInv, WireInv, [Next]_vars PROVE WireInv'
  OBVIOUS
<1> USE DEF TypeInv, TypeOK, WireInv
<1>1. ASSUME NEW s \in Signal,
             AvailableKnown(s) \/ RemoteSubscribed(s) \/ MetadataBad(s) \/ SubscribeRefused(s)
      PROVE  WireInv'
  BY <1>1
     DEF AvailableKnown, RemoteSubscribed, MetadataBad, SubscribeRefused, entryVars, wireVars
<1>2. ASSUME NEW s \in Signal, AvailableFetch(s) PROVE WireInv'
  <2>1. fetch[s] \notin {"Fetching", "Held"}
    BY <1>2 DEF AvailableFetch, NeedsFetch, FetchMatchesPublication
  <2> QED BY <1>2, <2>1 DEF AvailableFetch
<1>3. ASSUME NEW s \in Signal, RemoteUnavailable(s) PROVE WireInv'
  BY <1>3 DEF RemoteUnavailable, Without
<1>4. ASSUME NEW s \in Signal, RemoteUnsubscribed(s) PROVE WireInv'
  BY <1>4 DEF RemoteUnsubscribed, EndsHold
<1>5. ASSUME NEW s \in Signal, NEW b \in Signal, NEW d \in Signal \cup {NoDomain},
             Metadata(s, d) \/ MetadataFindsHidden(s, b) \/ MetadataFindsDescribed(s, b, d)
      PROVE  WireInv'
  <2>1. PICK desc, dom, first : MetadataOf(s, desc, dom, first)
    BY <1>5, MetadataForm
  <2> DEFINE new == NewWith(s, desc, dom, first)
  <2>2. /\ new \cap published = {}
        /\ fetch' = [t \in Signal |-> IF t \in new THEN FetchOncePublished(fetch[t])
                                                   ELSE fetch[t]]
        /\ UNCHANGED <<wire, share>>
    BY <2>1, MetadataEffects DEF wireVars
  <2> HIDE DEF new
  <2> QED BY <2>2 DEF FetchOncePublished, FetchMatchesPublication
<1>6. ASSUME NEW s \in Signal, SubscribeTakesOver(s) PROVE WireInv'
  BY <1>6 DEF SubscribeTakesOver, TakesOver
<1>7. ASSUME NEW s \in Signal, SubscribeSent(s) \/ UnsubscribeServed(s) PROVE WireInv'
  <2>1. CASE SubscribeSent(s)
    BY <2>1 DEF SubscribeSent
  <2>2. CASE UnsubscribeServed(s)
    <3>1. fetch' = fetch
      BY <2>2 DEF UnsubscribeServed
    <3>2. CASE s \in subscribed
      BY <2>2, <3>1, <3>2 DEF UnsubscribeServed
    <3>3. CASE s \notin subscribed
      BY <2>2, <3>1, <3>3 DEF UnsubscribeServed
    <3> QED BY <3>2, <3>3
  <2> QED BY <1>7, <2>1, <2>2
<1>8. CASE InitialFetchSweep
  <2> DEFINE expired == {t \in Deferred : WaitEnds(sweeps[t])}
             new == Reached(expired, domain, Deferred)
             released == {t \in published : fetch[t] = "Held" /\ WaitEnds(sweeps[t])}
             silent == {t \in known : /\ t \notin published /\ t \notin described
                                      /\ fetch[t] = "Fetching"}
             retried == {t \in silent : MayRetry(attempts[t])}
  <2>1. new \cap published = {} /\ new \subseteq described
    BY SweepPublishes
  <2>2. /\ fetch' = [t \in Signal |->
             CASE t \in new -> FetchOncePublished(fetch[t])
               [] t \in retried -> "AwaitingRetry"
               [] t \in (silent \ retried) \cup released -> "None"
               [] OTHER -> fetch[t]]
        /\ wire' = [t \in Signal |->
             IF t \in silent \cup released THEN wire[t] - 1 ELSE wire[t]]
        /\ share' = share
    BY <1>8 DEF InitialFetchSweep
  <2> HIDE DEF new
  <2>3. ASSUME NEW t \in new
        PROVE  t \notin silent \cup released /\ fetch[t] # "Held"
    BY <2>1 DEF FetchMatchesPublication, Deferred
  <2>4. \A t \in Signal :
          wire'[t] = share'[t] + (IF fetch'[t] \in {"Fetching", "Held"} THEN 1 ELSE 0)
    <3> SUFFICES ASSUME NEW t \in Signal
                 PROVE  wire'[t] = share'[t] + (IF fetch'[t] \in {"Fetching", "Held"} THEN 1 ELSE 0)
      OBVIOUS
    <3>1. CASE t \in new
      BY <3>1, <2>2, <2>3 DEF FetchOncePublished
    <3>2. CASE t \notin new /\ t \in silent
      <4>1. t \notin released /\ fetch[t] = "Fetching" /\ fetch'[t] \in {"AwaitingRetry", "None"}
        BY <3>2, <2>2
      <4>2. wire'[t] = wire[t] - 1 /\ share'[t] = share[t]
        BY <3>2, <2>2
      <4> HIDE DEF silent, retried, released
      <4> QED BY <4>1, <4>2
    <3>3. CASE t \notin new /\ t \in released
      <4>1. t \notin silent /\ fetch[t] = "Held" /\ fetch'[t] = "None"
        BY <3>3, <2>2
      <4>2. wire'[t] = wire[t] - 1 /\ share'[t] = share[t]
        BY <3>3, <2>2
      <4> HIDE DEF silent, retried, released
      <4> QED BY <4>1, <4>2
    <3>4. CASE t \notin new \cup silent \cup released
      <4>1. fetch'[t] = fetch[t] /\ wire'[t] = wire[t] /\ share'[t] = share[t]
        BY <3>4, <2>2
      <4> QED BY <4>1
    <3> QED BY <3>1, <3>2, <3>3, <3>4
  <2> QED BY <2>4
<1>9. CASE InitialFetchResubscribe
  BY <1>9 DEF InitialFetchResubscribe, RetryDue
<1>10. CASE Application \/ Destroy \/ Teardown \/ Join \/ UNCHANGED vars
  BY <1>10
     DEF Application, AskSubscribe, AskUnsubscribe, Destroy, Teardown, Join, vars, entryVars,
         wireVars
<1> QED
  BY <1>1, <1>2, <1>3, <1>4, <1>5, <1>6, <1>7, <1>8, <1>9, <1>10
     DEF Next, RemoteEvent, TimerEvent, ServeRequest, Destroyed

\* No wire subscription is leaked or given back twice, whatever the order of
\* fetch, retry, takeover, release and the device's own doings.
THEOREM WireCountConservedHolds == Spec => []WireCountConserved
<1>1. Init => WireInv
  BY DEF Init, WireInv
<1>2. TypeInv /\ WireInv => WireCountConserved
  BY DEF TypeInv, TypeOK, WireInv, WireCountConserved
<1> QED BY <1>1, <1>2, TypeInvInit, TypeInvNext, WireStep, PTL DEF Spec

-----------------------------------------------------------------------------
(* The timer.                                                              *)

\* Every handler that makes an entry pending arms the timer, and the timer's
\* own handlers arm it again as long as an entry is.
LEMMA TimerStep == TypeInv /\ SweepArmedWhilePending /\ [Next]_vars => SweepArmedWhilePending'
<1> SUFFICES ASSUME TypeInv, SweepArmedWhilePending, [Next]_vars,
                    AnyPending(fetch, described, published)'
             PROVE  timer' # "Idle"
  BY DEF SweepArmedWhilePending
<1> USE DEF SweepArmedWhilePending, AnyPending
<1>1. ASSUME NEW s \in Signal,
             \/ AvailableKnown(s) \/ RemoteSubscribed(s) \/ MetadataBad(s)
             \/ SubscribeRefused(s) \/ SubscribeSent(s) \/ UnsubscribeServed(s)
      PROVE  timer' # "Idle"
  BY <1>1
     DEF AvailableKnown, RemoteSubscribed, MetadataBad, SubscribeRefused, SubscribeSent,
         UnsubscribeServed, Serving, entryVars
<1>2. ASSUME NEW s \in Signal, AvailableFetch(s) PROVE timer' # "Idle"
  BY <1>2 DEF AvailableFetch, Arm
<1>3. ASSUME NEW s \in Signal, RemoteUnavailable(s) PROVE timer' # "Idle"
  BY <1>3 DEF RemoteUnavailable, Without, TypeInv, TypeOK, FetchMatchesPublication
<1>4. ASSUME NEW s \in Signal, RemoteUnsubscribed(s) PROVE timer' # "Idle"
  BY <1>4 DEF RemoteUnsubscribed, EndsHold, TypeInv, TypeOK
<1>5. ASSUME NEW s \in Signal, NEW b \in Signal, NEW d \in Signal \cup {NoDomain},
             Metadata(s, d) \/ MetadataFindsHidden(s, b) \/ MetadataFindsDescribed(s, b, d)
      PROVE  timer' # "Idle"
  <2>1. PICK desc, dom, first : MetadataOf(s, desc, dom, first)
    BY <1>5, MetadataForm
  <2> DEFINE new == NewWith(s, desc, dom, first)
  <2>2. /\ described' = desc /\ published' = published \cup new
        /\ fetch' = [t \in Signal |-> IF t \in new THEN FetchOncePublished(fetch[t])
                                                   ELSE fetch[t]]
        /\ timer' = ArmIf(({s} \cup (desc \ described)) \ (published \cup new) # {}
                            \/ new \cap Fetching # {}, timer)
    BY <2>1, MetadataEffects
  <2> HIDE DEF new
  <2>3. PICK t \in Signal : \/ fetch'[t] = "Held"
                            \/ t \notin published' /\ (fetch'[t] = "Fetching" \/ t \in described')
    OBVIOUS
  <2>4. CASE t \in new /\ fetch[t] = "Fetching"
    <3>1. new \cap Fetching # {}
      BY <2>4 DEF Fetching
    <3> QED BY <2>2, <3>1 DEF ArmIf, Arm
  <2>5. CASE t \in new /\ fetch[t] # "Fetching"
    BY <2>2, <2>3, <2>5 DEF FetchOncePublished
  <2>6. CASE t \notin new /\ t \in desc \ (described \cup published)
    <3>1. ({s} \cup (desc \ described)) \ (published \cup new) # {}
      BY <2>6
    <3> QED BY <2>2, <3>1 DEF ArmIf, Arm
  <2>7. CASE t \notin new /\ t \notin desc \ (described \cup published)
    <3>1. AnyPending(fetch, described, published)
      BY <2>2, <2>3, <2>7
    <3> QED BY <2>2, <3>1 DEF ArmIf, Arm
  <2> QED BY <2>4, <2>5, <2>6, <2>7
<1>6. ASSUME NEW s \in Signal, SubscribeTakesOver(s) PROVE timer' # "Idle"
  BY <1>6 DEF SubscribeTakesOver, Serving, TypeInv, TypeOK
<1>7. CASE InitialFetchSweep
  <2>1. AnyPending(fetch', described, published')
    BY <1>7 DEF InitialFetchSweep
  <2>2. \E retrying : timer' = TimerAfterSweep(retrying, AnyPending(fetch', described, published'))
    BY <1>7 DEF InitialFetchSweep
  <2> QED BY <2>1, <2>2 DEF TimerAfterSweep
<1>8. CASE InitialFetchResubscribe
  <2>1. AnyPending(fetch', described, published)
    BY <1>8 DEF InitialFetchResubscribe
  <2> QED BY <1>8, <2>1 DEF InitialFetchResubscribe, TimerAfterRetry
<1>9. CASE Application \/ Destroy \/ Teardown \/ Join \/ UNCHANGED vars
  BY <1>9
     DEF Application, AskSubscribe, AskUnsubscribe, Destroy, Teardown, Join, vars, entryVars
<1> QED
  BY <1>1, <1>2, <1>3, <1>4, <1>5, <1>6, <1>7, <1>8, <1>9
     DEF Next, RemoteEvent, TimerEvent, ServeRequest, Destroyed

\* No fetch, deferral or hold is ever left without a running timer.
THEOREM SweepArmedWhilePendingHolds == Spec => []SweepArmedWhilePending
<1>1. Init => SweepArmedWhilePending
  BY DEF Init, SweepArmedWhilePending, AnyPending
<1> QED BY <1>1, TypeInvInit, TypeInvNext, TimerStep, PTL DEF Spec

-----------------------------------------------------------------------------
(* Acknowledgements.                                                       *)

\* Every acknowledgement comes with isSubscribed, and its withdrawal with the
\* end of it.
LEMMA AckedStep == TypeInv /\ AckedIsSubscribed /\ [Next]_vars => AckedIsSubscribed'
<1> SUFFICES ASSUME TypeInv, AckedIsSubscribed, [Next]_vars PROVE AckedIsSubscribed'
  OBVIOUS
<1> USE DEF AckedIsSubscribed
<1>1. ASSUME NEW s \in Signal, RemoteSubscribed(s) \/ RemoteUnsubscribed(s) \/ RemoteUnavailable(s)
      PROVE  AckedIsSubscribed'
  BY <1>1 DEF RemoteSubscribed, RemoteUnsubscribed, RemoteUnavailable, Acked, SubscribedWithout
<1>2. ASSUME NEW s \in Signal,
             AvailableKnown(s) \/ AvailableFetch(s) \/ MetadataBad(s)
      PROVE  AckedIsSubscribed'
  BY <1>2 DEF AvailableKnown, AvailableFetch, MetadataBad, entryVars
<1>3. ASSUME NEW s \in Signal, NEW b \in Signal, NEW d \in Signal \cup {NoDomain},
             Metadata(s, d) \/ MetadataFindsHidden(s, b) \/ MetadataFindsDescribed(s, b, d)
      PROVE  AckedIsSubscribed'
  BY <1>3 DEF Metadata, MetadataFindsHidden, MetadataFindsDescribed, Described
<1>4. ASSUME NEW s \in Signal,
             \/ SubscribeRefused(s) \/ SubscribeTakesOver(s) \/ SubscribeSent(s)
             \/ UnsubscribeServed(s)
      PROVE  AckedIsSubscribed'
  BY <1>4
     DEF SubscribeRefused, SubscribeTakesOver, SubscribeSent, UnsubscribeServed, Acked
<1>5. CASE TimerEvent
  BY <1>5 DEF TimerEvent, InitialFetchSweep, InitialFetchResubscribe
<1>6. CASE Application \/ Destroy \/ Teardown \/ Join \/ UNCHANGED vars
  BY <1>6
     DEF Application, AskSubscribe, AskUnsubscribe, Destroy, Teardown, Join, vars, entryVars
<1> QED
  BY <1>1, <1>2, <1>3, <1>4, <1>5, <1>6 DEF Next, RemoteEvent, ServeRequest, Destroyed

\* openDAQ is never told a signal is subscribed whose packets are dropped.
THEOREM AckedIsSubscribedHolds == Spec => []AckedIsSubscribed
<1>1. Init => AckedIsSubscribed
  BY DEF Init, AckedIsSubscribed
<1> QED BY <1>1, TypeInvInit, TypeInvNext, AckedStep, PTL DEF Spec
-----------------------------------------------------------------------------
(* More about Reached.                                                     *)

\* A published signal that publication did not start from waited for a
\* published one.
LEMMA ReachedOn ==
  ASSUME NEW roots \in SUBSET Signal, NEW dom, NEW waiting \in SUBSET Signal,
         NEW t \in Reached(roots, dom, waiting), t \notin roots
  PROVE  t \in waiting /\ dom[t] \in Reached(roots, dom, waiting)
<1> DEFINE R == Reached(roots, dom, waiting)
           T == {u \in R : u \in roots \/ (u \in waiting /\ dom[u] \in R)}
<1>1. roots \subseteq T
  BY ReachedContains
<1>2. {w \in waiting : dom[w] \in T} \subseteq T
  BY ReachedClosed
<1>3. T \in SUBSET Signal
  BY ReachedBound
<1>4. R \subseteq T
  <2> HIDE DEF T
  <2> QED BY <1>1, <1>2, <1>3, ReachedLeast
<1> QED BY <1>4

\* Signals published along with others follow some order: any group of them
\* has one that waited for a signal published outside the group.
LEMMA ReachedInOrder ==
  ASSUME NEW roots \in SUBSET Signal, NEW dom, NEW waiting \in SUBSET Signal,
         NEW Q \in SUBSET Reached(roots, dom, waiting), Q # {}, Q \cap roots = {}
  PROVE  \E w \in Q : dom[w] \in Reached(roots, dom, waiting) \ Q
<1> DEFINE R == Reached(roots, dom, waiting)
           T == R \ Q
<1>1. roots \subseteq T /\ T \in SUBSET Signal
  BY ReachedContains, ReachedBound
<1>2. ~ (R \subseteq T)
  OBVIOUS
<1>3. ~ ({w \in waiting : dom[w] \in T} \subseteq T)
  <2> HIDE DEF T
  <2> QED BY <1>1, <1>2, ReachedLeast
<1>4. PICK w \in waiting : dom[w] \in T /\ w \notin T
  BY <1>3
<1>5. w \in R
  BY <1>4, ReachedClosed
<1> QED BY <1>4, <1>5

\* What is reached from a reached signal is reached.
LEMMA ReachedFromReached ==
  ASSUME NEW roots \in SUBSET Signal, NEW dom, NEW waiting \in SUBSET Signal,
         NEW more \in SUBSET Reached(roots, dom, waiting)
  PROVE  Reached(more, dom, waiting) \subseteq Reached(roots, dom, waiting)
<1> DEFINE R == Reached(roots, dom, waiting)
<1>1. R \in SUBSET Signal /\ {w \in waiting : dom[w] \in R} \subseteq R
  BY ReachedBound, ReachedClosed
<1> QED BY <1>1, ReachedLeast

\* A nonempty set of signals has a first one, in the order of the map.
LEMMA FirstSignal ==
  ASSUME NEW X \in SUBSET Signal, X # {}
  PROVE  \E m \in X : \A x \in X : ~ (x < m)
<1> DEFINE Less == OpToRel(<, Nat)
<1>1. IsWellFoundedOn(Less, Nat)
  BY NatLessThanWellFounded
<1>2. X \subseteq Nat
  BY SignalAssumption DEF Signal
<1>3. PICK m \in X : \A x \in X : ~ (<<x, m>> \in Less)
  BY <1>1, <1>2, WFMin
<1>4. \A x \in X : <<x, m>> \in Less <=> x < m
  BY <1>2 DEF OpToRel
<1> QED BY <1>3, <1>4

\* The sweep publishes from the expired entries that no earlier expired entry
\* reaches, and so reaches everything.
LEMMA RootsSuffice ==
  ASSUME NEW expired \in SUBSET Signal, NEW dom, NEW waiting \in SUBSET Signal
  PROVE  LET Later(s) == \E x \in expired : x < s /\ s \in Reached({x}, dom, waiting)
             roots == {x \in expired : ~Later(x)}
         IN  Reached(expired, dom, waiting) = Reached(roots, dom, waiting)
<1> DEFINE Later(s) == \E x \in expired : x < s /\ s \in Reached({x}, dom, waiting)
           roots == {x \in expired : ~Later(x)}
           missed == expired \ Reached(roots, dom, waiting)
<1>1. roots \in SUBSET Signal /\ roots \subseteq expired
  OBVIOUS
<1>2. missed = {}
  <2> SUFFICES ASSUME missed # {} PROVE FALSE
    OBVIOUS
  <2>1. PICK m \in missed : \A x \in missed : ~ (x < m)
    BY FirstSignal
  <2>2. m \notin roots
    BY <1>1, <2>1, ReachedContains
  <2>3. PICK x \in expired : x < m /\ m \in Reached({x}, dom, waiting)
    BY <2>1, <2>2
  <2>4. {x} \in SUBSET Reached(roots, dom, waiting)
    BY <2>1, <2>3
  <2>5. m \in Reached(roots, dom, waiting)
    BY <1>1, <2>3, <2>4, ReachedFromReached
  <2> QED BY <2>1, <2>5
<1>3. Reached(expired, dom, waiting) \subseteq Reached(roots, dom, waiting)
  BY <1>1, <1>2, ReachedFromReached
<1>4. Reached(roots, dom, waiting) \subseteq Reached(expired, dom, waiting)
  <2>1. roots \subseteq Reached(expired, dom, waiting)
    BY <1>1, ReachedContains
  <2> QED BY <2>1, ReachedFromReached
<1> QED BY <1>3, <1>4


-----------------------------------------------------------------------------
(* The inductive invariant: whom an entry waits for, and whom it is linked *)
(* to.                                                                     *)

LinksInv ==
  /\ DeferredOnlyOnUnpublished
  /\ \A t \in described : domain[t] \in known \cup NoSignal
  /\ \A t \in Signal : parent[t] \in published \cup {NoDomain, GonePublished}
  /\ \A t \in Signal \ published : parent[t] = NoDomain

\* A handler publishes `new`, or nothing.
Publishes(new) ==
  IF new = {} THEN UNCHANGED <<published, parent, subscribed>> ELSE Catalogue!Register(new)

\* The metadata handlers publish signals in an order of their domain links and
\* leave deferred what waits for an unpublished domain.
LEMMA MetadataLinks ==
  ASSUME TypeInv, LinksInv, NEW s \in Signal, NEW desc, NEW dom, NEW first,
         MetadataOf(s, desc, dom, first)
  PROVE  LET new == NewWith(s, desc, dom, first)
         IN  LinksInv' /\ Publishes(new) /\ \A t \in new : parent'[t] = domain'[t]
<1> DEFINE root == IF s \in published \/ MustDefer(dom[s], published \cup first)
                   THEN {} ELSE {s}
           R == Reached(root, dom, desc \ published)
           new == NewWith(s, desc, dom, first)
<1>1. /\ new \subseteq desc /\ new \cap published = {}
      /\ described' = desc /\ domain' = dom /\ published' = published \cup new
      /\ parent' = [t \in Signal |-> IF t \in new THEN ParentOf(dom[t], published \cup new)
                                                  ELSE parent[t]]
      /\ subscribed' = subscribed
  BY MetadataEffects
<1>2. /\ s \in known /\ known \subseteq known' /\ known' \subseteq Signal
      /\ desc \subseteq known' /\ described \subseteq desc /\ s \in desc
      /\ dom \in [Signal -> Signal \cup NoSignal]
      /\ first \subseteq desc \ known
      /\ \A t \in first : ~MustDefer(dom[t], published) /\ dom[t] \in known \cup {NoDomain}
      /\ \A t \in known \ {s} : dom[t] = domain[t]
      /\ dom[s] \in known' \cup {NoDomain}
      /\ \A t \in desc \ (described \cup {s} \cup first) :
           t \notin known /\ MustDefer(dom[t], published) /\ dom[t] \in known
  BY DEF MetadataOf
<1>3. /\ published \subseteq known /\ described \subseteq known /\ known \subseteq Signal
      /\ NoDomain \notin Signal /\ GonePublished \notin Signal /\ NoDomain # GonePublished
      /\ \A t \in described \ published : MustDefer(domain[t], published)
      /\ \A t \in described : domain[t] \in known \cup NoSignal
      /\ \A t \in Signal : parent[t] \in published \cup {NoDomain, GonePublished}
      /\ \A t \in Signal \ published : parent[t] = NoDomain
  BY DomainAssumption
     DEF TypeInv, TypeOK, LinksInv, DeferredOnlyOnUnpublished, Deferred, NoSignal
<1>4. new = first \cup R /\ root \subseteq {s}
  BY DEF NewWith
<1>5. root \in SUBSET Signal /\ desc \ published \in SUBSET Signal
  BY <1>2
<1>6. s \in root => dom[s] \in published \cup first \cup {NoDomain}
  BY <1>2, <1>3 DEF MustDefer, DomainPublished
<1>7. s \notin root => s \in published \/ MustDefer(dom[s], published)
  BY DEF MustDefer, DomainPublished
<1>8. \A t \in first : dom[t] \in published \cup {NoDomain}
  BY <1>2, <1>3 DEF MustDefer, DomainPublished
<1>9. root \subseteq R
  BY <1>5, ReachedContains
<1>10. \A t \in R \ root : dom[t] \in R
  BY <1>5, ReachedOn
<1>11. \A t \in desc \ published : dom[t] \in R => t \in R
  BY <1>5, ReachedClosed
<1>12. \A Q \in SUBSET R : Q # {} /\ Q \cap root = {} => \E w \in Q : dom[w] \in R \ Q
  BY <1>5, ReachedInOrder
<1> HIDE DEF R, root, new
<1>13. \A t \in new : dom[t] \in published \cup new \cup {NoDomain}
  BY <1>4, <1>6, <1>8, <1>10
<1>14. \A t \in new : parent'[t] = dom[t]
  BY <1>1, <1>2, <1>13 DEF ParentOf, DomainPublished
<1>15. \A t \in Signal \ new : parent'[t] = parent[t]
  BY <1>1
<1>16. \A t \in desc \ (published \cup new) : MustDefer(dom[t], published \cup new)
  <2> SUFFICES ASSUME NEW t \in desc, t \notin published, t \notin new
               PROVE  MustDefer(dom[t], published \cup new)
    OBVIOUS
  <2>1. MustDefer(dom[t], published)
    BY <1>2, <1>3, <1>4, <1>7, <1>9
  <2>2. dom[t] \notin R
    BY <1>4, <1>11
  <2>3. dom[t] \notin first
    <3>1. CASE t = s
      BY <3>1, <1>4, <1>6, <1>2, <1>9, <1>7, <2>1 DEF root, MustDefer, DomainPublished
    <3>2. CASE t # s /\ t \in described
      <4>1. dom[t] \in known \cup NoSignal
        BY <3>2, <1>2, <1>3
      <4> QED BY <4>1, <1>2, DomainAssumption
    <3>3. CASE t # s /\ t \notin described
      BY <3>3, <1>2, <1>4
    <3> QED BY <3>1, <3>2, <3>3
  <2> QED BY <2>1, <2>2, <2>3, <1>4 DEF MustDefer, DomainPublished
<1>17. \A Q \in SUBSET new : Q # {} => \E t \in Q : dom[t] \notin Q
  <2> SUFFICES ASSUME NEW Q \in SUBSET new, Q # {} PROVE \E t \in Q : dom[t] \notin Q
    OBVIOUS
  <2>1. Q \cap published = {} /\ NoDomain \notin Q
    BY <1>1, <1>2, <1>3
  <2>2. CASE Q \cap first # {}
    BY <2>1, <2>2, <1>8
  <2>3. CASE Q \cap first = {} /\ s \in Q \cap root
    BY <2>1, <2>3, <1>6
  <2>4. CASE Q \cap first = {} /\ s \notin Q \cap root
    <3>1. Q \in SUBSET R /\ Q \cap root = {}
      BY <2>4, <1>4
    <3> QED BY <3>1, <1>12
  <2> QED BY <2>2, <2>3, <2>4
<1>18. LinksInv'
  <2>1. DeferredOnlyOnUnpublished'
    BY <1>1, <1>16 DEF DeferredOnlyOnUnpublished, Deferred
  <2>2. \A t \in described' : domain'[t] \in known' \cup NoSignal
    <3> SUFFICES ASSUME NEW t \in desc PROVE dom[t] \in known' \cup NoSignal
      BY <1>1
    <3> QED BY <1>2, <1>3 DEF NoSignal
  <2>3. \A t \in Signal : parent'[t] \in published' \cup {NoDomain, GonePublished}
    BY <1>1, <1>3, <1>13, <1>14, <1>15
  <2>4. \A t \in Signal \ published' : parent'[t] = NoDomain
    BY <1>1, <1>3, <1>15
  <2> QED BY <2>1, <2>2, <2>3, <2>4 DEF LinksInv
<1>19. Publishes(new)
  <2>1. CASE new = {}
    <3>1. parent' = parent
      BY <2>1, <1>1 DEF TypeInv, TypeOK
    <3> QED BY <2>1, <3>1, <1>1 DEF Publishes
  <2>2. CASE new # {}
    <3>1. \A Q \in SUBSET new : Q # {} => \E t \in Q : parent'[t] \notin Q
      BY <1>14, <1>17
    <3>2. \A t \in new : parent'[t] \in published' \cup {NoDomain}
      BY <1>1, <1>13, <1>14
    <3> QED BY <2>2, <1>1, <1>15, <3>1, <3>2
            DEF Publishes, Catalogue!Register, Catalogue!Grounded
  <2> QED BY <2>1, <2>2
<1> QED BY <1>1, <1>14, <1>18, <1>19 DEF new

\* The sweep publishes deferred signals in an order of the links it keeps.
LEMMA SweepLinks ==
  ASSUME TypeInv, LinksInv, InitialFetchSweep
  PROVE  LinksInv' /\ \E new : Publishes(new)
<1> DEFINE expired == {t \in Deferred : WaitEnds(sweeps[t])}
           new == Reached(expired, domain, Deferred)
           Later(t) == \E x \in expired : x < t /\ t \in Reached({x}, domain, Deferred)
           roots == {x \in expired : ~Later(x)}
<1>1. /\ published' = published \cup new
      /\ parent' = [t \in Signal |->
           CASE t \in roots -> ParentOf(domain[t], published)
             [] t \in new \ roots -> domain[t]
             [] OTHER -> parent[t]]
      /\ UNCHANGED <<known, described, domain, subscribed>>
  BY DEF InitialFetchSweep
<1>2. Deferred \in SUBSET Signal /\ expired \in SUBSET Deferred
  BY DEF Deferred, TypeInv, TypeOK
<1>3. new \cap published = {} /\ new \subseteq Signal /\ new \subseteq Deferred
  BY <1>2, SweepPublishes DEF Deferred, TypeInv, TypeOK
<1>4. new = Reached(roots, domain, Deferred) /\ roots \in SUBSET Signal
  <2>1. expired \in SUBSET Signal
    BY <1>2
  <2>2. new = Reached(roots, domain, Deferred)
    <3> HIDE DEF expired
    <3> QED BY <1>2, <2>1, RootsSuffice
  <2> QED BY <2>1, <2>2
<1>5. roots \subseteq new
  BY <1>2, <1>4, ReachedContains
<1>6. \A t \in new \ roots : domain[t] \in new
  BY <1>2, <1>4, ReachedOn
<1>7. \A Q \in SUBSET new : Q # {} /\ Q \cap roots = {} => \E w \in Q : domain[w] \in new \ Q
  BY <1>2, <1>4, ReachedInOrder
<1>8. \A t \in Deferred : domain[t] \in new => t \in new
  BY <1>2, <1>4, ReachedClosed
<1> HIDE DEF expired, new, Later, roots
<1>9. /\ NoDomain \notin Signal /\ GonePublished \notin Signal
      /\ \A t \in Deferred : MustDefer(domain[t], published)
      /\ \A t \in Signal : parent[t] \in published \cup {NoDomain, GonePublished}
      /\ \A t \in Signal \ published : parent[t] = NoDomain
  BY DomainAssumption DEF LinksInv, DeferredOnlyOnUnpublished, NoSignal
<1>10. /\ \A t \in roots : parent'[t] = NoDomain
       /\ \A t \in new \ roots : parent'[t] = domain[t]
       /\ \A t \in Signal \ new : parent'[t] = parent[t]
  BY <1>1, <1>3, <1>5, <1>9 DEF ParentOf, MustDefer
<1>11. \A t \in new : parent'[t] \in published' \cup {NoDomain}
  BY <1>1, <1>6, <1>10
<1>12. LinksInv'
  <2>1. DeferredOnlyOnUnpublished'
    BY <1>1, <1>8, <1>9 DEF DeferredOnlyOnUnpublished, Deferred, MustDefer, DomainPublished
  <2>2. \A t \in described' : domain'[t] \in known' \cup NoSignal
    BY <1>1 DEF LinksInv
  <2>3. \A t \in Signal : parent'[t] \in published' \cup {NoDomain, GonePublished}
    BY <1>1, <1>9, <1>10, <1>11
  <2>4. \A t \in Signal \ published' : parent'[t] = NoDomain
    BY <1>1, <1>9, <1>10
  <2> QED BY <2>1, <2>2, <2>3, <2>4 DEF LinksInv
<1>13. \A Q \in SUBSET new : Q # {} => \E t \in Q : parent'[t] \notin Q
  <2> SUFFICES ASSUME NEW Q \in SUBSET new, Q # {} PROVE \E t \in Q : parent'[t] \notin Q
    OBVIOUS
  <2>1. CASE Q \cap roots # {}
    BY <2>1, <1>3, <1>9, <1>10
  <2>2. CASE Q \cap roots = {}
    BY <2>2, <1>7, <1>10
  <2> QED BY <2>1, <2>2
<1>14. Publishes(new)
  <2>1. CASE new = {}
    <3>1. \A t \in Signal : parent'[t] = parent[t]
      BY <2>1, <1>10
    <3>2. parent' = [t \in Signal |-> parent'[t]] /\ parent = [t \in Signal |-> parent[t]]
      BY <1>1 DEF TypeInv, TypeOK
    <3>3. parent' = parent
      BY <3>1, <3>2
    <3> QED BY <2>1, <3>3, <1>1 DEF Publishes
  <2>2. CASE new # {}
    BY <2>2, <1>1, <1>3, <1>10, <1>11, <1>13
       DEF Publishes, Catalogue!Register, Catalogue!Grounded
  <2> QED BY <2>1, <2>2
<1> QED BY <1>12, <1>14


\* The device's withdrawal of a signal leaves the links to it behind, marked.
LEMMA UnavailableLinks ==
  ASSUME TypeInv, LinksInv, NEW s \in Signal, RemoteUnavailable(s)
  PROVE  LinksInv' /\ Catalogue!Withdraw(s)
<1>1. /\ known' = known \ {s} /\ described' = described \ {s}
      /\ published' = published \ {s} /\ subscribed' = subscribed \ {s}
      /\ domain' = DomainsWithout(domain, s) /\ parent' = DomainsWithout(parent, s)
  BY DEF RemoteUnavailable
<1>2. /\ NoSignal \cap Signal = {} /\ NoDomain # GonePublished /\ NoDomain # GoneUnpublished
      /\ GonePublished # GoneUnpublished
      /\ \A t \in described \ published : MustDefer(domain[t], published)
      /\ \A t \in described : domain[t] \in known \cup NoSignal
      /\ \A t \in Signal : parent[t] \in published \cup {NoDomain, GonePublished}
      /\ \A t \in Signal \ published : parent[t] = NoDomain
      /\ described \subseteq Signal /\ known \subseteq Signal /\ published \subseteq Signal
  BY DomainAssumption DEF LinksInv, DeferredOnlyOnUnpublished, Deferred, TypeInv, TypeOK
<1>3. \A t \in Signal : parent[t] = s => s \in published
  BY <1>2 DEF NoSignal
<1>4. parent' = [t \in Signal |-> IF t = s THEN NoDomain
                                  ELSE IF parent[t] = s THEN GonePublished ELSE parent[t]]
  BY <1>1, <1>3 DEF DomainsWithout
<1>5. Catalogue!Withdraw(s)
  BY <1>1, <1>4 DEF Catalogue!Withdraw
<1>6. DeferredOnlyOnUnpublished'
  <2> SUFFICES ASSUME NEW t \in described, t # s, t \notin published
               PROVE  MustDefer(domain'[t], published')
    BY <1>1 DEF DeferredOnlyOnUnpublished, Deferred
  <2>1. MustDefer(domain[t], published) /\ t \in Signal
    BY <1>2
  <2>2. CASE domain[t] = s
    <3>1. domain'[t] = GoneUnpublished
      BY <1>1, <2>1, <2>2 DEF DomainsWithout, MustDefer, DomainPublished
    <3> QED BY <1>1, <1>2, <3>1 DEF MustDefer, DomainPublished, NoSignal
  <2>3. CASE domain[t] # s
    BY <1>1, <2>1, <2>3 DEF DomainsWithout, MustDefer, DomainPublished
  <2> QED BY <2>2, <2>3
<1>7. \A t \in described' : domain'[t] \in known' \cup NoSignal
  BY <1>1, <1>2 DEF DomainsWithout, NoSignal
<1>8. \A t \in Signal : parent'[t] \in published' \cup {NoDomain, GonePublished}
  BY <1>1, <1>2, <1>4
<1>9. \A t \in Signal \ published' : parent'[t] = NoDomain
  BY <1>1, <1>2, <1>3, <1>4 DEF NoSignal
<1> QED BY <1>5, <1>6, <1>7, <1>8, <1>9 DEF LinksInv

\* Every handler preserves the links and is a step of the catalogue, and none
\* but the sweep registers a signal without the domain it names.
LEMMA LinksStep ==
  ASSUME TypeInv, LinksInv, [Next]_vars
  PROVE  /\ LinksInv'
         /\ [Catalogue!CatalogueNext]_(Catalogue!catalogueVars)
         /\ \A t \in Signal : DropsLink(t) => InitialFetchSweep
<1> DEFINE Goal == /\ LinksInv'
                   /\ [Catalogue!CatalogueNext]_(Catalogue!catalogueVars)
                   /\ \A t \in Signal : DropsLink(t) => InitialFetchSweep
<1> SUFFICES Goal
  OBVIOUS
<1> USE DEF Catalogue!CatalogueNext, Catalogue!catalogueVars
<1>1. ASSUME UNCHANGED <<known, described, domain, published, parent>>
      PROVE  LinksInv' /\ \A t \in Signal : DropsLink(t) => InitialFetchSweep
  BY <1>1 DEF LinksInv, DeferredOnlyOnUnpublished, Deferred, DropsLink
<1>2. ASSUME NEW s \in Signal, AvailableKnown(s) \/ SubscribeRefused(s) \/ UnsubscribeServed(s)
      PROVE  Goal
  <2>1. UNCHANGED <<known, described, domain, published, parent, subscribed>>
    BY <1>2 DEF AvailableKnown, SubscribeRefused, UnsubscribeServed, Serving, entryVars
  <2> QED BY <2>1, <1>1
<1>3. ASSUME NEW s \in Signal, AvailableFetch(s) PROVE Goal
  <2>1. /\ UNCHANGED <<described, domain, published, parent, subscribed>>
        /\ known' = known \cup {s}
    BY <1>3 DEF AvailableFetch
  <2> QED BY <2>1 DEF LinksInv, DeferredOnlyOnUnpublished, Deferred, DropsLink
<1>4. ASSUME NEW s \in Signal, RemoteUnavailable(s) PROVE Goal
  <2>1. LinksInv' /\ Catalogue!Withdraw(s)
    BY <1>4, UnavailableLinks
  <2>2. \A t \in Signal : ~DropsLink(t)
    BY <1>4 DEF RemoteUnavailable, DropsLink
  <2> QED BY <2>1, <2>2
<1>5. ASSUME NEW s \in Signal, RemoteSubscribed(s) PROVE Goal
  <2>1. UNCHANGED <<known, described, domain, published, parent>>
    BY <1>5 DEF RemoteSubscribed
  <2>2. CASE s \in published
    <3>1. Catalogue!Forward(s)
      BY <1>5, <2>1, <2>2 DEF RemoteSubscribed, Catalogue!Forward
    <3> QED BY <2>1, <3>1, <1>1
  <2>3. CASE s \notin published
    <3>1. subscribed' = subscribed
      BY <1>5, <2>3 DEF RemoteSubscribed
    <3> QED BY <2>1, <3>1, <1>1
  <2> QED BY <2>2, <2>3
<1>6. ASSUME NEW s \in Signal, RemoteUnsubscribed(s) PROVE Goal
  <2>1. UNCHANGED <<known, described, domain, published, parent>>
    BY <1>6 DEF RemoteUnsubscribed
  <2>2. Catalogue!Silence(s)
    BY <1>6, <2>1 DEF RemoteUnsubscribed, SubscribedWithout, Catalogue!Silence
  <2> QED BY <2>1, <2>2, <1>1
<1>7. ASSUME NEW s \in Signal, NEW b \in Signal, NEW d \in Signal \cup {NoDomain},
             Metadata(s, d) \/ MetadataFindsHidden(s, b) \/ MetadataFindsDescribed(s, b, d)
      PROVE  Goal
  <2>1. PICK desc, dom, first : MetadataOf(s, desc, dom, first)
    BY <1>7, MetadataForm
  <2> DEFINE new == NewWith(s, desc, dom, first)
  <2>2. LinksInv' /\ Publishes(new) /\ \A t \in new : parent'[t] = domain'[t]
    BY <2>1, MetadataLinks
  <2>3. published' = published \cup new /\ new \subseteq desc
    BY <2>1, MetadataEffects
  <2>4. desc \subseteq Signal
    BY <2>1 DEF MetadataOf
  <2> HIDE DEF new
  <2>5. \A t \in Signal : ~DropsLink(t)
    BY <2>2, <2>3 DEF DropsLink
  <2>6. new \in SUBSET Signal
    BY <2>3, <2>4
  <2> QED BY <2>2, <2>5, <2>6 DEF Publishes
<1>8. ASSUME NEW s \in Signal, MetadataBad(s) PROVE Goal
  <2>1. /\ UNCHANGED <<known, published, parent, subscribed>>
        /\ described' = described \ {s}
        /\ domain' = [domain EXCEPT ![s] = NoDomain]
    BY <1>8 DEF MetadataBad
  <2> QED BY <2>1 DEF LinksInv, DeferredOnlyOnUnpublished, Deferred, DropsLink, TypeInv, TypeOK
<1>9. ASSUME NEW s \in Signal, SubscribeTakesOver(s) \/ SubscribeSent(s) PROVE Goal
  <2>1. UNCHANGED <<known, described, domain, published, parent>>
    BY <1>9 DEF SubscribeTakesOver, SubscribeSent, Serving
  <2>2. s \in published /\ subscribed' = subscribed \cup {s}
    BY <1>9 DEF SubscribeTakesOver, SubscribeSent
  <2>3. Catalogue!Forward(s)
    BY <2>1, <2>2 DEF Catalogue!Forward
  <2> QED BY <2>1, <2>3, <1>1
<1>10. CASE InitialFetchSweep
  <2>1. LinksInv' /\ \E new : Publishes(new)
    BY <1>10, SweepLinks
  <2>2. PICK new : Publishes(new)
    BY <2>1
  <2>3. published' \subseteq Signal
    BY <1>10, SweepTypeInv DEF TypeInv, TypeOK
  <2>4. Catalogue!Register(new) => new \in SUBSET Signal
    BY <2>3 DEF Catalogue!Register
  <2> QED BY <1>10, <2>1, <2>2, <2>4 DEF Publishes
<1>11. CASE InitialFetchResubscribe
  <2>1. UNCHANGED <<known, described, domain, published, parent, subscribed>>
    BY <1>11 DEF InitialFetchResubscribe
  <2> QED BY <2>1, <1>1
<1>12. CASE Application \/ Destroy \/ Teardown \/ Join \/ UNCHANGED vars
  <2>1. UNCHANGED <<known, described, domain, published, parent, subscribed>>
    BY <1>12
       DEF Application, AskSubscribe, AskUnsubscribe, Destroy, Teardown, Join, vars, entryVars
  <2> QED BY <2>1, <1>1
<1> HIDE DEF Goal
<1> QED
  BY <1>2, <1>3, <1>4, <1>5, <1>6, <1>7, <1>8, <1>9, <1>10, <1>11, <1>12
     DEF Next, RemoteEvent, TimerEvent, ServeRequest, Destroyed

\* The streaming object starts out without links and with an empty catalogue.
LEMMA LinksInit == Init => LinksInv /\ Catalogue!CatalogueInit
BY DEF Init, LinksInv, DeferredOnlyOnUnpublished, Deferred, Catalogue!CatalogueInit

-----------------------------------------------------------------------------
(* The theorems.                                                           *)

\* Nothing waits for a signal that is already published: publication reaches
\* everything deferred on it in the same handler.
THEOREM DeferredOnlyOnUnpublishedHolds == Spec => []DeferredOnlyOnUnpublished
<1>1. LinksInv => DeferredOnlyOnUnpublished
  BY DEF LinksInv
<1>2. TypeInv /\ LinksInv /\ [Next]_vars => LinksInv'
  BY LinksStep
<1> QED BY <1>1, <1>2, LinksInit, TypeInvInit, TypeInvNext, PTL DEF Spec

\* A signal loses the link its metadata names to the sweep only.
THEOREM LinkDroppedOnlyBySweepHolds == Spec => LinkDroppedOnlyBySweep
<1> DEFINE A == \A s \in Signal : DropsLink(s) => InitialFetchSweep
<1>1. TypeInv /\ LinksInv /\ [Next]_vars => LinksInv' /\ [A]_vars
  BY LinksStep
<1>2. Spec => [][A]_vars
  <2> HIDE DEF A
  <2> QED BY <1>1, LinksInit, TypeInvInit, TypeInvNext, PTL DEF Spec
<1> QED BY <1>2 DEF LinkDroppedOnlyBySweep

\* The streaming object implements the catalogue: for every device and every
\* order of events, openDAQ sees a domain signal before the signals it is the
\* domain of.
THEOREM ImplementsCatalogueHolds == Spec => ImplementsCatalogue
<1>1. TypeInv /\ LinksInv /\ [Next]_vars
        => LinksInv' /\ [Catalogue!CatalogueNext]_(Catalogue!catalogueVars)
  BY LinksStep
<1> QED
  BY <1>1, LinksInit, TypeInvInit, TypeInvNext, PTL
     DEF Spec, ImplementsCatalogue, Catalogue!CatalogueSpec

\* A step of the catalogue makes no cycle of domain links.
LEMMA AcyclicStep ==
  ASSUME TypeInv, LinksInv, DomainLinksAcyclic, TypeInv',
         [Catalogue!CatalogueNext]_(Catalogue!catalogueVars)
  PROVE  DomainLinksAcyclic'
<1> SUFFICES ASSUME NEW Q \in SUBSET published', Q # {}
             PROVE  \E t \in Q : parent'[t] \notin Q
  BY DEF DomainLinksAcyclic
<1>1. /\ published \subseteq Signal /\ Q \subseteq Signal
      /\ NoDomain \notin Signal /\ GonePublished \notin Signal
      /\ \A t \in Signal : parent[t] \in published \cup {NoDomain, GonePublished}
      /\ \A P \in SUBSET published : P # {} => \E t \in P : parent[t] \notin P
  BY DomainAssumption DEF TypeInv, TypeOK, LinksInv, NoSignal, DomainLinksAcyclic
<1>2. ASSUME NEW new \in SUBSET Signal, Catalogue!Register(new)
      PROVE  \E t \in Q : parent'[t] \notin Q
  <2>1. /\ new \cap published = {} /\ published' = published \cup new
        /\ \A t \in Signal \ new : parent'[t] = parent[t]
        /\ \A P \in SUBSET new : P # {} => \E t \in P : parent'[t] \notin P
    BY <1>2 DEF Catalogue!Register, Catalogue!Grounded
  <2>2. CASE Q \cap published = {}
    <3>1. Q \in SUBSET new
      BY <2>1, <2>2
    <3> QED BY <2>1, <3>1
  <2>3. CASE Q \cap published # {}
    <3>1. PICK t \in Q \cap published : parent[t] \notin Q \cap published
      BY <1>1, <2>3
    <3>2. parent'[t] = parent[t] /\ parent[t] \notin Q
      BY <1>1, <2>1, <3>1
    <3> QED BY <3>1, <3>2
  <2> QED BY <2>2, <2>3
<1>3. ASSUME NEW s \in Signal, Catalogue!Withdraw(s)
      PROVE  \E t \in Q : parent'[t] \notin Q
  <2>1. Q \subseteq published
    BY <1>3 DEF Catalogue!Withdraw
  <2>2. PICK t \in Q : parent[t] \notin Q
    BY <1>1, <2>1
  <2>3. parent'[t] \in {NoDomain, GonePublished, parent[t]}
    BY <1>1, <1>3 DEF Catalogue!Withdraw
  <2> QED BY <1>1, <2>2, <2>3
<1>4. CASE UNCHANGED <<published, parent>>
  BY <1>1, <1>4
<1> QED
  BY <1>2, <1>3, <1>4
     DEF Catalogue!CatalogueNext, Catalogue!catalogueVars, Catalogue!Forward,
         Catalogue!Silence

\* openDAQ's signals are never each other's domain, even when the device's
\* metadata says so.
THEOREM DomainLinksAcyclicHolds == Spec => []DomainLinksAcyclic
<1>1. Init => DomainLinksAcyclic
  BY DEF Init, DomainLinksAcyclic
<1>2. TypeInv /\ LinksInv /\ TypeInv' /\ DomainLinksAcyclic /\ [Next]_vars
        => LinksInv' /\ DomainLinksAcyclic'
  BY LinksStep, AcyclicStep
<1> QED BY <1>1, <1>2, LinksInit, TypeInvInit, TypeInvNext, PTL DEF Spec

-----------------------------------------------------------------------------
(* The inductive invariants: an entry the running timer will end the wait  *)
(* of was waiting when that timer was armed.                               *)

HoldInv ==
  timer = "Sweep" => \A s \in Signal : fetch[s] = "Held" /\ sweeps[s] >= 1 => s \in heldFull

DeferInv ==
  /\ timer = "Sweep" => \A s \in Deferred : sweeps[s] >= 1 => s \in deferFull
  /\ \A s \in Signal \ published : s \notin described => sweeps[s] = 0

\* A handler other than the timer's ends no wait early if it neither arms an
\* armed timer again nor begins a wait with a sweep already counted.
LEMMA WaitsKept ==
  ASSUME Clock(FALSE), timer' = timer \/ timer' = Arm(timer)
  PROVE  /\ (/\ HoldInv
             /\ \A s \in Signal : fetch'[s] = "Held" /\ sweeps'[s] >= 1
                                    => fetch[s] = "Held" /\ sweeps[s] >= 1)
              => HoldInv'
         /\ (/\ DeferInv
             /\ Deferred' \subseteq Signal
             /\ \A s \in Deferred' : sweeps'[s] >= 1 => s \in Deferred /\ sweeps[s] >= 1)
              => (timer' = "Sweep" => \A s \in Deferred' : sweeps'[s] >= 1 => s \in deferFull')
BY DEF Clock, Arm, HoldInv, DeferInv, Held

\* When the timer is armed by its own handler, everything that waits then has
\* waited since.
LEMMA WaitsRenewed ==
  ASSUME Clock(TRUE)
  PROVE  /\ HoldInv'
         /\ timer' = "Sweep" => \A s \in Deferred' : sweeps'[s] >= 1 => s \in deferFull'
BY DEF Clock, HoldInv, Held

-----------------------------------------------------------------------------
(* Held subscriptions.                                                     *)

LEMMA HoldStep == TypeInv /\ HoldInv /\ [Next]_vars => HoldInv'
<1> SUFFICES ASSUME TypeInv, HoldInv, [Next]_vars PROVE HoldInv'
  OBVIOUS
<1> DEFINE Same == \A s \in Signal : fetch'[s] = "Held" /\ sweeps'[s] >= 1
                                       => fetch[s] = "Held" /\ sweeps[s] >= 1
<1>1. ASSUME NEW s \in Signal,
             \/ AvailableKnown(s) \/ RemoteSubscribed(s) \/ MetadataBad(s)
             \/ SubscribeRefused(s) \/ SubscribeSent(s) \/ UnsubscribeServed(s)
      PROVE  HoldInv'
  <2>1. UNCHANGED <<fetch, sweeps, timer>> /\ Clock(FALSE)
    BY <1>1
       DEF AvailableKnown, RemoteSubscribed, MetadataBad, SubscribeRefused, SubscribeSent,
           UnsubscribeServed, Serving, entryVars
  <2> QED BY <2>1, WaitsKept
<1>2. ASSUME NEW s \in Signal, AvailableFetch(s) PROVE HoldInv'
  <2>1. /\ fetch' = [fetch EXCEPT ![s] = "Fetching"] /\ sweeps' = sweeps
        /\ timer' = Arm(timer) /\ Clock(FALSE)
    BY <1>2 DEF AvailableFetch
  <2>2. Same
    BY <2>1 DEF TypeInv, TypeOK
  <2> QED BY <2>1, <2>2, WaitsKept
<1>3. ASSUME NEW s \in Signal, RemoteUnavailable(s) PROVE HoldInv'
  <2>1. /\ fetch' = [fetch EXCEPT ![s] = "None"] /\ sweeps' = [sweeps EXCEPT ![s] = 0]
        /\ timer' = timer /\ Clock(FALSE)
    BY <1>3 DEF RemoteUnavailable, Without
  <2>2. Same
    BY <2>1 DEF TypeInv, TypeOK
  <2> QED BY <2>1, <2>2, WaitsKept
<1>4. ASSUME NEW s \in Signal, RemoteUnsubscribed(s) \/ SubscribeTakesOver(s) PROVE HoldInv'
  <2>1. /\ fetch' \in {fetch, [fetch EXCEPT ![s] = "None"]} /\ sweeps' = sweeps
        /\ timer' = timer /\ Clock(FALSE)
    BY <1>4 DEF RemoteUnsubscribed, SubscribeTakesOver, Serving
  <2>2. Same
    BY <2>1 DEF TypeInv, TypeOK
  <2> QED BY <2>1, <2>2, WaitsKept
<1>5. ASSUME NEW s \in Signal, NEW b \in Signal, NEW d \in Signal \cup {NoDomain},
             Metadata(s, d) \/ MetadataFindsHidden(s, b) \/ MetadataFindsDescribed(s, b, d)
      PROVE  HoldInv'
  <2>1. PICK desc, dom, first : MetadataOf(s, desc, dom, first)
    BY <1>5, MetadataForm
  <2> DEFINE new == NewWith(s, desc, dom, first)
  <2>2. /\ fetch' = [t \in Signal |-> IF t \in new THEN FetchOncePublished(fetch[t])
                                                   ELSE fetch[t]]
        /\ sweeps' = [t \in Signal |-> IF t \in new THEN 0 ELSE sweeps[t]]
        /\ timer' = ArmIf(({s} \cup (desc \ described)) \ (published \cup new) # {}
                            \/ new \cap Fetching # {}, timer)
    BY <2>1, MetadataEffects
  <2>3. Clock(FALSE)
    BY <2>1 DEF MetadataOf
  <2> HIDE DEF new
  <2>4. Same
    BY <2>2
  <2>5. timer' = timer \/ timer' = Arm(timer)
    BY <2>2 DEF ArmIf
  <2> QED BY <2>3, <2>4, <2>5, WaitsKept
<1>6. CASE TimerEvent
  BY <1>6, WaitsRenewed DEF TimerEvent, InitialFetchSweep, InitialFetchResubscribe
<1>7. CASE Application \/ Destroy \/ Teardown \/ Join \/ UNCHANGED vars
  BY <1>7
     DEF Application, AskSubscribe, AskUnsubscribe, Destroy, Teardown, Join, vars, entryVars,
         HoldInv
<1> QED
  BY <1>1, <1>2, <1>3, <1>4, <1>5, <1>6, <1>7
     DEF Next, RemoteEvent, ServeRequest, Destroyed

\* The sweep releases only what has been held for a whole period.
LEMMA SweepReleasesOld ==
  ASSUME TypeInv, HoldInv, InitialFetchSweep, NEW s \in Signal,
         fetch[s] = "Held", fetch'[s] # "Held"
  PROVE  s \in heldFull
<1> DEFINE expired == {t \in Deferred : WaitEnds(sweeps[t])}
           new == Reached(expired, domain, Deferred)
           released == {t \in published : fetch[t] = "Held" /\ WaitEnds(sweeps[t])}
           silent == {t \in known : /\ t \notin published /\ t \notin described
                                    /\ fetch[t] = "Fetching"}
           retried == {t \in silent : MayRetry(attempts[t])}
<1>1. s \in published
  BY DEF TypeInv, FetchMatchesPublication
<1>2. new \cap published = {}
  BY SweepPublishes DEF TypeInv
<1>3. /\ timer = "Sweep"
      /\ fetch' = [t \in Signal |->
           CASE t \in new -> FetchOncePublished(fetch[t])
             [] t \in retried -> "AwaitingRetry"
             [] t \in (silent \ retried) \cup released -> "None"
             [] OTHER -> fetch[t]]
  BY DEF InitialFetchSweep
<1> HIDE DEF new
<1>4. s \in released
  BY <1>1, <1>2, <1>3
<1>5. sweeps[s] \in 0 .. 2 /\ WaitEnds(sweeps[s])
  BY <1>4 DEF TypeInv, TypeOK
<1>6. sweeps[s] >= 1
  BY <1>5 DEF WaitEnds
<1> QED BY <1>3, <1>6 DEF HoldInv

\* An application that subscribes a new signal within a sweep period finds the
\* subscription of the initial fetch still held.
THEOREM HoldLastsFullPeriodHolds == Spec => HoldLastsFullPeriod
<1> DEFINE A == \A s \in Signal :
                  InitialFetchSweep /\ fetch[s] = "Held" /\ fetch'[s] # "Held" => s \in heldFull
<1>1. Init => HoldInv
  BY DEF Init, HoldInv
<1>2. TypeInv /\ HoldInv => A
  BY SweepReleasesOld
<1>3. Spec => [][A]_vars
  <2> HIDE DEF A
  <2> QED BY <1>1, <1>2, HoldStep, TypeInvInit, TypeInvNext, PTL DEF Spec
<1> QED BY <1>3 DEF HoldLastsFullPeriod


-----------------------------------------------------------------------------
(* Deferred signals.  Metadata nobody can convert ends a deferral without  *)
(* resetting `sweeps`, so the theorem is about devices that send none.     *)

LEMMA DeferStep ==
  ASSUME BadMetadata = FALSE, TypeInv, LinksInv, DeferInv, [Next]_vars
  PROVE  DeferInv'
<1> DEFINE Early == timer' = "Sweep" => \A s \in Deferred' : sweeps'[s] >= 1 => s \in deferFull'
           Fresh == \A s \in Signal \ published' : s \notin described' => sweeps'[s] = 0
           Same == \A s \in Deferred' : sweeps'[s] >= 1 => s \in Deferred /\ sweeps[s] >= 1
<1> SUFFICES DeferInv'
  OBVIOUS
<1>1. Deferred' \subseteq Signal
  BY TypeInvNext DEF Deferred, TypeInv, TypeOK
<1>2. ASSUME NEW s \in Signal,
             \/ AvailableKnown(s) \/ AvailableFetch(s) \/ RemoteSubscribed(s)
             \/ RemoteUnsubscribed(s) \/ SubscribeRefused(s) \/ SubscribeTakesOver(s)
             \/ SubscribeSent(s) \/ UnsubscribeServed(s)
      PROVE  DeferInv'
  <2>1. /\ UNCHANGED <<described, published, sweeps>>
        /\ timer' = timer \/ timer' = Arm(timer)
        /\ Clock(FALSE)
    BY <1>2
       DEF AvailableKnown, AvailableFetch, RemoteSubscribed, RemoteUnsubscribed,
           SubscribeRefused, SubscribeTakesOver, SubscribeSent, UnsubscribeServed, Serving,
           entryVars
  <2>2. Same /\ Fresh
    BY <2>1 DEF Deferred, DeferInv
  <2>3. Early
    BY <1>1, <2>1, <2>2, WaitsKept
  <2> QED BY <2>2, <2>3 DEF DeferInv
<1>3. ASSUME NEW s \in Signal, RemoteUnavailable(s) PROVE DeferInv'
  <2>1. /\ described' = described \ {s} /\ published' = published \ {s}
        /\ sweeps' = [sweeps EXCEPT ![s] = 0] /\ timer' = timer /\ Clock(FALSE)
    BY <1>3 DEF RemoteUnavailable, Without
  <2>2. Same /\ Fresh
    BY <1>1, <2>1 DEF Deferred, DeferInv, TypeInv, TypeOK
  <2>3. Early
    BY <1>1, <2>1, <2>2, WaitsKept
  <2> QED BY <2>2, <2>3 DEF DeferInv
<1>4. ASSUME NEW s \in Signal, NEW b \in Signal, NEW d \in Signal \cup {NoDomain},
             Metadata(s, d) \/ MetadataFindsHidden(s, b) \/ MetadataFindsDescribed(s, b, d)
      PROVE  DeferInv'
  <2>1. PICK desc, dom, first : MetadataOf(s, desc, dom, first)
    BY <1>4, MetadataForm
  <2> DEFINE new == NewWith(s, desc, dom, first)
  <2>2. /\ described' = desc /\ published' = published \cup new
        /\ sweeps' = [t \in Signal |-> IF t \in new THEN 0 ELSE sweeps[t]]
        /\ timer' = ArmIf(({s} \cup (desc \ described)) \ (published \cup new) # {}
                            \/ new \cap Fetching # {}, timer)
    BY <2>1, MetadataEffects
  <2>3. described \subseteq desc /\ Clock(FALSE)
    BY <2>1 DEF MetadataOf
  <2> HIDE DEF new
  <2>4. Same /\ Fresh
    BY <1>1, <2>2, <2>3 DEF Deferred, DeferInv
  <2>5. timer' = timer \/ timer' = Arm(timer)
    BY <2>2 DEF ArmIf
  <2>6. Early
    BY <1>1, <2>3, <2>4, <2>5, WaitsKept
  <2> QED BY <2>4, <2>6 DEF DeferInv
<1>5. ASSUME NEW s \in Signal, MetadataBad(s) PROVE DeferInv'
  BY <1>5 DEF MetadataBad
<1>6. CASE InitialFetchSweep
  <2> DEFINE expired == {t \in Deferred : WaitEnds(sweeps[t])}
             new == Reached(expired, domain, Deferred)
             Later(t) == \E x \in expired : x < t /\ t \in Reached({x}, domain, Deferred)
             counted == {t \in published : fetch[t] = "Held"} \cup Deferred
  <2>1. /\ described' = described /\ published' = published \cup new /\ Clock(TRUE)
        /\ sweeps' = [t \in Signal |->
             CASE t \in new -> IF Later(t) /\ fetch[t] = "Fetching" THEN 1 ELSE 0
               [] t \in counted \ new -> sweeps[t] + 1
               [] OTHER -> sweeps[t]]
    BY <1>6 DEF InitialFetchSweep
  <2> HIDE DEF new, Later
  <2>2. Fresh
    BY <2>1 DEF DeferInv, Deferred
  <2> QED BY <2>1, <2>2, WaitsRenewed DEF DeferInv
<1>7. CASE InitialFetchResubscribe
  <2>1. UNCHANGED <<described, published, sweeps>> /\ Clock(TRUE)
    BY <1>7 DEF InitialFetchResubscribe
  <2>2. Fresh
    BY <2>1 DEF DeferInv
  <2> QED BY <2>1, <2>2, WaitsRenewed DEF DeferInv
<1>8. CASE Application \/ Destroy \/ Teardown \/ Join \/ UNCHANGED vars
  BY <1>8
     DEF Application, AskSubscribe, AskUnsubscribe, Destroy, Teardown, Join, vars, entryVars,
         DeferInv, Deferred
<1> QED
  BY <1>2, <1>3, <1>4, <1>5, <1>6, <1>7, <1>8
     DEF Next, RemoteEvent, TimerEvent, ServeRequest, Destroyed

\* The sweep drops the link only of what has been deferred for a whole period.
LEMMA SweepDropsOld ==
  ASSUME TypeInv, LinksInv, DeferInv, [Next]_vars, NEW s \in Signal, s \in Deferred,
         DropsLink(s)
  PROVE  s \in deferFull
<1> DEFINE expired == {t \in Deferred : WaitEnds(sweeps[t])}
           new == Reached(expired, domain, Deferred)
           Later(t) == \E x \in expired : x < t /\ t \in Reached({x}, domain, Deferred)
           roots == {x \in expired : ~Later(x)}
<1>1. InitialFetchSweep
  BY LinksStep
<1>2. /\ timer = "Sweep" /\ published' = published \cup new
      /\ parent' = [t \in Signal |->
           CASE t \in roots -> ParentOf(domain[t], published)
             [] t \in new \ roots -> domain[t]
             [] OTHER -> parent[t]]
  BY <1>1 DEF InitialFetchSweep
<1>3. Deferred \in SUBSET Signal /\ expired \in SUBSET Deferred
  BY DEF Deferred, TypeInv, TypeOK
<1>4. new = Reached(roots, domain, Deferred) /\ roots \in SUBSET Signal
  <2>1. expired \in SUBSET Signal
    BY <1>3
  <2>2. new = Reached(roots, domain, Deferred)
    <3> HIDE DEF expired
    <3> QED BY <1>3, <2>1, RootsSuffice
  <2> QED BY <2>1, <2>2
<1>5. s \in new \ roots => domain[s] \in new /\ new \subseteq Signal
  BY <1>3, <1>4, ReachedOn, ReachedBound
<1>6. s \in expired
  <2>1. roots \subseteq expired
    OBVIOUS
  <2> HIDE DEF new, roots, expired
  <2>2. s \in new /\ parent'[s] = NoDomain
    BY <1>2 DEF DropsLink
  <2>3. NoDomain \notin Signal
    BY DomainAssumption DEF NoSignal
  <2> QED BY <1>2, <1>5, <2>1, <2>2, <2>3
<1>7. WaitEnds(sweeps[s]) /\ sweeps[s] \in 0 .. 2
  BY <1>6 DEF TypeInv, TypeOK
<1>8. sweeps[s] >= 1
  BY <1>7 DEF WaitEnds
<1> QED BY <1>2, <1>8 DEF DeferInv

\* A domain signal whose metadata arrives within a sweep period of its
\* dependents' is never too late to be linked to them.
THEOREM DeferralLastsFullPeriodHolds ==
  ASSUME BadMetadata = FALSE
  PROVE  Spec => DeferralLastsFullPeriod
<1> DEFINE A == \A s \in Signal : s \in Deferred /\ DropsLink(s) => s \in deferFull
<1>1. Init => DeferInv
  BY DEF Init, DeferInv, Deferred
<1>2. TypeInv /\ LinksInv /\ DeferInv /\ [Next]_vars => DeferInv' /\ LinksInv' /\ A
  BY DeferStep, LinksStep, SweepDropsOld
<1>3. Spec => [][A]_vars
  <2> HIDE DEF A
  <2> QED BY <1>1, <1>2, LinksInit, TypeInvInit, TypeInvNext, PTL DEF Spec
<1> QED BY <1>3 DEF DeferralLastsFullPeriod


-----------------------------------------------------------------------------
(* Retries.  Again for devices whose metadata can be converted.            *)

LEMMA RetryStep ==
  ASSUME BadMetadata = FALSE, TypeInv, AwaitingRetryIsDue, [Next]_vars
  PROVE  AwaitingRetryIsDue'
<1> USE DEF AwaitingRetryIsDue, RetryDue
<1>1. ASSUME NEW s \in Signal,
             \/ AvailableKnown(s) \/ AvailableFetch(s) \/ RemoteUnavailable(s)
             \/ RemoteSubscribed(s) \/ RemoteUnsubscribed(s)
             \/ SubscribeRefused(s) \/ SubscribeTakesOver(s) \/ SubscribeSent(s)
             \/ UnsubscribeServed(s)
      PROVE  AwaitingRetryIsDue'
  <2>1. /\ described' = described \/ described' = described \ {s}
        /\ \A t \in Signal \ {s} : fetch'[t] = fetch[t]
        /\ timer' = timer \/ timer' = Arm(timer)
    BY <1>1
       DEF AvailableKnown, AvailableFetch, RemoteUnavailable, RemoteSubscribed,
           RemoteUnsubscribed, SubscribeRefused, SubscribeTakesOver, SubscribeSent,
           UnsubscribeServed, Serving, entryVars, Without, TypeInv, TypeOK
  <2>2. fetch'[s] \in {fetch[s], "Fetching", "None"}
    BY <1>1
       DEF AvailableKnown, AvailableFetch, RemoteUnavailable, RemoteSubscribed,
           RemoteUnsubscribed, SubscribeRefused, SubscribeTakesOver, SubscribeSent,
           UnsubscribeServed, entryVars, Without, TypeInv, TypeOK
  <2>3. described' # described => fetch'[s] = "None"
    BY <1>1
       DEF AvailableKnown, AvailableFetch, RemoteUnavailable, RemoteSubscribed,
           RemoteUnsubscribed, SubscribeRefused, SubscribeTakesOver, SubscribeSent,
           UnsubscribeServed, Serving, entryVars, Without, TypeInv, TypeOK
  <2>4. ASSUME NEW t \in Signal, RetryDue(t)' PROVE timer' = "Resubscribe"
    <3>1. RetryDue(t)
      BY <2>1, <2>2, <2>3, <2>4
    <3> QED BY <2>1, <3>1 DEF Arm
  <2> QED BY <2>4
<1>2. ASSUME NEW s \in Signal, NEW b \in Signal, NEW d \in Signal \cup {NoDomain},
             Metadata(s, d) \/ MetadataFindsHidden(s, b) \/ MetadataFindsDescribed(s, b, d)
      PROVE  AwaitingRetryIsDue'
  <2>1. PICK desc, dom, first : MetadataOf(s, desc, dom, first)
    BY <1>2, MetadataForm
  <2> DEFINE new == NewWith(s, desc, dom, first)
  <2>2. /\ described' = desc
        /\ fetch' = [t \in Signal |-> IF t \in new THEN FetchOncePublished(fetch[t])
                                                   ELSE fetch[t]]
        /\ timer' = ArmIf(({s} \cup (desc \ described)) \ (published \cup new) # {}
                            \/ new \cap Fetching # {}, timer)
    BY <2>1, MetadataEffects
  <2>3. described \subseteq desc
    BY <2>1 DEF MetadataOf
  <2> HIDE DEF new
  <2>4. ASSUME NEW t \in Signal, RetryDue(t)' PROVE timer' = "Resubscribe"
    <3>1. RetryDue(t)
      BY <2>2, <2>3, <2>4 DEF FetchOncePublished
    <3> QED BY <2>2, <3>1 DEF Arm, ArmIf
  <2> QED BY <2>4
<1>3. ASSUME NEW s \in Signal, MetadataBad(s) PROVE AwaitingRetryIsDue'
  BY <1>3 DEF MetadataBad
<1>4. CASE InitialFetchSweep
  <2> DEFINE expired == {t \in Deferred : WaitEnds(sweeps[t])}
             new == Reached(expired, domain, Deferred)
             released == {t \in published : fetch[t] = "Held" /\ WaitEnds(sweeps[t])}
             silent == {t \in known : /\ t \notin published /\ t \notin described
                                      /\ fetch[t] = "Fetching"}
             retried == {t \in silent : MayRetry(attempts[t])}
  <2>1. /\ timer = "Sweep" /\ described' = described
        /\ fetch' = [t \in Signal |->
             CASE t \in new -> FetchOncePublished(fetch[t])
               [] t \in retried -> "AwaitingRetry"
               [] t \in (silent \ retried) \cup released -> "None"
               [] OTHER -> fetch[t]]
        /\ timer' = TimerAfterSweep(retried # {}, AnyPending(fetch', described, published'))
    BY <1>4 DEF InitialFetchSweep
  <2> HIDE DEF new, retried, silent, released
  <2>2. ASSUME NEW t \in Signal, RetryDue(t)' PROVE timer' = "Resubscribe"
    <3>1. t \in retried
      <4>1. ~RetryDue(t) /\ fetch'[t] = "AwaitingRetry" /\ t \notin described
        BY <2>1, <2>2
      <4> QED BY <2>1, <4>1 DEF FetchOncePublished
    <3> QED BY <2>1, <3>1 DEF TimerAfterSweep
  <2> QED BY <2>2
<1>5. CASE InitialFetchResubscribe
  <2>1. \A t \in Signal : ~RetryDue(t)'
    BY <1>5 DEF InitialFetchResubscribe, TypeInv, TypeOK, FetchMatchesPublication
  <2> QED BY <2>1
<1>6. CASE Application \/ Destroy \/ Teardown \/ Join \/ UNCHANGED vars
  BY <1>6
     DEF Application, AskSubscribe, AskUnsubscribe, Destroy, Teardown, Join, vars, entryVars
<1> QED
  BY <1>1, <1>2, <1>3, <1>4, <1>5, <1>6
     DEF Next, RemoteEvent, TimerEvent, ServeRequest, Destroyed

\* A fetch the sweep unsubscribed for a retry is waited for by the retry delay:
\* no later sweep or event can take the timer from it.
THEOREM AwaitingRetryIsDueHolds ==
  ASSUME BadMetadata = FALSE
  PROVE  Spec => []AwaitingRetryIsDue
<1>1. Init => AwaitingRetryIsDue
  BY DEF Init, AwaitingRetryIsDue, RetryDue
<1>2. TypeInv /\ AwaitingRetryIsDue /\ [Next]_vars => AwaitingRetryIsDue'
  BY RetryStep
<1> QED BY <1>1, <1>2, TypeInvInit, TypeInvNext, PTL DEF Spec
=============================================================================
