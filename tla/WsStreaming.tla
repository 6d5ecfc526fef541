---------------------------- MODULE WsStreaming ----------------------------
(***************************************************************************)
(* The client side of the LT streaming protocol: class WsStreaming of      *)
(* ws_streaming.cpp.  It turns the signals a device advertises into        *)
(* openDAQ signals.  A signal can be registered with openDAQ only once its *)
(* metadata is known, and metadata only comes with a subscription, so a    *)
(* new signal is first subscribed by the streaming object itself (the      *)
(* "initial fetch"), published when its metadata and its domain signal are *)
(* there, and released by a timer, the "sweep", if nobody wants it.        *)
(*                                                                         *)
(* Every handler runs to completion on the one thread that pumps the I/O   *)
(* context, so every handler is one action.  Application threads only post *)
(* requests, which that thread serves in order (variable requests).  The   *)
(* device is arbitrary: any event of the ws-streaming library may occur at *)
(* any moment for any signal object that exists.                           *)
(***************************************************************************)
EXTENDS Integers, Sequences

CONSTANTS
  N,                \* signal identifiers are 1..N, in the order of the std::map
  NoDomain,         \* domainEntry = nullptr
  GonePublished,    \* domainEntry of a removed signal that had been published
  GoneUnpublished,  \* domainEntry of a removed signal that never was
  References,       \* pairs <<s, d>>: metadata of s may name d as its domain signal
  AppSignals,       \* signals applications subscribe
  Destroyable,      \* TRUE: the streaming object may be destroyed
  BadMetadata,      \* TRUE: the device may send metadata nobody can convert
  Readvertise,      \* TRUE: the device may advertise a known signal again
  RequestBound,     \* bound: application requests posted and not yet served
  ShareBound        \* bound: how far the application's share of the wire
                    \* subscription count may drift from zero

Signal == 1 .. N
NoSignal == {NoDomain, GonePublished, GoneUnpublished}

ASSUME SignalAssumption == N \in Nat \ {0}
ASSUME DomainAssumption ==
  /\ NoSignal \cap Signal = {}
  /\ NoDomain # GonePublished /\ NoDomain # GoneUnpublished
  /\ GonePublished # GoneUnpublished
ASSUME DeviceAssumption ==
  /\ References \subseteq Signal \X Signal
  /\ \A s \in Signal : <<s, s>> \notin References
  /\ BadMetadata \in BOOLEAN /\ Readvertise \in BOOLEAN
ASSUME AppAssumption == AppSignals \subseteq Signal /\ Destroyable \in BOOLEAN
ASSUME BoundAssumption == RequestBound \in Nat /\ ShareBound \in Nat

VARIABLES
  known,       \* signals with an entry in the map `signals`
  described,   \* entries whose descriptor is assigned
  domain,      \* domainEntry
  published,   \* isPublished: registered with openDAQ
  parent,      \* domain signal openDAQ was given when the signal was registered
  subscribed,  \* isSubscribed
  acked,       \* signals whose last triggerSubscribeAck() said TRUE
  fetch,       \* fetchState
  attempts,    \* fetchAttempts
  sweeps,      \* sweeps
  timer,       \* what initialFetchTimer waits for; not "Idle" is initialFetchSweepArmed
  wire,        \* subscription count kept by the ws-streaming signal object
  wanted,      \* signals an application holds subscribed in openDAQ
  requests,    \* application requests posted to the I/O context
  phase,       \* life of the streaming object
  share,       \* history: the part of `wire` owned by the application
  heldFull,    \* history: held since before the running sweep timer was armed
  deferFull    \* history: deferred since before that

entryVars == <<known, described, domain, published, parent, subscribed, acked,
               fetch, attempts, sweeps>>
appVars == <<wanted, requests, phase>>
wireVars == <<wire, share>>
vars == <<entryVars, timer, appVars, wireVars, heldFull, deferFull>>

FetchState == {"None", "Fetching", "AwaitingRetry", "Held"}
MaxAttempts == 3
Request == [kind : {"Subscribe", "Unsubscribe"}, signal : Signal]

TypeOK ==
  /\ known \subseteq Signal
  /\ described \subseteq known
  /\ domain \in [Signal -> Signal \cup NoSignal]
  /\ published \subseteq known
  /\ parent \in [Signal -> Signal \cup NoSignal]
  /\ subscribed \subseteq published
  /\ acked \subseteq Signal
  /\ fetch \in [Signal -> FetchState]
  /\ attempts \in [Signal -> 0 .. MaxAttempts]
  /\ sweeps \in [Signal -> 0 .. 2]
  /\ timer \in {"Idle", "Sweep", "Resubscribe"}
  /\ wire \in [Signal -> Int]
  /\ share \in [Signal -> Int]
  /\ wanted \subseteq Signal
  /\ requests \in Seq(Request)
  /\ phase \in {"Running", "Closing", "Closed", "Joined"}
  /\ heldFull \subseteq Signal
  /\ deferFull \subseteq Signal

-----------------------------------------------------------------------------
(* What the handlers ask of an entry.                                      *)

Deferred == described \ published
Held == {s \in Signal : fetch[s] = "Held"}
Fetching == {s \in Signal : fetch[s] = "Fetching"}

\* Mistake: deferred entries are not counted as pending.
AnyPending_ForgetsDeferred(f, desc, pub) ==
  \E s \in Signal : f[s] = "Held" \/ (s \notin pub /\ f[s] = "Fetching")

\* anyInitialFetchPending(), of the state the handler has produced.
AnyPending(f, desc, pub) ==
  \E s \in Signal :
    \/ f[s] = "Held"
    \/ s \notin pub /\ (f[s] = "Fetching" \/ s \in desc)

\* armInitialFetchSweep(): an armed timer is left alone.
Arm(t) == IF t = "Idle" THEN "Sweep" ELSE t
ArmIf(condition, t) == IF condition THEN Arm(t) ELSE t

\* domainEntry && domainEntry->isPublished
DomainPublished(d, pub) == d = GonePublished \/ d \in pub

\* Mistake: a signal is never deferred.
MustDefer_Never(d, pub) == FALSE

\* The test that defers a signal: domainEntry && !domainEntry->isPublished
MustDefer(d, pub) == d # NoDomain /\ ~DomainPublished(d, pub)

\* Mistake: the wait ends with the first sweep.
WaitEnds_AtFirst(n) == n + 1 >= 1

\* The wait of a held or deferred entry ends with its second sweep.
WaitEnds(n) == n + 1 >= 2

\* Mistake: the fetch subscription is forgotten.
FetchOncePublished_Forgotten(f) == "None"

\* What publishSignalEntry() makes of the fetch subscription.
FetchOncePublished(f) == IF f = "Fetching" THEN "Held" ELSE "None"

\* publishSignalEntry() calls itself for every deferred signal that has the
\* published one as its domain: the signals it reaches from those in `roots`.
Reached(roots, dom, waiting) ==
  {s \in Signal : \A T \in SUBSET Signal :
     (roots \subseteq T /\ {w \in waiting : dom[w] \in T} \subseteq T) => s \in T}

\* Mistake: the end of a subscription is not reported.
Acked_OnlyBegins(s, on) == acked \cup {s}

\* triggerSubscribeAck(s, on)
Acked(s, on) == IF on THEN acked \cup {s} ELSE acked \ {s}

\* Mistake: the domain signal is given whether it is published or not.
ParentOf_Unchecked(d, pub) == d

\* What onSignalAvailable() is given: the domain signal if it is published.
ParentOf(d, pub) == IF DomainPublished(d, pub) THEN d ELSE NoDomain

\* What a step leaves of an entry the map no longer has.
Without(f, s, value) == [f EXCEPT ![s] = value]
DomainsWithout(f, s) ==
  [d \in Signal |->
     IF d = s THEN NoDomain
     ELSE IF f[d] = s
          THEN IF s \in published THEN GonePublished ELSE GoneUnpublished
          ELSE f[d]]

\* History: which waits began before the sweep timer now running was armed.
\* `fired` says that the step is the timer's own handler.
Clock(fired) ==
  LET armed == timer' = "Sweep" /\ (fired \/ timer = "Idle")
  IN  /\ heldFull' = IF armed THEN Held' ELSE heldFull \cap Held'
      /\ deferFull' = IF armed THEN Deferred' ELSE deferFull \cap Deferred'

-----------------------------------------------------------------------------
Init ==
  /\ known = {} /\ described = {} /\ published = {}
  /\ subscribed = {} /\ acked = {}
  /\ domain = [s \in Signal |-> NoDomain]
  /\ parent = [s \in Signal |-> NoDomain]
  /\ fetch = [s \in Signal |-> "None"]
  /\ attempts = [s \in Signal |-> 0]
  /\ sweeps = [s \in Signal |-> 0]
  /\ timer = "Idle"
  /\ wire = [s \in Signal |-> 0]
  /\ share = [s \in Signal |-> 0]
  /\ wanted = {} /\ requests = <<>> /\ phase = "Running"
  /\ heldFull = {} /\ deferFull = {}

\* The ws-streaming events reach their slots until the teardown handler runs.
Connected == phase \in {"Running", "Closing"}

-----------------------------------------------------------------------------
(* Events of the ws-streaming library.                                     *)

\* A fetch starts unless the signal has a descriptor, is published, or is being
\* fetched.
NeedsFetch(s) ==
  s \notin described /\ s \notin published /\ fetch[s] # "Fetching"

\* onRemoteSignalAvailable() for a signal that needs no fetch.
AvailableKnown(s) ==
  /\ Connected
  /\ s \in known /\ Readvertise
  /\ ~NeedsFetch(s)
  /\ UNCHANGED <<entryVars, timer, appVars, wireVars>>
  /\ Clock(FALSE)

\* onRemoteSignalAvailable() that starts the initial fetch.
AvailableFetch(s) ==
  /\ Connected
  /\ s \in known => Readvertise
  /\ NeedsFetch(s)
  /\ known' = known \cup {s}
  /\ fetch' = [fetch EXCEPT ![s] = "Fetching"]
  /\ attempts' = [attempts EXCEPT ![s] = 1]
  /\ wire' = [wire EXCEPT ![s] = @ + 1]
  /\ timer' = Arm(timer)
  /\ UNCHANGED <<described, domain, published, parent, subscribed, acked,
                 sweeps, appVars, share>>
  /\ Clock(FALSE)

\* onRemoteSignalSubscribed(): the device confirms a subscription.
RemoteSubscribed(s) ==
  /\ Connected
  /\ s \in known
  /\ subscribed' = IF s \in published THEN subscribed \cup {s} ELSE subscribed
  /\ acked' = IF s \in published THEN Acked(s, TRUE) ELSE acked
  /\ UNCHANGED <<known, described, domain, published, parent, fetch, attempts,
                 sweeps, timer, appVars, wireVars>>
  /\ Clock(FALSE)

\* Mistake: a subscription of the client's is given back whoever owns it.
EndsHold_Always(s) == TRUE

\* The end of a subscription ends a held one, which is given back.
EndsHold(s) == fetch[s] = "Held"

\* Mistake: isSubscribed is not reset.
SubscribedWithout_Kept(s) == subscribed
SubscribedWithout(s) == subscribed \ {s}

\* onRemoteSignalUnsubscribed(): the device ends a subscription, asked or not.
RemoteUnsubscribed(s) ==
  /\ Connected
  /\ s \in known
  /\ fetch' = IF EndsHold(s) THEN [fetch EXCEPT ![s] = "None"] ELSE fetch
  /\ wire' = IF EndsHold(s) THEN [wire EXCEPT ![s] = @ - 1] ELSE wire
  /\ subscribed' = SubscribedWithout(s)
  /\ acked' = IF s \in subscribed THEN Acked(s, FALSE) ELSE acked
  /\ UNCHANGED <<known, described, domain, published, parent, attempts,
                 sweeps, timer, appVars, share>>
  /\ Clock(FALSE)

\* What onRemoteSignalMetadataChanged(s) does once s and every hidden signal
\* it discovered have their new descriptors `desc` and domains `dom`; the
\* signals in `first` were published while the domain was being resolved.
Described(s, desc, dom, first) ==
  LET root == IF s \in published \/ MustDefer(dom[s], published \cup first)
              THEN {} ELSE {s}
      new == first \cup Reached(root, dom, desc \ published)
      deferred == ({s} \cup (desc \ described)) \ (published \cup new)
  IN  /\ described' = desc
      /\ domain' = dom
      /\ published' = published \cup new
      /\ parent' = [t \in Signal |-> IF t \in new THEN ParentOf(dom[t], published \cup new)
                                                   ELSE parent[t]]
      /\ fetch' = [t \in Signal |-> IF t \in new THEN FetchOncePublished(fetch[t])
                                                 ELSE fetch[t]]
      /\ attempts' = [t \in Signal |-> IF t \in new THEN 0 ELSE attempts[t]]
      /\ sweeps' = [t \in Signal |-> IF t \in new THEN 0 ELSE sweeps[t]]
      /\ timer' = ArmIf(deferred # {} \/ new \cap Fetching # {}, timer)
      /\ UNCHANGED <<subscribed, acked, appVars, wireVars>>

MayName(s, d) == d = NoDomain \/ <<s, d>> \in References

\* Metadata that refers to no domain signal, or to one with an entry.
Metadata(s, d) ==
  /\ Connected
  /\ s \in known
  /\ MayName(s, d) /\ d \in known \cup {NoDomain}
  /\ known' = known
  /\ Described(s, described \cup {s}, [domain EXCEPT ![s] = d], {})
  /\ Clock(FALSE)

\* Metadata that refers to a hidden signal b, one the device never advertised
\* but the connection knows, without (usable) metadata so far.
MetadataFindsHidden(s, b) ==
  /\ Connected
  /\ s \in known /\ MayName(s, b) /\ b \in Signal \ known
  /\ known' = known \cup {b}
  /\ Described(s, described \cup {s}, [domain EXCEPT ![s] = b], {})
  /\ Clock(FALSE)

\* The same when b's own metadata, with domain d, has already arrived: it is
\* processed before that of s.
MetadataFindsDescribed(s, b, d) ==
  /\ Connected
  /\ s \in known /\ MayName(s, b) /\ b \in Signal \ known
  /\ MayName(b, d) /\ d \in known \cup {NoDomain}
  /\ known' = known \cup {b}
  /\ Described(s, described \cup {s, b}, [domain EXCEPT ![s] = b, ![b] = d],
               IF MustDefer(d, published) THEN {} ELSE {b})
  /\ Clock(FALSE)

\* Metadata that cannot be converted to a descriptor.
MetadataBad(s) ==
  /\ Connected
  /\ BadMetadata
  /\ s \in known
  /\ described' = described \ {s}
  /\ domain' = [domain EXCEPT ![s] = NoDomain]
  /\ UNCHANGED <<known, published, parent, subscribed, acked, fetch, attempts,
                 sweeps, timer, appVars, wireVars>>
  /\ Clock(FALSE)

\* onRemoteSignalUnavailable(): the entry is erased.  Entries that have it as
\* their domain keep it alive.  The ws-streaming signal object and openDAQ's
\* signal are gone, and the subscriptions with them.
RemoteUnavailable(s) ==
  /\ Connected
  /\ s \in known
  /\ known' = known \ {s} /\ described' = described \ {s}
  /\ published' = published \ {s}
  /\ subscribed' = subscribed \ {s} /\ acked' = acked \ {s}
  /\ domain' = DomainsWithout(domain, s)
  /\ parent' = DomainsWithout(parent, s)
  /\ fetch' = Without(fetch, s, "None")
  /\ attempts' = Without(attempts, s, 0)
  /\ sweeps' = Without(sweeps, s, 0)
  /\ wire' = Without(wire, s, 0)
  /\ share' = Without(share, s, 0)
  /\ wanted' = wanted \ {s}
  /\ UNCHANGED <<timer, requests, phase>>
  /\ Clock(FALSE)

-----------------------------------------------------------------------------
(* The timer.                                                              *)

\* Mistake: the last attempt is not made.
MayRetry_OneLess(n) == n + 1 < MaxAttempts

\* A silent fetch is retried until its last attempt.
MayRetry(n) == n < MaxAttempts

\* Mistake: the attempts are not counted.
AttemptsAfter_Uncounted(n) == n

\* ++fetchAttempts
AttemptsAfter(n) == n + 1

\* Mistake: the next sweep takes precedence over the retry.
TimerAfterSweep_SweepFirst(retrying, pending) ==
  CASE pending -> "Sweep"
    [] ~pending /\ retrying -> "Resubscribe"
    [] OTHER -> "Idle"

\* After a sweep the timer times the retry delay, or the next sweep.
TimerAfterSweep(retrying, pending) ==
  CASE retrying -> "Resubscribe"
    [] ~retrying /\ pending -> "Sweep"
    [] OTHER -> "Idle"

\* Mistake: only what was retried keeps the timer armed.
TimerAfterRetry_RetriedOnly(retried, pending) == IF retried THEN "Sweep" ELSE "Idle"

\* After a retry: fetches that arrived during the delay, and deferred and held
\* entries, still need the sweep.
TimerAfterRetry(retried, pending) == IF retried \/ pending THEN "Sweep" ELSE "Idle"

\* The retry of a fetch the sweep unsubscribed.
RetryDue(s) == fetch[s] = "AwaitingRetry" /\ s \notin described

\* onInitialFetchSweep().  Deferred entries whose wait ends are published, in
\* the order of the map, each with the signals deferred on it; an entry that
\* was published earlier in the pass is visited as a published one.
InitialFetchSweep ==
  LET expired == {s \in Deferred : WaitEnds(sweeps[s])}
      new == Reached(expired, domain, Deferred)
      Later(s) == \E x \in expired : x < s /\ s \in Reached({x}, domain, Deferred)
      roots == {x \in expired : ~Later(x)}
      released == {s \in published : fetch[s] = "Held" /\ WaitEnds(sweeps[s])}
      silent == {s \in known : /\ s \notin published /\ s \notin described
                               /\ fetch[s] = "Fetching"}
      retried == {s \in silent : MayRetry(attempts[s])}
      counted == {s \in published : fetch[s] = "Held"} \cup Deferred
  IN  /\ timer = "Sweep"
      /\ published' = published \cup new
      /\ parent' = [s \in Signal |->
           CASE s \in roots -> ParentOf(domain[s], published)
             [] s \in new \ roots -> domain[s]
             [] OTHER -> parent[s]]
      /\ fetch' = [s \in Signal |->
           CASE s \in new -> FetchOncePublished(fetch[s])
             [] s \in retried -> "AwaitingRetry"
             [] s \in (silent \ retried) \cup released -> "None"
             [] OTHER -> fetch[s]]
      /\ attempts' = [s \in Signal |->
           CASE s \in new \cup (silent \ retried) -> 0
             [] s \in retried -> AttemptsAfter(attempts[s])
             [] OTHER -> attempts[s]]
      /\ sweeps' = [s \in Signal |->
           CASE s \in new -> IF Later(s) /\ fetch[s] = "Fetching" THEN 1 ELSE 0
             [] s \in counted \ new -> sweeps[s] + 1
             [] OTHER -> sweeps[s]]
      /\ wire' = [s \in Signal |->
           IF s \in silent \cup released THEN wire[s] - 1 ELSE wire[s]]
      /\ timer' = TimerAfterSweep(retried # {}, AnyPending(fetch', described, published'))
      /\ UNCHANGED <<known, described, domain, subscribed, acked, appVars, share>>
      /\ Clock(TRUE)

\* onInitialFetchResubscribe()
InitialFetchResubscribe ==
  LET due == {s \in known : RetryDue(s)}
  IN  /\ timer = "Resubscribe"
      /\ fetch' = [s \in Signal |-> IF s \in due THEN "Fetching" ELSE fetch[s]]
      /\ wire' = [s \in Signal |-> IF s \in due THEN wire[s] + 1 ELSE wire[s]]
      /\ timer' = TimerAfterRetry(due # {}, AnyPending(fetch', described, published))
      /\ UNCHANGED <<known, described, domain, published, parent, subscribed,
                     acked, attempts, sweeps, appVars, share>>
      /\ Clock(TRUE)

-----------------------------------------------------------------------------
(* Application threads and the requests they post.                         *)

InBounds(s) ==
  /\ Len(requests) < RequestBound
  /\ -ShareBound < share[s] - Len(requests)
  /\ share[s] + Len(requests) < ShareBound

\* onSubscribeSignal(): openDAQ counts the subscribers of a signal and asks
\* once, for the first.
AskSubscribe(s) ==
  /\ phase = "Running"
  /\ s \in AppSignals /\ s \in published \ wanted /\ InBounds(s)
  /\ wanted' = wanted \cup {s}
  /\ requests' = Append(requests, [kind |-> "Subscribe", signal |-> s])
  /\ UNCHANGED <<entryVars, timer, wireVars, phase, heldFull, deferFull>>

\* onUnsubscribeSignal(), asked when the last subscriber leaves.
AskUnsubscribe(s) ==
  /\ phase = "Running"
  /\ s \in wanted /\ InBounds(s)
  /\ wanted' = wanted \ {s}
  /\ requests' = Append(requests, [kind |-> "Unsubscribe", signal |-> s])
  /\ UNCHANGED <<entryVars, timer, wireVars, phase, heldFull, deferFull>>

\* The next request is served on the I/O thread.
Serving(kind, s) ==
  /\ requests # <<>>
  /\ Head(requests) = [kind |-> kind, signal |-> s]
  /\ requests' = Tail(requests)
  /\ UNCHANGED <<known, described, domain, published, parent, attempts, sweeps,
                 timer, wanted, phase>>

\* Mistake: every subscription is a new one.
TakesOver_Never(s) == FALSE

\* An application's subscription takes over a held one.
TakesOver(s) == fetch[s] = "Held"

\* subscribeRemoteSignal(): no entry, not published, or already subscribed.
SubscribeRefused(s) ==
  /\ Serving("Subscribe", s)
  /\ s \notin published \/ s \in subscribed
  /\ UNCHANGED <<subscribed, acked, fetch, wireVars>>
  /\ Clock(FALSE)

\* subscribeRemoteSignal(): the subscription of the initial fetch is taken over.
SubscribeTakesOver(s) ==
  /\ Serving("Subscribe", s)
  /\ s \in published \ subscribed /\ TakesOver(s)
  /\ fetch' = [fetch EXCEPT ![s] = "None"]
  /\ subscribed' = subscribed \cup {s}
  /\ acked' = Acked(s, TRUE)
  /\ share' = [share EXCEPT ![s] = @ + 1]
  /\ wire' = wire
  /\ Clock(FALSE)

\* subscribeRemoteSignal(): the ordinary case.  The acknowledgement comes with
\* the device's answer.
SubscribeSent(s) ==
  /\ Serving("Subscribe", s)
  /\ s \in published \ subscribed /\ ~TakesOver(s)
  /\ wire' = [wire EXCEPT ![s] = @ + 1]
  /\ share' = [share EXCEPT ![s] = @ + 1]
  /\ subscribed' = subscribed \cup {s}
  /\ UNCHANGED <<fetch, acked>>
  /\ Clock(FALSE)

\* unsubscribeRemoteSignal(): refused unless subscribed.  isSubscribed stays
\* until the device answers.
UnsubscribeServed(s) ==
  /\ Serving("Unsubscribe", s)
  /\ wire' = IF s \in subscribed THEN [wire EXCEPT ![s] = @ - 1] ELSE wire
  /\ share' = IF s \in subscribed THEN [share EXCEPT ![s] = @ - 1] ELSE share
  /\ UNCHANGED <<fetch, subscribed, acked>>
  /\ Clock(FALSE)

-----------------------------------------------------------------------------
(* The destructor.                                                         *)

\* ~WsStreaming() posts the teardown handler behind the requests.
Destroy ==
  /\ phase = "Running" /\ Destroyable
  /\ phase' = "Closing"
  /\ UNCHANGED <<entryVars, timer, wireVars, wanted, requests, heldFull, deferFull>>

\* The teardown handler disconnects every slot and closes the connection; the
\* timer is neither cancelled nor stopped.
Teardown ==
  /\ phase = "Closing" /\ requests = <<>>
  /\ phase' = "Closed"
  /\ UNCHANGED <<entryVars, timer, wireVars, wanted, requests, heldFull, deferFull>>

\* run() returns when nothing is pending, and thread.join() with it.
Join ==
  /\ phase = "Closed" /\ timer = "Idle"
  /\ phase' = "Joined"
  /\ UNCHANGED <<entryVars, timer, wireVars, wanted, requests, heldFull, deferFull>>

Destroyed == phase = "Joined" /\ UNCHANGED vars

-----------------------------------------------------------------------------
RemoteEvent ==
  \E s \in Signal :
    \/ AvailableKnown(s) \/ AvailableFetch(s) \/ RemoteUnavailable(s)
    \/ RemoteSubscribed(s) \/ RemoteUnsubscribed(s)
    \/ \E d \in Signal \cup {NoDomain} : Metadata(s, d)
    \/ \E b \in Signal : MetadataFindsHidden(s, b)
    \/ \E b \in Signal, d \in Signal \cup {NoDomain} : MetadataFindsDescribed(s, b, d)
    \/ MetadataBad(s)

TimerEvent == InitialFetchSweep \/ InitialFetchResubscribe

ServeRequest ==
  \E s \in Signal :
    \/ SubscribeRefused(s) \/ SubscribeTakesOver(s) \/ SubscribeSent(s)
    \/ UnsubscribeServed(s)

Application == \E s \in Signal : AskSubscribe(s) \/ AskUnsubscribe(s)

Next ==
  \/ RemoteEvent \/ TimerEvent \/ ServeRequest \/ Application
  \/ Destroy \/ Teardown \/ Join \/ Destroyed

Spec == Init /\ [][Next]_vars

\* The I/O thread runs every handler that is due: timers expire, posted
\* requests and the teardown are served, and the join returns.  Nothing is
\* assumed of the device or of applications.
FairSpec ==
  /\ Spec
  /\ WF_vars(TimerEvent)
  /\ WF_vars(ServeRequest)
  /\ WF_vars(Teardown)
  /\ WF_vars(Join)

-----------------------------------------------------------------------------
(* Properties.                                                             *)

\* The sweep timer runs whenever some entry depends on it: a fetch that awaits
\* metadata, a deferred entry or a held subscription is never forgotten.
SweepArmedWhilePending ==
  AnyPending(fetch, described, published) => timer # "Idle"

\* Only what can still change is waited for: a deferred signal has a domain
\* signal that is not published.  When the domain is published, so is
\* everything deferred on it, in the same handler.
DeferredOnlyOnUnpublished ==
  \A s \in Deferred : MustDefer(domain[s], published)

\* Devices may send metadata in which domain signals form a cycle, and the
\* sweep then breaks it: openDAQ never gets to see signals that are each
\* other's domain.
DomainLinksAcyclic ==
  \A Q \in SUBSET published : Q # {} => \E s \in Q : parent[s] \notin Q

\* Subscription requests are conserved: the count on the ws-streaming signal
\* is the application's share plus one for a fetch that is active or held.
\* Whatever the order of fetch, retry, takeover and release, none leaks and
\* none is released twice.
WireCountConserved ==
  \A s \in known :
    wire[s] = share[s] + (IF fetch[s] \in {"Fetching", "Held"} THEN 1 ELSE 0)

\* The fetch states an entry can be in before and after its publication: a
\* fetch ends with publication and a held subscription needs it.
FetchMatchesPublication ==
  \A s \in Signal :
    /\ fetch[s] = "Held" => s \in published
    /\ fetch[s] \in {"Fetching", "AwaitingRetry"} => s \in known \ published

\* What openDAQ was told last agrees with what the streaming object forwards:
\* packets flow for every signal acknowledged as subscribed.
AckedIsSubscribed == acked \subseteq subscribed

\* The streaming object implements the catalogue openDAQ relies on.
Catalogue == INSTANCE SignalCatalogue
  WITH Signals <- Signal, NoParent <- NoDomain, Former <- GonePublished,
       catalogue <- published, parentOf <- parent, forwarded <- subscribed

\* Whatever order metadata, removals and timeouts come in, openDAQ sees signals
\* enter the catalogue after their domain signal, once, and leave it only when
\* the device withdraws them.
ImplementsCatalogue == Catalogue!CatalogueSpec

\* "release a held fetch subscription only after a full sweep period": an
\* application that subscribes at once can count on the held subscription for
\* as long as one whole run of the sweep timer.
HoldLastsFullPeriod ==
  [][\A s \in Signal :
       InitialFetchSweep /\ fetch[s] = "Held" /\ fetch'[s] # "Held" => s \in heldFull]_vars

\* A signal is registered without the domain signal its metadata names.
DropsLink(s) ==
  s \in published' \ published /\ domain'[s] # NoDomain /\ parent'[s] = NoDomain

\* "grant at least one full sweep period before dropping the domain link".
DeferralLastsFullPeriod ==
  [][\A s \in Signal :
       s \in Deferred /\ DropsLink(s) => s \in deferFull]_vars

\* A signal with a domain signal is only ever registered without it by the
\* sweep; a handler that publishes because metadata came links the two.
LinkDroppedOnlyBySweep ==
  [][\A s \in Signal : DropsLink(s) => InitialFetchSweep]_vars

\* "a retry subscribe is due": an entry that awaits its retry gets one.
AwaitingRetryIsDue ==
  \A s \in Signal : RetryDue(s) => timer = "Resubscribe"

\* Nothing an entry waits for is waited for for ever: a deferral ends, a held
\* subscription is taken over or released, and the initial fetch comes to an end
\* with metadata, removal or, after three silent attempts, giving up.
WaitsEnd ==
  \A s \in Signal :
    /\ s \in Deferred ~> s \notin Deferred
    /\ fetch[s] = "Held" ~> fetch[s] # "Held"
    /\ fetch[s] \in {"Fetching", "AwaitingRetry"} ~> fetch[s] \in {"None", "Held"}

\* "The thread is automatically stopped and destroyed when the streaming
\* object is destroyed": the destructor's join returns, although nobody stops
\* the I/O context or cancels the timer.
DestructorReturns == phase = "Closing" ~> phase = "Joined"

=============================================================================
