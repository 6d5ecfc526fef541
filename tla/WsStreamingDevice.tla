------------------------- MODULE WsStreamingDevice -------------------------
(***************************************************************************)
(* The pseudo-device of ws_streaming_device.cpp, which mirrors the signal  *)
(* catalogue of its streaming object as openDAQ signals.  The I/O thread   *)
(* of the streaming object announces each change of the catalogue through  *)
(* a boost::signals2 slot, inside its own handler; the slot takes the      *)
(* device's configuration lock.  Meanwhile an application thread builds    *)
(* the device and later removes it.                                        *)
(*                                                                         *)
(* The streaming object is represented by its abstract specification,      *)
(* SignalCatalogue, which WsStreaming implements.                          *)
(***************************************************************************)
EXTENDS SignalCatalogue, FiniteSets

CONSTANTS
  LocalId,       \* createLocalId(): the local identifier of each signal
  EarlySignals   \* TRUE: signals may become available while the device is built

ASSUME LocalIdAssumption == DOMAIN LocalId = Signals
ASSUME EarlyAssumption == EarlySignals \in BOOLEAN

VARIABLES
  pc,           \* where the application thread is
  attached,     \* streamingEvents: the slots that are connected
  lock,         \* who holds the device's configuration lock across steps
  call,         \* the slot the I/O thread is about to run, if any
  streamed,     \* signals handed to the streaming object
  mirrored,     \* streamingSignals, and the device's signals
  mirrorParent  \* the domain signal set on each mirrored signal

deviceVars == <<pc, attached, lock, call, streamed, mirrored, mirrorParent>>
vars == <<catalogueVars, deviceVars>>

NoCall == [kind |-> "none"]
Call(kind, s) == [kind |-> kind, signal |-> s]
Removed == pc \in {"Removing", "Releasing", "Joining", "Gone"}

DeviceTypeOK ==
  /\ catalogue \subseteq Signals /\ forwarded \subseteq catalogue
  /\ parentOf \in [Signals -> Signals \cup {NoParent, Former}]
  /\ pc \in {"Constructing", "HalfAttached", "Running", "Removing", "Releasing",
             "Joining", "Gone"}
  /\ attached \subseteq {"available", "unavailable"}
  /\ lock \in {"free", "remover"}
  /\ call \in {NoCall} \cup {Call(k, s) : k \in {"available", "unavailable"}, s \in Signals}
  /\ mirrored \subseteq streamed /\ streamed \subseteq Signals
  /\ mirrorParent \in [Signals -> Signals \cup {NoParent, Former}]

DeviceInit ==
  /\ CatalogueInit
  /\ pc = "Constructing" /\ attached = {} /\ lock = "free" /\ call = NoCall
  /\ streamed = {} /\ mirrored = {}
  /\ mirrorParent = [s \in Signals |-> NoParent]

-----------------------------------------------------------------------------
(* The I/O thread.  While it is inside a slot no other handler runs.       *)

IoIdle == call = NoCall /\ pc # "Gone"

\* The streaming object emits a signal; a connected slot is called.
Emits(kind, s) == call' = IF kind \in attached THEN Call(kind, s) ELSE NoCall

\* publishSignalEntry() registers one signal and emits onSignalAvailable.
IoPublishes(s) ==
  /\ IoIdle
  /\ EarlySignals \/ pc \notin {"Constructing", "HalfAttached"}
  /\ \E d \in catalogue \cup {NoParent} : parentOf' = [parentOf EXCEPT ![s] = d]
  /\ Register({s})
  /\ Emits("available", s)
  /\ UNCHANGED <<pc, attached, lock, streamed, mirrored, mirrorParent>>

\* onRemoteSignalUnavailable() withdraws one and emits onSignalUnavailable.
IoWithdraws(s) ==
  /\ IoIdle /\ s \in catalogue
  /\ Withdraw(s)
  /\ Emits("unavailable", s)
  /\ UNCHANGED <<pc, attached, lock, streamed, mirrored, mirrorParent>>

\* The mirrored signals that have the local identifier of s.
SameLocalId(s) == {m \in mirrored : LocalId[m] = LocalId[s]}

\* The signal found for the local identifier of the domain signal.
Parents(d) == IF d = NoParent THEN {NoParent} ELSE SameLocalId(d)

\* The slots do nothing once the device is removed.
\* Mistake: they do not look.
Ignored_Never == FALSE
Ignored == Removed

\* onSignalAvailable(): a domain signal that is not mirrored throws, and so
\* does a second signal of the same local identifier, after the streaming
\* object has been given the signal; the caller swallows both.
HandleAvailable(s) ==
  LET d == parentOf[s]
      unknown == Parents(d) = {}
      accepted == ~Ignored /\ ~unknown
      added == accepted /\ SameLocalId(s) = {}
  IN  /\ call = Call("available", s) /\ lock = "free"
      /\ streamed' = IF accepted THEN streamed \cup {s} ELSE streamed
      /\ mirrored' = IF added THEN mirrored \cup {s} ELSE mirrored
      /\ IF added
         THEN \E p \in Parents(d) : mirrorParent' = [mirrorParent EXCEPT ![s] = p]
         ELSE mirrorParent' = mirrorParent
      /\ call' = NoCall
      /\ UNCHANGED <<catalogueVars, pc, attached, lock>>

\* Mistake: the map keeps a withdrawn signal.
MirrorWithout_Kept(s) == mirrored
MirrorWithout(s) == mirrored \ {s}

\* onSignalUnavailable()
HandleUnavailable(s) ==
  LET found == ~Ignored /\ s \in mirrored
  IN  /\ call = Call("unavailable", s) /\ lock = "free"
      /\ mirrored' = IF found THEN MirrorWithout(s) ELSE mirrored
      /\ streamed' = IF found THEN streamed \ {s} ELSE streamed
      /\ mirrorParent' =
           IF found
           THEN [m \in Signals |-> IF m = s THEN NoParent
                                   ELSE IF mirrorParent[m] = s THEN Former
                                   ELSE mirrorParent[m]]
           ELSE mirrorParent
      /\ call' = NoCall
      /\ UNCHANGED <<catalogueVars, pc, attached, lock>>

-----------------------------------------------------------------------------
(* The application thread.                                                 *)

\* The constructor: the streaming object exists, and its I/O thread runs,
\* before the first slot is connected.
AttachAvailable ==
  /\ pc = "Constructing"
  /\ pc' = "HalfAttached" /\ attached' = {"available"}
  /\ UNCHANGED <<catalogueVars, lock, call, streamed, mirrored, mirrorParent>>

AttachUnavailable ==
  /\ pc = "HalfAttached"
  /\ pc' = "Running" /\ attached' = {"available", "unavailable"}
  /\ UNCHANGED <<catalogueVars, lock, call, streamed, mirrored, mirrorParent>>

\* removed(), called with the configuration lock held.
RemovedUnderLock ==
  /\ pc = "Running" /\ lock = "free"
  /\ pc' = "Removing" /\ lock' = "remover" /\ attached' = {}
  /\ UNCHANGED <<catalogueVars, call, streamed, mirrored, mirrorParent>>

\* Mistake: the lock is kept while the streaming object is destroyed.
LockWhileReleasing_Kept == "remover"
LockWhileReleasing == "free"

\* removedNoLock(): called once the lock is free again.
ReleasesLock ==
  /\ pc = "Removing"
  /\ pc' = "Releasing" /\ lock' = LockWhileReleasing
  /\ UNCHANGED <<catalogueVars, attached, call, streamed, mirrored, mirrorParent>>

\* streaming.release() destroys the streaming object: its destructor waits
\* for the I/O thread.
ReleasesStreaming ==
  /\ pc = "Releasing"
  /\ pc' = "Joining"
  /\ UNCHANGED <<catalogueVars, attached, lock, call, streamed, mirrored, mirrorParent>>

JoinsIoThread ==
  /\ pc = "Joining" /\ call = NoCall
  /\ pc' = "Gone" /\ lock' = "free"
  /\ UNCHANGED <<catalogueVars, attached, call, streamed, mirrored, mirrorParent>>

\* The device is gone.
Gone == pc = "Gone" /\ UNCHANGED vars

-----------------------------------------------------------------------------
IoSlot == \E s \in Signals : HandleAvailable(s) \/ HandleUnavailable(s)

DeviceNext ==
  \/ \E s \in Signals : IoPublishes(s) \/ IoWithdraws(s)
  \/ IoSlot
  \/ AttachAvailable \/ AttachUnavailable
  \/ RemovedUnderLock \/ ReleasesLock \/ ReleasesStreaming \/ JoinsIoThread
  \/ Gone

DeviceSpec == DeviceInit /\ [][DeviceNext]_vars

\* Both threads keep running whenever they can take the lock.
FairDevice ==
  /\ DeviceSpec
  /\ WF_vars(IoSlot)
  /\ WF_vars(ReleasesLock) /\ WF_vars(ReleasesStreaming) /\ WF_vars(JoinsIoThread)

-----------------------------------------------------------------------------
\* "Event handlers are attached such that when the connection is established
\* and remote signals become available, mirrored signal objects are created for
\* them": a device that is up mirrors the catalogue, and nothing else.
\* A mirrored signal has the domain signal it was registered with, also when
\* that signal has come and gone in the meantime.
MirrorsCatalogue ==
  pc = "Running" /\ call = NoCall =>
    /\ mirrored = catalogue
    /\ \A s \in mirrored : mirrorParent[s] = parentOf[s]

\* Once removal has begun, no late announcement touches the device's signals.
QuietOnceRemoved == [][Removed => UNCHANGED <<streamed, mirrored, mirrorParent>>]_vars

\* Removing a device ends, although the I/O thread it waits for may itself be
\* waiting for the device's lock.
RemovalReturns == Removed ~> pc = "Gone"
=============================================================================
