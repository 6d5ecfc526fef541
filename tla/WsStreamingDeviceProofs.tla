---------------------- MODULE WsStreamingDeviceProofs ----------------------
(***************************************************************************)
(* Theorems about WsStreamingDevice.tla, for any set of signals: a device  *)
(* mirrors the catalogue of its streaming object until it is removed, and  *)
(* is left alone from then on.                                             *)
(***************************************************************************)
EXTENDS WsStreamingDevice, TLAPS

\* Identifiers that stay different when '/' becomes '#'.
Distinct == \A m, s \in Signals : LocalId[m] = LocalId[s] => m = s

-----------------------------------------------------------------------------
(* The invariant.                                                          *)

\* Before both slots are connected there is nothing to mirror.
NothingYet ==
  pc \in {"Constructing", "HalfAttached"} =>
    /\ catalogue = {} /\ streamed = {} /\ mirrored = {}
    /\ call = NoCall /\ lock = "free"

\* While the device is up, the mirror differs from the catalogue by the signal
\* the I/O thread is about to announce, if by any.
InStep ==
  pc = "Running" =>
    /\ attached = {"available", "unavailable"} /\ lock = "free"
    /\ call = NoCall =>
         mirrored = catalogue /\ \A m \in mirrored : mirrorParent[m] = parentOf[m]
    /\ \A s \in Signals : call = Call("available", s) =>
         /\ s \in catalogue /\ mirrored = catalogue \ {s}
         /\ parentOf[s] \in mirrored \cup {NoParent}
         /\ \A m \in mirrored : mirrorParent[m] = parentOf[m]
    /\ \A s \in Signals : call = Call("unavailable", s) =>
         /\ s \in mirrored /\ catalogue = mirrored \ {s}
         /\ \A m \in catalogue :
              parentOf[m] = IF mirrorParent[m] = s THEN Former ELSE mirrorParent[m]

DeviceInv == DeviceTypeOK /\ NothingYet /\ InStep

LEMMA DeviceInvInit == DeviceInit => DeviceInv
BY DEF DeviceInit, CatalogueInit, DeviceInv, DeviceTypeOK, NothingYet, InStep

\* Calls are told apart by their kind and their signal.
LEMMA Calls ==
  ASSUME NEW s, NEW t, NEW k, NEW l, k # "none"
  PROVE  /\ NoCall # Call(k, s)
         /\ Call(k, s) = Call(l, t) => k = l /\ s = t
<1>1. NoCall.kind = "none" /\ Call(k, s).kind = k /\ Call(k, s).signal = s
      /\ Call(l, t).kind = l /\ Call(l, t).signal = t
  BY DEF NoCall, Call
<1> QED BY <1>1

-----------------------------------------------------------------------------
(* The I/O thread.                                                         *)

\* A registered signal is announced if the device is up.
LEMMA PublishesInv ==
  ASSUME DeviceInv, EarlySignals = FALSE, NEW s \in Signals, IoPublishes(s)
  PROVE  DeviceInv'
<1>1. /\ call = NoCall /\ pc \notin {"Constructing", "HalfAttached"}
      /\ s \notin catalogue /\ catalogue' = catalogue \cup {s}
      /\ forwarded' = forwarded
      /\ UNCHANGED <<pc, attached, lock, streamed, mirrored, mirrorParent>>
  BY DEF IoPublishes, IoIdle, Register
<1>2. PICK d \in catalogue \cup {NoParent} : parentOf' = [parentOf EXCEPT ![s] = d]
  BY DEF IoPublishes
<1>3. call' \in {NoCall, Call("available", s)}
      /\ ("available" \in attached => call' = Call("available", s))
  BY DEF IoPublishes, Emits
<1>4. DeviceTypeOK'
  <2>1. parentOf' \in [Signals -> Signals \cup {NoParent, Former}]
    BY <1>2 DEF DeviceInv, DeviceTypeOK
  <2> QED BY <2>1, <1>1, <1>3 DEF DeviceInv, DeviceTypeOK
<1>5. NothingYet'
  BY <1>1 DEF NothingYet
<1>6. InStep'
  <2> SUFFICES ASSUME pc' = "Running" PROVE InStep'
    BY DEF InStep
  <2>1. /\ attached = {"available", "unavailable"} /\ lock = "free"
        /\ mirrored = catalogue /\ \A m \in mirrored : mirrorParent[m] = parentOf[m]
    BY <1>1 DEF DeviceInv, InStep
  <2>2. call' = Call("available", s)
    BY <2>1, <1>3
  <2>3. /\ call' # NoCall
        /\ \A t \in Signals : call' = Call("available", t) => t = s
        /\ \A t \in Signals : call' # Call("unavailable", t)
    BY <2>2, Calls
  <2>4. /\ \A m \in mirrored : parentOf'[m] = parentOf[m]
        /\ parentOf'[s] = d
    BY <1>1, <1>2, <2>1 DEF DeviceInv, DeviceTypeOK
  <2> QED BY <1>1, <2>1, <2>3, <2>4 DEF InStep
<1> QED BY <1>4, <1>5, <1>6 DEF DeviceInv

\* So is the end of one.
LEMMA WithdrawsInv ==
  ASSUME DeviceInv, NEW s \in Signals, IoWithdraws(s)
  PROVE  DeviceInv'
<1>1. /\ call = NoCall /\ s \in catalogue /\ catalogue' = catalogue \ {s}
      /\ forwarded' = forwarded \ {s}
      /\ parentOf' = [d \in Signals |->
           IF d = s THEN NoParent
           ELSE IF parentOf[d] = s THEN Former ELSE parentOf[d]]
      /\ UNCHANGED <<pc, attached, lock, streamed, mirrored, mirrorParent>>
  BY DEF IoWithdraws, IoIdle, Withdraw
<1>2. call' \in {NoCall, Call("unavailable", s)}
      /\ ("unavailable" \in attached => call' = Call("unavailable", s))
  BY DEF IoWithdraws, Emits
<1>3. DeviceTypeOK'
  <2>1. parentOf' \in [Signals -> Signals \cup {NoParent, Former}]
    BY <1>1 DEF DeviceInv, DeviceTypeOK
  <2> QED BY <2>1, <1>1, <1>2 DEF DeviceInv, DeviceTypeOK
<1>4. NothingYet'
  BY <1>1 DEF DeviceInv, NothingYet
<1>5. InStep'
  <2> SUFFICES ASSUME pc' = "Running" PROVE InStep'
    BY DEF InStep
  <2>1. /\ attached = {"available", "unavailable"} /\ lock = "free"
        /\ mirrored = catalogue /\ \A m \in mirrored : mirrorParent[m] = parentOf[m]
    BY <1>1 DEF DeviceInv, InStep
  <2>2. call' = Call("unavailable", s)
    BY <2>1, <1>2
  <2>3. /\ call' # NoCall
        /\ \A t \in Signals : call' = Call("unavailable", t) => t = s
        /\ \A t \in Signals : call' # Call("available", t)
    BY <2>2, Calls
  <2>4. \A m \in catalogue' :
          parentOf'[m] = IF mirrorParent[m] = s THEN Former ELSE mirrorParent[m]
    BY <1>1, <2>1 DEF DeviceInv, DeviceTypeOK
  <2> QED BY <1>1, <2>1, <2>3, <2>4 DEF InStep
<1> QED BY <1>3, <1>4, <1>5 DEF DeviceInv

\* The slot for a new signal finds its domain signal and no other of its local
\* identifier.
LEMMA HandlesAvailableInv ==
  ASSUME DeviceInv, Distinct, NEW s \in Signals, HandleAvailable(s)
  PROVE  DeviceInv'
<1>1. /\ call = Call("available", s) /\ call' = NoCall /\ call # NoCall
      /\ UNCHANGED <<catalogueVars, pc, attached, lock>>
  BY Calls DEF HandleAvailable
<1>2. DeviceTypeOK'
  BY <1>1 DEF DeviceInv, DeviceTypeOK, HandleAvailable, catalogueVars, Parents, SameLocalId
<1>3. NothingYet'
  BY <1>1 DEF DeviceInv, NothingYet
<1>4. InStep'
  <2> SUFFICES ASSUME pc = "Running" PROVE InStep'
    BY <1>1 DEF InStep
  <2>1. /\ attached = {"available", "unavailable"} /\ lock = "free"
        /\ s \in catalogue /\ mirrored = catalogue \ {s}
        /\ parentOf[s] \in mirrored \cup {NoParent}
        /\ \A m \in mirrored : mirrorParent[m] = parentOf[m]
    BY <1>1 DEF DeviceInv, InStep
  <2>2. ~Ignored /\ SameLocalId(s) = {}
    BY <2>1 DEF Ignored, Removed, SameLocalId, Distinct, DeviceInv, DeviceTypeOK
  <2>3. Parents(parentOf[s]) = {parentOf[s]}
    BY <2>1 DEF Parents, SameLocalId, Distinct, DeviceInv, DeviceTypeOK
  <2>4. mirrored' = mirrored \cup {s}
        /\ mirrorParent' = [mirrorParent EXCEPT ![s] = parentOf[s]]
    BY <2>2, <2>3 DEF HandleAvailable
  <2>5. \A m \in mirrored' : mirrorParent'[m] = parentOf[m]
    BY <2>1, <2>4 DEF DeviceInv, DeviceTypeOK
  <2>6. \A t \in Signals : call' # Call("available", t) /\ call' # Call("unavailable", t)
    BY <1>1, Calls
  <2> QED BY <1>1, <2>1, <2>4, <2>5, <2>6 DEF InStep, catalogueVars
<1> QED BY <1>2, <1>3, <1>4 DEF DeviceInv

\* The slot for a withdrawn signal unlinks it as the catalogue did.
LEMMA HandlesUnavailableInv ==
  ASSUME DeviceInv, NEW s \in Signals, HandleUnavailable(s)
  PROVE  DeviceInv'
<1>1. /\ call = Call("unavailable", s) /\ call' = NoCall /\ call # NoCall
      /\ UNCHANGED <<catalogueVars, pc, attached, lock>>
  BY Calls DEF HandleUnavailable
<1>2. DeviceTypeOK'
  BY <1>1 DEF DeviceInv, DeviceTypeOK, HandleUnavailable, catalogueVars, MirrorWithout
<1>3. NothingYet'
  BY <1>1 DEF DeviceInv, NothingYet
<1>4. InStep'
  <2> SUFFICES ASSUME pc = "Running" PROVE InStep'
    BY <1>1 DEF InStep
  <2>1. /\ attached = {"available", "unavailable"} /\ lock = "free"
        /\ s \in mirrored /\ catalogue = mirrored \ {s}
        /\ \A m \in catalogue :
             parentOf[m] = IF mirrorParent[m] = s THEN Former ELSE mirrorParent[m]
    BY <1>1 DEF DeviceInv, InStep
  <2>2. /\ mirrored' = mirrored \ {s}
        /\ mirrorParent' = [m \in Signals |-> IF m = s THEN NoParent
                                   ELSE IF mirrorParent[m] = s THEN Former
                                   ELSE mirrorParent[m]]
    BY <2>1 DEF HandleUnavailable, MirrorWithout, Ignored, Removed
  <2>3. \A m \in mirrored' : mirrorParent'[m] = parentOf[m]
    BY <2>1, <2>2 DEF DeviceInv, DeviceTypeOK
  <2>4. \A t \in Signals : call' # Call("available", t) /\ call' # Call("unavailable", t)
    BY <1>1, Calls
  <2> QED BY <1>1, <2>1, <2>2, <2>3, <2>4 DEF InStep, catalogueVars
<1> QED BY <1>2, <1>3, <1>4 DEF DeviceInv

-----------------------------------------------------------------------------
(* The application thread, and the theorems.                               *)

\* Both slots are connected before there is anything to announce.
LEMMA ApplicationInv ==
  ASSUME DeviceInv,
         \/ AttachAvailable \/ AttachUnavailable \/ RemovedUnderLock
         \/ ReleasesLock \/ ReleasesStreaming \/ JoinsIoThread
  PROVE  DeviceInv'
<1>1. UNCHANGED <<catalogueVars, call, streamed, mirrored, mirrorParent>>
  BY DEF AttachAvailable, AttachUnavailable, RemovedUnderLock, ReleasesLock,
         ReleasesStreaming, JoinsIoThread
<1>2. /\ pc' \in {"HalfAttached", "Running", "Removing", "Releasing", "Joining", "Gone"}
      /\ attached' \subseteq {"available", "unavailable"}
      /\ lock' \in {"free", "remover"}
      /\ pc' = "HalfAttached" => pc = "Constructing" /\ lock' = lock
      /\ pc' = "Running" => /\ pc = "HalfAttached" /\ lock' = lock
                            /\ attached' = {"available", "unavailable"}
  <2>1. attached \subseteq {"available", "unavailable"} /\ lock \in {"free", "remover"}
    BY DEF DeviceInv, DeviceTypeOK
  <2>2. CASE AttachAvailable
    BY <2>1, <2>2 DEF AttachAvailable
  <2>3. CASE AttachUnavailable
    BY <2>1, <2>3 DEF AttachUnavailable
  <2>4. CASE RemovedUnderLock
    BY <2>4 DEF RemovedUnderLock
  <2>5. CASE ReleasesLock
    BY <2>1, <2>5 DEF ReleasesLock, LockWhileReleasing
  <2>6. CASE ReleasesStreaming
    BY <2>1, <2>6 DEF ReleasesStreaming
  <2>7. CASE JoinsIoThread
    BY <2>1, <2>7 DEF JoinsIoThread
  <2> QED BY <2>2, <2>3, <2>4, <2>5, <2>6, <2>7
<1>3. DeviceTypeOK'
  BY <1>1, <1>2 DEF DeviceInv, DeviceTypeOK, catalogueVars
<1>4. NothingYet'
  BY <1>1, <1>2 DEF DeviceInv, NothingYet, catalogueVars
<1>5. InStep'
  BY <1>1, <1>2, Calls DEF DeviceInv, NothingYet, InStep, catalogueVars
<1> QED BY <1>3, <1>4, <1>5 DEF DeviceInv

LEMMA DeviceStep ==
  ASSUME DeviceInv, EarlySignals = FALSE, Distinct, [DeviceNext]_vars
  PROVE  DeviceInv'
<1>1. CASE \E s \in Signals : IoPublishes(s) \/ IoWithdraws(s)
  BY <1>1, PublishesInv, WithdrawsInv
<1>2. CASE IoSlot
  BY <1>2, HandlesAvailableInv, HandlesUnavailableInv DEF IoSlot
<1>3. CASE Gone \/ UNCHANGED vars
  BY <1>3 DEF Gone, vars, catalogueVars, deviceVars, DeviceInv, DeviceTypeOK, NothingYet, InStep
<1>4. CASE \/ AttachAvailable \/ AttachUnavailable \/ RemovedUnderLock
           \/ ReleasesLock \/ ReleasesStreaming \/ JoinsIoThread
  BY <1>4, ApplicationInv
<1> QED BY <1>1, <1>2, <1>3, <1>4 DEF DeviceNext

\* When no signal is announced before the constructor has connected its slots and
\* no two identifiers become the same local identifier, a device that is up has
\* exactly the signals of the catalogue, with the domain signals they were
\* registered with (onSignalAvailable(), onSignalUnavailable()).
THEOREM MirrorsCatalogueHolds ==
  ASSUME EarlySignals = FALSE, Distinct
  PROVE  DeviceSpec => []MirrorsCatalogue
<1>1. DeviceInv => MirrorsCatalogue
  BY DEF DeviceInv, InStep, MirrorsCatalogue
<1>2. DeviceInit => DeviceInv
  BY DeviceInvInit
<1>3. DeviceInv /\ [DeviceNext]_vars => DeviceInv'
  BY DeviceStep
<1> QED BY <1>1, <1>2, <1>3, PTL DEF DeviceSpec

\* Whatever is announced, and whenever: once removed() has run, no slot that was
\* called before or waited for the lock changes the device's signals.
THEOREM QuietOnceRemovedHolds == DeviceSpec => QuietOnceRemoved
<1>1. ASSUME [DeviceNext]_vars, Removed
      PROVE  UNCHANGED <<streamed, mirrored, mirrorParent>>
  <2>1. CASE \E s \in Signals : IoPublishes(s) \/ IoWithdraws(s)
    BY <2>1 DEF IoPublishes, IoWithdraws
  <2>2. CASE IoSlot
    BY <1>1, <2>2 DEF IoSlot, HandleAvailable, HandleUnavailable, Ignored
  <2>3. CASE Gone \/ UNCHANGED vars
    BY <2>3 DEF Gone, vars, deviceVars
  <2>4. CASE \/ AttachAvailable \/ AttachUnavailable \/ RemovedUnderLock
             \/ ReleasesLock \/ ReleasesStreaming \/ JoinsIoThread
    BY <2>4 DEF AttachAvailable, AttachUnavailable, RemovedUnderLock, ReleasesLock,
       ReleasesStreaming, JoinsIoThread
  <2> QED BY <1>1, <2>1, <2>2, <2>3, <2>4 DEF DeviceNext
<1> QED BY <1>1, PTL DEF DeviceSpec, QuietOnceRemoved
=============================================================================
