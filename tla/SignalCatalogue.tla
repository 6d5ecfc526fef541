-------------------------- MODULE SignalCatalogue --------------------------
(***************************************************************************)
(* What the streaming object promises openDAQ, whatever the device sends   *)
(* and however long it takes: a catalogue of signals.  Signals enter it in *)
(* groups, a domain signal always before the signals it is the domain of;  *)
(* a signal is in it until the device withdraws it; and only signals in it *)
(* have their packets forwarded.  How metadata is fetched, awaited, retried*)
(* and deferred is not visible here.                                       *)
(***************************************************************************)
CONSTANTS
  Signals,   \* signal identifiers
  NoParent,  \* no domain signal
  Former     \* a domain signal that has been withdrawn since

VARIABLES
  catalogue,  \* signals registered with openDAQ
  parentOf,   \* the domain signal each was registered with
  forwarded   \* signals whose packets are forwarded

catalogueVars == <<catalogue, parentOf, forwarded>>

CatalogueInit ==
  /\ catalogue = {} /\ forwarded = {}
  /\ parentOf = [s \in Signals |-> NoParent]

\* An order of registration exists: no set of new signals is in want of its
\* own members.
Grounded(group, par) ==
  \A Q \in SUBSET group : Q # {} => \E s \in Q : par[s] \notin Q

\* A group of signals becomes known to openDAQ.
Register(group) ==
  /\ group # {} /\ group \cap catalogue = {}
  /\ catalogue' = catalogue \cup group
  /\ \A s \in Signals \ group : parentOf'[s] = parentOf[s]
  /\ \A s \in group : parentOf'[s] \in catalogue' \cup {NoParent}
  /\ Grounded(group, parentOf')
  /\ forwarded' = forwarded

\* The device withdraws a signal; signals that have it as their domain keep a
\* domain signal that is gone.
Withdraw(s) ==
  /\ catalogue' = catalogue \ {s}
  /\ forwarded' = forwarded \ {s}
  /\ parentOf' = [d \in Signals |->
       IF d = s THEN NoParent
       ELSE IF parentOf[d] = s THEN Former ELSE parentOf[d]]

\* Packets of a registered signal start or stop flowing.
Forward(s) ==
  /\ s \in catalogue
  /\ forwarded' = forwarded \cup {s}
  /\ UNCHANGED <<catalogue, parentOf>>

Silence(s) ==
  /\ forwarded' = forwarded \ {s}
  /\ UNCHANGED <<catalogue, parentOf>>

CatalogueNext ==
  \/ \E group \in SUBSET Signals : Register(group)
  \/ \E s \in Signals : Withdraw(s) \/ Forward(s) \/ Silence(s)

CatalogueSpec == CatalogueInit /\ [][CatalogueNext]_catalogueVars
=============================================================================
