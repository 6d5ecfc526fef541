------------------------------ MODULE LtServer ------------------------------
(***************************************************************************)
(* The life of WsStreamingServer objects on one device: what the device's  *)
(* information says of them (server capabilities, connected clients), and  *)
(* how they are built, stopped and destroyed.  A server runs an I/O thread *)
(* of its own; an application thread builds and stops it.  Servers may be  *)
(* built and stopped again and again, each as a new object, and an old one *)
(* may be destroyed when a new one is already up.                          *)
(*                                                                         *)
(* Until its thread starts a server handles nothing, so its constructor is *)
(* one action.  Stopping is not: the slots go first, the connections are   *)
(* closed on the I/O thread, and the capability goes when that has ended.  *)
(***************************************************************************)
CONSTANTS
  Servers,      \* server objects
  Clients,      \* clients, with one connection at a time each
  NoServer,
  ChannelsOf    \* the channels each server is configured for

Channel == {"LT", "LTS"}

\* A server without channels is refused before it does anything.
ASSUME ChannelAssumption ==
  /\ ChannelsOf \in [Servers -> (SUBSET Channel) \ {{}}]
  /\ NoServer \notin Servers

VARIABLES
  phase,          \* where in its life each server is
  added,          \* servers with _capability_added
  capabilities,   \* server capabilities of the device
  deviceRemoved,  \* _rootDevice.isRemoved()
  conn,           \* the server each client is connected to
  registered,     \* keys of _registeredClientIds
  numbered,       \* those whose client number is not zero
  listed          \* connected clients in the device's information

deviceVars == <<capabilities, deviceRemoved, listed>>
clientVars == <<conn, registered, numbered>>
serverVars == <<phase, added, deviceVars, clientVars>>

Phase == {"New", "Failed", "Running", "Stopping", "Closed", "Stopped", "StoppedAgain"}

\* A server that is up, or on its way down.
Up == {s \in Servers : phase[s] \in {"Running", "Stopping", "Closed"}}

ServerTypeOK ==
  /\ phase \in [Servers -> Phase]
  /\ added = Up
  /\ capabilities \subseteq Channel
  /\ deviceRemoved \in BOOLEAN
  /\ conn \in [Clients -> Servers \cup {NoServer}]
  /\ numbered \subseteq registered /\ registered \subseteq Clients \X Servers
  /\ listed \subseteq Clients \X Servers

ServerInit ==
  /\ phase = [s \in Servers |-> "New"]
  /\ added = {} /\ capabilities = {} /\ deviceRemoved = FALSE
  /\ conn = [c \in Clients |-> NoServer]
  /\ registered = {} /\ numbered = {} /\ listed = {}

Enters(s, p) == phase' = [phase EXCEPT ![s] = p]
ClientsOf(s) == {c \in Clients : conn[c] = s}

-----------------------------------------------------------------------------
(* Building a server.                                                      *)

\* addCapability() refuses a device that has a capability for either channel.
Refused(s) == capabilities # {}

\* A constructor that throws: the configuration is wrong, addCapability()
\* refuses, or the I/O thread does not start and the capability is taken back.
ConstructFails(s) ==
  /\ phase[s] = "New" /\ ~deviceRemoved
  /\ Enters(s, "Failed")
  /\ UNCHANGED <<added, deviceVars, clientVars>>

Construct(s) ==
  /\ phase[s] = "New" /\ ~deviceRemoved
  /\ ~Refused(s)
  /\ Enters(s, "Running")
  /\ capabilities' = capabilities \cup ChannelsOf[s]
  /\ added' = added \cup {s}
  /\ UNCHANGED <<deviceRemoved, listed, clientVars>>

-----------------------------------------------------------------------------
(* Connections, on the I/O thread.                                         *)

Accepting(s) == phase[s] \in {"Running", "Stopping"}

\* The slots onClientConnected and onClientDisconnected are connected.
Attentive(s) == phase[s] = "Running"

\* onClientConnected(): no client is listed on a removed device, and one
\* whose address cannot be read any more is not registered at all.
ClientConnects(c, s) ==
  /\ conn[c] = NoServer /\ Accepting(s)
  /\ conn' = [conn EXCEPT ![c] = s]
  /\ \E readable \in BOOLEAN :
       LET lists == Attentive(s) /\ ~deviceRemoved /\ readable
           keeps == Attentive(s) /\ (deviceRemoved \/ readable)
       IN  /\ registered' = IF keeps THEN registered \cup {<<c, s>>} ELSE registered
           /\ numbered' = IF lists THEN numbered \cup {<<c, s>>} ELSE numbered
           /\ listed' = IF lists THEN listed \cup {<<c, s>>} ELSE listed
  /\ UNCHANGED <<phase, added, capabilities, deviceRemoved>>

\* Mistake: the entry goes, the client stays listed.
ListedWithout_Kept(c, s) == listed
ListedWithout(c, s) ==
  IF deviceRemoved \/ <<c, s>> \notin numbered THEN listed ELSE listed \ {<<c, s>>}

\* onClientDisconnected()
ClientDisconnects(c, s) ==
  /\ conn[c] = s /\ s # NoServer /\ Accepting(s)
  /\ conn' = [conn EXCEPT ![c] = NoServer]
  /\ listed' = IF Attentive(s) THEN ListedWithout(c, s) ELSE listed
  /\ registered' = IF Attentive(s) THEN registered \ {<<c, s>>} ELSE registered
  /\ numbered' = IF Attentive(s) THEN numbered \ {<<c, s>>} ELSE numbered
  /\ UNCHANGED <<phase, added, capabilities, deviceRemoved>>

-----------------------------------------------------------------------------
(* Stopping a server.                                                      *)

\* Mistake: a server takes the capability away whether it is its own or not.
OwnsCapability_Always(s) == TRUE

\* _capability_added
OwnsCapability(s) == s \in added

AddedWithout(s) == added \ {s}

\* removeCapability() takes both channels away, whatever the server added.
RemoveCapability(s) ==
  /\ added' = AddedWithout(s)
  /\ capabilities' = IF OwnsCapability(s) /\ ~deviceRemoved THEN {} ELSE capabilities

\* onStopServer(): the slots are disconnected and close() is posted.
Stop(s) ==
  /\ phase[s] = "Running"
  /\ Enters(s, "Stopping")
  /\ UNCHANGED <<added, deviceVars, clientVars>>

ConnectionsAfterClose(s) == [c \in Clients |-> IF conn[c] = s THEN NoServer ELSE conn[c]]

\* close() on the I/O thread ends the listeners and every connection.
Close(s) ==
  /\ phase[s] = "Stopping"
  /\ Enters(s, "Closed")
  /\ conn' = ConnectionsAfterClose(s)
  /\ UNCHANGED <<added, deviceVars, registered, numbered>>

\* With nothing left to do the I/O thread ends, and onStopServer() with it.
Joined(s) ==
  /\ phase[s] = "Closed" /\ ClientsOf(s) = {}
  /\ Enters(s, "Stopped")
  /\ RemoveCapability(s)
  /\ UNCHANGED <<deviceRemoved, listed, clientVars>>

\* The destructor, or openDAQ, stops a server that has been stopped already.
StopAgain(s) ==
  /\ phase[s] = "Stopped"
  /\ Enters(s, "StoppedAgain")
  /\ RemoveCapability(s)
  /\ UNCHANGED <<deviceRemoved, listed, clientVars>>

\* The application removes the root device.
RemoveDevice ==
  /\ ~deviceRemoved
  /\ deviceRemoved' = TRUE
  /\ UNCHANGED <<phase, added, capabilities, listed, clientVars>>

-----------------------------------------------------------------------------
ServerNext ==
  \/ \E s \in Servers :
       \/ ConstructFails(s) \/ Construct(s)
       \/ Stop(s) \/ Close(s) \/ Joined(s) \/ StopAgain(s)
       \/ \E c \in Clients : ClientConnects(c, s) \/ ClientDisconnects(c, s)
  \/ RemoveDevice

ServerSpec == ServerInit /\ [][ServerNext]_serverVars

-----------------------------------------------------------------------------
\* One server at a time has the device, and the device advertises exactly its
\* channels: neither a server that could not be built nor the late second stop
\* of an old one touches the capability of the one that is up.
CapabilityMatchesServer ==
  /\ \A s, t \in Up : s = t
  /\ ~deviceRemoved => capabilities = UNION {ChannelsOf[s] : s \in Up}

\* While a server runs, the device lists as its clients those connected to it
\* and nobody else, whatever became of earlier connections.  (A connection
\* whose address could not be read is the exception.)
ListedAreConnected ==
  \A s \in Servers : phase[s] = "Running" /\ ~deviceRemoved =>
    \A c \in Clients :
      /\ <<c, s>> \in listed => conn[c] = s
      /\ conn[c] = s /\ <<c, s>> \in registered => <<c, s>> \in listed
=============================================================================
