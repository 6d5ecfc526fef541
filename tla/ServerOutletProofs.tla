------------------------ MODULE ServerOutletProofs ------------------------
(***************************************************************************)
(* Theorems about LtServer.tla and ServerOutlet.tla, for any number of     *)
(* servers, clients and blocks.  Function blocks do not disturb the        *)
(* servers: ServerOutlet implements LtServer, so what is proved of the     *)
(* servers alone holds with blocks attached to them.                       *)
(***************************************************************************)
EXTENDS ServerOutlet, TLAPS

-----------------------------------------------------------------------------
(* The servers.                                                            *)

\* Where clients can be: connected to a server whose I/O thread runs, known to
\* a server only once it has been built, and on the device's list exactly if
\* the running server knows them.
ClientsInv ==
  \A c \in Clients, s \in Servers :
    /\ conn[c] = s => phase[s] \in {"Running", "Stopping"}
    /\ phase[s] \in {"New", "Failed"} => <<c, s>> \notin registered \cup listed
    /\ phase[s] = "Running" =>
         /\ <<c, s>> \in registered => conn[c] = s
         /\ ~deviceRemoved => (<<c, s>> \in listed <=> <<c, s>> \in registered)
         /\ ~deviceRemoved => (<<c, s>> \in registered <=> <<c, s>> \in numbered)

ServerInv == ServerTypeOK /\ CapabilityMatchesServer /\ ClientsInv

\* No server is up at first, and the device advertises nothing.
LEMMA ServerInvInit == ServerInit => ServerInv
<1> SUFFICES ASSUME ServerInit PROVE ServerInv
  OBVIOUS
<1>1. Up = {}
  BY DEF ServerInit, Up
<1>2. CapabilityMatchesServer
  BY <1>1 DEF ServerInit, CapabilityMatchesServer
<1>3. ServerTypeOK /\ ClientsInv
  BY <1>1, ChannelAssumption DEF ServerInit, ServerTypeOK, ClientsInv, Phase
<1> QED BY <1>2, <1>3 DEF ServerInv

\* A server that is built had no capability in its way, so no other is up.
LEMMA ConstructInv ==
  ASSUME ServerInv, NEW s \in Servers, Construct(s)
  PROVE  ServerInv'
<1>1. Up = {}
  <2>1. UNION {ChannelsOf[t] : t \in Up} = {}
    BY DEF ServerInv, CapabilityMatchesServer, Construct, Refused
  <2>2. \A t \in Up : ChannelsOf[t] # {}
    BY ChannelAssumption DEF Up
  <2> QED BY <2>1, <2>2
<1>2. Up' = {s}
  BY <1>1 DEF ServerInv, ServerTypeOK, Construct, Enters, Up
<1>3. ServerTypeOK'
  BY <1>1, <1>2, ChannelAssumption
     DEF ServerInv, ServerTypeOK, Construct, Enters, Phase, Channel, clientVars
<1>4. CapabilityMatchesServer'
  BY <1>2, ChannelAssumption
     DEF Construct, Refused, CapabilityMatchesServer, Channel
<1>5. ClientsInv'
  BY DEF ServerInv, ServerTypeOK, ClientsInv, Construct, Enters, clientVars
<1> QED BY <1>3, <1>4, <1>5 DEF ServerInv

\* Clients come and go on the I/O thread of one server.
LEMMA ClientConnectsInv ==
  ASSUME ServerInv, NEW c \in Clients, NEW s \in Servers, ClientConnects(c, s)
  PROVE  ServerInv'
<1>1. ServerTypeOK'
  BY DEF ServerInv, ServerTypeOK, ClientConnects, Attentive, Up
<1>2. CapabilityMatchesServer'
  BY DEF ServerInv, CapabilityMatchesServer, ClientConnects, Up
<1>3. ClientsInv'
  BY ChannelAssumption
     DEF ServerInv, ServerTypeOK, ClientsInv, ClientConnects, Attentive, Accepting
<1> QED BY <1>1, <1>2, <1>3 DEF ServerInv

\* Only a client that was listed is taken from the list.
LEMMA ClientDisconnectsInv ==
  ASSUME ServerInv, NEW c \in Clients, NEW s \in Servers, ClientDisconnects(c, s)
  PROVE  ServerInv'
<1>1. ServerTypeOK'
  BY DEF ServerInv, ServerTypeOK, ClientDisconnects, ListedWithout, Attentive, Up
<1>2. CapabilityMatchesServer'
  BY DEF ServerInv, CapabilityMatchesServer, ClientDisconnects, Up
<1>3. ClientsInv'
  BY ChannelAssumption
     DEF ServerInv, ServerTypeOK, ClientsInv, ClientDisconnects, ListedWithout,
         Attentive, Accepting
<1> QED BY <1>1, <1>2, <1>3 DEF ServerInv

\* A server gives up its capability when its thread has ended, and only then.
LEMMA JoinedInv ==
  ASSUME ServerInv, NEW s \in Servers, Joined(s)
  PROVE  ServerInv'
<1>1. Up = {s} /\ Up' = {}
  BY DEF ServerInv, ServerTypeOK, CapabilityMatchesServer, Joined, Enters, Up
<1>2. ServerTypeOK'
  BY <1>1
     DEF ServerInv, ServerTypeOK, Joined, Enters, RemoveCapability, OwnsCapability,
         AddedWithout, Phase, clientVars
<1>3. CapabilityMatchesServer'
  BY <1>1
     DEF ServerInv, ServerTypeOK, CapabilityMatchesServer, Joined, RemoveCapability,
         OwnsCapability
<1>4. ClientsInv'
  BY DEF ServerInv, ServerTypeOK, ClientsInv, Joined, Enters, clientVars
<1> QED BY <1>2, <1>3, <1>4 DEF ServerInv

\* The late second stop changes nothing.
LEMMA StopAgainInv ==
  ASSUME ServerInv, NEW s \in Servers, StopAgain(s)
  PROVE  ServerInv'
<1>1. s \notin added /\ Up' = Up
  BY DEF ServerInv, ServerTypeOK, StopAgain, Enters, Up
<1>2. UNCHANGED <<added, capabilities, deviceRemoved, listed, clientVars>>
  BY <1>1 DEF StopAgain, RemoveCapability, OwnsCapability, AddedWithout
<1>3. ServerTypeOK'
  BY <1>1, <1>2 DEF ServerInv, ServerTypeOK, StopAgain, Enters, Phase, clientVars
<1>4. CapabilityMatchesServer'
  BY <1>1, <1>2 DEF ServerInv, CapabilityMatchesServer
<1>5. ClientsInv'
  <2>1. \A t \in Servers : \/ phase'[t] = phase[t]
                           \/ phase[t] = "Stopped" /\ phase'[t] = "StoppedAgain"
    BY DEF ServerInv, ServerTypeOK, StopAgain, Enters
  <2>2. UNCHANGED <<deviceRemoved, listed, conn, registered, numbered>>
    BY <1>2 DEF clientVars
  <2> QED BY <2>1, <2>2 DEF ServerInv, ClientsInv
<1> QED BY <1>3, <1>4, <1>5 DEF ServerInv

\* Every step of the servers preserves the invariant.
LEMMA ServerInvStep == ServerInv /\ [ServerNext]_serverVars => ServerInv'
<1> SUFFICES ASSUME ServerInv, [ServerNext]_serverVars
             PROVE  ServerInv'
  OBVIOUS
<1>1. ASSUME NEW s \in Servers, ConstructFails(s) PROVE ServerInv'
  <2>1. Up' = Up
    BY <1>1 DEF ServerInv, ServerTypeOK, ConstructFails, Enters, Up
  <2> QED
    BY <1>1, <2>1
       DEF ServerInv, ServerTypeOK, CapabilityMatchesServer, ClientsInv, ConstructFails,
           Enters, Phase, deviceVars, clientVars
<1>2. ASSUME NEW s \in Servers, Stop(s) PROVE ServerInv'
  <2>1. Up' = Up
    BY <1>2 DEF ServerInv, ServerTypeOK, Stop, Enters, Up
  <2> QED
    BY <1>2, <2>1
       DEF ServerInv, ServerTypeOK, CapabilityMatchesServer, ClientsInv, Stop, Enters,
           Phase, deviceVars, clientVars
<1>3. ASSUME NEW s \in Servers, Close(s) PROVE ServerInv'
  <2>1. Up' = Up
    BY <1>3 DEF ServerInv, ServerTypeOK, Close, Enters, Up
  <2> QED
    BY <1>3, <2>1, ChannelAssumption
       DEF ServerInv, ServerTypeOK, CapabilityMatchesServer, ClientsInv, Close, Enters,
           ConnectionsAfterClose, Phase, deviceVars
<1>4. CASE RemoveDevice
  BY <1>4
     DEF ServerInv, ServerTypeOK, CapabilityMatchesServer, ClientsInv, RemoveDevice,
         Up, clientVars
<1>5. CASE UNCHANGED serverVars
  BY <1>5
     DEF ServerInv, ServerTypeOK, CapabilityMatchesServer, ClientsInv, Up, serverVars,
         deviceVars, clientVars
<1> QED
  BY <1>1, <1>2, <1>3, <1>4, <1>5, ConstructInv, ClientConnectsInv, ClientDisconnectsInv,
     JoinedInv, StopAgainInv
     DEF ServerNext

\* The invariant holds of the servers.
LEMMA ServerInvHolds == ServerSpec => []ServerInv
BY ServerInvInit, ServerInvStep, PTL DEF ServerSpec

-----------------------------------------------------------------------------
(* Blocks do not disturb the servers.                                      *)

\* A step of the servers with their blocks is a step of the servers, or none:
\* ServerOutlet implements LtServer, whatever findServer(), attach() and
\* removed() do.
THEOREM OutletsKeepServers == Spec => ServerSpec
<1>1. Init => ServerInit
  BY DEF Init
<1>2. [Next]_vars => [ServerNext]_serverVars
  <2> SUFFICES ASSUME [Next]_vars PROVE [ServerNext]_serverVars
    OBVIOUS
  <2>1. ASSUME NEW b \in Blocks,
               \/ CreateDead(b) \/ Remove(b)
               \/ \E s \in Servers : Create(b, s)
               \/ Attach(b) \/ AttachTooLate(b)
        PROVE  UNCHANGED serverVars
    BY <2>1 DEF CreateDead, Remove, Create, Attach, AttachTooLate
  <2>6. ASSUME NEW s \in Servers,
               \/ \E x \in calls[s] : Calls(s, x)
               \/ OnClientConnected(s) \/ OnClientDisconnected(s) \/ OnServerClosed(s)
        PROVE  UNCHANGED serverVars
    BY <2>6 DEF Calls, OnClientConnected, OnClientDisconnected, OnServerClosed, Returns
  <2>2. ASSUME NEW s \in Servers, Manages(s) \/ Closes(s) \/ Ends(s)
        PROVE  ServerNext
    BY <2>2 DEF Manages, Closes, Ends, ServerNext
  <2>3. ASSUME NEW s \in Servers, NEW c \in Clients, Connects(c, s) \/ Disconnects(c, s)
        PROVE  ServerNext
    BY <2>3 DEF Connects, Disconnects, ServerNext
  <2>4. CASE DeviceGoes
    BY <2>4 DEF DeviceGoes, ServerNext
  <2>5. CASE Rest \/ UNCHANGED vars
    BY <2>5 DEF Rest, vars
  <2> QED BY <2>1, <2>2, <2>3, <2>4, <2>5, <2>6 DEF Next, IoPosted, IoGoesOn
<1> QED BY <1>1, <1>2, PTL DEF Spec, ServerSpec

\* One server at a time has the device, and the device advertises exactly its
\* channels: a constructor that is refused or fails, a stop, and the second stop
\* of a server that another has replaced, keep it so.
THEOREM CapabilityMatchesServerHolds == Spec => []CapabilityMatchesServer
<1>1. ServerInv => CapabilityMatchesServer
  BY DEF ServerInv
<1> QED BY <1>1, OutletsKeepServers, ServerInvHolds, PTL

\* A running server's clients are listed while they are connected and no
\* longer, whichever handler runs first after which failure.
THEOREM ListedAreConnectedHolds == Spec => []ListedAreConnected
<1>1. ServerInv => ListedAreConnected
  BY DEF ServerInv, ClientsInv, ListedAreConnected
<1> QED BY <1>1, OutletsKeepServers, ServerInvHolds, PTL

-----------------------------------------------------------------------------
(* Nested blocks.                                                          *)

\* What the I/O thread of s has still to run, perhaps.
Pending(s) == calls[s] \cup {waiting[s]}

\* A call that is pending fits the connection it is about, and its block has
\* been attached, to this server if it still is.
CallsInv ==
  \A s \in Servers :
    \A x \in calls[s] \cup ({waiting[s]} \ {NoCall}) :
      /\ x.block \in created \ posted
      /\ x.kind \in {"found", "connected"} => conn[x.client] = s
      /\ x.kind = "disconnected" => conn[x.client] # s
      /\ x.block \in slots => server[x.block] = s

\* A block whose attachment is still posted has no handlers and no nested
\* blocks; once it has handlers its nested blocks are the server's clients,
\* those excepted of whom the I/O thread has still to tell it.
BlocksInv ==
  \A b \in Blocks :
    /\ b \in posted \cup slots => b \in created /\ server[b] \in Servers
    /\ b \in posted \/ b \notin created =>
         b \notin slots /\ \A c \in Clients : <<b, c>> \notin nested
    /\ b \in slots => \A c \in Clients :
         /\ <<b, c>> \in nested =>
              \/ conn[c] = server[b]
              \/ Call("disconnected", b, c) \in Pending(server[b])
         /\ conn[c] = server[b] =>
              \/ <<b, c>> \in nested
              \/ Call("found", b, c) \in Pending(server[b])
              \/ Call("connected", b, c) \in Pending(server[b])

OutletTypeOK ==
  /\ server \in [Blocks -> Servers \cup {NoServer}]
  /\ conn \in [Clients -> Servers \cup {NoServer}]
  /\ posted \subseteq Blocks /\ slots \subseteq Blocks
  /\ calls \in [Servers -> SUBSET HandlerCall]
  /\ waiting \in [Servers -> HandlerCall \cup {NoCall}]

NestedInv == OutletTypeOK /\ BlocksInv /\ CallsInv

\* The application thread creates and removes blocks, and attach() finds the
\* server closed: nothing changes for the other blocks, and what is called for
\* the block itself stays called.
LEMMA AppKeepsNested ==
  ASSUME NestedInv, NEW b \in Blocks,
         \/ CreateDead(b) \/ Remove(b) \/ AttachTooLate(b)
         \/ \E s \in Servers : Create(b, s)
  PROVE  NestedInv'
<1> USE DEF NestedInv, OutletTypeOK, CallsInv, BlocksInv, Pending
<1>1. CASE CreateDead(b) \/ Remove(b)
  BY <1>1 DEF CreateDead, Remove, TakesDown, Detached, serverVars, clientVars
<1>2. CASE AttachTooLate(b)
  BY <1>2 DEF AttachTooLate, TakesDown, Detached, serverVars, clientVars
<1>3. CASE \E s \in Servers : Create(b, s)
  <2>1. PICK s \in Servers : Create(b, s)
    BY <1>3
  <2>2. OutletTypeOK' /\ CallsInv'
    BY <2>1 DEF Create, serverVars, clientVars
  <2>3. BlocksInv'
    BY <2>1 DEF Create, serverVars, clientVars
  <2> QED BY <2>2, <2>3
<1> QED BY <1>1, <1>2, <1>3

\* The elements of HandlerCall, and NoCall, by their fields.
LEMMA CallFields ==
  /\ NoCall \notin HandlerCall
  /\ \A b \in Blocks, c \in Clients, kind \in {"found", "connected", "disconnected"} :
       /\ Call(kind, b, c) \in HandlerCall
       /\ Call(kind, b, c).kind = kind
       /\ Call(kind, b, c).block = b
       /\ Call(kind, b, c).client = c
  /\ \A b \in Blocks :
       ClosedCall(b) \in HandlerCall /\ ClosedCall(b).kind = "closed" /\ ClosedCall(b).block = b
  /\ \A x \in HandlerCall :
       /\ x.block \in Blocks
       /\ \/ x.kind = "closed" /\ x = ClosedCall(x.block)
          \/ /\ x.kind \in {"found", "connected", "disconnected"}
             /\ x.client \in Clients
             /\ x = Call(x.kind, x.block, x.client)
<1>1. NoCall \notin HandlerCall
  BY DEF NoCall, HandlerCall
<1> QED BY <1>1 DEF HandlerCall, Call, ClosedCall

\* attach() owes the block a call for each client there is.
LEMMA AttachKeepsNested ==
  ASSUME NestedInv, NEW b \in Blocks, Attach(b)
  PROVE  NestedInv'
<1> DEFINE s == server[b]
<1>1. /\ s \in Servers /\ b \in created /\ b \notin slots
      /\ \A c \in Clients : <<b, c>> \notin nested
      /\ calls[s] = {} /\ waiting[s] = NoCall
  BY DEF NestedInv, OutletTypeOK, BlocksInv, Attach, IoIdle
<1>2. /\ UNCHANGED <<conn, created, server, nested, waiting>>
      /\ posted' = posted \ {b} /\ slots' = slots \cup {b}
      /\ calls' = [calls EXCEPT ![s] = {Call("found", b, c) : c \in ClientsOf(s)}]
  BY DEF Attach, Owes, ClientsFound, serverVars, clientVars
<1>3. OutletTypeOK'
  BY <1>1, <1>2, CallFields DEF NestedInv, OutletTypeOK, ClientsOf
<1>4. CallsInv'
  <2>1. \A t \in Servers : t # s => calls'[t] = calls[t]
    BY <1>1, <1>2 DEF NestedInv, OutletTypeOK
  <2>2. calls'[s] = {Call("found", b, c) : c \in ClientsOf(s)}
    BY <1>1, <1>2 DEF NestedInv, OutletTypeOK
  <2>3. \A x \in calls'[s] :
          x.kind = "found" /\ x.block = b /\ x.client \in Clients /\ conn[x.client] = s
    BY <2>2, CallFields DEF ClientsOf
  <2>4. \A t \in Servers : \A x \in calls[t] \cup ({waiting[t]} \ {NoCall}) : x.block # b
    BY DEF NestedInv, CallsInv, Attach
  <2> QED BY <1>1, <1>2, <2>1, <2>3, <2>4 DEF NestedInv, CallsInv
<1>5. BlocksInv'
  <2>1. ASSUME NEW d \in Blocks, d # b
        PROVE  \A c \in Clients, k \in {"found", "connected", "disconnected"} :
                 server[d] \in Servers /\ Call(k, d, c) \in Pending(server[d]) =>
                   (Call(k, d, c) \in Pending(server[d]))'
    BY <2>1, <1>1, <1>2, CallFields DEF NestedInv, OutletTypeOK, Pending
  <2>2. \A c \in ClientsOf(s) : (Call("found", b, c) \in Pending(server[b]))'
    BY <1>1, <1>2 DEF NestedInv, OutletTypeOK, Pending
  <2>3. ASSUME NEW d \in Blocks, d \in slots'
        PROVE  \A c \in Clients :
                 /\ <<d, c>> \in nested' =>
                      \/ conn'[c] = server'[d]
                      \/ (Call("disconnected", d, c) \in Pending(server[d]))'
                 /\ conn'[c] = server'[d] =>
                      \/ <<d, c>> \in nested'
                      \/ (Call("found", d, c) \in Pending(server[d]))'
                      \/ (Call("connected", d, c) \in Pending(server[d]))'
    <3>1. CASE d = b
      BY <3>1, <1>1, <1>2, <2>2 DEF ClientsOf
    <3>2. CASE d # b
      BY <3>2, <2>3, <1>2, <2>1 DEF NestedInv, BlocksInv
    <3> QED BY <3>1, <3>2
  <2>4. \A d \in Blocks :
          /\ d \in posted' \cup slots' => d \in created' /\ server'[d] \in Servers
          /\ d \in posted' \/ d \notin created' =>
               d \notin slots' /\ \A c \in Clients : <<d, c>> \notin nested'
    BY <1>1, <1>2 DEF NestedInv, BlocksInv
  <2> QED BY <2>3, <2>4 DEF BlocksInv
<1> QED BY <1>3, <1>4, <1>5 DEF NestedInv

\* What every event of a server comes to: the handlers of attached blocks are
\* owed, and nothing else of the blocks changes.
EventOwes(s, owed) ==
  /\ owed \subseteq HandlerCall
  /\ \A x \in owed : x.block \in Attached(s) /\ x.kind # "found"
  /\ IoIdle(s) /\ Owes(s, owed)
  /\ UNCHANGED <<created, server, posted, slots, removed, nested, waiting>>

LEMMA EventsOwe ==
  ASSUME NestedInv, NEW s \in Servers,
         Closes(s) \/ \E c \in Clients : Connects(c, s) \/ Disconnects(c, s)
  PROVE  \E owed : EventOwes(s, owed)
<1>0. Attached(s) \subseteq Blocks
  BY DEF NestedInv, OutletTypeOK, Attached
<1>1. ASSUME NEW c \in Clients, Connects(c, s) PROVE \E owed : EventOwes(s, owed)
  <2> DEFINE owed == {Call("connected", b, c) : b \in Attached(s)}
  <2>1. EventOwes(s, owed)
    BY <1>0, <1>1, CallFields DEF Connects, EventOwes
  <2> QED BY <2>1
<1>2. ASSUME NEW c \in Clients, Disconnects(c, s) PROVE \E owed : EventOwes(s, owed)
  <2> DEFINE owed == {Call("disconnected", b, c) : b \in Attached(s)}
  <2>1. EventOwes(s, owed)
    BY <1>0, <1>2, CallFields DEF Disconnects, EventOwes
  <2> QED BY <2>1
<1>3. CASE Closes(s)
  <2> DEFINE owed == {Call("disconnected", b, c) : b \in Attached(s), c \in ClientsOf(s)}
                       \cup {ClosedCall(b) : b \in Attached(s)}
  <2>1. owed \subseteq HandlerCall
        /\ \A x \in owed : x.block \in Attached(s) /\ x.kind # "found"
    BY <1>0, CallFields DEF ClientsOf
  <2>2. IoIdle(s) /\ Owes(s, owed)
        /\ UNCHANGED <<created, server, posted, slots, removed, nested, waiting>>
    BY <1>3 DEF Closes
  <2> QED BY <2>1, <2>2 DEF EventOwes
<1> QED BY <1>1, <1>2, <1>3

\* The server's event owes every attached block a call, and every client keeps
\* the connection it has with the other servers.
LEMMA EventKeepsNested ==
  ASSUME NestedInv, NEW s \in Servers, NEW owed, owed \subseteq HandlerCall,
         IoIdle(s), Owes(s, owed),
         UNCHANGED <<created, server, posted, slots, nested, waiting>>,
         conn' \in [Clients -> Servers \cup {NoServer}],
         \A x \in owed : x.block \in Attached(s) /\ x.kind # "found",
         \A x \in owed : x.kind = "connected" => conn'[x.client] = s,
         \A x \in owed : x.kind = "disconnected" => conn'[x.client] # s,
         \A c \in Clients : conn'[c] # conn[c] =>
           /\ conn[c] \in {s, NoServer} /\ conn'[c] \in {s, NoServer}
           /\ \A b \in Attached(s) :
                Call(IF conn'[c] = s THEN "connected" ELSE "disconnected", b, c) \in owed
  PROVE  NestedInv'
<1>1. /\ calls' = [calls EXCEPT ![s] = owed] /\ calls[s] = {} /\ waiting[s] = NoCall
      /\ slots \subseteq Blocks
      /\ \A t \in Servers : t # s => calls'[t] = calls[t]
      /\ calls'[s] = owed
  BY DEF IoIdle, Owes, NestedInv, OutletTypeOK
<1>2. NoServer \notin Servers
  BY ChannelAssumption
<1>3. OutletTypeOK'
  BY <1>1 DEF NestedInv, OutletTypeOK
<1>4. CallsInv'
  <2>1. ASSUME NEW t \in Servers, t # s,
               NEW x \in calls[t] \cup ({waiting[t]} \ {NoCall})
        PROVE  /\ x.kind \in {"found", "connected"} => conn'[x.client] = t
               /\ x.kind = "disconnected" => conn'[x.client] # t
    <3>1. x \in HandlerCall
      BY DEF NestedInv, OutletTypeOK
    <3>2. x.kind # "closed" => x.client \in Clients
      BY <3>1, CallFields
    <3> QED BY <2>1, <3>2, <1>2 DEF NestedInv, CallsInv
  <2>2. \A x \in owed : x.block \in created \ posted /\ server[x.block] = s
    BY <1>1 DEF NestedInv, BlocksInv, Attached
  <2>3. ASSUME NEW t \in Servers, t # s
        PROVE  \A x \in calls[t] \cup ({waiting[t]} \ {NoCall}) :
                    /\ x.block \in created \ posted
                    /\ x.block \in slots => server[x.block] = t
    BY DEF NestedInv, CallsInv
  <2>4. ASSUME NEW t \in Servers, t # s
        PROVE  calls'[t] \cup ({waiting'[t]} \ {NoCall}) = calls[t] \cup ({waiting[t]} \ {NoCall})
    BY <1>1, <2>4
  <2>5. ASSUME NEW t \in Servers
        PROVE  \A x \in calls'[t] \cup ({waiting'[t]} \ {NoCall}) :
                    /\ x.block \in created' \ posted'
                    /\ x.kind \in {"found", "connected"} => conn'[x.client] = t
                    /\ x.kind = "disconnected" => conn'[x.client] # t
                    /\ x.block \in slots' => server'[x.block] = t
    <3>1. CASE t = s
      BY <3>1, <1>1, <2>2
    <3>2. CASE t # s
      BY <3>2, <2>1, <2>3, <2>4
    <3> QED BY <3>1, <3>2
  <2> QED BY <2>5 DEF CallsInv
<1>5. BlocksInv'
  <2>1. ASSUME NEW b \in Blocks, b \in slots, NEW c \in Clients
        PROVE  /\ <<b, c>> \in nested =>
                    \/ conn'[c] = server[b]
                    \/ (Call("disconnected", b, c) \in Pending(server[b]))'
               /\ conn'[c] = server[b] =>
                    \/ <<b, c>> \in nested
                    \/ (Call("found", b, c) \in Pending(server[b]))'
                    \/ (Call("connected", b, c) \in Pending(server[b]))'
    <3>0. server[b] \in Servers
      BY <2>1 DEF NestedInv, BlocksInv
    <3>1. CASE server[b] = s
      <4>1. Pending(server[b]) = {NoCall} /\ (Pending(server[b]))' = owed \cup {NoCall}
        BY <3>1, <1>1 DEF Pending
      <4>2. \A k \in {"found", "connected", "disconnected"} : Call(k, b, c) # NoCall
        BY CallFields
      <4>3. <<b, c>> \in nested <=> conn[c] = s
        BY <4>1, <4>2, <3>1, <2>1 DEF NestedInv, BlocksInv
      <4> QED BY <4>1, <4>3, <3>1, <2>1, <1>2 DEF Attached
    <3>2. CASE server[b] # s
      <4>1. (Pending(server[b]))' = Pending(server[b])
        BY <3>0, <3>2, <1>1 DEF Pending
      <4>2. conn'[c] = server[b] <=> conn[c] = server[b]
        BY <3>0, <3>2, <1>2
      <4> QED BY <4>1, <4>2, <2>1 DEF NestedInv, BlocksInv
    <3> QED BY <3>1, <3>2
  <2> QED BY <2>1, <1>1 DEF NestedInv, BlocksInv
<1> QED BY <1>3, <1>4, <1>5 DEF NestedInv

\* A client that connects, one that goes, and the close of the server.
LEMMA ServerEventKeepsNested ==
  ASSUME NestedInv, NEW s \in Servers,
         Closes(s) \/ \E c \in Clients : Connects(c, s) \/ Disconnects(c, s)
  PROVE  NestedInv'
<1>0. /\ conn \in [Clients -> Servers \cup {NoServer}] /\ NoServer \notin Servers
      /\ Attached(s) \subseteq Blocks
  BY ChannelAssumption DEF NestedInv, OutletTypeOK, Attached
<1>1. ASSUME NEW c \in Clients, Connects(c, s) PROVE NestedInv'
  <2> DEFINE owed == {Call("connected", b, c) : b \in Attached(s)}
  <2>1. owed \subseteq HandlerCall
        /\ \A x \in owed : x.block \in Attached(s) /\ x.kind = "connected" /\ x.client = c
    BY <1>0, CallFields
  <2>2. conn' = [conn EXCEPT ![c] = s] /\ conn[c] = NoServer
    BY <1>1 DEF Connects, ClientConnects
  <2>3. IoIdle(s) /\ Owes(s, owed)
        /\ UNCHANGED <<created, server, posted, slots, nested, waiting>>
    BY <1>1 DEF Connects
  <2> HIDE DEF owed
  <2>4. \A b \in Attached(s) : Call("connected", b, c) \in owed
    BY DEF owed
  <2> QED BY <1>0, <2>1, <2>2, <2>3, <2>4, EventKeepsNested
<1>2. ASSUME NEW c \in Clients, Disconnects(c, s) PROVE NestedInv'
  <2> DEFINE owed == {Call("disconnected", b, c) : b \in Attached(s)}
  <2>1. owed \subseteq HandlerCall
        /\ \A x \in owed : x.block \in Attached(s) /\ x.kind = "disconnected" /\ x.client = c
    BY <1>0, CallFields
  <2>2. conn' = [conn EXCEPT ![c] = NoServer] /\ conn[c] = s
    BY <1>2 DEF Disconnects, ClientDisconnects
  <2>3. IoIdle(s) /\ Owes(s, owed)
        /\ UNCHANGED <<created, server, posted, slots, nested, waiting>>
    BY <1>2 DEF Disconnects
  <2> HIDE DEF owed
  <2>4. \A b \in Attached(s) : Call("disconnected", b, c) \in owed
    BY DEF owed
  <2> QED BY <1>0, <2>1, <2>2, <2>3, <2>4, EventKeepsNested
<1>3. CASE Closes(s)
  <2> DEFINE owed == {Call("disconnected", b, c) : b \in Attached(s), c \in ClientsOf(s)}
                       \cup {ClosedCall(b) : b \in Attached(s)}
  <2>1. conn' = [c \in Clients |-> IF conn[c] = s THEN NoServer ELSE conn[c]]
    BY <1>3 DEF Closes, Close, ConnectionsAfterClose
  <2>2. owed \subseteq HandlerCall
        /\ \A x \in owed : /\ x.block \in Attached(s)
                           /\ \/ x.kind = "closed"
                              \/ x.kind = "disconnected" /\ x.client \in ClientsOf(s)
    BY <1>0, CallFields DEF ClientsOf
  <2>3. IoIdle(s) /\ Owes(s, owed)
        /\ UNCHANGED <<created, server, posted, slots, nested, waiting>>
    BY <1>3 DEF Closes
  <2> HIDE DEF owed
  <2>4. \A b \in Attached(s), c \in ClientsOf(s) : Call("disconnected", b, c) \in owed
    BY DEF owed
  <2> QED BY <1>0, <2>1, <2>2, <2>3, <2>4, EventKeepsNested DEF ClientsOf
<1> QED BY <1>1, <1>2, <1>3

\* The next handler is called: one whose block has been removed is skipped.
LEMMA CallsKeepsNested ==
  ASSUME NestedInv, NEW s \in Servers, NEW x \in calls[s], Calls(s, x)
  PROVE  NestedInv'
<1>1. /\ waiting[s] = NoCall /\ x \in HandlerCall /\ x # NoCall
      /\ \A t \in Servers : t # s => calls'[t] = calls[t] /\ waiting'[t] = waiting[t]
      /\ calls'[s] = calls[s] \ {x}
      /\ waiting'[s] = IF x.kind = "found" \/ x.block \in slots THEN x ELSE NoCall
      /\ UNCHANGED <<created, server, posted, slots, nested, conn>>
  BY CallFields DEF Calls, Owes, NestedInv, OutletTypeOK, serverVars, clientVars
<1>2. OutletTypeOK'
  BY <1>1 DEF Calls, Owes, NestedInv, OutletTypeOK
<1>3. ASSUME NEW t \in Servers
      PROVE  calls'[t] \cup ({waiting'[t]} \ {NoCall})
               \subseteq calls[t] \cup ({waiting[t]} \ {NoCall})
  BY <1>1 DEF NestedInv, CallsInv
<1>4. CallsInv'
  BY <1>1, <1>3 DEF NestedInv, CallsInv
<1>5. ASSUME NEW b \in Blocks, b \in slots, NEW c \in Clients,
             NEW k \in {"found", "connected", "disconnected"},
             NEW t \in Servers, Call(k, b, c) \in Pending(t)
      PROVE  (Call(k, b, c) \in Pending(t))'
  <2>1. CASE Call(k, b, c) = x /\ t = s
    BY <2>1, <1>1, <1>5, CallFields DEF Pending
  <2>2. CASE Call(k, b, c) # x \/ t # s
    BY <2>2, <1>1, <1>5, CallFields DEF Pending
  <2> QED BY <2>1, <2>2
<1>6. BlocksInv'
  BY <1>1, <1>5 DEF NestedInv, BlocksInv
<1> QED BY <1>2, <1>4, <1>6 DEF NestedInv

\* A handler runs, whether its block has been removed or not.
LEMMA HandlerKeepsNested ==
  ASSUME NestedInv, NEW s \in Servers,
         OnClientConnected(s) \/ OnClientDisconnected(s) \/ OnServerClosed(s)
  PROVE  NestedInv'
<1> DEFINE x == waiting[s]
<1>1. /\ x \in HandlerCall /\ x # NoCall /\ x.block \in Blocks
      /\ x.block \in slots => server[x.block] = s
      /\ x.block \in created \ posted
      /\ \A t \in Servers : t # s => waiting'[t] = waiting[t]
      /\ waiting'[s] = NoCall
      /\ UNCHANGED <<created, posted, conn, calls>>
  <2>1. x # NoCall
    BY DEF OnClientConnected, OnClientDisconnected, OnServerClosed, NoCall
  <2> QED
    BY <2>1, CallFields
       DEF OnClientConnected, OnClientDisconnected, OnServerClosed, Returns, NestedInv,
           OutletTypeOK, CallsInv, serverVars, clientVars
<1>2. ASSUME NEW b \in Blocks, NEW c \in Clients,
             NEW k \in {"found", "connected", "disconnected"},
             NEW t \in Servers, Call(k, b, c) \in Pending(t), t # s \/ Call(k, b, c) # x
      PROVE  (Call(k, b, c) \in Pending(t))'
  BY <1>1, <1>2 DEF Pending
<1>3. CASE OnClientConnected(s) \/ OnClientDisconnected(s)
  <2>1. UNCHANGED <<server, slots>>
    BY <1>3 DEF OnClientConnected, OnClientDisconnected
  <2>2. OutletTypeOK'
    BY <1>3, <1>1, <2>1 DEF OnClientConnected, OnClientDisconnected, Returns, NestedInv, OutletTypeOK
  <2>3. CallsInv'
    BY <1>1, <2>1 DEF NestedInv, CallsInv
  <2>4. CASE OnClientConnected(s)
    <3>1. /\ x.client \in Clients /\ conn[x.client] = s
          /\ nested' = nested \cup {<<x.block, x.client>>}
          /\ x.kind # "disconnected"
          /\ x = Call("found", x.block, x.client) \/ x = Call("connected", x.block, x.client)
      BY <2>4, <1>1, CallFields DEF OnClientConnected, NestedInv, CallsInv
    <3>2. ASSUME NEW b \in Blocks, b \in slots, NEW c \in Clients
          PROVE  /\ <<b, c>> \in nested' =>
                      \/ conn[c] = server[b]
                      \/ (Call("disconnected", b, c) \in Pending(server[b]))'
                 /\ conn[c] = server[b] =>
                      \/ <<b, c>> \in nested'
                      \/ (Call("found", b, c) \in Pending(server[b]))'
                      \/ (Call("connected", b, c) \in Pending(server[b]))'
      <4>1. CASE b = x.block /\ c = x.client
        BY <4>1, <3>1, <3>2, <2>1, <1>1
      <4>2. CASE ~(b = x.block /\ c = x.client)
        <5>1. \A k \in {"found", "connected", "disconnected"} : Call(k, b, c) # x
          BY <4>2, CallFields
        <5>2. <<b, c>> \in nested' <=> <<b, c>> \in nested
          BY <4>2, <3>1
        <5>3. server[b] \in Servers
          BY <3>2 DEF NestedInv, BlocksInv
        <5> QED BY <5>1, <5>2, <5>3, <3>2, <2>1, <1>2 DEF NestedInv, BlocksInv
      <4> QED BY <4>1, <4>2
    <3>3. BlocksInv'
      BY <3>1, <3>2, <2>1, <1>1 DEF NestedInv, BlocksInv
    <3> QED BY <2>2, <2>3, <3>3 DEF NestedInv
  <2>5. CASE OnClientDisconnected(s)
    <3>1. /\ x.client \in Clients /\ conn[x.client] # s
          /\ nested' = nested \ {<<x.block, x.client>>}
          /\ x = Call("disconnected", x.block, x.client)
      BY <2>5, <1>1, CallFields DEF OnClientDisconnected, NestedWithout, NestedInv, CallsInv
    <3>2. ASSUME NEW b \in Blocks, b \in slots, NEW c \in Clients
          PROVE  /\ <<b, c>> \in nested' =>
                      \/ conn[c] = server[b]
                      \/ (Call("disconnected", b, c) \in Pending(server[b]))'
                 /\ conn[c] = server[b] =>
                      \/ <<b, c>> \in nested'
                      \/ (Call("found", b, c) \in Pending(server[b]))'
                      \/ (Call("connected", b, c) \in Pending(server[b]))'
      <4>1. CASE b = x.block /\ c = x.client
        BY <4>1, <3>1, <3>2, <2>1, <1>1
      <4>2. CASE ~(b = x.block /\ c = x.client)
        <5>1. \A k \in {"found", "connected", "disconnected"} : Call(k, b, c) # x
          BY <4>2, CallFields
        <5>2. <<b, c>> \in nested' <=> <<b, c>> \in nested
          BY <4>2, <3>1
        <5>3. server[b] \in Servers
          BY <3>2 DEF NestedInv, BlocksInv
        <5> QED BY <5>1, <5>2, <5>3, <3>2, <2>1, <1>2 DEF NestedInv, BlocksInv
      <4> QED BY <4>1, <4>2
    <3>3. BlocksInv'
      BY <3>1, <3>2, <2>1, <1>1 DEF NestedInv, BlocksInv
    <3> QED BY <2>2, <2>3, <3>3 DEF NestedInv
  <2> QED BY <1>3, <2>4, <2>5
<1>4. CASE OnServerClosed(s)
  <2>1. /\ slots' = slots \ {x.block} /\ nested' = nested
        /\ server' = [server EXCEPT ![x.block] = NoServer]
        /\ x.kind = "closed"
    BY <1>4 DEF OnServerClosed
  <2>2. OutletTypeOK'
    BY <1>4, <1>1, <2>1 DEF Returns, OnServerClosed, NestedInv, OutletTypeOK
  <2>3. ASSUME NEW t \in Servers, NEW y \in calls'[t] \cup ({waiting'[t]} \ {NoCall})
        PROVE  /\ y.block \in created' \ posted'
               /\ y.kind \in {"found", "connected"} => conn'[y.client] = t
               /\ y.kind = "disconnected" => conn'[y.client] # t
               /\ y.block \in slots' => server'[y.block] = t
    <3>1. y \in calls[t] \cup ({waiting[t]} \ {NoCall}) /\ y.block \in Blocks
      BY <1>1, CallFields DEF NestedInv, OutletTypeOK
    <3> QED BY <3>1, <2>1, <1>1 DEF NestedInv, CallsInv, OutletTypeOK
  <2>4. CallsInv'
    BY <2>3 DEF CallsInv
  <2>5. ASSUME NEW b \in Blocks, b \in slots', NEW c \in Clients
        PROVE  /\ <<b, c>> \in nested' =>
                    \/ conn'[c] = server'[b]
                    \/ (Call("disconnected", b, c) \in Pending(server[b]))'
               /\ conn'[c] = server'[b] =>
                    \/ <<b, c>> \in nested'
                    \/ (Call("found", b, c) \in Pending(server[b]))'
                    \/ (Call("connected", b, c) \in Pending(server[b]))'
    <3>1. b # x.block /\ b \in slots /\ server'[b] = server[b] /\ server[b] \in Servers
      BY <2>1, <2>5 DEF NestedInv, BlocksInv, OutletTypeOK
    <3>2. \A k \in {"found", "connected", "disconnected"} : Call(k, b, c) # x
      BY <3>1, CallFields
    <3> QED BY <3>1, <3>2, <2>1, <1>1, <1>2 DEF NestedInv, BlocksInv
  <2>6. BlocksInv'
    <3>1. \A b \in Blocks : b \in posted => b # x.block
      BY <1>1
    <3> QED BY <3>1, <2>1, <2>5, <1>1 DEF NestedInv, BlocksInv, OutletTypeOK
  <2> QED BY <2>2, <2>4, <2>6 DEF NestedInv
<1> QED BY <1>3, <1>4

\* Every step of servers and blocks preserves it.
LEMMA NestedInvStep ==
  ASSUME NestedInv, [Next]_vars
  PROVE  NestedInv'
<1>1. ASSUME NEW s \in Servers, Manages(s) \/ Ends(s) PROVE UNCHANGED <<conn, blockVars>>
  BY <1>1 DEF Manages, Ends, ConstructFails, Construct, Stop, StopAgain, Joined, clientVars
<1>2. CASE DeviceGoes \/ Rest \/ UNCHANGED vars
  BY <1>2 DEF DeviceGoes, RemoveDevice, Rest, vars, serverVars, clientVars, NestedInv,
              OutletTypeOK, BlocksInv, CallsInv, Pending, blockVars
<1>3. ASSUME UNCHANGED <<conn, blockVars>> PROVE NestedInv'
  BY <1>3 DEF blockVars, NestedInv, OutletTypeOK, BlocksInv, CallsInv, Pending
<1> QED
  BY <1>1, <1>2, <1>3, AppKeepsNested, AttachKeepsNested, ServerEventKeepsNested,
     CallsKeepsNested, HandlerKeepsNested
     DEF Next, IoPosted, IoGoesOn

\* There is nothing at first.
LEMMA NestedInvInit == Init => NestedInv
BY DEF Init, ServerInit, NestedInv, OutletTypeOK, BlocksInv, CallsInv

\* An attached block has one nested block for each client of its server and no
\* other, whether the block, the client or the close came first, whenever the
\* server's I/O thread is in no handler.
THEOREM NestedMatchesClientsHolds == Spec => []NestedMatchesClients
<1>1. NestedInv => NestedMatchesClients
  <2> SUFFICES ASSUME NestedInv, NEW b \in slots, IoIdle(server[b]), NEW c \in Clients
               PROVE  <<b, c>> \in nested <=> conn[c] = server[b]
    BY DEF NestedMatchesClients, ClientsOf
  <2>1. b \in Blocks /\ Pending(server[b]) = {NoCall}
    BY DEF NestedInv, OutletTypeOK, IoIdle, Pending
  <2> QED BY <2>1, CallFields DEF NestedInv, BlocksInv
<1> QED BY <1>1, NestedInvInit, NestedInvStep, PTL DEF Spec

-----------------------------------------------------------------------------
(* Removed blocks.                                                         *)

\* The handlers of a removed block are disconnected, and if its attachment is
\* still posted, its server's I/O thread will not run it.
GoneInv ==
  \A b \in Blocks : b \in removed =>
    /\ b \notin slots
    /\ b \in posted => phase[server[b]] \notin {"New", "Failed", "Running", "Stopping", "Closed"}

\* An attachment is posted to a server that has been built.
PostedInv ==
  \A b \in Blocks :
    /\ b \notin created => b \notin removed
    /\ b \in posted => b \in created /\ server[b] \in Servers
                       /\ phase[server[b]] \notin {"New", "Failed"}

RemovedInv == GoneInv /\ PostedInv /\ removed \subseteq Blocks

\* Servers go through their phases in order: one that has ended does not come
\* back.
LEMMA PhasesInOrder ==
  ASSUME ServerInv, NEW s \in Servers,
         \/ ConstructFails(s) \/ Construct(s) \/ Stop(s) \/ Close(s)
         \/ Joined(s) \/ StopAgain(s)
  PROVE  \A t \in Servers :
           /\ phase[t] \notin {"New", "Failed"} => phase'[t] \notin {"New", "Failed"}
           /\ phase[t] \in {"Stopped", "StoppedAgain"} =>
                phase'[t] \in {"Stopped", "StoppedAgain"}
BY DEF ServerInv, ServerTypeOK, ConstructFails, Construct, Stop, Close, Joined, StopAgain, Enters

\* No step connects a removed block again.
LEMMA RemovedInvStep ==
  ASSUME RemoveEarly = FALSE, RemovedInv, NestedInv, ServerInv, [Next]_vars
  PROVE  RemovedInv'
<1> USE DEF RemovedInv, GoneInv, PostedInv
<1>1. ASSUME NEW b \in Blocks, CreateDead(b)
      PROVE  RemovedInv'
  BY <1>1 DEF CreateDead, serverVars
<1>2. ASSUME NEW b \in Blocks, NEW s \in Servers, Create(b, s)
      PROVE  RemovedInv'
  BY <1>2 DEF NestedInv, OutletTypeOK, Create, serverVars
<1>3. ASSUME NEW b \in Blocks, Remove(b)
      PROVE  RemovedInv'
  BY <1>3 DEF Remove, TakesDown, Detached, Up, serverVars
<1>4. ASSUME NEW b \in Blocks, Attach(b)
      PROVE  RemovedInv'
  BY <1>4 DEF Attach, serverVars
<1>5. ASSUME NEW b \in Blocks, AttachTooLate(b)
      PROVE  RemovedInv'
  BY <1>5 DEF AttachTooLate, TakesDown, Detached, serverVars
<1>6. ASSUME NEW s \in Servers, \E c \in Clients : Connects(c, s) \/ Disconnects(c, s)
      PROVE  RemovedInv'
  BY <1>6 DEF Connects, Disconnects, ClientConnects, ClientDisconnects
<1>7. ASSUME NEW s \in Servers, Closes(s) \/ Manages(s) \/ Ends(s)
      PROVE  RemovedInv'
  <2>1. UNCHANGED <<created, server, posted, slots, removed>>
    BY <1>7 DEF Closes, Manages, Ends, blockVars
  <2>2. \/ ConstructFails(s) \/ Construct(s) \/ Stop(s) \/ Close(s)
        \/ Joined(s) \/ StopAgain(s)
    BY <1>7 DEF Closes, Manages, Ends
  <2>3. \A t \in Servers : phase[t] \in Phase /\ phase'[t] \in Phase
    BY <2>2 DEF ServerInv, ServerTypeOK, ConstructFails, Construct, Stop, Close, Joined,
                StopAgain, Enters, Phase
  <2> QED BY <2>1, <2>2, <2>3, PhasesInOrder DEF Phase
<1>8. ASSUME NEW s \in Servers,
             \/ \E x \in calls[s] : Calls(s, x)
             \/ OnClientConnected(s) \/ OnClientDisconnected(s)
      PROVE  RemovedInv'
  BY <1>8 DEF Calls, OnClientConnected, OnClientDisconnected, Returns, serverVars
<1>9. ASSUME NEW s \in Servers, OnServerClosed(s)
      PROVE  RemovedInv'
  <2>1. waiting[s] \in HandlerCall /\ waiting[s] # NoCall
    BY <1>9, CallFields DEF OnServerClosed, NoCall, NestedInv, OutletTypeOK
  <2>2. waiting[s].block \notin posted
    BY <2>1 DEF NestedInv, CallsInv
  <2> QED BY <1>9, <2>2 DEF OnServerClosed, Returns, NestedInv, OutletTypeOK, serverVars
<1>10. CASE DeviceGoes \/ Rest \/ UNCHANGED vars
  BY <1>10 DEF DeviceGoes, RemoveDevice, Rest, vars, blockVars, serverVars
<1> QED
  BY <1>1, <1>2, <1>3, <1>4, <1>5, <1>6, <1>7, <1>8, <1>9, <1>10
     DEF Next, IoPosted, IoGoesOn

\* No step calls a handler of a removed block that has none running, nor changes
\* what is left of it.
LEMMA RemovalStep ==
  ASSUME RemoveEarly = FALSE, RemovedInv, NestedInv, ServerInv, [Next]_vars,
         NEW b \in removed, ~Called(b)
  PROVE  b \notin slots' /\ ~Called(b)' /\ NestedOf(b)' = NestedOf(b)
<1>0. /\ b \in Blocks /\ b \notin slots
      /\ \A s \in Servers : waiting[s] # NoCall => waiting[s].block # b
      /\ \A s \in Servers : \A x \in calls[s] : x.kind = "found" => x.block # b
  BY DEF RemovedInv, GoneInv, Called
<1>1. ASSUME UNCHANGED <<slots, nested, calls, waiting>>
      PROVE  b \notin slots' /\ ~Called(b)' /\ NestedOf(b)' = NestedOf(b)
  BY <1>0, <1>1 DEF Called, NestedOf
<1>2. ASSUME NEW d \in Blocks, Remove(d) \/ AttachTooLate(d)
      PROVE  b \notin slots' /\ ~Called(b)' /\ NestedOf(b)' = NestedOf(b)
  <2>1. d # b
    BY <1>2 DEF Remove, AttachTooLate, RemovedInv, GoneInv
  <2> QED
    BY <1>0, <1>2, <2>1 DEF Remove, AttachTooLate, TakesDown, Detached, Called, NestedOf
<1>3. ASSUME NEW d \in Blocks, Attach(d)
      PROVE  b \notin slots' /\ ~Called(b)' /\ NestedOf(b)' = NestedOf(b)
  <2>1. d # b /\ server[d] \in Servers
    BY <1>3 DEF Attach, RemovedInv, GoneInv, PostedInv
  <2>2. \A t \in Servers : \A x \in calls'[t] : x \in calls[t] \/ x.block = d
    BY <1>3, <2>1, CallFields
       DEF Attach, Owes, ClientsFound, ClientsOf, NestedInv, OutletTypeOK
  <2> QED BY <1>0, <1>3, <2>1, <2>2 DEF Attach, Called, NestedOf
<1>4. ASSUME NEW s \in Servers, Closes(s) \/ \E c \in Clients : Connects(c, s) \/ Disconnects(c, s)
      PROVE  b \notin slots' /\ ~Called(b)' /\ NestedOf(b)' = NestedOf(b)
  <2>1. \E owed : EventOwes(s, owed)
    BY <1>4, EventsOwe
  <2>2. PICK owed : EventOwes(s, owed)
    BY <2>1
  <2>3. \A t \in Servers : \A x \in calls'[t] : x \in calls[t] \/ x.kind # "found"
    BY <2>2 DEF EventOwes, Owes, NestedInv, OutletTypeOK
  <2> QED BY <1>0, <2>2, <2>3 DEF Called, NestedOf, EventOwes
<1>5. ASSUME NEW s \in Servers, NEW x \in calls[s], Calls(s, x)
      PROVE  b \notin slots' /\ ~Called(b)' /\ NestedOf(b)' = NestedOf(b)
  <2>1. UNCHANGED <<slots, nested>>
        /\ \A t \in Servers : calls'[t] \subseteq calls[t]
    BY <1>5 DEF Calls, Owes, NestedInv, OutletTypeOK
  <2>2. \A t \in Servers :
          waiting'[t] # NoCall => \/ waiting'[t] = waiting[t]
                                  \/ /\ waiting'[t] = x
                                     /\ x.kind = "found" \/ x.block \in slots
    BY <1>5 DEF Calls, NestedInv, OutletTypeOK
  <2>3. x.kind = "found" \/ x.block \in slots => x.block # b
    BY <1>0
  <2> QED BY <1>0, <2>1, <2>2, <2>3 DEF Called, NestedOf
<1>6. ASSUME NEW s \in Servers,
             OnClientConnected(s) \/ OnClientDisconnected(s) \/ OnServerClosed(s)
      PROVE  b \notin slots' /\ ~Called(b)' /\ NestedOf(b)' = NestedOf(b)
  <2>1. waiting[s] # NoCall /\ waiting[s].block # b
    BY <1>0, <1>6 DEF OnClientConnected, OnClientDisconnected, OnServerClosed, NoCall
  <2>2. /\ slots' \subseteq slots /\ calls' = calls
        /\ \A t \in Servers : waiting'[t] # NoCall => waiting'[t] = waiting[t]
    BY <1>6 DEF OnClientConnected, OnClientDisconnected, OnServerClosed, Returns, NestedInv,
                OutletTypeOK
  <2>3. NestedOf(b)' = NestedOf(b)
    BY <1>6, <2>1
       DEF OnClientConnected, OnClientDisconnected, OnServerClosed, NestedWithout, NestedOf
  <2> QED BY <1>0, <2>2, <2>3 DEF Called
<1>7. ASSUME NEW d \in Blocks, CreateDead(d) \/ \E s \in Servers : Create(d, s)
      PROVE  UNCHANGED <<slots, nested, calls, waiting>>
  BY <1>7 DEF CreateDead, Create
<1>8. ASSUME NEW s \in Servers, Manages(s) \/ Ends(s)
      PROVE  UNCHANGED <<slots, nested, calls, waiting>>
  BY <1>8 DEF Manages, Ends, blockVars
<1>9. CASE DeviceGoes \/ Rest \/ UNCHANGED vars
  BY <1>1, <1>9 DEF DeviceGoes, Rest, vars, blockVars
<1> QED
  BY <1>1, <1>2, <1>3, <1>4, <1>5, <1>6, <1>7, <1>8, <1>9 DEF Next, IoPosted, IoGoesOn

\* Of a block that is removed only once it is attached (or its server is no
\* longer up), the calls that were under way are the last: when they have
\* returned, no event of any server reaches it and nothing of it changes,
\* whatever servers and clients do.
THEOREM RemovalIsFinalHolds ==
  ASSUME RemoveEarly = FALSE
  PROVE  Spec => RemovalIsFinal
<1>1. Init => RemovedInv
  BY DEF Init, ServerInit, RemovedInv, GoneInv, PostedInv
<1>2. RemovedInv /\ NestedInv /\ ServerInv /\ [Next]_vars =>
        /\ RemovedInv' /\ NestedInv'
        /\ [\A b \in removed : ~Called(b) =>
              b \notin slots' /\ ~Called(b)' /\ NestedOf(b)' = NestedOf(b)]_vars
  BY RemovedInvStep, NestedInvStep, RemovalStep
<1> QED
  BY <1>1, <1>2, NestedInvInit, OutletsKeepServers, ServerInvHolds, PTL DEF Spec, RemovalIsFinal

-----------------------------------------------------------------------------
(* Types.                                                                  *)

BlockSets ==
  /\ created \subseteq Blocks
  /\ posted \subseteq created /\ slots \subseteq created /\ removed \subseteq created
  /\ nested \subseteq Blocks \X Clients

\* Handlers that run for a block or a client keep within both.
LEMMA BlockSetsStep ==
  ASSUME NestedInv, BlockSets, [Next]_vars
  PROVE  BlockSets'
<1> USE DEF BlockSets
<1>1. ASSUME NEW b \in Blocks, CreateDead(b) \/ Remove(b) \/ AttachTooLate(b) \/ Attach(b)
      PROVE  BlockSets'
  BY <1>1 DEF CreateDead, Remove, AttachTooLate, Attach, TakesDown, Detached
<1>2. ASSUME NEW b \in Blocks, NEW s \in Servers, Create(b, s)
      PROVE  BlockSets'
  BY <1>2 DEF Create
<1>3. ASSUME NEW s \in Servers,
             \/ Closes(s)
             \/ \E c \in Clients : Connects(c, s) \/ Disconnects(c, s)
             \/ \E x \in calls[s] : Calls(s, x)
      PROVE  BlockSets'
  <2>1. UNCHANGED <<created, posted, slots, removed, nested>>
    BY <1>3, EventsOwe DEF EventOwes, Calls
  <2> QED BY <2>1
<1>4. ASSUME NEW s \in Servers,
             OnClientConnected(s) \/ OnClientDisconnected(s) \/ OnServerClosed(s)
      PROVE  BlockSets'
  <2>1. waiting[s] \in HandlerCall
    BY <1>4
       DEF OnClientConnected, OnClientDisconnected, OnServerClosed, NoCall, NestedInv,
           OutletTypeOK
  <2>2. /\ waiting[s].block \in Blocks
        /\ waiting[s].kind # "closed" => waiting[s].client \in Clients
    BY <2>1, CallFields
  <2> QED
    BY <1>4, <2>2
       DEF OnClientConnected, OnClientDisconnected, OnServerClosed, NestedWithout, Returns
<1>5. ASSUME UNCHANGED blockVars PROVE BlockSets'
  BY <1>5 DEF blockVars
<1> QED
  BY <1>1, <1>2, <1>3, <1>4, <1>5
     DEF Next, IoPosted, IoGoesOn, Manages, Ends, DeviceGoes, Rest, vars

\* Type correctness of servers and blocks together.
THEOREM OutletTypeCorrect == Spec => []TypeOK
<1>1. Init => BlockSets
  BY DEF Init, BlockSets
<1>2. ServerInv /\ NestedInv /\ BlockSets => TypeOK
  BY DEF ServerInv, NestedInv, OutletTypeOK, BlockSets, TypeOK
<1> QED
  BY <1>1, <1>2, NestedInvInit, BlockSetsStep, NestedInvStep, OutletsKeepServers,
     ServerInvHolds, PTL DEF Spec
=============================================================================
