---------------------------- MODULE ServerOutlet ----------------------------
(***************************************************************************)
(* The function blocks of ws_streaming_server_outlet_fb.cpp on top of the  *)
(* servers of LtServer.tla.  A block finds a server, attaches to it on the *)
(* server's own I/O thread and keeps one nested block per connected client *)
(* until it is removed or the server is closed.  The application thread    *)
(* creates and removes blocks while that thread runs.                      *)
(*                                                                         *)
(* A block's handlers take its configuration lock, which remove() holds:   *)
(* a handler that has been called may have to wait until the block has     *)
(* been removed, and then runs.                                            *)
(***************************************************************************)
EXTENDS LtServer

CONSTANTS
  Blocks,       \* server-side outlet function blocks
  RemoveEarly   \* TRUE: a block may be removed before it is attached

ASSUME BlockAssumption == RemoveEarly \in BOOLEAN

VARIABLES
  created,   \* blocks that exist
  server,    \* _server
  posted,    \* blocks whose attach() is posted and has not run
  slots,     \* blocks whose event handlers are connected
  removed,   \* blocks that have been removed
  nested,    \* <<block, client>>: the block has a nested block for the client
  calls,     \* handlers the I/O thread of each server has still to call
  waiting    \* the handler it has called, which waits for its block's lock

blockVars == <<created, server, posted, slots, removed, nested, calls, waiting>>
vars == <<serverVars, blockVars>>

\* Calls of a block's handlers: of onClientConnected() by the server or, for a
\* client that was there before, by attach(); onClientDisconnected();
\* onServerClosed().
NoCall == [kind |-> "none"]
Call(kind, b, c) == [kind |-> kind, block |-> b, client |-> c]
ClosedCall(b) == [kind |-> "closed", block |-> b]

HandlerCall ==
  [kind : {"found", "connected", "disconnected"}, block : Blocks, client : Clients]
    \cup [kind : {"closed"}, block : Blocks]

TypeOK ==
  /\ ServerTypeOK
  /\ created \subseteq Blocks
  /\ server \in [Blocks -> Servers \cup {NoServer}]
  /\ posted \subseteq created /\ slots \subseteq created /\ removed \subseteq created
  /\ nested \subseteq Blocks \X Clients
  /\ calls \in [Servers -> SUBSET HandlerCall]
  /\ waiting \in [Servers -> HandlerCall \cup {NoCall}]

Init ==
  /\ ServerInit
  /\ created = {} /\ posted = {} /\ slots = {} /\ removed = {} /\ nested = {}
  /\ server = [b \in Blocks |-> NoServer]
  /\ calls = [s \in Servers |-> {}] /\ waiting = [s \in Servers |-> NoCall]

\* Blocks whose event handlers a server's events reach.
Attached(s) == {b \in slots : server[b] = s}

\* The I/O thread of s is in no handler: it can take the next event.
IoIdle(s) == calls[s] = {} /\ waiting[s] = NoCall

-----------------------------------------------------------------------------
(* The application thread.                                                 *)

\* findServer() finds none: the block does nothing.
CreateDead(b) ==
  /\ b \notin created
  /\ created' = created \cup {b}
  /\ UNCHANGED <<server, posted, slots, removed, nested, calls, waiting, serverVars>>

\* findServer() finds a server, perhaps one that has been stopped.
Create(b, s) ==
  /\ b \notin created /\ phase[s] \notin {"New", "Failed"}
  /\ created' = created \cup {b}
  /\ server' = [server EXCEPT ![b] = s]
  /\ posted' = posted \cup {b}
  /\ UNCHANGED <<slots, removed, nested, calls, waiting, serverVars>>

\* Mistake: the event handlers stay connected.
Detached_Kept(b) == slots
Detached(b) == slots \ {b}

\* What removed() does: the nested blocks go with FunctionBlock::removed(),
\* then the event handlers are disconnected.  A handler that has been called
\* already is not waited for.
TakesDown(b) ==
  /\ removed' = removed \cup {b}
  /\ nested' = {n \in nested : n[1] # b}
  /\ slots' = Detached(b)

\* remove(), with the block's lock held.
Remove(b) ==
  /\ b \in created \ removed
  /\ b \in posted /\ server[b] \in Up => RemoveEarly
  /\ TakesDown(b)
  /\ UNCHANGED <<created, server, posted, calls, waiting, serverVars>>

-----------------------------------------------------------------------------
(* The server's I/O thread.                                                *)

\* attach() after the server has been closed.
AttachTooLate(b) ==
  /\ b \in posted /\ phase[server[b]] = "Closed" /\ IoIdle(server[b])
  /\ posted' = posted \ {b}
  /\ TakesDown(b)
  /\ UNCHANGED <<created, server, calls, waiting, serverVars>>

\* Mistake: the clients that were there before are forgotten.
ClientsFound_None(s) == {}
ClientsFound(s) == ClientsOf(s)

Owes(s, owed) == calls' = [calls EXCEPT ![s] = owed]

\* attach(): the handlers are connected, and onClientConnected() is then
\* called for each client that is there.
Attach(b) ==
  /\ b \in posted /\ phase[server[b]] \in {"Running", "Stopping"} /\ IoIdle(server[b])
  /\ posted' = posted \ {b}
  /\ slots' = slots \cup {b}
  /\ Owes(server[b], {Call("found", b, c) : c \in ClientsFound(server[b])})
  /\ UNCHANGED <<created, server, removed, nested, waiting, serverVars>>

\* A client connects, or goes: the handlers of every attached block are to be
\* called.
Connects(c, s) ==
  /\ IoIdle(s) /\ ClientConnects(c, s)
  /\ Owes(s, {Call("connected", b, c) : b \in Attached(s)})
  /\ UNCHANGED <<created, server, posted, slots, removed, nested, waiting>>

Disconnects(c, s) ==
  /\ IoIdle(s) /\ ClientDisconnects(c, s)
  /\ Owes(s, {Call("disconnected", b, c) : b \in Attached(s)})
  /\ UNCHANGED <<created, server, posted, slots, removed, nested, waiting>>

\* The server closes: its clients are disconnected and it announces that it is
\* closed, in an order the server module does not rely on.
Closes(s) ==
  /\ IoIdle(s) /\ Close(s)
  /\ Owes(s, {Call("disconnected", b, c) : b \in Attached(s), c \in ClientsOf(s)}
                \cup {ClosedCall(b) : b \in Attached(s)})
  /\ UNCHANGED <<created, server, posted, slots, removed, nested, waiting>>

\* The next handler is called, if it is still connected when its turn comes:
\* attach() calls onClientConnected() itself, connected or not.
Calls(s, x) ==
  /\ waiting[s] = NoCall /\ x \in calls[s]
  /\ Owes(s, calls[s] \ {x})
  /\ waiting' = [waiting EXCEPT ![s] =
                   IF x.kind = "found" \/ x.block \in slots THEN x ELSE NoCall]
  /\ UNCHANGED <<created, server, posted, slots, removed, nested, serverVars>>

\* The handler gets the lock, does its work and returns, whatever has become of
\* the block since it was called.
Returns(s) ==
  /\ waiting' = [waiting EXCEPT ![s] = NoCall]
  /\ UNCHANGED <<created, posted, removed, calls, serverVars>>

\* onClientConnected()
OnClientConnected(s) ==
  /\ waiting[s].kind \in {"found", "connected"}
  /\ nested' = nested \cup {<<waiting[s].block, waiting[s].client>>}
  /\ Returns(s) /\ UNCHANGED <<server, slots>>

\* Mistake: the nested block of a client that has gone is kept.
NestedWithout_Kept(b, c) == nested
NestedWithout(b, c) == nested \ {<<b, c>>}

\* onClientDisconnected()
OnClientDisconnected(s) ==
  /\ waiting[s].kind = "disconnected"
  /\ nested' = NestedWithout(waiting[s].block, waiting[s].client)
  /\ Returns(s) /\ UNCHANGED <<server, slots>>

\* onServerClosed(): the block lets go of the server.
OnServerClosed(s) ==
  /\ waiting[s].kind = "closed"
  /\ slots' = slots \ {waiting[s].block}
  /\ server' = [server EXCEPT ![waiting[s].block] = NoServer]
  /\ Returns(s) /\ UNCHANGED nested

\* Mistake: stopping does not let the I/O thread drain.
Drained_Stopped(s) == TRUE

\* The I/O thread has run what was posted to it.
Drained(s) == \A b \in posted : server[b] # s

Ends(s) ==
  /\ Joined(s) /\ Drained(s) /\ IoIdle(s)
  /\ UNCHANGED blockVars

-----------------------------------------------------------------------------
\* The servers' other steps.
Manages(s) ==
  /\ ConstructFails(s) \/ Construct(s) \/ Stop(s) \/ StopAgain(s)
  /\ UNCHANGED blockVars

DeviceGoes == RemoveDevice /\ UNCHANGED blockVars

\* What is posted to an I/O thread: attach() and close().
IoPosted(s) ==
  \/ Closes(s)
  \/ \E b \in Blocks : server[b] = s /\ (Attach(b) \/ AttachTooLate(b))

\* An I/O thread goes on with what it is doing.
IoGoesOn(s) ==
  \/ \E x \in calls[s] : Calls(s, x)
  \/ OnClientConnected(s) \/ OnClientDisconnected(s) \/ OnServerClosed(s)
  \/ Ends(s)

\* Every server has had its life.
Rest ==
  /\ \A s \in Servers : \/ phase[s] \in {"Failed", "Stopped", "StoppedAgain"}
                        \/ phase[s] = "New" /\ deviceRemoved
  /\ UNCHANGED vars

Next ==
  \/ \E b \in Blocks : CreateDead(b) \/ Remove(b) \/ \E s \in Servers : Create(b, s)
  \/ \E s \in Servers : IoPosted(s) \/ IoGoesOn(s) \/ Manages(s)
  \/ \E c \in Clients, s \in Servers : Connects(c, s) \/ Disconnects(c, s)
  \/ DeviceGoes \/ Rest

Spec == Init /\ [][Next]_vars

\* Handlers get the lock they wait for and return, and an I/O thread runs what
\* is posted to it in the order it was posted, after finitely many events.
FairSpec ==
  Spec /\ \A s \in Servers : WF_vars(IoGoesOn(s)) /\ SF_vars(IoPosted(s))

-----------------------------------------------------------------------------
\* An attached block has a nested block for each client connected to its
\* server, whether the client or the block was there first, and for no other,
\* whenever the server's I/O thread is in none of the handlers.
NestedMatchesClients ==
  \A b \in slots : IoIdle(server[b]) =>
    {c \in Clients : <<b, c>> \in nested} = ClientsOf(server[b])

\* "Removes the nested WsStreamingClientOutletFb function blocks for all
\* clients, and detaches event handlers from the WsStreamingServer": nothing of
\* a removed block is left, and nothing grows back.
RemovedIsDetached ==
  \A b \in removed : b \notin slots /\ \A c \in Clients : <<b, c>> \notin nested

\* A handler of the block that will run although its events are disconnected.
Called(b) ==
  \E s \in Servers :
    \/ waiting[s] # NoCall /\ waiting[s].block = b
    \/ \E x \in calls[s] : x.kind = "found" /\ x.block = b

NestedOf(b) == {n \in nested : n[1] = b}

\* What RemovedIsDetached leaves of the header's claim for a block that has been
\* attached: once the calls that were under way when it was removed have
\* returned, no event of any server reaches it again and nothing of it changes.
RemovalIsFinal ==
  [][\A b \in removed : ~Called(b) =>
        b \notin slots' /\ ~Called(b)' /\ NestedOf(b)' = NestedOf(b)]_vars

\* Stopping a server waits for its I/O thread, which ends; and a block that has
\* found a running server gets to attach or is taken down, even if the server is
\* being stopped meanwhile.
StopsEnd ==
  /\ \A s \in Servers :
       phase[s] = "Stopping" ~> phase[s] \in {"Stopped", "StoppedAgain"}
  /\ \A b \in Blocks : b \in posted /\ server[b] \in Up ~> b \notin posted
=============================================================================
