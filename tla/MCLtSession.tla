---------------------------- MODULE MCLtSession ----------------------------
(* LtSession for TLC: the value signal (2) names the time signal (1).        *)
EXTENDS LtSession, TLC

ValueNamesTime == {<<2, 1>>}

\* Every device of test_device_compatibility.cpp that ignores at most two
\* requests, and their combinations.
AllDevices ==
  [drops : 0 .. 2, timeFirst : BOOLEAN, withholds : BOOLEAN, outOfOrder : BOOLEAN]

With(devices, patient, asks, acts) ==
  {d @@ [timely |-> TRUE, patient |-> patient, impulses |-> acts, switches |-> asks] :
     d \in devices}

\* Devices that serve requests in order, in a session without disturbances.
Orderly == {d \in AllDevices : ~d.outOfOrder}
CalmSessions == With(Orderly, TRUE, 4, 0)

\* Every device, with things done of its own accord, and applications that do not
\* wait for the answers to their requests.
RestlessSessions == With(AllDevices, FALSE, 2, 2)

CalmAndRestless == CalmSessions \cup RestlessSessions

DisturbedSessions == With(Orderly, TRUE, 1, 1)
=============================================================================
