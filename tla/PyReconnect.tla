---------------------------- MODULE PyReconnect ----------------------------
(***************************************************************************)
(* PyBridge across one reconnection (run_forever): the new session, with   *)
(* its own visitor, and the stream that the old session left behind if     *)
(* its tasks outlived finish().  Stream ids start at 1 in each session and *)
(* Agent.send names no session, so both are stream 1 of the new one.       *)
(***************************************************************************)
EXTENDS MCPyBridge

CONSTANT Stranger  \* what the service says on the old stream's connection

VARIABLES oldPy, oldLoc  \* py and loc of the old session's stream

Old == INSTANCE PyStream WITH py <- oldPy, loc <- oldLoc

oldVars == <<oldPy, oldLoc>>
reVars == <<vars, oldVars>>

NoOld == /\ oldPy = P!NoPyStream(FALSE)
         /\ oldLoc = NewConnection

ReInit == Init /\ NoOld

\* _session, from the connect to its read loop: frames queued for the dead
\* session are dropped, and so are its streams, finished ones and all.
Reconnect ==
    /\ srvClosed /\ sessionOver
    /\ oldPy.run = "none"
    /\ oldPy' = py /\ oldLoc' = loc
    /\ srv' = S!NoStream /\ pub' = NewSocket
    /\ srvCongested' = FALSE /\ srvClosed' = FALSE
    /\ py' = P!NoPyStream(py.rewriteHost) /\ loc' = NewConnection
    /\ sessionOver' = FALSE /\ linkUp' = TRUE
    /\ toAgent' = <<>> /\ toServer' = <<>>
    /\ visitorSaid' = 0 /\ serviceSaid' = 0
    /\ UNCHANGED happened

\* The tasks of the old stream run on, and queue their frames like any other.
OldTask ==
    /\ Old!PyTask \/ Old!DialFail
    /\ UNCHANGED <<sVars, py, loc, outsideVars>>

\* A service that speaks first.
OldServiceSend ==
    /\ oldPy.run = "pumps"
    /\ oldPy.sendCredit = Window /\ oldLoc.inq = <<>>
    /\ oldLoc' = [oldLoc EXCEPT !.inq = <<Stranger>>]
    /\ UNCHANGED <<vars, oldPy>>

ReNext == \/ Next /\ UNCHANGED oldVars
          \/ Reconnect
          \/ OldTask
          \/ OldServiceSend

ReSpec == ReInit /\ [][ReNext]_reVars

\* "Streams are not resumable, so connections that were in flight are simply
\* gone" (docs/PROTOCOL.md:176-177).  But the visitor of the new session reads
\* what the service told a connection of the old one, which was being dialled
\* when the session ended.
OwnBytesOnly == Stranger \notin ToSet(pub.got)
=============================================================================
