----------------------------- MODULE Scheduler -----------------------------
(***************************************************************************)
(* The client of the scheduler (controler/AgvScheduler.cpp) with its       *)
(* socket (comm/AgvSocketClient.cpp): the scheduler thread connects, waits *)
(* for data with a timeout, counts the timeouts without an acknowledgement *)
(* and reconnects, while the main thread sends its own reports over the    *)
(* same client.                                                            *)
(*                                                                         *)
(* A step ends where another thread could interfere: at each access to     *)
(* m_isConnected, client and socketLocker and at each system call.  The    *)
(* thread was started by the first evNetworkOK; StopSchedule is left out.  *)
(* Messages are what they lead to, and one is read at a time.  No command  *)
(* asks SendCmdAndReceive for an answer, so nobody waits for cmdSem.       *)
(***************************************************************************)
EXTENDS Naturals

CONSTANTS
    MaxSockets,         \* descriptors the process may still open
    HeartBeatLimit,     \* timeouts that are let pass without an answer, 50
    MainSends,          \* whether the main thread sends reports
    MaxFaults           \* bound: failures of the server

ASSUME SocketsAssumption == MaxSockets \in Nat \ {0}
ASSUME LimitAssumption == HeartBeatLimit \in Nat
ASSUME SendsAssumption == MainSends \in BOOLEAN
ASSUME FaultsAssumption == MaxFaults \in Nat

Main == "main"
Sched == "scheduler"
Thread == {Main, Sched}
Nobody == "nobody"

VARIABLES
    pc,                 \* pc[t]: where thread t is
    next,               \* next[t]: where it goes after it unlocks
    isConnected,        \* m_isConnected
    client,             \* the client object and its m_fd
    locker,             \* the owner of socketLocker
    heartBeatTimeout,   \* timeouts of select since the last acknowledgement
    told,               \* the last event posted to the car
    peer,               \* peer[f]: what is at the other end of descriptor f
    serverUp,           \* whether the server accepts connections
    faults,             \* failures so far
    alive               \* the process runs

shared == <<isConnected, client, heartBeatTimeout, told>>
world == <<peer, serverUp, faults>>
vars == <<pc, next, locker, alive, shared, world>>

Socket == 1 .. MaxSockets
Online == "evSchedulerOnline"
Offline == "evSchedulerOffline"

(* m_fd is 0 for every value that SocketRead and SocketWrite refuse.       *)
NoClient == [made |-> FALSE, fd |-> 0]
Client(f) == [made |-> TRUE, fd |-> f]

(* "silent": the connection is up, and nothing comes or goes any more.     *)
Peer == {"closed", "refused", "live", "silent", "eof", "reset"}

Label ==
    {"loop", "top", "connect", "mark", "online", "failed", "select", "timeout",
     "readLock", "read", "unlock", "ack", "check", "writeLock", "write",
     "disconnect", "drop", "close", "offline"}

TypeOK ==
    /\ pc \in [Thread -> Label]
    /\ next \in [Thread -> Label]
    /\ isConnected \in BOOLEAN
    /\ client \in [made : BOOLEAN, fd : 0 .. MaxSockets]
    /\ locker \in Thread \cup {Nobody}
    /\ heartBeatTimeout \in 0 .. HeartBeatLimit + 1
    /\ told \in {"none", Online, Offline}
    /\ peer \in [Socket -> Peer]
    /\ serverUp \in BOOLEAN
    /\ faults \in 0 .. MaxFaults
    /\ alive \in BOOLEAN

Home(t) == IF t = Main THEN "loop" ELSE "top"

Init ==
    /\ pc = [t \in Thread |-> Home(t)]
    /\ next = pc
    /\ isConnected = FALSE
    /\ client = NoClient
    /\ locker = Nobody
    /\ heartBeatTimeout = 0
    /\ told = "none"
    /\ peer = [f \in Socket |-> "closed"]
    /\ serverUp \in BOOLEAN
    /\ faults = 0
    /\ alive = TRUE

At(t, l) == alive /\ pc[t] = l
Goto(t, l) == pc' = [pc EXCEPT ![t] = l] /\ UNCHANGED alive
Quiet == UNCHANGED <<next, locker>>

Unused == {f \in Socket : peer[f] = "closed"}
PeerNow == IF client.fd = 0 THEN "closed" ELSE peer[client.fd]

-----------------------------------------------------------------------------
(* The scheduler thread: CAgvScheduler::Run.                               *)
Top ==
    /\ At(Sched, "top")
    /\ Goto(Sched, IF isConnected THEN "select" ELSE "connect")
    /\ Quiet /\ UNCHANGED <<shared, world>>

(* ConnectToServer.  An attempt that fails keeps its descriptor: the next  *)
(* SocketInit overwrites m_fd, and nothing closes it.                      *)
Connect ==
    /\ At(Sched, "connect")
    /\ \/ /\ Unused = {}
          /\ client' = Client(0)
          /\ Goto(Sched, "failed")
          /\ UNCHANGED peer
       \/ \E f \in Unused :
             /\ \A g \in Unused : f <= g
             /\ client' = Client(f)
             /\ peer' = [peer EXCEPT ![f] = IF serverUp THEN "live" ELSE "refused"]
             /\ Goto(Sched, IF serverUp THEN "mark" ELSE "failed")
    /\ Quiet /\ UNCHANGED <<isConnected, heartBeatTimeout, told, serverUp, faults>>

Mark ==
    /\ At(Sched, "mark")
    /\ isConnected' = TRUE
    /\ Goto(Sched, "online")
    /\ Quiet /\ UNCHANGED <<client, heartBeatTimeout, told, world>>

TellOnline ==
    /\ At(Sched, "online")
    /\ told' = Online
    /\ Goto(Sched, "select")
    /\ Quiet /\ UNCHANGED <<isConnected, client, heartBeatTimeout, world>>

(* Slip: the loop ends with the first attempt that fails.                  *)
ConnectFailed_GivesUp ==
    /\ At(Sched, "failed")
    /\ told' = Offline
    /\ Goto(Sched, "failed")
    /\ Quiet /\ UNCHANGED <<isConnected, client, heartBeatTimeout, world>>

(* After five seconds.                                                     *)
ConnectFailed ==
    /\ At(Sched, "failed")
    /\ told' = Offline
    /\ Goto(Sched, "top")
    /\ Quiet /\ UNCHANGED <<isConnected, client, heartBeatTimeout, world>>

(* select: its error branch needs a descriptor that is closed, which only  *)
(* this thread closes.                                                     *)
Select ==
    /\ At(Sched, "select")
    /\ \/ PeerNow \in {"live", "silent"} /\ Goto(Sched, "timeout")
       \/ PeerNow # "silent" /\ Goto(Sched, "readLock")
    /\ Quiet /\ UNCHANGED <<shared, world>>

(* Slip: a timeout is not compared with the limit.                         *)
Timeout_Endless ==
    /\ At(Sched, "timeout")
    /\ heartBeatTimeout' = heartBeatTimeout + 1
    /\ Goto(Sched, "check")
    /\ Quiet /\ UNCHANGED <<isConnected, client, told, world>>

(* Slip: the report that is sent counts as an answer.                      *)
Timeout_ReportResets ==
    /\ At(Sched, "timeout")
    /\ heartBeatTimeout' = 0
    /\ Goto(Sched, IF heartBeatTimeout > HeartBeatLimit THEN "disconnect" ELSE "check")
    /\ Quiet /\ UNCHANGED <<isConnected, client, told, world>>

Timeout ==
    /\ At(Sched, "timeout")
    /\ IF heartBeatTimeout > HeartBeatLimit
       THEN heartBeatTimeout' = 0 /\ Goto(Sched, "disconnect")
       ELSE heartBeatTimeout' = heartBeatTimeout + 1 /\ Goto(Sched, "check")
    /\ Quiet /\ UNCHANGED <<isConnected, client, told, world>>

(* SocketRead and what the data lead to: an acknowledgement, a request     *)
(* that is acknowledged, or a message shorter than a header.  What came    *)
(* before a connection ended is read first.                                *)
Arrives == IF PeerNow # "reset" THEN {"ack", "check", "top"} ELSE {}
Ends == IF PeerNow \in {"eof", "reset"} THEN {"disconnect"} ELSE {}

Read ==
    /\ At(Sched, "read") /\ client.made
    /\ \E then \in Arrives \cup Ends : next' = [next EXCEPT ![Sched] = then]
    /\ Goto(Sched, "unlock")
    /\ UNCHANGED <<locker, shared, world>>

Acknowledged ==
    /\ At(Sched, "ack")
    /\ heartBeatTimeout' = 0
    /\ Goto(Sched, "top")
    /\ Quiet /\ UNCHANGED <<isConnected, client, told, world>>

-----------------------------------------------------------------------------
(* Disconnect, which only this thread calls here.                          *)
Disconnect ==
    /\ At(Sched, "disconnect")
    /\ Goto(Sched, IF isConnected THEN "drop" ELSE "top")
    /\ Quiet /\ UNCHANGED <<shared, world>>

(* Slip: the socket is closed and the flag stays set.                      *)
Drop_FlagStays ==
    /\ At(Sched, "drop")
    /\ heartBeatTimeout' = 0
    /\ peer' = [peer EXCEPT ![client.fd] = "closed"]
    /\ Goto(Sched, "close")
    /\ Quiet /\ UNCHANGED <<isConnected, client, told, serverUp, faults>>

Drop ==
    /\ At(Sched, "drop")
    /\ heartBeatTimeout' = 0
    /\ isConnected' = FALSE
    /\ Goto(Sched, "close")
    /\ Quiet /\ UNCHANGED <<client, told, world>>

(* Slip: the old connection is not announced as lost.                      *)
Close_Silent ==
    /\ At(Sched, "close")
    /\ peer' = [f \in Socket |-> IF f = client.fd THEN "closed" ELSE peer[f]]
    /\ client' = NoClient
    /\ Goto(Sched, "top")
    /\ Quiet /\ UNCHANGED <<isConnected, heartBeatTimeout, told, serverUp, faults>>

(* SocketClose, delete and client = NULL.  The few instructions in which   *)
(* another thread meets the deleted object are part of this step.          *)
Close ==
    /\ At(Sched, "close")
    /\ peer' = [f \in Socket |-> IF f = client.fd THEN "closed" ELSE peer[f]]
    /\ client' = NoClient
    /\ Goto(Sched, "offline")
    /\ Quiet /\ UNCHANGED <<isConnected, heartBeatTimeout, told, serverUp, faults>>

TellOffline ==
    /\ At(Sched, "offline")
    /\ told' = Offline
    /\ Goto(Sched, "top")
    /\ Quiet /\ UNCHANGED <<isConnected, client, heartBeatTimeout, world>>

-----------------------------------------------------------------------------
(* SendCmdAndReceive, by either thread.                                    *)
Report ==
    /\ MainSends /\ At(Main, "loop")
    /\ Goto(Main, "check")
    /\ Quiet /\ UNCHANGED <<shared, world>>

Check(t) ==
    /\ At(t, "check")
    /\ Goto(t, IF isConnected THEN "writeLock" ELSE Home(t))
    /\ Quiet /\ UNCHANGED <<shared, world>>

Lock(t) ==
    /\ alive /\ pc[t] \in {"readLock", "writeLock"}
    /\ locker = Nobody
    /\ locker' = t
    /\ Goto(t, IF pc[t] = "readLock" THEN "read" ELSE "write")
    /\ UNCHANGED <<next, shared, world>>

(* SocketWrite: the first write after the server closed the connection is  *)
(* answered with a reset.  Nobody looks at the result.                     *)
Write(t) ==
    /\ At(t, "write") /\ client.made /\ PeerNow # "reset"
    /\ peer' = [f \in Socket |-> IF f = client.fd /\ peer[f] = "eof" THEN "reset" ELSE peer[f]]
    /\ next' = [next EXCEPT ![t] = Home(t)]
    /\ Goto(t, "unlock")
    /\ UNCHANGED <<locker, shared, serverUp, faults>>

Unlock(t) ==
    /\ At(t, "unlock")
    /\ locker' = Nobody
    /\ Goto(t, next[t])
    /\ UNCHANGED <<next, shared, world>>

(* The end of the process: SocketWrite without an object, or SIGPIPE from  *)
(* a write after a reset, for which main installs no handler.              *)
Crash(t) ==
    /\ At(t, "write") /\ (~client.made \/ PeerNow = "reset")
    /\ alive' = FALSE
    /\ UNCHANGED <<pc, next, locker, shared, world>>

-----------------------------------------------------------------------------
(* The server stops, or is out of reach.                                   *)
ServerFails ==
    /\ alive /\ serverUp /\ faults < MaxFaults
    /\ serverUp' = FALSE
    /\ faults' = faults + 1
    /\ \E left \in {"eof", "silent"} :
         peer' = [f \in Socket |-> IF peer[f] = "live" THEN left ELSE peer[f]]
    /\ UNCHANGED <<pc, next, locker, alive, shared>>

(* It comes back, with or without the connections it had.                  *)
ServerReturns ==
    /\ alive /\ ~serverUp
    /\ serverUp' = TRUE
    /\ \E now \in {"live", "silent", "reset"} :
         peer' = [f \in Socket |-> IF peer[f] = "silent" THEN now ELSE peer[f]]
    /\ UNCHANGED <<pc, next, locker, alive, shared, faults>>

ThreadStep(t) == Check(t) \/ Lock(t) \/ Write(t) \/ Unlock(t) \/ Crash(t)

Run ==
    \/ Top \/ Connect \/ Mark \/ TellOnline \/ ConnectFailed
    \/ Select \/ Timeout \/ Read \/ Acknowledged
    \/ Disconnect \/ Drop \/ Close \/ TellOffline
    \/ ThreadStep(Sched)

Next ==
    \/ Run \/ Report \/ ThreadStep(Main)
    \/ ServerFails \/ ServerReturns
    \/ ~alive /\ UNCHANGED vars

(* Both threads run.  The main thread holds socketLocker only for a write  *)
(* and does other work between two reports.                                *)
Fairness ==
    /\ WF_vars(Run) /\ WF_vars(ThreadStep(Main))
    /\ SF_vars(Lock(Sched))

Spec == Init /\ [][Next]_vars
FairSpec == Spec /\ Fairness

-----------------------------------------------------------------------------
(* Whenever the thread waits or tries to connect, the event it posted last *)
(* says which of the two it does: no loss of a connection and no new one   *)
(* goes unannounced, through timeouts, ends of file and failed attempts.   *)
CarKnows ==
    pc[Sched] \in {"connect", "select", "readLock", "read", "timeout"} /\ told # "none"
        => (told = Online <=> isConnected)

(* While m_isConnected invites the main thread to send, client is the open *)
(* connection, at every step of connecting and disconnecting.              *)
ConnectedClientIsOpen == isConnected => client.made /\ PeerNow # "closed"

(* A connection on which nothing is heard any more is given up.            *)
DetectsSilence ==
    isConnected /\ PeerNow = "silent" ~> ~isConnected \/ PeerNow # "silent" \/ ~alive

(* However often the server goes and comes back, the client is connected   *)
(* again, unless the descriptors are used up or the process ends.          *)
Reconnects == <>[](alive /\ serverUp) /\ []<>(Unused # {}) => []<>isConnected
=============================================================================
