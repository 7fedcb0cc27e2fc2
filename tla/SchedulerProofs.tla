-------------------------- MODULE SchedulerProofs --------------------------
(***************************************************************************)
(* Proofs about the client of the scheduler, for every number of           *)
(* descriptors, every heart-beat limit and any number of failures.         *)
(***************************************************************************)
EXTENDS Scheduler, TLAPS

(* The labels at which a connection is in use, and those without one.      *)
Using ==
    {"select", "timeout", "readLock", "read", "unlock", "ack", "check",
     "writeLock", "write", "disconnect", "drop"}
Without == {"connect", "mark", "failed", "close", "offline"}

(* What the scheduler thread knows at each of its labels.  `next` matters  *)
(* only while the thread holds the lock.                                   *)
ThreadKnows ==
    /\ pc[Sched] \in Using => isConnected /\ told = Online
    /\ pc[Sched] \in Without => ~isConnected
    /\ pc[Sched] \in {"connect", "mark", "failed"} => told # Online
    /\ pc[Sched] = "online" => isConnected
    /\ pc[Sched] = "top" => (told = Online <=> isConnected)
    /\ pc[Sched] = "unlock" => next[Sched] \in {"ack", "check", "top", "disconnect"}
    /\ pc[Sched] # "loop"

(* The client of a connection, also of one that is about to be announced.  *)
ClientIsOpen ==
    isConnected \/ pc[Sched] = "mark"
        => client.made /\ client.fd \in Socket /\ peer[client.fd] # "closed"

Inv == TypeOK /\ ThreadKnows /\ ClientIsOpen

LEMMA SocketIsPositive == \A f \in Socket : f # 0 /\ f \in 0 .. MaxSockets
BY SocketsAssumption DEF Socket

LEMMA InitInv == Init => Inv
<1> SUFFICES ASSUME Init PROVE Inv
    OBVIOUS
<1> USE DEF Init, Thread, Main, Sched, Home
<1>1. pc[Sched] = "top" /\ pc \in [Thread -> Label] /\ next \in [Thread -> Label]
    BY DEF Label
<1>2. heartBeatTimeout \in 0 .. HeartBeatLimit + 1 /\ faults \in 0 .. MaxFaults
    BY LimitAssumption, FaultsAssumption
<1>3. client \in [made : BOOLEAN, fd : 0 .. MaxSockets] /\ peer \in [Socket -> Peer]
    BY SocketsAssumption DEF NoClient, Peer
<1>4. TypeOK
    BY <1>1, <1>2, <1>3 DEF TypeOK
<1>5. ThreadKnows /\ ClientIsOpen
    BY <1>1 DEF ThreadKnows, ClientIsOpen, Using, Without, Online
<1> QED BY <1>4, <1>5 DEF Inv

USE DEF Quiet, shared, world, At, Goto

(* The steps of the scheduler thread outside SendCmdAndReceive.            *)
LEMMA ConnectInv == Inv /\ Connect => Inv'
<1> SUFFICES ASSUME Inv, Connect PROVE Inv'
    OBVIOUS
<1> USE DEF Inv, TypeOK
<1>1. CASE /\ Unused = {} /\ client' = Client(0)
           /\ Goto(Sched, "failed") /\ UNCHANGED peer
    <2>1. TypeOK'
        BY <1>1, SocketsAssumption DEF Connect, Client, Label, Thread, Main, Sched
    <2>2. ThreadKnows'
        BY <1>1 DEF Connect, ThreadKnows, Using, Without, Thread, Main, Sched
    <2>3. ClientIsOpen'
        BY <1>1 DEF Connect, ThreadKnows, ClientIsOpen, Without, Thread, Main, Sched
    <2> QED BY <2>1, <2>2, <2>3
<1>2. ASSUME NEW f \in Unused,
             client' = Client(f),
             peer' = [peer EXCEPT ![f] = IF serverUp THEN "live" ELSE "refused"],
             Goto(Sched, IF serverUp THEN "mark" ELSE "failed")
      PROVE  Inv'
    <2>1. f \in Socket /\ f \in 0 .. MaxSockets
        BY SocketIsPositive DEF Unused
    <2>2. TypeOK'
        BY <1>2, <2>1 DEF Connect, Client, Label, Peer, Thread, Main, Sched
    <2>3. ThreadKnows'
        BY <1>2 DEF Connect, ThreadKnows, Using, Without, Thread, Main, Sched
    <2>4. ClientIsOpen'
        BY <1>2, <2>1 DEF Connect, ThreadKnows, ClientIsOpen, Client, Without, Thread, Main, Sched
    <2> QED BY <2>2, <2>3, <2>4
<1> QED BY <1>1, <1>2 DEF Connect

(* A timeout counts at most one past the limit.                            *)
LEMMA TimeoutBound ==
    ASSUME heartBeatTimeout \in 0 .. HeartBeatLimit + 1, Timeout
    PROVE  heartBeatTimeout' \in 0 .. HeartBeatLimit + 1
<1>1. CASE heartBeatTimeout > HeartBeatLimit
    <2>1. heartBeatTimeout' = 0
        BY <1>1 DEF Timeout
    <2> QED BY <2>1, LimitAssumption
<1>2. CASE ~(heartBeatTimeout > HeartBeatLimit)
    <2>1. heartBeatTimeout' = heartBeatTimeout + 1
        BY <1>2 DEF Timeout
    <2> QED BY <1>2, <2>1, LimitAssumption
<1> QED BY <1>1, <1>2

LEMMA RunInv ==
    Inv /\ (Top \/ Mark \/ TellOnline \/ ConnectFailed \/ Select \/ Timeout \/ Read
              \/ Acknowledged \/ Disconnect \/ Drop \/ Close \/ TellOffline) => Inv'
<1> SUFFICES ASSUME Inv,
                    Top \/ Mark \/ TellOnline \/ ConnectFailed \/ Select \/ Timeout \/ Read
                      \/ Acknowledged \/ Disconnect \/ Drop \/ Close \/ TellOffline
             PROVE  Inv'
    OBVIOUS
<1> USE DEF Inv, TypeOK, ThreadKnows, ClientIsOpen, Using, Without, Label, Thread,
            Main, Sched, Online, Offline
<1>1. CASE Top
    BY <1>1 DEF Top
<1>2. CASE Mark
    BY <1>2 DEF Mark
<1>3. CASE TellOnline
    BY <1>3 DEF TellOnline
<1>4. CASE ConnectFailed
    BY <1>4 DEF ConnectFailed
<1>5. CASE Select
    <2>1. UNCHANGED <<next, locker, alive, isConnected, client, heartBeatTimeout, told,
                      peer, serverUp, faults>>
        BY <1>5 DEF Select
    <2>2. pc[Sched] = "select" /\ (pc' = [pc EXCEPT ![Sched] = "timeout"]
                                    \/ pc' = [pc EXCEPT ![Sched] = "readLock"])
        BY <1>5 DEF Select
    <2> QED BY <2>1, <2>2
<1>6. CASE Timeout
    <2>1. heartBeatTimeout' \in 0 .. HeartBeatLimit + 1
        BY <1>6, TimeoutBound
    <2>2. UNCHANGED <<next, locker, alive, isConnected, client, told, peer, serverUp, faults>>
        BY <1>6 DEF Timeout
    <2>3. pc[Sched] = "timeout" /\ (pc' = [pc EXCEPT ![Sched] = "disconnect"]
                                     \/ pc' = [pc EXCEPT ![Sched] = "check"])
        BY <1>6 DEF Timeout
    <2> QED BY <2>1, <2>2, <2>3
<1>7. CASE Read
    BY <1>7 DEF Read, Arrives, Ends
<1>8. CASE Acknowledged
    BY <1>8, LimitAssumption DEF Acknowledged
<1>9. CASE Disconnect
    BY <1>9 DEF Disconnect
<1>10. CASE Drop
    <2>1. heartBeatTimeout' \in 0 .. HeartBeatLimit + 1
        BY <1>10, LimitAssumption DEF Drop
    <2> QED BY <1>10, <2>1 DEF Drop
<1>11. CASE Close
    BY <1>11, SocketsAssumption DEF Close, NoClient, Peer
<1>12. CASE TellOffline
    BY <1>12 DEF TellOffline
<1> QED BY <1>1, <1>2, <1>3, <1>4, <1>5, <1>6, <1>7, <1>8, <1>9, <1>10, <1>11, <1>12

(* SendCmdAndReceive: a write turns an ended connection into a reset one,  *)
(* which is still not closed.                                              *)
LEMMA SendInv ==
    ASSUME NEW t \in Thread
    PROVE  Inv /\ ThreadStep(t) => Inv'
<1> SUFFICES ASSUME Inv, ThreadStep(t) PROVE Inv'
    OBVIOUS
<1> USE DEF Inv, TypeOK, ThreadKnows, ClientIsOpen, Using, Without, Label, Thread,
            Main, Sched, Online, Offline
<1>1. CASE Check(t)
    BY <1>1 DEF Check, Home
<1>2. CASE Lock(t)
    BY <1>2 DEF Lock
<1>3. CASE Write(t)
    BY <1>3 DEF Write, Home, Peer
<1>4. CASE Unlock(t)
    BY <1>4 DEF Unlock
<1>5. CASE Crash(t)
    BY <1>5 DEF Crash
<1> QED BY <1>1, <1>2, <1>3, <1>4, <1>5 DEF ThreadStep

LEMMA ServerInv == Inv /\ (ServerFails \/ ServerReturns) => Inv'
<1> SUFFICES ASSUME Inv, ServerFails \/ ServerReturns PROVE Inv'
    OBVIOUS
<1> USE DEF Inv, TypeOK, ThreadKnows, ClientIsOpen, Peer
<1>1. CASE ServerFails
    <2>1. faults' \in 0 .. MaxFaults
        BY <1>1, FaultsAssumption DEF ServerFails
    <2>2. PICK left \in {"eof", "silent"} :
              peer' = [f \in Socket |-> IF peer[f] = "live" THEN left ELSE peer[f]]
        BY <1>1 DEF ServerFails
    <2>3. UNCHANGED <<pc, next, locker, alive, isConnected, client, heartBeatTimeout, told>>
             /\ serverUp' = FALSE
        BY <1>1 DEF ServerFails
    <2> QED BY <2>1, <2>2, <2>3, ZenonT(40)
<1>2. CASE ServerReturns
    BY <1>2 DEF ServerReturns
<1> QED BY <1>1, <1>2

LEMMA NextInv == Inv /\ [Next]_vars => Inv'
<1> SUFFICES ASSUME Inv, [Next]_vars PROVE Inv'
    OBVIOUS
<1>1. CASE Run
    BY <1>1, ConnectInv, RunInv, SendInv DEF Run, Thread
<1>2. CASE Report
    BY <1>2 DEF Report, Inv, TypeOK, ThreadKnows, ClientIsOpen, Using, Without, Label,
                Thread, Main, Sched
<1>3. CASE ThreadStep(Main)
    BY <1>3, SendInv DEF Thread
<1>4. CASE ServerFails \/ ServerReturns
    BY <1>4, ServerInv
<1>5. CASE UNCHANGED vars
    BY <1>5 DEF vars, Inv, TypeOK, ThreadKnows, ClientIsOpen
<1> QED BY <1>1, <1>2, <1>3, <1>4, <1>5 DEF Next

THEOREM InvAlways == Spec => []Inv
BY InitInv, NextInv, PTL DEF Spec

(* The state is well typed: above all heartBeatTimeout stays within one of *)
(* its limit (Run, AgvScheduler.cpp:158).                                  *)
THEOREM SchedulerTypeCorrect == Spec => []TypeOK
<1>1. Inv => TypeOK
    BY DEF Inv
<1> QED BY <1>1, InvAlways, PTL

(* m_isConnected is set only while client is an open connection.           *)
THEOREM ConnectedIsOpen == Spec => []ConnectedClientIsOpen
<1>1. Inv => ConnectedClientIsOpen
    BY SocketIsPositive DEF Inv, ClientIsOpen, ConnectedClientIsOpen, PeerNow
<1> QED BY <1>1, InvAlways, PTL

(* The car's last event about the scheduler is the state of the client.    *)
THEOREM CarKnowsAlways == Spec => []CarKnows
<1>1. Inv => CarKnows
    BY DEF Inv, ThreadKnows, CarKnows, Using, Without
<1> QED BY <1>1, InvAlways, PTL
=============================================================================
