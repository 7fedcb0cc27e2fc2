------------------------------ MODULE NetWatch ------------------------------
(***************************************************************************)
(* The network's ups and downs (devices/network/AgvNetManager.cpp): the    *)
(* manager's thread polls the interfaces and posts events, and the main    *)
(* thread starts and stops the scheduler's thread with them                *)
(* (controler/AgvScheduler.cpp, utils/AgvThread.cpp).                      *)
(*                                                                         *)
(* What a scheduler thread does with its connection is in Scheduler; here  *)
(* it goes round its loop and uses the socket under socketLocker.  A       *)
(* cancelled thread dies at its next cancellation point: a wait (connect,  *)
(* sleep, select) or the read or write under the lock, never the lock      *)
(* itself.  The interfaces were set up (NetSetup).                         *)
(***************************************************************************)
EXTENDS NetInterfaces, Naturals, Sequences, FiniteSets

CONSTANTS
    Slots,              \* scheduler threads that may exist at once
    MaxChanges          \* bound: changes of the links

ASSUME SlotAssumption == Slots \in Nat \ {0}
ASSUME ChangesAssumption == MaxChanges \in Nat

VARIABLES
    link,               \* link[i]: whether interface i is up
    changes,            \* changes of links so far
    lastNetworkStatus,  \* the status that was announced last
    queue,              \* network events that the main thread has not handled
    mainPc,             \* where the main thread is
    loopEnable,         \* m_loopEnable of the scheduler
    current,            \* m_thread: the thread that was started last
    running,            \* m_running
    thread,             \* thread[t]: where scheduler thread t is
    cancelled,          \* threads with a cancellation pending
    locker              \* the owner of socketLocker

watch == <<enabled, link, changes, lastNetworkStatus>>
scheduler == <<loopEnable, current, running, thread, cancelled, locker>>
vars == <<watch, queue, mainPc, scheduler>>

Slot == 1 .. Slots
Nobody == 0
NetworkOK == "evNetworkOK"
NetworkError == "evNetworkError"
Event == {NetworkOK, NetworkError}

Init ==
    /\ enabled \in (SUBSET Interface) \ {{}}
    /\ link \in [Interface -> BOOLEAN] /\ changes = 0
    /\ lastNetworkStatus = FALSE
    /\ queue = << >> /\ mainPc = "loop"
    /\ loopEnable = FALSE
    /\ current = 0 /\ running = FALSE
    /\ thread = [t \in Slot |-> "none"]
    /\ cancelled = {} /\ locker = Nobody

-----------------------------------------------------------------------------
(* A cable is pulled, an access point is lost or found.                    *)
LinkChanges(i) ==
    /\ changes < MaxChanges
    /\ changes' = changes + 1
    /\ link' = [link EXCEPT ![i] = ~@]
    /\ UNCHANGED <<enabled, lastNetworkStatus, queue, mainPc, scheduler>>

(* The Wi-Fi is asked last, and what it says replaces what the Ethernet    *)
(* said.                                                                   *)
CheckNetStatus ==
    IF Wifi \in enabled THEN link[Wifi] ELSE link[Ethernet]

(* One event for each enabled interface, in the order of the code.         *)
Announced(event) == [n \in 1 .. Cardinality(enabled) |-> event]

(* Every eleven turns of 100 ms.                                           *)
Watch ==
    /\ CheckNetStatus # lastNetworkStatus
    /\ queue' = queue \o Announced(IF CheckNetStatus THEN NetworkOK ELSE NetworkError)
    /\ lastNetworkStatus' = CheckNetStatus
    /\ UNCHANGED <<enabled, link, changes, mainPc, scheduler>>

-----------------------------------------------------------------------------
(* The main thread.                                                        *)
Handles(event) ==
    /\ mainPc = "loop" /\ queue # << >> /\ Head(queue) = event
    /\ queue' = Tail(queue)

(* An id may be given again, but not that of a thread that owns the lock.  *)
Unused == {t \in Slot : thread[t] = "none" /\ locker # t}

(* StartSchedule: a thread more, whether one runs or not.                  *)
StartSchedule ==
    /\ Handles(NetworkOK)
    /\ loopEnable' = TRUE
    /\ \E t \in Unused :
         /\ \A u \in Unused : t <= u
         /\ current' = t
         /\ thread' = [thread EXCEPT ![t] = "top"]
         /\ cancelled' = cancelled \ {t}
    /\ running' = TRUE
    /\ UNCHANGED <<watch, mainPc, locker>>

(* StopSchedule: the loop is told to end ...                               *)
StopSchedule ==
    /\ Handles(NetworkError)
    /\ IF loopEnable
       THEN loopEnable' = FALSE /\ mainPc' = "stop"
       ELSE UNCHANGED <<loopEnable, mainPc>>
    /\ UNCHANGED <<watch, current, running, thread, cancelled, locker>>

(* Slip: it is left to the thread to see that its loop has ended.          *)
Stop_Trusts ==
    /\ mainPc = "stop" /\ mainPc' = "loop"
    /\ running' = FALSE
    /\ UNCHANGED <<watch, queue, loopEnable, current, thread, cancelled, locker>>

(* ... and, after Disconnect, the thread that was started last is          *)
(* cancelled.  (It may have ended by then: pthread_cancel of a detached    *)
(* thread that has ended is taken to do nothing.)                          *)
Stop ==
    /\ mainPc = "stop" /\ mainPc' = "loop"
    /\ IF running /\ thread[current] # "none"
       THEN cancelled' = cancelled \cup {current}
       ELSE UNCHANGED cancelled
    /\ running' = FALSE
    /\ UNCHANGED <<watch, queue, loopEnable, current, thread, locker>>

(* A report to the server takes the lock for one write.                    *)
Report ==
    /\ mainPc = "loop" /\ loopEnable
    /\ mainPc' = "lock"
    /\ UNCHANGED <<watch, queue, scheduler>>

ReportSent ==
    /\ mainPc = "lock" /\ locker = Nobody
    /\ mainPc' = "loop"
    /\ UNCHANGED <<watch, queue, scheduler>>

-----------------------------------------------------------------------------
(* A scheduler thread.                                                     *)
Goes(t, from, to) ==
    /\ thread[t] = from
    /\ thread' = [thread EXCEPT ![t] = to]
    /\ UNCHANGED <<watch, queue, mainPc, loopEnable, current, running, cancelled>>

(* Slip: the thread asks for the flag only when it was cancelled.          *)
Top_Endless(t) ==
    /\ Goes(t, "top", IF loopEnable \/ t \notin cancelled THEN "wait" ELSE "none")
    /\ UNCHANGED locker

Top(t) ==
    /\ Goes(t, "top", IF loopEnable THEN "wait" ELSE "none")
    /\ UNCHANGED locker

(* A connect that fails and its five seconds of sleep, or a timeout or     *)
(* data and then the socket.                                               *)
Wait(t) ==
    /\ t \notin cancelled
    /\ Goes(t, "wait", "top") \/ Goes(t, "wait", "lock")
    /\ UNCHANGED locker

Lock(t) ==
    /\ locker = Nobody /\ locker' = t
    /\ Goes(t, "lock", "io")

(* Slip: the way out after a write that failed does not unlock.            *)
ReadWrite_Keeps(t) ==
    /\ t \notin cancelled
    /\ Goes(t, "io", "top")
    /\ locker' \in {locker, Nobody}

ReadWrite(t) ==
    /\ t \notin cancelled
    /\ Goes(t, "io", "top")
    /\ locker' = Nobody

(* Nothing unlocks what a thread held when it was cancelled.               *)
Cancelled(t) ==
    /\ t \in cancelled
    /\ Goes(t, "wait", "none") \/ Goes(t, "io", "none")
    /\ UNCHANGED locker

SchedulerThread(t) ==
    Top(t) \/ Wait(t) \/ Lock(t) \/ ReadWrite(t) \/ Cancelled(t)

Next ==
    \/ \E i \in Interface : LinkChanges(i)
    \/ Watch
    \/ StartSchedule \/ StopSchedule \/ Stop \/ Report \/ ReportSent
    \/ \E t \in Slot : SchedulerThread(t)

(* The main loop takes every event in turn (AllTaken of EventQueue), and   *)
(* whoever waits for the lock gets it if it is free again and again.       *)
Fairness ==
    /\ WF_vars(Watch)
    /\ SF_vars(StartSchedule) /\ SF_vars(StopSchedule) /\ WF_vars(Stop)
    /\ SF_vars(ReportSent)
    /\ \A t \in Slot : WF_vars(SchedulerThread(t)) /\ SF_vars(Lock(t))

Spec == Init /\ [][Next]_vars /\ Fairness

-----------------------------------------------------------------------------
TypeOK ==
    /\ enabled \in (SUBSET Interface) \ {{}} /\ link \in [Interface -> BOOLEAN]
    /\ changes \in 0 .. MaxChanges /\ lastNetworkStatus \in BOOLEAN
    /\ queue \in Seq(Event)
    /\ mainPc \in {"loop", "stop", "lock"}
    /\ loopEnable \in BOOLEAN /\ running \in BOOLEAN
    /\ current \in Slot \cup {0} /\ (running => current \in Slot)
    /\ thread \in [Slot -> {"none", "top", "wait", "lock", "io"}]
    /\ cancelled \subseteq Slot
    /\ locker \in Slot \cup {Nobody}

InUse == {t \in Slot : thread[t] # "none" /\ t \notin cancelled}

(* The scheduler's client is used by one thread at a time, a cancelled one *)
(* on its last way apart, as long as one interface is enabled, however it  *)
(* flaps and however late the main thread is.  (With both enabled there    *)
(* are two evNetworkOK, and two threads.)                                  *)
OneClient == Cardinality(enabled) = 1 => Cardinality(InUse) <= 1

(* socketLocker will never be free again: its owner was cancelled.         *)
Orphaned == locker \in Slot /\ thread[locker] = "none"

(* A network that stays up is used: a thread that nobody has cancelled     *)
(* comes round its loop again and again, unless the lock was lost.         *)
Served ==
    <>[](\A i \in enabled : link[i]) =>
        <>Orphaned \/ []<>(loopEnable /\ \E t \in InUse : thread[t] = "top")

(* When the network stays down no scheduler thread is left, the one that   *)
(* a second evNetworkOK had started before included.                       *)
AllStop ==
    <>[](\A i \in enabled : ~link[i]) =>
        <>Orphaned \/ <>[](\A t \in Slot : thread[t] = "none")
=============================================================================
