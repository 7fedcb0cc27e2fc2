----------------------------- MODULE EventQueue -----------------------------
(***************************************************************************)
(* CAgvEventHelper (event/AgvEventHelper.cpp) at the grain of its mutex:   *)
(* threads push events into one list per priority, the main loop           *)
(* (main/AgvMainLoop.cpp) scans the lists from the most urgent one down,   *)
(* reading empty() without the lock, and takes one event, which its        *)
(* listeners handle.  A handler pushes events of its own.  SIGINT runs     *)
(* SignalHandler on top of whatever thread it interrupts, and that handler *)
(* pushes too.                                                             *)
(***************************************************************************)
EXTENDS Integers, Sequences

CONSTANTS
    Main,           \* the main thread
    Timer,          \* the main loop's timer thread
    Producers,      \* the other threads that push events
    Interruptible,  \* threads SIGINT may interrupt
    Requested,      \* priorities asked for by callers of PushEvent
    MaxPosts,       \* bound: pushes of each thread
    Free,           \* eventLocker is not held
    Signal          \* the frame of SignalHandler, and "no thread" elsewhere

Normal == 0
Important == 1
Urgent == 2
PriorityMax == 3

Class == 0 .. PriorityMax - 1
Pushers == Producers \cup {Main, Timer}
Threads == Pushers \cup {Signal}

ASSUME ThreadsAssumption ==
    /\ Main # Timer /\ Main \notin Producers /\ Timer \notin Producers
    /\ Signal \notin Pushers /\ Free \notin Threads
    /\ Interruptible \subseteq Pushers
ASSUME PostsAssumption == Requested \subseteq Nat /\ MaxPosts \in Nat

Event == [by : Threads, n : 1 .. MaxPosts + 1]     \* the n-th event pushed by a thread
SysClose == [by |-> Signal, n |-> 1]    \* evSysClose, from SignalHandler

VARIABLES
    eventList,      \* the three lists
    eventLocker,    \* holder of the mutex
    pc,             \* where each thread is
    class,          \* class of the event a thread is pushing
    scan,           \* PopEvent's loop variable i
    loopEnable,     \* CAgvMainLoop::loopEnable
    interrupted,    \* the thread SignalHandler runs on, or Signal for none
    posts,          \* posts[t]: events pushed, or being pushed, by t
    posted,         \* history: events that entered each list
    taken,          \* history: events that PopEvent took from each list
    dropped,        \* history: events that ClearAll deleted from each list
    sinceTake       \* history: pushes into each list since the last pop_front

vars == <<eventList, eventLocker, pc, class, scan, loopEnable, interrupted, posts,
          posted, taken, dropped, sinceTake>>
queues == <<eventList, posted, taken, dropped, sinceTake>>

PushPC == {"idle", "lock", "append", "release"}
MainPC == {"scan", "popLock", "take", "popRelease", "handle", "clearLock", "clear", "exited"}

TypeOK ==
    /\ eventList \in [Class -> Seq(Event)]
    /\ eventLocker \in Threads \cup {Free}
    /\ pc \in [Threads -> PushPC \cup MainPC]
    /\ class \in [Threads -> Class]
    /\ scan \in Class \cup {-1}
    /\ loopEnable \in BOOLEAN
    /\ interrupted \in Threads
    /\ posts \in [Threads -> 0 .. MaxPosts + 1]
    /\ posted \in [Class -> Seq(Event)]
    /\ taken \in [Class -> Seq(Event)]
    /\ dropped \in [Class -> Seq(Event)]
    /\ sinceTake \in [Class -> Nat]

Init ==
    /\ eventList = [c \in Class |-> << >>]
    /\ eventLocker = Free
    /\ pc = [t \in Threads |-> IF t = Main THEN "scan" ELSE "idle"]
    /\ class = [t \in Threads |-> Normal]
    /\ scan = Urgent
    /\ loopEnable = TRUE
    /\ interrupted = Signal
    /\ posts = [t \in Threads |-> 0]
    /\ posted = [c \in Class |-> << >>]
    /\ taken = [c \in Class |-> << >>]
    /\ dropped = [c \in Class |-> << >>]
    /\ sinceTake = [c \in Class |-> 0]

Runs(t) == interrupted # t          \* a signal handler suspends its thread

Goto(t, to) == pc' = [pc EXCEPT ![t] = to]
Acquire(t) == eventLocker = Free /\ eventLocker' = t
Release(t) == eventLocker' = Free

-----------------------------------------------------------------------------
(* PushEvent.  A thread that is not handling an event pushes when it wants *)
(* to; the main thread pushes from a handler.                              *)
MayPush(t) ==
    /\ pc[t] = IF t = Main THEN "handle" ELSE "idle"
    /\ t = Timer => loopEnable

(* Slip: the priority is not clamped.                                      *)
PushEvent_Unclamped(t, priority) ==
    /\ t # Signal
    /\ Runs(t) /\ MayPush(t) /\ posts[t] < MaxPosts
    /\ posts' = [posts EXCEPT ![t] = @ + 1]
    /\ class' = [class EXCEPT ![t] = priority]
    /\ Goto(t, "lock")
    /\ UNCHANGED <<eventLocker, scan, loopEnable, interrupted, queues>>

PushEvent(t, priority) ==
    /\ t # Signal
    /\ Runs(t) /\ MayPush(t) /\ posts[t] < MaxPosts
    /\ posts' = [posts EXCEPT ![t] = @ + 1]
    /\ class' = [class EXCEPT ![t] = IF priority >= PriorityMax THEN Urgent ELSE priority]
    /\ Goto(t, "lock")
    /\ UNCHANGED <<eventLocker, scan, loopEnable, interrupted, queues>>

PushLock(t) ==
    /\ Runs(t) /\ pc[t] = "lock"
    /\ Acquire(t)
    /\ Goto(t, "append")
    /\ UNCHANGED <<class, scan, loopEnable, interrupted, posts, queues>>

PushBack(t) ==
    LET c == class[t]
        e == [by |-> t, n |-> posts[t]]
    IN /\ Runs(t) /\ pc[t] = "append"
       /\ eventList' = [eventList EXCEPT ![c] = Append(@, e)]
       /\ posted' = [posted EXCEPT ![c] = Append(@, e)]
       /\ sinceTake' = [sinceTake EXCEPT ![c] = @ + 1]
       /\ Goto(t, "release")
       /\ UNCHANGED <<eventLocker, class, scan, loopEnable, interrupted, posts, taken, dropped>>

PushUnlock(t) ==
    /\ Runs(t) /\ pc[t] = "release"
    /\ Release(t)
    /\ Goto(t, IF t = Main THEN "handle" ELSE "idle")
    /\ interrupted' = IF t = Signal THEN Signal ELSE interrupted
    /\ UNCHANGED <<class, scan, loopEnable, posts, queues>>

(* SIGINT arrives while t runs: its handler pushes evSysClose.             *)
Interrupt(t) ==
    /\ t \in Interruptible
    /\ pc[t] # "exited"
    /\ pc[Signal] = "idle" /\ posts[Signal] = 0
    /\ interrupted' = t
    /\ posts' = [posts EXCEPT ![Signal] = 1]
    /\ class' = [class EXCEPT ![Signal] = Urgent]
    /\ Goto(Signal, "lock")
    /\ UNCHANGED <<eventLocker, scan, loopEnable, queues>>

-----------------------------------------------------------------------------
(* PopEvent and the main loop.  empty() is read without the lock, so it    *)
(* may be read before or after a concurrent push_back.                     *)
SeesEmpty ==
    /\ Runs(Main) /\ pc[Main] = "scan" /\ scan >= 0
    /\ eventList[scan] = << >>
    /\ scan' = scan - 1
    /\ UNCHANGED <<eventLocker, pc, class, loopEnable, interrupted, posts, queues>>

(* Slip: empty() is not tested.                                            *)
SeesEvent_Untested ==
    /\ Runs(Main) /\ pc[Main] = "scan" /\ scan >= 0
    /\ Goto(Main, "popLock")
    /\ UNCHANGED <<eventLocker, class, scan, loopEnable, interrupted, posts, queues>>

SeesEvent ==
    /\ Runs(Main) /\ pc[Main] = "scan" /\ scan >= 0
    /\ eventList[scan] # << >>
    /\ Goto(Main, "popLock")
    /\ UNCHANGED <<eventLocker, class, scan, loopEnable, interrupted, posts, queues>>

(* Slip: the scan stops before the last list.                              *)
NoEvent_SkipsLast ==
    /\ Runs(Main) /\ pc[Main] = "scan" /\ scan <= 0
    /\ scan' = Urgent
    /\ UNCHANGED <<eventLocker, pc, class, loopEnable, interrupted, posts, queues>>

(* PopEvent returned NULL: usleep, then scan again.                        *)
NoEvent ==
    /\ Runs(Main) /\ pc[Main] = "scan" /\ scan = -1
    /\ scan' = Urgent
    /\ UNCHANGED <<eventLocker, pc, class, loopEnable, interrupted, posts, queues>>

(* Slip: the list changes without the lock.                                *)
PopLock_None ==
    /\ Runs(Main) /\ pc[Main] = "popLock"
    /\ Goto(Main, "take")
    /\ UNCHANGED <<eventLocker, class, scan, loopEnable, interrupted, posts, queues>>

PopLock ==
    /\ Runs(Main) /\ pc[Main] = "popLock"
    /\ Acquire(Main)
    /\ Goto(Main, "take")
    /\ UNCHANGED <<class, scan, loopEnable, interrupted, posts, queues>>

(* Slip: pop_back.                                                         *)
PopFront_Back ==
    LET n == Len(eventList[scan])
    IN /\ Runs(Main) /\ pc[Main] = "take"
       /\ taken' = [taken EXCEPT ![scan] = Append(@, eventList[scan][n])]
       /\ eventList' = [eventList EXCEPT ![scan] = SubSeq(@, 1, n - 1)]
       /\ sinceTake' = [c \in Class |-> 0]
       /\ Goto(Main, "popRelease")
       /\ UNCHANGED <<eventLocker, class, scan, loopEnable, interrupted, posts, posted, dropped>>

PopFront ==
    /\ Runs(Main) /\ pc[Main] = "take"
    /\ taken' = [taken EXCEPT ![scan] = Append(@, Head(eventList[scan]))]
    /\ eventList' = [eventList EXCEPT ![scan] = Tail(@)]
    /\ sinceTake' = [c \in Class |-> 0]
    /\ Goto(Main, "popRelease")
    /\ UNCHANGED <<eventLocker, class, scan, loopEnable, interrupted, posts, posted, dropped>>

(* The event PopEvent returned last.                                       *)
Current == taken[scan][Len(taken[scan])]

(* PopEvent returns; for evSysClose ExitLoop comes before the listeners.   *)
PopUnlock ==
    /\ Runs(Main) /\ pc[Main] = "popRelease"
    /\ Release(Main)
    /\ Goto(Main, "handle")
    /\ loopEnable' = (loopEnable /\ Current # SysClose)
    /\ UNCHANGED <<class, scan, interrupted, posts, queues>>

(* Slip: the scan starts from the wrong end.                               *)
Handled_LowFirst ==
    /\ Runs(Main) /\ pc[Main] = "handle"
    /\ IF loopEnable THEN scan' = Normal /\ Goto(Main, "scan")
                     ELSE Goto(Main, "clearLock") /\ UNCHANGED scan
    /\ UNCHANGED <<eventLocker, class, loopEnable, interrupted, posts, queues>>

(* ProcessEvents has returned: the loop goes on, or Destroy's ClearAll     *)
(* follows.                                                                *)
Handled ==
    /\ Runs(Main) /\ pc[Main] = "handle"
    /\ IF loopEnable THEN scan' = Urgent /\ Goto(Main, "scan")
                     ELSE Goto(Main, "clearLock") /\ UNCHANGED scan
    /\ UNCHANGED <<eventLocker, class, loopEnable, interrupted, posts, queues>>

ClearLock ==
    /\ Runs(Main) /\ pc[Main] = "clearLock"
    /\ Acquire(Main)
    /\ Goto(Main, "clear")
    /\ UNCHANGED <<class, scan, loopEnable, interrupted, posts, queues>>

(* ClearAll deletes every event and unlocks; the threads that still run go *)
(* on pushing.                                                             *)
ClearAll ==
    /\ Runs(Main) /\ pc[Main] = "clear"
    /\ dropped' = [c \in Class |-> dropped[c] \o eventList[c]]
    /\ eventList' = [c \in Class |-> << >>]
    /\ sinceTake' = [c \in Class |-> 0]
    /\ Release(Main)
    /\ Goto(Main, "exited")
    /\ UNCHANGED <<class, scan, loopEnable, interrupted, posts, posted, taken>>

-----------------------------------------------------------------------------
Push(t) == PushLock(t) \/ PushBack(t) \/ PushUnlock(t)

Pop == SeesEmpty \/ SeesEvent \/ NoEvent \/ PopLock \/ PopFront \/ PopUnlock \/ Handled
         \/ ClearLock \/ ClearAll

Next ==
    \/ \E t \in Pushers, priority \in Requested : PushEvent(t, priority)
    \/ \E t \in Threads : Push(t)
    \/ \E t \in Interruptible : Interrupt(t)
    \/ Pop

(* Each thread that is in the middle of a push is scheduled again, and so  *)
(* is the main loop; nobody has to push.                                   *)
Fairness == WF_vars(Pop) /\ \A t \in Threads : WF_vars(Push(t))

Spec == Init /\ [][Next]_vars
FairSpec == Spec /\ Fairness

-----------------------------------------------------------------------------
(* The lists change under the lock only: no thread is between lock and     *)
(* unlock while another is, and none believes in a lock it does not hold.  *)
Holding(t) == pc[t] \in {"append", "release", "take", "popRelease", "clear"}
MutualExclusion == \A t \in Threads : Holding(t) <=> eventLocker = t

(* PopEvent tests empty() before it locks and takes the front after: the   *)
(* list it saw an event in still has one (begin() is never dereferenced on *)
(* an empty list), whatever was pushed in between.                         *)
PopFindsEvent == pc[Main] \in {"popLock", "take"} => scan \in Class /\ eventList[scan] # << >>

(* No event is lost, duplicated or reordered within its class, however     *)
(* pushes, pops, signals and the final ClearAll interleave.                *)
NothingLost == \A c \in Class : posted[c] = taken[c] \o dropped[c] \o eventList[c]

(* The event lists implement the abstract bus, although the scan reads the *)
(* lists one by one while other threads push: an event of a lower class    *)
(* overtakes only more urgent ones that came during the scan.              *)
Bus == INSTANCE EventBus WITH queue <- eventList, fresh <- sinceTake, open <- loopEnable
ImplementsBus == Bus!Spec

(* The signal handler waits for a lock that the thread under it holds.     *)
SelfLocked == pc[Signal] = "lock" /\ eventLocker = interrupted

(* Every event that is pushed, by whichever thread, is taken in the end,   *)
(* unless the system is closing: the main loop neither sleeps on a list    *)
(* that is not empty nor waits for the lock for ever, and an event waits   *)
(* behind no more than the more urgent ones that are pushed.  SelfLocked:  *)
(* the SIGINT handler interrupted a thread that holds the lock which       *)
(* PushEvent takes (main.cpp:140).                                         *)
IsIn(e, lists) == \E c \in Class : \E i \in 1 .. Len(lists[c]) : lists[c][i] = e
AllTaken == \A e \in Event : IsIn(e, posted) ~> IsIn(e, taken) \/ ~loopEnable \/ SelfLocked
=============================================================================
