-------------------------- MODULE EventQueueProofs --------------------------
(***************************************************************************)
(* Proofs about the event lists, for every set of threads that push, every *)
(* set of threads SIGINT may interrupt and any number of events.           *)
(***************************************************************************)
EXTENDS EventQueue, SequenceTheorems, TLAPS

(* Only the main thread is ever at the labels of PopEvent and ClearAll.  A *)
(* thread that pushes has counted its event, and nothing is discarded      *)
(* before ClearAll.                                                        *)
Places ==
    /\ pc[Main] # "idle"
    /\ \A t \in Threads \ {Main} : pc[t] \in PushPC
    /\ \A t \in Threads : pc[t] \in {"lock", "append"} => posts[t] >= 1
    /\ pc[Main] # "exited" => \A c \in Class : dropped[c] = << >>

Inv == TypeOK /\ Places /\ MutualExclusion /\ PopFindsEvent /\ NothingLost

-----------------------------------------------------------------------------
(* Sequences: an element may be appended before or after a concatenation,  *)
(* and the front of the second part may become the end of the first.       *)
LEMMA AppendLast ==
    ASSUME NEW S, NEW a \in Seq(S), NEW b \in Seq(S), NEW e \in S
    PROVE  a \o Append(b, e) = Append(a \o b, e)
OBVIOUS

LEMMA MoveFront ==
    ASSUME NEW S, NEW a \in Seq(S), NEW b \in Seq(S), b # << >>
    PROVE  Append(a, Head(b)) \o Tail(b) = a \o b
OBVIOUS

LEMMA EmptyConcat ==
    ASSUME NEW S, NEW a \in Seq(S), NEW b \in Seq(S)
    PROVE  a \o << >> = a /\ << >> \in Seq(S) /\ a \o b \in Seq(S)
OBVIOUS

LEMMA Names ==
    /\ Main \in Threads /\ Signal \in Threads /\ Main # Signal /\ Free \notin Threads
    /\ \A t \in Interruptible : t \in Threads
    /\ \A t \in Pushers : t \in Threads
BY ThreadsAssumption DEF Threads, Pushers

LEMMA Classes == Normal \in Class /\ Urgent \in Class /\ Class = 0 .. 2
BY DEF Class, Normal, Urgent, PriorityMax

LEMMA InitInv == Init => Inv
<1> SUFFICES ASSUME Init PROVE Inv
    OBVIOUS
<1>1. TypeOK
    BY Names, Classes, PostsAssumption DEF Init, TypeOK, PushPC, MainPC, Threads
<1>2. Places
    BY Names DEF Init, Places, PushPC
<1>3. MutualExclusion /\ PopFindsEvent
    BY Names DEF Init, MutualExclusion, Holding, PopFindsEvent
<1>4. NothingLost
    BY DEF Init, NothingLost
<1> QED BY <1>1, <1>2, <1>3, <1>4 DEF Inv

-----------------------------------------------------------------------------
(* A step that leaves the lists alone.                                     *)
LEMMA ListsKept ==
    ASSUME Inv, UNCHANGED queues, pc'[Main] # "exited" => pc[Main] # "exited",
           TypeOK', pc'[Main] # "idle",
           \A t \in Threads \ {Main} : pc'[t] \in PushPC,
           \A t \in Threads : pc'[t] \in {"lock", "append"} => posts'[t] >= 1,
           MutualExclusion', PopFindsEvent'
    PROVE  Inv'
BY DEF Inv, queues, Places, NothingLost

USE DEF Goto, Acquire, Release

LEMMA PushEventInv ==
    ASSUME Inv, NEW t \in Pushers, NEW priority \in Requested, PushEvent(t, priority)
    PROVE  Inv'
<1> USE Names, Classes DEF Inv, PushEvent
<1>1. posts'[t] \in 0 .. MaxPosts + 1 /\ posts'[t] >= 1 /\ posts' \in [Threads -> 0 .. MaxPosts + 1]
    <2>1. posts[t] \in 0 .. MaxPosts + 1 /\ posts[t] < MaxPosts
        BY DEF TypeOK
    <2>2. posts[t] + 1 \in 0 .. MaxPosts + 1 /\ posts[t] + 1 >= 1
        BY <2>1, PostsAssumption
    <2> QED BY <2>2 DEF TypeOK
<1>2. class' \in [Threads -> Class]
    <2>1. priority \in Nat
        BY PostsAssumption
    <2>2. (IF priority >= PriorityMax THEN Urgent ELSE priority) \in 0 .. 2
        BY <2>1 DEF PriorityMax, Urgent
    <2> QED BY <2>2 DEF TypeOK
<1>3. TypeOK'
    BY <1>1, <1>2 DEF TypeOK, PushPC, queues
<1>4. /\ pc'[Main] # "idle" /\ (pc'[Main] # "exited" => pc[Main] # "exited")
      /\ \A u \in Threads \ {Main} : pc'[u] \in PushPC
    <2>1. pc' = [pc EXCEPT ![t] = "lock"] /\ pc \in [Threads -> PushPC \cup MainPC]
        BY DEF TypeOK
    <2>2. t = Main => pc[Main] = "handle"
        BY DEF MayPush
    <2>3. pc[Main] # "idle" /\ \A u \in Threads \ {Main} : pc[u] \in PushPC
        BY DEF Places
    <2> QED BY <2>1, <2>2, <2>3 DEF PushPC
<1>5. \A u \in Threads : pc'[u] \in {"lock", "append"} => posts'[u] >= 1
    BY <1>1 DEF TypeOK, Places
<1>6. MutualExclusion'
    BY DEF TypeOK, MutualExclusion, Holding, MayPush
<1>7. PopFindsEvent'
    BY DEF TypeOK, PopFindsEvent, queues, MayPush
<1> QED BY <1>3, <1>4, <1>5, <1>6, <1>7, ListsKept

LEMMA PushLockInv ==
    ASSUME Inv, NEW t \in Threads, PushLock(t)
    PROVE  Inv'
<1> USE Names DEF Inv, PushLock
<1>1. TypeOK'
    BY DEF TypeOK, PushPC, queues
<1>2. /\ pc'[Main] # "idle" /\ (pc'[Main] # "exited" => pc[Main] # "exited")
      /\ \A u \in Threads \ {Main} : pc'[u] \in PushPC
      /\ \A u \in Threads : pc'[u] \in {"lock", "append"} => posts'[u] >= 1
    BY DEF TypeOK, Places, PushPC
<1>3. MutualExclusion'
    BY DEF TypeOK, MutualExclusion, Holding
<1>4. PopFindsEvent'
    BY DEF TypeOK, PopFindsEvent, queues
<1> QED BY <1>1, <1>2, <1>3, <1>4, ListsKept

(* The event goes to the end of its list and of the history.               *)
LEMMA PushBackInv ==
    ASSUME Inv, NEW t \in Threads, PushBack(t)
    PROVE  Inv'
<1> DEFINE c == class[t]
           e == [by |-> t, n |-> posts[t]]
<1> USE Names
<1>1. c \in Class /\ e \in Event
    BY DEF Inv, TypeOK, Places, PushBack, Event
<1>2. /\ eventList' = [eventList EXCEPT ![c] = Append(@, e)]
      /\ posted' = [posted EXCEPT ![c] = Append(@, e)]
      /\ sinceTake' = [sinceTake EXCEPT ![c] = @ + 1]
      /\ pc[t] = "append" /\ pc' = [pc EXCEPT ![t] = "release"]
      /\ UNCHANGED <<eventLocker, class, scan, loopEnable, interrupted, posts, taken, dropped>>
    BY DEF PushBack
<1> HIDE DEF c, e
<1>3. \A l \in Seq(Event) : Append(l, e) \in Seq(Event) /\ Append(l, e) # << >>
    BY <1>1
<1>4. TypeOK'
    <2>1. eventList' \in [Class -> Seq(Event)] /\ posted' \in [Class -> Seq(Event)]
        BY <1>1, <1>2, <1>3 DEF Inv, TypeOK
    <2>2. sinceTake' \in [Class -> Nat]
        <3>1. sinceTake \in [Class -> Nat]
            BY DEF Inv, TypeOK
        <3>2. sinceTake[c] + 1 \in Nat
            BY <1>1, <3>1
        <3> QED BY <1>2, <3>1, <3>2
    <2>3. pc' \in [Threads -> PushPC \cup MainPC]
        BY <1>2 DEF Inv, TypeOK, PushPC
    <2> QED BY <1>2, <2>1, <2>2, <2>3 DEF Inv, TypeOK
<1>5. Places'
    BY <1>2 DEF Inv, TypeOK, Places, PushPC
<1>6. MutualExclusion'
    BY <1>2 DEF Inv, TypeOK, MutualExclusion, Holding
<1>7. PopFindsEvent'
    BY <1>1, <1>2, <1>3 DEF Inv, TypeOK, PopFindsEvent
<1>8. NothingLost'
    <2> SUFFICES ASSUME NEW d \in Class
                 PROVE  posted'[d] = taken'[d] \o dropped'[d] \o eventList'[d]
        BY DEF NothingLost
    <2>1. CASE d # c
        BY <1>2, <2>1 DEF Inv, TypeOK, NothingLost
    <2>2. CASE d = c
        <3> DEFINE a == taken[d] \o dropped[d]
                   b == eventList[d]
        <3>1. a \in Seq(Event) /\ b \in Seq(Event)
            BY EmptyConcat DEF Inv, TypeOK
        <3>2. posted[d] = a \o b /\ posted'[d] = Append(posted[d], e)
            BY <1>1, <1>2, <2>2 DEF Inv, TypeOK, NothingLost
        <3>3. taken'[d] \o dropped'[d] = a /\ eventList'[d] = Append(b, e)
            BY <1>1, <1>2, <2>2 DEF Inv, TypeOK
        <3> HIDE DEF a, b
        <3>4. a \o Append(b, e) = Append(a \o b, e)
            BY <1>1, <3>1, AppendLast
        <3> QED BY <3>2, <3>3, <3>4
    <2> QED BY <2>1, <2>2
<1> QED BY <1>4, <1>5, <1>6, <1>7, <1>8 DEF Inv

LEMMA PushUnlockInv ==
    ASSUME Inv, NEW t \in Threads, PushUnlock(t)
    PROVE  Inv'
<1> USE Names DEF Inv, PushUnlock
<1>1. TypeOK'
    BY DEF TypeOK, PushPC, MainPC, queues
<1>2. /\ pc'[Main] # "idle" /\ (pc'[Main] # "exited" => pc[Main] # "exited")
      /\ \A u \in Threads \ {Main} : pc'[u] \in PushPC
      /\ \A u \in Threads : pc'[u] \in {"lock", "append"} => posts'[u] >= 1
    BY DEF TypeOK, Places, PushPC
<1>3. MutualExclusion'
    BY DEF TypeOK, MutualExclusion, Holding
<1>4. PopFindsEvent'
    BY DEF TypeOK, PopFindsEvent, queues
<1> QED BY <1>1, <1>2, <1>3, <1>4, ListsKept

LEMMA InterruptInv ==
    ASSUME Inv, NEW t \in Interruptible, Interrupt(t)
    PROVE  Inv'
<1> USE Names, Classes DEF Inv, Interrupt
<1>1. posts' \in [Threads -> 0 .. MaxPosts + 1] /\ posts'[Signal] = 1
    BY PostsAssumption DEF TypeOK
<1>2. TypeOK'
    BY <1>1 DEF TypeOK, PushPC, queues
<1>3. /\ pc'[Main] # "idle" /\ (pc'[Main] # "exited" => pc[Main] # "exited")
      /\ \A u \in Threads \ {Main} : pc'[u] \in PushPC
    BY DEF TypeOK, Places, PushPC
<1>4. \A u \in Threads : pc'[u] \in {"lock", "append"} => posts'[u] >= 1
    BY <1>1 DEF TypeOK, Places
<1>5. MutualExclusion'
    BY DEF TypeOK, MutualExclusion, Holding
<1>6. PopFindsEvent'
    BY DEF TypeOK, PopFindsEvent, queues
<1> QED BY <1>2, <1>3, <1>4, <1>5, <1>6, ListsKept

(* The steps of the main thread that leave the lists alone.                *)
LEMMA ScanInv ==
    ASSUME Inv, SeesEmpty \/ SeesEvent \/ NoEvent \/ PopLock \/ PopUnlock \/ Handled \/ ClearLock
    PROVE  Inv'
<1> USE Names, Classes DEF Inv, queues
<1>1. CASE SeesEmpty
    <2>1. scan' \in 0 .. 2 \cup {-1}
        BY <1>1 DEF SeesEmpty, TypeOK
    <2>2. TypeOK'
        BY <1>1, <2>1 DEF SeesEmpty, TypeOK
    <2> QED BY <1>1, <2>2, ListsKept
            DEF SeesEmpty, Places, MutualExclusion, Holding, PopFindsEvent
<1>2. CASE SeesEvent
    <2>1. scan \in Class
        BY <1>2 DEF SeesEvent, TypeOK
    <2>4. TypeOK'
        BY <1>2 DEF SeesEvent, TypeOK, MainPC
    <2>2. Places'
        BY <1>2 DEF SeesEvent, TypeOK, Places
    <2>3. MutualExclusion' /\ PopFindsEvent'
        BY <1>2, <2>1 DEF SeesEvent, TypeOK, MutualExclusion, Holding, PopFindsEvent
    <2> QED BY <1>2, <2>2, <2>3, <2>4 DEF SeesEvent, NothingLost
<1>3. CASE NoEvent
    <2>1. TypeOK'
        BY <1>3 DEF NoEvent, TypeOK
    <2> QED BY <1>3, <2>1, ListsKept
            DEF NoEvent, Places, MutualExclusion, Holding, PopFindsEvent
<1>4. CASE PopLock
    <2>1. TypeOK'
        BY <1>4 DEF PopLock, TypeOK, MainPC
    <2>2. Places'
        BY <1>4 DEF PopLock, TypeOK, Places
    <2>3. MutualExclusion' /\ PopFindsEvent'
        BY <1>4 DEF PopLock, TypeOK, MutualExclusion, Holding, PopFindsEvent
    <2> QED BY <1>4, <2>1, <2>2, <2>3 DEF PopLock, NothingLost
<1>5. CASE PopUnlock
    <2>1. TypeOK'
        BY <1>5 DEF PopUnlock, TypeOK, MainPC
    <2>2. Places'
        BY <1>5 DEF PopUnlock, TypeOK, Places
    <2>3. MutualExclusion' /\ PopFindsEvent'
        BY <1>5 DEF PopUnlock, TypeOK, MutualExclusion, Holding, PopFindsEvent
    <2> QED BY <1>5, <2>1, <2>2, <2>3 DEF PopUnlock, NothingLost
<1>6. CASE Handled
    <2>1. TypeOK'
        BY <1>6 DEF Handled, TypeOK, MainPC
    <2>2. Places'
        BY <1>6 DEF Handled, TypeOK, Places
    <2>3. MutualExclusion' /\ PopFindsEvent'
        BY <1>6 DEF Handled, TypeOK, MutualExclusion, Holding, PopFindsEvent
    <2> QED BY <1>6, <2>1, <2>2, <2>3 DEF Handled, NothingLost
<1>7. CASE ClearLock
    <2>1. TypeOK'
        BY <1>7 DEF ClearLock, TypeOK, MainPC
    <2>2. Places'
        BY <1>7 DEF ClearLock, TypeOK, Places
    <2>3. MutualExclusion' /\ PopFindsEvent'
        BY <1>7 DEF ClearLock, TypeOK, MutualExclusion, Holding, PopFindsEvent
    <2> QED BY <1>7, <2>1, <2>2, <2>3 DEF ClearLock, NothingLost
<1> QED BY <1>1, <1>2, <1>3, <1>4, <1>5, <1>6, <1>7

(* The front of a list becomes the end of its history.                     *)
LEMMA PopFrontInv ==
    ASSUME Inv, PopFront
    PROVE  Inv'
<1> DEFINE l == eventList[scan]
<1> USE Names
<1>1. scan \in Class /\ l \in Seq(Event) /\ l # << >>
    BY DEF Inv, TypeOK, PopFindsEvent, PopFront
<1>2. /\ taken' = [taken EXCEPT ![scan] = Append(@, Head(l))]
      /\ eventList' = [eventList EXCEPT ![scan] = Tail(l)]
      /\ sinceTake' = [c \in Class |-> 0]
      /\ pc[Main] = "take" /\ pc' = [pc EXCEPT ![Main] = "popRelease"]
      /\ UNCHANGED <<eventLocker, class, scan, loopEnable, interrupted, posts, posted, dropped>>
    BY DEF PopFront
<1> HIDE DEF l
<1>3. Tail(l) \in Seq(Event) /\ \A a \in Seq(Event) : Append(a, Head(l)) \in Seq(Event)
    BY <1>1
<1>4. TypeOK'
    BY <1>1, <1>2, <1>3 DEF Inv, TypeOK, MainPC
<1>5. Places'
    BY <1>2 DEF Inv, TypeOK, Places
<1>6. MutualExclusion' /\ PopFindsEvent'
    BY <1>2 DEF Inv, TypeOK, MutualExclusion, Holding, PopFindsEvent
<1>7. NothingLost'
    <2> SUFFICES ASSUME NEW d \in Class
                 PROVE  posted'[d] = taken'[d] \o dropped'[d] \o eventList'[d]
        BY DEF NothingLost
    <2>1. dropped[d] = << >> /\ taken[d] \in Seq(Event) /\ eventList[d] \in Seq(Event)
        BY <1>2 DEF Inv, TypeOK, Places
    <2>2. posted[d] = taken[d] \o eventList[d]
        BY <2>1, EmptyConcat DEF Inv, NothingLost
    <2>3. CASE d # scan
        BY <1>2, <2>3 DEF Inv, TypeOK, NothingLost
    <2>4. CASE d = scan
        <3>1. taken'[d] = Append(taken[d], Head(l)) /\ eventList'[d] = Tail(l)
            BY <1>1, <1>2, <2>4 DEF Inv, TypeOK
        <3>2. taken'[d] \o eventList'[d] = taken[d] \o l
            BY <1>1, <2>1, <3>1, MoveFront
        <3>3. taken'[d] \o dropped'[d] = taken'[d] /\ l = eventList[d]
            BY <1>2, <1>3, <2>1, <2>4, <3>1, EmptyConcat DEF l
        <3> QED BY <1>2, <2>2, <3>2, <3>3
    <2> QED BY <2>3, <2>4
<1> QED BY <1>4, <1>5, <1>6, <1>7 DEF Inv

LEMMA ClearAllInv ==
    ASSUME Inv, ClearAll
    PROVE  Inv'
<1> USE Names
<1>1. \A d \in Class : dropped[d] \o eventList[d] \in Seq(Event) /\ << >> \in Seq(Event)
    BY EmptyConcat DEF Inv, TypeOK
<1>2. TypeOK'
    BY <1>1 DEF Inv, TypeOK, ClearAll, MainPC
<1>3. Places'
    BY DEF Inv, TypeOK, ClearAll, Places
<1>4. MutualExclusion' /\ PopFindsEvent'
    BY DEF Inv, TypeOK, ClearAll, MutualExclusion, Holding, PopFindsEvent
<1>5. NothingLost'
    <2> SUFFICES ASSUME NEW d \in Class
                 PROVE  posted'[d] = taken'[d] \o dropped'[d] \o eventList'[d]
        BY DEF NothingLost
    <2>1. dropped[d] = << >> /\ taken[d] \in Seq(Event) /\ eventList[d] \in Seq(Event)
        BY DEF Inv, TypeOK, Places, ClearAll
    <2>2. posted'[d] = (taken[d] \o << >>) \o eventList[d]
        BY <2>1 DEF Inv, NothingLost, ClearAll
    <2>3. taken'[d] = taken[d] /\ dropped'[d] = << >> \o eventList[d] /\ eventList'[d] = << >>
        BY <2>1 DEF ClearAll
    <2>4. (taken[d] \o << >>) \o eventList[d]
              = taken[d] \o (<< >> \o eventList[d]) \o << >>
        BY <2>1
    <2> QED BY <2>2, <2>3, <2>4
<1> QED BY <1>2, <1>3, <1>4, <1>5 DEF Inv

LEMMA NextInv == Inv /\ [Next]_vars => Inv'
<1> SUFFICES ASSUME Inv, [Next]_vars PROVE Inv'
    OBVIOUS
<1>1. CASE \E t \in Pushers, priority \in Requested : PushEvent(t, priority)
    BY <1>1, PushEventInv
<1>2. CASE \E t \in Threads : Push(t)
    BY <1>2, PushLockInv, PushBackInv, PushUnlockInv DEF Push
<1>3. CASE \E t \in Interruptible : Interrupt(t)
    BY <1>3, InterruptInv
<1>4. CASE Pop
    BY <1>4, ScanInv, PopFrontInv, ClearAllInv DEF Pop
<1>5. CASE UNCHANGED vars
    BY <1>5 DEF vars, Inv, TypeOK, Places, MutualExclusion, Holding, PopFindsEvent, NothingLost
<1> QED BY <1>1, <1>2, <1>3, <1>4, <1>5 DEF Next

THEOREM EventQueueInv == Spec => []Inv
BY InitInv, NextInv, PTL DEF Spec

(* The state is well typed: every class stays a list, every priority is    *)
(* clamped (PushEvent).                                                    *)
THEOREM QueueTypeCorrect == Spec => []TypeOK
<1>1. Inv => TypeOK
    BY DEF Inv
<1> QED BY <1>1, EventQueueInv, PTL

(* The lists are touched by the owner of eventLocker only.                 *)
THEOREM MutexHolds == Spec => []MutualExclusion
<1>1. Inv => MutualExclusion
    BY DEF Inv
<1> QED BY <1>1, EventQueueInv, PTL

(* PopEvent's test outside the lock is enough: its list is not empty when  *)
(* the lock is held.                                                       *)
THEOREM PopIsSafe == Spec => []PopFindsEvent
<1>1. Inv => PopFindsEvent
    BY DEF Inv
<1> QED BY <1>1, EventQueueInv, PTL

(* Each class is a queue: what was posted is what was taken, what ClearAll *)
(* deleted and what waits, in this order.                                  *)
THEOREM NoEventLost == Spec => []NothingLost
<1>1. Inv => NothingLost
    BY DEF Inv
<1> QED BY <1>1, EventQueueInv, PTL

-----------------------------------------------------------------------------
(* The event lists implement the bus.  While the scan goes down the lists, *)
(* each list it has passed was empty at some moment since the last take:   *)
(* all that is in it came since then.                                      *)
Passed ==
    pc[Main] \in {"scan", "popLock", "take"}
        => /\ loopEnable
           /\ \A d \in Class : d > scan => Len(eventList[d]) <= sinceTake[d]
Closing == pc[Main] \in {"clearLock", "clear"} => ~loopEnable

BusInv == Inv /\ Passed /\ Closing

LEMMA InitBusInv == Init => BusInv
<1> SUFFICES ASSUME Init PROVE BusInv
    OBVIOUS
<1>1. Passed
    BY Classes, Names, EmptySeq DEF Init, Passed, Urgent
<1>2. Closing
    BY Names DEF Init, Closing
<1> QED BY <1>1, <1>2, InitInv DEF BusInv

LEMMA PushPassed ==
    ASSUME Inv, Passed, Closing, NEW t \in Threads, PushBack(t)
    PROVE  Passed' /\ Closing'
<1> DEFINE c == class[t]
           e == [by |-> t, n |-> posts[t]]
<1> USE Names
<1>1. c \in Class /\ eventList \in [Class -> Seq(Event)] /\ sinceTake \in [Class -> Nat]
    BY DEF Inv, TypeOK
<1>2. /\ eventList' = [eventList EXCEPT ![c] = Append(@, e)]
      /\ sinceTake' = [sinceTake EXCEPT ![c] = @ + 1]
      /\ pc[t] = "append" /\ pc' = [pc EXCEPT ![t] = "release"]
      /\ UNCHANGED <<scan, loopEnable>>
    BY DEF PushBack
<1> HIDE DEF c, e
<1>3. pc'[Main] \in {"scan", "popLock", "take", "clearLock", "clear"} => pc'[Main] = pc[Main]
    BY <1>2 DEF Inv, TypeOK
<1>4. \A d \in Class : Len(eventList[d]) <= sinceTake[d] => Len(eventList'[d]) <= sinceTake'[d]
    <2> SUFFICES ASSUME NEW d \in Class, Len(eventList[d]) <= sinceTake[d]
                 PROVE  Len(eventList'[d]) <= sinceTake'[d]
        OBVIOUS
    <2>1. \A l \in Seq(Event) : Len(Append(l, e)) = Len(l) + 1 /\ Len(l) \in Nat
        OBVIOUS
    <2>2. CASE d = c
        <3>1. eventList'[d] = Append(eventList[d], e) /\ sinceTake'[d] = sinceTake[d] + 1
            BY <1>1, <1>2, <2>2
        <3> QED BY <1>1, <2>1, <3>1
    <2>3. CASE d # c
        BY <1>1, <1>2, <2>3
    <2> QED BY <2>2, <2>3
<1> QED BY <1>2, <1>3, <1>4 DEF Passed, Closing

(* Steps that change neither lists nor loopEnable nor scan, and do not     *)
(* bring the main thread to the scan or to ClearAll.                       *)
LEMMA PassedKept ==
    ASSUME Passed, Closing, UNCHANGED <<queues, scan, loopEnable>>,
           pc'[Main] \in {"scan", "popLock", "take", "clearLock", "clear"}
               => \/ pc'[Main] = pc[Main]
                  \/ pc[Main] \in {"scan", "popLock", "take"} /\ pc'[Main] \in {"popLock", "take"}
                  \/ pc[Main] = "clearLock" /\ pc'[Main] = "clear"
    PROVE  Passed' /\ Closing'
BY DEF Passed, Closing, queues

LEMMA NextPassed ==
    ASSUME Inv, Passed, Closing, [Next]_vars
    PROVE  Passed' /\ Closing'
<1> USE Names
<1>0. pc \in [Threads -> PushPC \cup MainPC]
    BY DEF Inv, TypeOK
<1>1. ASSUME NEW t \in Pushers, NEW priority \in Requested, PushEvent(t, priority)
      PROVE  Passed' /\ Closing'
    BY <1>0, <1>1, PassedKept DEF PushEvent
<1>2. ASSUME NEW t \in Threads, PushLock(t) \/ PushUnlock(t)
      PROVE  Passed' /\ Closing'
    BY <1>0, <1>2, PassedKept DEF PushLock, PushUnlock
<1>3. ASSUME NEW t \in Interruptible, Interrupt(t)
      PROVE  Passed' /\ Closing'
    BY <1>0, <1>3, PassedKept DEF Interrupt
<1>4. CASE SeesEmpty
    <2>1. /\ scan \in Class /\ eventList[scan] = << >> /\ scan' = scan - 1 /\ pc[Main] = "scan"
          /\ UNCHANGED <<pc, loopEnable, eventList, sinceTake>>
        BY <1>4, Classes DEF SeesEmpty, queues, Inv, TypeOK
    <2>2. Len(eventList[scan]) = 0 /\ sinceTake[scan] \in Nat
        BY <2>1, EmptySeq DEF Inv, TypeOK
    <2>3. \A d \in Class : d > scan - 1 => d = scan \/ d > scan
        BY <2>1, Classes
    <2> QED BY <2>1, <2>2, <2>3 DEF Passed, Closing
<1>5. CASE SeesEvent \/ PopLock \/ ClearLock
    BY <1>0, <1>5, PassedKept DEF SeesEvent, PopLock, ClearLock
<1>6. CASE NoEvent
    <2>1. scan' = Urgent /\ pc[Main] = "scan" /\ UNCHANGED <<pc, loopEnable>>
        BY <1>6 DEF NoEvent
    <2> QED BY <2>1, Classes DEF Passed, Closing, Urgent
<1>7. CASE PopFront \/ PopUnlock \/ ClearAll
    <2>1. pc'[Main] \in {"popRelease", "handle", "exited"}
        BY <1>0, <1>7 DEF PopFront, PopUnlock, ClearAll
    <2> QED BY <2>1 DEF Passed, Closing
<1>8. CASE Handled
    <2>1. CASE loopEnable
        <3>1. scan' = Urgent /\ loopEnable' /\ pc'[Main] = "scan"
            BY <1>0, <1>8, <2>1 DEF Handled
        <3> QED BY <3>1, Classes DEF Passed, Closing, Urgent
    <2>2. CASE ~loopEnable
        <3>1. ~loopEnable' /\ pc'[Main] = "clearLock"
            BY <1>0, <1>8, <2>2 DEF Handled
        <3> QED BY <3>1 DEF Passed, Closing
    <2> QED BY <2>1, <2>2
<1>9. CASE UNCHANGED vars
    BY <1>9 DEF vars, Passed, Closing
<1> QED BY <1>1, <1>2, <1>3, <1>4, <1>5, <1>6, <1>7, <1>8, <1>9, PushPassed
        DEF Next, Push, Pop

LEMMA BusInvAlways == Spec => []BusInv
<1>1. BusInv /\ [Next]_vars => BusInv'
    BY NextInv, NextPassed DEF BusInv
<1> QED BY <1>1, InitBusInv, PTL DEF Spec

(* Each step is a step of the bus or leaves the bus alone.                 *)
LEMMA StepOfBus ==
    ASSUME BusInv, [Next]_vars
    PROVE  [Bus!Next]_(Bus!vars)
<1> USE Names DEF BusInv, Bus!vars
<1>1. ASSUME NEW t \in Pushers, NEW priority \in Requested, PushEvent(t, priority)
      PROVE  UNCHANGED Bus!vars
    BY <1>1 DEF PushEvent, queues
<1>2. ASSUME NEW t \in Threads, PushLock(t) \/ PushUnlock(t)
      PROVE  UNCHANGED Bus!vars
    BY <1>2 DEF PushLock, PushUnlock, queues
<1>3. ASSUME NEW t \in Threads, PushBack(t)
      PROVE  Bus!Next
    <2>1. class[t] \in Class /\ [by |-> t, n |-> posts[t]] \in Event
        BY <1>3 DEF PushBack, Inv, TypeOK, Places, Event
    <2>2. Bus!Post(class[t], [by |-> t, n |-> posts[t]])
        BY <1>3 DEF PushBack, Bus!Post
    <2> QED BY <2>1, <2>2 DEF Bus!Next
<1>4. ASSUME NEW t \in Interruptible, Interrupt(t)
      PROVE  UNCHANGED Bus!vars
    BY <1>4 DEF Interrupt, queues
<1>5. CASE SeesEmpty \/ SeesEvent \/ NoEvent \/ PopLock \/ Handled \/ ClearLock
    BY <1>5 DEF SeesEmpty, SeesEvent, NoEvent, PopLock, Handled, ClearLock, queues
<1>6. CASE PopFront
    <2>1. scan \in Class /\ eventList[scan] # << >> /\ loopEnable
             /\ \A d \in Class : d > scan => Len(eventList[d]) <= sinceTake[d]
        BY <1>6 DEF PopFront, Inv, PopFindsEvent, Passed
    <2>2. Bus!Take(scan)
        BY <1>6, <2>1 DEF PopFront, Bus!Take
    <2> QED BY <2>1, <2>2 DEF Bus!Next
<1>7. CASE PopUnlock
    <2>1. loopEnable \in BOOLEAN
        BY DEF Inv, TypeOK
    <2>2. loopEnable' = (loopEnable /\ Current # SysClose)
        BY <1>7 DEF PopUnlock
    <2>3. CASE loopEnable = FALSE
        <3>1. loopEnable' = loopEnable
            BY <2>2, <2>3
        <3> QED BY <1>7, <3>1 DEF PopUnlock, queues
    <2>4. CASE loopEnable = TRUE
        <3>1. CASE Current # SysClose
            <4>1. loopEnable' = loopEnable
                BY <2>2, <2>4, <3>1
            <4> QED BY <1>7, <4>1 DEF PopUnlock, queues
        <3>2. CASE Current = SysClose
            <4>1. loopEnable /\ loopEnable' = FALSE
                BY <2>2, <2>4, <3>2
            <4> QED BY <1>7, <4>1 DEF PopUnlock, queues, Bus!Next, Bus!Close
        <3> QED BY <3>1, <3>2
    <2> QED BY <2>1, <2>3, <2>4
<1>8. CASE ClearAll
    BY <1>8 DEF ClearAll, Closing, Bus!Next, Bus!Discard
<1>9. CASE UNCHANGED vars
    BY <1>9 DEF vars
<1> QED BY <1>1, <1>2, <1>3, <1>4, <1>5, <1>6, <1>7, <1>8, <1>9 DEF Next, Push, Pop

(* CAgvEventHelper does what EventBus promises, for every number of        *)
(* threads: PushEvent and PopEvent are indivisible, first in first out in  *)
(* each class, and an event overtakes more urgent ones only if those came  *)
(* during the scan of PopEvent that found it.                              *)
THEOREM QueueImplementsBus == Spec => ImplementsBus
<1>1. Init => Bus!Init
    BY DEF Init, Bus!Init
<1>2. BusInv /\ [Next]_vars => [Bus!Next]_(Bus!vars)
    BY StepOfBus
<1> QED BY <1>1, <1>2, BusInvAlways, PTL DEF Spec, ImplementsBus, Bus!Spec
=============================================================================
