------------------------------ MODULE EventBus ------------------------------
(***************************************************************************)
(* What the rest of the program expects of CAgvEventHelper: posting and    *)
(* taking an event are indivisible, events of one class are taken in the   *)
(* order in which they were posted, and an event is taken before a more    *)
(* urgent one only if that one came after the previous event was taken.    *)
(***************************************************************************)
EXTENDS Integers, Sequences

CONSTANTS Class,      \* priorities, a higher number is more urgent
          Event       \* events

VARIABLES queue,      \* queue[c]: events of class c not yet taken
          fresh,      \* fresh[c]: how many of them came since the last take
          open        \* FALSE once the main loop has ended

vars == <<queue, fresh, open>>

Init ==
    /\ queue = [c \in Class |-> << >>]
    /\ fresh = [c \in Class |-> 0]
    /\ open = TRUE

Post(c, e) ==
    /\ queue' = [queue EXCEPT ![c] = Append(@, e)]
    /\ fresh' = [fresh EXCEPT ![c] = @ + 1]
    /\ UNCHANGED open

Take(c) ==
    /\ open
    /\ queue[c] # << >>
    /\ \A d \in Class : d > c => Len(queue[d]) <= fresh[d]
    /\ queue' = [queue EXCEPT ![c] = Tail(@)]
    /\ fresh' = [d \in Class |-> 0]
    /\ UNCHANGED open

(* The main loop ends; what is queued at some later moment is discarded.   *)
Close ==
    /\ open
    /\ open' = FALSE
    /\ UNCHANGED <<queue, fresh>>

Discard ==
    /\ ~open
    /\ queue' = [c \in Class |-> << >>]
    /\ fresh' = [c \in Class |-> 0]
    /\ UNCHANGED open

Next ==
    \/ \E c \in Class, e \in Event : Post(c, e)
    \/ \E c \in Class : Take(c)
    \/ Close
    \/ Discard

Spec == Init /\ [][Next]_vars
=============================================================================
