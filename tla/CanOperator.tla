---------------------------- MODULE CanOperator ----------------------------
(***************************************************************************)
(* The monitor thread of the CAN bus (devices/canbus/AgvCanOperator.cpp):  *)
(* it reads frames, joins those of a long message and hands each message   *)
(* to the sensor manager; when the bus is idle it sends heart beats.       *)
(*                                                                         *)
(* A long message is a start frame (FE FE, length, CRC), data frames of    *)
(* eight bytes and an end frame (FE FE).  There is one buffer for all      *)
(* identifiers, so that frames of all devices, heart beats included, fall  *)
(* into a message that is under way.  Lengths are counted in end frames.   *)
(* Two different contents have different CRCs.                             *)
(***************************************************************************)
EXTENDS CanDevices, Naturals

CONSTANTS
    Talker,             \* those that send long messages
    Parts,              \* data frames of a long message
    Long,               \* length of a data frame; an end frame has length 1
    BufferSize,         \* sizeof(recvBuf)
    BeatLimit,          \* idle reads between two heart beats, 10
    MaxLost             \* bound: frames lost on the bus

ASSUME TalkerAssumption == Talker \subseteq CanId
ASSUME PartsAssumption == Parts \in Nat \ {0} /\ Long \in Nat \ {0}
ASSUME BufferAssumption == BufferSize \in Nat /\ BufferSize > Parts * Long
ASSUME BeatAssumption == BeatLimit \in Nat
ASSUME LostAssumption == MaxLost \in Nat

VARIABLES
    sent,               \* sent[i]: frames of its message that device i has sent
    turn,               \* turn[i]: which of its messages that is, modulo 2
    lost,               \* frames lost so far
    overlap,            \* whether two long messages were ever under way at once
    loopEnable,         \* m_loopEnable
    multiMode,          \* 1 while a long message is joined
    recvLength,         \* bytes in recvBuf
    totalLength,        \* the length the start frame announced
    opened,             \* the device and turn of that start frame
    prefix,             \* data frames at the head of recvBuf that are the announced ones
    heartBeatTimer,     \* m_heartBeatTimer
    read,               \* what the last read gave
    given               \* what the listeners were handed after it

devices == <<sent, turn, lost, overlap>>
joined == <<multiMode, recvLength, totalLength, opened, prefix>>
busVars == <<devices, joined, loopEnable, heartBeatTimer, read, given>>

None == "none"
NoOne == [id |-> None, turn |-> 0]
Nothing == [kind |-> None, id |-> None, of |-> None, length |-> 0]

Frame(i, kind, n) == [id |-> i, kind |-> kind, part |-> n, turn |-> turn[i]]
Short == {"single", "beat"}
Size(f) == IF f.kind \in {"single", "data"} THEN Long ELSE 1

BusTypeOK ==
    /\ sent \in [CanId -> 0 .. Parts + 1] /\ turn \in [CanId -> 0 .. 1]
    /\ lost \in 0 .. MaxLost /\ overlap \in BOOLEAN
    /\ loopEnable \in BOOLEAN
    /\ multiMode \in 0 .. 1
    /\ recvLength \in 0 .. BufferSize /\ totalLength \in {0, Parts * Long}
    /\ opened \in [id : CanId \cup {None}, turn : 0 .. 1]
    /\ prefix \in 0 .. Parts
    /\ heartBeatTimer \in 0 .. BeatLimit + 1
    /\ read \in CanId \cup {None, "busy", "idle", "beat", "error"}
    /\ given \in [kind : {None, "frame", "piece", "message", "overrun"},
                  id : CanId \cup {None}, of : CanId \cup {None},
                  length : 0 .. BufferSize]
    /\ multiMode = 0 => recvLength = 0

BusInit ==
    /\ sent = [i \in CanId |-> 0] /\ turn = [i \in CanId |-> 0]
    /\ lost = 0 /\ overlap = FALSE
    /\ loopEnable = TRUE
    /\ multiMode = 0 /\ recvLength = 0 /\ totalLength = 0
    /\ opened = NoOne /\ prefix = 0
    /\ heartBeatTimer = 0
    /\ read = None /\ given = Nothing

-----------------------------------------------------------------------------
(* A device sends messages of one frame, answers heart beats, and sends    *)
(* long messages frame by frame.                                           *)
NextFrames(i) ==
    CASE sent[i] = 0 ->
            {Frame(i, k, 0) : k \in Short \cup (IF i \in Talker THEN {"start"} ELSE {})}
      [] sent[i] \in 1 .. Parts -> {Frame(i, "data", sent[i])}
      [] OTHER -> {Frame(i, "end", 0)}

Sends(i, f) ==
    /\ f \in NextFrames(i)
    /\ sent' = [sent EXCEPT ![i] = CASE f.kind \in Short \cup {"end"} -> 0
                                     [] OTHER -> sent[i] + 1]
    /\ turn' = [turn EXCEPT ![i] = IF f.kind = "end" THEN 1 - @ ELSE @]
    /\ overlap' = (overlap \/ (f.kind = "start" /\ \E j \in CanId \ {i} : sent[j] # 0))

(* The frame does not come to the socket.                                  *)
Lose(i) ==
    /\ lost < MaxLost
    /\ \E f \in NextFrames(i) : Sends(i, f)
    /\ lost' = lost + 1
    /\ UNCHANGED <<joined, loopEnable, heartBeatTimer, read, given>>

-----------------------------------------------------------------------------
(* The loop's treatment of a frame f.                                      *)
Empty ==
    /\ multiMode' = 0 /\ recvLength' = 0 /\ totalLength' = 0
    /\ opened' = NoOne /\ prefix' = 0

(* HandlerData of every listener, under the identifier of f.               *)
Gives(kind, f, of, length) ==
    given' = [kind |-> kind, id |-> f.id, of |-> of, length |-> length]

CrcMatches == prefix = Parts

(* A start frame begins anew, whatever was under way.                      *)
Opens(f) ==
    /\ f.kind = "start"
    /\ multiMode' = 1 /\ recvLength' = 0 /\ totalLength' = Parts * Long
    /\ opened' = [id |-> f.id, turn |-> f.turn] /\ prefix' = 0
    /\ given' = Nothing

EndsMessage(f) == f.kind = "end" /\ multiMode = 1 /\ recvLength >= totalLength

(* Slip: a buffer that holds more than was announced is accepted too.      *)
Closes_More(f) ==
    /\ EndsMessage(f)
    /\ Empty
    /\ IF CrcMatches
       THEN Gives("message", f, opened.id, recvLength)
       ELSE given' = Nothing

(* Complete: the message is handed over under the identifier of the end    *)
(* frame.  A wrong CRC or a length above the announced one drops it.       *)
Closes(f) ==
    /\ EndsMessage(f)
    /\ Empty
    /\ IF recvLength = totalLength /\ CrcMatches
       THEN Gives("message", f, opened.id, recvLength)
       ELSE given' = Nothing

(* Slip: the room is tested without the frame.                             *)
Fits_Before(f) == recvLength <= BufferSize

Fits(f) == recvLength + Size(f) <= BufferSize

(* Slip: what does not fit is dropped, and the message stays under way.    *)
Overruns_Waits(f) ==
    /\ f.kind # "start" /\ ~EndsMessage(f)
    /\ ~Fits(f)
    /\ given' = Nothing
    /\ UNCHANGED joined

(* The full buffer is handed over, cut off, to the sender of f.            *)
Overruns(f) ==
    /\ f.kind # "start" /\ ~EndsMessage(f)
    /\ ~Fits(f)
    /\ Empty
    /\ Gives("overrun", f, None, BufferSize)

(* Any other frame, also an end frame that comes too early, is appended.   *)
Appends(f) ==
    /\ f.kind # "start" /\ ~EndsMessage(f)
    /\ Fits(f)
    /\ IF multiMode = 1
       THEN /\ recvLength' = recvLength + Size(f)
            /\ prefix' = IF /\ recvLength = prefix * Long /\ f.kind = "data"
                            /\ opened = [id |-> f.id, turn |-> f.turn] /\ f.part = prefix + 1
                         THEN prefix + 1 ELSE prefix
            /\ given' = Nothing
            /\ UNCHANGED <<multiMode, totalLength, opened>>
       ELSE /\ Empty
            /\ Gives(IF f.kind \in Short THEN "frame" ELSE "piece", f, f.id, Size(f))

(* Slip: a frame starts the count of idle reads over.                      *)
Receive_Restarts(i) ==
    /\ loopEnable
    /\ \E f \in NextFrames(i) :
         /\ Sends(i, f)
         /\ Opens(f) \/ Closes(f) \/ Overruns(f) \/ Appends(f)
         /\ read' = IF f.kind \in Short /\ \A j \in CanId : sent[j] = 0 THEN i ELSE "busy"
    /\ heartBeatTimer' = 0
    /\ UNCHANGED <<lost, loopEnable>>

Receive(i) ==
    /\ loopEnable
    /\ \E f \in NextFrames(i) :
         /\ Sends(i, f)
         /\ Opens(f) \/ Closes(f) \/ Overruns(f) \/ Appends(f)
         /\ read' = IF f.kind \in Short /\ \A j \in CanId : sent[j] = 0 THEN i ELSE "busy"
    /\ UNCHANGED <<lost, loopEnable, heartBeatTimer>>

(* Nothing to read: 10 ms of sleep, and a heart beat to every sensor after *)
(* enough of them.                                                         *)
Idle ==
    /\ loopEnable
    /\ IF heartBeatTimer > BeatLimit
       THEN heartBeatTimer' = 0 /\ read' = "beat"
       ELSE heartBeatTimer' = heartBeatTimer + 1 /\ read' = "idle"
    /\ given' = Nothing
    /\ UNCHANGED <<devices, joined, loopEnable>>

(* Any error but EAGAIN ends the loop, and nothing starts it again.        *)
ReadError ==
    /\ loopEnable
    /\ loopEnable' = FALSE
    /\ read' = "error" /\ given' = Nothing
    /\ UNCHANGED <<devices, joined, heartBeatTimer>>

BusNext ==
    \/ \E i \in CanId : Receive(i) \/ Lose(i)
    \/ Idle \/ ReadError
    \/ ~loopEnable /\ UNCHANGED busVars

(* The monitor keeps reading.  Nothing is assumed of the devices.          *)
BusSpec == BusInit /\ [][BusNext]_busVars /\ WF_busVars(Idle \/ \E i \in CanId : Receive(i))

-----------------------------------------------------------------------------
(* A long message that is handed over has the length that was announced    *)
(* and, unless two were sent at the same time, goes to the sensors of the  *)
(* device that sent it, although frames are lost and frames of other       *)
(* devices fall between its own.  (It takes Parts + 2 losses to refute the *)
(* last part: the end of one message and all of the next but its end.)     *)
WholeMessage ==
    given.kind = "message" =>
        given.length = Parts * Long /\ (~overlap => given.of = given.id)

(* A message that was cut short does not make the bus deaf: a device that  *)
(* keeps sending short messages while no long one is sent is heard again,  *)
(* however many frames the unfinished message has swallowed.               *)
HeardAgain ==
    \A i \in CanId :
        []<>(read = i) => []<>(given.kind = "frame" /\ given.id = i)

(* Heart beats go out whenever the bus is idle again and again, with any   *)
(* frames in between: the devices stop the car when they miss three.       *)
BeatsGoOut == []<>(read \in {"idle", "beat"}) => []<>(read = "beat")
=============================================================================
