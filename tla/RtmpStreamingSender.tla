-------------------------- MODULE RtmpStreamingSender --------------------------
(***************************************************************************)
(* task/RtmpStreamingSender.java: the object that carries encoded audio    *)
(* and video to an RTMP server.                                            *)
(*                                                                         *)
(* Three kinds of thread meet in it.  The activity's UI thread calls       *)
(* sendStart, hands the object to an executor, and later calls sendStop    *)
(* and quit, in that order and once each (ScreenRecordActivity makes a new *)
(* sender for every recording).  The encoder threads call sendFood.  The   *)
(* executor's thread runs run(), a busy loop over the state field.         *)
(*                                                                         *)
(* frameQueue, state and mQuit are a LinkedBlockingDeque, a volatile and   *)
(* an AtomicBoolean.  writeMsgNum is written under syncWriteMsgNum but the *)
(* test for a crowded queue reads it without the lock.                     *)
(***************************************************************************)
EXTENDS Integers, Sequences

CONSTANTS MAX_QUEUE_CAPACITY,  \* capacity of the deque (50)
          maxQueueLength,      \* the count sendFood compares with (50)
          MaxFood              \* bound: packets each producer feeds

ASSUME QueueAssumption ==
    /\ MAX_QUEUE_CAPACITY \in Nat \ {0}
    /\ maxQueueLength \in Nat
    /\ MAX_QUEUE_CAPACITY <= maxQueueLength
    /\ MaxFood \in Nat

Tracks == {"video", "audio"}

\* RESFlvData.  dts stands for the time stamp: a producer's packets are
\* numbered in the order it sends them and number 0 is the codec's
\* configuration record, the only packet that is not droppable.
Packets == [flvTagType : Tracks, dts : 0 .. MaxFood, droppable : BOOLEAN]

Packet(t, k) == [flvTagType |-> t, dts |-> k, droppable |-> k > 0]

VARIABLES
    mQuit, state, rtmpAddr, jniRtmpPointer,
    frameQueue,    \* the deque, head first
    writeMsgNum,
    pc,            \* where run() is
    flvData,       \* the packet run() has popped: <<>> or <<packet>>
    visible,       \* the values the unlocked read of writeMsgNum may return
    caller,        \* how far the activity is in its calls
    food,          \* number of packets each producer has fed
    thrown,        \* producers whose sendFood ended in an exception
    opens,         \* connections the native client has made
    openConns,     \* those of them that are still open
    metaWritten,   \* metadata packets written
    wire,          \* audio and video packets given to RtmpClient.write
    lateWrites     \* calls of RtmpClient.write since mQuit was set

apiVars    == <<mQuit, rtmpAddr, caller>>
runVars    == <<jniRtmpPointer, pc, flvData>>
clientVars == <<opens, openConns, metaWritten, wire, lateWrites>>
prodVars   == <<food, thrown>>
vars == <<apiVars, state, frameQueue, writeMsgNum, visible,
          runVars, clientVars, prodVars>>

States == {"START", "RUNNING", "STOPPED"}
NoAddr == "none"
RunPc == {"unscheduled", "loop", "switch", "open", "meta", "running",
          "decremented", "decrement", "popped", "write", "close", "done"}
CallerPc == {"new", "started", "executed", "resetting", "stopped", "quit"}

Init ==
    /\ mQuit = FALSE /\ state = "START" /\ rtmpAddr = NoAddr
    /\ jniRtmpPointer = 0
    /\ frameQueue = <<>> /\ writeMsgNum = 0
    /\ pc = "unscheduled" /\ flvData = <<>> /\ visible = {}
    /\ caller = "new"
    /\ food = [t \in Tracks |-> 0] /\ thrown = {}
    /\ opens = 0 /\ openConns = {} /\ metaWritten = 0
    /\ wire = <<>> /\ lateWrites = 0

\* A write of writeMsgNum by another thread between run()'s own decrement
\* and its unlocked read is one of the values that read may return.
Publish(n) ==
    visible' = IF pc \in {"decremented", "popped"} THEN visible \union {n}
                                                   ELSE visible

--------------------------------------------------------------------------------
(* The activity's calls.                                                   *)

sendStart ==
    /\ caller = "new"
    /\ writeMsgNum' = 0
    /\ rtmpAddr' = "addr"
    /\ state' = "START"
    /\ caller' = "started"
    /\ UNCHANGED <<mQuit, frameQueue, visible, runVars, clientVars, prodVars>>

\* executorService.execute(streamingSender)
execute ==
    /\ caller = "started"
    /\ caller' = "executed"
    /\ pc' = "loop"
    /\ UNCHANGED <<mQuit, rtmpAddr, state, frameQueue, writeMsgNum, visible,
                   jniRtmpPointer, flvData, clientVars, prodVars>>

\* sendStop resets the counter under the lock ...
sendStopReset ==
    /\ caller = "executed"
    /\ caller' = "resetting"
    /\ writeMsgNum' = 0
    /\ Publish(0)
    /\ UNCHANGED <<mQuit, rtmpAddr, state, frameQueue, runVars, clientVars, prodVars>>

\* ... and sets the state after it has released the lock.
sendStopState ==
    /\ caller = "resetting"
    /\ caller' = "stopped"
    /\ state' = "STOPPED"
    /\ UNCHANGED <<mQuit, rtmpAddr, frameQueue, writeMsgNum, visible,
                   runVars, clientVars, prodVars>>

quit ==
    /\ caller = "stopped"
    /\ caller' = "quit"
    /\ mQuit' = TRUE
    /\ UNCHANGED <<rtmpAddr, state, frameQueue, writeMsgNum, visible,
                   runVars, clientVars, prodVars>>

--------------------------------------------------------------------------------
(* An encoder thread feeds its next packet.  LinkedBlockingDeque.add       *)
(* throws IllegalStateException on a full deque: the exception leaves      *)
(* sendFood before the counter is incremented and ends the producer.  A    *)
(* call that is already past the collector's test may land after quit.     *)

Room == Len(frameQueue) < MAX_QUEUE_CAPACITY

Enqueued_push(p) == <<p>> \o frameQueue
Enqueued(p) == Append(frameQueue, p)

Producing(t) == caller # "new" /\ t \notin thrown /\ food[t] < MaxFood

sendFood(t) ==
    /\ Producing(t)
    /\ food' = [food EXCEPT ![t] = @ + 1]
    /\ IF writeMsgNum <= maxQueueLength
         THEN IF Room
                THEN /\ frameQueue' = Enqueued(Packet(t, food[t]))
                     /\ writeMsgNum' = writeMsgNum + 1
                     /\ Publish(writeMsgNum + 1)
                     /\ UNCHANGED thrown
                ELSE /\ thrown' = thrown \union {t}
                     /\ UNCHANGED <<frameQueue, writeMsgNum, visible>>
         ELSE UNCHANGED <<frameQueue, writeMsgNum, visible, thrown>>
    /\ UNCHANGED <<apiVars, state, runVars, clientVars>>

--------------------------------------------------------------------------------
(* run(), one action per access to shared state.                           *)

\* while (!mQuit.get())
Leaving_drainFirst == mQuit /\ frameQueue = <<>>
Leaving_unlessStopped == mQuit /\ state # "STOPPED"
Leaving == mQuit

testQuit ==
    /\ pc = "loop"
    /\ pc' = IF Leaving THEN "close" ELSE "switch"
    /\ UNCHANGED <<apiVars, state, frameQueue, writeMsgNum, visible,
                   jniRtmpPointer, flvData, clientVars, prodVars>>

\* if (frameQueue.size() > 0) switch (state).  Only this thread removes
\* packets, so the two reads can be taken together.  Once STOPPED the case
\* always breaks: the close in it is dead code.
Pending_offByOne == Len(frameQueue) > 1
Pending == Len(frameQueue) > 0

switchState ==
    /\ pc = "switch"
    /\ pc' = IF ~Pending THEN "loop"
             ELSE CASE state = "START"   -> "open"
                    [] state = "RUNNING" -> "decrement"
                    [] state = "STOPPED" -> "loop"
    /\ UNCHANGED <<apiVars, state, frameQueue, writeMsgNum, visible,
                   jniRtmpPointer, flvData, clientVars, prodVars>>

\* RtmpClient.open: a fresh connection, or 0 when the server is not reached.
openRtmp ==
    /\ pc = "open"
    /\ IF rtmpAddr = NoAddr
         THEN pc' = "loop" /\ UNCHANGED <<jniRtmpPointer, opens, openConns>>
         ELSE \/ /\ jniRtmpPointer' = opens + 1
                 /\ opens' = opens + 1
                 /\ openConns' = openConns \union {opens + 1}
                 /\ pc' = "meta"
              \/ /\ jniRtmpPointer' = 0
                 /\ pc' = "loop"
                 /\ UNCHANGED <<opens, openConns>>
    /\ UNCHANGED <<apiVars, state, frameQueue, writeMsgNum, visible, flvData,
                   metaWritten, wire, lateWrites, prodVars>>

CountLate == lateWrites' = IF mQuit THEN lateWrites + 1 ELSE lateWrites

writeMetaData ==
    /\ pc = "meta"
    /\ metaWritten' = metaWritten + 1
    /\ CountLate
    /\ pc' = "running"
    /\ UNCHANGED <<apiVars, state, frameQueue, writeMsgNum, visible,
                   jniRtmpPointer, flvData, opens, openConns, wire, prodVars>>

\* state = STATE.RUNNING, whatever the activity stored there meanwhile
Connected_forgotten == state
Connected == "RUNNING"

setRunning ==
    /\ pc = "running"
    /\ state' = Connected
    /\ pc' = "loop"
    /\ UNCHANGED <<apiVars, frameQueue, writeMsgNum, visible,
                   jniRtmpPointer, flvData, clientVars, prodVars>>

Taken_notCounted == writeMsgNum
Taken == writeMsgNum - 1

decrement ==
    /\ pc = "decrement"
    /\ writeMsgNum' = Taken
    /\ visible' = {Taken}
    /\ pc' = "decremented"
    /\ UNCHANGED <<apiVars, state, frameQueue, jniRtmpPointer, flvData,
                   clientVars, prodVars>>

\* The second look at state, and frameQueue.pop()
recheckAndPop ==
    /\ pc = "decremented"
    /\ IF state = "RUNNING"
         THEN /\ flvData' = <<Head(frameQueue)>>
              /\ frameQueue' = Tail(frameQueue)
              /\ pc' = "popped"
              /\ UNCHANGED visible
         ELSE pc' = "loop" /\ visible' = {} /\ UNCHANGED <<flvData, frameQueue>>
    /\ UNCHANGED <<apiVars, state, writeMsgNum, jniRtmpPointer, clientVars, prodVars>>

Crowded(n) == n >= (maxQueueLength * 2) \div 3

Sheddable_anyVideo(p) == p.flvTagType = "video"
Sheddable(p) == p.flvTagType = "video" /\ p.droppable

\* A crowded queue costs the popped packet its place if it is video that
\* may be dropped.
abandonOrKeep ==
    /\ pc = "popped"
    /\ \E n \in visible :
          IF Crowded(n) /\ Sheddable(Head(flvData))
            THEN pc' = "loop" /\ flvData' = <<>>
            ELSE pc' = "write" /\ UNCHANGED flvData
    /\ visible' = {}
    /\ UNCHANGED <<apiVars, state, frameQueue, writeMsgNum, jniRtmpPointer,
                   clientVars, prodVars>>

\* RtmpClient.write; a result other than 0 is logged and otherwise ignored
writeFrame ==
    /\ pc = "write"
    /\ wire' = Append(wire, Head(flvData))
    /\ flvData' = <<>>
    /\ CountLate
    /\ pc' = "loop"
    /\ UNCHANGED <<apiVars, state, frameQueue, writeMsgNum, visible,
                   jniRtmpPointer, opens, openConns, metaWritten, prodVars>>

\* RtmpClient.close after the loop, on whatever jniRtmpPointer holds
closeRtmp ==
    /\ pc = "close"
    /\ openConns' = openConns \ {jniRtmpPointer}
    /\ pc' = "done"
    /\ UNCHANGED <<apiVars, state, frameQueue, writeMsgNum, visible,
                   jniRtmpPointer, flvData, opens, metaWritten, wire, lateWrites,
                   prodVars>>

run == \/ testQuit \/ switchState \/ openRtmp \/ writeMetaData \/ setRunning
       \/ decrement \/ recheckAndPop \/ abandonOrKeep \/ writeFrame \/ closeRtmp

Activity == sendStart \/ execute \/ sendStopReset \/ sendStopState \/ quit

Next == Activity \/ (\E t \in Tracks : sendFood(t)) \/ run

Spec == Init /\ [][Next]_vars

\* The executor's thread keeps running and the native calls return.
FairSpec == Spec /\ WF_vars(run)
--------------------------------------------------------------------------------
(* Properties.                                                             *)

\* Types and ranges.  The deque never holds more than its capacity.
TypeOK ==
    /\ mQuit \in BOOLEAN /\ state \in States /\ rtmpAddr \in {NoAddr, "addr"}
    /\ jniRtmpPointer \in Nat
    /\ frameQueue \in Seq(Packets) /\ Len(frameQueue) <= MAX_QUEUE_CAPACITY
    /\ writeMsgNum \in Int
    /\ pc \in RunPc /\ caller \in CallerPc
    /\ flvData \in Seq(Packets)
    /\ Len(flvData) = (IF pc \in {"popped", "write"} THEN 1 ELSE 0)
    /\ visible \in SUBSET Int
    /\ food \in [Tracks -> 0 .. MaxFood] /\ thrown \in SUBSET Tracks
    /\ opens \in Nat /\ openConns \in SUBSET Nat /\ metaWritten \in Nat
    /\ wire \in Seq(Packets) /\ lateWrites \in Nat

\* The packet run() has counted off but not popped yet.
Owed == IF pc = "decremented" THEN 1 ELSE 0

\* writeMsgNum is a second, separately locked account of the queue's length.
\* Until the activity stops the sender the two agree, but for the packet
\* run() has counted off and not yet popped; after the reset in sendStop
\* the counter only ever lags behind.  run() never pops an empty deque.
CounterTracksQueue ==
    /\ writeMsgNum <= Len(frameQueue) - Owed
    /\ caller \in {"new", "started", "executed"} =>
          writeMsgNum = Len(frameQueue) - Owed
    /\ pc \in {"decrement", "decremented"} => frameQueue # <<>>

\* sendFood's test "writeMsgNum <= maxQueueLength" is true in every state:
\* its else branch, which logs "senderQueue is full,abandon", cannot run.
AbandonUnreachable == writeMsgNum <= maxQueueLength

\* The native connection is used only while it is open, at most one is ever
\* open, and the one that is open is the one jniRtmpPointer names, so that
\* the close after the loop leaves none behind.
ConnectionOwned ==
    /\ openConns \subseteq {jniRtmpPointer}
    /\ pc \in {"meta", "write"} => jniRtmpPointer \in openConns
    /\ pc = "done" => openConns = {}

\* What a player needs of the stream: the metadata is written before any
\* media, and of each track the configuration record comes first and the
\* time stamps increase, whatever was shed, refused or lost to a stop.
TrackOrder ==
    /\ wire # <<>> => metaWritten = 1
    /\ \A j \in 1 .. Len(wire) :
          /\ wire[j].dts > 0 =>
                \E i \in 1 .. j - 1 : wire[i] = Packet(wire[j].flvTagType, 0)
          /\ \A i \in 1 .. j - 1 :
                wire[i].flvTagType = wire[j].flvTagType => wire[i].dts < wire[j].dts

\* After quit() the loop makes at most one more write, however sendStop and
\* quit fall between its steps and even when setRunning overwrites STOPPED.
OneLateWrite == lateWrites <= 1

\* The deque has room for every packet that sendFood decides to add: its
\* message "senderQueue is full,abandon" says a full queue costs the packet,
\* not the producer.
FullQueueAbandons == thrown = {}

\* The sender implements the bounded channel that skips only video packets
\* marked droppable.
Channel == INSTANCE FoodChannel
    WITH chan <- flvData \o frameQueue, out <- wire, Packets <- Packets,
         Expendable <- {p \in Packets : p.flvTagType = "video" /\ p.droppable},
         Depth <- MAX_QUEUE_CAPACITY + 1

ImplementsChannel == Channel!Spec

\* Once asked to quit, run() ends and the connection is closed.
QuitCloses == mQuit ~> (pc = "done" /\ openConns = {})

\* Once connected, what the producers have fed leaves the queue, unless the
\* activity stops the sender first.
ConnectedDrains ==
    (state = "RUNNING" /\ frameQueue # <<>>) ~>
        (frameQueue = <<>> \/ caller \in {"resetting", "stopped", "quit"})
================================================================================
