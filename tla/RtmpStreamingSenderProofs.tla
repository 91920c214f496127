----------------------- MODULE RtmpStreamingSenderProofs -----------------------
(***************************************************************************)
(* TLAPS proofs about RtmpStreamingSender, for every capacity of the deque *)
(* and every number of packets.  Each safety property is proved from an    *)
(* inductive invariant whose parts are kept apart, so that a proof cites   *)
(* only the part it needs:                                                 *)
(*   TypeOK -> Phases -> CounterTracksQueue -> AbandonUnreachable          *)
(*                    -> Connection         -> ConnectionOwned             *)
(*                    -> Late               -> OneLateWrite                *)
(*                    -> Meta, InLine       -> TrackOrder                  *)
(*   TypeOK /\ Phases /\ CounterTracksQueue -> ImplementsChannel           *)
(***************************************************************************)
EXTENDS RtmpStreamingSender, SequenceTheorems, TLAPS

--------------------------------------------------------------------------------
(* Facts about sequences of packets.                                       *)

\* Packet builds a record of the packet type: what sendFood adds is typed.
LEMMA PacketType ==
    ASSUME NEW t \in Tracks, NEW k \in 0 .. MaxFood
    PROVE  Packet(t, k) \in Packets
BY QueueAssumption DEF Packet, Packets

\* A sequence is empty exactly when its length, the deque's size(), is 0.
LEMMA EmptyLen ==
    ASSUME NEW q \in Seq(Packets)
    PROVE  /\ Len(q) \in Nat
           /\ q = <<>> <=> Len(q) = 0
BY EmptySeq

\* What the deque's pop leaves behind and returns, for a deque that is not
\* empty: the case in which run() reaches its pop.
LEMMA PopType ==
    ASSUME NEW q \in Seq(Packets), q # <<>>
    PROVE  /\ Tail(q) \in Seq(Packets)
           /\ Len(Tail(q)) = Len(q) - 1
           /\ Head(q) \in Packets
           /\ <<Head(q)>> \in Seq(Packets)
           /\ Len(<<Head(q)>>) = 1
           /\ Len(q) \in Nat \ {0}
BY EmptySeq, HeadTailProperties

\* run()'s local variable flvData as a sequence of one packet.
LEMMA SingleType ==
    ASSUME NEW q \in Seq(Packets), Len(q) = 1
    PROVE  /\ q # <<>>
           /\ Head(q) \in Packets
           /\ Tail(q) = <<>>
<1>1. q # <<>>
      <2>1. ASSUME q = <<>> PROVE Len(q) = 0
            BY <2>1
      <2>. QED  BY <2>1
<1>2. Tail(q) \in Seq(Packets) /\ Len(Tail(q)) = 0
      BY <1>1, PopType
<1>3. Tail(q) = <<>>
      BY <1>2, EmptyLen
<1>. QED  BY <1>1, <1>3, HeadTailProperties

\* The deque's add appends one packet.
LEMMA AddType ==
    ASSUME NEW q \in Seq(Packets), NEW p \in Packets
    PROVE  /\ Append(q, p) \in Seq(Packets)
           /\ Len(Append(q, p)) = Len(q) + 1
           /\ Append(q, p) # <<>>
           /\ Len(q) \in Nat
BY AppendProperties

--------------------------------------------------------------------------------
(* Type correctness needs two facts beyond the types: run() starts only    *)
(* when the activity hands the sender to the executor, and it pops only a  *)
(* deque that holds a packet.                                              *)

\* How far the activity is in its calls bounds what run() and the fields
\* may have reached.
Phases ==
    /\ pc = "unscheduled" <=> caller \in {"new", "started"}
    /\ caller = "new" => frameQueue = <<>>
    /\ caller \in {"new", "started"} => state = "START"
    /\ state = "STOPPED" => caller \in {"stopped", "quit"}
    /\ pc \in {"decrement", "decremented"} => state # "START"

\* run() is between its test of the deque's size and the pop.
PopReady == pc \in {"decrement", "decremented"} => frameQueue # <<>>

TypeInv == TypeOK /\ Phases /\ PopReady

\* A packet fed by sendFood, which either enters the deque or leaves all but
\* the producer's own account alone, keeps the types.
LEMMA SendFoodType ==
    ASSUME TypeInv, NEW t \in Tracks, sendFood(t)
    PROVE  TypeInv'
<1>1. food[t] \in 0 .. MaxFood /\ food[t] + 1 \in 0 .. MaxFood
      BY QueueAssumption DEF TypeInv, TypeOK, sendFood, Producing
<1>2. food' \in [Tracks -> 0 .. MaxFood]
      BY <1>1 DEF TypeInv, TypeOK, sendFood
<1>3. Packet(t, food[t]) \in Packets
      BY <1>1, PacketType
<1>4. /\ frameQueue' \in Seq(Packets)
      /\ Len(frameQueue') <= MAX_QUEUE_CAPACITY
      /\ writeMsgNum' \in Int /\ visible' \in SUBSET Int
      /\ thrown' \in SUBSET Tracks
      /\ PopReady' /\ Phases'
      <2>. USE QueueAssumption DEF TypeInv, TypeOK, PopReady, Phases, Producing,
                                   runVars, apiVars
      <2>1. CASE writeMsgNum <= maxQueueLength /\ Room
            <3>1. /\ frameQueue' = Append(frameQueue, Packet(t, food[t]))
                  /\ writeMsgNum' = writeMsgNum + 1
                  /\ visible' \in {visible, visible \union {writeMsgNum + 1}}
                  /\ UNCHANGED <<thrown, apiVars, runVars, state>>
                  BY <2>1 DEF sendFood, Enqueued, Publish
            <3>2. /\ frameQueue' \in Seq(Packets)
                  /\ frameQueue' # <<>>
                  /\ Len(frameQueue') = Len(frameQueue) + 1
                  BY <1>3, <3>1, AddType
            <3>3. caller # "new"
                  BY DEF sendFood
            <3>. QED  BY <2>1, <3>1, <3>2, <3>3 DEF Room
      <2>2. CASE ~(writeMsgNum <= maxQueueLength /\ Room)
            BY <2>2 DEF sendFood
      <2>. QED  BY <2>1, <2>2
<1>. QED  BY <1>2, <1>4 DEF TypeInv, TypeOK, sendFood, apiVars, runVars, clientVars

\* The types, and that run() never pops an empty deque, are inductive: every
\* step of the activity, of an encoder and of run() preserves them.
LEMMA TypeStep == TypeInv /\ [Next]_vars => TypeInv'
<1>. SUFFICES ASSUME TypeInv, [Next]_vars
              PROVE  TypeInv'
     OBVIOUS
<1>. USE DEF TypeInv, PopReady, Phases, TypeOK, apiVars, runVars, clientVars, prodVars,
             States, RunPc, CallerPc, NoAddr
<1>1. CASE sendStart
      BY <1>1 DEF sendStart
<1>2. CASE execute
      BY <1>2 DEF execute
<1>3. CASE sendStopReset
      BY <1>3 DEF sendStopReset, Publish
<1>4. CASE sendStopState
      BY <1>4 DEF sendStopState
<1>5. CASE quit
      BY <1>5 DEF quit
<1>6. CASE \E t \in Tracks : sendFood(t)
      BY <1>6, SendFoodType
<1>7. CASE testQuit
      BY <1>7 DEF testQuit
<1>8. CASE switchState
      BY <1>8, EmptySeq DEF switchState, Pending
<1>9. CASE openRtmp
      <2>1. /\ jniRtmpPointer' \in Nat /\ opens' \in Nat
            /\ openConns' \in SUBSET Nat /\ pc' \in {"loop", "meta"}
            <3>1. opens + 1 \in Nat /\ openConns \union {opens + 1} \in SUBSET Nat
                  OBVIOUS
            <3>2. CASE rtmpAddr = NoAddr
                  BY <1>9, <3>2 DEF openRtmp
            <3>3. CASE rtmpAddr # NoAddr
                  <4>1. \/ /\ jniRtmpPointer' = opens + 1
                           /\ opens' = opens + 1
                           /\ openConns' = openConns \union {opens + 1}
                           /\ pc' = "meta"
                        \/ /\ jniRtmpPointer' = 0 /\ pc' = "loop"
                           /\ opens' = opens /\ openConns' = openConns
                        BY <1>9, <3>3 DEF openRtmp
                  <4>2. openConns' \in SUBSET Nat
                        BY <3>1, <4>1
                  <4>. QED  BY <3>1, <4>1, <4>2
            <3>. QED  BY <3>2, <3>3
      <2>. QED  BY <1>9, <2>1 DEF openRtmp
<1>10. CASE writeMetaData
      BY <1>10 DEF writeMetaData, CountLate
<1>11. CASE setRunning
      BY <1>11 DEF setRunning, Connected
<1>12. CASE decrement
      BY <1>12 DEF decrement, Taken
<1>13. CASE recheckAndPop
      <2>1. /\ frameQueue' \in Seq(Packets)
            /\ Len(frameQueue') <= MAX_QUEUE_CAPACITY
            /\ flvData' \in Seq(Packets)
            /\ Len(flvData') = (IF pc' = "popped" THEN 1 ELSE 0)
            /\ pc' \in {"popped", "loop"}
            /\ visible' \in SUBSET Int
            <3>1. CASE state = "RUNNING"
                  <4>1. frameQueue # <<>> /\ frameQueue \in Seq(Packets)
                        BY <1>13 DEF recheckAndPop
                  <4>2. /\ flvData' = <<Head(frameQueue)>>
                        /\ frameQueue' = Tail(frameQueue)
                        /\ pc' = "popped" /\ visible' = visible
                        BY <1>13, <3>1 DEF recheckAndPop
                  <4>. QED  BY <4>1, <4>2, PopType, QueueAssumption
            <3>2. CASE state # "RUNNING"
                  BY <1>13, <3>2 DEF recheckAndPop
            <3>. QED  BY <3>1, <3>2
      <2>. QED  BY <1>13, <2>1 DEF recheckAndPop
<1>14. CASE abandonOrKeep
      BY <1>14, EmptySeq DEF abandonOrKeep
<1>15. CASE writeFrame
      <2>1. Head(flvData) \in Packets
            BY <1>15, SingleType DEF writeFrame
      <2>. QED  BY <1>15, <2>1, EmptySeq, AddType DEF writeFrame, CountLate
<1>16. CASE closeRtmp
      BY <1>16 DEF closeRtmp
<1>17. CASE UNCHANGED vars
      BY <1>17 DEF vars
<1>. QED  BY <1>1, <1>2, <1>3, <1>4, <1>5, <1>6, <1>7, <1>8, <1>9, <1>10, <1>11,
             <1>12, <1>13, <1>14, <1>15, <1>16, <1>17 DEF Next, Activity, run

LEMMA TypeInit == Init => TypeInv
<1>. SUFFICES ASSUME Init PROVE TypeInv
     OBVIOUS
<1>1. <<>> \in Seq(Packets) /\ Len(<<>>) = 0
      BY EmptySeq
<1>2. food \in [Tracks -> 0 .. MaxFood]
      BY QueueAssumption DEF Init
<1>3. Phases /\ PopReady
      BY DEF Init, Phases, PopReady
<1>4. TypeOK
      <2>1. /\ mQuit \in BOOLEAN
            /\ visible \in SUBSET Int /\ thrown \in SUBSET Tracks
            /\ openConns \in SUBSET Nat
            BY DEF Init
      <2>2. /\ frameQueue \in Seq(Packets) /\ flvData \in Seq(Packets)
            /\ wire \in Seq(Packets)
            BY <1>1 DEF Init
      <2>3. /\ Len(frameQueue) <= MAX_QUEUE_CAPACITY
            /\ Len(flvData) = (IF pc \in {"popped", "write"} THEN 1 ELSE 0)
            BY QueueAssumption DEF Init
      <2>4. /\ state \in States /\ rtmpAddr \in {NoAddr, "addr"}
            /\ pc \in RunPc /\ caller \in CallerPc
            /\ jniRtmpPointer \in Nat /\ writeMsgNum \in Int /\ opens \in Nat
            /\ metaWritten \in Nat /\ lateWrites \in Nat
            BY DEF Init, States, RunPc, CallerPc
      <2>. QED  BY <1>2, <2>1, <2>2, <2>3, <2>4 DEF TypeOK
<1>. QED  BY <1>3, <1>4 DEF TypeInv

\* The sender is type correct and its deque never exceeds its capacity.
THEOREM TypeCorrect == Spec => []TypeOK
<1>1. Spec => []TypeInv
      BY TypeInit, TypeStep, PTL DEF Spec
<1>2. TypeInv => TypeOK
      BY DEF TypeInv
<1>. QED  BY <1>1, <1>2, PTL

--------------------------------------------------------------------------------
(* The counter and the deque.                                              *)

\* Every step keeps writeMsgNum in step with the deque.
LEMMA CounterStep ==
    TypeInv /\ CounterTracksQueue /\ [Next]_vars => CounterTracksQueue'
<1>. SUFFICES ASSUME TypeInv, CounterTracksQueue, [Next]_vars
              PROVE  CounterTracksQueue'
     OBVIOUS
<1>0. /\ writeMsgNum \in Int /\ frameQueue \in Seq(Packets)
      /\ Len(frameQueue) \in Nat /\ pc \in RunPc
      /\ pc \in {"decrement", "decremented"} => frameQueue # <<>>
      BY EmptyLen DEF TypeInv, TypeOK, PopReady
<1>a. PopReady'
      BY TypeStep DEF TypeInv
<1>. USE DEF CounterTracksQueue, Owed, PopReady, apiVars, runVars
<1>1. CASE sendStart
      <2>1. Len(frameQueue) = 0 /\ pc = "unscheduled"
            BY <1>1, EmptyLen DEF sendStart, TypeInv, TypeOK, Phases
      <2>. QED  BY <1>1, <1>a, <2>1 DEF sendStart
<1>2. CASE execute
      <2>1. pc = "unscheduled"
            BY <1>2 DEF execute, TypeInv, Phases
      <2>. QED  BY <1>0, <1>2, <1>a, <2>1 DEF execute
<1>3. CASE sendStopReset
      <2>1. 0 <= Len(frameQueue) - Owed
            BY <1>0, EmptyLen
      <2>. QED  BY <1>3, <1>a, <2>1 DEF sendStopReset
<1>4. CASE sendStopState
      BY <1>4, <1>a DEF sendStopState
<1>5. CASE quit
      BY <1>5, <1>a DEF quit
<1>6. ASSUME NEW t \in Tracks, sendFood(t) PROVE CounterTracksQueue'
      <2>1. UNCHANGED <<pc, caller>>
            BY <1>6 DEF sendFood
      <2>2. CASE writeMsgNum <= maxQueueLength /\ Room
            <3>1. food[t] \in 0 .. MaxFood
                  BY DEF TypeInv, TypeOK
            <3>2. /\ Len(frameQueue') = Len(frameQueue) + 1
                  /\ writeMsgNum' = writeMsgNum + 1
                  BY <1>0, <1>6, <2>2, <3>1, PacketType, AddType DEF sendFood, Enqueued
            <3>. QED  BY <1>0, <1>a, <2>1, <3>2
      <2>3. CASE ~(writeMsgNum <= maxQueueLength /\ Room)
            BY <1>6, <1>a, <2>1, <2>3 DEF sendFood
      <2>. QED  BY <2>2, <2>3
<1>7. CASE testQuit
      BY <1>7, <1>a DEF testQuit
<1>8. CASE switchState
      BY <1>8, <1>a DEF switchState, TypeInv, TypeOK, States
<1>9. CASE openRtmp
      BY <1>9, <1>a DEF openRtmp
<1>10. CASE writeMetaData
      BY <1>10, <1>a DEF writeMetaData
<1>11. CASE setRunning
      BY <1>11, <1>a DEF setRunning
<1>12. CASE decrement
      BY <1>0, <1>12, <1>a DEF decrement, Taken
<1>13. CASE recheckAndPop
      <2>1. frameQueue # <<>>
            BY <1>0, <1>13 DEF recheckAndPop
      <2>2. Len(Tail(frameQueue)) = Len(frameQueue) - 1
            BY <1>0, <2>1, PopType
      <2>3. CASE state = "RUNNING"
            <3>1. /\ pc = "decremented" /\ pc' = "popped"
                  /\ Len(frameQueue') = Len(frameQueue) - 1
                  /\ writeMsgNum' = writeMsgNum /\ caller' = caller
                  BY <1>13, <2>2, <2>3 DEF recheckAndPop
            <3>. QED  BY <1>0, <1>a, <3>1
      <2>4. CASE state # "RUNNING"
            <3>1. caller \in {"stopped", "quit"}
                  BY <1>13, <2>4 DEF recheckAndPop, TypeInv, TypeOK, Phases, States
            <3>. QED  BY <1>0, <1>13, <1>a, <2>4, <3>1 DEF recheckAndPop
      <2>. QED  BY <2>3, <2>4
<1>14. CASE abandonOrKeep
      BY <1>14, <1>a DEF abandonOrKeep
<1>15. CASE writeFrame
      BY <1>15, <1>a DEF writeFrame
<1>16. CASE closeRtmp
      BY <1>16, <1>a DEF closeRtmp
<1>17. CASE UNCHANGED vars
      BY <1>17, <1>a DEF vars
<1>. QED  BY <1>1, <1>2, <1>3, <1>4, <1>5, <1>6, <1>7, <1>8, <1>9, <1>10, <1>11,
             <1>12, <1>13, <1>14, <1>15, <1>16, <1>17 DEF Next, Activity, run

LEMMA CounterInit == Init => CounterTracksQueue
BY DEF Init, CounterTracksQueue, Owed

\* writeMsgNum and the deque agree until sendStop resets the counter, which
\* only lags behind after it, and run() never pops an empty deque.
THEOREM CounterCorrect == Spec => []CounterTracksQueue
<1>1. Init => TypeInv /\ CounterTracksQueue
      BY TypeInit, CounterInit
<1>2. TypeInv /\ CounterTracksQueue /\ [Next]_vars
         => (TypeInv /\ CounterTracksQueue)'
      BY TypeStep, CounterStep
<1>. QED  BY <1>1, <1>2, PTL DEF Spec

\* The else branch of sendFood is dead code: the deque throws first.
THEOREM AbandonIsDead == Spec => []AbandonUnreachable
<1>1. TypeOK /\ CounterTracksQueue => AbandonUnreachable
      <2>. SUFFICES ASSUME TypeOK, CounterTracksQueue
                    PROVE  AbandonUnreachable
           OBVIOUS
      <2>1. Len(frameQueue) \in Nat /\ Owed \in {0, 1}
            BY EmptyLen DEF TypeOK, Owed
      <2>. QED  BY <2>1, QueueAssumption
                DEF TypeOK, CounterTracksQueue, AbandonUnreachable
<1>. QED  BY <1>1, TypeCorrect, CounterCorrect, PTL

--------------------------------------------------------------------------------
(* The connection.                                                         *)

\* Where run() holds a connection and where it has none.  ConnectionOwned is
\* not inductive: that a STOPPED overwritten by setRunning does no harm rests
\* on the connection being open in every RUNNING state until run() ends.
Connection ==
    /\ openConns \subseteq {jniRtmpPointer}
    /\ pc \in {"meta", "running", "decrement", "decremented", "popped", "write"}
          => jniRtmpPointer \in openConns
    /\ state = "RUNNING" /\ pc # "done" => jniRtmpPointer \in openConns
    /\ state = "START" /\ pc \notin {"meta", "running"} => openConns = {}
    /\ pc \in {"open", "done"} => openConns = {}

LEMMA ConnectionStep == TypeInv /\ Connection /\ [Next]_vars => Connection'
<1>. SUFFICES ASSUME TypeInv, Connection, [Next]_vars
              PROVE  Connection'
     OBVIOUS
<1>0. pc \in RunPc /\ state \in States /\ Phases
      BY DEF TypeInv, TypeOK
<1>. USE DEF Connection, apiVars, runVars, clientVars
<1>1. CASE sendStart
      BY <1>0, <1>1 DEF sendStart, Phases
<1>2. CASE execute
      BY <1>0, <1>2 DEF execute, Phases
<1>3. CASE sendStopReset
      BY <1>3 DEF sendStopReset
<1>4. CASE sendStopState
      BY <1>4 DEF sendStopState
<1>5. CASE quit
      BY <1>5 DEF quit
<1>6. CASE \E t \in Tracks : sendFood(t)
      BY <1>6 DEF sendFood
<1>7. CASE testQuit
      BY <1>7 DEF testQuit
<1>8. CASE switchState
      BY <1>0, <1>8 DEF switchState, States
<1>9. CASE openRtmp
      <2>1. openConns = {}
            BY <1>9 DEF openRtmp
      <2>2. CASE rtmpAddr = NoAddr
            BY <1>9, <2>2 DEF openRtmp
      <2>3. CASE rtmpAddr # NoAddr
            BY <1>0, <1>9, <2>1, <2>3 DEF openRtmp, States
      <2>. QED  BY <2>2, <2>3
<1>10. CASE writeMetaData
      BY <1>10 DEF writeMetaData
<1>11. CASE setRunning
      BY <1>11 DEF setRunning, Connected
<1>12. CASE decrement
      BY <1>12 DEF decrement
<1>13. CASE recheckAndPop
      BY <1>0, <1>13 DEF recheckAndPop, Phases
<1>14. CASE abandonOrKeep
      BY <1>14 DEF abandonOrKeep
<1>15. CASE writeFrame
      BY <1>15 DEF writeFrame
<1>16. CASE closeRtmp
      BY <1>16 DEF closeRtmp
<1>17. CASE UNCHANGED vars
      BY <1>17 DEF vars
<1>. QED  BY <1>1, <1>2, <1>3, <1>4, <1>5, <1>6, <1>7, <1>8, <1>9, <1>10, <1>11,
             <1>12, <1>13, <1>14, <1>15, <1>16, <1>17 DEF Next, Activity, run

\* run() writes only to an open connection, holds at most one, and leaves
\* none open when it ends.
THEOREM ConnectionSafe == Spec => []ConnectionOwned
<1>1. Init => TypeInv /\ Connection
      BY TypeInit DEF Init, Connection
<1>2. TypeInv /\ Connection /\ [Next]_vars => (TypeInv /\ Connection)'
      BY TypeStep, ConnectionStep
<1>3. Connection => ConnectionOwned
      BY DEF Connection, ConnectionOwned
<1>. QED  BY <1>1, <1>2, <1>3, PTL DEF Spec

--------------------------------------------------------------------------------
(* After quit().                                                           *)

\* Only the round of the loop that quit() caught can still write: every place
\* before a write was reached through a test that found mQuit false.
Late ==
    /\ lateWrites \in {0, 1}
    /\ ~mQuit => lateWrites = 0
    /\ pc \in {"switch", "open", "meta", "decrement", "decremented", "popped", "write"}
          => lateWrites = 0

LEMMA LateStep == TypeInv /\ Late /\ [Next]_vars => Late'
<1>. SUFFICES ASSUME TypeInv, Late, [Next]_vars
              PROVE  Late'
     OBVIOUS
<1>0. pc \in RunPc /\ mQuit \in BOOLEAN /\ state \in States
      BY DEF TypeInv, TypeOK
<1>. USE DEF Late, apiVars, runVars, clientVars
<1>1. CASE sendStart
      BY <1>1 DEF sendStart
<1>2. CASE execute
      BY <1>2 DEF execute
<1>3. CASE sendStopReset
      BY <1>3 DEF sendStopReset
<1>4. CASE sendStopState
      BY <1>4 DEF sendStopState
<1>5. CASE quit
      BY <1>5 DEF quit
<1>6. CASE \E t \in Tracks : sendFood(t)
      BY <1>6 DEF sendFood
<1>7. CASE testQuit
      BY <1>0, <1>7 DEF testQuit, Leaving
<1>8. CASE switchState
      BY <1>0, <1>8 DEF switchState, States
<1>9. CASE openRtmp
      BY <1>9 DEF openRtmp
<1>10. CASE writeMetaData
      BY <1>0, <1>10 DEF writeMetaData, CountLate
<1>11. CASE setRunning
      BY <1>11 DEF setRunning
<1>12. CASE decrement
      BY <1>12 DEF decrement
<1>13. CASE recheckAndPop
      BY <1>13 DEF recheckAndPop
<1>14. CASE abandonOrKeep
      BY <1>14 DEF abandonOrKeep
<1>15. CASE writeFrame
      BY <1>0, <1>15 DEF writeFrame, CountLate
<1>16. CASE closeRtmp
      BY <1>16 DEF closeRtmp
<1>17. CASE UNCHANGED vars
      BY <1>17 DEF vars
<1>. QED  BY <1>1, <1>2, <1>3, <1>4, <1>5, <1>6, <1>7, <1>8, <1>9, <1>10, <1>11,
             <1>12, <1>13, <1>14, <1>15, <1>16, <1>17 DEF Next, Activity, run

\* At most one write reaches the connection after quit().
THEOREM LateWrites == Spec => []OneLateWrite
<1>1. Init => TypeInv /\ Late
      BY TypeInit DEF Init, Late
<1>2. TypeInv /\ Late /\ [Next]_vars => (TypeInv /\ Late)'
      BY TypeStep, LateStep
<1>3. Late => OneLateWrite
      BY DEF Late, OneLateWrite
<1>. QED  BY <1>1, <1>2, <1>3, PTL DEF Spec

--------------------------------------------------------------------------------
(* Refinement: the deque and the popped packet together are the channel.   *)

\* run() taking the first packet of the deque into its hand does not change
\* the channel.
LEMMA PopStutters ==
    ASSUME NEW q \in Seq(Packets), q # <<>>
    PROVE  <<Head(q)>> \o Tail(q) = <<>> \o q
BY ConcatSimplifications, HeadTailProperties

\* Removing the packet run() has in its hand leaves the deque.
LEMMA HandConcat ==
    ASSUME NEW q \in Seq(Packets), Len(q) = 1, NEW r \in Seq(Packets)
    PROVE  /\ q \o r # <<>>
           /\ Head(q \o r) = Head(q)
           /\ Tail(q \o r) = <<>> \o r
<1>1. /\ q \o r \in Seq(Packets)
      /\ Len(q \o r) = 1 + Len(r) /\ Len(r) \in Nat
      /\ \A i \in 1 .. 1 + Len(r) : (q \o r)[i] = IF i <= 1 THEN q[i] ELSE r[i - 1]
      <2>1. /\ q \o r \in Seq(Packets)
            /\ Len(q \o r) = Len(q) + Len(r)
            /\ \A i \in 1 .. Len(q) + Len(r) :
                  (q \o r)[i] = IF i <= Len(q) THEN q[i] ELSE r[i - Len(q)]
            BY ConcatProperties
      <2>2. Len(r) \in Nat
            BY EmptyLen
      <2>. QED  BY <2>1, <2>2
<1>2. q \o r # <<>>
      BY <1>1, EmptyLen
<1>3. Head(q \o r) = Head(q)
      BY <1>1, <1>2, SingleType
<1>4. /\ Tail(q \o r) \in Seq(Packets) /\ Len(Tail(q \o r)) = Len(r)
      /\ \A i \in 1 .. Len(r) : Tail(q \o r)[i] = r[i]
      <2>1. /\ Tail(q \o r) \in Seq(Packets) /\ Len(Tail(q \o r)) = Len(q \o r) - 1
            /\ \A i \in 1 .. Len(Tail(q \o r)) : Tail(q \o r)[i] = (q \o r)[i + 1]
            BY <1>1, <1>2, HeadTailProperties
      <2>2. Len(Tail(q \o r)) = Len(r)
            BY <1>1, <2>1
      <2>3. ASSUME NEW i \in 1 .. Len(r) PROVE Tail(q \o r)[i] = r[i]
            <3>1. i + 1 \in 1 .. 1 + Len(r) /\ ~(i + 1 <= 1) /\ (i + 1) - 1 = i
                  BY <1>1
            <3>2. (q \o r)[i + 1] = r[(i + 1) - 1]
                  BY <1>1, <3>1
            <3>. QED  BY <2>1, <2>2, <3>1, <3>2
      <2>. QED  BY <2>1, <2>2, <2>3
<1>5. Tail(q \o r) = r
      BY <1>4, SeqEqual
<1>. QED  BY <1>2, <1>3, <1>5, ConcatEmptySeq

\* Every step of the sender is a step of the channel or leaves it alone.
LEMMA ChannelStep ==
    TypeInv /\ [Next]_vars => [Channel!Next]_(Channel!chanVars)
<1>. SUFFICES ASSUME TypeInv, [Next]_vars
              PROVE  [Channel!Next]_(Channel!chanVars)
     OBVIOUS
<1>0. /\ frameQueue \in Seq(Packets) /\ flvData \in Seq(Packets)
      /\ Len(frameQueue) \in Nat /\ Len(flvData) \in Nat
      /\ Len(flvData) = (IF pc \in {"popped", "write"} THEN 1 ELSE 0)
      BY EmptyLen DEF TypeInv, TypeOK
<1>. USE DEF apiVars, runVars, clientVars, prodVars
<1>1. CASE UNCHANGED <<flvData, frameQueue, wire>>
      BY <1>1 DEF Channel!chanVars
<1>2. ASSUME NEW t \in Tracks, sendFood(t)
      PROVE  [Channel!Next]_(Channel!chanVars)
      <2>1. CASE writeMsgNum <= maxQueueLength /\ Room
            <3> DEFINE p == Packet(t, food[t])
            <3>1. p \in Packets
                  BY PacketType DEF TypeInv, TypeOK
            <3>2. /\ frameQueue' = Append(frameQueue, p)
                  /\ UNCHANGED <<flvData, wire>>
                  BY <1>2, <2>1 DEF sendFood, Enqueued
            <3>3. flvData' \o frameQueue' = Append(flvData \o frameQueue, p)
                  BY <1>0, <3>1, <3>2
            <3>4. Len(flvData \o frameQueue) < MAX_QUEUE_CAPACITY + 1
                  <4>1. Len(flvData \o frameQueue) = Len(flvData) + Len(frameQueue)
                        BY <1>0, ConcatProperties
                  <4>2. Len(flvData) <= 1
                        BY <1>0
                  <4>. QED  BY <1>0, <2>1, <4>1, <4>2, QueueAssumption DEF Room
            <3>. QED  BY <3>1, <3>2, <3>3, <3>4 DEF Channel!Next, Channel!Accept
      <2>2. CASE ~(writeMsgNum <= maxQueueLength /\ Room)
            BY <1>1, <1>2, <2>2 DEF sendFood
      <2>. QED  BY <2>1, <2>2
<1>3. CASE recheckAndPop
      <2>1. CASE state = "RUNNING"
            <3>1. frameQueue # <<>> /\ flvData = <<>>
                  BY <1>0, <1>3, EmptyLen DEF recheckAndPop, TypeInv, PopReady
            <3>2. flvData' \o frameQueue' = flvData \o frameQueue
                  BY <1>0, <1>3, <2>1, <3>1, PopStutters DEF recheckAndPop
            <3>. QED  BY <1>3, <3>2 DEF recheckAndPop, Channel!chanVars
      <2>2. CASE state # "RUNNING"
            BY <1>1, <1>3, <2>2 DEF recheckAndPop
      <2>. QED  BY <2>1, <2>2
<1>4. ASSUME pc \in {"popped", "write"}
      PROVE  /\ flvData \o frameQueue # <<>>
             /\ Head(flvData \o frameQueue) = Head(flvData)
             /\ Tail(flvData \o frameQueue) = <<>> \o frameQueue
             /\ Head(flvData) \in Packets
      <2>1. Len(flvData) = 1
            BY <1>0, <1>4
      <2>2. Head(flvData) \in Packets /\ Tail(flvData) = <<>> /\ flvData # <<>>
            BY <1>0, <2>1, SingleType
      <2>. QED  BY <1>0, <2>1, <2>2, HandConcat
<1>5. CASE abandonOrKeep
      <2>1. CASE flvData' = flvData
            BY <1>1, <1>5, <2>1 DEF abandonOrKeep
      <2>2. CASE flvData' # flvData
            <3>1. /\ flvData' = <<>> /\ Sheddable(Head(flvData))
                  /\ UNCHANGED <<frameQueue, wire>> /\ pc = "popped"
                  BY <1>5, <2>2 DEF abandonOrKeep
            <3>. QED  BY <1>4, <3>1 DEF Channel!Next, Channel!Skip, Sheddable
      <2>. QED  BY <2>1, <2>2
<1>6. CASE writeFrame
      BY <1>4, <1>6 DEF writeFrame, Channel!Next, Channel!Deliver
<1>. QED
     BY <1>1, <1>2, <1>3, <1>5, <1>6
     DEF Next, Activity, run, vars, sendStart, execute, sendStopReset, sendStopState,
         quit, testQuit, switchState, openRtmp, writeMetaData, setRunning,
         decrement, closeRtmp

\* The sender implements the bounded channel: accepted packets leave in the
\* order of their arrival and only droppable video is ever skipped.
THEOREM ChannelRefined == Spec => ImplementsChannel
<1>1. Init => Channel!Init
      BY DEF Init, Channel!Init
<1>2. Spec => []TypeInv
      BY TypeInit, TypeStep, PTL DEF Spec
<1>. QED  BY <1>1, <1>2, ChannelStep, PTL DEF Spec, ImplementsChannel, Channel!Spec

--------------------------------------------------------------------------------
(* The order of the stream.  TrackOrder speaks of the wire only; what makes *)
(* it inductive is that the packets on the wire, the one in run()'s hand   *)
(* and those in the deque form one line, in which each track's packets are *)
(* in order and the track's configuration record is never missing: it is   *)
(* the first packet fed, a producer that could not place it is dead, and   *)
(* shedding passes over it.                                                *)

Increasing(s) ==
    \A i, j \in 1 .. Len(s) :
       i < j /\ s[i].flvTagType = s[j].flvTagType => s[i].dts < s[j].dts

\* The packets are ones that the producers, whose accounts are f, have fed.
Numbered(s, f) ==
    \A i \in 1 .. Len(s) :
       /\ s[i] = Packet(s[i].flvTagType, s[i].dts)
       /\ s[i].dts < f[s[i].flvTagType]

\* The configuration record of track t is on the wire w or in the channel c.
Has(w, c, t) ==
    \/ \E i \in 1 .. Len(w) : w[i] = Packet(t, 0)
    \/ \E i \in 1 .. Len(c) : c[i] = Packet(t, 0)

Line(w, c, f, th) ==
    /\ Increasing(w) /\ Increasing(c)
    /\ \A i \in 1 .. Len(w), j \in 1 .. Len(c) :
          w[i].flvTagType = c[j].flvTagType => w[i].dts < c[j].dts
    /\ Numbered(w, f) /\ Numbered(c, f)
    /\ \A i \in 1 .. Len(w) : Has(w, c, w[i].flvTagType)
    /\ \A i \in 1 .. Len(c) : Has(w, c, c[i].flvTagType)
    /\ \A t \in Tracks : f[t] > 0 /\ t \notin th => Has(w, c, t)

Accounts == [Tracks -> 0 .. MaxFood]

\* The elements of a sequence are packets; Append and Tail by their elements.
LEMMA ElementType ==
    ASSUME NEW s \in Seq(Packets), NEW i \in 1 .. Len(s)
    PROVE  s[i].flvTagType \in Tracks /\ s[i].dts \in Nat /\ s[i] \in Packets
<1>1. s[i] \in Packets
      OBVIOUS
<1>2. \A p \in Packets : p.flvTagType \in Tracks /\ p.dts \in 0 .. MaxFood
      BY DEF Packets
<1>. QED  BY <1>1, <1>2, QueueAssumption

LEMMA AppendElements ==
    ASSUME NEW s \in Seq(Packets), NEW p \in Packets
    PROVE  /\ Append(s, p) \in Seq(Packets) /\ Len(Append(s, p)) = Len(s) + 1
           /\ Append(s, p)[Len(s) + 1] = p /\ Len(s) \in Nat
           /\ \A i \in 1 .. Len(s) : Append(s, p)[i] = s[i]
BY AppendProperties

LEMMA TailElements ==
    ASSUME NEW s \in Seq(Packets), s # <<>>
    PROVE  /\ Tail(s) \in Seq(Packets) /\ Len(Tail(s)) = Len(s) - 1
           /\ Len(s) \in Nat \ {0} /\ Head(s) = s[1] /\ Head(s) \in Packets
           /\ \A i \in 1 .. Len(s) - 1 : Tail(s)[i] = s[i + 1]
BY PopType, HeadTailProperties

\* A producer's next packet closes the line.
LEMMA AcceptedLine ==
    ASSUME NEW w \in Seq(Packets), NEW c \in Seq(Packets), NEW f \in Accounts, NEW th,
           NEW t \in Tracks, t \notin th, Line(w, c, f, th)
    PROVE  Line(w, Append(c, Packet(t, f[t])), [f EXCEPT ![t] = f[t] + 1], th)
<1>. DEFINE p == Packet(t, f[t])
            d == Append(c, p)
            g == [f EXCEPT ![t] = f[t] + 1]
            n == Len(c)
<1>0. /\ f[t] \in Nat /\ \A u \in Tracks : g[u] = (IF u = t THEN f[u] + 1 ELSE f[u]) /\ f[u] \in Nat
      BY QueueAssumption DEF Accounts
<1>1. p \in Packets /\ p.flvTagType = t /\ p.dts = f[t] /\ p = Packet(p.flvTagType, p.dts)
      BY PacketType DEF Accounts, Packet
<1>. HIDE DEF p
<1>2. /\ d \in Seq(Packets) /\ Len(d) = n + 1 /\ d[n + 1] = p /\ n \in Nat
      /\ \A i \in 1 .. n : d[i] = c[i]
      BY <1>1, AppendElements
<1>. HIDE DEF d, g, n
<1>3. /\ Increasing(w) /\ Increasing(c) /\ Numbered(w, f) /\ Numbered(c, f)
      /\ \A i \in 1 .. Len(w), j \in 1 .. n :
            w[i].flvTagType = c[j].flvTagType => w[i].dts < c[j].dts
      /\ \A i \in 1 .. Len(w) : Has(w, c, w[i].flvTagType)
      /\ \A i \in 1 .. n : Has(w, c, c[i].flvTagType)
      /\ \A u \in Tracks : f[u] > 0 /\ u \notin th => Has(w, c, u)
      BY DEF Line, n
<1>4. \A i \in 1 .. n + 1 : i \in 1 .. n \/ i = n + 1
      BY <1>2
<1>5. \A i \in 1 .. n : c[i].flvTagType \in Tracks /\ c[i].dts \in Nat
      BY ElementType DEF n
<1>6. \A i \in 1 .. Len(w) : w[i].flvTagType \in Tracks /\ w[i].dts \in Nat
      BY ElementType
<1>7. Increasing(d)
      <2>1. ASSUME NEW i \in 1 .. n + 1, NEW j \in 1 .. n + 1, i < j,
                   d[i].flvTagType = d[j].flvTagType
            PROVE  d[i].dts < d[j].dts
            <3>1. i \in 1 .. n /\ d[i] = c[i]
                  BY <1>2, <2>1
            <3>2. CASE j \in 1 .. n
                  BY <1>2, <1>3, <2>1, <3>1, <3>2 DEF Increasing, n
            <3>3. CASE j = n + 1
                  <4>1. c[i].dts < f[c[i].flvTagType]
                        BY <1>3, <3>1 DEF Numbered, n
                  <4>. QED  BY <1>1, <1>2, <2>1, <3>1, <3>3, <4>1
            <3>. QED  BY <1>4, <3>2, <3>3
      <2>. QED  BY <1>2, <2>1 DEF Increasing
<1>8. ASSUME NEW i \in 1 .. Len(w), NEW j \in 1 .. n + 1, w[i].flvTagType = d[j].flvTagType
      PROVE  w[i].dts < d[j].dts
      <2>1. CASE j \in 1 .. n
            BY <1>2, <1>3, <1>8, <2>1
      <2>2. CASE j = n + 1
            <3>1. w[i].dts < f[w[i].flvTagType]
                  BY <1>3 DEF Numbered
            <3>. QED  BY <1>1, <1>2, <1>8, <2>2, <3>1
      <2>. QED  BY <1>4, <2>1, <2>2
<1>9. Numbered(w, g)
      <2>1. ASSUME NEW i \in 1 .. Len(w)
            PROVE  w[i] = Packet(w[i].flvTagType, w[i].dts) /\ w[i].dts < g[w[i].flvTagType]
            <3>1. w[i] = Packet(w[i].flvTagType, w[i].dts) /\ w[i].dts < f[w[i].flvTagType]
                  BY <1>3 DEF Numbered
            <3>. QED  BY <1>0, <1>6, <3>1
      <2>. QED  BY <2>1 DEF Numbered
<1>10. Numbered(d, g)
       <2>1. ASSUME NEW i \in 1 .. n + 1
             PROVE  d[i] = Packet(d[i].flvTagType, d[i].dts) /\ d[i].dts < g[d[i].flvTagType]
             <3>1. CASE i \in 1 .. n
                   <4>1. c[i] = Packet(c[i].flvTagType, c[i].dts) /\ c[i].dts < f[c[i].flvTagType]
                         BY <1>3, <3>1 DEF Numbered, n
                   <4>2. c[i].dts < g[c[i].flvTagType]
                         BY <1>0, <1>5, <3>1, <4>1
                   <4>. QED  BY <1>2, <3>1, <4>1, <4>2
             <3>2. CASE i = n + 1
                   BY <1>0, <1>1, <1>2, <3>2
             <3>. QED  BY <1>4, <3>1, <3>2
       <2>. QED  BY <1>2, <2>1 DEF Numbered
<1>11. \A u : Has(w, c, u) => Has(w, d, u)
       <2>1. \A i \in 1 .. n : i \in 1 .. Len(d) /\ d[i] = c[i]
             BY <1>2
       <2>. QED  BY <2>1 DEF Has, n
<1>12. Has(w, d, t)
       <2>1. CASE f[t] = 0
             <3>1. d[n + 1] = Packet(t, 0) /\ n + 1 \in 1 .. Len(d)
                   BY <1>2, <2>1 DEF p
             <3>. QED  BY <3>1 DEF Has
       <2>2. CASE f[t] # 0
             <3>1. f[t] > 0
                   BY <1>0, <2>2
             <3>. QED  BY <1>3, <1>11, <3>1
       <2>. QED  BY <2>1, <2>2
<1>13. \A i \in 1 .. Len(d) : Has(w, d, d[i].flvTagType)
       BY <1>1, <1>2, <1>3, <1>4, <1>11, <1>12
<1>14. \A u \in Tracks : g[u] > 0 /\ u \notin th => Has(w, d, u)
       BY <1>0, <1>3, <1>11, <1>12
<1>15. Line(w, d, g, th)
       BY <1>2, <1>3, <1>7, <1>8, <1>9, <1>10, <1>11, <1>13, <1>14 DEF Line
<1>. QED  BY <1>15 DEF d, p, g

\* The head of the channel moves to the end of the wire.
LEMMA DeliveredLine ==
    ASSUME NEW w \in Seq(Packets), NEW c \in Seq(Packets), NEW f, NEW th,
           c # <<>>, Line(w, c, f, th)
    PROVE  Line(Append(w, Head(c)), Tail(c), f, th)
<1>. DEFINE h == Head(c)
            v == Append(w, h)
            d == Tail(c)
            n == Len(c)
            k == Len(w)
<1>1. /\ d \in Seq(Packets) /\ Len(d) = n - 1 /\ n \in Nat \ {0}
      /\ h = c[1] /\ h \in Packets
      /\ \A i \in 1 .. n - 1 : d[i] = c[i + 1]
      BY TailElements
<1>. HIDE DEF h
<1>2. /\ Len(v) = k + 1 /\ v[k + 1] = h /\ k \in Nat
      /\ \A i \in 1 .. k : v[i] = w[i]
      BY <1>1, AppendElements
<1>. HIDE DEF d, v
<1>3. /\ Increasing(w) /\ Increasing(c) /\ Numbered(w, f) /\ Numbered(c, f)
      /\ \A i \in 1 .. k, j \in 1 .. n :
            w[i].flvTagType = c[j].flvTagType => w[i].dts < c[j].dts
      /\ \A i \in 1 .. k : Has(w, c, w[i].flvTagType)
      /\ \A i \in 1 .. n : Has(w, c, c[i].flvTagType)
      /\ \A u \in Tracks : f[u] > 0 /\ u \notin th => Has(w, c, u)
      BY DEF Line
<1>4. /\ \A i \in 1 .. k + 1 : i \in 1 .. k \/ i = k + 1
      /\ \A i \in 1 .. n : i = 1 \/ i - 1 \in 1 .. n - 1
      /\ \A i \in 1 .. n - 1 : i + 1 \in 1 .. n /\ 1 < i + 1
      /\ 1 \in 1 .. n
      BY <1>1, <1>2
<1>5. Increasing(v)
      <2>1. ASSUME NEW i \in 1 .. k + 1, NEW j \in 1 .. k + 1, i < j,
                   v[i].flvTagType = v[j].flvTagType
            PROVE  v[i].dts < v[j].dts
            <3>1. i \in 1 .. k
                  BY <1>2, <2>1
            <3>2. CASE j \in 1 .. k
                  BY <1>2, <1>3, <2>1, <3>1, <3>2 DEF Increasing
            <3>3. CASE j = k + 1
                  BY <1>1, <1>2, <1>3, <1>4, <2>1, <3>1, <3>3
            <3>. QED  BY <1>4, <3>2, <3>3
      <2>. QED  BY <1>2, <2>1 DEF Increasing
<1>6. Increasing(d)
      <2>1. ASSUME NEW i \in 1 .. n - 1, NEW j \in 1 .. n - 1, i < j,
                   d[i].flvTagType = d[j].flvTagType
            PROVE  d[i].dts < d[j].dts
            <3>1. /\ i + 1 \in 1 .. n /\ j + 1 \in 1 .. n /\ i + 1 < j + 1
                  /\ d[i] = c[i + 1] /\ d[j] = c[j + 1]
                  BY <1>1, <1>4, <2>1
            <3>. QED  BY <1>3, <2>1, <3>1 DEF Increasing
      <2>. QED  BY <1>1, <2>1 DEF Increasing
<1>7. ASSUME NEW i \in 1 .. k + 1, NEW j \in 1 .. n - 1, v[i].flvTagType = d[j].flvTagType
      PROVE  v[i].dts < d[j].dts
      <2>1. j + 1 \in 1 .. n /\ 1 < j + 1 /\ d[j] = c[j + 1]
            BY <1>1, <1>4
      <2>2. CASE i \in 1 .. k
            BY <1>2, <1>3, <1>7, <2>1, <2>2
      <2>3. CASE i = k + 1
            <3>1. v[i] = c[1]
                  BY <1>1, <1>2, <2>3
            <3>. QED  BY <1>3, <1>4, <1>7, <2>1, <3>1 DEF Increasing
      <2>. QED  BY <1>4, <2>2, <2>3
<1>8. Numbered(v, f)
      <2>1. \A i \in 1 .. k + 1 : (\E j \in 1 .. k : v[i] = w[j]) \/ v[i] = c[1]
            BY <1>1, <1>2, <1>4
      <2>. QED  BY <1>2, <1>3, <1>4, <2>1 DEF Numbered
<1>9. Numbered(d, f)
      BY <1>1, <1>3, <1>4 DEF Numbered
<1>10. ASSUME NEW u, Has(w, c, u)
       PROVE  Has(v, d, u)
       <2>1. CASE \E i \in 1 .. k : w[i] = Packet(u, 0)
             <3>1. PICK i \in 1 .. k : w[i] = Packet(u, 0)
                   BY <2>1
             <3>2. i \in 1 .. Len(v) /\ v[i] = Packet(u, 0)
                   BY <1>2, <3>1
             <3>. QED  BY <3>2 DEF Has
       <2>2. CASE \E i \in 1 .. n : c[i] = Packet(u, 0)
             <3>1. PICK i \in 1 .. n : c[i] = Packet(u, 0)
                   BY <2>2
             <3>2. CASE i = 1
                   <4>1. k + 1 \in 1 .. Len(v) /\ v[k + 1] = Packet(u, 0)
                         BY <1>1, <1>2, <3>1, <3>2
                   <4>. QED  BY <4>1 DEF Has
             <3>3. CASE i # 1
                   <4>1. i - 1 \in 1 .. n - 1 /\ (i - 1) + 1 = i
                         BY <1>4, <3>3
                   <4>2. i - 1 \in 1 .. Len(d) /\ d[i - 1] = Packet(u, 0)
                         BY <1>1, <3>1, <4>1
                   <4>. QED  BY <4>2 DEF Has
             <3>. QED  BY <3>2, <3>3
       <2>. QED  BY <1>10, <2>1, <2>2 DEF Has
<1>11. \A i \in 1 .. k + 1 : Has(v, d, v[i].flvTagType)
       BY <1>1, <1>2, <1>3, <1>4, <1>10
<1>12. \A i \in 1 .. n - 1 : Has(v, d, d[i].flvTagType)
       BY <1>1, <1>3, <1>4, <1>10
<1>13. Line(v, d, f, th)
       BY <1>1, <1>2, <1>3, <1>5, <1>6, <1>7, <1>8, <1>9, <1>10, <1>11, <1>12 DEF Line
<1>. QED  BY <1>13 DEF v, d, h

\* A droppable head is no configuration record and may leave the line.
LEMMA SkippedLine ==
    ASSUME NEW w \in Seq(Packets), NEW c \in Seq(Packets), NEW f, NEW th,
           c # <<>>, Head(c).droppable, Line(w, c, f, th)
    PROVE  Line(w, Tail(c), f, th)
<1>. DEFINE d == Tail(c)
            n == Len(c)
            k == Len(w)
<1>1. /\ d \in Seq(Packets) /\ Len(d) = n - 1 /\ n \in Nat \ {0}
      /\ Head(c) = c[1] /\ \A i \in 1 .. n - 1 : d[i] = c[i + 1]
      BY TailElements
<1>. HIDE DEF d
<1>2. /\ Increasing(w) /\ Increasing(c) /\ Numbered(w, f) /\ Numbered(c, f)
      /\ \A i \in 1 .. k, j \in 1 .. n :
            w[i].flvTagType = c[j].flvTagType => w[i].dts < c[j].dts
      /\ \A i \in 1 .. k : Has(w, c, w[i].flvTagType)
      /\ \A i \in 1 .. n : Has(w, c, c[i].flvTagType)
      /\ \A u \in Tracks : f[u] > 0 /\ u \notin th => Has(w, c, u)
      BY DEF Line
<1>3. /\ \A i \in 1 .. n : i = 1 \/ (i - 1 \in 1 .. n - 1 /\ (i - 1) + 1 = i)
      /\ \A i \in 1 .. n - 1 : i + 1 \in 1 .. n
      BY <1>1
<1>4. \A u : c[1] # Packet(u, 0)
      <2>1. ASSUME NEW u
            PROVE  ~Packet(u, 0).droppable
            <3>1. Packet(u, 0).droppable = (0 > 0)
                  BY DEF Packet
            <3>2. ~(0 > 0)
                  OBVIOUS
            <3>. QED  BY <3>1, <3>2
      <2>. QED  BY <1>1, <2>1
<1>5. Increasing(d)
      <2>1. ASSUME NEW i \in 1 .. n - 1, NEW j \in 1 .. n - 1, i < j,
                   d[i].flvTagType = d[j].flvTagType
            PROVE  d[i].dts < d[j].dts
            <3>1. /\ i + 1 \in 1 .. n /\ j + 1 \in 1 .. n /\ i + 1 < j + 1
                  /\ d[i] = c[i + 1] /\ d[j] = c[j + 1]
                  BY <1>1, <1>3, <2>1
            <3>. QED  BY <1>2, <2>1, <3>1 DEF Increasing
      <2>. QED  BY <1>1, <2>1 DEF Increasing
<1>6. Numbered(d, f)
      BY <1>1, <1>2, <1>3 DEF Numbered
<1>7. ASSUME NEW u, Has(w, c, u)
      PROVE  Has(w, d, u)
      <2>1. CASE \E i \in 1 .. k : w[i] = Packet(u, 0)
            BY <2>1 DEF Has
      <2>2. CASE \E i \in 1 .. n : c[i] = Packet(u, 0)
            <3>1. PICK i \in 1 .. n : c[i] = Packet(u, 0)
                  BY <2>2
            <3>2. i - 1 \in 1 .. n - 1 /\ (i - 1) + 1 = i
                  BY <1>3, <1>4, <3>1
            <3>3. i - 1 \in 1 .. Len(d) /\ d[i - 1] = Packet(u, 0)
                  BY <1>1, <3>1, <3>2
            <3>. QED  BY <3>3 DEF Has
      <2>. QED  BY <1>7, <2>1, <2>2 DEF Has
<1>8. /\ \A i \in 1 .. k, j \in 1 .. n - 1 :
            w[i].flvTagType = d[j].flvTagType => w[i].dts < d[j].dts
      /\ \A i \in 1 .. n - 1 : Has(w, d, d[i].flvTagType)
      BY <1>1, <1>2, <1>3, <1>7
<1>9. Line(w, d, f, th)
      BY <1>1, <1>2, <1>5, <1>6, <1>7, <1>8 DEF Line
<1>. QED  BY <1>9 DEF d

\* A producer that was refused feeds no more.
LEMMA RefusedLine ==
    ASSUME NEW w \in Seq(Packets), NEW c \in Seq(Packets), NEW f \in Accounts, NEW th,
           NEW t \in Tracks, Line(w, c, f, th)
    PROVE  Line(w, c, [f EXCEPT ![t] = f[t] + 1], th \union {t})
<1>. DEFINE g == [f EXCEPT ![t] = f[t] + 1]
<1>1. \A u \in Tracks : f[u] \in Nat /\ g[u] = IF u = t THEN f[u] + 1 ELSE f[u]
      BY QueueAssumption DEF Accounts
<1>. HIDE DEF g
<1>2. ASSUME NEW s \in Seq(Packets), Numbered(s, f)
      PROVE  Numbered(s, g)
      <2>1. \A i \in 1 .. Len(s) : s[i].flvTagType \in Tracks /\ s[i].dts \in Nat
            BY ElementType
      <2>. QED  BY <1>1, <1>2, <2>1 DEF Numbered
<1>3. Line(w, c, g, th \union {t})
      BY <1>1, <1>2 DEF Line
<1>. QED  BY <1>3 DEF g

InLine == Line(wire, flvData \o frameQueue, food, thrown)

\* sendFood never takes its abandoning branch: it places the packet or throws.
LEMMA LineStep ==
    ASSUME TypeInv, CounterTracksQueue, InLine, [Next]_vars
    PROVE  InLine'
<1>. DEFINE c == flvData \o frameQueue
<1>0. /\ frameQueue \in Seq(Packets) /\ flvData \in Seq(Packets) /\ wire \in Seq(Packets)
      /\ Len(flvData) = (IF pc \in {"popped", "write"} THEN 1 ELSE 0)
      /\ food \in Accounts /\ c \in Seq(Packets)
      BY ConcatProperties DEF TypeInv, TypeOK, Accounts
<1>1. Line(wire, c, food, thrown)
      BY DEF InLine
<1>. USE DEF apiVars, runVars, clientVars, prodVars
<1>2. CASE UNCHANGED <<flvData, frameQueue, wire, food, thrown>>
      BY <1>1, <1>2 DEF InLine
<1>3. ASSUME NEW t \in Tracks, sendFood(t)
      PROVE  InLine'
      <2>. DEFINE p == Packet(t, food[t])
                  g == [food EXCEPT ![t] = food[t] + 1]
      <2>1. writeMsgNum <= maxQueueLength
            <3>1. Len(frameQueue) \in Nat /\ Owed \in {0, 1} /\ writeMsgNum \in Int
                  /\ Len(frameQueue) <= MAX_QUEUE_CAPACITY
                  BY EmptyLen DEF TypeInv, TypeOK, Owed
            <3>. QED  BY <3>1, QueueAssumption DEF CounterTracksQueue
      <2>2. food' = g /\ UNCHANGED <<flvData, wire>> /\ t \notin thrown
            BY <1>3 DEF sendFood, Producing
      <2>3. p \in Packets
            BY <1>0, PacketType DEF Accounts
      <2>4. CASE Room
            <3>1. frameQueue' = Append(frameQueue, p) /\ thrown' = thrown
                  BY <1>3, <2>1, <2>4 DEF sendFood, Enqueued
            <3>2. flvData' \o frameQueue' = Append(c, p)
                  BY <1>0, <2>2, <2>3, <3>1
            <3>3. Line(wire, Append(c, p), g, thrown)
                  <4>. HIDE DEF c
                  <4>. QED  BY <1>0, <1>1, <2>2, AcceptedLine
            <3>. HIDE DEF c, p, g
            <3>. QED  BY <2>2, <3>1, <3>2, <3>3 DEF InLine
      <2>5. CASE ~Room
            <3>1. thrown' = thrown \union {t} /\ frameQueue' = frameQueue
                  BY <1>3, <2>1, <2>5 DEF sendFood
            <3>2. Line(wire, c, g, thrown \union {t})
                  <4>. HIDE DEF c
                  <4>. QED  BY <1>0, <1>1, RefusedLine
            <3>. HIDE DEF g
            <3>. QED  BY <2>2, <3>1, <3>2 DEF InLine
      <2>. QED  BY <2>4, <2>5
<1>4. CASE recheckAndPop
      <2>1. CASE state = "RUNNING"
            <3>1. frameQueue # <<>> /\ flvData = <<>>
                  BY <1>0, <1>4, EmptyLen DEF recheckAndPop, TypeInv, PopReady
            <3>2. flvData' \o frameQueue' = c
                  BY <1>0, <1>4, <2>1, <3>1, PopStutters DEF recheckAndPop
            <3>3. UNCHANGED <<wire, food, thrown>>
                  BY <1>4 DEF recheckAndPop
            <3>. QED  BY <1>1, <3>2, <3>3 DEF InLine
      <2>2. CASE state # "RUNNING"
            BY <1>2, <1>4, <2>2 DEF recheckAndPop
      <2>. QED  BY <2>1, <2>2
<1>5. ASSUME pc \in {"popped", "write"}
      PROVE  /\ c # <<>> /\ Head(c) = Head(flvData) /\ Tail(c) = <<>> \o frameQueue
             /\ Head(flvData) \in Packets
      <2>1. Len(flvData) = 1
            BY <1>0, <1>5
      <2>2. Head(flvData) \in Packets
            BY <1>0, <2>1, SingleType
      <2>. QED  BY <1>0, <2>1, <2>2, HandConcat
<1>. HIDE DEF c
<1>6. CASE abandonOrKeep
      <2>1. CASE flvData' = flvData
            BY <1>2, <1>6, <2>1 DEF abandonOrKeep
      <2>2. CASE flvData' # flvData
            <3>1. /\ flvData' = <<>> /\ Head(flvData).droppable
                  /\ UNCHANGED <<frameQueue, wire, food, thrown>> /\ pc = "popped"
                  BY <1>6, <2>2 DEF abandonOrKeep, Sheddable
            <3>2. Line(wire, Tail(c), food, thrown)
                  BY <1>0, <1>1, <1>5, <3>1, SkippedLine
            <3>. QED  BY <1>5, <3>1, <3>2 DEF InLine
      <2>. QED  BY <2>1, <2>2
<1>7. CASE writeFrame
      <2>1. /\ flvData' = <<>> /\ wire' = Append(wire, Head(flvData))
            /\ UNCHANGED <<frameQueue, food, thrown>> /\ pc = "write"
            BY <1>7 DEF writeFrame
      <2>2. Line(Append(wire, Head(c)), Tail(c), food, thrown)
            BY <1>0, <1>1, <1>5, <2>1, DeliveredLine
      <2>. QED  BY <1>5, <2>1, <2>2 DEF InLine
<1>. QED
     BY <1>2, <1>3, <1>4, <1>6, <1>7
     DEF Next, Activity, run, vars, sendStart, execute, sendStopReset, sendStopState,
         quit, testQuit, switchState, openRtmp, writeMetaData, setRunning,
         decrement, closeRtmp

\* The metadata is written once, between the connection and the first packet:
\* the state leaves START only after it, or for good.
Meta ==
    /\ state = "START" /\ pc # "running" => metaWritten = 0
    /\ pc \in {"open", "meta"} => metaWritten = 0
    /\ pc \in {"running", "decrement", "decremented", "popped", "write"} => metaWritten = 1
    /\ state = "RUNNING" => metaWritten = 1
    /\ wire # <<>> => metaWritten = 1

LEMMA MetaStep == TypeInv /\ Meta /\ [Next]_vars => Meta'
<1>. SUFFICES ASSUME TypeInv, Meta, [Next]_vars
              PROVE  Meta'
     OBVIOUS
<1>0. pc \in RunPc /\ state \in States
      BY DEF TypeInv, TypeOK
<1>. USE DEF Meta, apiVars, runVars, clientVars
<1>1. CASE sendStart
      <2>1. pc = "unscheduled" /\ state = "START"
            BY <1>1 DEF sendStart, TypeInv, Phases
      <2>. QED  BY <1>1, <2>1 DEF sendStart
<1>2. CASE execute
      <2>1. pc = "unscheduled"
            BY <1>2 DEF execute, TypeInv, Phases
      <2>. QED  BY <1>2, <2>1 DEF execute
<1>3. CASE sendStopReset
      BY <1>3 DEF sendStopReset
<1>4. CASE sendStopState
      BY <1>4 DEF sendStopState
<1>5. CASE quit
      BY <1>5 DEF quit
<1>6. CASE \E t \in Tracks : sendFood(t)
      BY <1>6 DEF sendFood
<1>7. CASE testQuit
      BY <1>0, <1>7 DEF testQuit, Leaving
<1>8. CASE switchState
      BY <1>0, <1>8 DEF switchState, States
<1>9. CASE openRtmp
      BY <1>9 DEF openRtmp
<1>10. CASE writeMetaData
       BY <1>10 DEF writeMetaData
<1>11. CASE setRunning
       BY <1>11 DEF setRunning, Connected
<1>12. CASE decrement
       BY <1>12 DEF decrement
<1>13. CASE recheckAndPop
       BY <1>13 DEF recheckAndPop
<1>14. CASE abandonOrKeep
       BY <1>14 DEF abandonOrKeep
<1>15. CASE writeFrame
       BY <1>15 DEF writeFrame
<1>16. CASE closeRtmp
       BY <1>16 DEF closeRtmp
<1>17. CASE UNCHANGED vars
       BY <1>17 DEF vars
<1>. QED  BY <1>1, <1>2, <1>3, <1>4, <1>5, <1>6, <1>7, <1>8, <1>9, <1>10, <1>11,
             <1>12, <1>13, <1>14, <1>15, <1>16, <1>17 DEF Next, Activity, run

\* In a line every packet comes after its track's configuration record.
LEMMA LineOrders ==
    ASSUME TypeInv, InLine, Meta
    PROVE  TrackOrder
<1>. DEFINE c == flvData \o frameQueue
<1>0. wire \in Seq(Packets) /\ c \in Seq(Packets)
      BY ConcatProperties DEF TypeInv, TypeOK
<1>1. /\ Increasing(wire)
      /\ \A i \in 1 .. Len(wire), j \in 1 .. Len(c) :
            wire[i].flvTagType = c[j].flvTagType => wire[i].dts < c[j].dts
      /\ \A i \in 1 .. Len(wire) : Has(wire, c, wire[i].flvTagType)
      BY DEF InLine, Line
<1>. HIDE DEF c
<1>2. \A u : Packet(u, 0).flvTagType = u /\ Packet(u, 0).dts = 0
      BY DEF Packet
<1>3. ASSUME NEW j \in 1 .. Len(wire), wire[j].dts > 0
      PROVE  \E i \in 1 .. j - 1 : wire[i] = Packet(wire[j].flvTagType, 0)
      <2>. DEFINE u == wire[j].flvTagType
      <2>1. wire[j].dts \in Nat /\ Len(wire) \in Nat
            BY <1>0, ElementType
      <2>2. ASSUME NEW i \in 1 .. Len(c), c[i] = Packet(u, 0)
            PROVE  FALSE
            BY <1>1, <1>2, <2>1, <2>2
      <2>3. PICK i \in 1 .. Len(wire) : wire[i] = Packet(u, 0)
            BY <1>1, <2>2 DEF Has
      <2>4. wire[i].flvTagType = u /\ wire[i].dts = 0
            BY <1>2, <2>3
      <2>5. ~(j < i) /\ i # j
            BY <1>1, <1>3, <2>1, <2>4 DEF Increasing
      <2>6. i \in 1 .. j - 1
            BY <2>1, <2>5
      <2>. QED  BY <2>3, <2>6
<1>4. ASSUME NEW j \in 1 .. Len(wire), NEW i \in 1 .. j - 1,
             wire[i].flvTagType = wire[j].flvTagType
      PROVE  wire[i].dts < wire[j].dts
      <2>1. i \in 1 .. Len(wire) /\ i < j
            <3>1. Len(wire) \in Nat
                  BY <1>0
            <3>. QED  BY <3>1
      <2>. QED  BY <1>1, <1>4, <2>1 DEF Increasing
<1>. QED  BY <1>3, <1>4 DEF TrackOrder, Meta

\* The metadata comes before any media, and of each track the configuration
\* record comes first and the time stamps increase, whatever is shed, refused
\* or lost to a stop.
THEOREM TrackOrderCorrect == Spec => []TrackOrder
<1>1. Init => InLine /\ Meta
      <2>. SUFFICES ASSUME Init
                    PROVE  InLine /\ Meta
           OBVIOUS
      <2>1. /\ wire = <<>> /\ flvData \o frameQueue = <<>> /\ \A t \in Tracks : food[t] = 0
            BY DEF Init
      <2>2. Len(wire) = 0 /\ Len(flvData \o frameQueue) = 0
            BY <2>1
      <2>3. InLine
            BY <2>1, <2>2 DEF InLine, Line, Increasing, Numbered
      <2>. QED  BY <2>3 DEF Init, Meta
<1>2. Spec => []TypeInv
      BY TypeInit, TypeStep, PTL DEF Spec
<1>3. TypeInv /\ CounterTracksQueue /\ InLine /\ Meta /\ [Next]_vars => InLine' /\ Meta'
      BY LineStep, MetaStep
<1>4. TypeInv /\ InLine /\ Meta => TrackOrder
      BY LineOrders
<1>. QED  BY <1>1, <1>2, <1>3, <1>4, CounterCorrect, PTL DEF Spec
================================================================================
