------------------------- MODULE RESSoftAudioCoreProofs -------------------------
(***************************************************************************)
(* TLAPS proofs about RESSoftAudioCore, for a ring of any size, any number *)
(* of frames and any number of sessions.  The inductive invariant has the  *)
(* parts                                                                   *)
(*   TypeOK                                                                *)
(*   Control   which threads and which encoder a session has               *)
(*                                            -> CrashNeedsFailedStart     *)
(*   Growing   the halves of a buffer never become older                   *)
(*                                            -> NeverStale                *)
(* and, with a filter that nobody else locks,                              *)
(*   Filtered  the handler always gets the filter's lock                   *)
(*   Owned     who a buffer of the ring belongs to    -> RingOwnership     *)
(*   Wholes    what an announced buffer holds         -> OrignAudioBuffIsReady *)
(*   Ordered   the frames from the microphone to the encoder               *)
(*                                                    -> EncodedInOrder    *)
(***************************************************************************)
EXTENDS RESSoftAudioCore, FiniteSetTheorems, SequenceTheorems, TLAPS

\* The session's looper has not been told to quit yet.
InSession == cpc \in {"running", "joinRecorder", "quitLooper"}

\* The handler has a message; it has one whose buffer it has not given back.
Busy == {"copyLo", "copyHi", "giveBack", "tryLock", "onFrame",
         "recopyLo", "recopyHi", "giveBackAgain", "ready"}
Holding == {"copyLo", "copyHi", "giveBack"}

\* The recorder copies into the ring; it has a frame that is not announced.
Filling == {"fillLo", "fillHi", "mark"}
HasFrame == {"check", "fillLo", "fillHi", "mark", "send"}

\* A session whose start failed has a recorder and nothing else; it is the last.
Control ==
    /\ crashed => startFailed
    /\ startFailed =>
         /\ hpc \in {"none", "done"} /\ msgs = <<>> /\ looper # "live"
         /\ cpc # "idle" /\ encoder # "started"
    /\ ~startFailed =>
         /\ InSession => looper = "live"
         /\ cpc # "idle" => encoder = "started"
         /\ cpc \in {"joinSender", "stopEncoder", "idle"} => hpc \in {"none", "done"}
         /\ cpc \in {"stopEncoder", "idle"} => spc \in {"none", "done"}
    /\ ~InSession => msgs = <<>> /\ looper # "live"
    /\ cpc \notin {"running", "joinRecorder"} => rpc \in {"none", "done"}
    /\ cpc = "idle" => encoder # "started"

\* No half is newer than the recorder's frame, and none that was announced is
\* overwritten by an older one.
Growing ==
    /\ \A i \in Indices, h \in {1, 2} : buff[i][h] <= frame
    /\ \A n \in 1 .. Len(msgs), h \in {1, 2} : msgs[n].frame <= buff[msgs[n].index][h]
    /\ hpc \in Busy => \A h \in {1, 2} : message.frame <= buff[message.index][h]
    /\ hpc \in Busy \ {"copyLo"} => message.frame <= orignAudioBuff[1]
    /\ hpc \in Busy \ {"copyLo", "copyHi"} => message.frame <= orignAudioBuff[2]
    /\ rpc \in {"fillHi", "mark"} => buff[targetIndex][1] = frame
    /\ rpc = "mark" => buff[targetIndex][2] = frame
    /\ rpc = "send" => \A h \in {1, 2} : buff[lastAudioQueueBuffIndex][h] = frame

\* With a filter, and nobody else to lock it, the handler never takes the
\* branch that copies again.
Filtered ==
    /\ audioFilter /\ filterOps = 0
    /\ filterLock = IF hpc = "onFrame" THEN "handler" ELSE "free"
    /\ hpc \notin {"recopyLo", "recopyHi", "giveBackAgain"}

\* A buffer is either ready to fill or announced, and announced once.
Ring ==
    /\ \A i \in Indices : isReadyToFill[i] <=> ~Announced(i)
    /\ rpc \in Filling => isReadyToFill[targetIndex]
    /\ \A m, n \in 1 .. Len(msgs) : m # n => msgs[m].index # msgs[n].index
    /\ \A n \in 1 .. Len(msgs) :
         /\ rpc = "send" => msgs[n].index # lastAudioQueueBuffIndex
         /\ hpc \in Holding => msgs[n].index # message.index
    /\ rpc = "send" /\ hpc \in Holding => message.index # lastAudioQueueBuffIndex

Owned == InSession /\ ~startFailed => Ring

\* An announced buffer holds the frame that its message names.
Wholes ==
    /\ \A n \in 1 .. Len(msgs) : buff[msgs[n].index] = Whole(msgs[n].frame)
    /\ hpc \in Holding => buff[message.index] = Whole(message.frame)
    /\ hpc = "copyHi" => orignAudioBuff[1] = message.frame
    /\ hpc \in {"giveBack", "tryLock", "onFrame", "ready"} =>
         orignAudioBuff = Whole(message.frame)

\* Frames are encoded, handled, announced and recorded in this order.
Ordered ==
    /\ \A n \in 1 .. Len(encoded) :
         /\ encoded[n] = Whole(encoded[n][1])
         /\ \A m \in 1 .. n - 1 : encoded[m][1] < encoded[n][1]
         /\ encoded[n][1] <= frame /\ (rpc \in HasFrame => encoded[n][1] < frame)
         /\ hpc \in Busy => encoded[n][1] < message.frame
         /\ \A m \in 1 .. Len(msgs) : encoded[n][1] < msgs[m].frame
    /\ \A n \in 1 .. Len(msgs) :
         /\ \A m \in 1 .. n - 1 : msgs[m].frame < msgs[n].frame
         /\ msgs[n].frame <= frame /\ (rpc \in HasFrame => msgs[n].frame < frame)
         /\ hpc \in Busy => message.frame < msgs[n].frame
    /\ hpc \in Busy => message.frame <= frame /\ (rpc \in HasFrame => message.frame < frame)

--------------------------------------------------------------------------------
(* Buffers and the ring.                                                   *)

\* A buffer is given by its halves.
LEMMA BufferFacts ==
    ASSUME NEW b \in Buffers
    PROVE  b = <<b[1], b[2]>> /\ b[1] \in Frames /\ b[2] \in Frames
BY DEF Buffers

\* Copying one half of a buffer.
LEMMA HalfFacts ==
    ASSUME NEW b \in Buffers, NEW x \in Frames
    PROVE  /\ [b EXCEPT ![1] = x] = <<x, b[2]>> /\ <<x, b[2]>> \in Buffers
           /\ [b EXCEPT ![2] = x] = <<b[1], x>> /\ <<b[1], x>> \in Buffers
<1>1. PICK p \in Frames, q \in Frames : b = <<p, q>>
      BY DEF Buffers
<1>2. [<<p, q>> EXCEPT ![1] = x] = <<x, q>> /\ [<<p, q>> EXCEPT ![2] = x] = <<p, x>>
      OBVIOUS
<1>3. b[1] = p /\ b[2] = q
      BY <1>1
<1>. QED  BY <1>1, <1>2, <1>3 DEF Buffers

\* The target is a buffer of the ring.
LEMMA TargetType ==
    ASSUME lastAudioQueueBuffIndex \in Indices
    PROVE  targetIndex \in Indices
<1>1. audioBufferQueueNum \in Nat \ {0}
      BY AudioAssumption
<1>2. lastAudioQueueBuffIndex + 1 \in Nat
      BY <1>1 DEF Indices
<1>. QED  BY <1>1, <1>2 DEF targetIndex, Indices

--------------------------------------------------------------------------------
(* Types.                                                                  *)

\* What the two steps of the recorder's copy write.
LEMMA FillFacts ==
    ASSUME TypeOK
    PROVE  /\ targetIndex \in Indices
           /\ fillLo => buff' = [buff EXCEPT ![targetIndex] = <<frame, buff[targetIndex][2]>>]
           /\ fillHi => buff' = [buff EXCEPT ![targetIndex] = <<buff[targetIndex][1], frame>>]
           /\ fillLo \/ fillHi => buff' \in [Indices -> Buffers]
<1>1. targetIndex \in Indices
      BY TargetType DEF TypeOK
<1>2. buff \in [Indices -> Buffers] /\ buff[targetIndex] \in Buffers /\ frame \in Frames
      BY <1>1 DEF TypeOK
<1>3. /\ [buff[targetIndex] EXCEPT ![1] = frame] = <<frame, buff[targetIndex][2]>>
      /\ <<frame, buff[targetIndex][2]>> \in Buffers
      /\ [buff[targetIndex] EXCEPT ![2] = frame] = <<buff[targetIndex][1], frame>>
      /\ <<buff[targetIndex][1], frame>> \in Buffers
      BY <1>2, HalfFacts
<1>4. CASE fillLo
      <2>1. buff' = [buff EXCEPT ![targetIndex] = [buff[targetIndex] EXCEPT ![1] = frame]]
            BY <1>4 DEF fillLo
      <2>2. buff' = [buff EXCEPT ![targetIndex] = <<frame, buff[targetIndex][2]>>]
            BY <1>3, <2>1
      <2>3. ~fillHi
            BY <1>4 DEF fillLo, fillHi
      <2>. QED  BY <1>1, <1>2, <1>3, <2>2, <2>3
<1>5. CASE fillHi
      <2>1. buff' = [buff EXCEPT ![targetIndex] = [buff[targetIndex] EXCEPT ![2] = frame]]
            BY <1>5 DEF fillHi
      <2>2. buff' = [buff EXCEPT ![targetIndex] = <<buff[targetIndex][1], frame>>]
            BY <1>3, <2>1
      <2>3. ~fillLo
            BY <1>5 DEF fillLo, fillHi
      <2>. QED  BY <1>1, <1>2, <1>3, <2>2, <2>3
<1>. QED  BY <1>1, <1>4, <1>5

\* What a step of the handler's copy writes.
LEMMA CopyFacts ==
    ASSUME TypeOK, NEW from, NEW to
    PROVE  /\ copyHalf(from, 1, to) =>
                orignAudioBuff' = <<buff[message.index][1], orignAudioBuff[2]>>
           /\ copyHalf(from, 2, to) =>
                orignAudioBuff' = <<orignAudioBuff[1], buff[message.index][2]>>
           /\ copyHalf(from, 1, to) \/ copyHalf(from, 2, to) => orignAudioBuff' \in Buffers
           /\ message.index \in Indices /\ buff[message.index] \in Buffers
<1>1. message.index \in Indices /\ buff[message.index] \in Buffers /\ orignAudioBuff \in Buffers
      BY DEF TypeOK, Messages
<1>2. buff[message.index][1] \in Frames /\ buff[message.index][2] \in Frames
      BY <1>1, BufferFacts
<1>3. /\ [orignAudioBuff EXCEPT ![1] = buff[message.index][1]]
            = <<buff[message.index][1], orignAudioBuff[2]>>
      /\ <<buff[message.index][1], orignAudioBuff[2]>> \in Buffers
      /\ [orignAudioBuff EXCEPT ![2] = buff[message.index][2]]
            = <<orignAudioBuff[1], buff[message.index][2]>>
      /\ <<orignAudioBuff[1], buff[message.index][2]>> \in Buffers
      BY <1>1, <1>2, HalfFacts
<1>4. copyHalf(from, 1, to) =>
         orignAudioBuff' = <<buff[message.index][1], orignAudioBuff[2]>>
      BY <1>3 DEF copyHalf
<1>5. copyHalf(from, 2, to) =>
         orignAudioBuff' = <<orignAudioBuff[1], buff[message.index][2]>>
      BY <1>3 DEF copyHalf
<1>. QED  BY <1>1, <1>3, <1>4, <1>5

\* The sequences of messages and buffers.
LEMMA MessageAppend ==
    ASSUME NEW s \in Seq(Messages), NEW p \in Messages
    PROVE  /\ Append(s, p) \in Seq(Messages) /\ Len(Append(s, p)) = Len(s) + 1
           /\ Append(s, p)[Len(s) + 1] = p /\ Len(s) \in Nat
           /\ \A i \in 1 .. Len(s) : Append(s, p)[i] = s[i]
BY AppendProperties

LEMMA MessageTail ==
    ASSUME NEW s \in Seq(Messages), s # <<>>
    PROVE  /\ Tail(s) \in Seq(Messages) /\ Len(Tail(s)) = Len(s) - 1
           /\ Len(s) \in Nat \ {0} /\ Head(s) = s[1] /\ Head(s) \in Messages
           /\ \A i \in 1 .. Len(s) - 1 : Tail(s)[i] = s[i + 1]
BY EmptySeq, HeadTailProperties

LEMMA BufferAppend ==
    ASSUME NEW s \in Seq(Buffers), NEW p \in Buffers
    PROVE  /\ Append(s, p) \in Seq(Buffers) /\ Len(Append(s, p)) = Len(s) + 1
           /\ Append(s, p)[Len(s) + 1] = p /\ Len(s) \in Nat
           /\ \A i \in 1 .. Len(s) : Append(s, p)[i] = s[i]
BY AppendProperties

LEMMA BufferTail ==
    ASSUME NEW s \in Seq(Buffers), s # <<>>
    PROVE  /\ Tail(s) \in Seq(Buffers) /\ Len(Tail(s)) = Len(s) - 1
           /\ Len(s) \in Nat \ {0} /\ Head(s) \in Buffers
BY EmptySeq, HeadTailProperties

LEMMA TypeInit == Init => TypeOK
<1>. SUFFICES ASSUME Init
              PROVE  TypeOK
     OBVIOUS
<1>1. /\ 0 \in Indices /\ 0 \in Frames /\ InSlots \in Nat /\ OutSlots \in Nat
      /\ MaxSessions \in Nat /\ MaxFilterOps \in Nat /\ InitialFilter \in BOOLEAN
      BY AudioAssumption DEF Indices, Frames
<1>2. Whole(0) \in Buffers
      BY <1>1 DEF Whole, Buffers
<1>3. buff \in [Indices -> Buffers] /\ isReadyToFill \in [Indices -> BOOLEAN]
      BY <1>2 DEF Init
<1>4. orignAudioBuff \in Buffers /\ message \in Messages
      BY <1>1, <1>2 DEF Init, Messages
<1>5. /\ audioFilter \in BOOLEAN /\ formatSent \in BOOLEAN /\ isRunning \in BOOLEAN
      /\ shouldQuit \in BOOLEAN /\ startFailed \in BOOLEAN /\ crashed \in BOOLEAN
      BY <1>1 DEF Init
<1>6. /\ lastAudioQueueBuffIndex \in Indices /\ filterOps \in 0 .. MaxFilterOps
      /\ frame \in Frames /\ sessions \in 0 .. MaxSessions
      /\ looper \in {"null", "live", "quit"} /\ filterLock \in {"free", "client", "handler"}
      /\ encoder \in {"created", "started", "null"}
      /\ rpc \in RecorderPc /\ hpc \in HandlerPc /\ spc \in SenderPc /\ cpc \in ClientPc
      BY <1>1 DEF Init, RecorderPc, HandlerPc, SenderPc, ClientPc
<1>7. /\ msgs \in Seq(Messages) /\ encIn \in Seq(Buffers) /\ Len(encIn) <= InSlots
      /\ encOut \in Seq(Buffers) /\ Len(encOut) <= OutSlots
      /\ encoded \in Seq(Buffers) /\ collected \in Seq(Buffers)
      BY <1>1 DEF Init
<1>. QED  BY <1>3, <1>4, <1>5, <1>6, <1>7 DEF TypeOK

LEMMA TypeStep == TypeOK /\ [Next]_vars => TypeOK'
<1>. SUFFICES ASSUME TypeOK, [Next]_vars
              PROVE  TypeOK'
     OBVIOUS
<1>. USE DEF TypeOK, ringVars, filterVars, encVars, flagVars, sessionVars,
             notRecorder, notHandler
<1>1. CASE start
      <2>1. Freed \in [Indices -> BOOLEAN] /\ 0 \in Indices /\ InSlots \in Nat /\ OutSlots \in Nat
            /\ MaxSessions \in Nat
            BY AudioAssumption DEF Freed, Indices
      <2>2. sessions' \in 0 .. MaxSessions
            BY <1>1, <2>1 DEF start
      <2>3. /\ encIn' \in Seq(Buffers) /\ Len(encIn') <= InSlots
            /\ encOut' \in Seq(Buffers) /\ Len(encOut') <= OutSlots
            BY <1>1, <2>1 DEF start
      <2>4. formatSent' \in BOOLEAN /\ isRunning' \in BOOLEAN /\ shouldQuit' \in BOOLEAN
            BY <1>1 DEF start
      <2>5. /\ rpc' \in RecorderPc /\ hpc' \in HandlerPc /\ spc' \in SenderPc /\ cpc' \in ClientPc
            /\ encoder' \in {"created", "started", "null"} /\ looper' \in {"null", "live", "quit"}
            BY <1>1 DEF start, HandlerPc, SenderPc, RecorderPc, ClientPc
      <2>6. isReadyToFill' \in [Indices -> BOOLEAN] /\ lastAudioQueueBuffIndex' \in Indices
            BY <1>1, <2>1 DEF start
      <2>. QED  BY <1>1, <2>2, <2>3, <2>4, <2>5, <2>6 DEF start
<1>2. CASE startThrows
      <2>1. Freed \in [Indices -> BOOLEAN] /\ MaxSessions \in Nat
            BY AudioAssumption DEF Freed
      <2>2. sessions' \in 0 .. MaxSessions
            BY <1>2, <2>1 DEF startThrows
      <2>. QED  BY <1>2, <2>1, <2>2 DEF startThrows, RecorderPc, ClientPc
<1>3. CASE stop
      <2>1. isRunning' \in BOOLEAN /\ cpc' \in ClientPc
            BY <1>3 DEF stop, ClientPc
      <2>. QED  BY <1>3, <2>1 DEF stop
<1>4. CASE joinRecorder
      BY <1>4 DEF joinRecorder, ClientPc
<1>5. CASE quitLooper
      <2>1. msgs' \in Seq(Messages)
            <3>1. msgs' = msgs \/ msgs' = <<>>
                  BY <1>5 DEF quitLooper
            <3>2. msgs \in Seq(Messages) /\ <<>> \in Seq(Messages)
                  OBVIOUS
            <3>. QED  BY <3>1, <3>2
      <2>2. crashed' \in BOOLEAN /\ cpc' \in ClientPc /\ looper' \in {"null", "live", "quit"}
            BY <1>5 DEF quitLooper, Crash, ClientPc
      <2>. QED  BY <1>5, <2>1, <2>2 DEF quitLooper
<1>6. CASE joinHandler
      BY <1>6 DEF joinHandler, ClientPc
<1>7. CASE joinSender
      BY <1>7 DEF joinSender, ClientPc
<1>8. CASE stopEncoder
      <2>1. /\ crashed' \in BOOLEAN /\ cpc' \in ClientPc
            /\ encoder' \in {"created", "started", "null"}
            BY <1>8 DEF stopEncoder, Crash, ClientPc
      <2>. QED  BY <1>8, <2>1 DEF stopEncoder
<1>9. CASE lockFilter
      <2>1. filterOps' \in 0 .. MaxFilterOps
            BY <1>9, AudioAssumption DEF lockFilter
      <2>. QED  BY <1>9, <2>1 DEF lockFilter
<1>10. CASE \E f \in BOOLEAN : unlockFilter(f)
       BY <1>10 DEF unlockFilter
<1>11. CASE recordLoop
       BY <1>11 DEF recordLoop, RecorderPc
<1>12. CASE recordRead
       <2>1. frame' \in Frames
             BY <1>12, AudioAssumption DEF recordRead, Frames
       <2>. QED  BY <1>12, <2>1 DEF recordRead, RecorderPc
<1>13. CASE queueAudioAccept
       BY <1>13 DEF queueAudioAccept, RecorderPc
<1>14. CASE queueAudioAbandon
       BY <1>14 DEF queueAudioAbandon, RecorderPc
<1>15. CASE fillLo
       BY <1>15, FillFacts DEF fillLo, RecorderPc
<1>16. CASE fillHi
       BY <1>16, FillFacts DEF fillHi, RecorderPc
<1>17. CASE markFilled
       BY <1>17, FillFacts DEF markFilled, RecorderPc
<1>18. CASE sendMessage
       <2>1. Announcement \in Messages
             BY DEF Announcement, Messages
       <2>2. msgs' \in Seq(Messages)
             BY <1>18, <2>1, MessageAppend DEF sendMessage
       <2>3. crashed' \in BOOLEAN
             BY <1>18 DEF sendMessage
       <2>. QED  BY <1>18, <2>2, <2>3 DEF sendMessage, RecorderPc
<1>19. CASE dispatchMessage
       <2>1. message' \in Messages /\ msgs' \in Seq(Messages)
             BY <1>19, MessageTail DEF dispatchMessage
       <2>. QED  BY <1>19, <2>1 DEF dispatchMessage, HandlerPc
<1>20. CASE looperEnds
       BY <1>20 DEF looperEnds, HandlerPc
<1>21. CASE copyHalf("copyLo", 1, "copyHi")
       <2>1. orignAudioBuff' \in Buffers
             BY <1>21, CopyFacts
       <2>. QED  BY <1>21, <2>1 DEF copyHalf, HandlerPc
<1>22. CASE copyHalf("copyHi", 2, "giveBack")
       <2>1. orignAudioBuff' \in Buffers
             BY <1>22, CopyFacts
       <2>. QED  BY <1>22, <2>1 DEF copyHalf, HandlerPc
<1>23. CASE giveBack("giveBack", "tryLock")
       <2>1. isReadyToFill' \in [Indices -> BOOLEAN]
             BY <1>23 DEF giveBack
       <2>. QED  BY <1>23, <2>1 DEF giveBack, HandlerPc
<1>24. CASE copyHalf("recopyLo", 1, "recopyHi")
       <2>1. orignAudioBuff' \in Buffers
             BY <1>24, CopyFacts
       <2>. QED  BY <1>24, <2>1 DEF copyHalf, HandlerPc
<1>25. CASE copyHalf("recopyHi", 2, "giveBackAgain")
       <2>1. orignAudioBuff' \in Buffers
             BY <1>25, CopyFacts
       <2>. QED  BY <1>25, <2>1 DEF copyHalf, HandlerPc
<1>26. CASE giveBack("giveBackAgain", "ready")
       <2>1. isReadyToFill' \in [Indices -> BOOLEAN]
             BY <1>26 DEF giveBack
       <2>. QED  BY <1>26, <2>1 DEF giveBack, HandlerPc
<1>27. CASE tryLockFails
       BY <1>27 DEF tryLockFails, HandlerPc
<1>28. CASE tryLockSucceeds
       BY <1>28 DEF tryLockSucceeds, HandlerPc
<1>29. CASE onFrame
       BY <1>29 DEF onFrame, HandlerPc
<1>30. CASE feedEncoder
       <2>0. /\ Append(encIn, orignAudioBuff) \in Seq(Buffers) /\ Len(encIn) \in Nat
             /\ Len(Append(encIn, orignAudioBuff)) = Len(encIn) + 1
             /\ Append(encoded, orignAudioBuff) \in Seq(Buffers) /\ InSlots \in Nat
             BY BufferAppend, AudioAssumption
       <2>1. encIn' \in Seq(Buffers) /\ Len(encIn') <= InSlots /\ encoded' \in Seq(Buffers)
             <3>1. CASE encoder = "started"
                   <4>1. /\ encIn' = Append(encIn, orignAudioBuff) /\ Len(encIn) < InSlots
                         /\ encoded' = Append(encoded, orignAudioBuff)
                         BY <1>30, <3>1 DEF feedEncoder, InputFree
                   <4>2. Len(encIn') <= InSlots
                         <5>. HIDE DEF TypeOK
                         <5>. QED  BY <2>0, <4>1
                   <4>. QED  BY <2>0, <4>1, <4>2
             <3>2. CASE encoder # "started"
                   BY <1>30, <3>2 DEF feedEncoder
             <3>. QED  BY <3>1, <3>2
       <2>2. hpc' \in HandlerPc /\ crashed' \in BOOLEAN
             BY <1>30 DEF feedEncoder, HandlerPc, Crash
       <2>. QED  BY <1>30, <2>1, <2>2 DEF feedEncoder
<1>31. CASE encode
       <2>1. encOut' \in Seq(Buffers) /\ Len(encOut') <= OutSlots
             BY <1>31, BufferAppend, BufferTail, AudioAssumption DEF encode
       <2>2. encIn' \in Seq(Buffers) /\ Len(encIn') <= InSlots
             BY <1>31, BufferTail, AudioAssumption DEF encode
       <2>. QED  BY <1>31, <2>1, <2>2 DEF encode
<1>32. CASE senderLoop
       BY <1>32 DEF senderLoop, SenderPc, notSender
<1>33. CASE dequeueOutput
       <2>1. ConfigRecord \in Buffers
             BY AudioAssumption DEF ConfigRecord, Whole, Buffers, Frames
       <2>2. /\ encOut' \in Seq(Buffers) /\ Len(encOut') <= OutSlots /\ collected' \in Seq(Buffers)
             <3>1. CASE encoder # "started" \/ encOut = <<>>
                   BY <1>33, <3>1 DEF dequeueOutput
             <3>2. CASE encoder = "started" /\ encOut # <<>> /\ ~formatSent
                   <4>1. encOut' = encOut /\ collected' = Append(collected, ConfigRecord)
                         BY <1>33, <3>2 DEF dequeueOutput
                   <4>2. Append(collected, ConfigRecord) \in Seq(Buffers)
                         BY <2>1, BufferAppend
                   <4>. QED  BY <4>1, <4>2
             <3>3. CASE encoder = "started" /\ encOut # <<>> /\ formatSent
                   <4>1. /\ Tail(encOut) \in Seq(Buffers) /\ Len(Tail(encOut)) = Len(encOut) - 1
                         /\ Len(encOut) \in Nat /\ Head(encOut) \in Buffers /\ OutSlots \in Nat
                         BY <3>3, BufferTail, AudioAssumption
                   <4>2. Append(collected, Head(encOut)) \in Seq(Buffers)
                         BY <4>1, BufferAppend
                   <4>3. encOut' = Tail(encOut) /\ collected' = Append(collected, Head(encOut))
                         BY <1>33, <3>3 DEF dequeueOutput
                   <4>4. Len(encOut') <= OutSlots
                         BY <4>1, <4>3
                   <4>. QED  BY <4>1, <4>2, <4>3, <4>4
             <3>. QED  BY <3>1, <3>2, <3>3
       <2>3. formatSent' \in BOOLEAN /\ crashed' \in BOOLEAN /\ spc' \in SenderPc
             BY <1>33 DEF dequeueOutput, SenderPc
       <2>4. UNCHANGED notSender
             BY <1>33 DEF dequeueOutput
       <2>. QED  BY <2>2, <2>3, <2>4 DEF notSender
<1>34. CASE UNCHANGED vars
       BY <1>34 DEF vars
<1>. QED  BY <1>1, <1>2, <1>3, <1>4, <1>5, <1>6, <1>7, <1>8, <1>9, <1>10, <1>11, <1>12,
             <1>13, <1>14, <1>15, <1>16, <1>17, <1>18, <1>19, <1>20, <1>21, <1>22, <1>23,
             <1>24, <1>25, <1>26, <1>27, <1>28, <1>29, <1>30, <1>31, <1>32, <1>33, <1>34
          DEF Next, client, clientStops, recorder, handleMessage, sender

--------------------------------------------------------------------------------
(* The threads and the encoder of a session.                               *)

LEMMA ControlInit == Init => Control
BY DEF Init, Control, InSession

LEMMA ControlStep == TypeOK /\ Control /\ [Next]_vars => Control'
<1>. SUFFICES ASSUME TypeOK, Control, [Next]_vars
              PROVE  Control'
     OBVIOUS
<1>0. /\ cpc \in ClientPc /\ encoder \in {"created", "started", "null"}
      /\ looper \in {"null", "live", "quit"} /\ crashed \in BOOLEAN /\ startFailed \in BOOLEAN
      BY DEF TypeOK
<1>. USE DEF Control, InSession, ClientPc, ringVars, filterVars, encVars, flagVars,
             sessionVars, notRecorder, notHandler, notSender, Crash
<1>1. CASE start
      BY <1>0, <1>1 DEF start
<1>2. CASE startThrows
      BY <1>0, <1>2 DEF startThrows
<1>3. CASE stop
      BY <1>0, <1>3 DEF stop
<1>4. CASE joinRecorder
      BY <1>0, <1>4 DEF joinRecorder
<1>5. CASE quitLooper
      BY <1>0, <1>5 DEF quitLooper
<1>6. CASE joinHandler
      BY <1>0, <1>6 DEF joinHandler, HandlerJoined
<1>7. CASE joinSender
      BY <1>0, <1>7 DEF joinSender
<1>8. CASE stopEncoder
      BY <1>0, <1>8 DEF stopEncoder
<1>9. CASE lockFilter
      BY <1>0, <1>9 DEF lockFilter
<1>10. CASE \E f \in BOOLEAN : unlockFilter(f)
       BY <1>0, <1>10 DEF unlockFilter
<1>11. CASE recordLoop
       BY <1>0, <1>11 DEF recordLoop
<1>12. CASE recordRead
       BY <1>0, <1>12 DEF recordRead
<1>13. CASE queueAudioAccept
       BY <1>0, <1>13 DEF queueAudioAccept
<1>14. CASE queueAudioAbandon
       BY <1>0, <1>14 DEF queueAudioAbandon
<1>15. CASE fillLo
       BY <1>0, <1>15 DEF fillLo
<1>16. CASE fillHi
       BY <1>0, <1>16 DEF fillHi
<1>17. CASE markFilled
       BY <1>0, <1>17 DEF markFilled
<1>18. CASE sendMessage
       BY <1>0, <1>18 DEF sendMessage
<1>19. CASE dispatchMessage
       BY <1>0, <1>19 DEF dispatchMessage
<1>20. CASE looperEnds
       BY <1>0, <1>20 DEF looperEnds
<1>21. CASE copyHalf("copyLo", 1, "copyHi")
       BY <1>0, <1>21 DEF copyHalf
<1>22. CASE copyHalf("copyHi", 2, "giveBack")
       BY <1>0, <1>22 DEF copyHalf
<1>23. CASE giveBack("giveBack", "tryLock")
       BY <1>0, <1>23 DEF giveBack
<1>24. CASE copyHalf("recopyLo", 1, "recopyHi")
       BY <1>0, <1>24 DEF copyHalf
<1>25. CASE copyHalf("recopyHi", 2, "giveBackAgain")
       BY <1>0, <1>25 DEF copyHalf
<1>26. CASE giveBack("giveBackAgain", "ready")
       BY <1>0, <1>26 DEF giveBack
<1>27. CASE tryLockFails
       BY <1>0, <1>27 DEF tryLockFails
<1>28. CASE tryLockSucceeds
       BY <1>0, <1>28 DEF tryLockSucceeds
<1>29. CASE onFrame
       BY <1>0, <1>29 DEF onFrame
<1>30. CASE feedEncoder
       BY <1>0, <1>30 DEF feedEncoder
<1>31. CASE encode
       BY <1>0, <1>31 DEF encode
<1>32. CASE senderLoop
       BY <1>0, <1>32 DEF senderLoop
<1>33. CASE dequeueOutput
       BY <1>0, <1>33 DEF dequeueOutput
<1>34. CASE UNCHANGED vars
       BY <1>0, <1>34 DEF vars
<1>. QED  BY <1>1, <1>2, <1>3, <1>4, <1>5, <1>6, <1>7, <1>8, <1>9, <1>10, <1>11, <1>12,
             <1>13, <1>14, <1>15, <1>16, <1>17, <1>18, <1>19, <1>20, <1>21, <1>22, <1>23,
             <1>24, <1>25, <1>26, <1>27, <1>28, <1>29, <1>30, <1>31, <1>32, <1>33, <1>34
          DEF Next, client, clientStops, recorder, handleMessage, sender

\* Types hold throughout, and the encoder's input and output buffers are never
\* overrun: feedEncoder and encode wait for a free one.
THEOREM TypeCorrect == Spec => []TypeOK
BY TypeInit, TypeStep, PTL DEF Spec

\* An exception that ends the process (sendMessage or stop on a handler that was
\* never made, a call of an encoder that is not started) needs a start whose
\* encoder could not be configured, in any number of sessions.
THEOREM CrashNeedsFailedStartCorrect == Spec => []CrashNeedsFailedStart
<1>1. Init => TypeOK /\ Control
      BY TypeInit, ControlInit
<1>2. TypeOK /\ Control /\ [Next]_vars => TypeOK' /\ Control'
      BY TypeStep, ControlStep
<1>3. Control => CrashNeedsFailedStart
      BY DEF Control, CrashNeedsFailedStart
<1>. QED  BY <1>1, <1>2, <1>3, PTL DEF Spec

--------------------------------------------------------------------------------
(* The halves of a buffer never become older.                              *)

\* The numbers behind the types.
LEMMA FrameTypes ==
    ASSUME TypeOK
    PROVE  /\ frame \in Nat /\ targetIndex \in Indices
           /\ \A i \in Indices, h \in {1, 2} : buff[i][h] \in Nat
           /\ \A n \in 1 .. Len(msgs) : msgs[n].index \in Indices /\ msgs[n].frame \in Nat
           /\ message.index \in Indices /\ message.frame \in Nat
           /\ \A h \in {1, 2} : orignAudioBuff[h] \in Nat
           /\ Len(msgs) \in Nat /\ lastAudioQueueBuffIndex \in Indices
<1>1. Frames \subseteq Nat
      BY AudioAssumption DEF Frames
<1>2. \A i \in Indices, h \in {1, 2} : buff[i][h] \in Nat
      <2>. SUFFICES ASSUME NEW i \in Indices
                    PROVE  buff[i][1] \in Nat /\ buff[i][2] \in Nat
           OBVIOUS
      <2>1. buff[i] \in Buffers
            BY DEF TypeOK
      <2>. QED  BY <1>1, <2>1, BufferFacts
<1>3. \A n \in 1 .. Len(msgs) : msgs[n].index \in Indices /\ msgs[n].frame \in Nat
      <2>. SUFFICES ASSUME NEW n \in 1 .. Len(msgs)
                    PROVE  msgs[n].index \in Indices /\ msgs[n].frame \in Nat
           OBVIOUS
      <2>1. msgs[n] \in Messages
            BY DEF TypeOK
      <2>. QED  BY <1>1, <2>1 DEF Messages
<1>4. message.index \in Indices /\ message.frame \in Nat /\ frame \in Nat
      BY <1>1 DEF TypeOK, Messages
<1>5. \A h \in {1, 2} : orignAudioBuff[h] \in Nat
      BY <1>1, BufferFacts DEF TypeOK
<1>6. Len(msgs) \in Nat /\ lastAudioQueueBuffIndex \in Indices
      BY DEF TypeOK
<1>. QED  BY <1>2, <1>3, <1>4, <1>5, <1>6, TargetType

LEMMA GrowingInit == Init => Growing
<1>. SUFFICES ASSUME Init
              PROVE  Growing
     OBVIOUS
<1>1. \A i \in Indices, h \in {1, 2} : buff[i][h] = 0
      BY DEF Init, Whole
<1>2. Len(msgs) = 0 /\ frame = 0 /\ hpc = "none" /\ rpc = "none"
      BY DEF Init
<1>. QED  BY <1>1, <1>2 DEF Growing, Busy

\* A step of the recorder's copy replaces a half by the newest frame.
LEMMA FillGrows ==
    ASSUME TypeOK, Growing, fillLo \/ fillHi
    PROVE  \A i \in Indices, h \in {1, 2} :
              buff'[i][h] \in Nat /\ buff[i][h] <= buff'[i][h] /\ buff'[i][h] <= frame
<1>1. /\ \A i \in Indices, h \in {1, 2} : buff[i][h] \in Nat /\ buff[i][h] <= frame
      /\ frame \in Nat /\ targetIndex \in Indices
      BY FrameTypes DEF Growing
<1>2. buff \in [Indices -> Buffers]
      BY DEF TypeOK
<1>3. SUFFICES ASSUME NEW i \in Indices, NEW h \in {1, 2}
               PROVE  /\ buff'[i][h] \in Nat /\ buff[i][h] <= buff'[i][h]
                      /\ buff'[i][h] <= frame
      OBVIOUS
<1>4. buff'[i][h] = buff[i][h] \/ buff'[i][h] = frame
      BY <1>1, <1>2, FillFacts
<1>. QED  BY <1>1, <1>4

LEMMA GrowingStep == TypeOK /\ Growing /\ [Next]_vars => Growing'
<1>. SUFFICES ASSUME TypeOK, Growing, [Next]_vars
              PROVE  Growing'
     OBVIOUS
<1>0. /\ frame \in Nat /\ targetIndex \in Indices
      /\ \A i \in Indices, h \in {1, 2} : buff[i][h] \in Nat
      /\ \A n \in 1 .. Len(msgs) : msgs[n].index \in Indices /\ msgs[n].frame \in Nat
      /\ message.index \in Indices /\ message.frame \in Nat
      /\ \A h \in {1, 2} : orignAudioBuff[h] \in Nat
      /\ Len(msgs) \in Nat /\ lastAudioQueueBuffIndex \in Indices
      BY FrameTypes
<1>. USE DEF Growing, Busy, ringVars, filterVars, encVars, flagVars,
             sessionVars, notRecorder, notHandler, notSender
<1>1. CASE start
      BY <1>0, <1>1 DEF start, targetIndex
<1>2. CASE startThrows
      BY <1>0, <1>2 DEF startThrows, targetIndex
<1>3. CASE stop
      BY <1>0, <1>3 DEF stop, targetIndex
<1>4. CASE joinRecorder
      BY <1>0, <1>4 DEF joinRecorder, targetIndex
<1>5. CASE quitLooper
      <2>1. msgs' = msgs \/ Len(msgs') = 0
            BY <1>5 DEF quitLooper
      <2>2. \A n \in 1 .. Len(msgs'), h \in {1, 2} : msgs'[n].frame <= buff[msgs'[n].index][h]
            BY <1>0, <2>1
      <2>3. UNCHANGED <<ringVars, orignAudioBuff, message, rpc, hpc, frame>>
            BY <1>5 DEF quitLooper
      <2>. QED  BY <2>2, <2>3 DEF targetIndex
<1>6. CASE joinHandler
      BY <1>0, <1>6 DEF joinHandler, targetIndex
<1>7. CASE joinSender
      BY <1>0, <1>7 DEF joinSender, targetIndex
<1>8. CASE stopEncoder
      BY <1>0, <1>8 DEF stopEncoder, targetIndex
<1>9. CASE lockFilter
      BY <1>0, <1>9 DEF lockFilter, targetIndex
<1>10. CASE \E f \in BOOLEAN : unlockFilter(f)
       BY <1>0, <1>10 DEF unlockFilter, targetIndex
<1>11. CASE recordLoop
       BY <1>0, <1>11 DEF recordLoop, targetIndex
<1>12. CASE recordRead
       <2>1. frame' \in Nat /\ frame <= frame'
             BY <1>0, <1>12 DEF recordRead
       <2>2. \A i \in Indices, h \in {1, 2} : buff[i][h] <= frame'
             BY <1>0, <2>1
       <2>. QED  BY <1>12, <2>2 DEF recordRead
<1>13. CASE queueAudioAccept
       BY <1>0, <1>13 DEF queueAudioAccept, targetIndex
<1>14. CASE queueAudioAbandon
       BY <1>0, <1>14 DEF queueAudioAbandon, targetIndex
<1>15. CASE fillLo
       <2>1. \A i \in Indices, h \in {1, 2} :
                buff'[i][h] \in Nat /\ buff[i][h] <= buff'[i][h] /\ buff'[i][h] <= frame
             BY <1>15, FillGrows
       <2>2. targetIndex' = targetIndex /\ buff'[targetIndex][1] = frame
             BY <1>0, <1>15, FillFacts DEF fillLo, targetIndex, TypeOK
       <2>3. /\ \A n \in 1 .. Len(msgs'), h \in {1, 2} :
                   msgs'[n].frame <= buff'[msgs'[n].index][h]
             /\ hpc' \in Busy => \A h \in {1, 2} : message'.frame <= buff'[message'.index][h]
             BY <1>0, <1>15, <2>1 DEF fillLo
       <2>. QED  BY <1>0, <1>15, <2>1, <2>2, <2>3 DEF fillLo
<1>16. CASE fillHi
       <2>1. \A i \in Indices, h \in {1, 2} :
                buff'[i][h] \in Nat /\ buff[i][h] <= buff'[i][h] /\ buff'[i][h] <= frame
             BY <1>16, FillGrows
       <2>2. targetIndex' = targetIndex /\ buff'[targetIndex][2] = frame /\ buff'[targetIndex][1] = frame
             BY <1>0, <1>16, FillFacts DEF fillHi, targetIndex, TypeOK
       <2>3. /\ \A n \in 1 .. Len(msgs'), h \in {1, 2} :
                   msgs'[n].frame <= buff'[msgs'[n].index][h]
             /\ hpc' \in Busy => \A h \in {1, 2} : message'.frame <= buff'[message'.index][h]
             BY <1>0, <1>16, <2>1 DEF fillHi
       <2>. QED  BY <1>0, <1>16, <2>1, <2>2, <2>3 DEF fillHi
<1>17. CASE markFilled
       BY <1>0, <1>17 DEF markFilled, targetIndex
<1>18. CASE sendMessage
       <2>1. /\ msgs' = msgs \/ msgs' = Append(msgs, Announcement)
             /\ Announcement.frame = frame /\ Announcement.index = lastAudioQueueBuffIndex
             BY <1>18 DEF sendMessage, Announcement
       <2>2. \A h \in {1, 2} : Announcement.frame <= buff[Announcement.index][h]
             BY <1>0, <1>18, <2>1 DEF sendMessage
       <2>3. Announcement \in Messages /\ msgs \in Seq(Messages)
             BY DEF TypeOK, Announcement, Messages
       <2>4. \A n \in 1 .. Len(msgs'), h \in {1, 2} : msgs'[n].frame <= buff[msgs'[n].index][h]
             <3>1. CASE msgs' = Append(msgs, Announcement)
                   <4>1. /\ Len(msgs') = Len(msgs) + 1 /\ msgs'[Len(msgs) + 1] = Announcement
                         /\ \A n \in 1 .. Len(msgs) : msgs'[n] = msgs[n]
                         BY <2>3, <3>1, MessageAppend
                   <4>2. \A n \in 1 .. Len(msgs') : n = Len(msgs) + 1 \/ n \in 1 .. Len(msgs)
                         BY <1>0, <4>1
                   <4>. QED  BY <2>2, <4>1, <4>2
             <3>. QED  BY <2>1, <3>1
       <2>. QED  BY <1>18, <2>4 DEF sendMessage
<1>19. CASE dispatchMessage
       <2>1. /\ Len(msgs') = Len(msgs) - 1 /\ 1 \in 1 .. Len(msgs) /\ message' = msgs[1]
             /\ \A n \in 1 .. Len(msgs) - 1 : msgs'[n] = msgs[n + 1]
             BY <1>0, <1>19, MessageTail DEF dispatchMessage, TypeOK
       <2>2. \A n \in 1 .. Len(msgs') : n \in 1 .. Len(msgs) - 1 /\ n + 1 \in 1 .. Len(msgs)
             BY <1>0, <2>1
       <2>3. \A n \in 1 .. Len(msgs'), h \in {1, 2} : msgs'[n].frame <= buff[msgs'[n].index][h]
             BY <2>1, <2>2
       <2>4. \A h \in {1, 2} : message'.frame <= buff[message'.index][h]
             BY <2>1
       <2>. QED  BY <1>19, <2>3, <2>4 DEF dispatchMessage, targetIndex
<1>20. CASE looperEnds
       BY <1>0, <1>20 DEF looperEnds, targetIndex
<1>21. CASE copyHalf("copyLo", 1, "copyHi")
       <2>1. orignAudioBuff' = <<buff[message.index][1], orignAudioBuff[2]>>
             BY <1>21, CopyFacts
       <2>2. orignAudioBuff'[1] = buff[message.index][1] /\ orignAudioBuff'[2] = orignAudioBuff[2]
             BY <2>1
       <2>. QED  BY <1>0, <1>21, <2>2 DEF copyHalf, targetIndex
<1>22. CASE copyHalf("copyHi", 2, "giveBack")
       <2>1. orignAudioBuff' = <<orignAudioBuff[1], buff[message.index][2]>>
             BY <1>22, CopyFacts
       <2>2. orignAudioBuff'[1] = orignAudioBuff[1] /\ orignAudioBuff'[2] = buff[message.index][2]
             BY <2>1
       <2>. QED  BY <1>0, <1>22, <2>2 DEF copyHalf, targetIndex
<1>23. CASE giveBack("giveBack", "tryLock")
       BY <1>0, <1>23 DEF giveBack, targetIndex
<1>24. CASE copyHalf("recopyLo", 1, "recopyHi")
       <2>1. orignAudioBuff' = <<buff[message.index][1], orignAudioBuff[2]>>
             BY <1>24, CopyFacts
       <2>2. orignAudioBuff'[1] = buff[message.index][1] /\ orignAudioBuff'[2] = orignAudioBuff[2]
             BY <2>1
       <2>. QED  BY <1>0, <1>24, <2>2 DEF copyHalf, targetIndex
<1>25. CASE copyHalf("recopyHi", 2, "giveBackAgain")
       <2>1. orignAudioBuff' = <<orignAudioBuff[1], buff[message.index][2]>>
             BY <1>25, CopyFacts
       <2>2. orignAudioBuff'[1] = orignAudioBuff[1] /\ orignAudioBuff'[2] = buff[message.index][2]
             BY <2>1
       <2>. QED  BY <1>0, <1>25, <2>2 DEF copyHalf, targetIndex
<1>26. CASE giveBack("giveBackAgain", "ready")
       BY <1>0, <1>26 DEF giveBack, targetIndex
<1>27. CASE tryLockFails
       BY <1>0, <1>27 DEF tryLockFails, targetIndex
<1>28. CASE tryLockSucceeds
       BY <1>0, <1>28 DEF tryLockSucceeds, targetIndex
<1>29. CASE onFrame
       BY <1>0, <1>29 DEF onFrame, targetIndex
<1>30. CASE feedEncoder
       BY <1>0, <1>30 DEF feedEncoder, targetIndex
<1>31. CASE encode
       BY <1>0, <1>31 DEF encode, targetIndex
<1>32. CASE senderLoop
       BY <1>0, <1>32 DEF senderLoop, targetIndex
<1>33. CASE dequeueOutput
       BY <1>0, <1>33 DEF dequeueOutput, targetIndex
<1>34. CASE UNCHANGED vars
       BY <1>0, <1>34 DEF vars, targetIndex
<1>. QED  BY <1>1, <1>2, <1>3, <1>4, <1>5, <1>6, <1>7, <1>8, <1>9, <1>10, <1>11, <1>12,
             <1>13, <1>14, <1>15, <1>16, <1>17, <1>18, <1>19, <1>20, <1>21, <1>22, <1>23,
             <1>24, <1>25, <1>26, <1>27, <1>28, <1>29, <1>30, <1>31, <1>32, <1>33, <1>34
          DEF Next, client, clientStops, recorder, handleMessage, sender

\* With a filter or without one, no half of the copy that goes to the encoder
\* is older than the frame that the handler's message announced.
THEOREM NeverStaleCorrect == Spec => []NeverStale
<1>1. Init => TypeOK /\ Growing
      BY TypeInit, GrowingInit
<1>2. TypeOK /\ Growing /\ [Next]_vars => TypeOK' /\ Growing'
      BY TypeStep, GrowingStep
<1>3. TypeOK /\ Growing => NeverStale
      BY FrameTypes DEF Growing, Busy, NeverStale
<1>. QED  BY <1>1, <1>2, <1>3, PTL DEF Spec

--------------------------------------------------------------------------------
(* A filter that nobody else locks: one is installed before the first      *)
(* start, and MaxFilterOps = 0 says that no client is ever inside          *)
(* acquireAudioFilter or setAudioFilter after that.                        *)

LEMMA FilteredInit ==
    ASSUME InitialFilter
    PROVE  Init => Filtered
BY DEF Init, Filtered

LEMMA FilteredStep ==
    ASSUME MaxFilterOps = 0
    PROVE  Control /\ Filtered /\ [Next]_vars => Filtered'
<1>. SUFFICES ASSUME Control, Filtered, [Next]_vars
              PROVE  Filtered'
     OBVIOUS
<1>. USE DEF Filtered, ringVars, filterVars, encVars, flagVars,
             sessionVars, notRecorder, notHandler, notSender
<1>1. CASE start
      BY <1>1 DEF start, Control
<1>2. CASE startThrows
      BY <1>2 DEF startThrows
<1>3. CASE stop
      BY <1>3 DEF stop
<1>4. CASE joinRecorder
      BY <1>4 DEF joinRecorder
<1>5. CASE quitLooper
      BY <1>5 DEF quitLooper
<1>6. CASE joinHandler
      BY <1>6 DEF joinHandler
<1>7. CASE joinSender
      BY <1>7 DEF joinSender
<1>8. CASE stopEncoder
      BY <1>8 DEF stopEncoder
<1>9. CASE lockFilter
      BY <1>9 DEF lockFilter
<1>10. CASE \E f \in BOOLEAN : unlockFilter(f)
       BY <1>10 DEF unlockFilter
<1>11. CASE recordLoop
       BY <1>11 DEF recordLoop
<1>12. CASE recordRead
       BY <1>12 DEF recordRead
<1>13. CASE queueAudioAccept
       BY <1>13 DEF queueAudioAccept
<1>14. CASE queueAudioAbandon
       BY <1>14 DEF queueAudioAbandon
<1>15. CASE fillLo
       BY <1>15 DEF fillLo
<1>16. CASE fillHi
       BY <1>16 DEF fillHi
<1>17. CASE markFilled
       BY <1>17 DEF markFilled
<1>18. CASE sendMessage
       BY <1>18 DEF sendMessage
<1>19. CASE dispatchMessage
       BY <1>19 DEF dispatchMessage
<1>20. CASE looperEnds
       BY <1>20 DEF looperEnds
<1>21. CASE copyHalf("copyLo", 1, "copyHi")
       BY <1>21 DEF copyHalf
<1>22. CASE copyHalf("copyHi", 2, "giveBack")
       BY <1>22 DEF copyHalf
<1>23. CASE giveBack("giveBack", "tryLock")
       BY <1>23 DEF giveBack
<1>24. CASE copyHalf("recopyLo", 1, "recopyHi")
       BY <1>24 DEF copyHalf
<1>25. CASE copyHalf("recopyHi", 2, "giveBackAgain")
       BY <1>25 DEF copyHalf
<1>26. CASE giveBack("giveBackAgain", "ready")
       BY <1>26 DEF giveBack
<1>27. CASE tryLockFails
       BY <1>27 DEF tryLockFails, TryFails
<1>28. CASE tryLockSucceeds
       BY <1>28 DEF tryLockSucceeds
<1>29. CASE onFrame
       BY <1>29 DEF onFrame
<1>30. CASE feedEncoder
       BY <1>30 DEF feedEncoder
<1>31. CASE encode
       BY <1>31 DEF encode
<1>32. CASE senderLoop
       BY <1>32 DEF senderLoop
<1>33. CASE dequeueOutput
       BY <1>33 DEF dequeueOutput
<1>34. CASE UNCHANGED vars
       BY <1>34 DEF vars
<1>. QED  BY <1>1, <1>2, <1>3, <1>4, <1>5, <1>6, <1>7, <1>8, <1>9, <1>10, <1>11, <1>12,
             <1>13, <1>14, <1>15, <1>16, <1>17, <1>18, <1>19, <1>20, <1>21, <1>22, <1>23,
             <1>24, <1>25, <1>26, <1>27, <1>28, <1>29, <1>30, <1>31, <1>32, <1>33, <1>34
          DEF Next, client, clientStops, recorder, handleMessage, sender

--------------------------------------------------------------------------------
(* Who a buffer of the ring belongs to.                                    *)

\* A step that leaves the ring, the queue and the handler's message alone.
LEMMA RingKeep ==
    ASSUME Ring, UNCHANGED <<isReadyToFill, lastAudioQueueBuffIndex, msgs, message>>,
           rpc' = "send" <=> rpc = "send",
           rpc' \in Filling => rpc \in Filling \/ isReadyToFill[targetIndex],
           hpc' \in Holding <=> hpc \in Holding
    PROVE  Ring'
BY DEF Ring, Announced, Holding, targetIndex

\* In a session that has a handler every buffer is free at the start ...
LEMMA RingStart ==
    ASSUME msgs = <<>>, start
    PROVE  Ring'
<1>1. Len(msgs') = 0 /\ rpc' = "loop" /\ hpc' = "idle"
      BY DEF start
<1>2. \A i \in Indices : isReadyToFill'[i]
      BY DEF start, Freed
<1>. QED  BY <1>1, <1>2 DEF Ring, Announced, Holding, Filling

\* ... it is announced once it is filled ...
LEMMA RingMark ==
    ASSUME TypeOK, Ring, markFilled
    PROVE  Ring'
<1>1. /\ targetIndex \in Indices /\ isReadyToFill \in [Indices -> BOOLEAN]
      /\ isReadyToFill' = [isReadyToFill EXCEPT ![targetIndex] = FALSE]
      /\ lastAudioQueueBuffIndex' = targetIndex
      /\ msgs' = msgs /\ message' = message /\ hpc' = hpc
      /\ rpc = "mark" /\ rpc' = "send"
      BY FrameTypes DEF TypeOK, markFilled, notRecorder
<1>2. isReadyToFill[targetIndex] /\ ~Announced(targetIndex)
      BY <1>1 DEF Ring, Filling
<1>3. /\ \A n \in 1 .. Len(msgs) : msgs[n].index # targetIndex
      /\ hpc \in Holding => message.index # targetIndex
      BY <1>2 DEF Announced, Holding
<1>4. \A i \in Indices : Announced(i)' <=> Announced(i) \/ i = targetIndex
      BY <1>1 DEF Announced
<1>5. \A i \in Indices : isReadyToFill'[i] <=> ~Announced(i)'
      BY <1>1, <1>4 DEF Ring
<1>. QED  BY <1>1, <1>3, <1>5 DEF Ring, Filling

\* ... the message moves from the recorder to the queue ...
LEMMA RingSend ==
    ASSUME TypeOK, Ring, sendMessage, looper = "live"
    PROVE  Ring'
<1>1. /\ isReadyToFill' = isReadyToFill /\ lastAudioQueueBuffIndex' = lastAudioQueueBuffIndex
      /\ message' = message /\ hpc' = hpc /\ rpc = "send" /\ rpc' = "loop"
      /\ msgs' = Append(msgs, Announcement) /\ Announcement.index = lastAudioQueueBuffIndex
      BY DEF sendMessage, Announcement, ringVars, notRecorder
<1>2. Announcement \in Messages /\ msgs \in Seq(Messages)
      BY DEF TypeOK, Announcement, Messages
<1>3. /\ Len(msgs') = Len(msgs) + 1 /\ msgs'[Len(msgs) + 1] = Announcement
      /\ Len(msgs) \in Nat /\ \A n \in 1 .. Len(msgs) : msgs'[n] = msgs[n]
      BY <1>1, <1>2, MessageAppend
<1>4. /\ \A n \in 1 .. Len(msgs') : n = Len(msgs) + 1 \/ n \in 1 .. Len(msgs)
      /\ \A n \in 1 .. Len(msgs) : n \in 1 .. Len(msgs') /\ n # Len(msgs) + 1
      /\ Len(msgs) + 1 \in 1 .. Len(msgs')
      BY <1>3
<1>. HIDE DEF sendMessage
<1>5. \A i \in Indices : Announced(i)' <=> Announced(i)
      <2>. SUFFICES ASSUME NEW i \in Indices
                    PROVE  Announced(i)' <=> Announced(i)
           OBVIOUS
      <2>1. (\E n \in 1 .. Len(msgs') : msgs'[n].index = i)
               <=> (\E n \in 1 .. Len(msgs) : msgs[n].index = i) \/ lastAudioQueueBuffIndex = i
            BY <1>1, <1>3, <1>4
      <2>. QED  BY <1>1, <2>1 DEF Announced
<1>6. \A m, n \in 1 .. Len(msgs') : m # n => msgs'[m].index # msgs'[n].index
      BY <1>1, <1>3, <1>4 DEF Ring
<1>7. \A n \in 1 .. Len(msgs') : hpc \in Holding => msgs'[n].index # message.index
      BY <1>1, <1>3, <1>4 DEF Ring
<1>. QED  BY <1>1, <1>5, <1>6, <1>7 DEF Ring, Filling

\* ... and from the queue to the handler ...
LEMMA RingDispatch ==
    ASSUME TypeOK, Ring, dispatchMessage
    PROVE  Ring'
<1>1. /\ isReadyToFill' = isReadyToFill /\ lastAudioQueueBuffIndex' = lastAudioQueueBuffIndex
      /\ hpc = "idle" /\ hpc' = "copyLo" /\ rpc' = rpc
      /\ message' = Head(msgs) /\ msgs' = Tail(msgs) /\ msgs # <<>> /\ msgs \in Seq(Messages)
      BY DEF TypeOK, dispatchMessage, notHandler
<1>2. /\ Len(msgs') = Len(msgs) - 1 /\ Len(msgs) \in Nat \ {0} /\ message' = msgs[1]
      /\ \A n \in 1 .. Len(msgs) - 1 : msgs'[n] = msgs[n + 1]
      BY <1>1, MessageTail
<1>3. /\ \A n \in 1 .. Len(msgs') : /\ n \in 1 .. Len(msgs) - 1
                                   /\ n + 1 \in 1 .. Len(msgs) /\ n + 1 # 1
      /\ \A n \in 1 .. Len(msgs) : n = 1 \/ (n - 1 \in 1 .. Len(msgs') /\ (n - 1) + 1 = n)
      /\ 1 \in 1 .. Len(msgs)
      /\ \A m, n \in 1 .. Len(msgs') : m # n => m + 1 # n + 1
      BY <1>2
<1>4. \A n \in 1 .. Len(msgs') : msgs'[n] = msgs[n + 1]
      BY <1>2, <1>3
<1>5. \A i \in Indices : Announced(i)' <=> Announced(i)
      <2>. SUFFICES ASSUME NEW i \in Indices
                    PROVE  Announced(i)' <=> Announced(i)
           OBVIOUS
      <2>1. (\E n \in 1 .. Len(msgs) : msgs[n].index = i)
               <=> (\E n \in 1 .. Len(msgs') : msgs'[n].index = i) \/ message'.index = i
            <3>1. ASSUME NEW n \in 1 .. Len(msgs), msgs[n].index = i
                  PROVE  (\E k \in 1 .. Len(msgs') : msgs'[k].index = i) \/ message'.index = i
                  <4>1. CASE n = 1
                        BY <1>2, <3>1, <4>1
                  <4>2. CASE n - 1 \in 1 .. Len(msgs') /\ (n - 1) + 1 = n
                        <5>1. msgs'[n - 1] = msgs[n]
                              BY <1>4, <4>2
                        <5>. QED  BY <3>1, <4>2, <5>1
                  <4>. QED  BY <1>3, <4>1, <4>2
            <3>2. ASSUME NEW n \in 1 .. Len(msgs'), msgs'[n].index = i
                  PROVE  \E k \in 1 .. Len(msgs) : msgs[k].index = i
                  BY <1>3, <1>4, <3>2
            <3>. QED  BY <1>2, <1>3, <3>1, <3>2
      <2>. QED  BY <1>1, <2>1 DEF Announced
<1>6. \A m, n \in 1 .. Len(msgs') : m # n => msgs'[m].index # msgs'[n].index
      BY <1>3, <1>4 DEF Ring
<1>7. \A n \in 1 .. Len(msgs') :
         /\ rpc = "send" => msgs'[n].index # lastAudioQueueBuffIndex
         /\ msgs'[n].index # message'.index
      BY <1>2, <1>3, <1>4 DEF Ring
<1>8. rpc = "send" => message'.index # lastAudioQueueBuffIndex
      BY <1>2, <1>3 DEF Ring
<1>9. targetIndex' = targetIndex
      BY <1>1 DEF targetIndex
<1>. QED  BY <1>1, <1>5, <1>6, <1>7, <1>8, <1>9 DEF Ring

\* ... which makes the buffer ready again when it has copied it.
LEMMA RingGiveBack ==
    ASSUME TypeOK, Ring, giveBack("giveBack", "tryLock")
    PROVE  Ring'
<1>1. /\ message.index \in Indices /\ isReadyToFill \in [Indices -> BOOLEAN]
      /\ isReadyToFill' = [isReadyToFill EXCEPT ![message.index] = TRUE]
      /\ lastAudioQueueBuffIndex' = lastAudioQueueBuffIndex /\ msgs' = msgs
      /\ message' = message /\ hpc = "giveBack" /\ hpc' = "tryLock" /\ rpc' = rpc
      BY FrameTypes DEF TypeOK, giveBack, notHandler
<1>2. /\ targetIndex' = targetIndex /\ targetIndex \in Indices
      BY <1>1, FrameTypes DEF targetIndex
<1>3. /\ \A n \in 1 .. Len(msgs) : msgs[n].index # message.index
      /\ rpc = "send" => message.index # lastAudioQueueBuffIndex
      BY <1>1 DEF Ring, Holding
<1>4. \A i \in Indices : Announced(i)' <=> Announced(i) /\ i # message.index
      BY <1>1, <1>3 DEF Announced
<1>5. \A i \in Indices : isReadyToFill'[i] <=> ~Announced(i)'
      BY <1>1, <1>4 DEF Ring
<1>. QED  BY <1>1, <1>2, <1>3, <1>5 DEF Ring, Holding

LEMMA OwnedInit == Init => Owned
BY DEF Init, Owned, InSession

LEMMA OwnedStep ==
    TypeOK /\ Control /\ Filtered /\ Owned /\ [Next]_vars => Owned'
<1>. SUFFICES ASSUME TypeOK, Control, Filtered, Owned, [Next]_vars, InSession', ~startFailed'
              PROVE  Ring'
     BY DEF Owned
<1>. USE DEF InSession, ringVars, filterVars, encVars, flagVars,
             sessionVars, notRecorder, notHandler, notSender
<1>1. CASE start
      <2>1. msgs = <<>>
            BY <1>1 DEF Control, start
      <2>. QED  BY <1>1, <2>1, RingStart
<1>2. CASE startThrows
      BY <1>2 DEF startThrows
<1>3. CASE stop
      <2>1. Ring
            BY <1>3 DEF Owned, stop
      <2>2. /\ UNCHANGED <<isReadyToFill, lastAudioQueueBuffIndex, msgs, message>>
            /\ rpc' = "send" <=> rpc = "send"
            /\ rpc' \in Filling => rpc \in Filling \/ isReadyToFill[targetIndex]
            /\ hpc' \in Holding <=> hpc \in Holding
            BY <1>3 DEF stop, Filling, Holding
      <2>. QED  BY <2>1, <2>2, RingKeep
<1>4. CASE joinRecorder
      <2>1. Ring
            BY <1>4 DEF Owned, joinRecorder
      <2>2. /\ UNCHANGED <<isReadyToFill, lastAudioQueueBuffIndex, msgs, message>>
            /\ rpc' = "send" <=> rpc = "send"
            /\ rpc' \in Filling => rpc \in Filling \/ isReadyToFill[targetIndex]
            /\ hpc' \in Holding <=> hpc \in Holding
            BY <1>4 DEF joinRecorder, Filling, Holding
      <2>. QED  BY <2>1, <2>2, RingKeep
<1>5. CASE quitLooper
      BY <1>5 DEF quitLooper, Control
<1>6. CASE joinHandler
      BY <1>6 DEF joinHandler
<1>7. CASE joinSender
      BY <1>7 DEF joinSender
<1>8. CASE stopEncoder
      BY <1>8 DEF stopEncoder
<1>9. CASE lockFilter
      <2>1. Ring
            BY <1>9 DEF Owned, lockFilter
      <2>. QED  BY <1>9, <2>1, RingKeep DEF lockFilter
<1>10. CASE \E f \in BOOLEAN : unlockFilter(f)
       BY <1>10 DEF unlockFilter, Filtered
<1>11. CASE recordLoop
       <2>1. Ring
             BY <1>11 DEF Owned, recordLoop
       <2>2. /\ UNCHANGED <<isReadyToFill, lastAudioQueueBuffIndex, msgs, message>>
             /\ rpc' = "send" <=> rpc = "send"
             /\ rpc' \in Filling => rpc \in Filling \/ isReadyToFill[targetIndex]
             /\ hpc' \in Holding <=> hpc \in Holding
             BY <1>11 DEF recordLoop, Filling, Holding
       <2>. QED  BY <2>1, <2>2, RingKeep
<1>12. CASE recordRead
       <2>1. Ring
             BY <1>12 DEF Owned, recordRead
       <2>2. /\ UNCHANGED <<isReadyToFill, lastAudioQueueBuffIndex, msgs, message>>
             /\ rpc' = "send" <=> rpc = "send"
             /\ rpc' \in Filling => rpc \in Filling \/ isReadyToFill[targetIndex]
             /\ hpc' \in Holding <=> hpc \in Holding
             BY <1>12 DEF recordRead, Filling, Holding
       <2>. QED  BY <2>1, <2>2, RingKeep
<1>13. CASE queueAudioAccept
       <2>1. Ring
             BY <1>13 DEF Owned, queueAudioAccept
       <2>2. /\ UNCHANGED <<isReadyToFill, lastAudioQueueBuffIndex, msgs, message>>
             /\ rpc' = "send" <=> rpc = "send"
             /\ rpc' \in Filling => rpc \in Filling \/ isReadyToFill[targetIndex]
             /\ hpc' \in Holding <=> hpc \in Holding
             BY <1>13 DEF queueAudioAccept, MayFill, Filling, Holding
       <2>. QED  BY <2>1, <2>2, RingKeep
<1>14. CASE queueAudioAbandon
       <2>1. Ring
             BY <1>14 DEF Owned, queueAudioAbandon
       <2>2. /\ UNCHANGED <<isReadyToFill, lastAudioQueueBuffIndex, msgs, message>>
             /\ rpc' = "send" <=> rpc = "send"
             /\ rpc' \in Filling => rpc \in Filling \/ isReadyToFill[targetIndex]
             /\ hpc' \in Holding <=> hpc \in Holding
             BY <1>14 DEF queueAudioAbandon, Filling, Holding
       <2>. QED  BY <2>1, <2>2, RingKeep
<1>15. CASE fillLo
       <2>1. Ring
             BY <1>15 DEF Owned, fillLo
       <2>2. /\ UNCHANGED <<isReadyToFill, lastAudioQueueBuffIndex, msgs, message>>
             /\ rpc' = "send" <=> rpc = "send"
             /\ rpc' \in Filling => rpc \in Filling \/ isReadyToFill[targetIndex]
             /\ hpc' \in Holding <=> hpc \in Holding
             BY <1>15 DEF fillLo, Filling, Holding
       <2>. QED  BY <2>1, <2>2, RingKeep
<1>16. CASE fillHi
       <2>1. Ring
             BY <1>16 DEF Owned, fillHi
       <2>2. /\ UNCHANGED <<isReadyToFill, lastAudioQueueBuffIndex, msgs, message>>
             /\ rpc' = "send" <=> rpc = "send"
             /\ rpc' \in Filling => rpc \in Filling \/ isReadyToFill[targetIndex]
             /\ hpc' \in Holding <=> hpc \in Holding
             BY <1>16 DEF fillHi, Filling, Holding
       <2>. QED  BY <2>1, <2>2, RingKeep
<1>17. CASE markFilled
       <2>1. Ring
             BY <1>17 DEF Owned, markFilled
       <2>. QED  BY <1>17, <2>1, RingMark
<1>18. CASE sendMessage
       <2>1. Ring /\ looper = "live"
             BY <1>18 DEF Owned, Control, sendMessage
       <2>. QED  BY <1>18, <2>1, RingSend
<1>19. CASE dispatchMessage
       <2>1. Ring
             BY <1>19 DEF Owned, dispatchMessage
       <2>. QED  BY <1>19, <2>1, RingDispatch
<1>20. CASE looperEnds
       <2>1. Ring
             BY <1>20 DEF Owned, looperEnds
       <2>2. /\ UNCHANGED <<isReadyToFill, lastAudioQueueBuffIndex, msgs, message>>
             /\ rpc' = "send" <=> rpc = "send"
             /\ rpc' \in Filling => rpc \in Filling \/ isReadyToFill[targetIndex]
             /\ hpc' \in Holding <=> hpc \in Holding
             BY <1>20 DEF looperEnds, Filling, Holding
       <2>. QED  BY <2>1, <2>2, RingKeep
<1>21. CASE copyHalf("copyLo", 1, "copyHi")
       <2>1. Ring
             BY <1>21 DEF Owned, copyHalf
       <2>2. /\ UNCHANGED <<isReadyToFill, lastAudioQueueBuffIndex, msgs, message>>
             /\ rpc' = "send" <=> rpc = "send"
             /\ rpc' \in Filling => rpc \in Filling \/ isReadyToFill[targetIndex]
             /\ hpc' \in Holding <=> hpc \in Holding
             BY <1>21 DEF copyHalf, Filling, Holding
       <2>. QED  BY <2>1, <2>2, RingKeep
<1>22. CASE copyHalf("copyHi", 2, "giveBack")
       <2>1. Ring
             BY <1>22 DEF Owned, copyHalf
       <2>2. /\ UNCHANGED <<isReadyToFill, lastAudioQueueBuffIndex, msgs, message>>
             /\ rpc' = "send" <=> rpc = "send"
             /\ rpc' \in Filling => rpc \in Filling \/ isReadyToFill[targetIndex]
             /\ hpc' \in Holding <=> hpc \in Holding
             BY <1>22 DEF copyHalf, Filling, Holding
       <2>. QED  BY <2>1, <2>2, RingKeep
<1>23. CASE giveBack("giveBack", "tryLock")
       <2>1. Ring
             BY <1>23 DEF Owned, giveBack
       <2>. QED  BY <1>23, <2>1, RingGiveBack
<1>24. CASE copyHalf("recopyLo", 1, "recopyHi")
       BY <1>24 DEF copyHalf, Filtered
<1>25. CASE copyHalf("recopyHi", 2, "giveBackAgain")
       BY <1>25 DEF copyHalf, Filtered
<1>26. CASE giveBack("giveBackAgain", "ready")
       BY <1>26 DEF giveBack, Filtered
<1>27. CASE tryLockFails
       <2>1. Ring
             BY <1>27 DEF Owned, tryLockFails
       <2>2. /\ UNCHANGED <<isReadyToFill, lastAudioQueueBuffIndex, msgs, message>>
             /\ rpc' = "send" <=> rpc = "send"
             /\ rpc' \in Filling => rpc \in Filling \/ isReadyToFill[targetIndex]
             /\ hpc' \in Holding <=> hpc \in Holding
             BY <1>27 DEF tryLockFails, Filling, Holding
       <2>. QED  BY <2>1, <2>2, RingKeep
<1>28. CASE tryLockSucceeds
       <2>1. Ring
             BY <1>28 DEF Owned, tryLockSucceeds
       <2>2. /\ UNCHANGED <<isReadyToFill, lastAudioQueueBuffIndex, msgs, message>>
             /\ rpc' = "send" <=> rpc = "send"
             /\ rpc' \in Filling => rpc \in Filling \/ isReadyToFill[targetIndex]
             /\ hpc' \in Holding <=> hpc \in Holding
             BY <1>28 DEF tryLockSucceeds, Filling, Holding
       <2>. QED  BY <2>1, <2>2, RingKeep
<1>29. CASE onFrame
       <2>1. Ring
             BY <1>29 DEF Owned, onFrame
       <2>2. /\ UNCHANGED <<isReadyToFill, lastAudioQueueBuffIndex, msgs, message>>
             /\ rpc' = "send" <=> rpc = "send"
             /\ rpc' \in Filling => rpc \in Filling \/ isReadyToFill[targetIndex]
             /\ hpc' \in Holding <=> hpc \in Holding
             BY <1>29 DEF onFrame, Filling, Holding
       <2>. QED  BY <2>1, <2>2, RingKeep
<1>30. CASE feedEncoder
       <2>1. Ring
             BY <1>30 DEF Owned, feedEncoder
       <2>2. /\ UNCHANGED <<isReadyToFill, lastAudioQueueBuffIndex, msgs, message>>
             /\ rpc' = "send" <=> rpc = "send"
             /\ rpc' \in Filling => rpc \in Filling \/ isReadyToFill[targetIndex]
             /\ hpc' \in Holding <=> hpc \in Holding
             BY <1>30 DEF feedEncoder, Crash, Filling, Holding
       <2>. QED  BY <2>1, <2>2, RingKeep
<1>31. CASE encode
       <2>1. Ring
             BY <1>31 DEF Owned, encode
       <2>2. /\ UNCHANGED <<isReadyToFill, lastAudioQueueBuffIndex, msgs, message>>
             /\ rpc' = "send" <=> rpc = "send"
             /\ rpc' \in Filling => rpc \in Filling \/ isReadyToFill[targetIndex]
             /\ hpc' \in Holding <=> hpc \in Holding
             BY <1>31 DEF encode, Filling, Holding
       <2>. QED  BY <2>1, <2>2, RingKeep
<1>32. CASE senderLoop
       <2>1. Ring
             BY <1>32 DEF Owned, senderLoop
       <2>2. /\ UNCHANGED <<isReadyToFill, lastAudioQueueBuffIndex, msgs, message>>
             /\ rpc' = "send" <=> rpc = "send"
             /\ rpc' \in Filling => rpc \in Filling \/ isReadyToFill[targetIndex]
             /\ hpc' \in Holding <=> hpc \in Holding
             BY <1>32 DEF senderLoop, Filling, Holding
       <2>. QED  BY <2>1, <2>2, RingKeep
<1>33. CASE dequeueOutput
       <2>1. Ring
             BY <1>33 DEF Owned, dequeueOutput
       <2>2. /\ UNCHANGED <<isReadyToFill, lastAudioQueueBuffIndex, msgs, message>>
             /\ rpc' = "send" <=> rpc = "send"
             /\ rpc' \in Filling => rpc \in Filling \/ isReadyToFill[targetIndex]
             /\ hpc' \in Holding <=> hpc \in Holding
             BY <1>33 DEF dequeueOutput, Filling, Holding
       <2>. QED  BY <2>1, <2>2, RingKeep
<1>34. CASE UNCHANGED vars
       <2>1. Ring
             BY <1>34 DEF Owned, vars
       <2>2. /\ UNCHANGED <<isReadyToFill, lastAudioQueueBuffIndex, msgs, message>>
             /\ rpc' = "send" <=> rpc = "send"
             /\ rpc' \in Filling => rpc \in Filling \/ isReadyToFill[targetIndex]
             /\ hpc' \in Holding <=> hpc \in Holding
             BY <1>34 DEF vars, Filling, Holding
       <2>. QED  BY <2>1, <2>2, RingKeep
<1>. QED  BY <1>1, <1>2, <1>3, <1>4, <1>5, <1>6, <1>7, <1>8, <1>9, <1>10, <1>11, <1>12,
             <1>13, <1>14, <1>15, <1>16, <1>17, <1>18, <1>19, <1>20, <1>21, <1>22, <1>23,
             <1>24, <1>25, <1>26, <1>27, <1>28, <1>29, <1>30, <1>31, <1>32, <1>33, <1>34
          DEF Next, client, clientStops, recorder, handleMessage, sender

\* The handler's queue is never longer than the ring: its messages name
\* different buffers.
LEMMA QueueFits ==
    ASSUME TypeOK, Ring
    PROVE  Len(msgs) <= audioBufferQueueNum
<1>1. /\ audioBufferQueueNum \in Nat \ {0} /\ Len(msgs) \in Nat
      /\ \A n \in 1 .. Len(msgs) : msgs[n].index \in Indices
      BY AudioAssumption, FrameTypes
<1>2. IsFiniteSet(Indices) /\ Cardinality(Indices) = audioBufferQueueNum
      BY <1>1, FS_Interval DEF Indices
<1>3. IsFiniteSet(1 .. Len(msgs)) /\ Cardinality(1 .. Len(msgs)) = Len(msgs)
      <2>1. 1 \in Int /\ Len(msgs) \in Int
            BY <1>1
      <2>2. /\ IsFiniteSet(1 .. Len(msgs))
            /\ Cardinality(1 .. Len(msgs)) = IF 1 > Len(msgs) THEN 0 ELSE Len(msgs) - 1 + 1
            BY <2>1, FS_Interval
      <2>. QED  BY <1>1, <2>2
<1>. SUFFICES ASSUME audioBufferQueueNum < Len(msgs)
              PROVE  FALSE
     BY <1>1
<1>. DEFINE f == [n \in 1 .. Len(msgs) |-> msgs[n].index]
<1>4. f \in [1 .. Len(msgs) -> Indices]
      BY <1>1
<1>5. \E m, n \in 1 .. Len(msgs) : m # n /\ f[m] = f[n]
      <2>. HIDE DEF f
      <2>. QED  BY <1>2, <1>3, <1>4, FS_PigeonHole
<1>. QED  BY <1>5 DEF Ring

\* With a filter that nobody else locks, a buffer is marked ready to fill
\* exactly while it is not announced, whatever the size of the ring, in every
\* session until one whose encoder could not be started.
THEOREM RingOwnershipCorrect ==
    ASSUME InitialFilter, MaxFilterOps = 0
    PROVE  Spec => [](~startFailed => RingOwnership)
<1>. DEFINE Inv == TypeOK /\ Control /\ Filtered /\ Owned
<1>1. Init => Inv
      BY TypeInit, ControlInit, FilteredInit, OwnedInit
<1>2. Inv /\ [Next]_vars => Inv'
      BY TypeStep, ControlStep, FilteredStep, OwnedStep
<1>3. Inv => (~startFailed => RingOwnership)
      <2>. SUFFICES ASSUME TypeOK, Owned, ~startFailed, InSession
                    PROVE  /\ \A i \in Indices : isReadyToFill[i] <=> ~Announced(i)
                           /\ Len(msgs) <= audioBufferQueueNum
           BY DEF RingOwnership, InSession
      <2>1. Ring
            BY DEF Owned
      <2>. QED  BY <2>1, QueueFits DEF Ring
<1>. QED  BY <1>1, <1>2, <1>3, PTL DEF Spec

--------------------------------------------------------------------------------
(* What an announced buffer holds.                                         *)

LEMMA WholesInit == Init => Wholes
BY DEF Init, Wholes, Holding

\* The recorder's copy goes to a buffer that is not announced.
LEMMA FillElsewhere ==
    ASSUME TypeOK, Ring, fillLo \/ fillHi
    PROVE  /\ \A n \in 1 .. Len(msgs) : buff'[msgs[n].index] = buff[msgs[n].index]
           /\ hpc \in Holding => buff'[message.index] = buff[message.index]
<1>1. /\ targetIndex \in Indices /\ message.index \in Indices
      /\ \A n \in 1 .. Len(msgs) : msgs[n].index \in Indices
      BY FrameTypes
<1>2. buff \in [Indices -> Buffers]
      BY DEF TypeOK
<1>3. ~Announced(targetIndex)
      BY <1>1 DEF Ring, Filling, fillLo, fillHi
<1>4. \A i \in Indices : i # targetIndex => buff'[i] = buff[i]
      BY <1>1, <1>2, FillFacts
<1>. QED  BY <1>1, <1>3, <1>4 DEF Announced, Holding

LEMMA WholesStep ==
    TypeOK /\ Control /\ Growing /\ Filtered /\ Owned /\ Wholes /\ [Next]_vars => Wholes'
<1>. SUFFICES ASSUME TypeOK, Control, Growing, Filtered, Owned, Wholes, [Next]_vars
              PROVE  Wholes'
     OBVIOUS
<1>0. Len(msgs) \in Nat
      BY FrameTypes
<1>. USE DEF Wholes, Holding, ringVars, filterVars, encVars, flagVars,
             sessionVars, notRecorder, notHandler, notSender
<1>1. CASE start
      BY <1>1 DEF start
<1>2. CASE startThrows
      BY <1>2 DEF startThrows
<1>3. CASE stop
      BY <1>3 DEF stop
<1>4. CASE joinRecorder
      BY <1>4 DEF joinRecorder
<1>5. CASE quitLooper
      <2>1. msgs' = msgs \/ Len(msgs') = 0
            BY <1>5 DEF quitLooper
      <2>. QED  BY <1>0, <1>5, <2>1 DEF quitLooper
<1>6. CASE joinHandler
      BY <1>6 DEF joinHandler
<1>7. CASE joinSender
      BY <1>7 DEF joinSender
<1>8. CASE stopEncoder
      BY <1>8 DEF stopEncoder
<1>9. CASE lockFilter
      BY <1>9 DEF lockFilter
<1>10. CASE \E f \in BOOLEAN : unlockFilter(f)
       BY <1>10 DEF unlockFilter
<1>11. CASE recordLoop
       BY <1>11 DEF recordLoop
<1>12. CASE recordRead
       BY <1>12 DEF recordRead
<1>13. CASE queueAudioAccept
       BY <1>13 DEF queueAudioAccept
<1>14. CASE queueAudioAbandon
       BY <1>14 DEF queueAudioAbandon
<1>15. CASE fillLo
       <2>1. CASE startFailed
             <3>1. hpc' = hpc /\ msgs' = msgs /\ hpc \in {"none", "done"} /\ Len(msgs) = 0
                   BY <1>15, <2>1 DEF fillLo, Control
             <3>. QED  BY <3>1
       <2>2. CASE ~startFailed
             <3>1. cpc \in {"running", "joinRecorder"}
                   BY <1>15 DEF fillLo, Control
             <3>2. Ring
                   BY <2>2, <3>1 DEF Owned, InSession
             <3>3. /\ \A n \in 1 .. Len(msgs) : buff'[msgs[n].index] = buff[msgs[n].index]
                   /\ hpc \in Holding => buff'[message.index] = buff[message.index]
                   BY <1>15, <3>2, FillElsewhere
             <3>. QED  BY <1>15, <3>3 DEF fillLo
       <2>. QED  BY <2>1, <2>2
<1>16. CASE fillHi
       <2>1. CASE startFailed
             <3>1. hpc' = hpc /\ msgs' = msgs /\ hpc \in {"none", "done"} /\ Len(msgs) = 0
                   BY <1>16, <2>1 DEF fillHi, Control
             <3>. QED  BY <3>1
       <2>2. CASE ~startFailed
             <3>1. cpc \in {"running", "joinRecorder"}
                   BY <1>16 DEF fillHi, Control
             <3>2. Ring
                   BY <2>2, <3>1 DEF Owned, InSession
             <3>3. /\ \A n \in 1 .. Len(msgs) : buff'[msgs[n].index] = buff[msgs[n].index]
                   /\ hpc \in Holding => buff'[message.index] = buff[message.index]
                   BY <1>16, <3>2, FillElsewhere
             <3>. QED  BY <1>16, <3>3 DEF fillHi
       <2>. QED  BY <2>1, <2>2
<1>17. CASE markFilled
       BY <1>17 DEF markFilled
<1>18. CASE sendMessage
       <2>1. /\ msgs' = msgs \/ msgs' = Append(msgs, Announcement)
             /\ Announcement.frame = frame /\ Announcement.index = lastAudioQueueBuffIndex
             BY <1>18 DEF sendMessage, Announcement
       <2>2. buff[lastAudioQueueBuffIndex] = Whole(frame)
             <3>1. buff[lastAudioQueueBuffIndex] \in Buffers
                   BY DEF TypeOK
             <3>2. \A h \in {1, 2} : buff[lastAudioQueueBuffIndex][h] = frame
                   BY <1>18 DEF sendMessage, Growing
             <3>. QED  BY <3>1, <3>2, BufferFacts DEF Whole
       <2>3. Announcement \in Messages /\ msgs \in Seq(Messages)
             BY DEF TypeOK, Announcement, Messages
       <2>4. \A n \in 1 .. Len(msgs') : buff[msgs'[n].index] = Whole(msgs'[n].frame)
             <3>1. CASE msgs' = Append(msgs, Announcement)
                   <4>1. /\ Len(msgs') = Len(msgs) + 1 /\ msgs'[Len(msgs) + 1] = Announcement
                         /\ \A n \in 1 .. Len(msgs) : msgs'[n] = msgs[n]
                         BY <2>3, <3>1, MessageAppend
                   <4>2. \A n \in 1 .. Len(msgs') : n = Len(msgs) + 1 \/ n \in 1 .. Len(msgs)
                         BY <1>0, <4>1
                   <4>. QED  BY <2>1, <2>2, <4>1, <4>2
             <3>. QED  BY <2>1, <3>1
       <2>. QED  BY <1>18, <2>4 DEF sendMessage
<1>19. CASE dispatchMessage
       <2>1. /\ Len(msgs') = Len(msgs) - 1 /\ 1 \in 1 .. Len(msgs) /\ message' = msgs[1]
             /\ \A n \in 1 .. Len(msgs) - 1 : msgs'[n] = msgs[n + 1]
             BY <1>0, <1>19, MessageTail DEF dispatchMessage, TypeOK
       <2>2. \A n \in 1 .. Len(msgs') : n \in 1 .. Len(msgs) - 1 /\ n + 1 \in 1 .. Len(msgs)
             BY <1>0, <2>1
       <2>3. \A n \in 1 .. Len(msgs') : buff[msgs'[n].index] = Whole(msgs'[n].frame)
             BY <2>1, <2>2
       <2>4. buff[message'.index] = Whole(message'.frame)
             BY <2>1
       <2>. QED  BY <1>19, <2>3, <2>4 DEF dispatchMessage
<1>20. CASE looperEnds
       BY <1>20 DEF looperEnds
<1>21. CASE copyHalf("copyLo", 1, "copyHi")
       <2>1. orignAudioBuff' = <<buff[message.index][1], orignAudioBuff[2]>>
             BY <1>21, CopyFacts
       <2>2. buff[message.index] = Whole(message.frame)
             BY <1>21 DEF copyHalf
       <2>3. orignAudioBuff'[1] = message.frame
             BY <2>1, <2>2 DEF Whole
       <2>. QED  BY <1>21, <2>3 DEF copyHalf
<1>22. CASE copyHalf("copyHi", 2, "giveBack")
       <2>1. orignAudioBuff' = <<orignAudioBuff[1], buff[message.index][2]>>
             BY <1>22, CopyFacts
       <2>2. buff[message.index] = Whole(message.frame) /\ orignAudioBuff[1] = message.frame
             BY <1>22 DEF copyHalf
       <2>3. orignAudioBuff' = Whole(message.frame)
             BY <2>1, <2>2 DEF Whole
       <2>. QED  BY <1>22, <2>3 DEF copyHalf
<1>23. CASE giveBack("giveBack", "tryLock")
       BY <1>23 DEF giveBack
<1>24. CASE copyHalf("recopyLo", 1, "recopyHi")
       BY <1>24 DEF copyHalf, Filtered
<1>25. CASE copyHalf("recopyHi", 2, "giveBackAgain")
       BY <1>25 DEF copyHalf, Filtered
<1>26. CASE giveBack("giveBackAgain", "ready")
       BY <1>26 DEF giveBack, Filtered
<1>27. CASE tryLockFails
       BY <1>27 DEF tryLockFails, TryFails, Filtered
<1>28. CASE tryLockSucceeds
       BY <1>28 DEF tryLockSucceeds
<1>29. CASE onFrame
       BY <1>29 DEF onFrame
<1>30. CASE feedEncoder
       BY <1>30 DEF feedEncoder, Crash
<1>31. CASE encode
       BY <1>31 DEF encode
<1>32. CASE senderLoop
       BY <1>32 DEF senderLoop
<1>33. CASE dequeueOutput
       BY <1>33 DEF dequeueOutput
<1>34. CASE UNCHANGED vars
       BY <1>34 DEF vars
<1>. QED  BY <1>1, <1>2, <1>3, <1>4, <1>5, <1>6, <1>7, <1>8, <1>9, <1>10, <1>11, <1>12,
             <1>13, <1>14, <1>15, <1>16, <1>17, <1>18, <1>19, <1>20, <1>21, <1>22, <1>23,
             <1>24, <1>25, <1>26, <1>27, <1>28, <1>29, <1>30, <1>31, <1>32, <1>33, <1>34
          DEF Next, client, clientStops, recorder, handleMessage, sender

\* With a filter that nobody else locks, what handleMessage encodes is the
\* frame that its message announced, and all of it: the recorder never writes
\* into a buffer that is announced, in any session.
THEOREM OrignAudioBuffIsReadyCorrect ==
    ASSUME InitialFilter, MaxFilterOps = 0
    PROVE  Spec => []OrignAudioBuffIsReady
<1>. DEFINE Inv == TypeOK /\ Control /\ Growing /\ Filtered /\ Owned /\ Wholes
<1>1. Init => Inv
      BY TypeInit, ControlInit, GrowingInit, FilteredInit, OwnedInit, WholesInit
<1>2. Inv /\ [Next]_vars => Inv'
      BY TypeStep, ControlStep, GrowingStep, FilteredStep, OwnedStep, WholesStep
<1>3. Inv => OrignAudioBuffIsReady
      BY DEF Wholes, OrignAudioBuffIsReady
<1>. QED  BY <1>1, <1>2, <1>3, PTL DEF Spec

--------------------------------------------------------------------------------
(* The order of the frames.                                                *)

\* The numbers of the frames that were encoded.
LEMMA EncodedTypes ==
    ASSUME TypeOK
    PROVE  /\ Len(encoded) \in Nat /\ \A n \in 1 .. Len(encoded) : encoded[n][1] \in Nat
<1>1. Frames \subseteq Nat
      BY AudioAssumption DEF Frames
<1>2. \A n \in 1 .. Len(encoded) : encoded[n] \in Buffers
      BY DEF TypeOK
<1>3. Len(encoded) \in Nat
      BY DEF TypeOK
<1>. QED  BY <1>1, <1>2, <1>3, BufferFacts

LEMMA OrderedInit == Init => Ordered
<1>. SUFFICES ASSUME Init
              PROVE  Ordered
     OBVIOUS
<1>1. Len(encoded) = 0 /\ Len(msgs) = 0 /\ hpc = "none"
      BY DEF Init
<1>. QED  BY <1>1 DEF Ordered, Busy

LEMMA OrderedStep == TypeOK /\ Wholes /\ Ordered /\ [Next]_vars => Ordered'
<1>. SUFFICES ASSUME TypeOK, Wholes, Ordered, [Next]_vars
              PROVE  Ordered'
     OBVIOUS
<1>0. /\ frame \in Nat /\ Len(msgs) \in Nat /\ Len(encoded) \in Nat /\ message.frame \in Nat
      /\ \A n \in 1 .. Len(msgs) : msgs[n].frame \in Nat
      /\ \A n \in 1 .. Len(encoded) : encoded[n][1] \in Nat
      BY FrameTypes, EncodedTypes
<1>. USE DEF Ordered, Busy, HasFrame, ringVars, filterVars, encVars, flagVars,
             sessionVars, notRecorder, notHandler, notSender
<1>1. CASE start
      BY <1>0, <1>1 DEF start
<1>2. CASE startThrows
      BY <1>0, <1>2 DEF startThrows
<1>3. CASE stop
      BY <1>0, <1>3 DEF stop
<1>4. CASE joinRecorder
      BY <1>0, <1>4 DEF joinRecorder
<1>5. CASE quitLooper
      <2>1. msgs' = msgs \/ Len(msgs') = 0
            BY <1>5 DEF quitLooper
      <2>2. UNCHANGED <<encoded, frame, rpc, hpc, message>>
            BY <1>5 DEF quitLooper
      <2>3. CASE msgs' = msgs
            BY <2>2, <2>3
      <2>4. CASE Len(msgs') = 0
            <3>1. \A n : n \notin 1 .. Len(msgs')
                  BY <2>4
            <3>. QED  BY <2>2, <3>1
      <2>. QED  BY <2>1, <2>3, <2>4
<1>6. CASE joinHandler
      BY <1>0, <1>6 DEF joinHandler
<1>7. CASE joinSender
      BY <1>0, <1>7 DEF joinSender
<1>8. CASE stopEncoder
      BY <1>0, <1>8 DEF stopEncoder
<1>9. CASE lockFilter
      BY <1>0, <1>9 DEF lockFilter
<1>10. CASE \E f \in BOOLEAN : unlockFilter(f)
       BY <1>0, <1>10 DEF unlockFilter
<1>11. CASE recordLoop
       BY <1>0, <1>11 DEF recordLoop
<1>12. CASE recordRead
       <2>1. /\ frame' = frame + 1 \/ (frame' = frame /\ rpc' = "loop")
             /\ UNCHANGED <<encoded, hpc, message, msgs>>
             BY <1>12 DEF recordRead
       <2>2. CASE frame' = frame + 1
             <3>1. /\ \A n \in 1 .. Len(encoded) : encoded[n][1] <= frame' /\ encoded[n][1] < frame'
                   /\ \A n \in 1 .. Len(msgs) : msgs[n].frame <= frame' /\ msgs[n].frame < frame'
                   /\ hpc \in Busy => message.frame <= frame' /\ message.frame < frame'
                   <4>1. \A n \in 1 .. Len(encoded) : encoded[n][1] <= frame' /\ encoded[n][1] < frame'
                         BY <1>0, <2>2
                   <4>2. \A n \in 1 .. Len(msgs) : msgs[n].frame <= frame' /\ msgs[n].frame < frame'
                         BY <1>0, <2>2
                   <4>3. hpc \in Busy => message.frame <= frame' /\ message.frame < frame'
                         BY <1>0, <2>2
                   <4>. QED  BY <4>1, <4>2, <4>3
             <3>. QED  BY <2>1, <3>1
       <2>3. CASE frame' = frame /\ rpc' = "loop"
             BY <2>1, <2>3
       <2>. QED  BY <2>1, <2>2, <2>3
<1>13. CASE queueAudioAccept
       BY <1>0, <1>13 DEF queueAudioAccept
<1>14. CASE queueAudioAbandon
       BY <1>0, <1>14 DEF queueAudioAbandon
<1>15. CASE fillLo
       BY <1>0, <1>15 DEF fillLo
<1>16. CASE fillHi
       BY <1>0, <1>16 DEF fillHi
<1>17. CASE markFilled
       BY <1>0, <1>17 DEF markFilled
<1>18. CASE sendMessage
       <2>1. CASE msgs' = msgs
             BY <1>0, <1>18, <2>1 DEF sendMessage
       <2>2. CASE msgs' = Append(msgs, Announcement)
             <3>1. /\ rpc = "send" /\ rpc' = "loop" /\ Announcement.frame = frame
                   /\ UNCHANGED <<encoded, hpc, message, frame>>
                   BY <1>18 DEF sendMessage, Announcement
             <3>2. Announcement \in Messages /\ msgs \in Seq(Messages)
                   BY DEF TypeOK, Announcement, Messages
             <3>3. /\ Len(msgs') = Len(msgs) + 1 /\ msgs'[Len(msgs) + 1] = Announcement
                   /\ \A n \in 1 .. Len(msgs) : msgs'[n] = msgs[n]
                   BY <2>2, <3>2, MessageAppend
             <3>4. \A n \in 1 .. Len(msgs') : n \in 1 .. Len(msgs) \/ n = Len(msgs) + 1
                   BY <1>0, <3>3
             <3>5. /\ \A n \in 1 .. Len(msgs) : msgs'[n].frame = msgs[n].frame /\ msgs[n].frame < frame
                   /\ msgs'[Len(msgs) + 1].frame = frame
                   BY <3>1, <3>3
             <3>6. \A n \in 1 .. Len(msgs') : \A m \in 1 .. n - 1 : msgs'[m].frame < msgs'[n].frame
                   <4>. SUFFICES ASSUME NEW n \in 1 .. Len(msgs'), NEW m \in 1 .. n - 1
                                 PROVE  msgs'[m].frame < msgs'[n].frame
                        OBVIOUS
                   <4>1. m \in 1 .. Len(msgs)
                         BY <1>0, <3>3
                   <4>. QED  BY <3>4, <3>5, <4>1
             <3>7. /\ \A n \in 1 .. Len(msgs') : msgs'[n].frame <= frame
                   /\ hpc \in Busy => \A n \in 1 .. Len(msgs') : message.frame < msgs'[n].frame
                   <4>1. \A n \in 1 .. Len(msgs') : msgs'[n].frame <= frame
                         BY <1>0, <3>4, <3>5
                   <4>2. ASSUME hpc \in Busy, NEW n \in 1 .. Len(msgs')
                         PROVE  message.frame < msgs'[n].frame
                         <5>1. CASE n \in 1 .. Len(msgs)
                               BY <3>5, <4>2, <5>1
                         <5>2. CASE n = Len(msgs) + 1
                               BY <3>1, <3>5, <4>2, <5>2
                         <5>. QED  BY <3>4, <5>1, <5>2
                   <4>. QED  BY <4>1, <4>2
             <3>8. \A n \in 1 .. Len(encoded), m \in 1 .. Len(msgs') : encoded[n][1] < msgs'[m].frame
                   BY <1>0, <3>1, <3>4, <3>5
             <3>. QED  BY <3>1, <3>6, <3>7, <3>8
       <2>. QED  BY <1>18, <2>1, <2>2 DEF sendMessage
<1>19. CASE dispatchMessage
       <2>1. /\ Len(msgs') = Len(msgs) - 1 /\ 1 \in 1 .. Len(msgs) /\ message' = msgs[1]
             /\ \A n \in 1 .. Len(msgs) - 1 : msgs'[n] = msgs[n + 1]
             /\ UNCHANGED <<encoded, frame, rpc>>
             BY <1>0, <1>19, MessageTail DEF dispatchMessage, TypeOK
       <2>2. \A n \in 1 .. Len(msgs') : /\ n \in 1 .. Len(msgs) - 1 /\ n + 1 \in 1 .. Len(msgs)
                                        /\ 1 \in 1 .. (n + 1) - 1
                                        /\ \A m \in 1 .. n - 1 : /\ m \in 1 .. Len(msgs')
                                                                 /\ m + 1 \in 1 .. (n + 1) - 1
             BY <1>0, <2>1
       <2>3. \A n \in 1 .. Len(msgs') : msgs'[n].frame = msgs[n + 1].frame
             BY <2>1, <2>2
       <2>4. \A n \in 1 .. Len(msgs') : \A m \in 1 .. n - 1 : msgs'[m].frame < msgs'[n].frame
             BY <2>2, <2>3
       <2>5. \A n \in 1 .. Len(msgs') : message'.frame < msgs'[n].frame
             BY <2>1, <2>2, <2>3
       <2>6. /\ \A n \in 1 .. Len(msgs') :
                   msgs'[n].frame <= frame /\ (rpc \in HasFrame => msgs'[n].frame < frame)
             /\ message'.frame <= frame /\ (rpc \in HasFrame => message'.frame < frame)
             BY <2>1, <2>2, <2>3
       <2>7. \A n \in 1 .. Len(encoded) :
                /\ encoded[n][1] < message'.frame
                /\ \A m \in 1 .. Len(msgs') : encoded[n][1] < msgs'[m].frame
             BY <2>1, <2>2, <2>3
       <2>. QED  BY <2>1, <2>4, <2>5, <2>6, <2>7
<1>20. CASE looperEnds
       BY <1>0, <1>20 DEF looperEnds
<1>21. CASE copyHalf("copyLo", 1, "copyHi")
       BY <1>0, <1>21 DEF copyHalf
<1>22. CASE copyHalf("copyHi", 2, "giveBack")
       BY <1>0, <1>22 DEF copyHalf
<1>23. CASE giveBack("giveBack", "tryLock")
       BY <1>0, <1>23 DEF giveBack
<1>24. CASE copyHalf("recopyLo", 1, "recopyHi")
       BY <1>0, <1>24 DEF copyHalf
<1>25. CASE copyHalf("recopyHi", 2, "giveBackAgain")
       BY <1>0, <1>25 DEF copyHalf
<1>26. CASE giveBack("giveBackAgain", "ready")
       BY <1>0, <1>26 DEF giveBack
<1>27. CASE tryLockFails
       BY <1>0, <1>27 DEF tryLockFails
<1>28. CASE tryLockSucceeds
       BY <1>0, <1>28 DEF tryLockSucceeds
<1>29. CASE onFrame
       BY <1>0, <1>29 DEF onFrame
<1>30. CASE feedEncoder
       <2>1. CASE encoder # "started"
             BY <1>30, <2>1 DEF feedEncoder
       <2>2. CASE encoder = "started"
             <3>1. /\ hpc = "ready" /\ hpc' = "idle" /\ encoded' = Append(encoded, orignAudioBuff)
                   /\ UNCHANGED <<frame, rpc, msgs, message>>
                   BY <1>30, <2>2 DEF feedEncoder
             <3>2. orignAudioBuff = Whole(message.frame) /\ orignAudioBuff[1] = message.frame
                   BY <3>1 DEF Wholes, Whole
             <3>3. /\ Len(encoded') = Len(encoded) + 1 /\ encoded'[Len(encoded) + 1] = orignAudioBuff
                   /\ \A n \in 1 .. Len(encoded) : encoded'[n] = encoded[n]
                   BY <3>1, BufferAppend DEF TypeOK
             <3>4. \A n \in 1 .. Len(encoded') : n \in 1 .. Len(encoded) \/ n = Len(encoded) + 1
                   BY <1>0, <3>3
             <3>5. /\ \A n \in 1 .. Len(encoded) : /\ encoded'[n][1] = encoded[n][1]
                                                   /\ encoded[n][1] < message.frame
                   /\ encoded'[Len(encoded) + 1][1] = message.frame
                   BY <3>1, <3>2, <3>3
             <3>6. \A n \in 1 .. Len(encoded') : \A m \in 1 .. n - 1 : encoded'[m][1] < encoded'[n][1]
                   <4>. SUFFICES ASSUME NEW n \in 1 .. Len(encoded'), NEW m \in 1 .. n - 1
                                 PROVE  encoded'[m][1] < encoded'[n][1]
                        OBVIOUS
                   <4>1. m \in 1 .. Len(encoded)
                         BY <1>0, <3>3
                   <4>. QED  BY <3>4, <3>5, <4>1
             <3>7. \A n \in 1 .. Len(encoded') : encoded'[n] = Whole(encoded'[n][1])
                   BY <3>2, <3>3, <3>4, <3>5
             <3>8. \A n \in 1 .. Len(encoded') :
                      /\ encoded'[n][1] <= frame /\ (rpc \in HasFrame => encoded'[n][1] < frame)
                      /\ \A m \in 1 .. Len(msgs) : encoded'[n][1] < msgs[m].frame
                   BY <3>1, <3>4, <3>5
             <3>. QED  BY <3>1, <3>6, <3>7, <3>8
       <2>. QED  BY <2>1, <2>2
<1>31. CASE encode
       BY <1>0, <1>31 DEF encode
<1>32. CASE senderLoop
       BY <1>0, <1>32 DEF senderLoop
<1>33. CASE dequeueOutput
       BY <1>0, <1>33 DEF dequeueOutput
<1>34. CASE UNCHANGED vars
       BY <1>0, <1>34 DEF vars
<1>. QED  BY <1>1, <1>2, <1>3, <1>4, <1>5, <1>6, <1>7, <1>8, <1>9, <1>10, <1>11, <1>12,
             <1>13, <1>14, <1>15, <1>16, <1>17, <1>18, <1>19, <1>20, <1>21, <1>22, <1>23,
             <1>24, <1>25, <1>26, <1>27, <1>28, <1>29, <1>30, <1>31, <1>32, <1>33, <1>34
          DEF Next, client, clientStops, recorder, handleMessage, sender

\* With a filter that nobody else locks, frames reach the encoder whole, in
\* the order of recording and each once, through any number of sessions.
THEOREM EncodedInOrderCorrect ==
    ASSUME InitialFilter, MaxFilterOps = 0
    PROVE  Spec => []EncodedInOrder
<1>. DEFINE Inv == TypeOK /\ Control /\ Growing /\ Filtered /\ Owned /\ Wholes /\ Ordered
<1>1. Init => Inv
      BY TypeInit, ControlInit, GrowingInit, FilteredInit, OwnedInit, WholesInit, OrderedInit
<1>2. Inv /\ [Next]_vars => Inv'
      BY TypeStep, ControlStep, GrowingStep, FilteredStep, OwnedStep, WholesStep, OrderedStep
<1>3. Inv => EncodedInOrder
      <2>. SUFFICES ASSUME Ordered, NEW n \in 1 .. Len(encoded)
                    PROVE  /\ encoded[n][1] = encoded[n][2]
                           /\ \A m \in 1 .. n - 1 : encoded[m][1] < encoded[n][1]
           BY DEF EncodedInOrder
      <2>1. encoded[n] = Whole(encoded[n][1])
            BY DEF Ordered
      <2>2. encoded[n][2] = encoded[n][1]
            BY <2>1 DEF Whole
      <2>. QED  BY <2>2 DEF Ordered
<1>. QED  BY <1>1, <1>2, <1>3, PTL DEF Spec
================================================================================
