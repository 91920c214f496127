---------------------------- MODULE RESSoftAudioCore ----------------------------
(***************************************************************************)
(* The sound path of a recording: core/RESAudioClient.java,                *)
(* core/RESSoftAudioCore.java and task/AudioSenderThread.java.             *)
(*                                                                         *)
(* AudioRecordThread reads frames from the microphone and copies them into *)
(* a ring of buffers, announcing each one by a message to a HandlerThread. *)
(* The handler copies the frame out of the ring, gives the buffer back,    *)
(* offers the frame to an optional filter and feeds the encoder.           *)
(* AudioSenderThread drains the encoder.  A client thread starts and stops *)
(* the whole and may install a filter or hold the filter's lock.           *)
(*                                                                         *)
(* A frame is its number.  A copy of a frame takes two steps, one for each *)
(* half, so a buffer is a pair and a torn copy has two different halves.   *)
(***************************************************************************)
EXTENDS Integers, Sequences

CONSTANTS audioBufferQueueNum,  \* buffers in the ring (5)
          InSlots, OutSlots,    \* the encoder's input and output buffers
          InitialFilter,        \* a filter is installed before start
          StartMayThrow,        \* configuring the encoder may fail
          MaxFrames,            \* bound: frames the microphone delivers
          MaxSessions,          \* bound: calls of start
          MaxFilterOps          \* bound: the client's uses of the filter lock

ASSUME AudioAssumption ==
    /\ audioBufferQueueNum \in Nat \ {0}
    /\ InSlots \in Nat \ {0} /\ OutSlots \in Nat \ {0}
    /\ InitialFilter \in BOOLEAN /\ StartMayThrow \in BOOLEAN
    /\ MaxFrames \in Nat /\ MaxSessions \in Nat /\ MaxFilterOps \in Nat

Indices == 0 .. audioBufferQueueNum - 1
Frames == 0 .. MaxFrames               \* 0: the buffer was never filled
Buffers == Frames \X Frames
Whole(k) == <<k, k>>

VARIABLES
    buff, isReadyToFill,     \* orignAudioBuffs
    lastAudioQueueBuffIndex,
    orignAudioBuff,          \* the handler's private copy
    msgs,                    \* the handler's queue: buffer index and frame
    message,                 \* the message being handled
    looper,                  \* "null", "live" or "quit"
    audioFilter,             \* a filter is installed
    filterLock,              \* who holds lockAudioFilter
    filterOps,
    encoder,                 \* "created", "started" or "null"
    encIn, encOut,           \* frames in the encoder's buffers
    formatSent,              \* the encoder has announced its output format
    isRunning, shouldQuit,   \* the stop flags of the recorder and the sender
    rpc, hpc, spc, cpc,      \* recorder, handler, sender, client
    frame, sessions,
    startFailed, crashed,
    encoded,                 \* what was queued into the encoder
    collected                \* what was handed to the collector

ringVars    == <<buff, isReadyToFill, lastAudioQueueBuffIndex>>
filterVars  == <<audioFilter, filterLock, filterOps>>
encVars     == <<encoder, encIn, encOut, formatSent>>
flagVars    == <<isRunning, shouldQuit>>
sessionVars == <<sessions, startFailed>>
vars == <<ringVars, orignAudioBuff, msgs, message, looper, filterVars, encVars,
          flagVars, rpc, hpc, spc, cpc, frame, sessionVars, crashed,
          encoded, collected>>

RecorderPc == {"none", "loop", "read", "check", "fillLo", "fillHi", "mark", "send", "done"}
HandlerPc  == {"none", "idle", "copyLo", "copyHi", "giveBack", "tryLock", "onFrame",
               "recopyLo", "recopyHi", "giveBackAgain", "ready", "done"}
SenderPc   == {"none", "loop", "dequeue", "done"}
ClientPc   == {"idle", "running", "joinRecorder", "quitLooper", "joinHandler",
               "joinSender", "stopEncoder"}

\* After RESAudioClient.prepare: the ring and the encoder exist.
Init ==
    /\ buff = [i \in Indices |-> Whole(0)]
    /\ isReadyToFill = [i \in Indices |-> TRUE]
    /\ lastAudioQueueBuffIndex = 0 /\ orignAudioBuff = Whole(0)
    /\ msgs = <<>> /\ message = [index |-> 0, frame |-> 0] /\ looper = "null"
    /\ audioFilter = InitialFilter /\ filterLock = "free" /\ filterOps = 0
    /\ encoder = "created" /\ encIn = <<>> /\ encOut = <<>> /\ formatSent = FALSE
    /\ isRunning = FALSE /\ shouldQuit = FALSE
    /\ rpc = "none" /\ hpc = "none" /\ spc = "none" /\ cpc = "idle"
    /\ frame = 0 /\ sessions = 0
    /\ startFailed = FALSE /\ crashed = FALSE
    /\ encoded = <<>> /\ collected = <<>>

Crash == crashed' = TRUE   \* an exception nobody catches ends the process

--------------------------------------------------------------------------------
(* The client.                                                             *)

\* The buffers are all free again at the beginning of a session.
Freed_kept == isReadyToFill
Freed == [i \in Indices |-> TRUE]

\* RESAudioClient.start, with RESSoftAudioCore.start in it.
start ==
    /\ cpc = "idle" /\ sessions < MaxSessions
    /\ isReadyToFill' = Freed
    /\ encoder' = "started" /\ encIn' = <<>> /\ encOut' = <<>> /\ formatSent' = FALSE
    /\ lastAudioQueueBuffIndex' = 0
    /\ looper' = "live" /\ hpc' = "idle" /\ spc' = "loop" /\ shouldQuit' = FALSE
    /\ isRunning' = TRUE /\ rpc' = "loop"
    /\ cpc' = "running" /\ sessions' = sessions + 1
    /\ UNCHANGED <<buff, orignAudioBuff, msgs, message, filterVars, frame,
                   startFailed, crashed, encoded, collected>>

\* An exception of createEncoderByType, configure or start is caught and printed.  The threads of
\* this session are not made, the recorder is started all the same.
startThrows ==
    /\ StartMayThrow
    /\ cpc = "idle" /\ sessions < MaxSessions
    /\ isReadyToFill' = Freed
    /\ encoder' \in {"created", encoder}
    /\ isRunning' = TRUE /\ rpc' = "loop"
    /\ cpc' = "running" /\ sessions' = sessions + 1 /\ startFailed' = TRUE
    /\ UNCHANGED <<buff, lastAudioQueueBuffIndex, orignAudioBuff, msgs, message,
                   looper, filterVars, encIn, encOut, formatSent, shouldQuit,
                   hpc, spc, frame, crashed, encoded, collected>>

\* RESAudioClient.stop: quit and join the recorder, then RESSoftAudioCore.stop.
stop ==
    /\ cpc = "running"
    /\ isRunning' = FALSE
    /\ cpc' = "joinRecorder"
    /\ UNCHANGED <<ringVars, orignAudioBuff, msgs, message, looper, filterVars,
                   encVars, shouldQuit, rpc, hpc, spc, frame, sessionVars,
                   crashed, encoded, collected>>

joinRecorder ==
    /\ cpc = "joinRecorder" /\ rpc = "done"
    /\ cpc' = "quitLooper"
    /\ UNCHANGED <<ringVars, orignAudioBuff, msgs, message, looper, filterVars,
                   encVars, flagVars, rpc, hpc, spc, frame, sessionVars,
                   crashed, encoded, collected>>

\* removeCallbacksAndMessages and HandlerThread.quit; without a handler the
\* first of them is a call on null.
quitLooper ==
    /\ cpc = "quitLooper"
    /\ IF looper = "null"
         THEN Crash /\ UNCHANGED <<msgs, looper, cpc>>
         ELSE /\ msgs' = <<>> /\ looper' = "quit" /\ cpc' = "joinHandler"
              /\ UNCHANGED crashed
    /\ UNCHANGED <<ringVars, orignAudioBuff, message, filterVars, encVars, flagVars,
                   rpc, hpc, spc, frame, sessionVars, encoded, collected>>

\* join the handler's thread, then tell the sender to quit
HandlerJoined_skipped == TRUE
HandlerJoined == hpc = "done"

joinHandler ==
    /\ cpc = "joinHandler" /\ HandlerJoined
    /\ shouldQuit' = TRUE
    /\ cpc' = "joinSender"
    /\ UNCHANGED <<ringVars, orignAudioBuff, msgs, message, looper, filterVars,
                   encVars, isRunning, rpc, hpc, spc, frame, sessionVars,
                   crashed, encoded, collected>>

joinSender ==
    /\ cpc = "joinSender" /\ spc = "done"
    /\ cpc' = "stopEncoder"
    /\ UNCHANGED <<ringVars, orignAudioBuff, msgs, message, looper, filterVars,
                   encVars, flagVars, rpc, hpc, spc, frame, sessionVars,
                   crashed, encoded, collected>>

\* MediaCodec.stop throws unless the encoder was started.
stopEncoder ==
    /\ cpc = "stopEncoder"
    /\ IF encoder = "started"
         THEN encoder' = "null" /\ cpc' = "idle" /\ UNCHANGED crashed
         ELSE Crash /\ UNCHANGED <<encoder, cpc>>
    /\ UNCHANGED <<ringVars, orignAudioBuff, msgs, message, looper, filterVars,
                   encIn, encOut, formatSent, flagVars, rpc, hpc, spc, frame,
                   sessionVars, encoded, collected>>

\* acquireAudioFilter, or setAudioFilter up to the filter's callbacks ...
lockFilter ==
    /\ filterLock = "free" /\ filterOps < MaxFilterOps
    /\ filterLock' = "client" /\ filterOps' = filterOps + 1
    /\ UNCHANGED <<ringVars, orignAudioBuff, msgs, message, looper, audioFilter,
                   encVars, flagVars, rpc, hpc, spc, cpc, frame, sessionVars,
                   crashed, encoded, collected>>

\* ... releaseAudioFilter, which changes nothing, or setAudioFilter's new filter.
unlockFilter(f) ==
    /\ filterLock = "client"
    /\ filterLock' = "free" /\ audioFilter' = f
    /\ UNCHANGED <<ringVars, orignAudioBuff, msgs, message, looper, filterOps,
                   encVars, flagVars, rpc, hpc, spc, cpc, frame, sessionVars,
                   crashed, encoded, collected>>

--------------------------------------------------------------------------------
(* AudioRecordThread and RESSoftAudioCore.queueAudio.                      *)

notRecorder == <<orignAudioBuff, message, looper, filterVars, encVars, flagVars,
                 hpc, spc, cpc, sessionVars, encoded, collected>>

targetIndex == (lastAudioQueueBuffIndex + 1) % audioBufferQueueNum

\* while (isRunning)
recordLoop ==
    /\ rpc = "loop"
    /\ rpc' = IF isRunning THEN "read" ELSE "done"
    /\ UNCHANGED <<ringVars, msgs, frame, crashed, notRecorder>>

\* audioRecord.read returns a frame or an error; a frame is looked at only if
\* the recorder has not been told to quit meanwhile.
recordRead ==
    /\ rpc = "read"
    /\ \/ /\ frame < MaxFrames
          /\ frame' = frame + 1
          /\ rpc' = IF isRunning THEN "check" ELSE "loop"
       \/ rpc' = "loop" /\ UNCHANGED frame
    /\ UNCHANGED <<ringVars, msgs, crashed, notRecorder>>

\* The flag is not volatile: once the handler has set it the recorder may
\* still read the false it wrote there itself.
MayFill_unchecked == TRUE
MayFill == isReadyToFill[targetIndex]
MayAbandon == ~isReadyToFill[targetIndex] \/ buff[targetIndex] # Whole(0)

queueAudioAccept ==
    /\ rpc = "check" /\ MayFill
    /\ rpc' = "fillLo"
    /\ UNCHANGED <<ringVars, msgs, frame, crashed, notRecorder>>

queueAudioAbandon ==
    /\ rpc = "check" /\ MayAbandon
    /\ rpc' = "loop"
    /\ UNCHANGED <<ringVars, msgs, frame, crashed, notRecorder>>

\* System.arraycopy into the ring
fillLo ==
    /\ rpc = "fillLo"
    /\ buff' = [buff EXCEPT ![targetIndex][1] = frame]
    /\ rpc' = "fillHi"
    /\ UNCHANGED <<isReadyToFill, lastAudioQueueBuffIndex, msgs, frame, crashed,
                   notRecorder>>

fillHi ==
    /\ rpc = "fillHi"
    /\ buff' = [buff EXCEPT ![targetIndex][2] = frame]
    /\ rpc' = "mark"
    /\ UNCHANGED <<isReadyToFill, lastAudioQueueBuffIndex, msgs, frame, crashed,
                   notRecorder>>

\* isReadyToFill = false; lastAudioQueueBuffIndex = targetIndex
markFilled ==
    /\ rpc = "mark"
    /\ isReadyToFill' = [isReadyToFill EXCEPT ![targetIndex] = FALSE]
    /\ lastAudioQueueBuffIndex' = targetIndex
    /\ rpc' = "send"
    /\ UNCHANGED <<buff, msgs, frame, crashed, notRecorder>>

\* obtainMessage(WHAT_INCOMING_BUFF, targetIndex, 0)
Announcement_nextIndex == [index |-> targetIndex, frame |-> frame]
Announcement == [index |-> lastAudioQueueBuffIndex, frame |-> frame]

\* audioFilterHandler.sendMessage: a handler whose looper has quit drops it
sendMessage ==
    /\ rpc = "send"
    /\ rpc' = "loop"
    /\ crashed' = (looper = "null")
    /\ msgs' = IF looper = "live" THEN Append(msgs, Announcement) ELSE msgs
    /\ UNCHANGED <<ringVars, frame, notRecorder>>

recorder == \/ recordLoop \/ recordRead \/ queueAudioAccept \/ queueAudioAbandon
            \/ fillLo \/ fillHi \/ markFilled \/ sendMessage

--------------------------------------------------------------------------------
(* AudioFilterHandler.handleMessage.                                       *)

notHandler == <<lastAudioQueueBuffIndex, looper, audioFilter, filterOps, encoder,
                encOut, formatSent, flagVars, rpc, spc, cpc, frame,
                sessionVars, collected>>

dispatchMessage ==
    /\ hpc = "idle" /\ looper = "live" /\ msgs # <<>>
    /\ message' = Head(msgs) /\ msgs' = Tail(msgs)
    /\ hpc' = "copyLo"
    /\ UNCHANGED <<buff, isReadyToFill, orignAudioBuff, filterLock, encIn, crashed,
                   encoded, notHandler>>

looperEnds ==
    /\ hpc = "idle" /\ looper = "quit"
    /\ hpc' = "done"
    /\ UNCHANGED <<buff, isReadyToFill, orignAudioBuff, msgs, message, filterLock,
                   encIn, crashed, encoded, notHandler>>

\* System.arraycopy out of the ring; the branch without a filter copies again
copyHalf(from, half, to) ==
    /\ hpc = from
    /\ orignAudioBuff' = [orignAudioBuff EXCEPT ![half] = buff[message.index][half]]
    /\ hpc' = to
    /\ UNCHANGED <<buff, isReadyToFill, msgs, message, filterLock, encIn, crashed,
                   encoded, notHandler>>

\* isReadyToFill = true
giveBack(from, to) ==
    /\ hpc = from
    /\ isReadyToFill' = [isReadyToFill EXCEPT ![message.index] = TRUE]
    /\ hpc' = to
    /\ UNCHANGED <<buff, orignAudioBuff, msgs, message, filterLock, encIn, crashed,
                   encoded, notHandler>>

\* The handler's lockAudioFilter: true with the lock held if a filter is
\* there; false without one, or after 3 ms of somebody else's holding it.
TryFails_blocks == filterLock = "free" /\ ~audioFilter
TryFails == filterLock # "free" \/ ~audioFilter

tryLockFails ==
    /\ hpc = "tryLock" /\ TryFails
    /\ hpc' = "recopyLo"
    /\ UNCHANGED <<buff, isReadyToFill, orignAudioBuff, msgs, message, filterLock,
                   encIn, crashed, encoded, notHandler>>

tryLockSucceeds ==
    /\ hpc = "tryLock" /\ filterLock = "free" /\ audioFilter
    /\ filterLock' = "handler"
    /\ hpc' = "onFrame"
    /\ UNCHANGED <<buff, isReadyToFill, orignAudioBuff, msgs, message, encIn, crashed,
                   encoded, notHandler>>

\* BaseSoftAudioFilter.onFrame works on the private copy
onFrame ==
    /\ hpc = "onFrame"
    /\ filterLock' = "free"
    /\ hpc' = "ready"
    /\ UNCHANGED <<buff, isReadyToFill, orignAudioBuff, msgs, message, encIn, crashed,
                   encoded, notHandler>>

\* dequeueInputBuffer(-1) waits for a free input buffer; the frame is put
\* into it and queued.  Only a started encoder may be called.
InputFree == Len(encIn) < InSlots

feedEncoder ==
    /\ hpc = "ready"
    /\ IF encoder = "started"
         THEN /\ InputFree
              /\ encIn' = Append(encIn, orignAudioBuff)
              /\ encoded' = Append(encoded, orignAudioBuff)
              /\ hpc' = "idle"
              /\ UNCHANGED crashed
         ELSE Crash /\ UNCHANGED <<encIn, encoded, hpc>>
    /\ UNCHANGED <<buff, isReadyToFill, orignAudioBuff, msgs, message, filterLock,
                   notHandler>>

handleMessage ==
    \/ dispatchMessage \/ looperEnds
    \/ copyHalf("copyLo", 1, "copyHi") \/ copyHalf("copyHi", 2, "giveBack")
    \/ giveBack("giveBack", "tryLock")
    \/ tryLockFails
    \/ copyHalf("recopyLo", 1, "recopyHi") \/ copyHalf("recopyHi", 2, "giveBackAgain")
    \/ giveBack("giveBackAgain", "ready")
    \/ tryLockSucceeds \/ onFrame \/ feedEncoder

--------------------------------------------------------------------------------
(* The encoder and AudioSenderThread.                                      *)

\* MediaCodec: an input buffer becomes an output buffer when one is free.
encode ==
    /\ encoder = "started" /\ encIn # <<>> /\ Len(encOut) < OutSlots
    /\ encOut' = Append(encOut, Head(encIn)) /\ encIn' = Tail(encIn)
    /\ UNCHANGED <<ringVars, orignAudioBuff, msgs, message, looper, filterVars,
                   encoder, formatSent, flagVars, rpc, hpc, spc, cpc, frame,
                   sessionVars, crashed, encoded, collected>>

notSender == <<ringVars, orignAudioBuff, msgs, message, looper, filterVars, encoder,
               encIn, flagVars, rpc, hpc, cpc, frame, sessionVars, encoded>>

\* while (!shouldQuit)
senderLoop ==
    /\ spc = "loop"
    /\ spc' = IF shouldQuit THEN "done" ELSE "dequeue"
    /\ UNCHANGED <<encOut, formatSent, crashed, collected, notSender>>

\* The configuration record stands in collected as frame 0.
ConfigRecord == Whole(0)

\* dequeueOutputBuffer: the format is announced before the first frame, and a
\* wait that finds nothing ends after WAIT_TIME.
dequeueOutput ==
    /\ spc = "dequeue"
    /\ spc' = "loop"
    /\ crashed' = (encoder # "started")
    /\ IF encoder # "started" \/ encOut = <<>>
         THEN UNCHANGED <<encOut, formatSent, collected>>
         ELSE IF ~formatSent
           THEN /\ formatSent' = TRUE
                /\ collected' = Append(collected, ConfigRecord)
                /\ UNCHANGED encOut
           ELSE /\ collected' = Append(collected, Head(encOut))
                /\ encOut' = Tail(encOut)
                /\ UNCHANGED formatSent
    /\ UNCHANGED notSender

sender == senderLoop \/ dequeueOutput

clientStops == joinRecorder \/ quitLooper \/ joinHandler \/ joinSender \/ stopEncoder
client == \/ start \/ startThrows \/ stop \/ clientStops
          \/ lockFilter \/ (\E f \in BOOLEAN : unlockFilter(f))

Next == ~crashed /\ (client \/ recorder \/ handleMessage \/ encode \/ sender)

Spec == Init /\ [][Next]_vars

\* Every thread keeps running and the codec keeps encoding.  When the client
\* calls stop, and whether it ever gives the filter's lock back, is its affair.
FairSpec ==
    /\ Spec
    /\ WF_vars(~crashed /\ recorder) /\ WF_vars(~crashed /\ handleMessage)
    /\ WF_vars(~crashed /\ sender) /\ WF_vars(~crashed /\ encode)
    /\ WF_vars(~crashed /\ clientStops)
--------------------------------------------------------------------------------
(* Properties.                                                             *)

Messages == [index : Indices, frame : Frames]

\* Types, and the encoder's buffers are never overrun.
TypeOK ==
    /\ buff \in [Indices -> Buffers] /\ isReadyToFill \in [Indices -> BOOLEAN]
    /\ lastAudioQueueBuffIndex \in Indices /\ orignAudioBuff \in Buffers
    /\ msgs \in Seq(Messages) /\ message \in Messages
    /\ looper \in {"null", "live", "quit"}
    /\ audioFilter \in BOOLEAN /\ filterLock \in {"free", "client", "handler"}
    /\ filterOps \in 0 .. MaxFilterOps
    /\ encoder \in {"created", "started", "null"}
    /\ encIn \in Seq(Buffers) /\ Len(encIn) <= InSlots
    /\ encOut \in Seq(Buffers) /\ Len(encOut) <= OutSlots
    /\ formatSent \in BOOLEAN /\ isRunning \in BOOLEAN /\ shouldQuit \in BOOLEAN
    /\ rpc \in RecorderPc /\ hpc \in HandlerPc /\ spc \in SenderPc /\ cpc \in ClientPc
    /\ frame \in Frames /\ sessions \in 0 .. MaxSessions
    /\ startFailed \in BOOLEAN /\ crashed \in BOOLEAN
    /\ encoded \in Seq(Buffers) /\ collected \in Seq(Buffers)

\* Buffer i belongs to the handler: it was announced and not yet copied out.
Announced(i) ==
    \/ \E n \in 1 .. Len(msgs) : msgs[n].index = i
    \/ rpc = "send" /\ lastAudioQueueBuffIndex = i
    \/ hpc \in {"copyLo", "copyHi", "giveBack"} /\ message.index = i

\* With a filter that nobody else locks, a buffer of the ring is marked ready
\* to fill exactly while it is not announced, in every session until stop
\* throws the messages away: so no buffer is announced twice, none is lost to
\* a restart, and the handler's queue is never longer than the ring.
RingOwnership ==
    cpc \in {"running", "joinRecorder", "quitLooper"} =>
        /\ \A i \in Indices : isReadyToFill[i] <=> ~Announced(i)
        /\ Len(msgs) <= audioBufferQueueNum

\* Where handleMessage says "orignAudioBuff is ready" it holds the frame that
\* the message announced, and all of it.
OrignAudioBuffIsReady ==
    hpc = "ready" => orignAudioBuff = Whole(message.frame)

\* Frames reach the encoder whole, in the order of recording, each once.
EncodedInOrder ==
    \A n \in 1 .. Len(encoded) :
        /\ encoded[n][1] = encoded[n][2]
        /\ \A m \in 1 .. n - 1 : encoded[m][1] < encoded[n][1]

\* The copy the handler makes without a filter can only be too new: no half
\* of it is older than the frame the message announced.
NeverStale ==
    hpc = "ready" => \A h \in {1, 2} : orignAudioBuff[h] >= message.frame

\* No thread calls the encoder when it is not started and none calls a
\* handler that was never made, through any number of sessions: an exception
\* that ends the process needs a start that failed before it.
CrashNeedsFailedStart == crashed => startFailed

\* stop() returns: the handler, waiting for an input buffer, is released
\* because the sender drains the encoder until the handler has been joined;
\* and a client that keeps the filter's lock delays the handler only briefly.
StopReturns == cpc = "joinRecorder" ~> (cpc = "idle" \/ crashed)

\* A frame that was announced is encoded unless the session is stopped.
AnnouncedIsEncoded ==
    \A k \in 1 .. MaxFrames :
        (\E n \in 1 .. Len(msgs) : msgs[n].frame = k) ~>
            \/ \E n \in 1 .. Len(encoded) : encoded[n] = Whole(k)
            \/ cpc # "running"
================================================================================
