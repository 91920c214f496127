-------------------------- MODULE ScreenRecordActivity --------------------------
(***************************************************************************)
(* activity/ScreenRecordActivity.java and the threads it starts for a      *)
(* recording: ScreenRecorderThread with the screen, AudioSenderThread      *)
(* with the microphone, and the RtmpStreamingSender both feed.             *)
(*                                                                         *)
(* Every recording has threads, a projection and a sender of its own, but  *)
(* the collecter of all of them reads the activity's field streamingSender *)
(* when it is called.  The activity's callbacks run on the UI thread, one  *)
(* after the other; the other threads interleave with their steps.  Calls  *)
(* into the codec lie between two reads of the field, so every read goes   *)
(* to memory.                                                              *)
(*                                                                         *)
(* The sender is a bounded queue that its thread empties while it is       *)
(* connected; module RtmpStreamingSender has its inside.  In particular a  *)
(* full queue makes sendFood throw (AbandonUnreachable there).             *)
(***************************************************************************)
EXTENDS Integers, FiniteSets

CONSTANTS MAX_QUEUE_CAPACITY,  \* capacity of a sender's queue (50)
          MaxRecordings        \* bound: projections granted or asked for

ASSUME ScreenRecordAssumption ==
    /\ MAX_QUEUE_CAPACITY \in Nat \ {0}
    /\ MaxRecordings \in Nat

Recordings == 1 .. MaxRecordings
null == 0
Tracks == {"video", "audio"}
Threads == Recordings \X Tracks

VARIABLES
    \* the activity
    streamingSender, mVideoRecorder,  \* a recording, or null
    ui,           \* where the UI thread is: "idle" between two callbacks
    alive,        \* onDestroy has not run
    requests,     \* screen capture requests without an answer
    made,         \* recordings so far
    \* the objects of each recording
    projection,   \* "none", "granted", "stopped"
    sender,
    mQuit,        \* of its ScreenRecorderThread
    encoder,      \* mEncoder: "none", "failed", "started"
    pc,           \* of its two threads
    target,       \* the sender a thread has read from the field
    \* what happened
    fedBy,        \* the recordings whose video each sender received
    late,         \* packets of each video thread since it was told to quit
    replaced,     \* recordings whose sender a second request replaced
    crashed       \* "no", or the uncaught exception that ended the process

activity == <<streamingSender, mVideoRecorder, ui, alive, requests, made>>
history  == <<fedBy, late, replaced>>
vars == <<activity, projection, sender, mQuit, encoder, pc, target, history, crashed>>

NewSender == [state |-> "made", queued |-> 0]

Init ==
    /\ streamingSender = null /\ mVideoRecorder = null
    /\ ui = "idle" /\ alive = TRUE /\ requests = 0 /\ made = 0
    /\ projection = [n \in Recordings |-> "none"]
    /\ sender = [n \in Recordings |-> NewSender]
    /\ mQuit = [n \in Recordings |-> FALSE]
    /\ encoder = [n \in Recordings |-> "none"]
    /\ pc = [th \in Threads |-> "new"]
    /\ target = [th \in Threads |-> null]
    /\ fedBy = [n \in Recordings |-> {}]
    /\ late = [n \in Recordings |-> 0]
    /\ replaced = {}
    /\ crashed = "no"

--------------------------------------------------------------------------------
(* The UI thread.                                                          *)

\* onClick without a recorder: createScreenCapture.  Nothing keeps a second
\* click from arriving before the dialog of the first one is in front.
createScreenCapture ==
    /\ ui = "idle" /\ alive /\ mVideoRecorder = null
    /\ made + requests < MaxRecordings
    /\ requests' = requests + 1
    /\ UNCHANGED <<streamingSender, mVideoRecorder, ui, alive, made, projection, sender,
                   mQuit, encoder, pc, target, history, crashed>>

\* onActivityResult: the user refused.
refused ==
    /\ ui = "idle" /\ alive /\ requests > 0
    /\ requests' = requests - 1
    /\ UNCHANGED <<streamingSender, mVideoRecorder, ui, alive, made, projection, sender,
                   mQuit, encoder, pc, target, history, crashed>>

\* onActivityResult with a projection: it is left alone when there is no
\* address.  Otherwise a sender is made and started.
onActivityResult(addressGiven) ==
    LET n == made + 1
    IN  /\ ui = "idle" /\ alive /\ requests > 0 /\ made < MaxRecordings
        /\ requests' = requests - 1
        /\ made' = n
        /\ projection' = [projection EXCEPT ![n] = "granted"]
        /\ IF addressGiven
             THEN /\ ui' = "prepare"
                  /\ streamingSender' = n
                  /\ replaced' = replaced \union ({mVideoRecorder} \ {null})
             ELSE UNCHANGED <<ui, streamingSender, replaced>>
        /\ UNCHANGED <<mVideoRecorder, alive, sender, mQuit, encoder, pc, target, fedBy, late,
                       crashed>>

\* audioClient.prepare() failed: onActivityResult returns.
AfterFailedPrepare_clears == null
AfterFailedPrepare == streamingSender

prepareFails ==
    /\ ui = "prepare"
    /\ ui' = "idle"
    /\ streamingSender' = AfterFailedPrepare
    /\ UNCHANGED <<mVideoRecorder, alive, requests, made, projection, sender, mQuit, encoder,
                   pc, target, history, crashed>>

\* audioClient.prepare() succeeded; the new recorder is started.
startRecorder ==
    /\ ui = "prepare"
    /\ ui' = "audio"
    /\ mVideoRecorder' = made
    /\ pc' = [pc EXCEPT ![<<made, "video">>] = "prepareEncoder"]
    /\ UNCHANGED <<streamingSender, alive, requests, made, projection, sender, mQuit, encoder,
                   target, history, crashed>>

\* audioClient.start(collecter).  An AudioRecord that prepareAudio could not
\* initialize throws.  An exception of the encoder is swallowed by
\* RESSoftAudioCore.start: the microphone is read without a handler for it.
startAudio ==
    /\ ui = "audio"
    /\ \/ /\ ui' = "execute"
          /\ \E where \in {"collect", "noHandler"} :
               pc' = [pc EXCEPT ![<<made, "audio">>] = where]
          /\ UNCHANGED crashed
       \/ /\ crashed' = "microphone"
          /\ UNCHANGED <<ui, pc>>
    /\ UNCHANGED <<streamingSender, mVideoRecorder, alive, requests, made, projection, sender,
                   mQuit, encoder, target, history>>

\* executorService.execute(streamingSender)
execute ==
    /\ ui = "execute"
    /\ ui' = "idle"
    /\ sender' = [sender EXCEPT ![streamingSender].state = "executed"]
    /\ UNCHANGED <<streamingSender, mVideoRecorder, alive, requests, made, projection, mQuit,
                   encoder, pc, target, history, crashed>>

\* mVideoRecorder.quit()
QuitNow_forgotten == mQuit
QuitNow == [mQuit EXCEPT ![mVideoRecorder] = TRUE]

\* onClick with a recorder, or onDestroy: stopScreenRecord begins.
stopScreenRecord(destroy) ==
    /\ ui = "idle" /\ alive /\ mVideoRecorder # null
    /\ alive' = ~destroy
    /\ mQuit' = QuitNow
    /\ mVideoRecorder' = null
    /\ ui' = IF streamingSender # null THEN "clear" ELSE "idle"
    /\ UNCHANGED <<streamingSender, requests, made, projection, sender, encoder, pc, target,
                   history, crashed>>

\* onDestroy without a recorder
onDestroy ==
    /\ ui = "idle" /\ alive /\ mVideoRecorder = null
    /\ alive' = FALSE
    /\ UNCHANGED <<streamingSender, mVideoRecorder, ui, requests, made, projection, sender,
                   mQuit, encoder, pc, target, history, crashed>>

\* streamingSender.sendStop(), quit() and = null: its thread pops nothing more.
\* The executor is shut down; the audio client goes on.
clearSender ==
    /\ ui = "clear"
    /\ ui' = "idle"
    /\ sender' = [sender EXCEPT ![streamingSender].state = "stopped"]
    /\ streamingSender' = null
    /\ UNCHANGED <<mVideoRecorder, alive, requests, made, projection, mQuit, encoder, pc,
                   target, history, crashed>>

--------------------------------------------------------------------------------
(* ScreenRecorderThread.run.  An exception leads to release.               *)

GoTo(th, where) == pc' = [pc EXCEPT ![th] = where]

prepareEncoder(n) ==
    /\ pc[<<n, "video">>] = "prepareEncoder"
    /\ \E result \in {"none", "failed", "started"} :
         /\ encoder' = [encoder EXCEPT ![n] = result]
         /\ GoTo(<<n, "video">>, IF result = "started" THEN "display" ELSE "release")
    /\ UNCHANGED <<activity, projection, sender, mQuit, target, history, crashed>>

createVirtualDisplay(n) ==
    /\ pc[<<n, "video">>] = "display"
    /\ \E where \in {"loop", "release"} : GoTo(<<n, "video">>, where)
    /\ UNCHANGED <<activity, projection, sender, mQuit, encoder, target, history, crashed>>

\* recordVirtualDisplay: the loop ends, or the codec has a packet, or it
\* throws.  A dequeue that times out changes nothing.
ShouldQuit_ignored(n) == FALSE
ShouldQuit(n) == mQuit[n]

recordVirtualDisplay(n) ==
    /\ pc[<<n, "video">>] = "loop"
    /\ IF ShouldQuit(n)
         THEN GoTo(<<n, "video">>, "release") /\ UNCHANGED encoder
         ELSE \/ GoTo(<<n, "video">>, "collect") /\ UNCHANGED encoder
              \/ /\ GoTo(<<n, "video">>, "release")
                 /\ encoder' = [encoder EXCEPT ![n] = "failed"]
    /\ UNCHANGED <<activity, projection, sender, mQuit, target, history, crashed>>

\* release: stop of an encoder that failed may throw, out of run.
release(n) ==
    /\ pc[<<n, "video">>] = "release"
    /\ GoTo(<<n, "video">>, "done")
    /\ \/ /\ encoder[n] = "failed"
          /\ crashed' = "encoder"
          /\ UNCHANGED <<encoder, projection>>
       \/ /\ encoder' = [encoder EXCEPT ![n] = "none"]
          /\ projection' = [projection EXCEPT ![n] = "stopped"]
          /\ UNCHANGED crashed
    /\ UNCHANGED <<activity, sender, mQuit, target, history>>

--------------------------------------------------------------------------------
(* The collecter, in either thread.  ScreenRecorderThread.run catches what *)
(* it throws; in AudioSenderThread.run, whose loop nothing ends, it ends   *)
(* the process.                                                            *)

Caught_ends == "done"
Caught == "release"

Throws(th, exception) ==
    IF th[2] = "video" THEN GoTo(th, Caught) /\ UNCHANGED crashed
                       ELSE GoTo(th, "done") /\ crashed' = exception

\* It reads the field ...
collect(th) ==
    /\ pc[th] = "collect"
    /\ IF streamingSender = null
         THEN Throws(th, "null") /\ UNCHANGED target
         ELSE /\ target' = [target EXCEPT ![th] = streamingSender]
              /\ GoTo(th, "sendFood") /\ UNCHANGED crashed
    /\ UNCHANGED <<activity, projection, sender, mQuit, encoder, history>>

\* ... and calls sendFood of the sender it found.
sendFood(th) ==
    LET k == target[th]
    IN  /\ pc[th] = "sendFood"
        /\ IF sender[k].queued < MAX_QUEUE_CAPACITY
             THEN /\ sender' = [sender EXCEPT ![k].queued = @ + 1]
                  /\ IF th[2] = "video"
                       THEN /\ fedBy' = [fedBy EXCEPT ![k] = @ \union {th[1]}]
                            /\ late' = [late EXCEPT ![th[1]] = IF mQuit[th[1]] THEN @ + 1 ELSE @]
                       ELSE UNCHANGED <<fedBy, late>>
                  /\ GoTo(th, IF th[2] = "video" THEN "loop" ELSE "collect")
                  /\ UNCHANGED crashed
             ELSE Throws(th, "full") /\ UNCHANGED <<sender, fedBy, late>>
        /\ target' = [target EXCEPT ![th] = null]
        /\ UNCHANGED <<activity, projection, mQuit, encoder, replaced>>

--------------------------------------------------------------------------------
(* AudioRecordThread after a start that failed.                            *)

\* queueAudio sends its first frame to a null handler.
queueAudio(th) ==
    /\ pc[th] = "noHandler"
    /\ GoTo(th, "done") /\ crashed' = "handler"
    /\ UNCHANGED <<activity, projection, sender, mQuit, encoder, target, history>>

--------------------------------------------------------------------------------
(* RtmpStreamingSender.run.  It pops while it is connected, if it ever is. *)

pop(k) ==
    /\ sender[k].state = "executed" /\ sender[k].queued > 0
    /\ sender' = [sender EXCEPT ![k].queued = @ - 1]
    /\ UNCHANGED <<activity, projection, mQuit, encoder, pc, target, history, crashed>>

--------------------------------------------------------------------------------

UIThread ==
    \/ createScreenCapture \/ refused
    \/ \E addressGiven \in BOOLEAN : onActivityResult(addressGiven)
    \/ prepareFails \/ startRecorder \/ startAudio \/ execute
    \/ \E destroy \in BOOLEAN : stopScreenRecord(destroy)
    \/ onDestroy \/ clearSender

VideoThread(n) ==
    \/ prepareEncoder(n) \/ createVirtualDisplay(n) \/ recordVirtualDisplay(n)
    \/ release(n) \/ collect(<<n, "video">>) \/ sendFood(<<n, "video">>)

AudioThread(n) ==
    collect(<<n, "audio">>) \/ sendFood(<<n, "audio">>) \/ queueAudio(<<n, "audio">>)

Next ==
    /\ crashed = "no"
    /\ \/ UIThread
       \/ \E n \in Recordings : VideoThread(n) \/ AudioThread(n) \/ pop(n)

\* The recorder's thread is always scheduled again; the user, the network and
\* the microphone owe nothing.
Spec ==
    /\ Init /\ [][Next]_vars
    /\ \A n \in Recordings : WF_vars(crashed = "no" /\ VideoThread(n))

--------------------------------------------------------------------------------
(* Properties.                                                             *)

\* Types.
TypeOK ==
    /\ streamingSender \in Recordings \union {null}
    /\ mVideoRecorder \in Recordings \union {null}
    /\ ui \in {"idle", "prepare", "audio", "execute", "clear"}
    /\ alive \in BOOLEAN /\ requests \in 0 .. MaxRecordings /\ made \in 0 .. MaxRecordings
    /\ projection \in [Recordings -> {"none", "granted", "stopped"}]
    /\ sender \in [Recordings -> [state : {"made", "executed", "stopped"},
                                  queued : 0 .. MAX_QUEUE_CAPACITY]]
    /\ mQuit \in [Recordings -> BOOLEAN]
    /\ encoder \in [Recordings -> {"none", "failed", "started"}]
    /\ pc \in [Threads -> {"new", "prepareEncoder", "display", "loop", "collect", "sendFood",
                           "release", "noHandler", "done"}]
    /\ target \in [Threads -> Recordings \union {null}]
    /\ fedBy \in [Recordings -> SUBSET Recordings]
    /\ late \in [Recordings -> Nat] /\ replaced \subseteq Recordings
    /\ crashed \in {"no", "null", "full", "encoder", "microphone", "handler"}

\* No packet is lost to a missing sender while recordings are only started:
\* the NullPointerException in the collecter that kills the process needs a
\* recording that was stopped, because stopScreenRecord clears the field the
\* audio client it leaves running still reads.
CrashNeedsStop ==
    crashed = "null" => \E n \in Recordings : mQuit[n] /\ pc[<<n, "audio">>] # "new"

\* A recorder that was told to quit delivers at most the one packet it had in
\* hand.  Only that packet, or a recording whose sender a second request
\* replaced, can bring one recording's picture into another one's stream.
OneLateFrame ==
    /\ \A n \in Recordings : late[n] <= 1
    /\ \A n \in Recordings, k \in Recordings :
         n # k /\ n \in fedBy[k] => late[n] = 1 \/ n \in replaced

\* A recording that is still captured and that pressing stop would not end has
\* lost its sender to the answer of a second request: neither a failed prepare
\* nor a second recording after a stop leaves one behind.
UnstoppableWasReplaced ==
    \A n \in Recordings :
        pc[<<n, "video">>] \notin {"new", "done"} /\ ~mQuit[n] /\ n # mVideoRecorder
          => n \in replaced

\* However the recorder ends, by quit, by an exception of the codec or of the
\* collecter, its screen projection is stopped in the end: no screen is
\* captured after the user pressed stop.
ProjectionStops ==
    \A n \in Recordings :
        mQuit[n] ~> projection[n] = "stopped" \/ crashed # "no"
================================================================================
