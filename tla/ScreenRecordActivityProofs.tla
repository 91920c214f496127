----------------------- MODULE ScreenRecordActivityProofs -----------------------
(***************************************************************************)
(* TLAPS proofs about ScreenRecordActivity, for any number of recordings   *)
(* and any capacity of the senders' queues.  The inductive invariant has   *)
(* these parts:                                                            *)
(*   TypeOK, InHand   types, and what a thread in sendFood has read        *)
(*   Started          which recordings the activity's two fields name      *)
(*   NoSender         why the field can be null    -> CrashNeedsStop       *)
(*   Packets          the packet a quitting thread still has               *)
(*   Streams          whose sender a thread has    -> OneLateFrame,        *)
(*                                                UnstoppableWasReplaced   *)
(***************************************************************************)
EXTENDS ScreenRecordActivity, TLAPS

\* A thread in sendFood calls the sender it has read, which was not null.
InHand == \A th \in Threads : pc[th] = "sendFood" => target[th] # null

\* While onActivityResult is under way the field names the recording it makes;
\* a recorder has its two threads, and a sender in the field.
Started ==
    /\ ui \in {"prepare", "audio", "execute"} => made # 0 /\ streamingSender = made
    /\ ui \in {"audio", "execute"} => mVideoRecorder = made
    /\ ui = "clear" => streamingSender # null /\ mVideoRecorder = null
    /\ ui = "prepare" => pc[<<made, "video">>] = "new" /\ pc[<<made, "audio">>] = "new"
    /\ mVideoRecorder # null =>
         /\ streamingSender # null
         /\ pc[<<mVideoRecorder, "video">>] # "new"
         /\ ui # "audio" => pc[<<mVideoRecorder, "audio">>] # "new"
    /\ \A th \in Threads : th[1] > made => pc[th] = "new"

TypeInv == TypeOK /\ InHand /\ Started

Stopped == \E n \in Recordings : mQuit[n] /\ pc[<<n, "audio">>] # "new"

\* Only a stop takes the sender away from an audio thread.
NoSender ==
    /\ streamingSender = null =>
         Stopped \/ \A n \in Recordings : pc[<<n, "audio">>] = "new"
    /\ ui = "clear" => Stopped
    /\ crashed = "null" => Stopped

\* A recorder that has delivered its packet after quit has none in hand, and
\* gets no other.
Packets ==
    \A n \in Recordings :
        /\ late[n] <= 1
        /\ late[n] = 1 => mQuit[n] /\ pc[<<n, "video">>] \in {"loop", "release", "done"}

\* A running recorder is the activity's, or was told to quit, or lost its
\* sender to a second request; only in the last two cases has it the sender
\* of another recording.
Streams ==
    /\ mVideoRecorder # null /\ mVideoRecorder # streamingSender =>
         mVideoRecorder \in replaced
    /\ \A n \in Recordings :
         pc[<<n, "video">>] # "new" => n = mVideoRecorder \/ mQuit[n] \/ n \in replaced
    /\ \A n \in Recordings :
         pc[<<n, "video">>] = "sendFood" /\ target[<<n, "video">>] # n =>
            mQuit[n] \/ n \in replaced
    /\ \A n \in Recordings, k \in Recordings :
         n # k /\ n \in fedBy[k] => late[n] = 1 \/ n \in replaced

--------------------------------------------------------------------------------
(* What a step is, and what it leaves alone.                               *)

ThreadStep(th) ==
    \/ /\ th[2] = "video"
       /\ \/ prepareEncoder(th[1]) \/ createVirtualDisplay(th[1])
          \/ recordVirtualDisplay(th[1]) \/ release(th[1])
    \/ collect(th) \/ sendFood(th) \/ queueAudio(th)

\* A step of the specification is one of the UI thread, of one of the threads,
\* of a sender, or none.
LEMMA NextActions ==
    ASSUME [Next]_vars
    PROVE  \/ UIThread
           \/ \E th \in Threads : ThreadStep(th)
           \/ \E n \in Recordings : pop(n)
           \/ UNCHANGED vars
<1>1. ASSUME NEW n \in Recordings, VideoThread(n)
      PROVE  \E th \in Threads : ThreadStep(th)
      <2>1. <<n, "video">> \in Threads /\ <<n, "video">>[1] = n /\ <<n, "video">>[2] = "video"
            BY DEF Threads, Tracks
      <2>. QED  BY <1>1, <2>1 DEF VideoThread, ThreadStep
<1>2. ASSUME NEW n \in Recordings, AudioThread(n)
      PROVE  \E th \in Threads : ThreadStep(th)
      <2>1. <<n, "audio">> \in Threads
            BY DEF Threads, Tracks
      <2>. QED  BY <1>2, <2>1 DEF AudioThread, ThreadStep
<1>. QED  BY <1>1, <1>2 DEF Next

\* The two threads of a recording, and the recording of a thread.
LEMMA ThreadFacts ==
    /\ \A n \in Recordings : <<n, "video">> \in Threads /\ <<n, "audio">> \in Threads
    /\ \A n \in Recordings : /\ <<n, "video">>[1] = n /\ <<n, "video">>[2] = "video"
                             /\ <<n, "audio">>[1] = n /\ <<n, "audio">>[2] = "audio"
    /\ \A th \in Threads : /\ th[1] \in Recordings
                           /\ th = <<th[1], "video">> \/ th = <<th[1], "audio">>
                           /\ th[2] = "video" => th = <<th[1], "video">>
BY DEF Threads, Tracks

\* null is no recording, and the next recording is one while there are fewer
\* than the bound.
LEMMA RecordingFacts ==
    /\ null \notin Recordings /\ 0 \notin Recordings
    /\ Recordings \subseteq Nat
    /\ made \in 0 .. MaxRecordings /\ made # 0 => made \in Recordings
    /\ made \in 0 .. MaxRecordings /\ made < MaxRecordings => made + 1 \in Recordings
BY ScreenRecordAssumption DEF Recordings, null

PCs == {"new", "prepareEncoder", "display", "loop", "collect", "sendFood", "release",
        "noHandler", "done"}

\* A thread moves itself, and only when it has been started; the activity's
\* fields are not its own.
LEMMA ThreadMoves ==
    ASSUME TypeInv, NEW th \in Threads, ThreadStep(th)
    PROVE  /\ UNCHANGED <<streamingSender, mVideoRecorder, ui, alive, requests, made, mQuit,
                          replaced>>
           /\ pc[th] # "new"
           /\ \E where \in PCs \ {"new"} : pc' = [pc EXCEPT ![th] = where]
<1>. USE DEF GoTo, PCs, activity, history
<1>1. CASE th[2] = "video" /\ prepareEncoder(th[1])
      <2>1. th = <<th[1], "video">>
            BY <1>1, ThreadFacts
      <2>2. pc[th] = "prepareEncoder"
            BY <1>1, <2>1 DEF prepareEncoder
      <2>3. GoTo(th, "display") \/ GoTo(th, "release")
            BY <1>1, <2>1, Zenon DEF prepareEncoder
      <2>. QED  BY <1>1, <2>2, <2>3 DEF prepareEncoder
<1>2. CASE th[2] = "video" /\ createVirtualDisplay(th[1])
      BY <1>2, ThreadFacts DEF createVirtualDisplay
<1>3. CASE th[2] = "video" /\ recordVirtualDisplay(th[1])
      BY <1>3, ThreadFacts DEF recordVirtualDisplay, ShouldQuit
<1>4. CASE th[2] = "video" /\ release(th[1])
      BY <1>4, ThreadFacts DEF release
<1>5. CASE collect(th)
      BY <1>5 DEF collect, Throws, Caught
<1>6. CASE sendFood(th)
      BY <1>6 DEF sendFood, Throws, Caught
<1>7. CASE queueAudio(th)
      BY <1>7 DEF queueAudio
<1>. QED  BY <1>1, <1>2, <1>3, <1>4, <1>5, <1>6, <1>7 DEF ThreadStep

\* So a thread's step starts no thread.
LEMMA NoneStarted ==
    ASSUME TypeInv, NEW th \in Threads, ThreadStep(th)
    PROVE  /\ pc' \in [Threads -> PCs]
           /\ \A x \in Threads : pc'[x] = "new" <=> pc[x] = "new"
<1>1. pc \in [Threads -> PCs]
      BY DEF TypeInv, TypeOK, PCs
<1>. QED  BY <1>1, ThreadMoves DEF PCs

--------------------------------------------------------------------------------
(* Types.                                                                  *)

\* Where an audio thread begins.
Begun == {"collect", "noHandler"}

\* The audio client starts one thread, or throws.
LEMMA StartAudioMoves ==
    ASSUME TypeInv, startAudio
    PROVE  /\ pc' \in [Threads -> PCs]
           /\ \A x \in Threads : pc'[x] = pc[x] \/ (x = <<made, "audio">> /\ pc'[x] \in Begun)
<1>1. UNCHANGED pc \/ \E where \in Begun : pc' = [pc EXCEPT ![<<made, "audio">>] = where]
      BY DEF startAudio, Begun
<1>2. pc \in [Threads -> PCs]
      BY DEF TypeInv, TypeOK, PCs
<1>3. Begun \subseteq PCs
      BY DEF PCs, Begun
<1>. QED  BY <1>1, <1>2, <1>3

\* Clearing the field stops the sender it names, which is there.
LEMMA ClearSenderType ==
    ASSUME TypeInv, clearSender
    PROVE  sender' \in [Recordings -> [state : {"made", "executed", "stopped"},
                                      queued : 0 .. MAX_QUEUE_CAPACITY]]
<1>1. streamingSender \in Recordings
      BY DEF clearSender, TypeInv, TypeOK, Started
<1>2. sender' = [sender EXCEPT ![streamingSender].state = "stopped"]
      BY DEF clearSender
<1>3. sender \in [Recordings -> [state : {"made", "executed", "stopped"},
                                 queued : 0 .. MAX_QUEUE_CAPACITY]]
      BY DEF TypeInv, TypeOK
<1>. QED  BY <1>1, <1>2, <1>3

\* The recorder's release keeps the types of what it gives up.
LEMMA ReleaseType ==
    ASSUME TypeInv, NEW n \in Recordings, release(n)
    PROVE  /\ encoder' \in [Recordings -> {"none", "failed", "started"}]
           /\ projection' \in [Recordings -> {"none", "granted", "stopped"}]
           /\ crashed' \in {"no", "null", "full", "encoder", "microphone", "handler"}
<1>1. /\ UNCHANGED encoder \/ encoder' = [encoder EXCEPT ![n] = "none"]
      /\ UNCHANGED projection \/ projection' = [projection EXCEPT ![n] = "stopped"]
      /\ UNCHANGED crashed \/ crashed' = "encoder"
      BY DEF release
<1>2. /\ encoder \in [Recordings -> {"none", "failed", "started"}]
      /\ projection \in [Recordings -> {"none", "granted", "stopped"}]
      /\ crashed \in {"no", "null", "full", "encoder", "microphone", "handler"}
      BY DEF TypeInv, TypeOK
<1>. QED  BY <1>1, <1>2

\* Every step of the UI thread keeps the types.
LEMMA UiType ==
    ASSUME TypeInv, UIThread
    PROVE  TypeOK'
<1>. USE ScreenRecordAssumption, RecordingFacts, ThreadFacts
     DEF TypeInv, TypeOK, Started, activity, history
<1>1. CASE createScreenCapture
      <2>1. requests' \in 0 .. MaxRecordings
            BY <1>1 DEF createScreenCapture
      <2>. QED  BY <1>1, <2>1 DEF createScreenCapture
<1>2. CASE refused
      <2>1. requests' \in 0 .. MaxRecordings
            BY <1>2 DEF refused
      <2>. QED  BY <1>2, <2>1 DEF refused
<1>3. ASSUME NEW addressGiven \in BOOLEAN, onActivityResult(addressGiven)
      PROVE  TypeOK'
      <2>1. requests' \in 0 .. MaxRecordings /\ made' \in 0 .. MaxRecordings
            BY <1>3 DEF onActivityResult
      <2>2. streamingSender' \in Recordings \union {null}
            BY <1>3 DEF onActivityResult
      <2>3. replaced' \subseteq Recordings
            BY <1>3 DEF onActivityResult
      <2>4. ui' \in {"idle", "prepare", "audio", "execute", "clear"}
            BY <1>3 DEF onActivityResult
      <2>. QED  BY <1>3, <2>1, <2>2, <2>3, <2>4 DEF onActivityResult
<1>4. CASE prepareFails BY <1>4 DEF prepareFails, AfterFailedPrepare
<1>5. CASE startRecorder BY <1>5 DEF startRecorder
<1>6. CASE startAudio
      <2>1. pc' \in [Threads -> PCs]
            BY <1>6, StartAudioMoves
      <2>2. ui' \in {"idle", "prepare", "audio", "execute", "clear"}
            /\ crashed' \in {"no", "null", "full", "encoder", "microphone", "handler"}
            BY <1>6 DEF startAudio
      <2>. QED  BY <1>6, <2>1, <2>2 DEF startAudio, PCs
<1>7. CASE execute BY <1>7 DEF execute
<1>8. ASSUME NEW destroy \in BOOLEAN, stopScreenRecord(destroy)
      PROVE  TypeOK'
      BY <1>8 DEF stopScreenRecord, QuitNow
<1>9. CASE onDestroy BY <1>9 DEF onDestroy
<1>10. CASE clearSender
      BY <1>10, ClearSenderType DEF clearSender
<1>. QED
      BY <1>1, <1>2, <1>3, <1>4, <1>5, <1>6, <1>7, <1>8, <1>9, <1>10 DEF UIThread

\* What sendFood does to the sender it calls keeps the types: the queue stays
\* within its capacity.
LEMMA SendFoodType ==
    ASSUME TypeInv, NEW th \in Threads, sendFood(th)
    PROVE  /\ sender' \in [Recordings -> [state : {"made", "executed", "stopped"},
                                         queued : 0 .. MAX_QUEUE_CAPACITY]]
           /\ fedBy' \in [Recordings -> SUBSET Recordings]
           /\ late' \in [Recordings -> Nat]
<1>1. target[th] \in Recordings /\ pc[th] = "sendFood" /\ th[1] \in Recordings
      BY ThreadFacts, RecordingFacts DEF sendFood, TypeInv, TypeOK, InHand
<1>2. sender' \in [Recordings -> [state : {"made", "executed", "stopped"},
                                  queued : 0 .. MAX_QUEUE_CAPACITY]]
      <2>1. \/ UNCHANGED sender
            \/ /\ sender[target[th]].queued < MAX_QUEUE_CAPACITY
               /\ sender' = [sender EXCEPT ![target[th]].queued = @ + 1]
            BY DEF sendFood
      <2>2. /\ sender \in [Recordings -> [state : {"made", "executed", "stopped"},
                                          queued : 0 .. MAX_QUEUE_CAPACITY]]
            /\ MAX_QUEUE_CAPACITY \in Nat
            BY ScreenRecordAssumption DEF TypeInv, TypeOK
      <2>. QED  BY <1>1, <2>1, <2>2
<1>3. fedBy' \in [Recordings -> SUBSET Recordings]
      <2>1. \/ UNCHANGED fedBy
            \/ fedBy' = [fedBy EXCEPT ![target[th]] = @ \union {th[1]}]
            BY DEF sendFood
      <2>2. fedBy \in [Recordings -> SUBSET Recordings]
            BY DEF TypeInv, TypeOK
      <2>. QED  BY <1>1, <2>1, <2>2
<1>4. late' \in [Recordings -> Nat]
      <2>1. \/ UNCHANGED late
            \/ late' = [late EXCEPT ![th[1]] = IF mQuit[th[1]] THEN @ + 1 ELSE @]
            BY DEF sendFood
      <2>2. late \in [Recordings -> Nat]
            BY DEF TypeInv, TypeOK
      <2>. QED  BY <1>1, <2>1, <2>2
<1>. QED  BY <1>2, <1>3, <1>4

\* Every step of a thread keeps the types.
LEMMA ThreadType ==
    ASSUME TypeInv, NEW th \in Threads, ThreadStep(th)
    PROVE  TypeOK'
<1>. USE ScreenRecordAssumption, RecordingFacts, ThreadFacts, ThreadMoves, NoneStarted
     DEF TypeInv, TypeOK, PCs, activity, history
<1>1. CASE th[2] = "video" /\ prepareEncoder(th[1])
      BY <1>1 DEF prepareEncoder
<1>2. CASE th[2] = "video" /\ createVirtualDisplay(th[1])
      BY <1>2 DEF createVirtualDisplay
<1>3. CASE th[2] = "video" /\ recordVirtualDisplay(th[1])
      BY <1>3 DEF recordVirtualDisplay
<1>4. CASE th[2] = "video" /\ release(th[1])
      BY <1>4, ReleaseType DEF release
<1>5. CASE collect(th)
      <2>1. target' \in [Threads -> Recordings \union {null}]
            BY <1>5 DEF collect
      <2>2. crashed' \in {"no", "null", "full", "encoder", "microphone", "handler"}
            BY <1>5 DEF collect, Throws
      <2>. QED  BY <1>5, <2>1, <2>2 DEF collect
<1>6. CASE sendFood(th)
      <2>1. target' \in [Threads -> Recordings \union {null}]
            BY <1>6 DEF sendFood
      <2>2. crashed' \in {"no", "null", "full", "encoder", "microphone", "handler"}
            BY <1>6 DEF sendFood, Throws
      <2>. QED  BY <1>6, <2>1, <2>2, SendFoodType DEF sendFood
<1>7. CASE queueAudio(th)
      BY <1>7 DEF queueAudio
<1>. QED  BY <1>1, <1>2, <1>3, <1>4, <1>5, <1>6, <1>7 DEF ThreadStep

\* Every step keeps the types.
LEMMA TypeStep ==
    ASSUME TypeInv, [Next]_vars
    PROVE  TypeOK'
<1>1. ASSUME NEW n \in Recordings, pop(n)
      PROVE  TypeOK'
      <2>1. sender' \in [Recordings -> [state : {"made", "executed", "stopped"},
                                        queued : 0 .. MAX_QUEUE_CAPACITY]]
            BY <1>1, ScreenRecordAssumption DEF pop, TypeInv, TypeOK
      <2>. QED  BY <1>1, <2>1 DEF pop, TypeInv, TypeOK, activity, history
<1>2. CASE UNCHANGED vars
      BY <1>2 DEF vars, activity, history, TypeInv, TypeOK
<1>. QED  BY <1>1, <1>2, NextActions, UiType, ThreadType

\* Only collect leads to sendFood, and only with a sender in hand.
LEMMA InHandStep ==
    ASSUME TypeInv, [Next]_vars
    PROVE  InHand'
<1>. USE RecordingFacts DEF TypeInv, InHand, activity, history
<1>1. CASE UIThread
      <2>1. \A th \in Threads : pc'[th] = "sendFood" => pc[th] = "sendFood"
            BY <1>1 DEF UIThread, createScreenCapture, refused, onActivityResult, prepareFails,
               startRecorder, startAudio, execute, stopScreenRecord, QuitNow, onDestroy, clearSender,
               TypeOK
      <2>2. UNCHANGED target
            BY <1>1 DEF UIThread, createScreenCapture, refused, onActivityResult, prepareFails,
               startRecorder, startAudio, execute, stopScreenRecord, QuitNow, onDestroy, clearSender
      <2>. QED  BY <2>1, <2>2
<1>2. ASSUME NEW th \in Threads, ThreadStep(th)
      PROVE  InHand'
      <2>. USE DEF TypeOK
      <2>0. \A x \in Threads \ {th} : pc'[x] = pc[x]
            BY <1>2, ThreadMoves
      <2>. USE DEF GoTo
      <2>1. CASE th[2] = "video" /\ prepareEncoder(th[1])
            BY <2>1, ThreadFacts DEF prepareEncoder
      <2>2. CASE th[2] = "video" /\ createVirtualDisplay(th[1])
            BY <2>2, ThreadFacts DEF createVirtualDisplay
      <2>3. CASE th[2] = "video" /\ recordVirtualDisplay(th[1])
            <3>1. th = <<th[1], "video">>
                  BY <2>3, ThreadFacts
            <3>2. pc'[th] # "sendFood" /\ UNCHANGED target
                  BY <2>3, <3>1, SMTT(30) DEF recordVirtualDisplay
            <3>. QED  BY <2>0, <3>2
      <2>4. CASE th[2] = "video" /\ release(th[1])
            BY <2>4, ThreadFacts DEF release
      <2>5. CASE collect(th)
            BY <2>5 DEF collect, Throws, Caught
      <2>6. CASE sendFood(th)
            <3>1. pc'[th] # "sendFood"
                  BY <2>6 DEF sendFood, Throws, Caught
            <3>2. \A x \in Threads \ {th} : pc'[x] = pc[x] /\ target'[x] = target[x]
                  BY <2>0, <2>6 DEF sendFood
            <3>. QED  BY <3>1, <3>2
      <2>7. CASE queueAudio(th)
            BY <2>0, <2>7 DEF queueAudio
      <2>. QED  BY <1>2, <2>1, <2>2, <2>3, <2>4, <2>5, <2>6, <2>7 DEF ThreadStep
<1>3. ASSUME NEW n \in Recordings, pop(n)
      PROVE  InHand'
      BY <1>3 DEF pop
<1>4. CASE UNCHANGED vars
      BY <1>4 DEF vars
<1>. QED  BY <1>1, <1>2, <1>3, <1>4, NextActions


\* The activity's fields name the recordings whose threads run.
LEMMA StartedStep ==
    ASSUME TypeInv, [Next]_vars
    PROVE  Started'
<1>. USE RecordingFacts, ThreadFacts DEF TypeInv, TypeOK, Started, activity, history
<1>1. CASE createScreenCapture BY <1>1 DEF createScreenCapture
<1>2. CASE refused BY <1>2 DEF refused
<1>3. ASSUME NEW addressGiven \in BOOLEAN, onActivityResult(addressGiven)
      PROVE  Started'
      BY <1>3 DEF onActivityResult
<1>4. CASE prepareFails BY <1>4 DEF prepareFails, AfterFailedPrepare
<1>5. CASE startRecorder BY <1>5 DEF startRecorder
<1>6. CASE startAudio
      <2>1. CASE UNCHANGED <<ui, pc>>
            BY <1>6, <2>1 DEF startAudio
      <2>2. ASSUME NEW where \in Begun,
                   ui' = "execute", pc' = [pc EXCEPT ![<<made, "audio">>] = where]
            PROVE  Started'
            <3>1. /\ <<made, "audio">> \in Threads /\ <<made, "video">> \in Threads
                  /\ where # "new"
                  BY <1>6 DEF startAudio, Begun
            <3>2. pc'[<<made, "audio">>] # "new" /\ pc'[<<made, "video">>] # "new"
                  BY <1>6, <2>2, <3>1 DEF startAudio
            <3>3. \A th \in Threads : th[1] > made => pc'[th] = "new"
                  BY <1>6, <2>2, <3>1 DEF startAudio
            <3>. QED  BY <1>6, <2>2, <3>2, <3>3 DEF startAudio
      <2>. QED  BY <1>6, <2>1, <2>2 DEF startAudio, Begun
<1>7. CASE execute BY <1>7 DEF execute
<1>8. ASSUME NEW destroy \in BOOLEAN, stopScreenRecord(destroy)
      PROVE  Started'
      BY <1>8 DEF stopScreenRecord, QuitNow
<1>9. CASE onDestroy BY <1>9 DEF onDestroy
<1>10. CASE clearSender BY <1>10 DEF clearSender
<1>11. ASSUME NEW th \in Threads, ThreadStep(th)
       PROVE  Started'
       <2>1. UNCHANGED <<streamingSender, mVideoRecorder, ui, made>>
             BY <1>11, ThreadMoves
       <2>2. \A x \in Threads : pc'[x] = "new" <=> pc[x] = "new"
             BY <1>11, NoneStarted
       <2>. QED  BY <2>1, <2>2
<1>12. ASSUME NEW n \in Recordings, pop(n)
       PROVE  Started'
       BY <1>12 DEF pop
<1>13. CASE UNCHANGED vars
       BY <1>13 DEF vars
<1>. QED
      BY <1>1, <1>2, <1>3, <1>4, <1>5, <1>6, <1>7, <1>8, <1>9, <1>10, <1>11, <1>12, <1>13,
         NextActions DEF UIThread

\* What holds of the types and of the fields holds for ever.
LEMMA TypeInvariant == Spec => []TypeInv
<1>1. ASSUME Init
      PROVE  TypeInv
      <2>1. TypeOK
            BY <1>1, ScreenRecordAssumption DEF Init, TypeOK, NewSender
      <2>2. InHand /\ Started
            BY <1>1, ThreadFacts DEF Init, InHand, Started
      <2>. QED  BY <2>1, <2>2 DEF TypeInv
<1>2. ASSUME TypeInv, [Next]_vars
      PROVE  TypeInv'
      BY <1>2, TypeStep, InHandStep, StartedStep DEF TypeInv
<1>. QED  BY <1>1, <1>2, PTL DEF Spec

\* Types: in particular a sender's queue never exceeds its capacity, and a
\* thread in sendFood never calls a null sender.
THEOREM TypeCorrect == Spec => []TypeOK
<1>1. TypeInv => TypeOK
      BY DEF TypeInv
<1>. QED  BY <1>1, TypeInvariant, PTL

--------------------------------------------------------------------------------
(* The sender of the audio threads.                                        *)

\* A recording that was stopped stays stopped, and its audio thread started.
LEMMA StoppedStays ==
    ASSUME TypeInv, Stopped, [Next]_vars
    PROVE  Stopped'
<1>1. PICK n \in Recordings : mQuit[n] /\ pc[<<n, "audio">>] # "new"
      BY DEF Stopped
<1>2. <<n, "audio">> \in Threads
      BY ThreadFacts
<1>. SUFFICES mQuit'[n] /\ pc'[<<n, "audio">>] # "new"
     BY DEF Stopped
<1>. USE <1>1, <1>2 DEF TypeInv, TypeOK, activity, history
<1>3. CASE UIThread
      <2>1. mQuit'[n]
            BY <1>3 DEF UIThread, createScreenCapture, refused, onActivityResult, prepareFails,
               startRecorder, startAudio, execute, stopScreenRecord, QuitNow, onDestroy, clearSender
      <2>2. pc'[<<n, "audio">>] # "new"
            BY <1>3 DEF UIThread, createScreenCapture, refused, onActivityResult, prepareFails,
               startRecorder, startAudio, execute, stopScreenRecord, QuitNow, onDestroy, clearSender
      <2>. QED  BY <2>1, <2>2
<1>4. ASSUME NEW th \in Threads, ThreadStep(th)
      PROVE  mQuit'[n] /\ pc'[<<n, "audio">>] # "new"
      BY <1>4, ThreadMoves, NoneStarted
<1>5. ASSUME NEW k \in Recordings, pop(k)
      PROVE  mQuit'[n] /\ pc'[<<n, "audio">>] # "new"
      BY <1>5 DEF pop
<1>6. CASE UNCHANGED vars
      BY <1>6 DEF vars
<1>. QED  BY <1>3, <1>4, <1>5, <1>6, NextActions

\* The steps of the UI thread that leave the sender and the audio threads
\* alone keep NoSender.
LEMMA NoSenderKept ==
    ASSUME TypeInv, NoSender, [Next]_vars,
           UNCHANGED streamingSender, ui' # "clear" \/ UNCHANGED ui,
           crashed' # "null" \/ UNCHANGED crashed,
           \A n \in Recordings : pc[<<n, "audio">>] = "new" => pc'[<<n, "audio">>] = "new"
    PROVE  NoSender'
BY StoppedStays DEF NoSender

\* Only a stop takes the sender away from an audio thread.
LEMMA NoSenderStep ==
    ASSUME TypeInv, NoSender, [Next]_vars
    PROVE  NoSender'
<1>. USE NoSenderKept, ThreadFacts DEF activity, history
<1>1. CASE createScreenCapture BY <1>1 DEF createScreenCapture
<1>2. CASE refused BY <1>2 DEF refused
<1>3. ASSUME NEW addressGiven \in BOOLEAN, onActivityResult(addressGiven)
      PROVE  NoSender'
      <2>1. CASE addressGiven
            <3>1. streamingSender' # null /\ ui' # "clear" /\ UNCHANGED crashed
                  BY <1>3, <2>1, RecordingFacts DEF onActivityResult, TypeInv, TypeOK
            <3>. QED  BY <3>1, StoppedStays DEF NoSender
      <2>2. CASE ~addressGiven
            BY <1>3, <2>2 DEF onActivityResult
      <2>. QED  BY <2>1, <2>2
<1>4. CASE prepareFails BY <1>4 DEF prepareFails, AfterFailedPrepare
<1>5. CASE startRecorder BY <1>5 DEF startRecorder, TypeInv, TypeOK
<1>6. CASE startAudio
      <2>1. \/ streamingSender' # null /\ ui' # "clear" /\ crashed' # "null"
            \/ UNCHANGED crashed
            BY <1>6, RecordingFacts DEF startAudio, TypeInv, Started, null
      <2>2. streamingSender' # null /\ ui' # "clear"
            BY <1>6, RecordingFacts DEF startAudio, TypeInv, Started, null
      <2>. QED  BY <2>1, <2>2, StoppedStays DEF NoSender
<1>7. CASE execute BY <1>7 DEF execute
<1>8. ASSUME NEW destroy \in BOOLEAN, stopScreenRecord(destroy)
      PROVE  NoSender'
      <2>1. mVideoRecorder \in Recordings /\ pc[<<mVideoRecorder, "audio">>] # "new"
            BY <1>8 DEF stopScreenRecord, QuitNow, TypeInv, TypeOK, Started
      <2>2. Stopped'
            BY <1>8, <2>1, ZenonT(30) DEF stopScreenRecord, QuitNow, TypeInv, TypeOK, Stopped
      <2>. QED  BY <2>2 DEF NoSender
<1>9. CASE onDestroy BY <1>9 DEF onDestroy
<1>10. CASE clearSender
       BY <1>10, StoppedStays DEF clearSender, NoSender
<1>11. ASSUME NEW th \in Threads, ThreadStep(th)
       PROVE  NoSender'
       <2>1. UNCHANGED <<streamingSender, ui>>
             BY <1>11, ThreadMoves
       <2>2. \A x \in Threads : pc'[x] = "new" <=> pc[x] = "new"
             BY <1>11, NoneStarted
       <2>3. CASE crashed' # "null" \/ UNCHANGED crashed
             BY <2>1, <2>2, <2>3
       <2>4. CASE crashed' = "null" /\ crashed' # crashed
             <3>1. collect(th) /\ th[2] # "video" /\ streamingSender = null
                   BY <1>11, <2>4 DEF ThreadStep, prepareEncoder, createVirtualDisplay,
                      recordVirtualDisplay, release, collect, sendFood, queueAudio, Throws
             <3>2. th = <<th[1], "audio">> /\ pc[th] # "new"
                   BY <3>1 DEF collect
             <3>3. Stopped
                   BY <3>1, <3>2 DEF NoSender
             <3>. QED  BY <3>3, StoppedStays DEF NoSender
       <2>. QED  BY <2>3, <2>4
<1>12. ASSUME NEW n \in Recordings, pop(n)
       PROVE  NoSender'
       BY <1>12 DEF pop
<1>13. CASE UNCHANGED vars
       BY <1>13 DEF vars
<1>. QED
      BY <1>1, <1>2, <1>3, <1>4, <1>5, <1>6, <1>7, <1>8, <1>9, <1>10, <1>11, <1>12, <1>13,
         NextActions DEF UIThread

\* The NullPointerException that ends the process needs a stopped recording.
THEOREM CrashNeedsStopCorrect == Spec => []CrashNeedsStop
<1>1. ASSUME Init
      PROVE  NoSender
      BY <1>1, ThreadFacts DEF Init, NoSender
<1>2. ASSUME TypeInv, NoSender, [Next]_vars
      PROVE  NoSender'
      BY <1>2, NoSenderStep
<1>3. NoSender => CrashNeedsStop
      BY DEF NoSender, Stopped, CrashNeedsStop
<1>. QED  BY <1>1, <1>2, <1>3, TypeInvariant, PTL DEF Spec

--------------------------------------------------------------------------------
(* The packets of a recorder that was told to quit.                        *)

\* The UI thread tells a recorder to quit and takes nothing of it back; it
\* moves no video thread that runs.
LEMMA UiKeeps ==
    ASSUME TypeInv, UIThread
    PROVE  /\ UNCHANGED <<late, fedBy, target>>
           /\ \A n \in Recordings : mQuit[n] => mQuit'[n]
           /\ \A n \in Recordings :
                pc[<<n, "video">>] # "new" => pc'[<<n, "video">>] = pc[<<n, "video">>]
<1>1. UNCHANGED <<late, fedBy, target>>
      BY DEF UIThread, createScreenCapture, refused, onActivityResult, prepareFails,
         startRecorder, startAudio, execute, stopScreenRecord, QuitNow, onDestroy, clearSender, history
<1>2. UNCHANGED mQuit \/ mQuit' = [mQuit EXCEPT ![mVideoRecorder] = TRUE]
      BY DEF UIThread, createScreenCapture, refused, onActivityResult, prepareFails,
         startRecorder, startAudio, execute, stopScreenRecord, QuitNow, onDestroy, clearSender
<1>3. \/ UNCHANGED pc
      \/ ui = "prepare" /\ pc' = [pc EXCEPT ![<<made, "video">>] = "prepareEncoder"]
      \/ \E where \in Begun : pc' = [pc EXCEPT ![<<made, "audio">>] = where]
      BY DEF UIThread, createScreenCapture, refused, onActivityResult, prepareFails,
         startRecorder, startAudio, execute, stopScreenRecord, onDestroy, clearSender, Begun
<1>4. /\ mQuit \in [Recordings -> BOOLEAN] /\ pc \in [Threads -> PCs]
      /\ ui = "prepare" => pc[<<made, "video">>] = "new"
      BY DEF TypeInv, TypeOK, Started, PCs
<1>5. \A n \in Recordings : mQuit[n] => mQuit'[n]
      BY <1>2, <1>4
<1>6. \A n \in Recordings :
         pc[<<n, "video">>] # "new" => pc'[<<n, "video">>] = pc[<<n, "video">>]
      BY <1>3, <1>4, ThreadFacts
<1>. QED  BY <1>1, <1>5, <1>6

\* A recorder that has delivered its packet after quit leaves the loop.
LEMMA PacketsStep ==
    ASSUME TypeInv, Packets, [Next]_vars
    PROVE  Packets'
<1>. DEFINE Over == {"loop", "release", "done"}
<1>0. /\ late \in [Recordings -> Nat] /\ mQuit \in [Recordings -> BOOLEAN]
      /\ pc \in [Threads -> PCs]
      BY DEF TypeInv, TypeOK, PCs
<1>1. CASE UIThread
      BY <1>1, UiKeeps DEF Packets
<1>2. ASSUME NEW th \in Threads, ThreadStep(th)
      PROVE  Packets'
      <2>1. UNCHANGED mQuit /\ \A x \in Threads \ {th} : pc'[x] = pc[x]
            BY <1>0, <1>2, ThreadMoves
      <2>2. CASE th[2] # "video"
            <3>1. UNCHANGED late
                  BY <1>2, <2>2 DEF ThreadStep, collect, sendFood, queueAudio, history
            <3>2. \A n \in Recordings : <<n, "video">> \in Threads \ {th}
                  <4>. SUFFICES ASSUME NEW n \in Recordings
                                PROVE  <<n, "video">> \in Threads \ {th}
                       OBVIOUS
                  <4>1. <<n, "video">> \in Threads /\ <<n, "video">>[2] = "video"
                        BY ThreadFacts
                  <4>. QED  BY <2>2, <4>1
            <3>. QED  BY <2>1, <3>1, <3>2 DEF Packets
      <2>3. CASE th[2] = "video"
            <3>1. PICK m \in Recordings : th = <<m, "video">> /\ th[1] = m
                  BY <2>3, ThreadFacts
            <3>2. \A n \in Recordings : n # m => <<n, "video">> \in Threads \ {th}
                  BY <3>1, ThreadFacts
            <3>3. CASE sendFood(th)
                  <4>1. pc[th] = "sendFood"
                        BY <3>3 DEF sendFood
                  <4>2. late[m] = 0
                        BY <1>0, <3>1, <4>1 DEF Packets
                  <4>3. GoTo(th, "loop") \/ GoTo(th, "release")
                        BY <2>3, <3>3, Zenon DEF sendFood, Throws, Caught
                  <4>4. pc'[th] \in Over
                        BY <1>0, <4>3 DEF GoTo
                  <4>5. \/ UNCHANGED late
                        \/ late' = [late EXCEPT ![m] = IF mQuit[m] THEN @ + 1 ELSE @]
                        BY <3>1, <3>3 DEF sendFood
                  <4>6. late'[m] <= 1 /\ (late'[m] = 1 => mQuit[m])
                        BY <1>0, <4>2, <4>5
                  <4>7. \A n \in Recordings : n # m => late'[n] = late[n]
                        BY <1>0, <4>5
                  <4>. QED  BY <2>1, <3>1, <3>2, <4>4, <4>6, <4>7 DEF Packets
            <3>4. CASE ~sendFood(th)
                  <4>1. UNCHANGED late
                        BY <1>2, <3>4 DEF ThreadStep, collect, prepareEncoder,
                           createVirtualDisplay, recordVirtualDisplay, release, queueAudio,
                           history
                  <4>2. ASSUME late[m] = 1
                        PROVE  pc'[th] \in Over
                        <5>1. mQuit[m] /\ pc[th] \in Over
                              BY <3>1, <4>2 DEF Packets
                        <5>2. recordVirtualDisplay(m) \/ release(m)
                              BY <1>2, <3>1, <3>4, <5>1 DEF ThreadStep, collect,
                                 prepareEncoder, createVirtualDisplay, queueAudio
                        <5>3. GoTo(th, "release") \/ GoTo(th, "done")
                              BY <3>1, <5>1, <5>2, Zenon DEF recordVirtualDisplay, release,
                                 ShouldQuit
                        <5>. QED  BY <1>0, <5>3 DEF GoTo
                  <4>. QED  BY <2>1, <3>1, <3>2, <4>1, <4>2 DEF Packets
            <3>. QED  BY <3>3, <3>4
      <2>. QED  BY <2>2, <2>3
<1>3. ASSUME NEW n \in Recordings, pop(n)
      PROVE  Packets'
      BY <1>3 DEF pop, Packets, history
<1>4. CASE UNCHANGED vars
      BY <1>4 DEF vars, Packets, history
<1>. QED  BY <1>1, <1>2, <1>3, <1>4, NextActions

\* What is in a sender's stream, and who has it in hand.
LEMMA StreamsStep ==
    ASSUME TypeInv, Packets, Streams, [Next]_vars
    PROVE  Streams'
<1>0. /\ mVideoRecorder \in Recordings \union {null} /\ pc \in [Threads -> PCs]
      /\ streamingSender \in Recordings \union {null} /\ replaced \subseteq Recordings
      /\ late \in [Recordings -> Nat] /\ mQuit \in [Recordings -> BOOLEAN]
      /\ target \in [Threads -> Recordings \union {null}]
      /\ fedBy \in [Recordings -> SUBSET Recordings]
      /\ made \in 0 .. MaxRecordings
      BY DEF TypeInv, TypeOK, PCs
<1>. DEFINE Whose ==
               \A n \in Recordings :
                  pc[<<n, "video">>] # "new" => n = mVideoRecorder \/ mQuit[n] \/ n \in replaced
            Lost == mVideoRecorder # null /\ mVideoRecorder # streamingSender =>
                       mVideoRecorder \in replaced
<1>1. CASE UIThread
      <2>1. replaced \subseteq replaced'
            BY <1>1 DEF UIThread, createScreenCapture, refused, onActivityResult, prepareFails,
               startRecorder, startAudio, execute, stopScreenRecord, QuitNow, onDestroy, clearSender,
               history
      <2>2. Whose'
            <3>1. CASE UNCHANGED <<mVideoRecorder, pc>>
                  BY <1>1, <2>1, <3>1, UiKeeps DEF Streams
            <3>2. CASE startRecorder
                  <4>1. /\ made \in Recordings /\ mVideoRecorder' = made
                        /\ streamingSender = made /\ mVideoRecorder # made
                        BY <1>0, <3>2, RecordingFacts DEF startRecorder, TypeInv, Started
                  <4>2. mVideoRecorder # null => mVideoRecorder \in replaced
                        BY <4>1 DEF Streams
                  <4>3. \A n \in Recordings \ {made} : pc'[<<n, "video">>] = pc[<<n, "video">>]
                        BY <1>0, <3>2, ThreadFacts DEF startRecorder
                  <4>. QED
                        BY <2>1, <1>1, <4>1, <4>2, <4>3, UiKeeps, RecordingFacts DEF Streams
            <3>3. CASE startAudio
                  <4>1. \A n \in Recordings : pc'[<<n, "video">>] = pc[<<n, "video">>]
                        BY <1>0, <3>3, ThreadFacts DEF startAudio
                  <4>2. UNCHANGED mVideoRecorder
                        BY <3>3 DEF startAudio
                  <4>. QED  BY <1>1, <2>1, <4>1, <4>2, UiKeeps DEF Streams
            <3>4. ASSUME NEW destroy \in BOOLEAN, stopScreenRecord(destroy)
                  PROVE  Whose'
                  <4>1. /\ mVideoRecorder \in Recordings /\ mQuit'[mVideoRecorder]
                        /\ UNCHANGED pc
                        BY <1>0, <3>4 DEF stopScreenRecord, QuitNow
                  <4>. QED  BY <1>1, <2>1, <4>1, UiKeeps DEF Streams
            <3>. QED
                  <4>1. \/ UNCHANGED <<mVideoRecorder, pc>> \/ startRecorder \/ startAudio
                        \/ \E destroy \in BOOLEAN : stopScreenRecord(destroy)
                        BY <1>1 DEF UIThread, createScreenCapture, refused, onActivityResult,
                           prepareFails, execute, onDestroy, clearSender
                  <4>. QED  BY <3>1, <3>2, <3>3, <3>4, <4>1
      <2>3. Lost'
            <3>1. ASSUME NEW addressGiven \in BOOLEAN, onActivityResult(addressGiven)
                  PROVE  Lost'
                  <4>1. UNCHANGED mVideoRecorder
                        BY <3>1 DEF onActivityResult
                  <4>2. CASE addressGiven
                        BY <3>1, <4>1, <4>2 DEF onActivityResult
                  <4>3. CASE ~addressGiven
                        BY <3>1, <4>1, <4>3 DEF onActivityResult, Streams
                  <4>. QED  BY <4>2, <4>3
            <3>2. CASE startRecorder
                  BY <3>2 DEF startRecorder, TypeInv, Started
            <3>3. CASE clearSender
                  BY <3>3 DEF clearSender, TypeInv, Started
            <3>. QED
                  <4>1. \/ UNCHANGED <<mVideoRecorder, streamingSender, replaced>>
                        \/ startRecorder \/ clearSender \/ mVideoRecorder' = null
                        \/ \E addressGiven \in BOOLEAN : onActivityResult(addressGiven)
                        BY <1>1 DEF UIThread, createScreenCapture, refused, prepareFails,
                           startAudio, execute, stopScreenRecord, QuitNow, onDestroy, history,
                           AfterFailedPrepare
                  <4>. QED  BY <3>1, <3>2, <3>3, <4>1 DEF Streams
      <2>4. \A n \in Recordings : pc'[<<n, "video">>] = "sendFood" => pc[<<n, "video">>] = "sendFood"
            BY <1>0, <1>1, ThreadFacts DEF UIThread, createScreenCapture, refused,
               onActivityResult, prepareFails, startRecorder, startAudio, execute,
               stopScreenRecord, onDestroy, clearSender, Begun
      <2>. QED  BY <1>1, <2>1, <2>2, <2>3, <2>4, UiKeeps DEF Streams
<1>2. ASSUME NEW th \in Threads, ThreadStep(th)
      PROVE  Streams'
      <2>1. /\ UNCHANGED <<mQuit, mVideoRecorder, streamingSender, replaced>>
            /\ \A x \in Threads \ {th} : pc'[x] = pc[x]
            /\ \A x \in Threads : pc'[x] = "new" <=> pc[x] = "new"
            /\ pc[th] # "new"
            BY <1>0, <1>2, ThreadMoves, NoneStarted
      <2>2. Whose'
            BY <2>1, ThreadFacts DEF Streams
      <2>3. \A x \in Threads \ {th} : target'[x] = target[x]
            BY <1>0, <1>2 DEF ThreadStep, collect, sendFood, queueAudio, prepareEncoder,
               createVirtualDisplay, recordVirtualDisplay, release
      <2>4. \A n \in Recordings :
               pc'[<<n, "video">>] = "sendFood" /\ target'[<<n, "video">>] # n =>
                  mQuit'[n] \/ n \in replaced'
            <3>. SUFFICES ASSUME NEW n \in Recordings, pc'[<<n, "video">>] = "sendFood",
                                 target'[<<n, "video">>] # n
                          PROVE  mQuit[n] \/ n \in replaced
                 BY <2>1
            <3>0. CASE th # <<n, "video">>
                  <4>1. <<n, "video">> \in Threads \ {th}
                        BY <3>0, ThreadFacts
                  <4>. QED  BY <2>1, <2>3, <4>1 DEF Streams
            <3>. SUFFICES ASSUME th = <<n, "video">>
                          PROVE  mQuit[n] \/ n \in replaced
                 BY <3>0
            <3>1. collect(th)
                  <4>1. ~sendFood(th) /\ ~queueAudio(th)
                        BY <1>0 DEF sendFood, queueAudio, GoTo, Throws, Caught
                  <4>2. n = th[1]
                        BY ThreadFacts
                  <4>3. ~(prepareEncoder(n) \/ createVirtualDisplay(n) \/ recordVirtualDisplay(n)
                          \/ release(n))
                        BY <1>0 DEF prepareEncoder, createVirtualDisplay,
                           recordVirtualDisplay, release, GoTo
                  <4>. QED  BY <1>2, <4>1, <4>2, <4>3 DEF ThreadStep
            <3>2. streamingSender # null /\ streamingSender # n
                  BY <1>0, <3>1 DEF collect, GoTo, Throws, Caught
            <3>3. n = mVideoRecorder \/ mQuit[n] \/ n \in replaced
                  BY <2>1 DEF Streams
            <3>. QED  BY <3>2, <3>3, RecordingFacts DEF Streams
      <2>5. \A n \in Recordings, k \in Recordings :
               n # k /\ n \in fedBy'[k] => late'[n] = 1 \/ n \in replaced'
            <3>1. CASE /\ sendFood(th) /\ th[2] = "video"
                       /\ sender[target[th]].queued < MAX_QUEUE_CAPACITY
                  <4>1. PICK m \in Recordings : th = <<m, "video">> /\ th[1] = m
                        BY <3>1, ThreadFacts
                  <4>2. /\ fedBy' = [fedBy EXCEPT ![target[th]] = @ \union {m}]
                        /\ late' = [late EXCEPT ![m] = IF mQuit[m] THEN @ + 1 ELSE @]
                        /\ pc[th] = "sendFood"
                        BY <3>1, <4>1 DEF sendFood
                  <4>3. late[m] = 0
                        BY <1>0, <4>1, <4>2 DEF Packets
                  <4>4. \A n \in Recordings : late[n] = 1 => late'[n] = 1
                        BY <1>0, <4>2, <4>3
                  <4>5. target[th] # m => late'[m] = 1 \/ m \in replaced
                        BY <1>0, <4>1, <4>2, <4>3 DEF Streams
                  <4>6. \A n \in Recordings, k \in Recordings :
                           n \in fedBy'[k] => n \in fedBy[k] \/ (n = m /\ k = target[th])
                        BY <1>0, <4>2
                  <4>. QED  BY <2>1, <4>4, <4>5, <4>6 DEF Streams
            <3>2. CASE UNCHANGED <<fedBy, late>>
                  BY <2>1, <3>2 DEF Streams
            <3>3. sendFood(th) \/ UNCHANGED <<fedBy, late>>
                  BY <1>2 DEF ThreadStep, collect, prepareEncoder, createVirtualDisplay,
                     recordVirtualDisplay, release, queueAudio, history
            <3>4. sendFood(th) =>
                     \/ th[2] = "video" /\ sender[target[th]].queued < MAX_QUEUE_CAPACITY
                     \/ UNCHANGED <<fedBy, late>>
                  BY DEF sendFood
            <3>. QED  BY <3>1, <3>2, <3>3, <3>4
      <2>. QED  BY <2>1, <2>2, <2>4, <2>5 DEF Streams
<1>3. ASSUME NEW n \in Recordings, pop(n)
      PROVE  Streams'
      BY <1>3 DEF pop, Streams, activity, history
<1>4. CASE UNCHANGED vars
      BY <1>4 DEF vars, Streams, activity, history
<1>. QED  BY <1>1, <1>2, <1>3, <1>4, NextActions

LEMMA StreamsInvariant == Spec => [](Packets /\ Streams)
<1>1. ASSUME Init
      PROVE  Packets /\ Streams
      <2>1. /\ \A n \in Recordings : late[n] = 0 /\ pc[<<n, "video">>] = "new" /\ fedBy[n] = {}
            /\ mVideoRecorder = null
            BY <1>1, ThreadFacts DEF Init
      <2>2. Packets
            <3>1. \A n \in Recordings : late[n] <= 1 /\ late[n] # 1
                  BY <1>1 DEF Init
            <3>. QED  BY <3>1, Zenon DEF Packets
      <2>3. Streams
            BY <2>1 DEF Streams
      <2>. QED  BY <2>2, <2>3
<1>2. ASSUME TypeInv, Packets, Streams, [Next]_vars
      PROVE  Packets' /\ Streams'
      BY <1>2, PacketsStep, StreamsStep
<1>. QED  BY <1>1, <1>2, TypeInvariant, PTL DEF Spec

\* A recorder told to quit delivers at most the packet in its hand, and only
\* that packet, or a replaced sender, mixes two recordings.
THEOREM OneLateFrameCorrect == Spec => []OneLateFrame
<1>1. Packets /\ Streams => OneLateFrame
      BY DEF Packets, Streams, OneLateFrame
<1>. QED  BY <1>1, StreamsInvariant, PTL

\* Only a second request takes a running recorder away from the stop button.
THEOREM UnstoppableWasReplacedCorrect == Spec => []UnstoppableWasReplaced
<1>1. Streams => UnstoppableWasReplaced
      BY DEF Streams, UnstoppableWasReplaced
<1>. QED  BY <1>1, StreamsInvariant, PTL
================================================================================
