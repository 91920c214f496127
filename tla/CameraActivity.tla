----------------------------- MODULE CameraActivity -----------------------------
(***************************************************************************)
(* org/tensorflow/demo/CameraActivity.java and the three activities that   *)
(* extend it: camera frames are converted, handed to a network on the      *)
(* "inference" thread, and dropped while a frame is in process, which the  *)
(* plain field computing is to say.                                        *)
(*                                                                         *)
(* With the Camera2 API the frames come on the camera fragment's thread,   *)
(* with the legacy API on the UI thread and in the one buffer the fragment *)
(* has given the camera; postInferenceCallback gives it back.  Activity    *)
(* life cycle (external): onResume of the activity precedes its fragment's,*)
(* onPause of the fragment precedes the activity's, and onPause finishes   *)
(* the activity.  Frames are numbered; a bitmap is the frame drawn on it,  *)
(* 0 when it is blank.                                                     *)
(***************************************************************************)
EXTENDS Integers, Sequences

CONSTANTS Apis,       \* subset of {"camera2", "legacy"}: what the device supports
          Apps,       \* subset of {"classifier", "detector", "stylize"}
          NumSizes,   \* SIZES.length of the style transfer
          MaxFrames,  \* bound: frames the camera delivers
          MaxClicks,  \* bound: clicks on the size button
          MayFail     \* conversions and the camera may throw

ASSUME CameraActivityAssumption ==
    /\ Apis \subseteq {"camera2", "legacy"}
    /\ Apps \subseteq {"classifier", "detector", "stylize"}
    /\ NumSizes \in Nat \ {0} /\ MaxFrames \in Nat /\ MaxClicks \in Nat
    /\ MayFail \in BOOLEAN

VARIABLES
    api, app,         \* useCamera2API, and the class of the activity
    ui,               \* where the UI thread is in the life cycle
    handler,          \* the inference thread: "none", "running" or "quitting"
    preview,          \* the camera delivers frames
    buffer,           \* where the legacy camera's buffer is
    frames,           \* the last frame delivered
    cam, posted,      \* where its callback is; its job was given to the handler
    computing, postInferenceCallback,
    croppedBitmap, luminance,
    jobs,             \* the handler's queue
    inf, job,         \* where the inference thread is, and its frame
    recognized,       \* the frame the network's results are of
    tracked,          \* the tracker has been given results
    desiredSizeIndex, desiredSize, initializedSize,
    croppedSize, valuesSize,  \* of croppedBitmap and of intValues and floatValues
    bitmapSize,       \* of the bitmap stylizeImage was called with
    clicks,
    resized,          \* the size was changed while a frame's callback ran
    kept,             \* a frame's callback has ended and left computing set
    crashed

which    == <<api, app>>
life     == <<ui, handler, preview>>
callback == <<frames, cam, posted>>
flag     == <<computing, postInferenceCallback, kept>>
inputs   == <<croppedBitmap, luminance>>
inferred == <<inf, job, recognized, tracked, bitmapSize>>
wanted   == <<desiredSizeIndex, desiredSize, clicks, resized>>
sizes    == <<initializedSize, croppedSize, valuesSize>>
vars == <<which, life, buffer, callback, flag, inputs, jobs, inferred, wanted, sizes, crashed>>

\* SIZES, as indices; 0 is no size
Sizes == 1 .. NumSizes

Init ==
    /\ api \in Apis /\ app \in Apps
    /\ ui = "created" /\ handler = "none" /\ preview = FALSE /\ buffer = "none"
    /\ frames = 0 /\ cam = "idle" /\ posted = FALSE
    /\ computing = FALSE /\ postInferenceCallback = FALSE /\ kept = FALSE
    /\ croppedBitmap = 0 /\ luminance = 0 /\ jobs = <<>>
    /\ inf = "idle" /\ job = 0 /\ recognized = 0 /\ tracked = FALSE /\ bitmapSize = 0
    /\ desiredSizeIndex = -1 /\ desiredSize = NumSizes
    /\ clicks = 0 /\ resized = FALSE
    /\ initializedSize = 0 /\ croppedSize = 0 /\ valuesSize = 0
    /\ crashed = FALSE

--------------------------------------------------------------------------------
(* The UI thread.  The legacy callback runs on it too.                     *)

UiFree == api = "legacy" => cam = "idle"

onResume ==
    /\ ui = "created"
    /\ handler' = "running" /\ ui' = "resumed"
    /\ UNCHANGED <<which, preview, buffer, callback, flag, inputs, jobs, inferred, wanted,
                   sizes, crashed>>

\* setFragment, at once or when the permissions are granted, and the fragment
\* opening the camera.  The legacy one goes on with a camera it has released
\* when the texture cannot be set.
startCamera ==
    /\ ui = "resumed" /\ ~preview
    /\ \/ /\ preview' = TRUE /\ buffer' = IF api = "legacy" THEN "camera" ELSE buffer
          /\ UNCHANGED crashed
       \/ /\ MayFail /\ api = "legacy"
          /\ crashed' = TRUE /\ UNCHANGED <<preview, buffer>>
    /\ UNCHANGED <<which, ui, handler, callback, flag, inputs, jobs, inferred, wanted, sizes>>

\* the size button of the style transfer
NextIndex == (desiredSizeIndex + 1) % NumSizes

onClick ==
    /\ app = "stylize" /\ ui = "resumed" /\ UiFree /\ clicks < MaxClicks
    /\ desiredSizeIndex' = NextIndex /\ desiredSize' = NextIndex + 1
    /\ clicks' = clicks + 1
    /\ resized' = (resized \/ cam # "idle")
    /\ UNCHANGED <<which, life, buffer, callback, flag, inputs, jobs, inferred, sizes, crashed>>

\* onPause of the fragment: no more frames, and the camera's thread is joined
stopCamera ==
    /\ ui = "resumed" /\ UiFree
    /\ preview' = FALSE /\ ui' = "stopping"
    /\ UNCHANGED <<which, handler, buffer, callback, flag, inputs, jobs, inferred, wanted,
                   sizes, crashed>>

CameraJoined_skipped == TRUE
CameraJoined == cam = "idle"

joinCamera ==
    /\ ui = "stopping" /\ CameraJoined
    /\ ui' = "onPause"
    /\ UNCHANGED <<which, handler, preview, buffer, callback, flag, inputs, jobs, inferred,
                   wanted, sizes, crashed>>

\* onPause of the activity, which holds the activity's monitor from here on
AfterQuit_forgotten == handler
AfterQuit == "quitting"

quitSafely ==
    /\ ui = "onPause"
    /\ handler' = AfterQuit /\ ui' = "join"
    /\ UNCHANGED <<which, preview, buffer, callback, flag, inputs, jobs, inferred, wanted,
                   sizes, crashed>>

join ==
    /\ ui = "join" /\ handler = "quitting" /\ inf = "idle" /\ jobs = <<>>
    /\ handler' = "none" /\ ui' = "finished"
    /\ UNCHANGED <<which, preview, buffer, callback, flag, inputs, jobs, inferred, wanted,
                   sizes, crashed>>

onPause == joinCamera \/ quitSafely \/ join

--------------------------------------------------------------------------------
(* The camera's callback.                                                  *)

\* The camera has a frame; the legacy one needs its buffer for it.
frameArrives ==
    /\ preview /\ cam = "idle" /\ frames < MaxFrames
    /\ api = "legacy" => buffer = "camera"
    /\ frames' = frames + 1 /\ cam' = "test"
    /\ buffer' = IF api = "legacy" THEN "app" ELSE buffer
    /\ UNCHANGED <<which, life, posted, flag, inputs, jobs, inferred, wanted, sizes, crashed>>

\* the tests of onPreviewFrame and onImageAvailable
Accepts_always == TRUE
Accepts == ~computing

acceptFrame ==
    /\ cam = "test" /\ Accepts
    /\ computing' = TRUE /\ posted' = FALSE /\ cam' = "convert"
    /\ UNCHANGED <<which, life, buffer, frames, postInferenceCallback, kept, inputs, jobs,
                   inferred, wanted, sizes, crashed>>

\* A frame is in process; or, with Camera2, there was no image, or the
\* detector could not read its planes, which it does before the test.
returnEarly ==
    /\ cam = "test" /\ (computing \/ api = "camera2")
    /\ cam' = "idle"
    /\ UNCHANGED <<which, life, buffer, frames, posted, flag, inputs, jobs, inferred, wanted,
                   sizes, crashed>>

\* The detector has no processImageRGBbytes.
convert ==
    /\ cam = "convert"
    /\ postInferenceCallback' = (api = "legacy")
    /\ IF app = "detector" /\ api = "legacy"
         THEN cam' = "idle" /\ kept' = TRUE
         ELSE cam' = (IF app = "stylize" THEN "check" ELSE "draw") /\ UNCHANGED kept
    /\ UNCHANGED <<which, life, buffer, frames, posted, computing, inputs, jobs, inferred,
                   wanted, sizes, crashed>>

\* The exception is logged, and computing stays set.
convertThrows ==
    /\ cam = "convert" /\ MayFail
    /\ cam' = "idle" /\ kept' = TRUE
    /\ UNCHANGED <<which, life, buffer, frames, posted, computing, postInferenceCallback,
                   inputs, jobs, inferred, wanted, sizes, crashed>>

\* StylizeActivity: if (desiredSize != initializedSize), before and after the
\* job is posted; each use of desiredSize is a read of the field
checkSize ==
    /\ cam = "check"
    /\ cam' = CASE desiredSize # initializedSize -> "bitmap"
                [] OTHER -> IF posted THEN "idle" ELSE "draw"
    /\ UNCHANGED <<which, life, buffer, frames, posted, flag, inputs, jobs, inferred, wanted,
                   sizes, crashed>>

newBitmap ==
    /\ cam = "bitmap"
    /\ croppedSize' = desiredSize /\ croppedBitmap' = 0 /\ cam' = "values"
    /\ UNCHANGED <<which, life, buffer, frames, posted, flag, luminance, jobs, inferred,
                   wanted, initializedSize, valuesSize, crashed>>

NewValues_kept == valuesSize
NewValues == desiredSize

newValues ==
    /\ cam = "values"
    /\ valuesSize' = NewValues /\ cam' = "initialized"
    /\ UNCHANGED <<which, life, buffer, frames, posted, flag, inputs, jobs, inferred,
                   wanted, initializedSize, croppedSize, crashed>>

initialized ==
    /\ cam = "initialized"
    /\ initializedSize' = desiredSize /\ cam' = IF posted THEN "idle" ELSE "draw"
    /\ UNCHANGED <<which, life, buffer, frames, posted, flag, inputs, jobs, inferred,
                   wanted, croppedSize, valuesSize, crashed>>

resetPreviewBuffers == checkSize \/ newBitmap \/ newValues \/ initialized

drawBitmap ==
    /\ cam = "draw"
    /\ croppedBitmap' = frames
    /\ cam' = IF app = "detector" THEN "luminance" ELSE "post"
    /\ UNCHANGED <<which, life, buffer, frames, posted, flag, luminance, jobs, inferred,
                   wanted, sizes, crashed>>

copyLuminance ==
    /\ cam = "luminance"
    /\ luminance' = frames /\ cam' = "post"
    /\ UNCHANGED <<which, life, buffer, frames, posted, flag, croppedBitmap, jobs, inferred,
                   wanted, sizes, crashed>>

\* synchronized; a looper that has quit refuses the job
runInBackground ==
    /\ cam = "post" /\ ui # "join"
    /\ IF handler = "running" THEN jobs' = Append(jobs, frames) /\ UNCHANGED kept
                              ELSE kept' = TRUE /\ UNCHANGED jobs
    /\ posted' = TRUE
    /\ cam' = IF app = "stylize" THEN "check" ELSE "idle"
    /\ UNCHANGED <<which, life, buffer, frames, computing, postInferenceCallback, inputs,
                   inferred, wanted, sizes, crashed>>

processImageRGBbytes == resetPreviewBuffers \/ drawBitmap \/ copyLuminance \/ runInBackground
cameraSteps == acceptFrame \/ returnEarly \/ convert \/ convertThrows \/ processImageRGBbytes

--------------------------------------------------------------------------------
(* The inference thread.                                                   *)

runJob ==
    /\ inf = "idle" /\ jobs # <<>>
    /\ job' = Head(jobs) /\ jobs' = Tail(jobs)
    /\ inf' = IF app = "stylize" THEN "bitmap" ELSE "recognize"
    /\ UNCHANGED <<which, life, buffer, callback, flag, inputs, recognized, tracked,
                   bitmapSize, wanted, sizes, crashed>>

\* The flag is reset before the buffer is given back.
JobEnd_swapped == <<"callback", "release">>
JobEnd == <<"release", "callback">>
After(step) == IF step = JobEnd[1] THEN JobEnd[2] ELSE "idle"

recognizeImage ==
    /\ inf = "recognize"
    /\ recognized' = croppedBitmap
    /\ inf' = IF app = "detector" THEN "track" ELSE JobEnd[1]
    /\ UNCHANGED <<which, life, buffer, callback, flag, inputs, jobs, job, tracked,
                   bitmapSize, wanted, sizes, crashed>>

\* tracker.trackResults(mappedRecognitions, luminance, currTimestamp)
trackResults ==
    /\ inf = "track"
    /\ tracked' = TRUE /\ inf' = JobEnd[1]
    /\ UNCHANGED <<which, life, buffer, callback, flag, inputs, jobs, job, recognized,
                   bitmapSize, wanted, sizes, crashed>>

\* stylizeImage(croppedBitmap), the field as it is now
passBitmap ==
    /\ inf = "bitmap"
    /\ bitmapSize' = croppedSize /\ recognized' = croppedBitmap /\ inf' = "stylize"
    /\ UNCHANGED <<which, life, buffer, callback, flag, inputs, jobs, job, tracked, wanted,
                   sizes, crashed>>

\* getPixels and feed throw when bitmap and arrays have different sizes.
stylizeImage ==
    /\ inf = "stylize"
    /\ IF bitmapSize = valuesSize THEN inf' = JobEnd[1] /\ UNCHANGED crashed
                                  ELSE crashed' = TRUE /\ UNCHANGED inf
    /\ UNCHANGED <<which, life, buffer, callback, flag, inputs, jobs, job, recognized,
                   tracked, bitmapSize, wanted, sizes>>

ComputingAfter_forgotten == computing
ComputingAfter == FALSE

releaseFlag ==
    /\ inf = "release"
    /\ computing' = ComputingAfter /\ inf' = After("release")
    /\ UNCHANGED <<which, life, buffer, callback, postInferenceCallback, kept, inputs, jobs,
                   job, recognized, tracked, bitmapSize, wanted, sizes, crashed>>

\* postInferenceCallback: camera.addCallbackBuffer(bytes)
returnBuffer ==
    /\ inf = "callback"
    /\ buffer' = IF postInferenceCallback THEN "camera" ELSE buffer
    /\ inf' = After("callback")
    /\ UNCHANGED <<which, life, callback, flag, inputs, jobs, job, recognized, tracked,
                   bitmapSize, wanted, sizes, crashed>>

inferenceSteps == \/ runJob \/ recognizeImage \/ trackResults \/ passBitmap
                  \/ stylizeImage \/ releaseFlag \/ returnBuffer

Next ==
    /\ ~crashed
    /\ \/ onResume \/ startCamera \/ onClick \/ stopCamera \/ onPause
       \/ frameArrives \/ cameraSteps \/ inferenceSteps

Spec == Init /\ [][Next]_vars

\* The threads run, and a camera with a free buffer delivers frames.
FairSpec ==
    /\ Spec
    /\ WF_vars(~crashed /\ onPause) /\ WF_vars(~crashed /\ cameraSteps)
    /\ WF_vars(~crashed /\ inferenceSteps) /\ WF_vars(~crashed /\ frameArrives)

--------------------------------------------------------------------------------
(* Properties.                                                             *)

\* The fields hold what their declarations say; the size is one of SIZES.
TypeOK ==
    /\ api \in Apis /\ app \in Apps
    /\ ui \in {"created", "resumed", "stopping", "onPause", "join", "finished"}
    /\ handler \in {"none", "running", "quitting"}
    /\ buffer \in {"none", "camera", "app"}
    /\ frames \in 0 .. MaxFrames /\ clicks \in 0 .. MaxClicks
    /\ cam \in {"idle", "test", "convert", "check", "bitmap", "values", "initialized",
                "draw", "luminance", "post"}
    /\ inf \in {"idle", "recognize", "track", "bitmap", "stylize", "release", "callback"}
    /\ preview \in BOOLEAN /\ posted \in BOOLEAN /\ computing \in BOOLEAN
    /\ postInferenceCallback \in BOOLEAN /\ tracked \in BOOLEAN
    /\ resized \in BOOLEAN /\ kept \in BOOLEAN /\ crashed \in BOOLEAN
    /\ croppedBitmap \in 0 .. MaxFrames /\ luminance \in 0 .. MaxFrames
    /\ job \in 0 .. MaxFrames /\ recognized \in 0 .. MaxFrames
    /\ jobs \in Seq(1 .. MaxFrames)
    /\ desiredSizeIndex \in -1 .. NumSizes - 1 /\ desiredSize \in Sizes
    /\ initializedSize \in 0 .. NumSizes /\ croppedSize \in 0 .. NumSizes
    /\ valuesSize \in 0 .. NumSizes /\ bitmapSize \in 0 .. NumSizes

\* Who has a frame in process: the camera's callback, the handler's queue, the
\* inference thread, or nobody any more.
CamHolds == cam \notin {"idle", "test"} /\ ~posted
InfHolds == inf \notin {"idle", "callback"}

\* computing, a field two threads write without a lock, says exactly that one
\* frame is in process: there is never a second one, and the flag is reset
\* neither too early nor by a thread that does not own it.
FlagIsOneFrame ==
    /\ computing <=> (CamHolds \/ jobs # <<>> \/ InfHolds \/ kept)
    /\ Len(jobs) <= 1
    /\ CamHolds => jobs = <<>> /\ ~InfHolds /\ ~kept
    /\ jobs # <<>> => ~InfHolds /\ ~kept
    /\ InfHolds => ~kept

\* The job finds in the shared bitmap and in luminance the frame it was posted
\* for, and trackResults gets results, luminance and timestamp of one frame,
\* however many frames came meanwhile (unless the size button replaced them).
JobSeesItsFrame ==
    /\ inf \in {"recognize", "track"} => croppedBitmap = job
    /\ inf = "bitmap" /\ ~resized => croppedBitmap = job
    /\ inf = "track" => recognized = job /\ luminance = job

\* runInBackground never loses a job, which would leave computing set: the
\* fragment has joined the camera's thread before onPause ends the handler.
JobNeverRefused == cam = "post" => handler = "running"

\* The legacy camera never delivers its only buffer to a callback that returns
\* at once and keeps it: the buffer comes back only after the flag was reset.
NoBufferLost == api = "legacy" /\ cam = "test" => ~computing

\* stylizeImage meets a bitmap and arrays of one size, unless the size button
\* was pressed while a Camera2 callback was running.
SizesAgree == inf = "stylize" /\ ~resized => bitmapSize = valuesSize

\* A frame in process is done with, and the legacy buffer goes back to the
\* camera, unless a callback gave up with the flag set or the process crashed.
FrameIsReleased ==
    /\ computing ~> (~computing \/ kept \/ crashed)
    /\ buffer = "app" ~> (buffer = "camera" \/ kept \/ crashed)

\* The activity's onPause ends, although it waits for the camera's thread and
\* for the job under way.
OnPauseReturns == ui = "stopping" ~> (ui = "finished" \/ crashed)

\* What the comment on the class says (DetectorActivity.java:49): it uses a
\* detector and a tracker "to detect and then track objects".
DetectorTracks ==
    app = "detector" /\ preview ~> (tracked \/ ui # "resumed" \/ crashed)
================================================================================
