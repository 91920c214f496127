# A TLA+ development for deep_learning_app

The repository is an Android application: it records the screen or the camera
and streams it to an RTMP server, it runs TensorFlow image classifiers, a
detector with box tracking and a style transfer on the camera's preview, and it
reacts to WeChat notifications through an accessibility service.  The logic of
its own is in `app/src/main/java/com/deeplearning/app` (called J below),
`app/src/main/java/org/tensorflow/demo` (D) and `app/src/main/cpp/demo`.
TensorFlow itself, the other third-party sources and the layout code are left
aside.  The repository has no tests of these parts and no design documents:
the models come from the code, the claims from its comments and messages.

## Inventory

| Part | State | Operations | What is hard | What makes it correct |
|---|---|---|---|---|
| RTMP sender, `J/task/RtmpStreamingSender` | bounded deque, `state`, `mQuit`, `writeMsgNum`, native connection | `sendStart`, `sendFood`, `sendStop`, `quit`, the loop of `run` | three kinds of thread, two accounts of the queue's length under different protection, an overflow that throws | counter and deque agree; connection opened, used and closed properly; packet order; drains and ends |
| Sound path, `J/core/RESAudioClient`, `RESSoftAudioCore`, `J/task/AudioSenderThread` | ring of buffers with flags, message queue, filter and its lock, encoder | `start`, `stop`, filter calls; loops of the recorder, handler and sender threads | ownership of buffers by an unsynchronized flag, unbounded waits, `stop` joining three threads, failing `start` | frames whole and in order, `stop` returns, no use of a stopped encoder |
| Box tracker, `D/tracking/MultiBoxTracker` | list of tracked recognitions, queue of colours, registry in `ObjectTracker` | `onFrame`, `trackResults`, `handleDetection` | late detections against moved objects, several removal paths | colours and registrations conserved, who may displace whom |
| Screen recording, `J/activity/ScreenRecordActivity`, `J/task/ScreenRecorderThread` | recorder, sender, audio client, executor | button clicks, `onActivityResult`, `stopScreenRecord` | a stop that leaves the audio client running; the collecter reads a field that becomes null; a second request replaces a running recording | a stopped recorder delivers at most the packet in hand; the projection ends; what can kill the process and what cannot be stopped |
| Camera recording, `J/activity/CameraRecordActivity` | raw-frame queue, encoder thread, sender | `put`, `onViewClicked`, encoder loop | bound off by one, thread started twice, sender never executed | frames fed reach the wire |
| Inference pipeline, `D/CameraActivity` and its subclasses | `computing`, handler thread, buffers | `onPreviewFrame`, `onImageAvailable`, background jobs, `onPause` | the flag survives exceptions; buffers replaced under a running job | a frame is in process or the next one is accepted |
| Camera fragment, `D/CameraConnectionFragment` | open/close semaphore, device, session, background thread | `openCamera`, `closeCamera`, device callbacks | the permit given back before the device is stored, kept after a failed open, released twice after a late error; fields shared by two threads | a close waits for an open, a paused fragment has no camera, `onPause` returns |
| `D/tracking/ObjectTracker` and the native tracker, `cpp/demo/object_tracking` | singleton, queue of frame pairs, two images with caches, tables of objects on both sides | `nextFrame`, `trackObject`, `stopTracking`, `getInstance`, `release` | a static instance shared by activities, caches and pointers that follow two swapped images, detections of old frames, a bounded history | boxes are carried as the picture moves, both sides agree, no native check fails |
| WeChat job and services, `J/job`, `J/service` | current window, receiving flag, delayed runnable | accessibility and notification events | events in any order, delayed actions on a window that has changed | a packet is opened once |
| User interface, preferences, image conversion, classifiers | - | - | none that a model checker reaches | - |

The encoders of a recording call a collecter, which calls `sendFood` of the
sender; the activity starts and stops all three.  The detector hands every
camera frame to `MultiBoxTracker.onFrame` and, when a detection is done, its
results to `trackResults` from the inference thread.  `PROJECT.json` lists
every part with its status, and every hazard with its line and the properties
that cover it.

## Modules

| Module | Models |
|---|---|
| `FoodChannel` | what the sender promises: a bounded FIFO that may skip only expendable packets |
| `RtmpStreamingSender` | the sender with its callers, one action for each access `run` makes to shared state |
| `RtmpStreamingSenderProofs` | proofs about it, and that it implements `FoodChannel` |
| `RESSoftAudioCore` | the sound path: recorder, handler, sender and client threads around the ring and the encoder |
| `RESSoftAudioCoreProofs` | proofs about it |
| `MultiBoxTracker` | the matching of detections with tracked objects |
| `MultiBoxTrackerProofs` | proofs about it |
| `CameraConnectionFragment` | opening and closing the camera: the UI thread, the background thread and the camera framework |
| `CameraConnectionFragmentProofs` | proofs about it |
| `CameraActivity` | the inference pipeline: frame callbacks of both camera APIs, the flag, the handler, the life cycle |
| `CameraActivityProofs` | proofs about it |
| `ObjectTracker` | the tracker behind `MultiBoxTracker`, its Java and its native half |
| `ObjectTrackerProofs` | proofs about it |
| `ScreenRecordActivity` | the composition of a screen recording: activity, recorder thread, audio thread and sender, over several recordings |
| `ScreenRecordActivityProofs` | proofs about it |
| `MCRtmpSender`, `MCAudio`, `MCMultiBox`, `MCCameraFragment`, `MCCameraActivity`, `MCObjectTracker`, `MCScreenRecord` | the instances TLC checks |

**RtmpStreamingSender.**  `mQuit`, `state`, `rtmpAddr`, `jniRtmpPointer`,
`frameQueue` and `writeMsgNum` are the fields of that name; `pc` is the place of
`run`, `caller` the progress of the activity.  The activity's thread makes its
calls in the order of `onActivityResult` and `stopScreenRecord`, once each,
because every recording has a sender of its own; `sendStop` is two actions
because it sets `state` after releasing the lock.  `sendFood` is one action: it
runs under the lock, and the only thing that can happen to the deque meanwhile
is a pop, which makes room.  The read of `writeMsgNum` in the crowded-queue test
is not under the lock, so `visible` collects the values written since the loop's
own decrement and the test may see any of them.  `RtmpClient` is native and its
code not in the repository: `open` yields a fresh connection or 0, a failing `write` is
ignored as in the code.  (The repository has a C file for a client,
`jni/rtmp/screenrecorderrtmp.c`, and a prebuilt library; both export the methods of
`net.yrom.screenrecorder.rtmp.RtmpClient`, not of the class this application
declares.)  `opens`, `openConns`, `metaWritten`, `wire` and
`lateWrites` record what the client was asked.

**RESSoftAudioCore.**  `rpc`, `hpc`, `spc` and `cpc` are the places of
`AudioRecordThread`, the handler, `AudioSenderThread` and the client.  Copies
into and out of the ring take two steps so that a torn copy can be seen.
`startThrows` is the exception that `start` catches and prints.  `crashed` is an
exception nobody catches; nothing happens after it.  The flag `isReadyToFill` is
a plain field: the recorder may still read the false it wrote itself after the
handler has set it.  Apart from that the threads see each other's writes in
order: `sendMessage` and the looper synchronize the copy with its announcement,
and `isRunning` and `shouldQuit`, plain fields too, are read again after a native
call in each round.  The client is any caller of the public methods of
`RESAudioClient` that pairs `start` and `stop`; the application itself only
prepares and starts, and never installs a filter.

**MultiBoxTracker.**  `object` is `ObjectTracker`'s table of registered objects
with the native position and correlation of each, which `onFrame` changes
arbitrarily.  `pending` holds the scores of the detections `trackResults` has
not handled yet; as both methods are synchronized, `onFrame` waits for it to be
empty.  Boxes are positions with an overlap given by a constant.  The list of
recognitions is a set: its order only decides ties, which the model leaves open.

**CameraConnectionFragment.**  `ui` is the place of the UI thread in `onResume` or
`onPause`, `bg` that of the background thread in a callback; each action ends
before the next access to a field the other thread uses.  `permits` is
`cameraOpenCloseLock`.  The camera framework is external: it posts the result of
an open, the loss of a camera and the end of a session's configuration to the
looper of the resume that asked for it; a looper that has quit drops the message,
and a message about a device closed meanwhile is not delivered.  An exception that nobody
catches sets `crashed` and ends the behaviour.  `silentFailure`, `lateLoss` and
`overtaken` only record what happened.  `createCameraPreviewSession` reads
`cameraDevice` and `previewReader` again after each call, and meets a null that an
overtaking `closeCamera` left there.  Assumed of the view system is that no
surface first becomes available to a paused fragment: the listener stays
registered and does not ask, and would open the camera.  The activities of this repository finish
when they are paused; the fragment's own comment (line 339) speaks of several
rounds, and so does the model.

**CameraActivity.**  One module for `CameraActivity` and its three subclasses:
`api` and `app` are chosen in the initial state, so that every camera API meets
every activity.  `cam` is the place of a frame's callback, which runs on the
fragment's thread (Camera2) or on the UI thread (legacy); `inf` is the place of
the job, `ui` that of the life cycle.  Bitmaps hold the number of the frame
drawn on them.  `computing` stands for the field of that name that the path uses:
`DetectorActivity` declares its own, which only its Camera2 callback touches, and
the legacy path uses the inherited one.  It is not volatile, but only the camera's
thread sets it: a late view of the reset drops one more frame with Camera2, which
`returnEarly` allows anyway, and with the legacy API the buffer that brings the
next frame goes through the camera's own synchronization after the reset.  The style
transfer reads `desiredSize` at several places, each an action of its own.
The order of the activity's and the fragment's life cycle methods is Android's.

**ObjectTracker.**  The variables ending in `_` are the members of the native
class; `queue` is its array of `FramePair`s with the index of the first and their
number, `image` the two `ImageData`, of which `frame1_` and `frame2_` say which is
the older, `flow` the pointers `OpticalFlow` keeps beside them.  `trackedObjects`,
`lastTimestamp`, `debugHistory` and `downsampled` (the time of `downsampledFrame`)
are fields of the Java class, `handle` the `TrackedObject`s it has given out.  One
action is one call, since every call is made under the lock of `MultiBoxTracker`;
`open` is the first frame of a new one, which clears the instance.  The model
abstracts pictures to where the scene is in them: an object's appearance is its
place in the scene, optical flow finds how far the scene moved between the two
pictures its pointers and caches really hold, and a thumbnail is the place it was
cut from.  So a wrong pointer, a stale cache or a wrong pair shows as a box or a
thumbnail of the wrong place, while errors of measurement are outside the model,
and so is the score `UpdatePosition` computes from the two thumbnails: it depends
on pixels, and `MultiBoxTracker` is checked with any score.  Left out are the object detector, which
`initNative` never installs, with everything that depends on it; the list of
deltas, setters and visibility queries, which have no reader; and the choice of
keypoints.  Identities are `hashCode()`s in the code, taken to differ among live
objects.  A previous tracker makes no more calls: `onPause` has ended its threads
(`OnPauseReturns` of `CameraActivity`).

**ScreenRecordActivity.**  `ui` is the place of the UI thread inside
`onActivityResult` or `stopScreenRecord`; between callbacks it is idle.  Recordings
are numbered by the projections granted; each has its projection, its sender, its
recorder's `mQuit` and encoder and two threads, `pc` being where they are.  The
collecter takes two steps, since the field it reads may change before `sendFood` is
called.  The sender is a bounded queue its thread may empty while it is executed
and not stopped: what is inside is `RtmpStreamingSender`, whose theorem
`AbandonIsDead` justifies that a full queue always throws.  `sendStop`, `quit` and
the assignment of null are one step, because a stopped sender differs from one that
never connects only in not being emptied.  Codec, display, projection and
microphone are external and may throw wherever the platform lets them.  An exception
in `RESSoftAudioCore.start` is swallowed there, and the recording goes on until the
microphone's first frame meets the handler that was not made.  The
exceptions that end the process are the values of `crashed`.

## Runs

| Run | Instance | Checks | Distinct states |
|---|---|---|---|
| `MCRtmpSender` | capacity 3, two producers of 3 packets | eight properties of the sender | 118,703 |
| `MCRtmpOverflow` | the same | `FullQueueAbandons`, violated | |
| `MCAudioFiltered` | ring of 2, one input and one output buffer, 4 frames, 2 sessions, a filter | ownership of the ring, order, encoding | 50,161 |
| `MCAudioSessions` | ring of 2, 3 frames, 2 sessions, failing starts, one use of the filter lock | stop, crashes, stale copies | 165,308 |
| `MCAudioRecopy` | the same ring, no filter | `OrignAudioBuffIsReady`, violated | |
| `MCMultiBox` | 3 colours, 4 identities, 3 boxes, 2 detections a result | colours, registry, displacement | 89,181 |
| `MCCameraFragment` | 3 resumes, failing camera service | permits, waiting, leaks, crashes, `onPause` | 86,921 |
| `MCCameraLeak` | 1 resume, nothing fails | `PausedIsClosed`, violated | |
| `MCCameraActivity` | both APIs, 3 activities, 4 frames, 2 sizes, 3 clicks, exceptions | flag, inputs, buffer, sizes, release, pause | 45,477 |
| `MCDetectorLegacy` | legacy camera, detector | `DetectorTracks`, violated | |
| `MCObjectTracker` | 3 frame pairs, 2 identities, times up to 5 with gaps, a history of 2 | exactness, thumbnails, agreement of both sides, native checks | 434,091 |
| `MCScreenRecord` | 2 recordings, which may be asked for at once, queue of 1 | crashes, late frames, recordings out of reach, end of the projection | 568,502 |

The bounds let the interesting cases happen.  Six packets fill a deque of three,
overflow it and leave enough to shed; the threshold of two thirds is 2.  Four
frames go twice round a ring of two, and one encoder buffer makes the handler
wait.  Three colours with four identities make a detection that finds no colour,
one that removes two objects and one that replaces the worst; the correlations
29, 75 and 76 and the overlaps 20, 30 and 50 stand on both sides of every
threshold.  With three resumes the extra permit of one round is met by the next,
and its consequences by the one after.  Four frames give a job under way, one
dropped beside it and one accepted after it; three clicks go once round two sizes.  Five frames wrap a queue of three twice, a gap of two skips an image, and
a detection may be of a frame the queue has given up; symmetry among the two identities is sound because nothing orders them.  Two
recordings are what a restart or a doubled request needs, and a queue of one is full at once.  Deadlock is not checked where all threads
end by design (the sender, the sound path, the fragment and the activity after
their last pause) or the process dies (the screen recording); the two trackers can always take the next frame or be opened again and are checked.

Four runs show disagreements with what the code says of itself.

* `MCRtmpOverflow`: the message "senderQueue is full,abandon"
  (`RtmpStreamingSender.java:141`) belongs to a branch that cannot be reached,
  since the deque is as small as the limit the counter is compared with.  A full
  deque makes `add` throw in the encoder's thread instead.
* `MCAudioRecopy`: where the comment says "orignAudioBuff is ready"
  (`RESSoftAudioCore.java:213`), the buffer was copied a second time after
  line 202 had given it back to the recorder, unless a filter handled the frame.
  `NeverStale` shows what remains true: the copy is never older than its message.
* `MCCameraLeak`: the semaphore is there "to prevent the app from exiting before
  closing the camera" (`CameraConnectionFragment.java:211`), but `onOpened` releases
  it one line before it stores the device, and a waiting `closeCamera` may find
  none.  `LeakNeedsOvertaking` shows that this and the second release of a lost
  camera are the only ways a camera stays open.
* `MCDetectorLegacy`: the detector's class comment says it is to "detect and then track"
  (`DetectorActivity.java:49`); with the legacy camera its frames end in an empty
  method, the first one keeping the flag and the buffer.

`SizesAgree` names the one case in which the style transfer's buffers disagree:
the size button pressed while a Camera2 callback runs (`StylizeActivity.java:508`
replaces the buffers when the job that uses them is already posted).

`CrashNeedsStop` states the converse of a flaw: stopping a recording always leaves
its audio thread running, whose next packet finds `streamingSender` null and ends
the process; before the first stop that cannot happen, not even when a second
request fails halfway.  `OneLateFrame` names the two ways a picture of one
recording can enter the stream of another.  After a second request that was
answered during a recording, the first recorder and sender are reachable from no
field and run on; `UnstoppableWasReplaced` shows that this is the only way a
recording gets out of reach of the stop button, which a failed `prepare` or a
recording after a stop does not do.

When the queue of frame pairs does not reach back to a detection's frame, `TrackBox`
leaves the box where it was (object_tracker.cc:330, "History did not go back far
enough!").  `TrackBoxIsExact` shows that this is the only way a box is misplaced,
and `ComparesTheRightPlaces` that such an object is judged fairly: by a thumbnail
from its detection's own frame, although detections and frames share one
downsampled picture, and one of the box in the newest frame, which then show
different places.  Whether their score stays below the limits of `MultiBoxTracker`
(0.3 and 0.75) depends on what the picture shows there; a repetitive texture may
pass, and no property says otherwise.

Reading for these models turned up three more things no run is about.
Without an object model the match score is 0, below the minimum `UpdatePosition` asks
for, so the count of bad frames grows on good ones too; only a visibility flag
without a reader depends on it.  `AddExtraCandidatesForBoxes` stores its candidates
into a copy.  A projection granted while the address field is empty, or before
`audioClient.prepare` fails, is never stopped.

**Fairness.**  The sender's loop runs on an executor's thread and is weakly fair,
native calls included; the activity and the producers are not, since the user
may never stop and a producer may die.  In the sound path every thread of the
process, the codec and a `stop` that has begun are weakly fair; when the client
stops, and whether it ever releases the filter's lock, is left open.  In the fragment the two threads are weakly fair, and the
framework reports on every open, as its interface promises; `PauseReturns` excepts
the open that threw, after which the permit is never given back and `onPause`
waits for ever.  In the pipeline the callback, the inference thread and a pause
that has begun are weakly fair, and a camera that has a free buffer delivers
frames.  In the screen recording only the recorder's thread is weakly fair, its codec
calls having a time-out; user, network and microphone owe nothing.

## Proofs

The proofs hold for every value of the constants that satisfies the assumption of
the module, in particular for the sizes in the code.

*RtmpStreamingSender* needs that the deque's capacity is at most
`maxQueueLength` (both are 50), for `AbandonIsDead` only.
`TypeOK` alone is not inductive: a pop needs a deque that is not empty, which
needs the phases of the caller and of `run` (`Phases`, `PopReady`).
`CounterTracksQueue` is inductive over these.  `ConnectionOwned` follows from
`Connection`, which adds where in `run` and in which `state` a connection is
open: the overwritten STOPPED is harmless because the connection is open by then.
`OneLateWrite` follows from `Late`: between two tests of `mQuit` there is at most
one write.  `ChannelRefined` maps the channel's contents to the packet `run` has
in hand followed by the deque, and the wire to the wire; a pop is a stutter, a
shed packet is a skip of an expendable one.

*MultiBoxTracker*: the invariant `Inv` has the types, `RegistryMatchesList`, and
`OneWearer`, which says without counting that a colour is free or worn by one
object.  Counting cannot be inducted on directly, because the number of
colours given back is the cardinality of a set chosen in the step; the lemmas
`WearersCount` and `ReturnCount` lead from one to the other, for any number of
colours.  `StrongTrackSurvives` and `PlacedClear` are action properties proved
step by step from `Inv`.

*CameraActivity*: `FlagIsOneFrame` is inductive once it is known where a callback
may still be after posting its job (`PostedWhere`).  `JobNeverRefused` follows from
the order of the life cycle alone (`Life`).  `NoBufferLost` needs `Buffers`: with
the buffer at the camera, or delivered and not looked at, the flag is down and
the inference thread idle, which the order of the job's last two steps gives.
`JobSeesItsFrame` and `SizesAgree` rest on the flag (a holder of the frame
excludes every other) and on `Resizing` and `Inputs`.

*TrackOrder* of the sender is about the wire, which only grows at one end, but it
is inductive only for the whole line of packets: what is written, the packet in
hand and the deque (`InLine`).  In that line the numbers of a track increase, none
is above the producer's count, and the configuration record is there for every
track that has placed a packet and not been thrown out by a full deque.
`LineStep` needs `CounterTracksQueue`, since a `sendFood` that abandoned a packet
would leave a hole; that a shed packet is expendable keeps the records.  `Meta`
gives the metadata its place.

*RESSoftAudioCore*: `TypeOK`, `CrashNeedsFailedStart` and `NeverStale` hold without
any assumption.  The first of the two follows from `Control`, which says which
threads a session has and in which phase of `stop` each has ended, and that a
failed start is the last one: its `stop` meets the null handler or the stopped
encoder.  `NeverStale` follows from `Growing`: the halves of a buffer only become
newer, and a message, the handler's message and its copy are bounded by them.  The
other three need a filter that nobody else locks (`InitialFilter`,
`MaxFilterOps = 0`), without which `MCAudioRecopy` refutes them; the application
itself never installs one, so they are statements about the library's filtered
path.  `Owned` says that a buffer is ready or announced and announced once; it
speaks of sessions until the looper quits, because `quit` forgets the messages and
only the next `start` frees their buffers.  It is inductive because the recorder
fills only a ready target, and the bound on the queue follows by the pigeonhole
theorem.  From it `Wholes` (an announced buffer is not written to) and from
that `Ordered`, the order of frames from the encoder back to the microphone.
`RingOwnership` is proved for the states with `~startFailed`: with a failed start
the recorder runs without a handler and its announcements are dropped, so the
flag stays down.

*CameraConnectionFragment*: `Current` (the background thread, its messages and
its device belong to the current resume) makes all other parts inductive.
`OpenFindsPermit` needs `Permit`, where the permit is between `closeCamera` and the next open;
`CallbacksSafeWhileResumed` needs `Usable`, the states of the device that each
place of a callback relies on.  `CloseWaits` needs `OneOpen`: the open under way,
its report, the callback that handles it and the configuration exclude each
other, and so do the permit owed by them and a close.  `LeakNeedsOvertaking` adds
`Kept`, who still knows an open camera.  The last two speak of behaviours in
which no opened camera was lost (`lateLoss`), as the properties do.

*ObjectTracker*: the invariant joins `Clock`, `Pictures`, `Pairs` and `Objects`,
none of which is inductive alone: the motion stored with a pair is right because
the two pictures and the flow's pointers are, and an object is carried correctly
because the newest pair is right.  `Pairs` says that the ring of frame pairs,
counted from its end, is a chain up to the current time.  `TrackBox` adds up the
pairs with a recursive function.  The library's induction theorems cannot be
instantiated, but its theorem that a well-founded relation has minimal elements
can: `Least` and `SetInduction` derive induction over a set of numbers from it, and
what the sum is follows for a queue of any length (`Exact`).  `History`, for
`JavaSeesNative`, needs `always_track`, which `MultiBoxTracker` passes.
`StaysAnchored` is an action property proved call by call.

*ScreenRecordActivity*: `Started` relates the activity's fields to the
threads of a recording, which `InHand` and the types need.  `NoSender`: the field is null
only before the first audio thread or after a stop; that a second request does
not pass through null is what makes it inductive.  `Packets` and `Streams` say
whose sender a recorder may have and which recorders the field `mVideoRecorder` no
longer knows, and give `OneLateFrame` and `UnstoppableWasReplaced`.

Model-checked only: the liveness properties (`QuitCloses`, `ConnectedDrains`,
`StopReturns`, `AnnouncedIsEncoded`, `PauseReturns`, `FrameIsReleased`,
`OnPauseReturns`, `ProjectionStops`).  They need fairness, hence `ENABLED`, which the prover does not
handle.  Every invariant and every action property of the passing runs is a theorem.
The type invariants are proved for all seven modules; they are in no run because the
theorem says more.

## Not modelled

Bytes and pixels (FLV packaging, YUV conversion, the arithmetic of optical flow,
keypoints and correlation, the networks' output), drawing, preferences and navigation.  Of the sound path,
`prepare` returning false and `destroy`.  Of the box tracker, `draw` and `drawDebug`.  Of the camera fragment, the choice of
the preview size, the view's transformation and the dialogs.  Of the pipeline,
permissions, debug drawing and the styles' sliders; whether a key pressed before the
first frame meets a classifier that is still null is seen by reading.  Of the screen
recording, the service and the danmaku thread of `onStop` and `onResume`: `isRecording` is
never reset and every `onStop` starts one more endless thread, which needs no model.
`CameraRecordActivity`: its sender is never executed and its thread cannot be started
twice, whatever the interleaving.  The native object detector and its models:
`initNative` installs none.

By lines nearly all of the repository is vendored: of some 690,000 lines of C and
C++ about 8,600 (`cpp/demo`) belong to the application's own native
code, the rest is TensorFlow, its generated protocol buffers, Eigen and librtmp,
which are out of scope.

## Plan

1. *Done*: the sender and its channel, the sound path, the box tracker, the
   camera fragment, the inference pipeline, the native tracker, the screen recording.
2. *Done*: the theorems for every safety property of the passing runs.
   Left: facts the proofs make cheap, such as a refinement of the sound path by a
   channel of whole frames, and the safety half of the liveness properties (the
   states in which a waiting thread can be waiting).
3. The WeChat job with its services.
4. Pure algorithms as operators with reference definitions: the detectors'
   selection of the best results, `chooseOptimalSize`, the normalisation of styles.
