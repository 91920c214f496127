------------------------ MODULE CameraConnectionFragment ------------------------
(***************************************************************************)
(* org/tensorflow/demo/CameraConnectionFragment.java: opens the camera     *)
(* when the fragment is resumed and closes it when it is paused.           *)
(*                                                                         *)
(* The fragment's own callbacks run on the UI thread.  The callbacks of    *)
(* the camera device and of its capture session run on backgroundThread,   *)
(* which lives from onResume to onPause.  cameraOpenCloseLock, a semaphore *)
(* of one permit, is to keep closeCamera waiting while an open is under    *)
(* way; the fields cameraDevice, captureSession and previewReader are      *)
(* shared without any other protection.                                    *)
(*                                                                         *)
(* The camera framework is external: it reports an open, a failure or a    *)
(* loss by posting a message to the background looper; a looper that has   *)
(* quit drops it, and a message about a device that was closed meanwhile   *)
(* is not delivered.  Devices are numbered in the order of the opens.      *)
(***************************************************************************)
EXTENDS Integers, Sequences

CONSTANTS MaxResumes,     \* bound: calls of onResume
          MayFail         \* the camera service may throw CameraAccessException

ASSUME FragmentAssumption == MaxResumes \in Nat /\ MayFail \in BOOLEAN

Devices == 1 .. MaxResumes
NoDevice == 0

VARIABLES
    permits,                                      \* cameraOpenCloseLock
    cameraDevice, captureSession, previewReader,  \* the device each belongs to
    previewSize,      \* setUpCameraOutputs has chosen a size
    surface,          \* textureView.isAvailable()
    thread,           \* backgroundThread
    inbox,            \* its messages
    msg, bg,          \* the message it handles, and where it is in that
    ui,               \* where the UI thread is
    resumes,
    device,           \* the framework's side of each device
    configuring,      \* devices whose capture session is being configured
    silentFailure,    \* an open threw and no callback followed
    lateLoss,         \* a device was lost after it had been opened
    overtaken,        \* closeCamera looked for a device that onOpened had not stored yet
    crashed           \* the thread whose exception ended the process, or "no"

fields    == <<cameraDevice, captureSession, previewReader>>
bgVars    == <<thread, inbox, msg, bg>>
uiVars    == <<ui, surface, previewSize, resumes>>
frameVars == <<device, configuring>>
history   == <<silentFailure, lateLoss, overtaken>>
vars == <<permits, fields, bgVars, uiVars, frameVars, history, crashed>>

Messages == [what : {"onOpened", "onLost", "onConfigured"}, cd : Devices]
UiPc == {"paused", "resumed", "setUp", "tryAcquire", "manager", "acquire", "session",
         "testDevice", "device", "reader", "quitSafely", "join"}
Closing == {"session", "testDevice", "device", "reader"}
BgPc == {"idle", "onOpened", "store", "request", "newReader", "useReader", "newSession",
         "onLost", "forget", "onConfigured", "startPreview"}
DeviceStates == {"none", "opening", "open", "lost", "closed"}

Init ==
    /\ permits = 1
    /\ cameraDevice = NoDevice /\ captureSession = NoDevice /\ previewReader = NoDevice
    /\ previewSize = FALSE /\ surface = FALSE
    /\ thread = "none" /\ inbox = <<>> /\ bg = "idle"
    /\ msg \in [what : {"onOpened"}, cd : {NoDevice}]
    /\ ui = "paused" /\ resumes = 0
    /\ device = [d \in Devices |-> "none"] /\ configuring = {}
    /\ silentFailure = FALSE /\ lateLoss = FALSE /\ overtaken = FALSE
    /\ crashed = "no"

\* The semaphore: acquire waits for a permit, release adds one.
MayAcquire_unchecked == TRUE
MayAcquire == permits > 0

--------------------------------------------------------------------------------
(* The UI thread.                                                          *)

\* startBackgroundThread; the camera is opened at once if there is a surface
onResume ==
    /\ ui = "paused" /\ resumes < MaxResumes
    /\ thread' = "running" /\ resumes' = resumes + 1
    /\ ui' = IF surface THEN "setUp" ELSE "resumed"
    /\ UNCHANGED <<permits, fields, inbox, msg, bg, surface, previewSize, frameVars,
                   history, crashed>>

\* the listener that onResume has set; it stays set after onPause.  The view
\* system is assumed to make no surface available to a paused fragment: the
\* callback itself does not ask, and would open the camera.
onSurfaceTextureAvailable ==
    /\ ui = "resumed" /\ ~surface
    /\ surface' = TRUE /\ ui' = "setUp"
    /\ UNCHANGED <<permits, fields, bgVars, previewSize, resumes, frameVars, history,
                   crashed>>

onSurfaceTextureDestroyed ==
    /\ ui = "paused" /\ surface
    /\ surface' = FALSE
    /\ UNCHANGED <<permits, fields, bgVars, ui, previewSize, resumes, frameVars,
                   history, crashed>>

\* The exception of an inaccessible camera is logged; the listener is then
\* told of the previous size, which the first time is null.
setUpCameraOutputs ==
    /\ ui = "setUp"
    /\ \/ previewSize' = TRUE /\ ui' = "tryAcquire" /\ UNCHANGED crashed
       \/ /\ MayFail /\ UNCHANGED previewSize
          /\ IF previewSize THEN ui' = "tryAcquire" /\ UNCHANGED crashed
                            ELSE crashed' = "ui" /\ UNCHANGED ui
    /\ UNCHANGED <<permits, fields, bgVars, surface, resumes, frameVars, history>>

\* tryAcquire gives up after 2500 ms with a RuntimeException
openCameraAcquire ==
    /\ ui = "tryAcquire"
    /\ IF permits > 0 THEN permits' = permits - 1 /\ ui' = "manager" /\ UNCHANGED crashed
                      ELSE crashed' = "ui" /\ UNCHANGED <<permits, ui>>
    /\ UNCHANGED <<fields, bgVars, surface, previewSize, resumes, frameVars, history>>

\* manager.openCamera begins to open the camera or throws; the exception is
\* logged and the permit kept.
openCamera ==
    /\ ui = "manager"
    /\ ui' = "resumed"
    /\ \/ device' = [device EXCEPT ![resumes] = "opening"] /\ UNCHANGED silentFailure
       \/ MayFail /\ silentFailure' = TRUE /\ UNCHANGED device
    /\ UNCHANGED <<permits, fields, bgVars, surface, previewSize, resumes, configuring,
                   lateLoss, overtaken, crashed>>

onPause ==
    /\ ui = "resumed"
    /\ ui' = "acquire"
    /\ UNCHANGED <<permits, fields, bgVars, surface, previewSize, resumes, frameVars,
                   history, crashed>>

closeCameraAcquire ==
    /\ ui = "acquire" /\ MayAcquire
    /\ permits' = permits - 1 /\ ui' = "session"
    /\ UNCHANGED <<fields, bgVars, surface, previewSize, resumes, frameVars, history,
                   crashed>>

closeSession ==
    /\ ui = "session"
    /\ captureSession' = NoDevice /\ ui' = "testDevice"
    /\ UNCHANGED <<permits, cameraDevice, previewReader, bgVars, surface, previewSize,
                   resumes, frameVars, history, crashed>>

\* if (null != cameraDevice) ...
testDevice ==
    /\ ui = "testDevice"
    /\ ui' = IF cameraDevice = NoDevice THEN "reader" ELSE "device"
    /\ overtaken' = (overtaken \/ bg = "store")
    /\ UNCHANGED <<permits, fields, bgVars, surface, previewSize, resumes, frameVars,
                   silentFailure, lateLoss, crashed>>

\* ... cameraDevice.close(), on the field as it is now
ClosedNow_forgotten(d) == device
ClosedNow(d) == [device EXCEPT ![d] = "closed"]

closeDevice ==
    /\ ui = "device"
    /\ IF cameraDevice = NoDevice
         THEN crashed' = "ui" /\ UNCHANGED <<cameraDevice, device, ui>>
         ELSE /\ device' = ClosedNow(cameraDevice) /\ cameraDevice' = NoDevice
              /\ ui' = "reader" /\ UNCHANGED crashed
    /\ UNCHANGED <<permits, captureSession, previewReader, bgVars, surface, previewSize,
                   resumes, configuring, history>>

\* previewReader.close(), and the release in the finally block
Released_forgotten == permits
Released == permits + 1

closeReader ==
    /\ ui = "reader"
    /\ previewReader' = NoDevice
    /\ permits' = Released
    /\ ui' = "quitSafely"
    /\ UNCHANGED <<cameraDevice, captureSession, bgVars, surface, previewSize, resumes,
                   frameVars, history, crashed>>

\* stopBackgroundThread: the messages already posted are still handled
quitSafely ==
    /\ ui = "quitSafely"
    /\ thread' = "quitting" /\ ui' = "join"
    /\ UNCHANGED <<permits, fields, inbox, msg, bg, surface, previewSize, resumes,
                   frameVars, history, crashed>>

join ==
    /\ ui = "join" /\ thread = "done"
    /\ thread' = "none" /\ ui' = "paused"
    /\ UNCHANGED <<permits, fields, inbox, msg, bg, surface, previewSize, resumes,
                   frameVars, history, crashed>>

closeCamera == closeCameraAcquire \/ closeSession \/ testDevice \/ closeDevice \/ closeReader
stopBackgroundThread == quitSafely \/ join

\* what the UI thread does without waiting for the user
uiSteps == setUpCameraOutputs \/ openCameraAcquire \/ openCamera \/ closeCamera
           \/ stopBackgroundThread

--------------------------------------------------------------------------------
(* The camera framework.                                                   *)

\* A device reports to the looper of the resume that opened it.
Post(m) == inbox' = IF thread = "running" /\ m.cd = resumes THEN Append(inbox, m)
                    ELSE inbox

\* The camera has been opened, or could not be.
openResult(d) ==
    /\ device[d] = "opening"
    /\ \/ device' = [device EXCEPT ![d] = "open"] /\ Post([what |-> "onOpened", cd |-> d])
       \/ device' = [device EXCEPT ![d] = "lost"] /\ Post([what |-> "onLost", cd |-> d])
    /\ UNCHANGED <<permits, fields, thread, msg, bg, uiVars, configuring, history, crashed>>

\* Another client took the open camera, or it broke.
loseDevice(d) ==
    /\ device[d] = "open"
    /\ device' = [device EXCEPT ![d] = "lost"] /\ Post([what |-> "onLost", cd |-> d])
    /\ lateLoss' = TRUE
    /\ UNCHANGED <<permits, fields, thread, msg, bg, uiVars, configuring, silentFailure,
                   overtaken, crashed>>

\* onConfigured, or onConfigureFailed, which only shows a toast
configureSession(d) ==
    /\ d \in configuring
    /\ configuring' = configuring \ {d}
    /\ \/ Post([what |-> "onConfigured", cd |-> d])
       \/ UNCHANGED inbox
    /\ UNCHANGED <<permits, fields, thread, msg, bg, uiVars, device, history, crashed>>

framework == \E d \in Devices : openResult(d) \/ loseDevice(d) \/ configureSession(d)

--------------------------------------------------------------------------------
(* backgroundThread.                                                       *)

dispatch ==
    /\ thread \in {"running", "quitting"} /\ bg = "idle" /\ inbox # <<>>
    /\ msg' = Head(inbox) /\ inbox' = Tail(inbox)
    /\ bg' = IF msg'.what # "onConfigured" /\ device[msg'.cd] = "closed"
               THEN "idle" ELSE msg'.what
    /\ UNCHANGED <<permits, fields, thread, uiVars, frameVars, history, crashed>>

threadEnds ==
    /\ thread = "quitting" /\ bg = "idle" /\ inbox = <<>>
    /\ thread' = "done"
    /\ UNCHANGED <<permits, fields, inbox, msg, bg, uiVars, frameVars, history, crashed>>

\* onOpened gives the permit back first ...
OpenedRelease_forgotten == permits
OpenedRelease == permits + 1

onOpened ==
    /\ bg = "onOpened"
    /\ permits' = OpenedRelease /\ bg' = "store"
    /\ UNCHANGED <<fields, thread, inbox, msg, uiVars, frameVars, history, crashed>>

\* ... and stores the device after that.
storeDevice ==
    /\ bg = "store"
    /\ cameraDevice' = msg.cd /\ bg' = "request"
    /\ UNCHANGED <<permits, captureSession, previewReader, thread, inbox, msg, uiVars,
                   frameVars, history, crashed>>

\* Calling the device: nobody catches the exception of a null or closed one;
\* that of a lost one is a CameraAccessException, which is logged.
Unusable == cameraDevice = NoDevice \/ device[cameraDevice] = "closed"

createRequest ==
    /\ bg = "request"
    /\ IF Unusable
         THEN crashed' = "background" /\ UNCHANGED bg
         ELSE /\ bg' = IF device[cameraDevice] = "lost" THEN "idle" ELSE "newReader"
              /\ UNCHANGED crashed
    /\ UNCHANGED <<permits, fields, thread, inbox, msg, uiVars, frameVars, history>>

newReader ==
    /\ bg = "newReader"
    /\ previewReader' = msg.cd /\ bg' = "useReader"
    /\ UNCHANGED <<permits, cameraDevice, captureSession, thread, inbox, msg, uiVars,
                   frameVars, history, crashed>>

\* previewReader.setOnImageAvailableListener and getSurface, on the field as
\* it is now: closeCamera may have set it to null
NoReader == previewReader = NoDevice

useReader ==
    /\ bg = "useReader"
    /\ IF NoReader
         THEN crashed' = "background" /\ UNCHANGED bg
         ELSE bg' = "newSession" /\ UNCHANGED crashed
    /\ UNCHANGED <<permits, fields, thread, inbox, msg, uiVars, frameVars, history>>

createCaptureSession ==
    /\ bg = "newSession"
    /\ IF Unusable \/ NoReader
         THEN crashed' = "background" /\ UNCHANGED <<bg, configuring>>
         ELSE /\ bg' = "idle" /\ UNCHANGED crashed
              /\ configuring' = IF device[cameraDevice] = "lost" THEN configuring
                                ELSE configuring \union {msg.cd}
    /\ UNCHANGED <<permits, fields, thread, inbox, msg, uiVars, device, history>>

createCameraPreviewSession ==
    createRequest \/ newReader \/ useReader \/ createCaptureSession

\* onDisconnected and onError, which also finishes the activity
onLost ==
    /\ bg = "onLost"
    /\ permits' = permits + 1 /\ bg' = "forget"
    /\ UNCHANGED <<fields, thread, inbox, msg, uiVars, frameVars, history, crashed>>

forgetDevice ==
    /\ bg = "forget"
    /\ device' = [device EXCEPT ![msg.cd] = "closed"]
    /\ cameraDevice' = NoDevice /\ bg' = "idle"
    /\ UNCHANGED <<permits, captureSession, previewReader, thread, inbox, msg, uiVars,
                   configuring, history, crashed>>

\* onConfigured: "The camera is already closed"
AlreadyClosed_unchecked == FALSE
AlreadyClosed == cameraDevice = NoDevice

onConfigured ==
    /\ bg = "onConfigured"
    /\ IF AlreadyClosed
         THEN bg' = "idle" /\ UNCHANGED captureSession
         ELSE bg' = "startPreview" /\ captureSession' = msg.cd
    /\ UNCHANGED <<permits, cameraDevice, previewReader, thread, inbox, msg, uiVars,
                   frameVars, history, crashed>>

\* captureSession.setRepeatingRequest, on the field as it is now
setRepeatingRequest ==
    /\ bg = "startPreview"
    /\ IF captureSession = NoDevice \/ device[captureSession] = "closed"
         THEN crashed' = "background" /\ UNCHANGED bg
         ELSE bg' = "idle" /\ UNCHANGED crashed
    /\ UNCHANGED <<permits, fields, thread, inbox, msg, uiVars, frameVars, history>>

background == \/ dispatch \/ threadEnds \/ onOpened \/ storeDevice
              \/ createCameraPreviewSession \/ onLost \/ forgetDevice
              \/ onConfigured \/ setRepeatingRequest

Next ==
    /\ crashed = "no"
    /\ \/ onResume \/ onSurfaceTextureAvailable \/ onSurfaceTextureDestroyed \/ onPause
       \/ uiSteps \/ framework \/ background

Spec == Init /\ [][Next]_vars

\* The threads run and the framework reports the result of every open.
FairSpec ==
    /\ Spec
    /\ WF_vars(crashed = "no" /\ uiSteps) /\ WF_vars(crashed = "no" /\ background)
    /\ \A d \in Devices : WF_vars(crashed = "no" /\ openResult(d))

--------------------------------------------------------------------------------
(* Properties.                                                             *)

\* The fields hold what their declarations say, and the semaphore never has a
\* negative number of permits.
TypeOK ==
    /\ permits \in Nat
    /\ {cameraDevice, captureSession, previewReader} \subseteq Devices \union {NoDevice}
    /\ {previewSize, surface, silentFailure, lateLoss, overtaken} \subseteq BOOLEAN
    /\ thread \in {"none", "running", "quitting", "done"}
    /\ inbox \in Seq(Messages)
    /\ msg.what \in {"onOpened", "onLost", "onConfigured"}
    /\ bg \in BgPc /\ (bg # "idle" => msg.cd \in Devices)
    /\ ui \in UiPc /\ resumes \in 0 .. MaxResumes
    /\ device \in [Devices -> DeviceStates] /\ configuring \subseteq Devices
    /\ crashed \in {"no", "ui", "background"}

\* openCamera never throws "Time out waiting to lock camera opening.": each
\* pause that returned has left a permit for the next resume, whatever became
\* of the devices in between.
OpenFindsPermit == ui = "tryAcquire" => permits > 0

\* closeCamera waits for an open under way: once it has the permit no camera is
\* being opened, and no onOpened of a camera still to be closed is to come.
\* (A camera lost after it was opened releases the permit a second time, and
\* the next close no longer waits.)
CloseWaits ==
    ui \in Closing /\ ~lateLoss =>
        /\ \A d \in Devices : device[d] # "opening"
        /\ \A i \in DOMAIN inbox :
              inbox[i].what = "onOpened" => device[inbox[i].cd] = "closed"
        /\ bg # "onOpened"

OpenDevices == {d \in Devices : device[d] \in {"opening", "open"}}

\* A camera outlives onPause only if closeCamera ran between onOpened's release
\* and its assignment of cameraDevice, or the second release of a lost camera
\* let it run too early.
LeakNeedsOvertaking == ui = "paused" /\ ~overtaken /\ ~lateLoss => OpenDevices = {}

\* While the fragment stays resumed the callbacks cannot fail: they use null or
\* closed devices and sessions only when closeCamera runs beside them.
CallbacksSafeWhileResumed ==
    crashed = "background" => ui \notin {"resumed", "setUp", "tryAcquire", "manager"}

\* onPause returns: closeCamera gets its permit and the background thread ends,
\* unless the process has crashed, or an open threw and kept the permit.
PauseReturns == ui = "acquire" ~> (ui = "paused" \/ crashed # "no" \/ silentFailure)

\* What the comment on cameraOpenCloseLock (line 211) says: "A Semaphore to
\* prevent the app from exiting before closing the camera."
PausedIsClosed == ui = "paused" => OpenDevices = {}
================================================================================
