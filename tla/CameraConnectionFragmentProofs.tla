--------------------- MODULE CameraConnectionFragmentProofs ---------------------
(***************************************************************************)
(* TLAPS proofs about CameraConnectionFragment, for any number of resumes. *)
(* The inductive invariant has these parts:                                *)
(*   TypeInv   types, with those of a message                              *)
(*   Current   the background thread works for the current resume          *)
(*   Permit    a pause leaves a permit          -> OpenFindsPermit         *)
(*   Usable    the device of a callback         -> CallbacksSafeWhileResumed *)
(*   OneOpen   who owes the permit              -> CloseWaits              *)
(*   Kept      who knows an open camera         -> LeakNeedsOvertaking     *)
(* The last two are about runs in which no opened camera has been lost.    *)
(***************************************************************************)
EXTENDS CameraConnectionFragment, SequenceTheorems, TLAPS

\* The messages in a looper's queue.
In(q) == {q[i] : i \in 1 .. Len(q)}

Resumed == {"resumed", "setUp", "tryAcquire", "manager"}

\* The fragment has not called openCamera since it was resumed.
Fresh == ui \in {"setUp", "tryAcquire", "manager"} \/ (ui = "resumed" /\ ~surface)

TypeInv ==
    /\ TypeOK
    /\ msg \in [what : {"onOpened", "onLost", "onConfigured"}, cd : Devices \union {NoDevice}]

\* The background thread lives from onResume to onPause, so its messages are
\* all about the device of the current resume.
Current ==
    /\ thread = "none" <=> ui = "paused"
    /\ thread \in {"quitting", "done"} <=> ui = "join"
    /\ thread \in {"none", "done"} => inbox = <<>> /\ bg = "idle"
    /\ \A m \in In(inbox) : m.cd = resumes
    /\ bg # "idle" => msg.cd = resumes
    /\ \A d \in Devices : d > resumes => device[d] = "none" /\ d \notin configuring
    /\ ui # "paused" => resumes \in Devices
    /\ Fresh => /\ device[resumes] = "none" /\ resumes \notin configuring
                /\ inbox = <<>> /\ bg = "idle"
    /\ ui \in {"setUp", "tryAcquire", "manager"} => surface
    /\ cameraDevice <= resumes

\* There is a permit until the camera is opened, and again after closeCamera.
Permit ==
    ui \in {"quitSafely", "join", "paused", "setUp", "tryAcquire"}
    \/ (ui = "resumed" /\ ~surface) => permits > 0

\* While the fragment is resumed, only onDisconnected and onError close the
\* device, and they set the field to null.
Usable ==
    /\ ui \in Resumed =>
         /\ cameraDevice = resumes /\ resumes # 0 => device[resumes] # "closed"
         /\ bg \in {"onOpened", "store", "request", "newReader", "useReader", "newSession"} =>
              device[resumes] # "closed"
         /\ bg \in {"request", "newReader", "useReader", "newSession"} => cameraDevice = resumes
         /\ bg \in {"useReader", "newSession"} => previewReader = resumes
         /\ \/ resumes \in configuring \/ bg = "onConfigured"
            \/ \E m \in In(inbox) : m.what = "onConfigured"
            => cameraDevice \in {NoDevice, resumes}
         /\ bg = "startPreview" => captureSession = resumes /\ device[resumes] # "closed"
    /\ CallbacksSafeWhileResumed

\* An open under way, which owes the permit that openCamera took.
Owed ==
    \/ resumes # 0 /\ device[resumes] = "opening"
    \/ \E m \in In(inbox) : m.what # "onConfigured"
    \/ bg \in {"onOpened", "onLost"}

\* Opening, reporting, handling a report and configuring exclude each other,
\* and so do owing the permit and closing.
OneOpen ==
    ~lateLoss =>
        /\ Len(inbox) <= 1
        /\ resumes # 0 /\ device[resumes] = "opening" =>
             inbox = <<>> /\ bg = "idle" /\ resumes \notin configuring
        /\ inbox # <<>> => bg = "idle" /\ resumes \notin configuring
        /\ bg # "idle" => resumes \notin configuring
        /\ \A d \in Devices : d # resumes => device[d] # "opening"
        /\ permits <= 1
        /\ Owed => permits = 0 /\ ui \in {"resumed", "acquire"}
        /\ ui \in Closing \union {"manager"} => permits = 0

\* An open camera is reported, being stored, or in the field.
Kept ==
    ~lateLoss /\ ~overtaken =>
        /\ \A d \in Devices : d # resumes => device[d] # "open"
        /\ cameraDevice \in {NoDevice, resumes}
        /\ resumes # 0 /\ device[resumes] = "open" =>
             \/ \E m \in In(inbox) : m.what = "onOpened"
             \/ bg \in {"onOpened", "store"} \/ cameraDevice = resumes
        /\ ui \in {"reader", "quitSafely", "join", "paused"} =>
             /\ resumes # 0 => device[resumes] # "open"
             /\ cameraDevice = NoDevice /\ bg # "store"
        /\ ui = "device" => bg # "store"

--------------------------------------------------------------------------------
(* The looper's queue, and what a step is.                                 *)

\* What posting a message to the queue and taking one from it do.
LEMMA InFacts ==
    ASSUME NEW q \in Seq(Messages)
    PROVE  /\ Len(q) \in Nat /\ In(<<>>) = {} /\ In(q) \subseteq Messages
           /\ q = <<>> <=> Len(q) = 0
           /\ \A m \in Messages :
                /\ Append(q, m) \in Seq(Messages)
                /\ Append(q, m) # <<>> /\ Len(Append(q, m)) = Len(q) + 1
                /\ In(Append(q, m)) = In(q) \union {m}
           /\ q # <<>> => /\ Head(q) \in In(q) /\ Tail(q) \in Seq(Messages)
                          /\ In(Tail(q)) \subseteq In(q)
           /\ q # <<>> /\ Len(q) <= 1 => Tail(q) = <<>>
<1>1. Len(q) \in Nat /\ (q = <<>> <=> Len(q) = 0)
      BY EmptySeq
<1>2. In(<<>>) = {} /\ In(q) \subseteq Messages
      BY DEF In
<1>3. ASSUME NEW m \in Messages
      PROVE  /\ Append(q, m) \in Seq(Messages)
             /\ Append(q, m) # <<>> /\ Len(Append(q, m)) = Len(q) + 1
             /\ In(Append(q, m)) = In(q) \union {m}
      <2>1. /\ Append(q, m) \in Seq(Messages)
            /\ Append(q, m) # <<>> /\ Len(Append(q, m)) = Len(q) + 1
            /\ \A i \in 1 .. Len(q) : Append(q, m)[i] = q[i]
            /\ Append(q, m)[Len(q) + 1] = m
            BY AppendProperties
      <2>2. In(q) \union {m} \subseteq In(Append(q, m))
            BY <2>1 DEF In
      <2>3. In(Append(q, m)) \subseteq In(q) \union {m}
            BY <2>1 DEF In
      <2>. QED  BY <2>1, <2>2, <2>3
<1>4. ASSUME q # <<>>
      PROVE  /\ Head(q) \in In(q) /\ Tail(q) \in Seq(Messages)
             /\ In(Tail(q)) \subseteq In(q)
             /\ Len(q) <= 1 => Tail(q) = <<>>
      <2>1. /\ Head(q) = q[1] /\ Tail(q) \in Seq(Messages) /\ Len(q) >= 1
            /\ Len(Tail(q)) = Len(q) - 1
            /\ \A i \in 1 .. Len(Tail(q)) : Tail(q)[i] = q[i + 1]
            BY <1>4, HeadTailProperties, EmptySeq
      <2>2. Head(q) \in In(q)
            BY <2>1 DEF In
      <2>3. In(Tail(q)) \subseteq In(q)
            BY <2>1 DEF In
      <2>4. Len(q) <= 1 => Tail(q) = <<>>
            BY <2>1, EmptySeq
      <2>. QED  BY <2>1, <2>2, <2>3, <2>4
<1>. QED  BY <1>1, <1>2, <1>3, <1>4

\* A step of the specification is one of these.
LEMMA NextActions ==
    ASSUME [Next]_vars
    PROVE  \/ onResume \/ onSurfaceTextureAvailable \/ onSurfaceTextureDestroyed
           \/ setUpCameraOutputs \/ openCameraAcquire \/ openCamera \/ onPause
           \/ closeCameraAcquire \/ closeSession \/ testDevice \/ closeDevice \/ closeReader
           \/ quitSafely \/ join
           \/ \E d \in Devices : openResult(d) \/ loseDevice(d) \/ configureSession(d)
           \/ dispatch \/ threadEnds \/ onOpened \/ storeDevice
           \/ createRequest \/ newReader \/ useReader \/ createCaptureSession
           \/ onLost \/ forgetDevice \/ onConfigured \/ setRepeatingRequest
           \/ UNCHANGED vars
BY DEF Next, uiSteps, closeCamera, stopBackgroundThread, framework, background,
   createCameraPreviewSession

--------------------------------------------------------------------------------
(* Types.                                                                  *)

TypeFlags ==
    /\ previewSize \in BOOLEAN /\ surface \in BOOLEAN
    /\ silentFailure \in BOOLEAN /\ lateLoss \in BOOLEAN /\ overtaken \in BOOLEAN

TypeRest ==
    /\ permits \in Nat
    /\ cameraDevice \in Devices \union {NoDevice} /\ captureSession \in Devices \union {NoDevice}
    /\ previewReader \in Devices \union {NoDevice}
    /\ thread \in {"none", "running", "quitting", "done"}
    /\ inbox \in Seq(Messages)
    /\ msg \in [what : {"onOpened", "onLost", "onConfigured"}, cd : Devices \union {NoDevice}]
    /\ bg \in BgPc /\ (bg # "idle" => msg.cd \in Devices)
    /\ ui \in UiPc /\ resumes \in 0 .. MaxResumes
    /\ device \in [Devices -> DeviceStates] /\ configuring \subseteq Devices
    /\ crashed \in {"no", "ui", "background"}

\* The type invariant, one conjunct for each variable.
LEMMA TypeSplit == TypeInv <=> TypeFlags /\ TypeRest
<1>1. TypeInv => TypeFlags
      BY DEF TypeInv, TypeOK, TypeFlags
<1>2. TypeInv => TypeRest
      BY DEF TypeInv, TypeOK, TypeRest
<1>3. TypeFlags => {previewSize, surface, silentFailure, lateLoss, overtaken} \subseteq BOOLEAN
      BY DEF TypeFlags
<1>4. TypeRest =>
         /\ {cameraDevice, captureSession, previewReader} \subseteq Devices \union {NoDevice}
         /\ msg.what \in {"onOpened", "onLost", "onConfigured"}
      BY DEF TypeRest
<1>. QED  BY <1>1, <1>2, <1>3, <1>4 DEF TypeInv, TypeOK, TypeRest

\* A report reaches the queue of the running thread if it is about the device of
\* the current resume.
LEMMA PostFacts ==
    ASSUME TypeRest, NEW what \in {"onOpened", "onLost", "onConfigured"}, NEW d \in Devices,
           Post([what |-> what, cd |-> d])
    PROVE  /\ inbox' \in Seq(Messages)
           /\ \/ inbox' = inbox
              \/ /\ thread = "running" /\ d = resumes
                 /\ In(inbox') = In(inbox) \union {[what |-> what, cd |-> d]}
                 /\ inbox' # <<>> /\ Len(inbox') = Len(inbox) + 1
           /\ thread = "running" /\ d = resumes => inbox' # inbox
<1>. DEFINE m == [what |-> what, cd |-> d]
<1>1. m \in Messages /\ m.cd = d
      BY DEF Messages
<1>2. inbox \in Seq(Messages)
      BY DEF TypeRest
<1>3. inbox' = IF thread = "running" /\ d = resumes THEN Append(inbox, m) ELSE inbox
      BY <1>1 DEF Post
<1>. HIDE DEF m
<1>4. /\ Append(inbox, m) \in Seq(Messages) /\ Append(inbox, m) # <<>>
      /\ Len(Append(inbox, m)) = Len(inbox) + 1 /\ Len(inbox) \in Nat
      /\ In(Append(inbox, m)) = In(inbox) \union {m}
      BY <1>1, <1>2, InFacts
<1>. QED  BY <1>2, <1>3, <1>4 DEF m

\* What the framework does to a device and to the queue.
LEMMA FrameworkFacts ==
    ASSUME TypeRest, NEW d \in Devices, openResult(d) \/ loseDevice(d) \/ configureSession(d)
    PROVE  /\ UNCHANGED <<permits, fields, thread, msg, bg, uiVars, crashed, overtaken,
                          silentFailure>>
           /\ inbox' \in Seq(Messages)
           /\ \/ inbox' = inbox
              \/ thread = "running" /\ d = resumes /\ inbox' # <<>>
           /\ \A m \in In(inbox') : m \in In(inbox) \/ m.cd = resumes
           /\ configuring' \subseteq configuring
           /\ \/ UNCHANGED device
              \/ /\ device[d] \in {"opening", "open"}
                 /\ \/ device' = [device EXCEPT ![d] = "open"]
                    \/ device' = [device EXCEPT ![d] = "lost"]
<1>. USE DEF history
<1>1. UNCHANGED <<permits, fields, thread, msg, bg, uiVars, crashed, overtaken, silentFailure>>
      BY DEF openResult, loseDevice, configureSession
<1>2. \/ \E what \in {"onOpened", "onLost", "onConfigured"} : Post([what |-> what, cd |-> d])
      \/ UNCHANGED inbox
      BY DEF openResult, loseDevice, configureSession
<1>3. /\ inbox' \in Seq(Messages)
      /\ inbox' = inbox \/ (thread = "running" /\ d = resumes /\ inbox' # <<>>)
      /\ \A m \in In(inbox') : m \in In(inbox) \/ m.cd = resumes
      <2>1. CASE UNCHANGED inbox
            BY <2>1 DEF TypeRest
      <2>2. ASSUME NEW what \in {"onOpened", "onLost", "onConfigured"},
                   Post([what |-> what, cd |-> d])
            PROVE  <1>3
            BY <2>2, PostFacts DEF TypeRest
      <2>. QED  BY <1>2, <2>1, <2>2
<1>4. configuring' \subseteq configuring
      BY DEF openResult, loseDevice, configureSession, frameVars
<1>5. \/ UNCHANGED device
      \/ /\ device[d] \in {"opening", "open"}
         /\ \/ device' = [device EXCEPT ![d] = "open"]
            \/ device' = [device EXCEPT ![d] = "lost"]
      BY DEF openResult, loseDevice, configureSession
<1>. QED  BY <1>1, <1>3, <1>4, <1>5

\* Every step keeps the types of the flags.
LEMMA FlagsStep ==
    ASSUME TypeFlags, [Next]_vars
    PROVE  TypeFlags'
<1>. USE DEF fields, bgVars, uiVars, frameVars, history, TypeFlags
<1>1. CASE onResume BY <1>1 DEF onResume
<1>2. CASE onSurfaceTextureAvailable BY <1>2 DEF onSurfaceTextureAvailable
<1>3. CASE onSurfaceTextureDestroyed BY <1>3 DEF onSurfaceTextureDestroyed
<1>4. CASE setUpCameraOutputs BY <1>4 DEF setUpCameraOutputs
<1>5. CASE openCameraAcquire BY <1>5 DEF openCameraAcquire
<1>6. CASE openCamera BY <1>6 DEF openCamera
<1>7. CASE onPause BY <1>7 DEF onPause
<1>8. CASE closeCameraAcquire BY <1>8 DEF closeCameraAcquire, MayAcquire
<1>9. CASE closeSession BY <1>9 DEF closeSession
<1>10. CASE testDevice BY <1>10 DEF testDevice
<1>11. CASE closeDevice BY <1>11 DEF closeDevice, ClosedNow
<1>12. CASE closeReader BY <1>12 DEF closeReader, Released
<1>13. CASE quitSafely BY <1>13 DEF quitSafely
<1>14. CASE join BY <1>14 DEF join
<1>15. ASSUME NEW d \in Devices, openResult(d) PROVE TypeFlags' BY <1>15 DEF openResult, Post
<1>16. ASSUME NEW d \in Devices, loseDevice(d) PROVE TypeFlags' BY <1>16 DEF loseDevice, Post
<1>17. ASSUME NEW d \in Devices, configureSession(d) PROVE TypeFlags'
      BY <1>17 DEF configureSession, Post
<1>18. CASE dispatch BY <1>18 DEF dispatch
<1>19. CASE threadEnds BY <1>19 DEF threadEnds
<1>20. CASE onOpened BY <1>20 DEF onOpened, OpenedRelease
<1>21. CASE storeDevice BY <1>21 DEF storeDevice
<1>22. CASE createRequest BY <1>22 DEF createRequest, Unusable
<1>23. CASE newReader BY <1>23 DEF newReader
<1>23a. CASE useReader BY <1>23a DEF useReader, NoReader
<1>24. CASE createCaptureSession BY <1>24 DEF createCaptureSession, Unusable, NoReader
<1>25. CASE onLost BY <1>25 DEF onLost
<1>26. CASE forgetDevice BY <1>26 DEF forgetDevice
<1>27. CASE onConfigured BY <1>27 DEF onConfigured, AlreadyClosed
<1>28. CASE setRepeatingRequest BY <1>28 DEF setRepeatingRequest
<1>29. CASE UNCHANGED vars BY <1>29 DEF vars
<1>. QED
      BY NextActions, <1>1, <1>2, <1>3, <1>4, <1>5, <1>6, <1>7, <1>8, <1>9,
         <1>10, <1>11, <1>12, <1>13, <1>14, <1>15, <1>16, <1>17, <1>18, <1>19, <1>20,
         <1>21, <1>22, <1>23, <1>23a, <1>24, <1>25, <1>26, <1>27, <1>28, <1>29

\* The framework keeps the types ...
LEMMA FrameworkType ==
    ASSUME TypeRest, NEW d \in Devices, openResult(d) \/ loseDevice(d) \/ configureSession(d)
    PROVE  TypeRest'
<1>1. device' \in [Devices -> DeviceStates]
      BY FrameworkFacts DEF TypeRest, DeviceStates
<1>2. configuring' \subseteq Devices
      BY FrameworkFacts DEF TypeRest
<1>3. inbox' \in Seq(Messages)
      BY FrameworkFacts
<1>4. UNCHANGED <<permits, fields, thread, msg, bg, uiVars, crashed>>
      BY FrameworkFacts
<1>. QED  BY <1>1, <1>2, <1>3, <1>4 DEF TypeRest, fields, uiVars

\* ... and reports nothing to a looper but that of the device's own resume.
LEMMA FrameworkCurrent ==
    ASSUME TypeRest, Current, NEW d \in Devices,
           openResult(d) \/ loseDevice(d) \/ configureSession(d)
    PROVE  Current'
<1>1. /\ thread' = thread /\ ui' = ui /\ bg' = bg /\ msg' = msg /\ resumes' = resumes
      /\ surface' = surface /\ cameraDevice' = cameraDevice
      BY FrameworkFacts DEF fields, uiVars
<1>2. \A m \in In(inbox') : m.cd = resumes
      BY FrameworkFacts DEF Current
<1>3. \A e \in Devices : device[e] = "none" => device'[e] = "none"
      BY FrameworkFacts DEF TypeRest
<1>4. device[d] # "none" \/ d \in configuring
      BY FrameworkFacts DEF openResult, loseDevice, configureSession
<1>5. Fresh => inbox' = inbox
      BY <1>4, FrameworkFacts DEF Current
<1>6. thread \in {"none", "done"} => inbox' = inbox
      BY FrameworkFacts
<1>7. configuring' \subseteq configuring
      BY FrameworkFacts
<1>8. Fresh => resumes \in Devices
      BY DEF Current, Fresh
<1>. QED  BY <1>1, <1>2, <1>3, <1>5, <1>6, <1>7, <1>8 DEF Current, Fresh


\* Every step keeps the other types.
LEMMA RestStep ==
    ASSUME TypeRest, Current, [Next]_vars
    PROVE  TypeRest'
<1>. USE FragmentAssumption, InFacts
     DEF fields, bgVars, uiVars, frameVars, history, TypeRest, Current,
     Devices, NoDevice, BgPc, UiPc, DeviceStates
<1>1. CASE onResume BY <1>1 DEF onResume
<1>2. CASE onSurfaceTextureAvailable BY <1>2 DEF onSurfaceTextureAvailable
<1>3. CASE onSurfaceTextureDestroyed BY <1>3 DEF onSurfaceTextureDestroyed
<1>4. CASE setUpCameraOutputs BY <1>4 DEF setUpCameraOutputs
<1>5. CASE openCameraAcquire BY <1>5 DEF openCameraAcquire
<1>6. CASE openCamera BY <1>6 DEF openCamera
<1>7. CASE onPause BY <1>7 DEF onPause
<1>8. CASE closeCameraAcquire BY <1>8 DEF closeCameraAcquire, MayAcquire
<1>9. CASE closeSession BY <1>9 DEF closeSession
<1>10. CASE testDevice BY <1>10 DEF testDevice
<1>11. CASE closeDevice BY <1>11 DEF closeDevice, ClosedNow
<1>12. CASE closeReader BY <1>12 DEF closeReader, Released
<1>13. CASE quitSafely BY <1>13 DEF quitSafely
<1>14. CASE join BY <1>14 DEF join
<1>15. ASSUME NEW d \in Devices, openResult(d) PROVE TypeRest' BY <1>15, FrameworkType
<1>16. ASSUME NEW d \in Devices, loseDevice(d) PROVE TypeRest' BY <1>16, FrameworkType
<1>17. ASSUME NEW d \in Devices, configureSession(d) PROVE TypeRest' BY <1>17, FrameworkType
<1>18. CASE dispatch
       <2>1. inbox \in Seq(Messages) /\ inbox # <<>>
             BY <1>18 DEF dispatch
       <2>2. Head(inbox) \in Messages /\ Tail(inbox) \in Seq(Messages)
             BY <2>1, InFacts
       <2>3. msg' \in Messages /\ inbox' \in Seq(Messages)
             BY <1>18, <2>2 DEF dispatch
       <2>4. bg' \in BgPc
             BY <1>18, <2>3 DEF dispatch, Messages
       <2>. QED  BY <1>18, <2>3, <2>4 DEF dispatch, Messages
<1>19. CASE threadEnds BY <1>19 DEF threadEnds
<1>20. CASE onOpened BY <1>20 DEF onOpened, OpenedRelease
<1>21. CASE storeDevice BY <1>21 DEF storeDevice
<1>22. CASE createRequest BY <1>22 DEF createRequest, Unusable
<1>23. CASE newReader BY <1>23 DEF newReader
<1>23a. CASE useReader BY <1>23a DEF useReader, NoReader
<1>24. CASE createCaptureSession BY <1>24, ZenonT(30) DEF createCaptureSession, Unusable, NoReader
<1>25. CASE onLost BY <1>25 DEF onLost
<1>26. CASE forgetDevice BY <1>26 DEF forgetDevice
<1>27. CASE onConfigured BY <1>27 DEF onConfigured, AlreadyClosed
<1>28. CASE setRepeatingRequest BY <1>28 DEF setRepeatingRequest
<1>29. CASE UNCHANGED vars BY <1>29 DEF vars
<1>. QED
      BY NextActions, <1>1, <1>2, <1>3, <1>4, <1>5, <1>6, <1>7, <1>8, <1>9,
         <1>10, <1>11, <1>12, <1>13, <1>14, <1>15, <1>16, <1>17, <1>18, <1>19, <1>20,
         <1>21, <1>22, <1>23, <1>23a, <1>24, <1>25, <1>26, <1>27, <1>28, <1>29

\* Every step keeps Current.
LEMMA CurrentStep ==
    ASSUME TypeRest, Current, [Next]_vars
    PROVE  Current'
<1>. USE FragmentAssumption, InFacts
     DEF fields, bgVars, uiVars, frameVars, history, TypeRest, Current, Fresh, Devices, NoDevice
<1>1. CASE onResume
      <2>1. resumes' = resumes + 1 /\ resumes' \in Devices /\ UNCHANGED <<device, configuring>>
            BY <1>1 DEF onResume
      <2>2. /\ device[resumes'] = "none" /\ resumes' \notin configuring
            BY <2>1
      <2>4. inbox' = <<>> /\ bg' = "idle" /\ In(inbox') = {}
            BY <1>1 DEF onResume
      <2>3. \A d \in Devices : d > resumes' => device'[d] = "none" /\ d \notin configuring'
            BY <2>1
      <2>. QED  BY <1>1, <2>1, <2>2, <2>3, <2>4 DEF onResume
<1>2. CASE onSurfaceTextureAvailable BY <1>2 DEF onSurfaceTextureAvailable
<1>3. CASE onSurfaceTextureDestroyed BY <1>3 DEF onSurfaceTextureDestroyed
<1>4. CASE setUpCameraOutputs BY <1>4 DEF setUpCameraOutputs
<1>5. CASE openCameraAcquire BY <1>5 DEF openCameraAcquire
<1>6. CASE openCamera
      <2>1. \A d \in Devices : d > resumes => device'[d] = device[d]
            BY <1>6 DEF openCamera
      <2>. QED  BY <1>6, <2>1 DEF openCamera
<1>7. CASE onPause BY <1>7 DEF onPause
<1>8. CASE closeCameraAcquire BY <1>8 DEF closeCameraAcquire, MayAcquire
<1>9. CASE closeSession BY <1>9 DEF closeSession
<1>10. CASE testDevice BY <1>10 DEF testDevice
<1>11. CASE closeDevice
       <2>1. \A d \in Devices : d > resumes => device'[d] = device[d]
             BY <1>11 DEF closeDevice, ClosedNow
       <2>. QED  BY <1>11, <2>1 DEF closeDevice
<1>12. CASE closeReader BY <1>12 DEF closeReader, Released
<1>13. CASE quitSafely BY <1>13 DEF quitSafely
<1>14. CASE join BY <1>14 DEF join
<1>15. ASSUME NEW d \in Devices, openResult(d) PROVE Current' BY <1>15, FrameworkCurrent
<1>16. ASSUME NEW d \in Devices, loseDevice(d) PROVE Current' BY <1>16, FrameworkCurrent
<1>17. ASSUME NEW d \in Devices, configureSession(d) PROVE Current' BY <1>17, FrameworkCurrent
<1>18. CASE dispatch BY <1>18 DEF dispatch
<1>19. CASE threadEnds BY <1>19 DEF threadEnds
<1>20. CASE onOpened BY <1>20 DEF onOpened, OpenedRelease
<1>21. CASE storeDevice BY <1>21 DEF storeDevice
<1>22. CASE createRequest BY <1>22 DEF createRequest, Unusable
<1>23. CASE newReader BY <1>23 DEF newReader
<1>23a. CASE useReader BY <1>23a DEF useReader, NoReader
<1>24. CASE createCaptureSession BY <1>24 DEF createCaptureSession, Unusable, NoReader
<1>25. CASE onLost BY <1>25 DEF onLost
<1>26. CASE forgetDevice BY <1>26 DEF forgetDevice
<1>27. CASE onConfigured BY <1>27 DEF onConfigured, AlreadyClosed
<1>28. CASE setRepeatingRequest BY <1>28 DEF setRepeatingRequest
<1>29. CASE UNCHANGED vars BY <1>29 DEF vars
<1>. QED
      BY NextActions, <1>1, <1>2, <1>3, <1>4, <1>5, <1>6, <1>7, <1>8, <1>9,
         <1>10, <1>11, <1>12, <1>13, <1>14, <1>15, <1>16, <1>17, <1>18, <1>19, <1>20,
         <1>21, <1>22, <1>23, <1>23a, <1>24, <1>25, <1>26, <1>27, <1>28, <1>29

\* Every step keeps Permit.
LEMMA PermitStep ==
    ASSUME TypeRest, Current, Permit, [Next]_vars
    PROVE  Permit'
<1>. USE DEF TypeRest, Current, Permit, fields, bgVars, uiVars, frameVars, history
<1>1. CASE onResume BY <1>1 DEF onResume
<1>2. CASE onSurfaceTextureAvailable BY <1>2 DEF onSurfaceTextureAvailable
<1>3. CASE onSurfaceTextureDestroyed BY <1>3 DEF onSurfaceTextureDestroyed
<1>4. CASE setUpCameraOutputs BY <1>4 DEF setUpCameraOutputs
<1>5. CASE openCameraAcquire BY <1>5 DEF openCameraAcquire
<1>6. CASE openCamera BY <1>6 DEF openCamera
<1>7. CASE onPause BY <1>7 DEF onPause
<1>8. CASE closeCameraAcquire BY <1>8 DEF closeCameraAcquire, MayAcquire
<1>9. CASE closeSession BY <1>9 DEF closeSession
<1>10. CASE testDevice BY <1>10 DEF testDevice
<1>11. CASE closeDevice BY <1>11 DEF closeDevice, ClosedNow
<1>12. CASE closeReader BY <1>12 DEF closeReader, Released
<1>13. CASE quitSafely BY <1>13 DEF quitSafely
<1>14. CASE join BY <1>14 DEF join
<1>15. ASSUME NEW d \in Devices, openResult(d) PROVE Permit' BY <1>15 DEF openResult, Post
<1>16. ASSUME NEW d \in Devices, loseDevice(d) PROVE Permit' BY <1>16 DEF loseDevice, Post
<1>17. ASSUME NEW d \in Devices, configureSession(d) PROVE Permit'
      BY <1>17 DEF configureSession, Post
<1>18. CASE dispatch BY <1>18 DEF dispatch
<1>19. CASE threadEnds BY <1>19 DEF threadEnds
<1>20. CASE onOpened BY <1>20 DEF onOpened, OpenedRelease
<1>21. CASE storeDevice BY <1>21 DEF storeDevice
<1>22. CASE createRequest BY <1>22 DEF createRequest, Unusable
<1>23. CASE newReader BY <1>23 DEF newReader
<1>23a. CASE useReader BY <1>23a DEF useReader, NoReader
<1>24. CASE createCaptureSession BY <1>24 DEF createCaptureSession, Unusable, NoReader
<1>25. CASE onLost BY <1>25 DEF onLost
<1>26. CASE forgetDevice BY <1>26 DEF forgetDevice
<1>27. CASE onConfigured BY <1>27 DEF onConfigured, AlreadyClosed
<1>28. CASE setRepeatingRequest BY <1>28 DEF setRepeatingRequest
<1>29. CASE UNCHANGED vars BY <1>29 DEF vars
<1>. QED
      BY NextActions, <1>1, <1>2, <1>3, <1>4, <1>5, <1>6, <1>7, <1>8, <1>9,
         <1>10, <1>11, <1>12, <1>13, <1>14, <1>15, <1>16, <1>17, <1>18, <1>19, <1>20,
         <1>21, <1>22, <1>23, <1>23a, <1>24, <1>25, <1>26, <1>27, <1>28, <1>29

\* The background thread and its messages belong to the current resume.
LEMMA CurrentInvariant == Spec => [](TypeFlags /\ TypeRest /\ Current)
<1>1. ASSUME Init
      PROVE  TypeFlags /\ TypeRest /\ Current
      <2>1. TypeFlags
            BY <1>1 DEF Init, TypeFlags
      <2>2. TypeRest
            BY <1>1, FragmentAssumption
            DEF Init, TypeRest, Devices, NoDevice, BgPc, UiPc, DeviceStates, Messages
      <2>3. Current
            BY <1>1 DEF Init, Current, Fresh, In, Devices, NoDevice
      <2>. QED  BY <2>1, <2>2, <2>3
<1>2. ASSUME TypeFlags, TypeRest, Current, [Next]_vars
      PROVE  TypeFlags' /\ TypeRest' /\ Current'
      BY <1>2, FlagsStep, RestStep, CurrentStep
<1>. QED  BY <1>1, <1>2, PTL DEF Spec

\* Types: in particular the semaphore never has a negative number of permits.
THEOREM TypeCorrect == Spec => []TypeOK
<1>1. TypeFlags /\ TypeRest => TypeOK
      BY TypeSplit DEF TypeInv
<1>. QED  BY <1>1, CurrentInvariant, PTL

\* openCamera never times out waiting for the permit.
THEOREM OpenFindsPermitCorrect == Spec => []OpenFindsPermit
<1>1. ASSUME Init
      PROVE  Permit
      BY <1>1 DEF Init, Permit
<1>2. ASSUME TypeRest, Current, Permit, [Next]_vars
      PROVE  Permit'
      BY <1>2, PermitStep
<1>3. Permit => OpenFindsPermit
      BY DEF Permit, OpenFindsPermit
<1>. QED  BY <1>1, <1>2, <1>3, CurrentInvariant, PTL DEF Spec

--------------------------------------------------------------------------------
(* The callbacks.                                                          *)

\* The result of an open, or a loss, closes no device and reports no session.
LEMMA ReportUsable ==
    ASSUME TypeRest, Current, Usable, NEW d \in Devices, openResult(d) \/ loseDevice(d)
    PROVE  Usable'
<1>1. /\ UNCHANGED <<bg, ui, resumes, cameraDevice, captureSession, previewReader, crashed>>
      /\ \A e \in Devices : device'[e] = "closed" => device[e] = "closed"
      BY FrameworkFacts DEF fields, uiVars, TypeRest
<1>2. UNCHANGED configuring
      BY DEF openResult, loseDevice
<1>3. PICK what \in {"onOpened", "onLost"} : Post([what |-> what, cd |-> d])
      BY DEF openResult, loseDevice
<1>4. In(inbox') = In(inbox) \/ In(inbox') = In(inbox) \union {[what |-> what, cd |-> d]}
      BY <1>3, PostFacts
<1>5. (\E m \in In(inbox') : m.what = "onConfigured") =>
         \E m \in In(inbox) : m.what = "onConfigured"
      BY <1>4
<1>6. ui \in Resumed => resumes \in Devices
      BY DEF Current, Resumed
<1>. QED  BY <1>1, <1>2, <1>5, <1>6 DEF Usable, CallbacksSafeWhileResumed

\* Every step keeps Usable.
LEMMA UsableStep ==
    ASSUME TypeRest, Current, Usable, [Next]_vars
    PROVE  Usable'
<1>. USE FragmentAssumption, InFacts
     DEF fields, bgVars, uiVars, frameVars, history, TypeRest, Current, Usable,
     CallbacksSafeWhileResumed, Resumed, Devices, NoDevice
<1>1. CASE onResume
      <2>1. /\ resumes' = resumes + 1 /\ resumes' \in Devices
            /\ UNCHANGED <<device, configuring, cameraDevice>>
            BY <1>1 DEF onResume
      <2>2. device[resumes'] = "none" /\ resumes' \notin configuring /\ cameraDevice # resumes'
            BY <2>1
      <2>3. inbox' = <<>> /\ bg' = "idle" /\ In(inbox') = {} /\ UNCHANGED crashed
            BY <1>1 DEF onResume
      <2>4. crashed = "no"
            BY <2>1 DEF Next, vars
      <2>. QED  BY <2>1, <2>2, <2>3, <2>4
<1>2. CASE onSurfaceTextureAvailable BY <1>2 DEF onSurfaceTextureAvailable
<1>3. CASE onSurfaceTextureDestroyed BY <1>3 DEF onSurfaceTextureDestroyed
<1>4. CASE setUpCameraOutputs BY <1>4 DEF setUpCameraOutputs
<1>5. CASE openCameraAcquire BY <1>5 DEF openCameraAcquire
<1>6. CASE openCamera BY <1>6 DEF openCamera
<1>7. CASE onPause BY <1>7 DEF onPause
<1>8. CASE closeCameraAcquire BY <1>8 DEF closeCameraAcquire, MayAcquire
<1>9. CASE closeSession BY <1>9 DEF closeSession
<1>10. CASE testDevice BY <1>10 DEF testDevice
<1>11. CASE closeDevice BY <1>11 DEF closeDevice, ClosedNow
<1>12. CASE closeReader BY <1>12 DEF closeReader, Released
<1>13. CASE quitSafely BY <1>13 DEF quitSafely
<1>14. CASE join BY <1>14 DEF join
<1>15. ASSUME NEW d \in Devices, openResult(d) PROVE Usable' BY <1>15, ReportUsable
<1>16. ASSUME NEW d \in Devices, loseDevice(d) PROVE Usable' BY <1>16, ReportUsable
<1>17. ASSUME NEW d \in Devices, configureSession(d) PROVE Usable'
      BY <1>17 DEF configureSession, Post
<1>18. CASE dispatch
       <2>1. Head(inbox) \in In(inbox) /\ In(Tail(inbox)) \subseteq In(inbox)
             BY <1>18 DEF dispatch
       <2>2. msg' \in In(inbox) /\ msg'.cd = resumes /\ In(inbox') \subseteq In(inbox)
             BY <1>18, <2>1 DEF dispatch
       <2>3. bg' \in {"onOpened", "onLost"} => device[resumes] # "closed"
             BY <1>18, <2>2 DEF dispatch
       <2>4. bg' \in {"idle", "onOpened", "onLost", "onConfigured"}
             BY <1>18, <2>2 DEF dispatch, Messages
       <2>5. bg' = "onConfigured" => \E m \in In(inbox) : m.what = "onConfigured"
             BY <1>18, <2>2 DEF dispatch
       <2>. QED  BY <1>18, <2>2, <2>3, <2>4, <2>5 DEF dispatch
<1>19. CASE threadEnds BY <1>19 DEF threadEnds
<1>20. CASE onOpened BY <1>20 DEF onOpened, OpenedRelease
<1>21. CASE storeDevice BY <1>21 DEF storeDevice
<1>22. CASE createRequest BY <1>22 DEF createRequest, Unusable
<1>23. CASE newReader BY <1>23 DEF newReader
<1>23a. CASE useReader BY <1>23a DEF useReader, NoReader
<1>24. CASE createCaptureSession BY <1>24 DEF createCaptureSession, Unusable, NoReader
<1>25. CASE onLost BY <1>25 DEF onLost
<1>26. CASE forgetDevice BY <1>26 DEF forgetDevice
<1>27. CASE onConfigured BY <1>27 DEF onConfigured, AlreadyClosed
<1>28. CASE setRepeatingRequest BY <1>28 DEF setRepeatingRequest
<1>29. CASE UNCHANGED vars BY <1>29 DEF vars
<1>. QED
      BY NextActions, <1>1, <1>2, <1>3, <1>4, <1>5, <1>6, <1>7, <1>8, <1>9,
         <1>10, <1>11, <1>12, <1>13, <1>14, <1>15, <1>16, <1>17, <1>18, <1>19, <1>20,
         <1>21, <1>22, <1>23, <1>23a, <1>24, <1>25, <1>26, <1>27, <1>28, <1>29

\* While the fragment is resumed its callbacks do not crash.
THEOREM CallbacksSafeCorrect == Spec => []CallbacksSafeWhileResumed
<1>1. ASSUME Init
      PROVE  Usable
      BY <1>1 DEF Init, Usable, CallbacksSafeWhileResumed, Resumed
<1>2. ASSUME TypeRest, Current, Usable, [Next]_vars
      PROVE  Usable'
      BY <1>2, UsableStep
<1>3. Usable => CallbacksSafeWhileResumed
      BY DEF Usable
<1>. QED  BY <1>1, <1>2, <1>3, CurrentInvariant, PTL DEF Spec

--------------------------------------------------------------------------------
(* The permit.                                                             *)

\* Every step keeps OneOpen.
LEMMA OneOpenStep ==
    ASSUME TypeRest, Current, OneOpen, [Next]_vars
    PROVE  OneOpen'
<1>. USE FragmentAssumption, InFacts
     DEF fields, bgVars, uiVars, frameVars, history, TypeRest, Current, OneOpen, Owed, Closing, Fresh,
     Devices, NoDevice
<1>1. CASE onResume BY <1>1 DEF onResume
<1>2. CASE onSurfaceTextureAvailable BY <1>2 DEF onSurfaceTextureAvailable
<1>3. CASE onSurfaceTextureDestroyed BY <1>3 DEF onSurfaceTextureDestroyed
<1>4. CASE setUpCameraOutputs BY <1>4 DEF setUpCameraOutputs
<1>5. CASE openCameraAcquire BY <1>5 DEF openCameraAcquire
<1>6. CASE openCamera BY <1>6 DEF openCamera
<1>7. CASE onPause BY <1>7 DEF onPause
<1>8. CASE closeCameraAcquire BY <1>8 DEF closeCameraAcquire, MayAcquire
<1>9. CASE closeSession BY <1>9 DEF closeSession
<1>10. CASE testDevice BY <1>10 DEF testDevice
<1>11. CASE closeDevice BY <1>11 DEF closeDevice, ClosedNow
<1>12. CASE closeReader BY <1>12 DEF closeReader, Released
<1>13. CASE quitSafely BY <1>13 DEF quitSafely
<1>14. CASE join BY <1>14 DEF join
<1>15. ASSUME NEW d \in Devices, openResult(d) PROVE OneOpen' BY <1>15 DEF openResult, Post
<1>16. ASSUME NEW d \in Devices, loseDevice(d) PROVE OneOpen' BY <1>16 DEF loseDevice
<1>17. ASSUME NEW d \in Devices, configureSession(d) PROVE OneOpen'
       <2>. SUFFICES ASSUME ~lateLoss
                     PROVE  OneOpen'
            BY <1>17 DEF configureSession
       <2>1. /\ UNCHANGED <<permits, bg, ui, resumes, device, lateLoss>>
             /\ configuring' = configuring \ {d}
             BY <1>17 DEF configureSession
       <2>2. CASE UNCHANGED inbox
             BY <2>1, <2>2
       <2>3. CASE inbox' # inbox
             <3>1. Post([what |-> "onConfigured", cd |-> d])
                   BY <1>17, <2>3 DEF configureSession
             <3>2. /\ d = resumes /\ Len(inbox') = Len(inbox) + 1
                   /\ In(inbox') = In(inbox) \union {[what |-> "onConfigured", cd |-> d]}
                   BY <2>3, <3>1, PostFacts
             <3>3. /\ d \in configuring /\ inbox = <<>> /\ bg = "idle"
                   /\ device[resumes] # "opening" /\ resumes # 0
                   BY <1>17, <3>2 DEF configureSession
             <3>4. Len(inbox') <= 1
                   BY <3>2, <3>3
             <3>5. \A m \in In(inbox') : m.what = "onConfigured"
                   <4>1. In(inbox) = {}
                         BY <3>3, InFacts
                   <4>. QED  BY <3>2, <4>1
             <3>. QED  BY <2>1, <3>2, <3>3, <3>4, <3>5
       <2>. QED  BY <2>2, <2>3
<1>18. CASE dispatch BY <1>18 DEF dispatch
<1>19. CASE threadEnds BY <1>19 DEF threadEnds
<1>20. CASE onOpened BY <1>20 DEF onOpened, OpenedRelease
<1>21. CASE storeDevice BY <1>21 DEF storeDevice
<1>22. CASE createRequest BY <1>22 DEF createRequest, Unusable
<1>23. CASE newReader BY <1>23 DEF newReader
<1>23a. CASE useReader BY <1>23a DEF useReader, NoReader
<1>24. CASE createCaptureSession BY <1>24 DEF createCaptureSession, Unusable, NoReader
<1>25. CASE onLost BY <1>25 DEF onLost
<1>26. CASE forgetDevice BY <1>26 DEF forgetDevice
<1>27. CASE onConfigured BY <1>27 DEF onConfigured, AlreadyClosed
<1>28. CASE setRepeatingRequest BY <1>28 DEF setRepeatingRequest
<1>29. CASE UNCHANGED vars BY <1>29 DEF vars
<1>. QED
      BY NextActions, <1>1, <1>2, <1>3, <1>4, <1>5, <1>6, <1>7, <1>8, <1>9,
         <1>10, <1>11, <1>12, <1>13, <1>14, <1>15, <1>16, <1>17, <1>18, <1>19, <1>20,
         <1>21, <1>22, <1>23, <1>23a, <1>24, <1>25, <1>26, <1>27, <1>28, <1>29

\* closeCamera waits for an open that is under way.
THEOREM CloseWaitsCorrect == Spec => []CloseWaits
<1>1. ASSUME Init
      PROVE  OneOpen
      BY <1>1 DEF Init, OneOpen, Owed, In, Closing
<1>2. ASSUME TypeRest, Current, OneOpen, [Next]_vars
      PROVE  OneOpen'
      BY <1>2, OneOpenStep
<1>3. ASSUME TypeRest, Current, OneOpen
      PROVE  CloseWaits
      <2>. SUFFICES ASSUME ui \in Closing, ~lateLoss
                    PROVE  /\ \A d \in Devices : device[d] # "opening"
                           /\ \A i \in DOMAIN inbox : inbox[i].what # "onOpened"
                           /\ bg # "onOpened"
           BY DEF CloseWaits
      <2>1. ~Owed
            BY <1>3 DEF OneOpen, Closing
      <2>2. \A d \in Devices : device[d] # "opening"
            BY <1>3, <2>1 DEF OneOpen, Owed, Devices
      <2>3. \A i \in DOMAIN inbox : inbox[i] \in In(inbox)
            BY <1>3 DEF TypeRest, In
      <2>. QED  BY <2>1, <2>2, <2>3 DEF Owed
<1>. QED  BY <1>1, <1>2, <1>3, CurrentInvariant, PTL DEF Spec

--------------------------------------------------------------------------------
(* The camera that is left open.                                           *)

\* Every step keeps Kept.
LEMMA KeptStep ==
    ASSUME TypeRest, Current, OneOpen, Kept, [Next]_vars
    PROVE  Kept'
<1>. USE FragmentAssumption, InFacts
     DEF fields, bgVars, uiVars, frameVars, history, TypeRest, Current, OneOpen, Owed, Closing, Fresh,
     Kept, Devices, NoDevice
<1>1. CASE onResume BY <1>1 DEF onResume
<1>2. CASE onSurfaceTextureAvailable BY <1>2 DEF onSurfaceTextureAvailable
<1>3. CASE onSurfaceTextureDestroyed BY <1>3 DEF onSurfaceTextureDestroyed
<1>4. CASE setUpCameraOutputs BY <1>4 DEF setUpCameraOutputs
<1>5. CASE openCameraAcquire BY <1>5 DEF openCameraAcquire
<1>6. CASE openCamera BY <1>6 DEF openCamera
<1>7. CASE onPause BY <1>7 DEF onPause
<1>8. CASE closeCameraAcquire BY <1>8 DEF closeCameraAcquire, MayAcquire
<1>9. CASE closeSession BY <1>9 DEF closeSession
<1>10. CASE testDevice
       <2>. SUFFICES ASSUME ~lateLoss, ~overtaken'
                     PROVE  Kept'
            BY <1>10 DEF testDevice
       <2>1. ~overtaken /\ bg # "store"
             BY <1>10 DEF testDevice
       <2>2. ~Owed
             BY <1>10 DEF testDevice
       <2>3. resumes # 0 /\ device[resumes] = "open" => cameraDevice = resumes
             BY <2>1, <2>2
       <2>. QED  BY <1>10, <2>1, <2>3 DEF testDevice
<1>11. CASE closeDevice BY <1>11 DEF closeDevice, ClosedNow
<1>12. CASE closeReader BY <1>12 DEF closeReader, Released
<1>13. CASE quitSafely BY <1>13 DEF quitSafely
<1>14. CASE join BY <1>14 DEF join
<1>15. ASSUME NEW d \in Devices, openResult(d) PROVE Kept'
       <2>. SUFFICES ASSUME ~lateLoss, ~overtaken
                     PROVE  Kept'
            BY <1>15 DEF openResult
       <2>1. d = resumes /\ ui \in {"resumed", "acquire"} /\ thread = "running"
             BY <1>15 DEF openResult
       <2>2. UNCHANGED <<bg, ui, resumes, cameraDevice>>
             BY <1>15 DEF openResult
       <2>3. \A e \in Devices : e # resumes => device'[e] = device[e]
             BY <1>15, <2>1 DEF openResult
       <2>4. device'[resumes] = "open" => \E m \in In(inbox') : m.what = "onOpened"
             <3>1. CASE Post([what |-> "onOpened", cd |-> d])
                   <4>1. [what |-> "onOpened", cd |-> d] \in In(inbox')
                         BY <2>1, <3>1, PostFacts
                   <4>. QED  BY <4>1
             <3>2. CASE device' = [device EXCEPT ![d] = "lost"]
                   BY <2>1, <3>2
             <3>. QED  BY <1>15, <3>1, <3>2 DEF openResult
       <2>. QED  BY <2>1, <2>2, <2>3, <2>4
<1>16. ASSUME NEW d \in Devices, loseDevice(d) PROVE Kept' BY <1>16 DEF loseDevice
<1>17. ASSUME NEW d \in Devices, configureSession(d) PROVE Kept'
      BY <1>17 DEF configureSession, Post
<1>18. CASE dispatch
       <2>. SUFFICES ASSUME ~lateLoss, ~overtaken
                     PROVE  Kept'
            BY <1>18 DEF dispatch
       <2>1. UNCHANGED <<ui, resumes, device, cameraDevice>> /\ bg = "idle"
             BY <1>18 DEF dispatch
       <2>2. bg' \in {"idle", "onOpened", "onLost", "onConfigured"} /\ bg' # "store"
             <3>1. Head(inbox) \in Messages
                   BY <1>18 DEF dispatch
             <3>. QED  BY <1>18, <3>1 DEF dispatch, Messages
       <2>3. ASSUME NEW m \in In(inbox), m.what = "onOpened", device[resumes] = "open"
             PROVE  bg' = "onOpened"
             <3>1. m = Head(inbox)
                   BY <1>18, <2>3 DEF dispatch, In
             <3>. QED  BY <1>18, <2>3, <3>1 DEF dispatch
       <2>. QED  BY <2>1, <2>2, <2>3
<1>19. CASE threadEnds BY <1>19 DEF threadEnds
<1>20. CASE onOpened BY <1>20 DEF onOpened, OpenedRelease
<1>21. CASE storeDevice BY <1>21 DEF storeDevice
<1>22. CASE createRequest BY <1>22 DEF createRequest, Unusable
<1>23. CASE newReader BY <1>23 DEF newReader
<1>23a. CASE useReader BY <1>23a DEF useReader, NoReader
<1>24. CASE createCaptureSession BY <1>24 DEF createCaptureSession, Unusable, NoReader
<1>25. CASE onLost BY <1>25 DEF onLost
<1>26. CASE forgetDevice BY <1>26 DEF forgetDevice
<1>27. CASE onConfigured BY <1>27 DEF onConfigured, AlreadyClosed
<1>28. CASE setRepeatingRequest BY <1>28 DEF setRepeatingRequest
<1>29. CASE UNCHANGED vars BY <1>29 DEF vars
<1>. QED
      BY NextActions, <1>1, <1>2, <1>3, <1>4, <1>5, <1>6, <1>7, <1>8, <1>9,
         <1>10, <1>11, <1>12, <1>13, <1>14, <1>15, <1>16, <1>17, <1>18, <1>19, <1>20,
         <1>21, <1>22, <1>23, <1>23a, <1>24, <1>25, <1>26, <1>27, <1>28, <1>29

\* A camera outlives onPause only through the window between onOpened's release
\* and its assignment, or the second release of a lost camera.
THEOREM LeakNeedsOvertakingCorrect == Spec => []LeakNeedsOvertaking
<1>1. ASSUME Init
      PROVE  OneOpen /\ Kept
      BY <1>1 DEF Init, OneOpen, Owed, In, Closing, Kept
<1>2. ASSUME TypeRest, Current, OneOpen, Kept, [Next]_vars
      PROVE  OneOpen' /\ Kept'
      BY <1>2, OneOpenStep, KeptStep
<1>3. ASSUME TypeRest, Current, OneOpen, Kept
      PROVE  LeakNeedsOvertaking
      BY <1>3 DEF OneOpen, Owed, Kept, LeakNeedsOvertaking, OpenDevices, Devices
<1>. QED  BY <1>1, <1>2, <1>3, CurrentInvariant, PTL DEF Spec
================================================================================
