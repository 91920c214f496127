-------------------------- MODULE CameraActivityProofs --------------------------
(***************************************************************************)
(* TLAPS proofs about CameraActivity, for any number of frames and sizes.  *)
(* The inductive invariant has these parts, each needing the ones above:   *)
(*   TypeOK                                                                *)
(*   Life      the order of the life cycle        -> JobNeverRefused       *)
(*   OneFrame  who has the frame                  -> FlagIsOneFrame        *)
(*   Buffers   where the legacy buffer is         -> NoBufferLost          *)
(*   Inputs    what bitmap and luminance hold     -> JobSeesItsFrame       *)
(*   Resizing  which sizes belong together        -> SizesAgree            *)
(***************************************************************************)
EXTENDS CameraActivity, SequenceTheorems, TLAPS

--------------------------------------------------------------------------------
(* Types.                                                                  *)

\* The handler's queue, of which OneFrame shows that it has at most one job:
\* what post adds to it and what the looper takes from it.
LEMMA QueueFacts ==
    ASSUME NEW q \in Seq(1 .. MaxFrames)
    PROVE  /\ Len(q) \in Nat
           /\ q = <<>> <=> Len(q) = 0
           /\ \A f \in 1 .. MaxFrames :
                /\ Append(q, f) \in Seq(1 .. MaxFrames)
                /\ Append(q, f) # <<>> /\ Len(Append(q, f)) = Len(q) + 1
                /\ q = <<>> => Head(Append(q, f)) = f
           /\ q # <<>> => /\ Head(q) \in 1 .. MaxFrames
                          /\ Tail(q) \in Seq(1 .. MaxFrames)
                          /\ Len(Tail(q)) = Len(q) - 1
<1>1. Len(q) \in Nat /\ (q = <<>> <=> Len(q) = 0)
      BY EmptySeq
<1>2. ASSUME NEW f \in 1 .. MaxFrames
      PROVE  /\ Append(q, f) \in Seq(1 .. MaxFrames)
             /\ Append(q, f) # <<>> /\ Len(Append(q, f)) = Len(q) + 1
             /\ q = <<>> => Head(Append(q, f)) = f
      BY AppendProperties
<1>3. q # <<>> => /\ Head(q) \in 1 .. MaxFrames
                  /\ Tail(q) \in Seq(1 .. MaxFrames)
                  /\ Len(Tail(q)) = Len(q) - 1
      BY HeadTailProperties
<1>. QED  BY <1>1, <1>2, <1>3

\* The size button stays inside SIZES, whose length is arbitrary.
LEMMA IndexInSizes ==
    ASSUME desiredSizeIndex \in -1 .. NumSizes - 1
    PROVE  NextIndex \in 0 .. NumSizes - 1
BY CameraActivityAssumption DEF NextIndex

\* A callback is under way only after a frame arrived.
FramesSeen == cam # "idle" => frames > 0

TypeInv == TypeOK /\ FramesSeen

\* Every step of the UI thread keeps the types.
LEMMA UiType ==
    ASSUME TypeInv, onResume \/ startCamera \/ onClick \/ stopCamera \/ onPause
    PROVE  TypeInv'
<1>. USE CameraActivityAssumption
     DEF TypeInv, TypeOK, FramesSeen, which, life, callback, flag, inputs, inferred, wanted, sizes
<1>1. CASE onResume BY <1>1 DEF onResume
<1>2. CASE startCamera
      <2>1. preview' \in BOOLEAN /\ crashed' \in BOOLEAN
            BY <1>2 DEF startCamera
      <2>. QED  BY <1>2, <2>1 DEF startCamera
<1>3. CASE onClick
      <2>1. NextIndex \in 0 .. NumSizes - 1
            BY IndexInSizes
      <2>2. desiredSizeIndex' \in -1 .. NumSizes - 1 /\ desiredSize' \in Sizes
            BY <1>3, <2>1 DEF onClick, Sizes
      <2>3. clicks' \in 0 .. MaxClicks /\ resized' \in BOOLEAN
            BY <1>3 DEF onClick
      <2>. QED  BY <1>3, <2>2, <2>3 DEF onClick
<1>4. CASE stopCamera
      <2>1. preview' \in BOOLEAN
            BY <1>4 DEF stopCamera
      <2>. QED  BY <1>4, <2>1 DEF stopCamera
<1>5. CASE joinCamera BY <1>5 DEF joinCamera
<1>6. CASE quitSafely BY <1>6 DEF quitSafely, AfterQuit
<1>7. CASE join BY <1>7 DEF join
<1>. QED  BY <1>1, <1>2, <1>3, <1>4, <1>5, <1>6, <1>7 DEF onPause

\* Every step of the camera's callback keeps the types.
LEMMA CameraType ==
    ASSUME TypeInv, frameArrives \/ cameraSteps
    PROVE  TypeInv'
<1>. USE CameraActivityAssumption
     DEF TypeInv, TypeOK, FramesSeen, which, life, callback, flag, inputs, inferred, wanted, sizes
<1>1. CASE frameArrives BY <1>1 DEF frameArrives
<1>2. CASE acceptFrame
      <2>1. computing' \in BOOLEAN /\ posted' \in BOOLEAN
            BY <1>2 DEF acceptFrame
      <2>. QED  BY <1>2, <2>1 DEF acceptFrame
<1>3. CASE returnEarly BY <1>3 DEF returnEarly
<1>4. CASE convert
      <2>1. postInferenceCallback' \in BOOLEAN /\ kept' \in BOOLEAN
            BY <1>4 DEF convert
      <2>. QED  BY <1>4, <2>1 DEF convert
<1>5. CASE convertThrows BY <1>5 DEF convertThrows
<1>6. CASE checkSize BY <1>6 DEF checkSize
<1>7. CASE newBitmap BY <1>7 DEF newBitmap, Sizes
<1>8. CASE newValues BY <1>8 DEF newValues, NewValues, Sizes
<1>9. CASE initialized BY <1>9 DEF initialized, Sizes
<1>10. CASE drawBitmap BY <1>10 DEF drawBitmap
<1>11. CASE copyLuminance BY <1>11 DEF copyLuminance
<1>12. CASE runInBackground
       <2>1. frames \in 1 .. MaxFrames
             BY <1>12 DEF runInBackground
       <2>2. jobs' \in Seq(1 .. MaxFrames) /\ kept' \in BOOLEAN
             BY <1>12, <2>1, QueueFacts DEF runInBackground
       <2>. QED  BY <1>12, <2>2 DEF runInBackground
<1>. QED  BY <1>1, <1>2, <1>3, <1>4, <1>5, <1>6, <1>7, <1>8, <1>9, <1>10, <1>11, <1>12
          DEF cameraSteps, processImageRGBbytes, resetPreviewBuffers

\* Every step of the inference thread keeps the types.
LEMMA InferenceType ==
    ASSUME TypeInv, inferenceSteps
    PROVE  TypeInv'
<1>. USE CameraActivityAssumption
     DEF TypeInv, TypeOK, FramesSeen, which, life, callback, flag, inputs, inferred, wanted, sizes
<1>1. CASE runJob
      <2>1. job' \in 0 .. MaxFrames /\ jobs' \in Seq(1 .. MaxFrames)
            BY <1>1, QueueFacts DEF runJob
      <2>. QED  BY <1>1, <2>1 DEF runJob
<1>2. CASE recognizeImage BY <1>2 DEF recognizeImage, JobEnd
<1>3. CASE trackResults BY <1>3 DEF trackResults, JobEnd
<1>4. CASE passBitmap BY <1>4 DEF passBitmap
<1>5. CASE stylizeImage
      <2>1. crashed' \in BOOLEAN
            BY <1>5 DEF stylizeImage, JobEnd
      <2>. QED  BY <1>5, <2>1 DEF stylizeImage, JobEnd
<1>6. CASE releaseFlag
      <2>1. computing' \in BOOLEAN
            BY <1>6 DEF releaseFlag, ComputingAfter, After, JobEnd
      <2>. QED  BY <1>6, <2>1 DEF releaseFlag, ComputingAfter, After, JobEnd
<1>7. CASE returnBuffer BY <1>7 DEF returnBuffer, After, JobEnd
<1>. QED  BY <1>1, <1>2, <1>3, <1>4, <1>5, <1>6, <1>7 DEF inferenceSteps

\* The initial state has the types.
LEMMA TypeInit == Init => TypeInv
<1>. SUFFICES ASSUME Init PROVE TypeInv
     OBVIOUS
<1>1. /\ preview \in BOOLEAN /\ posted \in BOOLEAN /\ computing \in BOOLEAN
      /\ postInferenceCallback \in BOOLEAN /\ tracked \in BOOLEAN
      /\ resized \in BOOLEAN /\ kept \in BOOLEAN /\ crashed \in BOOLEAN
      BY DEF Init
<1>2. desiredSizeIndex \in -1 .. NumSizes - 1 /\ desiredSize \in Sizes
      BY CameraActivityAssumption DEF Init, Sizes
<1>. QED  BY <1>1, <1>2, CameraActivityAssumption DEF Init, TypeInv, TypeOK, FramesSeen

\* Every step keeps the types.
LEMMA TypeStep == TypeInv /\ [Next]_vars => TypeInv'
<1>1. ASSUME TypeInv, Next PROVE TypeInv'
      BY <1>1, UiType, CameraType, InferenceType DEF Next
<1>2. ASSUME TypeInv, UNCHANGED vars PROVE TypeInv'
      BY <1>2 DEF TypeInv, TypeOK, FramesSeen, vars, which, life, callback, flag,
                  inputs, inferred, wanted, sizes
<1>. QED  BY <1>1, <1>2

\* The fields of the activity, the handler's queue and the sizes keep their
\* types, for every number of frames and sizes.
THEOREM TypeCorrect == Spec => []TypeOK
<1>1. TypeInv => TypeOK
      BY DEF TypeInv
<1>. QED  BY <1>1, TypeInit, TypeStep, PTL DEF Spec

--------------------------------------------------------------------------------
(* The life cycle.                                                         *)

\* While a callback is under way the activity has not begun its own onPause,
\* and until then the handler runs.
Life ==
    /\ ui \in {"resumed", "stopping", "onPause"} => handler = "running"
    /\ preview => ui = "resumed"
    /\ cam # "idle" => ui \in {"resumed", "stopping"}

\* Every step keeps the order of the life cycle.
LEMMA LifeStep ==
    ASSUME TypeInv, Life, [Next]_vars
    PROVE  Life'
<1>. USE DEF Life, TypeInv, TypeOK, which, life, callback, flag, inputs, inferred, wanted, sizes
<1>1. CASE onResume BY <1>1 DEF onResume
<1>2. CASE startCamera BY <1>2 DEF startCamera
<1>3. CASE onClick BY <1>3 DEF onClick, UiFree
<1>4. CASE stopCamera BY <1>4 DEF stopCamera, UiFree
<1>5. CASE joinCamera BY <1>5 DEF joinCamera, CameraJoined
<1>6. CASE quitSafely BY <1>6 DEF quitSafely, AfterQuit
<1>7. CASE join BY <1>7 DEF join
<1>8. CASE frameArrives BY <1>8 DEF frameArrives
<1>9. CASE acceptFrame BY <1>9 DEF acceptFrame, Accepts
<1>10. CASE returnEarly BY <1>10 DEF returnEarly
<1>11. CASE convert BY <1>11 DEF convert
<1>12. CASE convertThrows BY <1>12 DEF convertThrows
<1>13. CASE checkSize BY <1>13 DEF checkSize
<1>14. CASE newBitmap BY <1>14 DEF newBitmap
<1>15. CASE newValues BY <1>15 DEF newValues, NewValues
<1>16. CASE initialized BY <1>16 DEF initialized
<1>17. CASE drawBitmap BY <1>17 DEF drawBitmap
<1>18. CASE copyLuminance BY <1>18 DEF copyLuminance
<1>19. CASE runInBackground BY <1>19 DEF runInBackground
<1>20. CASE runJob BY <1>20 DEF runJob
<1>21. CASE recognizeImage BY <1>21 DEF recognizeImage, JobEnd
<1>22. CASE trackResults BY <1>22 DEF trackResults, JobEnd
<1>23. CASE passBitmap BY <1>23 DEF passBitmap
<1>24. CASE stylizeImage BY <1>24 DEF stylizeImage, JobEnd
<1>25. CASE releaseFlag BY <1>25 DEF releaseFlag, ComputingAfter, After, JobEnd
<1>26. CASE returnBuffer BY <1>26 DEF returnBuffer, After, JobEnd
<1>27. CASE UNCHANGED vars BY <1>27 DEF vars
<1>. QED  BY <1>1, <1>2, <1>3, <1>4, <1>5, <1>6, <1>7, <1>8, <1>9, <1>10, <1>11,
             <1>12, <1>13, <1>14, <1>15, <1>16, <1>17, <1>18, <1>19, <1>20, <1>21,
             <1>22, <1>23, <1>24, <1>25, <1>26, <1>27
          DEF Next, onPause, cameraSteps, processImageRGBbytes, resetPreviewBuffers,
              inferenceSteps

\* No job is refused by a handler that has been told to quit, whatever the
\* moment of the pause.
THEOREM Posts == Spec => []JobNeverRefused
<1>1. Init => Life
      BY DEF Init, Life
<1>2. Spec => []TypeInv
      BY TypeInit, TypeStep, PTL DEF Spec
<1>3. Life => JobNeverRefused
      BY DEF Life, JobNeverRefused
<1>. QED  BY <1>1, <1>2, <1>3, LifeStep, PTL DEF Spec

--------------------------------------------------------------------------------
(* One frame in process.                                                   *)

\* Only the style transfer goes on after it has posted the job, and only with
\* its second look at the size.
PostedWhere ==
    posted => cam \in {"idle", "test", "check", "bitmap", "values", "initialized"}

OneFrame == FlagIsOneFrame /\ PostedWhere

\* With at most one job in the queue, none is left when the looper takes it.
LEMMA LastJob ==
    ASSUME jobs \in Seq(1 .. MaxFrames), jobs # <<>>, Len(jobs) <= 1
    PROVE  Tail(jobs) = <<>>
<1>1. Tail(jobs) \in Seq(1 .. MaxFrames) /\ Len(Tail(jobs)) = Len(jobs) - 1
      BY QueueFacts
<1>2. Len(jobs) \in Nat /\ Len(jobs) # 0
      BY QueueFacts
<1>3. Len(Tail(jobs)) = 0
      BY <1>1, <1>2
<1>. QED  BY <1>1, <1>3, QueueFacts

\* Every step keeps the flag and its one owner together.
LEMMA OneFrameStep ==
    ASSUME TypeInv, OneFrame, [Next]_vars
    PROVE  OneFrame'
<1>. USE DEF OneFrame, FlagIsOneFrame, PostedWhere, CamHolds, InfHolds, TypeInv, TypeOK,
             which, life, callback, flag, inputs, inferred, wanted, sizes
<1>1. CASE onResume BY <1>1 DEF onResume
<1>2. CASE startCamera BY <1>2 DEF startCamera
<1>3. CASE onClick BY <1>3 DEF onClick, UiFree
<1>4. CASE stopCamera BY <1>4 DEF stopCamera, UiFree
<1>5. CASE joinCamera BY <1>5 DEF joinCamera, CameraJoined
<1>6. CASE quitSafely BY <1>6 DEF quitSafely, AfterQuit
<1>7. CASE join BY <1>7 DEF join
<1>8. CASE frameArrives BY <1>8 DEF frameArrives
<1>9. CASE acceptFrame BY <1>9 DEF acceptFrame, Accepts
<1>10. CASE returnEarly BY <1>10 DEF returnEarly
<1>11. CASE convert BY <1>11 DEF convert
<1>12. CASE convertThrows BY <1>12 DEF convertThrows
<1>13. CASE checkSize BY <1>13 DEF checkSize
<1>14. CASE newBitmap BY <1>14 DEF newBitmap
<1>15. CASE newValues BY <1>15 DEF newValues, NewValues
<1>16. CASE initialized BY <1>16 DEF initialized
<1>17. CASE drawBitmap BY <1>17 DEF drawBitmap
<1>18. CASE copyLuminance BY <1>18 DEF copyLuminance
<1>19. CASE runInBackground
       <2>1. frames \in 1 .. MaxFrames
             BY <1>19 DEF runInBackground, FramesSeen
       <2>2. jobs = <<>> /\ Len(jobs) = 0
             BY <1>19, QueueFacts DEF runInBackground
       <2>3. CASE handler = "running"
             <3>1. jobs' # <<>> /\ Len(jobs') = 1
                   <4>1. jobs \in Seq(1 .. MaxFrames) /\ jobs' = Append(jobs, frames)
                         BY <1>19, <2>3 DEF runInBackground
                   <4>2. Append(jobs, frames) # <<>> /\ Len(Append(jobs, frames)) = Len(jobs) + 1
                         BY <4>1, <2>1, QueueFacts
                   <4>. QED  BY <2>2, <4>1, <4>2
             <3>. QED  BY <1>19, <2>2, <2>3, <3>1 DEF runInBackground
       <2>4. CASE handler # "running"
             BY <1>19, <2>2, <2>4 DEF runInBackground
       <2>. QED  BY <2>3, <2>4
<1>20. CASE runJob
       <2>1. jobs' = <<>>
             BY <1>20, LastJob DEF runJob
       <2>2. Len(jobs') = 0
             BY <2>1, EmptySeq
       <2>. QED  BY <1>20, <2>1, <2>2 DEF runJob
<1>21. CASE recognizeImage BY <1>21 DEF recognizeImage, JobEnd
<1>22. CASE trackResults BY <1>22 DEF trackResults, JobEnd
<1>23. CASE passBitmap BY <1>23 DEF passBitmap
<1>24. CASE stylizeImage BY <1>24 DEF stylizeImage, JobEnd
<1>25. CASE releaseFlag BY <1>25 DEF releaseFlag, ComputingAfter, After, JobEnd
<1>26. CASE returnBuffer BY <1>26 DEF returnBuffer, After, JobEnd
<1>27. CASE UNCHANGED vars BY <1>27 DEF vars
<1>. QED  BY <1>1, <1>2, <1>3, <1>4, <1>5, <1>6, <1>7, <1>8, <1>9, <1>10, <1>11,
             <1>12, <1>13, <1>14, <1>15, <1>16, <1>17, <1>18, <1>19, <1>20, <1>21,
             <1>22, <1>23, <1>24, <1>25, <1>26, <1>27
          DEF Next, onPause, cameraSteps, processImageRGBbytes, resetPreviewBuffers,
              inferenceSteps

\* Type correctness and the flag hold together.
LEMMA OneFrameAlways == Spec => [](TypeInv /\ OneFrame)
<1>1. Init => OneFrame
      BY DEF Init, OneFrame, FlagIsOneFrame, PostedWhere, CamHolds, InfHolds
<1>. QED  BY <1>1, TypeInit, TypeStep, OneFrameStep, PTL DEF Spec

\* computing is set exactly while one frame, and never a second, is in process
\* or was given up with the flag set.
THEOREM Flag == Spec => []FlagIsOneFrame
<1>1. OneFrame => FlagIsOneFrame
      BY DEF OneFrame
<1>. QED  BY <1>1, OneFrameAlways, PTL

--------------------------------------------------------------------------------
(* The legacy camera's buffer.                                             *)

\* Before the first frame nobody works.
Fresh == ui = "created" \/ (ui = "resumed" /\ ~preview)

\* The buffer is with the camera, or delivered and not yet looked at, only
\* when the flag is down and the inference thread has nothing to do.
Buffers ==
    /\ Fresh => ~computing /\ cam = "idle" /\ inf = "idle"
    /\ api = "legacy" =>
         /\ buffer = "camera" => ~computing /\ inf = "idle" /\ cam # "test"
         /\ cam = "test" => ~computing /\ inf = "idle" /\ buffer # "camera"
         /\ inf = "callback" => ~computing /\ cam # "test"

\* Every step keeps the buffer and the flag together.
LEMMA BuffersStep ==
    ASSUME TypeInv, Life, OneFrame, Buffers, [Next]_vars
    PROVE  Buffers'
<1>. USE DEF Buffers, Fresh, TypeInv, TypeOK, Life, OneFrame, FlagIsOneFrame, PostedWhere,
             CamHolds, InfHolds, which, life, callback, flag, inputs, inferred, wanted, sizes
<1>1. CASE onResume BY <1>1 DEF onResume
<1>2. CASE startCamera BY <1>2 DEF startCamera
<1>3. CASE onClick BY <1>3 DEF onClick, UiFree
<1>4. CASE stopCamera BY <1>4 DEF stopCamera, UiFree
<1>5. CASE joinCamera BY <1>5 DEF joinCamera, CameraJoined
<1>6. CASE quitSafely BY <1>6 DEF quitSafely, AfterQuit
<1>7. CASE join BY <1>7 DEF join
<1>8. CASE frameArrives BY <1>8 DEF frameArrives
<1>9. CASE acceptFrame BY <1>9 DEF acceptFrame, Accepts
<1>10. CASE returnEarly BY <1>10 DEF returnEarly
<1>11. CASE convert BY <1>11 DEF convert
<1>12. CASE convertThrows BY <1>12 DEF convertThrows
<1>13. CASE checkSize BY <1>13 DEF checkSize
<1>14. CASE newBitmap BY <1>14 DEF newBitmap
<1>15. CASE newValues BY <1>15 DEF newValues, NewValues
<1>16. CASE initialized BY <1>16 DEF initialized
<1>17. CASE drawBitmap BY <1>17 DEF drawBitmap
<1>18. CASE copyLuminance BY <1>18 DEF copyLuminance
<1>19. CASE runInBackground BY <1>19 DEF runInBackground
<1>20. CASE runJob BY <1>20 DEF runJob
<1>21. CASE recognizeImage BY <1>21 DEF recognizeImage, JobEnd
<1>22. CASE trackResults BY <1>22 DEF trackResults, JobEnd
<1>23. CASE passBitmap BY <1>23 DEF passBitmap
<1>24. CASE stylizeImage BY <1>24 DEF stylizeImage, JobEnd
<1>25. CASE releaseFlag BY <1>25 DEF releaseFlag, ComputingAfter, After, JobEnd
<1>26. CASE returnBuffer BY <1>26 DEF returnBuffer, After, JobEnd
<1>27. CASE UNCHANGED vars BY <1>27 DEF vars
<1>. QED  BY <1>1, <1>2, <1>3, <1>4, <1>5, <1>6, <1>7, <1>8, <1>9, <1>10, <1>11,
             <1>12, <1>13, <1>14, <1>15, <1>16, <1>17, <1>18, <1>19, <1>20, <1>21,
             <1>22, <1>23, <1>24, <1>25, <1>26, <1>27
          DEF Next, onPause, cameraSteps, processImageRGBbytes, resetPreviewBuffers,
              inferenceSteps

\* The early return of onPreviewFrame never swallows the legacy camera's only
\* buffer.
THEOREM BufferReturns == Spec => []NoBufferLost
<1>1. Init => Life /\ Buffers
      BY DEF Init, Life, Buffers, Fresh
<1>2. Buffers => NoBufferLost
      BY DEF Buffers, NoBufferLost
<1>. QED  BY <1>1, <1>2, OneFrameAlways, LifeStep, BuffersStep, PTL DEF Spec

--------------------------------------------------------------------------------
(* What a job finds.                                                       *)

\* While nobody presses the size button beside a callback, the size wanted is
\* the one the buffers have from the drawing on, and so the second look at it
\* changes nothing.
Resizing ==
    /\ cam \in {"check", "bitmap", "values", "initialized"} => app = "stylize"
    /\ cam = "luminance" => app = "detector"
    /\ ~resized =>
         /\ app = "stylize" /\ (cam \in {"draw", "post"} \/ (cam = "check" /\ posted)) =>
               desiredSize = initializedSize
         /\ posted => cam \notin {"bitmap", "values", "initialized"}
         /\ cam = "values" => croppedSize = desiredSize
         /\ cam # "values" => croppedSize = valuesSize
         /\ inf = "stylize" => bitmapSize = croppedSize

\* Every step keeps the sizes together.
LEMMA ResizingStep ==
    ASSUME TypeInv, OneFrame, Resizing, [Next]_vars
    PROVE  Resizing'
<1>. USE DEF Resizing, TypeInv, TypeOK, OneFrame, FlagIsOneFrame, PostedWhere, CamHolds,
             InfHolds, which, life, callback, flag, inputs, inferred, wanted, sizes
<1>1. CASE onResume BY <1>1 DEF onResume
<1>2. CASE startCamera BY <1>2 DEF startCamera
<1>3. CASE onClick BY <1>3 DEF onClick, UiFree
<1>4. CASE stopCamera BY <1>4 DEF stopCamera, UiFree
<1>5. CASE joinCamera BY <1>5 DEF joinCamera, CameraJoined
<1>6. CASE quitSafely BY <1>6 DEF quitSafely, AfterQuit
<1>7. CASE join BY <1>7 DEF join
<1>8. CASE frameArrives BY <1>8 DEF frameArrives
<1>9. CASE acceptFrame BY <1>9 DEF acceptFrame, Accepts
<1>10. CASE returnEarly BY <1>10 DEF returnEarly
<1>11. CASE convert BY <1>11 DEF convert
<1>12. CASE convertThrows BY <1>12 DEF convertThrows
<1>13. CASE checkSize BY <1>13 DEF checkSize
<1>14. CASE newBitmap BY <1>14 DEF newBitmap
<1>15. CASE newValues BY <1>15 DEF newValues, NewValues
<1>16. CASE initialized BY <1>16 DEF initialized
<1>17. CASE drawBitmap BY <1>17 DEF drawBitmap
<1>18. CASE copyLuminance BY <1>18 DEF copyLuminance
<1>19. CASE runInBackground BY <1>19 DEF runInBackground
<1>20. CASE runJob BY <1>20 DEF runJob
<1>21. CASE recognizeImage BY <1>21 DEF recognizeImage, JobEnd
<1>22. CASE trackResults BY <1>22 DEF trackResults, JobEnd
<1>23. CASE passBitmap BY <1>23 DEF passBitmap
<1>24. CASE stylizeImage BY <1>24 DEF stylizeImage, JobEnd
<1>25. CASE releaseFlag BY <1>25 DEF releaseFlag, ComputingAfter, After, JobEnd
<1>26. CASE returnBuffer BY <1>26 DEF returnBuffer, After, JobEnd
<1>27. CASE UNCHANGED vars BY <1>27 DEF vars
<1>. QED  BY <1>1, <1>2, <1>3, <1>4, <1>5, <1>6, <1>7, <1>8, <1>9, <1>10, <1>11,
             <1>12, <1>13, <1>14, <1>15, <1>16, <1>17, <1>18, <1>19, <1>20, <1>21,
             <1>22, <1>23, <1>24, <1>25, <1>26, <1>27
          DEF Next, onPause, cameraSteps, processImageRGBbytes, resetPreviewBuffers,
              inferenceSteps

\* Types, the flag and the sizes hold together.
LEMMA ResizingAlways == Spec => [](TypeInv /\ OneFrame /\ Resizing)
<1>1. Init => Resizing
      BY DEF Init, Resizing
<1>. QED  BY <1>1, TypeInit, TypeStep, OneFrameAlways, ResizingStep, PTL DEF Spec

\* Bitmap and arrays have one size when stylizeImage uses them, for any number
\* of clicks between the frames.
THEOREM StyleSizes == Spec => []SizesAgree
<1>1. OneFrame /\ Resizing => SizesAgree
      BY DEF OneFrame, FlagIsOneFrame, CamHolds, InfHolds, Resizing, SizesAgree
<1>. QED  BY <1>1, ResizingAlways, PTL

\* The frame waiting in the handler's queue, or being worked on, is the one
\* in the shared bitmap and, for the detector, in luminance.
Drawn(f) ==
    /\ app # "stylize" \/ ~resized => croppedBitmap = f
    /\ app = "detector" => luminance = f

Inputs ==
    /\ inf \in {"recognize", "track"} => app # "stylize"
    /\ inf = "track" => app = "detector" /\ recognized = job
    /\ cam \in {"luminance", "post"} => croppedBitmap = frames
    /\ cam = "post" /\ app = "detector" => luminance = frames
    /\ jobs # <<>> => Drawn(Head(jobs))
    /\ InfHolds => Drawn(job)

\* Every step keeps the job and its inputs together.
LEMMA InputsStep ==
    ASSUME TypeInv, OneFrame, Resizing, Inputs, [Next]_vars
    PROVE  Inputs'
<1>. USE DEF Inputs, Drawn, Resizing, TypeInv, TypeOK, OneFrame, FlagIsOneFrame, PostedWhere,
             CamHolds, InfHolds, which, life, callback, flag, inputs, inferred, wanted, sizes
<1>1. CASE onResume BY <1>1 DEF onResume
<1>2. CASE startCamera BY <1>2 DEF startCamera
<1>3. CASE onClick BY <1>3 DEF onClick, UiFree
<1>4. CASE stopCamera BY <1>4 DEF stopCamera, UiFree
<1>5. CASE joinCamera BY <1>5 DEF joinCamera, CameraJoined
<1>6. CASE quitSafely BY <1>6 DEF quitSafely, AfterQuit
<1>7. CASE join BY <1>7 DEF join
<1>8. CASE frameArrives BY <1>8 DEF frameArrives
<1>9. CASE acceptFrame BY <1>9 DEF acceptFrame, Accepts
<1>10. CASE returnEarly BY <1>10 DEF returnEarly
<1>11. CASE convert BY <1>11 DEF convert
<1>12. CASE convertThrows BY <1>12 DEF convertThrows
<1>13. CASE checkSize BY <1>13 DEF checkSize
<1>14. CASE newBitmap BY <1>14 DEF newBitmap
<1>15. CASE newValues BY <1>15 DEF newValues, NewValues
<1>16. CASE initialized BY <1>16 DEF initialized
<1>17. CASE drawBitmap BY <1>17 DEF drawBitmap
<1>18. CASE copyLuminance BY <1>18 DEF copyLuminance
<1>19. CASE runInBackground
       <2>1. frames \in 1 .. MaxFrames /\ jobs \in Seq(1 .. MaxFrames) /\ jobs = <<>>
             BY <1>19 DEF runInBackground, FramesSeen
       <2>2. Head(Append(jobs, frames)) = frames
             BY <2>1, QueueFacts
       <2>. QED  BY <1>19, <2>1, <2>2 DEF runInBackground
<1>20. CASE runJob
       <2>1. jobs' = <<>>
             BY <1>20, LastJob DEF runJob
       <2>. QED  BY <1>20, <2>1 DEF runJob
<1>21. CASE recognizeImage BY <1>21 DEF recognizeImage, JobEnd
<1>22. CASE trackResults BY <1>22 DEF trackResults, JobEnd
<1>23. CASE passBitmap BY <1>23 DEF passBitmap
<1>24. CASE stylizeImage BY <1>24 DEF stylizeImage, JobEnd
<1>25. CASE releaseFlag BY <1>25 DEF releaseFlag, ComputingAfter, After, JobEnd
<1>26. CASE returnBuffer BY <1>26 DEF returnBuffer, After, JobEnd
<1>27. CASE UNCHANGED vars BY <1>27 DEF vars
<1>. QED  BY <1>1, <1>2, <1>3, <1>4, <1>5, <1>6, <1>7, <1>8, <1>9, <1>10, <1>11,
             <1>12, <1>13, <1>14, <1>15, <1>16, <1>17, <1>18, <1>19, <1>20, <1>21,
             <1>22, <1>23, <1>24, <1>25, <1>26, <1>27
          DEF Next, onPause, cameraSteps, processImageRGBbytes, resetPreviewBuffers,
              inferenceSteps

\* The network and the tracker work on the frame their job was posted for.
THEOREM JobInputs == Spec => []JobSeesItsFrame
<1>1. Init => Inputs
      BY DEF Init, Inputs, InfHolds
<1>2. OneFrame /\ Inputs => JobSeesItsFrame
      BY DEF OneFrame, Inputs, Drawn, InfHolds, JobSeesItsFrame
<1>. QED  BY <1>1, <1>2, ResizingAlways, InputsStep, PTL DEF Spec
================================================================================
