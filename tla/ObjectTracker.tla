----------------------------- MODULE ObjectTracker -----------------------------
(***************************************************************************)
(* The tracker that follows boxes from frame to frame:                     *)
(* org/tensorflow/demo/tracking/ObjectTracker.java, the native class of    *)
(* the same name behind it (cpp/demo/object_tracking/object_tracker.cc)    *)
(* and the parts that one drives: the queue of FramePairs, the two         *)
(* ImageData with their lazily computed pyramids, OpticalFlow with its own *)
(* pointers to them, and the TrackedObjects.                               *)
(*                                                                         *)
(* Its only caller is MultiBoxTracker, whose lock serializes the calls: an *)
(* action is one call.  A new MultiBoxTracker replaces the one instance.   *)
(*                                                                         *)
(* A box is a position on a line and a frame is the time it was taken at.  *)
(* scene says where the picture's content is at each frame, so what        *)
(* optical flow can see between two pictures is the difference of their    *)
(* scenes.  A CHECK_ALWAYS that fails ends the process (aborted).          *)
(***************************************************************************)
EXTENDS Integers, Sequences, FiniteSets

CONSTANTS kNumFrames,              \* FramePairs in the queue (512)
          always_track,            \* TRUE: what MultiBoxTracker passes
          DOWNSAMPLE_FACTOR,       \* 2
          MAX_DEBUG_HISTORY_SIZE,  \* 30
          Ids,                     \* identities of TrackedObjects
          Boxes,                   \* where a detector may find something
          Motions,                 \* of the scene, from one frame to the next
          MaxTime,                 \* bound: DetectorActivity's counter of frames
          MaxGap                   \* bound: 1 + images missing before a frame

ASSUME ObjectTrackerAssumption ==
    /\ kNumFrames \in Nat /\ kNumFrames >= 2
    /\ always_track \in BOOLEAN
    /\ DOWNSAMPLE_FACTOR \in Nat \ {0} /\ MAX_DEBUG_HISTORY_SIZE \in Nat \ {0}
    /\ Boxes \subseteq Int /\ \A b \in Boxes : b % DOWNSAMPLE_FACTOR = 0
    /\ Motions \subseteq Int
    /\ MaxTime \in Nat /\ MaxGap \in Nat

Times == 0 .. MaxTime       \* 0: no frame yet
Buffers == {1, 2}           \* the two ImageData
NULL == 0

VARIABLES
    \* native
    curr_time_, num_frames_,
    queue,            \* frame_pairs_, first_frame_index_, curr_num_frame_pairs_
    frame1_, frame2_, \* which ImageData is the older, which the newer frame
    image,            \* the ImageData
    flow,             \* OpticalFlow's own frame1_ and frame2_
    objects_,
    \* Java
    instance,         \* ObjectTracker.instance # null
    handle,           \* the TrackedObjects that were handed out
    trackedObjects, lastTimestamp, downsampled, debugHistory,
    \* around it
    timestamp,        \* DetectorActivity's counter
    scene,            \* the offset of the scene in each frame of this tracker
    aborted

native == <<curr_time_, num_frames_, queue, frame1_, frame2_, image, flow, objects_>>
java   == <<instance, handle, trackedObjects, lastTimestamp, downsampled, debugHistory>>
vars   == <<native, java, timestamp, scene, aborted>>

--------------------------------------------------------------------------------
(* The queue of frame pairs.                                               *)

Indices == 0 .. kNumFrames - 1

\* FramePair::Init
Pair(start, end) == [start_time_ |-> start, end_time_ |-> end, moved |-> 0]

EmptyQueue == [frame_pairs_ |-> [i \in Indices |-> Pair(-1, -1)],
               first_frame_index_ |-> 0, curr_num_frame_pairs_ |-> 0]

GetNthIndexFromStart(q, offset) == (q.first_frame_index_ + offset) % kNumFrames

GetNthIndexFromEnd(q, offset) ==
    GetNthIndexFromStart(q, q.curr_num_frame_pairs_ - 1 - offset)

NthPairFromEnd(q, offset) == q.frame_pairs_[GetNthIndexFromEnd(q, offset)]

\* A full queue gives up its oldest pair.
IncrementFrameIndex_fixedStart(q) ==
    IF q.curr_num_frame_pairs_ + 1 > kNumFrames
      THEN q
      ELSE [q EXCEPT !.curr_num_frame_pairs_ = @ + 1]
IncrementFrameIndex(q) ==
    IF q.curr_num_frame_pairs_ + 1 > kNumFrames
      THEN [q EXCEPT !.first_frame_index_ = GetNthIndexFromStart(q, 1)]
      ELSE [q EXCEPT !.curr_num_frame_pairs_ = @ + 1]

SetNewest(q, pair) == [q EXCEPT !.frame_pairs_[GetNthIndexFromEnd(q, 0)] = pair]

\* The walk back from the newest pair ends at the first one that ended by
\* time t; it is not found when the queue does not reach that far.
num_frames_back(q, t) ==
    LET ended == {i \in 0 .. q.curr_num_frame_pairs_ - 1 :
                    NthPairFromEnd(q, i).end_time_ <= t}
    IN  IF ended = {} THEN -1
        ELSE (CHOOSE i \in ended : \A j \in ended : i <= j) - 1

\* It is found when the oldest pair had ended by then.
Reaches(q, t) == NthPairFromEnd(q, q.curr_num_frame_pairs_ - 1).end_time_ <= t

\* TrackBox: every later pair shifts the box by what moved in it.
TrackBox_oneShort(q, region, t) ==
    LET moved[i \in -1 .. kNumFrames - 1] ==
          IF i <= 0 THEN 0 ELSE NthPairFromEnd(q, i).moved + moved[i - 1]
    IN  region + moved[num_frames_back(q, t)]
TrackBox(q, region, t) ==
    LET moved[i \in -1 .. kNumFrames - 1] ==
          IF i = -1 THEN 0 ELSE NthPairFromEnd(q, i).moved + moved[i - 1]
    IN  region + moved[num_frames_back(q, t)]

--------------------------------------------------------------------------------
(* ImageData and OpticalFlow.                                              *)

\* A picture, and what its pyramids and derivatives were computed from
NoImage == [data |-> 0, computed |-> FALSE, derived |-> 0]

SetData_cached(im, frame) == [im EXCEPT !.data = frame]
SetData(im, frame) == [im EXCEPT !.data = frame, !.computed = FALSE]

\* GetPyramidSqrt2Level, GetSpatialX and GetSpatialY compute on demand.
Computed(im) == IF im.computed THEN im
                ELSE [im EXCEPT !.computed = TRUE, !.derived = im.data]

\* OpticalFlow::NextFrame keeps pointers of its own.
FlowNextFrame(f, im) ==
    [frame1_ |-> IF f.frame1_ = NULL THEN im ELSE f.frame2_, frame2_ |-> im]

--------------------------------------------------------------------------------
(* TrackedObject.                                                          *)

\* TrackedObject::UpdatePosition correlates two thumbnails: what the box showed
\* when it was detected and what it shows now.  A thumbnail is the place of the
\* scene it shows.  The score is left out: it depends on the pixels, and
\* MultiBoxTracker is checked with any.
UpdatePosition(object, pos, place) ==
    [object EXCEPT !.last_known_position_ = pos, !.last_frame_thumbnail_ = place]

\* TrackObjects: every object is shifted by what moved in the newest pair.
Tracked(object, pair, offset) ==
    LET pos == object.last_known_position_ + pair.moved
    IN  UpdatePosition(object, pos, pos - offset)

--------------------------------------------------------------------------------
(* The Java side.                                                          *)

downscaleRect(r) == r \div DOWNSAMPLE_FACTOR
upscaleRect(r)   == r * DOWNSAMPLE_FACTOR

\* place and reached are for the properties: where in the scene the object was
\* detected, and whether the queue still reached back to the frame of that time.
NoHandle == [tracker |-> "none", isDead |-> TRUE, lastTrackedPosition |-> 0,
             place |-> 0, reached |-> FALSE]

\* A TrackedObject is usable until it is stopped or its tracker replaced.
checkValidObject_anyTracker(id) == ~handle[id].isDead
checkValidObject(id) == ~handle[id].isDead /\ handle[id].tracker = "this"

\* A native method finds the native tracker, and the object in it.  The Java
\* object of a replaced tracker has a null pointer.
NativeFinds(id) == handle[id].tracker = "this" /\ id \in DOMAIN objects_

\* downsampledFrame is recomputed when it is of another time.
Downsampled_once(t) ==
    IF downsampled = 0 THEN t ELSE downsampled
Downsampled(t) == IF downsampled # t THEN t ELSE downsampled

\* updateTrackedPosition of every object
Updated(h, objects) ==
    [id \in Ids |-> IF id \in trackedObjects
                      THEN [h[id] EXCEPT !.lastTrackedPosition = objects[id].last_known_position_]
                      ELSE h[id]]

\* Only the newest points of the history line are kept.
Shortened(s) ==
    IF Len(s) > MAX_DEBUG_HISTORY_SIZE
      THEN SubSeq(s, Len(s) - MAX_DEBUG_HISTORY_SIZE + 1, Len(s)) ELSE s

\* updateDebugHistory: how far the middle of the frame went since the last one
DebugHistory(q) ==
    IF lastTimestamp = 0 THEN debugHistory
    ELSE Shortened(Append(debugHistory, upscaleRect(TrackBox(q, 0, lastTimestamp))))

--------------------------------------------------------------------------------
(* The calls.                                                              *)

Init ==
    /\ curr_time_ = 0 /\ num_frames_ = 0 /\ queue = EmptyQueue
    /\ frame1_ = 1 /\ frame2_ = 2 /\ image = [b \in Buffers |-> NoImage]
    /\ flow = [frame1_ |-> NULL, frame2_ |-> NULL]
    /\ objects_ = [id \in {} |-> 0] /\ trackedObjects = {}
    /\ lastTimestamp = 0 /\ downsampled = 0 /\ debugHistory = <<>>
    /\ scene = [t \in {0} |-> 0]
    /\ instance = FALSE
    /\ handle = [id \in Ids |-> NoHandle]
    /\ timestamp = 0 /\ aborted = FALSE

\* clearInstance and getInstance, in the first onFrame of a MultiBoxTracker.
\* It is made by an activity that was resumed, or by a new activity, whose
\* counter of frames starts at 0.
open ==
    /\ curr_time_' = 0 /\ num_frames_' = 0 /\ queue' = EmptyQueue
    /\ frame1_' = 1 /\ frame2_' = 2 /\ image' = [b \in Buffers |-> NoImage]
    /\ flow' = [frame1_ |-> NULL, frame2_ |-> NULL]
    /\ objects_' = [id \in {} |-> 0] /\ trackedObjects' = {}
    /\ lastTimestamp' = 0 /\ downsampled' = 0 /\ debugHistory' = <<>>
    /\ scene' = [t \in {0} |-> 0]
    /\ instance' = TRUE
    /\ handle' = [id \in Ids |-> IF handle[id].tracker = "this"
                                   THEN [handle[id] EXCEPT !.tracker = "other"]
                                   ELSE handle[id]]
    /\ timestamp' \in {timestamp, 0}
    /\ UNCHANGED aborted

\* nextFrame at time t.  The scene moved by m.
nextFrame(t, m) ==
    LET begun   == SetNewest(IncrementFrameIndex(queue), Pair(curr_time_, t))
        tracks  == num_frames_ > 0 /\ (always_track \/ DOMAIN objects_ # {})
        set     == [image EXCEPT ![frame1_] = SetData(@, Downsampled(t))]
        next    == FlowNextFrame(flow, frame1_)
        read    == IF tracks THEN {frame2_, next.frame1_, next.frame2_} ELSE {}
        images  == [b \in Buffers |-> IF b \in read THEN Computed(set[b]) ELSE set[b]]
        offset  == [s \in DOMAIN scene \union {t} |->
                      IF s = t THEN scene[curr_time_] + m ELSE scene[s]]
        pair    == [Pair(curr_time_, t) EXCEPT !.moved =
                      offset[images[next.frame2_].derived] - offset[images[next.frame1_].derived]]
        ended   == IF tracks THEN SetNewest(begun, pair) ELSE begun
        objects == IF tracks
                     THEN [id \in DOMAIN objects_ |->
                             Tracked(objects_[id], NthPairFromEnd(ended, 0),
                                     offset[images[frame1_].data])]
                     ELSE objects_
    IN  /\ instance
        /\ downsampled' = Downsampled(t)
        /\ queue' = ended
        /\ aborted' = (\/ ~(curr_time_ < t)
                       \/ ~(trackedObjects \subseteq DOMAIN objects_)
                       \/ lastTimestamp > t)
        /\ curr_time_' = t /\ num_frames_' = num_frames_ + 1
        /\ frame1_' = frame2_ /\ frame2_' = frame1_
        /\ image' = images /\ flow' = next
        /\ objects_' = objects
        /\ handle' = Updated(handle, objects)
        /\ debugHistory' = DebugHistory(ended)
        /\ lastTimestamp' = t
        /\ scene' = offset /\ timestamp' = t
        /\ UNCHANGED <<instance, trackedObjects>>

\* trackObject: a detector found the object id at box in the frame of time t.
\* It is registered with its appearance then and brought up to the present.
trackObject(id, box, t) ==
    LET pos    == TrackBox(queue, downscaleRect(box), t)
        new    == [last_known_position_ |-> downscaleRect(box),
                   last_detection_thumbnail_ |-> downscaleRect(box) - scene[Downsampled(t)],
                   last_frame_thumbnail_ |-> 0]
        object == UpdatePosition(new, pos, pos - scene[image[frame2_].data])
    IN  /\ instance
        /\ ~checkValidObject(id)
        /\ downsampled' = Downsampled(t)
        /\ aborted' = (id \in DOMAIN objects_ \/ ~(0 < t /\ t <= curr_time_))
        /\ objects_' = [i \in DOMAIN objects_ \union {id} |->
                          IF i = id THEN object ELSE objects_[i]]
        /\ handle' = [handle EXCEPT ![id] =
                        [tracker |-> "this", isDead |-> FALSE, lastTrackedPosition |-> pos,
                         place |-> downscaleRect(box) - scene[t], reached |-> Reaches(queue, t)]]
        /\ trackedObjects' = trackedObjects \union {id}
        /\ UNCHANGED <<curr_time_, num_frames_, queue, frame1_, frame2_, image, flow,
                       instance, lastTimestamp, debugHistory, timestamp, scene>>

\* TrackedObject.stopTracking; an object that is not valid throws.
stopTracking(id) ==
    /\ checkValidObject(id)
    /\ handle' = [handle EXCEPT ![id].isDead = TRUE]
    /\ aborted' = ~NativeFinds(id)
    /\ objects_' = [i \in DOMAIN objects_ \ {id} |-> objects_[i]]
    /\ trackedObjects' = trackedObjects \ {id}
    /\ UNCHANGED <<curr_time_, num_frames_, queue, frame1_, frame2_, image, flow,
                   instance, lastTimestamp, downsampled, debugHistory, timestamp, scene>>

Next ==
    /\ ~aborted
    /\ \/ open
       \/ \E t \in timestamp + 1 .. timestamp + MaxGap, m \in Motions :
             t <= MaxTime /\ nextFrame(t, m)
       \/ \E id \in Ids, box \in Boxes, t \in DOMAIN scene \ {0} : trackObject(id, box, t)
       \/ \E id \in Ids : stopTracking(id)

Spec == Init /\ [][Next]_vars
--------------------------------------------------------------------------------
(* Properties.                                                             *)

\* Types.
TypeOK ==
    /\ curr_time_ \in Nat /\ num_frames_ \in Nat
    /\ queue \in [frame_pairs_ : [Indices -> [start_time_ : Int, end_time_ : Int, moved : Int]],
                  first_frame_index_ : Indices, curr_num_frame_pairs_ : 0 .. kNumFrames]
    /\ frame1_ \in Buffers /\ frame2_ \in Buffers
    /\ image \in [Buffers -> [data : Nat, computed : BOOLEAN, derived : Nat]]
    /\ flow \in [frame1_ : Buffers \union {NULL}, frame2_ : Buffers \union {NULL}]
    /\ objects_ \in [DOMAIN objects_ -> [last_known_position_ : Int, last_detection_thumbnail_ : Int,
                                         last_frame_thumbnail_ : Int]]
    /\ DOMAIN objects_ \subseteq Ids /\ trackedObjects \subseteq Ids
    /\ instance \in BOOLEAN
    /\ handle \in [Ids -> [tracker : {"none", "this", "other"}, isDead : BOOLEAN,
                           lastTrackedPosition : Int, place : Int, reached : BOOLEAN]]
    /\ lastTimestamp \in Nat /\ downsampled \in Nat /\ debugHistory \in Seq(Int)
    /\ timestamp \in Nat /\ aborted \in BOOLEAN
    /\ DOMAIN scene \subseteq Nat /\ scene \in [DOMAIN scene -> Int]

\* No CHECK_ALWAYS of the native code ever fails: times only grow although a
\* new activity counts from 0 again, no object is registered twice, and no
\* TrackedObject that was stopped, or whose tracker was replaced, reaches a
\* native method.
NoCheckFails == ~aborted

\* A box known at the time of any frame the queue still reaches is brought
\* exactly to where the scene has carried it since, however often the queue
\* has wrapped around, the two pictures have changed places and frames were
\* missing.
TrackBoxIsExact ==
    always_track =>
      \A t \in DOMAIN scene \ {0} :
        Reaches(queue, t) => TrackBox(queue, 0, t) = scene[curr_time_] - scene[t]

\* While it is tracked, an object stays fixed to the place in the scene where
\* it was put.
StaysAnchored ==
    [][\A id \in trackedObjects \intersect trackedObjects' :
         objects_'[id].last_known_position_ - scene'[curr_time_']
           = objects_[id].last_known_position_ - scene[curr_time_]]_vars

\* The Java side and the native side have the same objects at the same
\* positions, and the history line shows the motion of the last frames.
JavaSeesNative ==
    /\ trackedObjects = DOMAIN objects_
    /\ trackedObjects = {id \in Ids : checkValidObject(id)}
    /\ \A id \in trackedObjects :
          handle[id].lastTrackedPosition = objects_[id].last_known_position_
    /\ \A i \in 1 .. Len(debugHistory) :
          LET pair == NthPairFromEnd(queue, Len(debugHistory) - i)
          IN  Len(debugHistory) - i < kNumFrames =>
                debugHistory[i] = upscaleRect(scene[pair.end_time_] - scene[pair.start_time_])

\* The two thumbnails an object is judged by are the right ones.  The one of
\* its detection was taken from the frame of the detection, although the
\* downsampled frame is shared by detections and frames of different times; the
\* other shows the box in the newest frame.  So they differ whenever the object
\* was misplaced, and it is misplaced only if the queue no longer reached back
\* to the frame of its detection, in which case TrackBox fails silently.
ComparesTheRightPlaces ==
    \A id \in trackedObjects :
        LET now == objects_[id].last_known_position_ - scene[curr_time_]
        IN  /\ objects_[id].last_detection_thumbnail_ = handle[id].place
            /\ objects_[id].last_frame_thumbnail_ = now
            /\ always_track /\ handle[id].reached => now = handle[id].place
================================================================================
