---------------------------- MODULE MultiBoxTracker ----------------------------
(***************************************************************************)
(* org/tensorflow/demo/tracking/MultiBoxTracker.java: matches the boxes a  *)
(* detector finds, slowly and in the background, with the objects that the *)
(* native ObjectTracker follows from frame to frame.  Every tracked object *)
(* is drawn in a colour of its own, taken from a queue of free colours.    *)
(*                                                                         *)
(* onFrame runs on the camera's thread and trackResults on the inference   *)
(* thread; both are synchronized.  trackResults handles its detections one *)
(* by one, and pending # <<>> while it holds the lock.                     *)
(*                                                                         *)
(* Boxes are positions of which only the overlap counts, in per cent of    *)
(* their union; scores and correlations are numbers.  trackedObjects is a  *)
(* set, since its order only breaks ties, and availableColors counts how   *)
(* often the queue holds each colour.                                      *)
(***************************************************************************)
EXTENDS Integers, Sequences, FiniteSets

CONSTANTS NumColors,              \* COLORS.length (6)
          MAX_OVERLAP,            \* 20 per cent
          MARGINAL_CORRELATION,   \* 75 per cent
          MIN_CORRELATION,        \* 30 per cent
          Ids,                    \* the identities of TrackedObjects
          NullObject,             \* trackedObject = null
          Positions, Overlap,     \* boxes and their intersection over union
          Scores, Correlations,
          MaxResults              \* bound: detections in one result

ASSUME TrackerAssumption ==
    /\ NumColors \in Nat
    /\ NullObject \notin Ids
    /\ MAX_OVERLAP \in Nat
    /\ MARGINAL_CORRELATION \in Nat /\ MIN_CORRELATION \in Nat
    /\ Overlap \in [Positions \X Positions -> Nat]
    /\ Scores \subseteq Nat /\ Correlations \subseteq Nat
    /\ MaxResults \in Nat

Colors == 1 .. NumColors     \* indices into COLORS

VARIABLES
    objectTracker,    \* "unset", "live", or "none" without the native library
    object,           \* ObjectTracker's table: identity -> native state
    trackedObjects,   \* the TrackedRecognitions
    availableColors,
    pending           \* scores of the detections trackResults has still to handle

vars == <<objectTracker, object, trackedObjects, availableColors, pending>>

NativeStates == [pos : Positions, corr : Correlations]
Recognitions == [trackedObject : Ids \union {NullObject},
                 detectionConfidence : Scores, color : Colors]

Init ==
    /\ objectTracker = "unset"
    /\ object = <<>>
    /\ trackedObjects = {}
    /\ availableColors = [c \in Colors |-> 1]
    /\ pending = <<>>

--------------------------------------------------------------------------------
(* TrackedObject.stopTracking and the colour queue.                        *)

ObjectsOf(S) == {r.trackedObject : r \in S}

\* The table after stopTracking of the objects of S
Forget(table, S) == [i \in DOMAIN table \ ObjectsOf(S) |-> table[i]]

\* The colours after those of S were added to the queue
Return(S) == [c \in Colors |-> availableColors[c] + Cardinality({r \in S : r.color = c})]

--------------------------------------------------------------------------------
(* onFrame.                                                                *)

\* The first frame looks for the native library ...
Opened == IF objectTracker = "unset" THEN {"live", "none"} ELSE {objectTracker}

\* ... and every frame lets the native tracker move each object, and drops
\* the objects whose correlation has fallen too low.
onFrame ==
    /\ pending = <<>>
    /\ objectTracker' \in Opened
    /\ IF objectTracker' = "none"
         THEN UNCHANGED <<object, trackedObjects, availableColors>>
         ELSE \E native \in [DOMAIN object -> NativeStates] :
                LET lost == {r \in trackedObjects :
                               native[r.trackedObject].corr < MIN_CORRELATION}
                IN  /\ object' = Forget(native, lost)
                    /\ trackedObjects' = trackedObjects \ lost
                    /\ availableColors' = Return(lost)
    /\ UNCHANGED pending

--------------------------------------------------------------------------------
(* trackResults.                                                           *)

Results == UNION {[1 .. n -> Scores] : n \in 1 .. MaxResults}

\* processResults keeps the results that have a location of some size.  If
\* none is left it returns; the others begin the loop over handleDetection.
\* DetectorActivity calls onFrame before it starts any detection.
trackResults ==
    /\ pending = <<>> /\ objectTracker = "live"
    /\ pending' \in Results
    /\ UNCHANGED <<objectTracker, object, trackedObjects, availableColors>>

\* Without the native library the boxes themselves are shown, as many as
\* there are colours.
trackResultsUntracked ==
    /\ pending = <<>> /\ objectTracker = "none"
    /\ \E rectsToTrack \in Results :
          trackedObjects' =
              {[trackedObject |-> NullObject, detectionConfidence |-> rectsToTrack[i],
                color |-> i] : i \in DOMAIN rectsToTrack \intersect Colors}
    /\ UNCHANGED <<objectTracker, object, availableColors, pending>>

potentialScore == Head(pending)

\* ObjectTracker.trackObject registers the new object under a fresh identity;
\* the native tracker brings it up to the current frame.
Registered(id, native) ==
    [i \in DOMAIN object \union {id} |-> IF i = id THEN native ELSE object[i]]

\* Every early return of handleDetection stops the new object first.
Dismissed_kept(id, native) == Registered(id, native)
Dismissed(id, native) == object

dismiss(id, native) ==
    /\ object' = Dismissed(id, native)
    /\ UNCHANGED <<trackedObjects, availableColors>>

\* Tracked boxes that the new one intersects too much
Clashing_lenient(native) ==
    {r \in trackedObjects : Overlap[<<object[r.trackedObject].pos, native.pos>>] > 2 * MAX_OVERLAP}
Clashing(native) ==
    {r \in trackedObjects : Overlap[<<object[r.trackedObject].pos, native.pos>>] > MAX_OVERLAP}

\* One of them has a better score and is still tracked well.
Blocked_onlyByAll(native) ==
    /\ Clashing(native) # {}
    /\ \A r \in Clashing(native) :
          /\ potentialScore < r.detectionConfidence
          /\ object[r.trackedObject].corr > MARGINAL_CORRELATION
Blocked(native) ==
    \E r \in Clashing(native) :
        /\ potentialScore < r.detectionConfidence
        /\ object[r.trackedObject].corr > MARGINAL_CORRELATION

\* availableColors.isEmpty(), and a colour that poll() may return
NoColorFree == \A c \in Colors : availableColors[c] = 0

ColorFree(c) == availableColors[c] > 0

\* The clashing box that intersects most donates its colour.
MostOverlapping(native) ==
    {r \in Clashing(native) : \A q \in Clashing(native) :
        Overlap[<<object[q.trackedObject].pos, native.pos>>]
            <= Overlap[<<object[r.trackedObject].pos, native.pos>>]}

\* The worst tracked object, if it is worse than the new one
WorstTracked ==
    {r \in trackedObjects :
        /\ r.detectionConfidence < potentialScore
        /\ \A q \in trackedObjects : r.detectionConfidence <= q.detectionConfidence}

\* removeList goes, the new object takes the donor's colour.  The colours of
\* the others go back to the queue.
Returned_donorToo(removeList, donor) == removeList
Returned(removeList, donor) == removeList \ {donor}

replace(id, native, removeList, donor) ==
    /\ object' = Forget(Registered(id, native), removeList)
    /\ trackedObjects' = (trackedObjects \ removeList) \union
          {[trackedObject |-> id, detectionConfidence |-> potentialScore,
            color |-> donor.color]}
    /\ availableColors' = Return(Returned(removeList, donor))

\* availableColors.poll()
take(id, native, c) ==
    /\ object' = Registered(id, native)
    /\ trackedObjects' = trackedObjects \union
          {[trackedObject |-> id, detectionConfidence |-> potentialScore, color |-> c]}
    /\ availableColors' = [availableColors EXCEPT ![c] = @ - 1]

handleDetection(id, native) ==
    /\ pending # <<>>
    /\ IF native.corr < MARGINAL_CORRELATION \/ Blocked(native)
         THEN dismiss(id, native)
         ELSE \/ \E donor \in MostOverlapping(native) :
                    replace(id, native, Clashing(native), donor)
              \/ /\ Clashing(native) = {} /\ NoColorFree
                 /\ \E donor \in WorstTracked : replace(id, native, {donor}, donor)
              \/ /\ Clashing(native) = {} /\ NoColorFree /\ WorstTracked = {}
                 /\ dismiss(id, native)
              \/ /\ Clashing(native) = {}
                 /\ \E c \in Colors : ColorFree(c) /\ take(id, native, c)
    /\ pending' = Tail(pending)
    /\ UNCHANGED objectTracker

Next ==
    \/ onFrame \/ trackResults \/ trackResultsUntracked
    \/ \E id \in Ids \ DOMAIN object, native \in NativeStates : handleDetection(id, native)

Spec == Init /\ [][Next]_vars
--------------------------------------------------------------------------------
(* Properties.                                                             *)

\* Types: a tracked recognition names a live object or none, and no colour is
\* taken from the queue that was not in it.
TypeOK ==
    /\ objectTracker \in {"unset", "live", "none"}
    /\ DOMAIN object \subseteq Ids /\ object \in [DOMAIN object -> NativeStates]
    /\ trackedObjects \subseteq Recognitions
    /\ availableColors \in [Colors -> Nat]
    /\ pending \in Seq(Scores)

\* Every colour is either once in the queue or worn by exactly one tracked
\* object, after any number of frames, rejections and replacements: no colour
\* is lost, none is handed out twice, and never more objects than colours are
\* tracked.
ColorsConserved ==
    objectTracker # "none" =>
        \A c \in Colors :
            availableColors[c] + Cardinality({r \in trackedObjects : r.color = c}) = 1

\* ObjectTracker follows exactly the objects on the list, each under its own
\* identity: none leaks when a detection is dismissed or an object replaced,
\* and no TrackedObject is used after stopTracking ("TrackedObject already
\* removed from tracking!").
RegistryMatchesList ==
    objectTracker # "none" =>
        /\ DOMAIN object = ObjectsOf(trackedObjects)
        /\ \A r, q \in trackedObjects : r.trackedObject = q.trackedObject => r = q

\* A box that begins to be tracked overlaps no box that stays by more than
\* the maximum.
PlacedClear ==
    [][objectTracker = "live" =>
         \A r \in trackedObjects' \ trackedObjects : \A q \in trackedObjects' \ {r} :
            Overlap[<<object'[q.trackedObject].pos, object'[r.trackedObject].pos>>]
                <= MAX_OVERLAP]_vars

\* A detection never drives out an object that scored better and is still
\* tracked well, whichever other objects it overlaps.
StrongTrackSurvives ==
    [][pending # <<>> =>
         \A r \in trackedObjects :
            (/\ r.detectionConfidence > potentialScore
             /\ object[r.trackedObject].corr > MARGINAL_CORRELATION)
            => r \in trackedObjects']_vars
================================================================================
