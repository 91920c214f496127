------------------------- MODULE MultiBoxTrackerProofs -------------------------
(***************************************************************************)
(* TLAPS proofs about MultiBoxTracker, for every number of colours and any *)
(* boxes, scores and thresholds.  ColorsConserved counts; the induction    *)
(* goes through OneWearer, which says the same without counting, because   *)
(* the colours given back are counted over a set that the step chooses.    *)
(***************************************************************************)
EXTENDS MultiBoxTracker, FiniteSetTheorems, SequenceTheorems, TLAPS

\* A colour is in the queue once and worn by nobody, or not in the queue and
\* worn by exactly one tracked object.
OneWearer ==
    \A c \in Colors :
        \/ availableColors[c] = 1 /\ \A r \in trackedObjects : r.color # c
        \/ /\ availableColors[c] = 0
           /\ \E r \in trackedObjects :
                 r.color = c /\ \A q \in trackedObjects : q.color = c => q = r

\* The inductive invariant.  handleDetection runs only with a native tracker.
Inv ==
    /\ TypeOK
    /\ objectTracker # "none" => OneWearer
    /\ RegistryMatchesList
    /\ pending # <<>> => objectTracker = "live"

--------------------------------------------------------------------------------
(* Counting colours.                                                       *)

\* Among objects of which no two wear the same colour, a colour is worn by
\* one or by none.
LEMMA WearersCount ==
    ASSUME NEW S, NEW c, \A r, q \in S : r.color = c /\ q.color = c => q = r
    PROVE  Cardinality({r \in S : r.color = c}) = IF \E r \in S : r.color = c THEN 1 ELSE 0
<1>1. CASE \E r \in S : r.color = c
      <2>1. PICK r \in S : r.color = c
            BY <1>1
      <2>2. {q \in S : q.color = c} = {r}
            BY <2>1
      <2>. QED  BY <1>1, <2>2, FS_Singleton
<1>2. CASE ~ \E r \in S : r.color = c
      <2>1. {q \in S : q.color = c} = {}
            BY <1>2
      <2>. QED  BY <1>2, <2>1, FS_EmptySet
<1>. QED  BY <1>1, <1>2

\* The colour queue after the colours of some tracked objects were given back.
LEMMA ReturnCount ==
    ASSUME TypeOK, OneWearer, NEW S, S \subseteq trackedObjects
    PROVE  /\ Return(S) \in [Colors -> Nat]
           /\ \A c \in Colors :
                 Return(S)[c] = availableColors[c]
                                + IF \E r \in S : r.color = c THEN 1 ELSE 0
<1>1. ASSUME NEW c \in Colors
      PROVE  Cardinality({r \in S : r.color = c}) = IF \E r \in S : r.color = c THEN 1 ELSE 0
      <2>1. \A r, q \in S : r.color = c /\ q.color = c => q = r
            BY DEF OneWearer
      <2>. QED  BY <2>1, WearersCount
<1>2. \A c \in Colors : availableColors[c] \in Nat
      BY DEF TypeOK
<1>. QED  BY <1>1, <1>2 DEF Return

\* Taking objects off the list and giving all their colours back.
LEMMA RemovalKeepsWearers ==
    ASSUME TypeOK, OneWearer, NEW S, S \subseteq trackedObjects,
           trackedObjects' = trackedObjects \ S, availableColors' = Return(S)
    PROVE  OneWearer'
<1>. SUFFICES ASSUME NEW c \in Colors
     PROVE  \/ availableColors'[c] = 1 /\ \A r \in trackedObjects' : r.color # c
            \/ /\ availableColors'[c] = 0
               /\ \E r \in trackedObjects' :
                     r.color = c /\ \A q \in trackedObjects' : q.color = c => q = r
     BY DEF OneWearer, Colors
<1>1. availableColors'[c] = availableColors[c] + IF \E r \in S : r.color = c THEN 1 ELSE 0
      BY ReturnCount
<1>2. CASE availableColors[c] = 1 /\ \A r \in trackedObjects : r.color # c
      BY <1>1, <1>2
<1>3. ASSUME availableColors[c] = 0, NEW w \in trackedObjects, w.color = c,
             \A q \in trackedObjects : q.color = c => q = w
      PROVE  \/ availableColors'[c] = 1 /\ \A r \in trackedObjects' : r.color # c
             \/ /\ availableColors'[c] = 0
                /\ \E r \in trackedObjects' :
                      r.color = c /\ \A q \in trackedObjects' : q.color = c => q = r
      <2>1. CASE w \in S
            BY <1>1, <1>3, <2>1
      <2>2. CASE w \notin S
            <3>1. availableColors'[c] = 0
                  BY <1>1, <1>3, <2>2
            <3>2. w \in trackedObjects' /\ \A q \in trackedObjects' : q.color = c => q = w
                  BY <1>3, <2>2
            <3>. QED  BY <1>3, <3>1, <3>2
      <2>. QED  BY <2>1, <2>2
<1>. QED  BY <1>2, <1>3 DEF OneWearer

\* The new object wears the donor's colour and the other removed objects give
\* theirs back.
LEMMA ReplaceKeepsWearers ==
    ASSUME TypeOK, OneWearer, NEW id, NEW native,
           NEW removeList, removeList \subseteq trackedObjects,
           NEW donor \in removeList, replace(id, native, removeList, donor)
    PROVE  OneWearer'
<1> DEFINE new == [trackedObject |-> id, detectionConfidence |-> potentialScore,
                   color |-> donor.color]
<1>0. new.color = donor.color
      OBVIOUS
<1>1. trackedObjects' = (trackedObjects \ removeList) \union {new}
      BY DEF replace
<1>. HIDE DEF new
<1>2. \A c \in Colors : availableColors'[c] = availableColors[c]
         + IF \E r \in removeList \ {donor} : r.color = c THEN 1 ELSE 0
      <2>1. removeList \ {donor} \subseteq trackedObjects
            OBVIOUS
      <2>. QED  BY <2>1, ReturnCount DEF replace, Returned
<1>. SUFFICES ASSUME NEW c \in Colors
     PROVE  \/ availableColors'[c] = 1 /\ \A r \in trackedObjects' : r.color # c
            \/ /\ availableColors'[c] = 0
               /\ \E r \in trackedObjects' :
                     r.color = c /\ \A q \in trackedObjects' : q.color = c => q = r
     BY DEF OneWearer, Colors
<1>3. CASE c = donor.color
      <2>1. /\ availableColors[c] = 0
            /\ \A q \in trackedObjects : q.color = c => q = donor
            BY <1>3 DEF OneWearer
      <2>2. availableColors'[c] = 0
            BY <1>2, <2>1
      <2>3. new \in trackedObjects' /\ \A q \in trackedObjects' : q.color = c => q = new
            BY <1>1, <2>1
      <2>. QED  BY <1>0, <1>3, <2>2, <2>3
<1>4. CASE c # donor.color
      <2>1. CASE availableColors[c] = 1 /\ \A r \in trackedObjects : r.color # c
            BY <1>0, <1>1, <1>2, <1>4, <2>1
      <2>2. ASSUME availableColors[c] = 0, NEW w \in trackedObjects, w.color = c,
                   \A q \in trackedObjects : q.color = c => q = w
            PROVE  \/ availableColors'[c] = 1 /\ \A r \in trackedObjects' : r.color # c
                   \/ /\ availableColors'[c] = 0
                      /\ \E r \in trackedObjects' :
                            r.color = c /\ \A q \in trackedObjects' : q.color = c => q = r
            <3>1. CASE w \in removeList
                  <4>1. w \in removeList \ {donor}
                        BY <1>4, <2>2, <3>1
                  <4>2. availableColors'[c] = 1
                        BY <1>2, <2>2, <4>1
                  <4>3. \A r \in trackedObjects' : r.color # c
                        BY <1>0, <1>1, <1>4, <2>2, <3>1
                  <4>. QED  BY <4>2, <4>3
            <3>2. CASE w \notin removeList
                  <4>1. availableColors'[c] = 0
                        BY <1>2, <2>2, <3>2
                  <4>2. /\ w \in trackedObjects'
                        /\ \A q \in trackedObjects' : q.color = c => q = w
                        BY <1>0, <1>1, <1>4, <2>2, <3>2
                  <4>. QED  BY <2>2, <4>1, <4>2
            <3>. QED  BY <3>1, <3>2
      <2>. QED  BY <2>1, <2>2 DEF OneWearer
<1>. QED  BY <1>3, <1>4

\* The new object wears a colour polled from the queue.
LEMMA TakeKeepsWearers ==
    ASSUME TypeOK, OneWearer, NEW id, NEW native, NEW k \in Colors,
           ColorFree(k), take(id, native, k)
    PROVE  OneWearer'
<1> DEFINE new == [trackedObject |-> id, detectionConfidence |-> potentialScore,
                   color |-> k]
<1>0. new.color = k
      OBVIOUS
<1>1. trackedObjects' = trackedObjects \union {new}
      BY DEF take
<1>. HIDE DEF new
<1>2. availableColors[k] = 1 /\ \A r \in trackedObjects : r.color # k
      BY DEF OneWearer, ColorFree
<1>3. /\ availableColors'[k] = 0
      /\ \A c \in Colors \ {k} : availableColors'[c] = availableColors[c]
      BY <1>2 DEF take, TypeOK
<1>. SUFFICES ASSUME NEW c \in Colors
     PROVE  \/ availableColors'[c] = 1 /\ \A r \in trackedObjects' : r.color # c
            \/ /\ availableColors'[c] = 0
               /\ \E r \in trackedObjects' :
                     r.color = c /\ \A q \in trackedObjects' : q.color = c => q = r
     BY DEF OneWearer, Colors
<1>4. CASE c = k
      BY <1>0, <1>1, <1>2, <1>3, <1>4
<1>5. CASE c # k
      BY <1>0, <1>1, <1>3, <1>5 DEF OneWearer
<1>. QED  BY <1>4, <1>5

--------------------------------------------------------------------------------
(* The table of the native tracker.                                        *)

\* Forgetting the objects of some recognitions leaves those of the others.
LEMMA OthersRemain ==
    ASSUME NEW S, S \subseteq trackedObjects,
           \A r, q \in trackedObjects : r.trackedObject = q.trackedObject => r = q
    PROVE  ObjectsOf(trackedObjects \ S) = ObjectsOf(trackedObjects) \ ObjectsOf(S)
BY DEF ObjectsOf

\* After a placement the table again holds exactly the objects on the list.
LEMMA PlacementKeepsRegistry ==
    ASSUME RegistryMatchesList, objectTracker # "none", objectTracker' = objectTracker,
           NEW id \in Ids \ DOMAIN object, NEW S, S \subseteq trackedObjects,
           NEW new, new.trackedObject = id,
           DOMAIN object' = (DOMAIN object \union {id}) \ ObjectsOf(S),
           trackedObjects' = (trackedObjects \ S) \union {new}
    PROVE  RegistryMatchesList'
<1>1. /\ DOMAIN object = ObjectsOf(trackedObjects)
      /\ \A r, q \in trackedObjects : r.trackedObject = q.trackedObject => r = q
      BY DEF RegistryMatchesList
<1>2. ObjectsOf(trackedObjects \ S) = ObjectsOf(trackedObjects) \ ObjectsOf(S)
      BY <1>1, OthersRemain
<1>3. id \notin ObjectsOf(trackedObjects)
      BY <1>1
<1>4. ObjectsOf(S) \subseteq ObjectsOf(trackedObjects)
      BY DEF ObjectsOf
<1>5. ObjectsOf(trackedObjects') = ObjectsOf(trackedObjects \ S) \union {id}
      BY DEF ObjectsOf
<1>6. DOMAIN object' = ObjectsOf(trackedObjects')
      BY <1>1, <1>2, <1>3, <1>4, <1>5
<1>7. \A r \in trackedObjects : r.trackedObject # id
      BY <1>3 DEF ObjectsOf
<1>8. \A r, q \in trackedObjects' : r.trackedObject = q.trackedObject => r = q
      BY <1>1, <1>7
<1>. QED  BY <1>6, <1>8 DEF RegistryMatchesList, ObjectsOf

--------------------------------------------------------------------------------
(* The actions.                                                            *)

\* A nonempty list of detections has a first score and a rest.
LEMMA PendingType ==
    ASSUME TypeOK, pending # <<>>
    PROVE  potentialScore \in Scores /\ Tail(pending) \in Seq(Scores)
BY HeadTailProperties DEF TypeOK, potentialScore

LEMMA ResultsType == Results \subseteq Seq(Scores)
<1>. SUFFICES ASSUME NEW n \in 1 .. MaxResults, NEW s \in [1 .. n -> Scores]
              PROVE  s \in Seq(Scores)
     BY DEF Results
<1>. QED  BY TrackerAssumption, SeqDef

\* A new frame: the native tracker moves every object and the lost ones go.
LEMMA OnFrameStep ==
    ASSUME Inv, onFrame
    PROVE  Inv'
<1>1. CASE objectTracker' = "none"
      BY <1>1 DEF onFrame, Opened, Inv, TypeOK, RegistryMatchesList
<1>2. CASE objectTracker' # "none"
      <2>1. /\ objectTracker # "none" /\ objectTracker' \in {"live", "unset"}
            /\ OneWearer /\ TypeOK /\ RegistryMatchesList
            /\ pending = <<>> /\ pending' = <<>>
            BY <1>2 DEF onFrame, Opened, Inv, TypeOK
      <2>2. PICK native \in [DOMAIN object -> NativeStates] :
              LET lost == {r \in trackedObjects :
                             native[r.trackedObject].corr < MIN_CORRELATION}
              IN  /\ object' = Forget(native, lost)
                  /\ trackedObjects' = trackedObjects \ lost
                  /\ availableColors' = Return(lost)
            BY <1>2 DEF onFrame
      <2> DEFINE lost == {r \in trackedObjects :
                            native[r.trackedObject].corr < MIN_CORRELATION}
      <2>3. /\ object' = Forget(native, lost)
            /\ trackedObjects' = trackedObjects \ lost
            /\ availableColors' = Return(lost)
            /\ lost \subseteq trackedObjects
            BY <2>2
      <2>. HIDE DEF lost
      <2>4. OneWearer'
            BY <2>1, <2>3, RemovalKeepsWearers
      <2>5. /\ DOMAIN object' = DOMAIN object \ ObjectsOf(lost)
            /\ object' \in [DOMAIN object' -> NativeStates]
            BY <2>3 DEF Forget
      <2>6. RegistryMatchesList'
            <3>1. ObjectsOf(trackedObjects \ lost) = ObjectsOf(trackedObjects) \ ObjectsOf(lost)
                  BY <2>1, <2>3, OthersRemain DEF RegistryMatchesList
            <3>. QED  BY <2>1, <2>3, <2>5, <3>1 DEF RegistryMatchesList, ObjectsOf
      <2>7. TypeOK'
            <3>1. availableColors' \in [Colors -> Nat]
                  BY <2>1, <2>3, ReturnCount
            <3>2. pending' \in Seq(Scores)
                  BY <2>1 DEF TypeOK
            <3>3. /\ DOMAIN object' \subseteq Ids
                  /\ trackedObjects' \subseteq Recognitions
                  BY <2>1, <2>3, <2>5 DEF TypeOK
            <3>4. Recognitions' = Recognitions /\ NativeStates' = NativeStates
                  BY DEF Recognitions, NativeStates, Colors
            <3>. QED  BY <2>1, <2>5, <3>1, <3>2, <3>3, <3>4 DEF TypeOK, Colors
      <2>. QED  BY <2>1, <2>4, <2>6, <2>7 DEF Inv
<1>. QED  BY <1>1, <1>2

\* A dismissed detection leaves everything but the rest of the list alone.
LEMMA DismissStep ==
    ASSUME Inv, NEW id \in Ids \ DOMAIN object, NEW native \in NativeStates,
           handleDetection(id, native), dismiss(id, native)
    PROVE  Inv'
<1>1. /\ UNCHANGED <<object, trackedObjects, availableColors, objectTracker>>
      /\ pending # <<>> /\ pending' = Tail(pending)
      BY DEF handleDetection, dismiss, Dismissed
<1>2. pending' \in Seq(Scores)
      BY <1>1, PendingType DEF Inv
<1>. QED  BY <1>1, <1>2
          DEF Inv, TypeOK, OneWearer, RegistryMatchesList, ObjectsOf, Colors,
              Recognitions, NativeStates

\* A detection that replaces removeList and takes a colour over from donor.
LEMMA ReplaceStep ==
    ASSUME Inv, NEW id \in Ids \ DOMAIN object, NEW native \in NativeStates,
           handleDetection(id, native),
           NEW removeList, removeList \subseteq trackedObjects,
           NEW donor \in removeList, replace(id, native, removeList, donor)
    PROVE  Inv'
<1> DEFINE new == [trackedObject |-> id, detectionConfidence |-> potentialScore,
                   color |-> donor.color]
<1>1. /\ objectTracker' = objectTracker /\ objectTracker = "live"
      /\ pending # <<>> /\ pending' = Tail(pending)
      /\ TypeOK /\ OneWearer /\ RegistryMatchesList
      BY DEF handleDetection, Inv
<1>2. /\ object' = Forget(Registered(id, native), removeList)
      /\ trackedObjects' = (trackedObjects \ removeList) \union {new}
      /\ availableColors' = Return(removeList \ {donor})
      BY DEF replace, Returned
<1>3. OneWearer'
      BY <1>1, ReplaceKeepsWearers
<1>4. /\ DOMAIN object' = (DOMAIN object \union {id}) \ ObjectsOf(removeList)
      /\ object' \in [DOMAIN object' -> NativeStates]
      BY <1>1, <1>2 DEF Forget, Registered, TypeOK
<1>5. new.trackedObject = id
      OBVIOUS
<1>6. new \in Recognitions
      <2>1. potentialScore \in Scores
            BY <1>1, PendingType
      <2>2. donor.color \in Colors
            BY <1>1 DEF TypeOK, Recognitions
      <2>. QED  BY <2>1, <2>2 DEF Recognitions
<1>. HIDE DEF new
<1>7. RegistryMatchesList'
      BY <1>1, <1>2, <1>4, <1>5, PlacementKeepsRegistry
<1>8. TypeOK'
      <2>1. availableColors' \in [Colors -> Nat]
            BY <1>1, <1>2, ReturnCount
      <2>2. pending' \in Seq(Scores)
            BY <1>1, PendingType
      <2>3. DOMAIN object' \subseteq Ids /\ trackedObjects' \subseteq Recognitions
            BY <1>1, <1>2, <1>4, <1>6 DEF TypeOK
      <2>4. Recognitions' = Recognitions /\ NativeStates' = NativeStates
            BY DEF Recognitions, NativeStates, Colors
      <2>. QED  BY <1>1, <1>4, <2>1, <2>2, <2>3, <2>4 DEF TypeOK, Colors
<1>. QED  BY <1>1, <1>3, <1>7, <1>8 DEF Inv

\* A detection that takes a free colour.
LEMMA TakeStep ==
    ASSUME Inv, NEW id \in Ids \ DOMAIN object, NEW native \in NativeStates,
           handleDetection(id, native),
           NEW k \in Colors, ColorFree(k), take(id, native, k)
    PROVE  Inv'
<1> DEFINE new == [trackedObject |-> id, detectionConfidence |-> potentialScore,
                   color |-> k]
<1>1. /\ objectTracker' = objectTracker /\ objectTracker = "live"
      /\ pending # <<>> /\ pending' = Tail(pending)
      /\ TypeOK /\ OneWearer /\ RegistryMatchesList
      BY DEF handleDetection, Inv
<1>2. /\ object' = Registered(id, native)
      /\ trackedObjects' = (trackedObjects \ {}) \union {new}
      /\ availableColors' = [availableColors EXCEPT ![k] = @ - 1]
      BY DEF take
<1>3. OneWearer'
      BY <1>1, TakeKeepsWearers
<1>4. /\ DOMAIN object' = (DOMAIN object \union {id}) \ ObjectsOf({})
      /\ object' \in [DOMAIN object' -> NativeStates]
      BY <1>1, <1>2 DEF Registered, ObjectsOf, TypeOK
<1>5. new.trackedObject = id
      OBVIOUS
<1>6. new \in Recognitions
      <2>1. potentialScore \in Scores
            BY <1>1, PendingType
      <2>. QED  BY <2>1 DEF Recognitions
<1>. HIDE DEF new
<1>7. RegistryMatchesList'
      BY <1>1, <1>2, <1>4, <1>5, PlacementKeepsRegistry
<1>8. TypeOK'
      <2>1. availableColors' \in [Colors -> Nat]
            BY <1>1, <1>2 DEF TypeOK, ColorFree
      <2>2. pending' \in Seq(Scores)
            BY <1>1, PendingType
      <2>3. DOMAIN object' \subseteq Ids /\ trackedObjects' \subseteq Recognitions
            BY <1>1, <1>2, <1>4, <1>6 DEF TypeOK
      <2>4. Recognitions' = Recognitions /\ NativeStates' = NativeStates
            BY DEF Recognitions, NativeStates, Colors
      <2>. QED  BY <1>1, <1>4, <2>1, <2>2, <2>3, <2>4 DEF TypeOK, Colors
<1>. QED  BY <1>1, <1>3, <1>7, <1>8 DEF Inv

\* How a detection ends: dismissed, replacing, or with a free colour.
LEMMA DetectionOutcome ==
    ASSUME NEW id, NEW native, handleDetection(id, native)
    PROVE  \/ dismiss(id, native)
           \/ \E donor \in Clashing(native) :
                 ~Blocked(native) /\ replace(id, native, Clashing(native), donor)
           \/ /\ Clashing(native) = {}
              /\ \E donor \in WorstTracked : replace(id, native, {donor}, donor)
           \/ /\ Clashing(native) = {}
              /\ \E c \in Colors : ColorFree(c) /\ take(id, native, c)
BY DEF handleDetection, MostOverlapping

LEMMA InvStep == Inv /\ [Next]_vars => Inv'
<1>. SUFFICES ASSUME Inv, [Next]_vars
              PROVE  Inv'
     OBVIOUS
<1>1. CASE onFrame
      BY <1>1, OnFrameStep
<1>2. CASE trackResults
      <2>1. pending' \in Seq(Scores)
            BY <1>2, ResultsType DEF trackResults
      <2>. QED  BY <1>2, <2>1
                DEF trackResults, Inv, TypeOK, OneWearer, RegistryMatchesList, ObjectsOf,
                    Colors, Recognitions, NativeStates
<1>3. CASE trackResultsUntracked
      <2>1. PICK rects \in Results :
              trackedObjects' =
                {[trackedObject |-> NullObject, detectionConfidence |-> rects[i],
                  color |-> i] : i \in DOMAIN rects \intersect Colors}
            BY <1>3 DEF trackResultsUntracked
      <2>2. \A i \in DOMAIN rects : rects[i] \in Scores
            BY DEF Results
      <2>3. trackedObjects' \subseteq Recognitions
            BY <2>1, <2>2 DEF Recognitions
      <2>4. /\ UNCHANGED <<objectTracker, object, availableColors, pending>>
            /\ pending = <<>> /\ objectTracker = "none"
            BY <1>3 DEF trackResultsUntracked
      <2>5. TypeOK'
            BY <2>3, <2>4 DEF Inv, TypeOK, Recognitions, NativeStates, Colors
      <2>. QED  BY <2>4, <2>5 DEF Inv, RegistryMatchesList
<1>4. ASSUME NEW id \in Ids \ DOMAIN object, NEW native \in NativeStates,
             handleDetection(id, native)
      PROVE  Inv'
      <2>1. CASE dismiss(id, native)
            BY <1>4, <2>1, DismissStep
      <2>2. ASSUME NEW donor \in Clashing(native),
                   replace(id, native, Clashing(native), donor)
            PROVE  Inv'
            <3>1. Clashing(native) \subseteq trackedObjects
                  BY DEF Clashing
            <3>. QED  BY <1>4, <2>2, <3>1, ReplaceStep
      <2>3. ASSUME NEW donor \in WorstTracked, replace(id, native, {donor}, donor)
            PROVE  Inv'
            <3>1. {donor} \subseteq trackedObjects /\ donor \in {donor}
                  BY DEF WorstTracked
            <3>. QED  BY <1>4, <2>3, <3>1, ReplaceStep
      <2>4. ASSUME NEW c \in Colors, ColorFree(c), take(id, native, c)
            PROVE  Inv'
            BY <1>4, <2>4, TakeStep
      <2>. QED  BY <1>4, <2>1, <2>2, <2>3, <2>4, DetectionOutcome
<1>5. CASE UNCHANGED vars
      BY <1>5 DEF vars, Inv, TypeOK, OneWearer, RegistryMatchesList, ObjectsOf, Colors,
                  Recognitions, NativeStates
<1>. QED  BY <1>1, <1>2, <1>3, <1>4, <1>5 DEF Next

LEMMA InvInit == Init => Inv
<1>. SUFFICES ASSUME Init PROVE Inv
     OBVIOUS
<1>1. DOMAIN object = {} /\ object \in [{} -> NativeStates]
      BY DEF Init
<1>2. ObjectsOf({}) = {}
      BY DEF ObjectsOf
<1>3. pending \in Seq(Scores)
      BY EmptySeq DEF Init
<1>4. availableColors \in [Colors -> Nat] /\ OneWearer
      BY DEF Init, OneWearer
<1>. QED  BY <1>1, <1>2, <1>3, <1>4 DEF Init, Inv, TypeOK, RegistryMatchesList

LEMMA InvHolds == Spec => []Inv
BY InvInit, InvStep, PTL DEF Spec

\* The tracker is type correct.
THEOREM TrackerTypeCorrect == Spec => []TypeOK
<1>1. Inv => TypeOK
      BY DEF Inv
<1>. QED  BY <1>1, InvHolds, PTL

\* While the native tracker is used, each colour is free or worn once, for
\* every number of colours.
THEOREM ColorsAreConserved == Spec => []ColorsConserved
<1>1. Inv => ColorsConserved
      <2>. SUFFICES ASSUME Inv, objectTracker # "none", NEW c \in Colors
                    PROVE  availableColors[c]
                           + Cardinality({r \in trackedObjects : r.color = c}) = 1
           BY DEF ColorsConserved
      <2>1. OneWearer
            BY DEF Inv
      <2>2. \A r, q \in trackedObjects : r.color = c /\ q.color = c => q = r
            BY <2>1 DEF OneWearer
      <2>3. Cardinality({r \in trackedObjects : r.color = c})
              = IF \E r \in trackedObjects : r.color = c THEN 1 ELSE 0
            BY <2>2, WearersCount
      <2>4. availableColors[c] = IF \E r \in trackedObjects : r.color = c THEN 0 ELSE 1
            BY <2>1 DEF OneWearer
      <2>. QED  BY <2>3, <2>4
<1>. QED  BY <1>1, InvHolds, PTL

\* The native tracker follows exactly the objects on the list.
THEOREM RegistryIsExact == Spec => []RegistryMatchesList
<1>1. Inv => RegistryMatchesList
      BY DEF Inv
<1>. QED  BY <1>1, InvHolds, PTL

\* No detection drives out an object with a better score that is still
\* tracked well.
THEOREM StrongTracksStay == Spec => StrongTrackSurvives
<1>1. ASSUME Inv, [Next]_vars, pending # <<>>, NEW r \in trackedObjects,
             r.detectionConfidence > potentialScore,
             object[r.trackedObject].corr > MARGINAL_CORRELATION
      PROVE  r \in trackedObjects'
      <2>1. /\ potentialScore \in Nat /\ r.detectionConfidence \in Nat
            <3>1. potentialScore \in Scores
                  BY <1>1, PendingType DEF Inv
            <3>2. r.detectionConfidence \in Scores
                  BY <1>1 DEF Inv, TypeOK, Recognitions
            <3>. QED  BY <3>1, <3>2, TrackerAssumption
      <2>2. CASE UNCHANGED vars
            BY <1>1, <2>2 DEF vars
      <2>3. ASSUME NEW id \in Ids \ DOMAIN object, NEW native \in NativeStates,
                   handleDetection(id, native)
            PROVE  r \in trackedObjects'
            <3>1. CASE dismiss(id, native)
                  BY <3>1 DEF dismiss
            <3>2. ASSUME NEW donor \in Clashing(native), ~Blocked(native),
                         replace(id, native, Clashing(native), donor)
                  PROVE  r \in trackedObjects'
                  <4>1. r \notin Clashing(native)
                        BY <1>1, <2>1, <3>2 DEF Blocked
                  <4>. QED  BY <3>2, <4>1 DEF replace
            <3>3. ASSUME NEW donor \in WorstTracked, replace(id, native, {donor}, donor)
                  PROVE  r \in trackedObjects'
                  <4>1. r # donor
                        BY <1>1, <2>1 DEF WorstTracked
                  <4>. QED  BY <3>3, <4>1 DEF replace
            <3>4. ASSUME NEW c \in Colors, take(id, native, c)
                  PROVE  r \in trackedObjects'
                  BY <3>4 DEF take
            <3>. QED  BY <2>3, <3>1, <3>2, <3>3, <3>4, DetectionOutcome
      <2>. QED  BY <1>1, <2>2, <2>3
                DEF Next, onFrame, trackResults, trackResultsUntracked
<1>2. Inv /\ [Next]_vars =>
         [pending # <<>> =>
            \A r \in trackedObjects :
               (/\ r.detectionConfidence > potentialScore
                /\ object[r.trackedObject].corr > MARGINAL_CORRELATION)
               => r \in trackedObjects']_vars
      BY <1>1
<1>. QED  BY <1>2, InvHolds, PTL DEF Spec, StrongTrackSurvives

\* The placement of a new object among boxes none of which it overlaps too
\* much, once those of S are gone.
LEMMA PlacementIsClear ==
    ASSUME Inv, objectTracker = "live", NEW id \in Ids \ DOMAIN object,
           NEW native \in NativeStates, NEW S, S \subseteq trackedObjects,
           Clashing(native) \subseteq S, NEW new, new.trackedObject = id,
           object' = Forget(Registered(id, native), S),
           trackedObjects' = (trackedObjects \ S) \union {new},
           NEW r \in trackedObjects' \ trackedObjects, NEW q \in trackedObjects' \ {r}
    PROVE  Overlap[<<object'[q.trackedObject].pos, object'[r.trackedObject].pos>>] <= MAX_OVERLAP
<1>1. r = new /\ q \in trackedObjects \ S /\ q \notin Clashing(native)
      OBVIOUS
<1>2. /\ DOMAIN object = ObjectsOf(trackedObjects)
      /\ \A a, b \in trackedObjects : a.trackedObject = b.trackedObject => a = b
      BY DEF Inv, RegistryMatchesList
<1>3. q.trackedObject \in DOMAIN object /\ q.trackedObject # id
      BY <1>1, <1>2 DEF ObjectsOf
<1>4. q.trackedObject \notin ObjectsOf(S) /\ id \notin ObjectsOf(S)
      BY <1>1, <1>2 DEF ObjectsOf
<1>5. object'[q.trackedObject] = object[q.trackedObject]
      BY <1>3, <1>4 DEF Forget, Registered
<1>6. object'[id] = native
      BY <1>4 DEF Forget, Registered
<1>7. ~(Overlap[<<object[q.trackedObject].pos, native.pos>>] > MAX_OVERLAP)
      BY <1>1 DEF Clashing
<1>8. Overlap[<<object[q.trackedObject].pos, native.pos>>] \in Nat
      <2>1. object[q.trackedObject] \in NativeStates
            BY <1>3 DEF Inv, TypeOK
      <2>2. object[q.trackedObject].pos \in Positions /\ native.pos \in Positions
            BY <2>1 DEF NativeStates
      <2>. QED  BY <2>2, TrackerAssumption
<1>9. Overlap[<<object[q.trackedObject].pos, native.pos>>] <= MAX_OVERLAP
      BY <1>7, <1>8, TrackerAssumption
<1>. QED  BY <1>1, <1>5, <1>6, <1>9

\* A box that begins to be tracked is clear of every box that stays.
THEOREM PlacementsAreClear == Spec => PlacedClear
<1>1. ASSUME Inv, [Next]_vars, objectTracker = "live",
             NEW r \in trackedObjects' \ trackedObjects, NEW q \in trackedObjects' \ {r}
      PROVE  Overlap[<<object'[q.trackedObject].pos, object'[r.trackedObject].pos>>] <= MAX_OVERLAP
      <2>1. PICK id \in Ids \ DOMAIN object, native \in NativeStates :
               handleDetection(id, native)
            <3>1. ~onFrame
                  BY <1>1 DEF onFrame, Opened
            <3>2. ~trackResults /\ ~trackResultsUntracked /\ ~UNCHANGED vars
                  BY <1>1 DEF trackResults, trackResultsUntracked, vars
            <3>. QED  BY <1>1, <3>1, <3>2 DEF Next
      <2>2. CASE dismiss(id, native)
            BY <1>1, <2>2 DEF dismiss
      <2>3. ASSUME NEW donor \in Clashing(native),
                   replace(id, native, Clashing(native), donor)
            PROVE  Overlap[<<object'[q.trackedObject].pos, object'[r.trackedObject].pos>>] <= MAX_OVERLAP
            <3>1. Clashing(native) \subseteq trackedObjects
                  BY DEF Clashing
            <3>. QED  BY <1>1, <2>3, <3>1, PlacementIsClear DEF replace
      <2>4. ASSUME Clashing(native) = {}, NEW donor \in WorstTracked,
                   replace(id, native, {donor}, donor)
            PROVE  Overlap[<<object'[q.trackedObject].pos, object'[r.trackedObject].pos>>] <= MAX_OVERLAP
            <3>1. {donor} \subseteq trackedObjects
                  BY DEF WorstTracked
            <3>. QED  BY <1>1, <2>4, <3>1, PlacementIsClear, SMTT(30) DEF replace
      <2>5. ASSUME Clashing(native) = {}, NEW c \in Colors, take(id, native, c)
            PROVE  Overlap[<<object'[q.trackedObject].pos, object'[r.trackedObject].pos>>] <= MAX_OVERLAP
            <3> DEFINE new == [trackedObject |-> id, detectionConfidence |-> potentialScore,
                               color |-> c]
            <3>1. object' = Forget(Registered(id, native), {})
                  BY <2>5 DEF take, Forget, Registered, ObjectsOf
            <3>2. trackedObjects' = (trackedObjects \ {}) \union {new}
                  BY <2>5 DEF take
            <3>3. new.trackedObject = id
                  OBVIOUS
            <3>. HIDE DEF new
            <3>. QED  BY <1>1, <2>5, <3>1, <3>2, <3>3, PlacementIsClear
      <2>. QED  BY <2>1, <2>2, <2>3, <2>4, <2>5, DetectionOutcome
<1>2. Inv /\ [Next]_vars =>
         [objectTracker = "live" =>
            \A r \in trackedObjects' \ trackedObjects : \A q \in trackedObjects' \ {r} :
               Overlap[<<object'[q.trackedObject].pos, object'[r.trackedObject].pos>>]
                   <= MAX_OVERLAP]_vars
      BY <1>1
<1>. QED  BY <1>2, InvHolds, PTL DEF Spec, PlacedClear
================================================================================
