-------------------------- MODULE ObjectTrackerProofs --------------------------
(***************************************************************************)
(* TLAPS proofs about ObjectTracker, for a queue of any length, any number *)
(* of objects, any motion of the scene and any gaps between the frames.    *)
(* The inductive invariant has these parts:                                *)
(*   TypeOK                                                                *)
(*   Clock     the times of the two sides            -> NoCheckFails       *)
(*   Pictures  what the two images and the flow's pointers hold            *)
(*   Pairs     the queue is a chain of frame pairs   -> TrackBoxIsExact    *)
(*   Objects   Java's objects are the native ones    -> StaysAnchored,     *)
(*                                             ComparesTheRightPlaces      *)
(*   History   the history line follows the queue    -> JavaSeesNative     *)
(* What TrackBox adds up is found by induction on the number of pairs: the *)
(* induction is over a set, because a least counterexample is what the     *)
(* library's theorem on well-founded relations gives.                      *)
(***************************************************************************)
EXTENDS ObjectTracker, SequenceTheorems, WellFoundedInduction, TLAPS

PairType == [start_time_ : Int, end_time_ : Int, moved : Int]
QueueType == [frame_pairs_ : [Indices -> PairType],
              first_frame_index_ : Indices, curr_num_frame_pairs_ : 0 .. kNumFrames]

\* The i-th pair from the end of the queue.
P(i) == NthPairFromEnd(queue, i)
N == queue.curr_num_frame_pairs_

\* The tracker's time is the last frame's, and never ahead of the activity's.
Clock ==
    /\ lastTimestamp = curr_time_ /\ curr_time_ <= timestamp
    /\ 0 \in DOMAIN scene /\ curr_time_ \in DOMAIN scene
    /\ \A s \in DOMAIN scene : s <= curr_time_
    /\ num_frames_ = 0 <=> curr_time_ = 0

\* frame2_ is the last frame.  What was computed of an image was computed of
\* the picture it holds.  After the first frame OpticalFlow has the same images.
Pictures ==
    /\ frame1_ # frame2_
    /\ image[frame2_].data = curr_time_
    /\ \A b \in Buffers : image[b].computed => image[b].derived = image[b].data
    /\ IF num_frames_ = 0 THEN flow.frame1_ = NULL
       ELSE flow.frame1_ # NULL /\ flow.frame2_ = frame2_

\* The pairs follow each other up to the current time, without a frame in
\* between, and each of them but the very first has the motion of the scene.
Pairs ==
    /\ N = IF num_frames_ < kNumFrames THEN num_frames_ ELSE kNumFrames
    /\ N > 0 => P(0).end_time_ = curr_time_
    /\ \A i \in 0 .. N - 1 :
         /\ P(i).start_time_ \in DOMAIN scene /\ P(i).end_time_ \in DOMAIN scene
         /\ P(i).start_time_ < P(i).end_time_
         /\ i > 0 => P(i).end_time_ = P(i - 1).start_time_
         /\ always_track /\ P(i).start_time_ # 0 =>
              P(i).moved = scene[P(i).end_time_] - scene[P(i).start_time_]
    /\ \A i, j \in 0 .. N - 1 : i < j => P(j).end_time_ < P(i).end_time_
    /\ \A s \in DOMAIN scene \ {0} :
         N > 0 /\ P(N - 1).end_time_ <= s => \E i \in 0 .. N - 1 : P(i).end_time_ = s

\* The two sides have the same objects, which only a frame can bring.
Objects ==
    /\ trackedObjects = DOMAIN objects_
    /\ trackedObjects = {id \in Ids : checkValidObject(id)}
    /\ \A id \in trackedObjects :
         /\ handle[id].lastTrackedPosition = objects_[id].last_known_position_
         /\ objects_[id].last_detection_thumbnail_ = handle[id].place
         /\ objects_[id].last_frame_thumbnail_ =
              objects_[id].last_known_position_ - scene[curr_time_]
         /\ always_track /\ handle[id].reached =>
              objects_[id].last_known_position_ - scene[curr_time_] = handle[id].place
    /\ trackedObjects # {} => num_frames_ > 0

\* The j-th point from the end of the history line belongs to the j-th pair
\* from the end of the queue.
History ==
    /\ Len(debugHistory) <= IF num_frames_ = 0 THEN 0 ELSE num_frames_ - 1
    /\ \A j \in 0 .. Len(debugHistory) - 1 :
         j < kNumFrames =>
            debugHistory[Len(debugHistory) - j] =
               upscaleRect(scene[P(j).end_time_] - scene[P(j).start_time_])

--------------------------------------------------------------------------------
(* Induction.                                                              *)

\* A non-empty set of natural numbers has a least element.
LEMMA Least ==
    ASSUME NEW S \in SUBSET Nat, S # {}
    PROVE  \E n \in S : \A m \in S : n <= m
<1>1. PICK n \in S : \A m \in S : <<m, n>> \notin OpToRel(<, Nat)
      BY NatLessThanWellFounded, WFMin, Zenon
<1>2. \A m \in S : ~(m < n)
      BY <1>1 DEF OpToRel
<1>. QED  BY <1>2

\* A set of natural numbers with 0 and every successor is all of them.
LEMMA SetInduction ==
    ASSUME NEW S \in SUBSET Nat, 0 \in S, \A n \in S : n + 1 \in S
    PROVE  S = Nat
<1>. SUFFICES ASSUME Nat \ S # {}
              PROVE  FALSE
     OBVIOUS
<1>1. PICK n \in Nat \ S : \A m \in Nat \ S : n <= m
      BY Least
<1>2. n # 0 /\ n - 1 \in Nat /\ n - 1 \in S
      BY <1>1
<1>. QED  BY <1>2

--------------------------------------------------------------------------------
(* The queue.                                                              *)

\* The remainder of a number that is less than twice the divisor.
LEMMA ModOnce ==
    ASSUME NEW k \in Nat \ {0}, NEW a \in 0 .. 2 * k - 1
    PROVE  a % k = IF a < k THEN a ELSE a - k
OBVIOUS

\* Where the i-th pair from the end is.
Place(q, i) ==
    LET a == q.first_frame_index_ + q.curr_num_frame_pairs_ - 1 - i
    IN  IF a < kNumFrames THEN a ELSE a - kNumFrames

\* GetNthIndexFromEnd finds that place, and it is inside the array.
LEMMA IndexFacts ==
    ASSUME NEW q \in QueueType, NEW i \in 0 .. q.curr_num_frame_pairs_ - 1
    PROVE  GetNthIndexFromEnd(q, i) = Place(q, i) /\ Place(q, i) \in Indices
<1>1. q.first_frame_index_ \in 0 .. kNumFrames - 1 /\ q.curr_num_frame_pairs_ \in 0 .. kNumFrames
      BY DEF QueueType, Indices
<1>2. kNumFrames \in Nat \ {0}
      BY ObjectTrackerAssumption
<1>. DEFINE a == q.first_frame_index_ + q.curr_num_frame_pairs_ - 1 - i
<1>3. a \in 0 .. 2 * kNumFrames - 1
      BY <1>1, <1>2
<1>4. GetNthIndexFromEnd(q, i) = a % kNumFrames
      <2>1. q.first_frame_index_ + (q.curr_num_frame_pairs_ - 1 - i) = a
            BY <1>1, <1>2
      <2>. QED  BY <2>1 DEF GetNthIndexFromEnd, GetNthIndexFromStart
<1>5. a % kNumFrames = IF a < kNumFrames THEN a ELSE a - kNumFrames
      BY <1>2, <1>3, ModOnce
<1>. QED  BY <1>2, <1>3, <1>4, <1>5 DEF Place, Indices

\* A new frame pair becomes the newest one and all others, but the oldest of
\* a full queue, are one further from the end.
LEMMA PushFacts ==
    ASSUME NEW q \in QueueType, NEW pair \in PairType,
           NEW r, r = SetNewest(IncrementFrameIndex(q), pair)
    PROVE  /\ r \in QueueType
           /\ r.curr_num_frame_pairs_ = IF q.curr_num_frame_pairs_ < kNumFrames
                                          THEN q.curr_num_frame_pairs_ + 1 ELSE kNumFrames
           /\ NthPairFromEnd(r, 0) = pair
           /\ \A i \in 1 .. r.curr_num_frame_pairs_ - 1 :
                NthPairFromEnd(r, i) = NthPairFromEnd(q, i - 1)
<1>. DEFINE inc == IncrementFrameIndex(q)
            k == q.curr_num_frame_pairs_
<1>0. /\ q.first_frame_index_ \in 0 .. kNumFrames - 1 /\ k \in 0 .. kNumFrames
      /\ q.frame_pairs_ \in [Indices -> PairType]
      /\ kNumFrames \in Nat /\ kNumFrames >= 2
      BY ObjectTrackerAssumption DEF QueueType, Indices
<1>1. /\ inc \in QueueType /\ inc.frame_pairs_ = q.frame_pairs_
      /\ inc.curr_num_frame_pairs_ = IF k < kNumFrames THEN k + 1 ELSE kNumFrames
      /\ inc.first_frame_index_ = IF k < kNumFrames THEN q.first_frame_index_
                                  ELSE IF q.first_frame_index_ + 1 < kNumFrames
                                    THEN q.first_frame_index_ + 1 ELSE 0
      <2>1. CASE k < kNumFrames
            <3>1. inc = [q EXCEPT !.curr_num_frame_pairs_ = k + 1]
                  BY <1>0, <2>1 DEF IncrementFrameIndex
            <3>. QED  BY <1>0, <2>1, <3>1 DEF QueueType
      <2>2. CASE k = kNumFrames
            <3>1. inc = [q EXCEPT !.first_frame_index_ = GetNthIndexFromStart(q, 1)]
                  BY <1>0, <2>2 DEF IncrementFrameIndex
            <3>2. q.first_frame_index_ + 1 \in 0 .. 2 * kNumFrames - 1 /\ kNumFrames \in Nat \ {0}
                  BY <1>0
            <3>3. GetNthIndexFromStart(q, 1) =
                     IF q.first_frame_index_ + 1 < kNumFrames THEN q.first_frame_index_ + 1 ELSE 0
                  BY <1>0, <3>2, ModOnce, SMTT(30) DEF GetNthIndexFromStart
            <3>4. GetNthIndexFromStart(q, 1) \in Indices
                  BY <1>0, <3>3 DEF Indices
            <3>. QED  BY <1>0, <2>2, <3>1, <3>3, <3>4 DEF QueueType
      <2>. QED  BY <1>0, <2>1, <2>2
<1>. HIDE DEF inc
<1>2. /\ r = [inc EXCEPT !.frame_pairs_[Place(inc, 0)] = pair]
      /\ Place(inc, 0) \in Indices
      <2>1. 0 \in 0 .. inc.curr_num_frame_pairs_ - 1
            BY <1>0, <1>1
      <2>. QED  BY <1>1, <2>1, IndexFacts DEF SetNewest, inc
<1>3. /\ r \in QueueType /\ r.curr_num_frame_pairs_ = inc.curr_num_frame_pairs_
      /\ r.first_frame_index_ = inc.first_frame_index_
      /\ r.frame_pairs_ = [q.frame_pairs_ EXCEPT ![Place(inc, 0)] = pair]
      BY <1>0, <1>1, <1>2 DEF QueueType
<1>4. \A i \in 0 .. r.curr_num_frame_pairs_ - 1 : Place(r, i) = Place(inc, i)
      BY <1>3 DEF Place
<1>5. NthPairFromEnd(r, 0) = pair
      <2>1. 0 \in 0 .. r.curr_num_frame_pairs_ - 1
            BY <1>0, <1>1, <1>3
      <2>. QED  BY <1>0, <1>2, <1>3, <1>4, <2>1, IndexFacts DEF NthPairFromEnd
<1>6. ASSUME NEW i \in 1 .. r.curr_num_frame_pairs_ - 1
      PROVE  NthPairFromEnd(r, i) = NthPairFromEnd(q, i - 1)
      <2>1. i \in 0 .. r.curr_num_frame_pairs_ - 1 /\ i - 1 \in 0 .. q.curr_num_frame_pairs_ - 1
            BY <1>0, <1>1, <1>3
      <2>2. Place(r, i) = Place(q, i - 1) /\ Place(r, i) # Place(inc, 0)
            BY <1>0, <1>1, <1>3, <1>6, <2>1 DEF Place
      <2>3. GetNthIndexFromEnd(r, i) = Place(r, i) /\ Place(r, i) \in Indices
            BY <1>3, <2>1, IndexFacts
      <2>4. GetNthIndexFromEnd(q, i - 1) = Place(q, i - 1)
            BY <2>1, IndexFacts
      <2>. QED  BY <1>0, <1>3, <2>2, <2>3, <2>4 DEF NthPairFromEnd
<1>. QED  BY <1>1, <1>3, <1>5, <1>6

\* Ending a pair writes it where it was begun.
LEMMA SetNewestTwice ==
    ASSUME NEW q \in QueueType, NEW pair1 \in PairType, NEW pair2 \in PairType
    PROVE  LET inc == IncrementFrameIndex(q)
           IN  SetNewest(SetNewest(inc, pair1), pair2) = SetNewest(inc, pair2)
<1>. DEFINE inc == IncrementFrameIndex(q)
            i == GetNthIndexFromEnd(inc, 0)
            one == SetNewest(inc, pair1)
<1>1. one = [inc EXCEPT !.frame_pairs_[i] = pair1]
      BY DEF SetNewest
<1>2. inc = [inc EXCEPT !.frame_pairs_ = inc.frame_pairs_] /\ DOMAIN inc.frame_pairs_ = Indices
      BY DEF QueueType, IncrementFrameIndex
<1>3. one.first_frame_index_ = inc.first_frame_index_
      /\ one.curr_num_frame_pairs_ = inc.curr_num_frame_pairs_
      BY <1>1 DEF QueueType, IncrementFrameIndex
<1>4. GetNthIndexFromEnd(one, 0) = i
      BY <1>3 DEF GetNthIndexFromEnd, GetNthIndexFromStart
<1>5. SetNewest(one, pair2) = [one EXCEPT !.frame_pairs_[i] = pair2]
      BY <1>4 DEF SetNewest
<1>6. [one EXCEPT !.frame_pairs_[i] = pair2] = [inc EXCEPT !.frame_pairs_[i] = pair2]
      BY <1>1, <1>2 DEF QueueType, IncrementFrameIndex
<1>. QED  BY <1>5, <1>6 DEF SetNewest

--------------------------------------------------------------------------------
(* TrackBox.                                                               *)

\* What the pairs up to the i-th from the end have moved, as TrackBox adds it up.
Shift(q) ==
    CHOOSE f : f = [i \in -1 .. kNumFrames - 1 |->
                      IF i = -1 THEN 0 ELSE NthPairFromEnd(q, i).moved + f[i - 1]]

LEMMA TrackBoxShift ==
    ASSUME NEW q, NEW region, NEW t
    PROVE  TrackBox(q, region, t) = region + Shift(q)[num_frames_back(q, t)]
BY DEF TrackBox, Shift

\* f adds up the first n pairs.
AddsUp(q, n, f) ==
    f = [i \in -1 .. n - 1 |-> IF i = -1 THEN 0 ELSE NthPairFromEnd(q, i).moved + f[i - 1]]

\* The sum exists for every number of pairs.
LEMMA SumExists ==
    ASSUME NEW q
    PROVE  \A n \in Nat : \E f : AddsUp(q, n, f)
<1>. DEFINE S == {n \in Nat : \E f : AddsUp(q, n, f)}
<1>1. 0 \in S
      <2>1. AddsUp(q, 0, [i \in -1 .. -1 |-> 0])
            BY DEF AddsUp
      <2>. QED  BY <2>1
<1>2. ASSUME NEW n \in S
      PROVE  n + 1 \in S
      <2>1. PICK f : AddsUp(q, n, f)
            OBVIOUS
      <2>. DEFINE m(i) == NthPairFromEnd(q, i).moved
                  g == [i \in -1 .. n |-> IF i = n THEN m(i) + f[i - 1] ELSE f[i]]
      <2>2. n \in Nat
            OBVIOUS
      <2>3. \A i \in -1 .. n - 1 : f[i] = IF i = -1 THEN 0 ELSE m(i) + f[i - 1]
            BY <2>1 DEF AddsUp
      <2>. HIDE DEF m
      <2>4. \A i \in -1 .. n - 1 : g[i] = f[i]
            BY <2>2
      <2>5. g[n] = m(n) + g[n - 1]
            BY <2>2, <2>4
      <2>6. \A i \in -1 .. n : g[i] = IF i = -1 THEN 0 ELSE m(i) + g[i - 1]
            BY <2>2, <2>3, <2>4, <2>5
      <2>7. AddsUp(q, n + 1, g)
            <3>1. (n + 1) - 1 = n
                  BY <2>2
            <3>. QED  BY <2>6, <3>1 DEF AddsUp, m
      <2>. HIDE DEF g
      <2>. QED  BY <2>2, <2>7
<1>. HIDE DEF S
<1>3. S \in SUBSET Nat
      BY DEF S
<1>4. S = Nat
      BY <1>1, <1>2, <1>3, SetInduction
<1>. QED  BY <1>4 DEF S

\* So Shift satisfies its recursion.
LEMMA ShiftDef ==
    ASSUME NEW q
    PROVE  \A i \in -1 .. kNumFrames - 1 :
             Shift(q)[i] = IF i = -1 THEN 0 ELSE NthPairFromEnd(q, i).moved + Shift(q)[i - 1]
<1>1. \E f : AddsUp(q, kNumFrames, f)
      BY SumExists, ObjectTrackerAssumption
<1>2. AddsUp(q, kNumFrames, Shift(q))
      BY <1>1 DEF Shift, AddsUp
<1>. HIDE DEF Shift
<1>. QED  BY <1>2 DEF AddsUp

\* A pair of the queue is a pair.
LEMMA NthType ==
    ASSUME NEW q \in QueueType, NEW i \in 0 .. q.curr_num_frame_pairs_ - 1
    PROVE  NthPairFromEnd(q, i) \in PairType
<1>1. GetNthIndexFromEnd(q, i) \in Indices
      BY IndexFacts
<1>. QED  BY <1>1 DEF NthPairFromEnd, QueueType

\* Something that holds with no pair, and from each pair to the next, holds as
\* far as the queue goes.
LEMMA ShiftInduction ==
    ASSUME NEW n \in Nat, NEW S, 0 \in S,
           \A i \in 0 .. n - 1 : i \in S => i + 1 \in S
    PROVE  \A i \in 0 .. n : i \in S
<1>. DEFINE A == {i \in Nat : i <= n => i \in S}
<1>1. 0 \in A
      OBVIOUS
<1>2. ASSUME NEW i \in A
      PROVE  i + 1 \in A
      BY <1>2
<1>3. A \in SUBSET Nat
      OBVIOUS
<1>. HIDE DEF A
<1>4. A = Nat
      BY <1>1, <1>2, <1>3, SetInduction
<1>. QED  BY <1>4 DEF A

\* The shift is a number.
LEMMA ShiftType ==
    ASSUME NEW q \in QueueType
    PROVE  \A i \in -1 .. q.curr_num_frame_pairs_ - 1 : Shift(q)[i] \in Int
<1>. DEFINE n == q.curr_num_frame_pairs_
            S == {i \in 0 .. n : Shift(q)[i - 1] \in Int}
<1>1. n \in 0 .. kNumFrames /\ kNumFrames \in Nat
      BY ObjectTrackerAssumption DEF QueueType
<1>. HIDE DEF n
<1>2. 0 \in S
      <2>1. Shift(q)[-1] = 0
            BY <1>1, ShiftDef
      <2>. QED  BY <1>1, <2>1
<1>3. ASSUME NEW i \in 0 .. n - 1, i \in S
      PROVE  i + 1 \in S
      <2>1. NthPairFromEnd(q, i).moved \in Int
            BY NthType DEF PairType, n
      <2>2. Shift(q)[i] = NthPairFromEnd(q, i).moved + Shift(q)[i - 1]
            <3>1. i \in -1 .. kNumFrames - 1 /\ i # -1
                  BY <1>1
            <3>. QED  BY <3>1, ShiftDef
      <2>3. Shift(q)[i] \in Int
            BY <1>3, <2>1, <2>2
      <2>4. (i + 1) - 1 = i /\ i + 1 \in 0 .. n
            BY <1>1
      <2>. QED  BY <2>3, <2>4
<1>. HIDE DEF S
<1>4. \A i \in 0 .. n : i \in S
      BY <1>1, <1>2, <1>3, ShiftInduction
<1>5. ASSUME NEW i \in -1 .. n - 1
      PROVE  Shift(q)[i] \in Int
      <2>1. i + 1 \in 0 .. n /\ (i + 1) - 1 = i
            BY <1>1
      <2>. QED  BY <1>4, <2>1 DEF S
<1>. QED  BY <1>5 DEF n

\* How far TrackBox goes back: to the latest pair that ended by time t.
LEMMA BackFacts ==
    ASSUME NEW q \in QueueType, NEW t \in Int, NEW k, k = num_frames_back(q, t)
    PROVE  /\ k \in -1 .. q.curr_num_frame_pairs_ - 1
           /\ \A i \in 0 .. q.curr_num_frame_pairs_ - 1 :
                NthPairFromEnd(q, i).end_time_ <= t =>
                  /\ k + 1 \in 0 .. i
                  /\ NthPairFromEnd(q, k + 1).end_time_ <= t
<1>. DEFINE n == q.curr_num_frame_pairs_
            ended == {i \in 0 .. n - 1 : NthPairFromEnd(q, i).end_time_ <= t}
            least == CHOOSE i \in ended : \A j \in ended : i <= j
<1>1. n \in Nat
      BY ObjectTrackerAssumption DEF QueueType
<1>2. k = IF ended = {} THEN -1 ELSE least - 1
      BY DEF num_frames_back
<1>3. CASE ended = {}
      BY <1>1, <1>2, <1>3
<1>4. CASE ended # {}
      <2>1. \E i \in ended : \A j \in ended : i <= j
            <3>1. ended \in SUBSET Nat
                  BY <1>1
            <3>. HIDE DEF ended
            <3>. QED  BY <1>4, <3>1, Least
      <2>2. least \in ended /\ \A j \in ended : least <= j
            <3>. HIDE DEF ended
            <3>. QED  BY <2>1
      <2>. HIDE DEF least
      <2>3. k = least - 1 /\ k + 1 = least /\ least \in 0 .. n - 1
            BY <1>1, <1>2, <1>4, <2>2
      <2>. QED  BY <1>1, <2>2, <2>3
<1>. QED  BY <1>3, <1>4

\* TrackBox returns a position.
LEMMA TrackBoxType ==
    ASSUME NEW q \in QueueType, NEW region \in Int, NEW t \in Int
    PROVE  TrackBox(q, region, t) \in Int /\ TrackBox(q, region, t) = region + TrackBox(q, 0, t)
<1>. DEFINE k == num_frames_back(q, t)
<1>1. k \in -1 .. q.curr_num_frame_pairs_ - 1
      BY BackFacts
<1>. HIDE DEF k
<1>2. Shift(q)[k] \in Int
      BY <1>1, ShiftType
<1>3. TrackBox(q, region, t) = region + Shift(q)[k] /\ TrackBox(q, 0, t) = 0 + Shift(q)[k]
      BY TrackBoxShift DEF k
<1>. QED  BY <1>2, <1>3

--------------------------------------------------------------------------------
(* TrackBox is exact.                                                      *)

\* The types that the lemmas on the queue need.
LEMMA TypeFacts ==
    ASSUME TypeOK
    PROVE  /\ queue \in QueueType /\ N \in 0 .. kNumFrames
           /\ kNumFrames \in Nat /\ kNumFrames >= 2
           /\ \A i \in 0 .. N - 1 : P(i) \in PairType
           /\ \A s \in DOMAIN scene : s \in Nat /\ scene[s] \in Int
<1>1. queue \in QueueType /\ N \in 0 .. kNumFrames
      BY DEF TypeOK, QueueType, PairType, N
<1>2. \A i \in 0 .. N - 1 : P(i) \in PairType
      BY <1>1, NthType DEF N, P
<1>. QED  BY <1>1, <1>2, ObjectTrackerAssumption DEF TypeOK

\* The motions of a chain of pairs add up to the motion of the scene over all
\* of them.
LEMMA Telescope ==
    ASSUME TypeOK, Clock, Pairs, always_track, N > 0
    PROVE  \A k \in -1 .. N - 2 :
             Shift(queue)[k] = scene[curr_time_] - scene[P(k + 1).end_time_]
<1>. DEFINE S == {i \in 0 .. N - 1 :
                    Shift(queue)[i - 1] = scene[curr_time_] - scene[P(i).end_time_]}
<1>0. /\ N \in 0 .. kNumFrames /\ kNumFrames \in Nat
      /\ \A s \in DOMAIN scene : s \in Nat /\ scene[s] \in Int
      BY TypeFacts
<1>1. 0 \in S
      <2>1. Shift(queue)[-1] = 0
            BY <1>0, ShiftDef
      <2>2. P(0).end_time_ = curr_time_ /\ scene[curr_time_] \in Int
            BY <1>0 DEF Pairs, Clock
      <2>. QED  BY <1>0, <2>1, <2>2
<1>2. ASSUME NEW i \in 0 .. N - 2, i \in S
      PROVE  i + 1 \in S
      <2>1. /\ i \in 0 .. N - 1 /\ i + 1 \in 0 .. N - 1 /\ i \in -1 .. kNumFrames - 1 /\ i # -1
            /\ (i + 1) - 1 = i /\ i + 1 > 0
            BY <1>0
      <2>2. Shift(queue)[i] = P(i).moved + Shift(queue)[i - 1]
            BY <2>1, ShiftDef DEF P
      <2>3. /\ P(i + 1).end_time_ = P(i).start_time_
            /\ P(i + 1).start_time_ < P(i + 1).end_time_
            /\ {P(i).start_time_, P(i).end_time_, P(i + 1).start_time_} \subseteq DOMAIN scene
            BY <2>1 DEF Pairs
      <2>4. P(i).start_time_ # 0
            BY <1>0, <2>3
      <2>5. P(i).moved = scene[P(i).end_time_] - scene[P(i).start_time_]
            BY <2>1, <2>4 DEF Pairs
      <2>6. Shift(queue)[i - 1] = scene[curr_time_] - scene[P(i).end_time_]
            BY <1>2
      <2>7. /\ scene[curr_time_] \in Int /\ scene[P(i).end_time_] \in Int
            /\ scene[P(i).start_time_] \in Int
            BY <1>0, <2>3 DEF Clock
      <2>8. Shift(queue)[i] = scene[curr_time_] - scene[P(i + 1).end_time_]
            BY <2>2, <2>3, <2>5, <2>6, <2>7
      <2>. QED  BY <2>1, <2>8
<1>. HIDE DEF S
<1>3. \A i \in 0 .. N - 1 : i \in S
      <2>1. N - 1 \in Nat /\ (N - 1) - 1 = N - 2
            BY <1>0
      <2>. QED  BY <1>1, <1>2, <2>1, ShiftInduction
<1>4. ASSUME NEW k \in -1 .. N - 2
      PROVE  Shift(queue)[k] = scene[curr_time_] - scene[P(k + 1).end_time_]
      <2>1. k + 1 \in 0 .. N - 1 /\ (k + 1) - 1 = k
            BY <1>0
      <2>. QED  BY <1>3, <2>1 DEF S
<1>. QED  BY <1>4

\* TrackBox brings a box exactly to where the scene has carried it.
LEMMA Exact ==
    ASSUME TypeOK, Clock, Pairs
    PROVE  TrackBoxIsExact
<1>. SUFFICES ASSUME always_track, NEW t \in DOMAIN scene \ {0}, P(N - 1).end_time_ <= t
              PROVE  TrackBox(queue, 0, t) = scene[curr_time_] - scene[t]
     BY DEF TrackBoxIsExact, Reaches, P, N
<1>0. /\ queue \in QueueType /\ N \in 0 .. kNumFrames /\ kNumFrames \in Nat /\ kNumFrames >= 2
      /\ \A s \in DOMAIN scene : s \in Nat /\ scene[s] \in Int
      BY TypeFacts
<1>1. N > 0 /\ N - 1 \in 0 .. N - 1
      <2>1. curr_time_ # 0 /\ num_frames_ # 0 /\ num_frames_ \in Nat
            BY <1>0, SMTT(30) DEF Clock, TypeOK
      <2>. QED  BY <1>0, <2>1 DEF Pairs
<1>. DEFINE k == num_frames_back(queue, t)
<1>2. PICK i \in 0 .. N - 1 : P(i).end_time_ = t
      BY <1>1 DEF Pairs
<1>3. /\ k \in -1 .. N - 1 /\ k + 1 \in 0 .. i /\ P(k + 1).end_time_ <= t
      <2>1. t \in Int /\ NthPairFromEnd(queue, i).end_time_ <= t
            BY <1>0, <1>2 DEF P
      <2>. QED  BY <1>0, <2>1, BackFacts DEF P, N
<1>. HIDE DEF k
<1>4. k + 1 = i
      <2>1. CASE k + 1 < i
            <3>1. P(i).end_time_ < P(k + 1).end_time_
                  BY <1>0, <1>3, <2>1 DEF Pairs
            <3>2. P(k + 1).end_time_ \in Nat
                  BY <1>0, <1>3 DEF Pairs
            <3>. QED  BY <1>0, <1>2, <1>3, <3>1, <3>2
      <2>. QED  BY <1>0, <1>3, <2>1
<1>5. k \in -1 .. N - 2 /\ P(k + 1).end_time_ = t
      BY <1>0, <1>2, <1>3, <1>4
<1>6. Shift(queue)[k] = scene[curr_time_] - scene[t]
      BY <1>1, <1>5, Telescope
<1>7. TrackBox(queue, 0, t) = 0 + Shift(queue)[k]
      BY TrackBoxShift DEF k
<1>. QED  BY <1>0, <1>6, <1>7 DEF Clock

--------------------------------------------------------------------------------
(* nextFrame.                                                              *)

Tracks == num_frames_ > 0 /\ (always_track \/ DOMAIN objects_ # {})

\* A new picture makes what was computed of the old one void.
LEMMA SetDataFacts ==
    ASSUME NEW im \in [data : Nat, computed : BOOLEAN, derived : Nat], NEW t
    PROVE  SetData(im, t) = [data |-> t, computed |-> FALSE, derived |-> im.derived]
<1>. DEFINE one == [im EXCEPT !.data = t]
<1>1. one = [data |-> t, computed |-> im.computed, derived |-> im.derived]
      OBVIOUS
<1>2. SetData(im, t) = [one EXCEPT !.computed = FALSE]
      BY DEF SetData
<1>. HIDE DEF one
<1>. QED  BY <1>1, <1>2

\* The queue after nextFrame.
LEMMA QueueFacts ==
    ASSUME TypeOK, NEW pair \in PairType,
           queue' = SetNewest(IncrementFrameIndex(queue), pair)
    PROVE  /\ queue' \in QueueType
           /\ N' = IF N < kNumFrames THEN N + 1 ELSE kNumFrames
           /\ P(0)' = pair
           /\ \A i \in 1 .. N' - 1 : P(i)' = P(i - 1) /\ i - 1 \in 0 .. N - 1
<1>0. queue \in QueueType /\ N \in 0 .. kNumFrames /\ kNumFrames \in Nat
      BY TypeFacts
<1>. DEFINE r == queue'
<1>1. r = SetNewest(IncrementFrameIndex(queue), pair)
      OBVIOUS
<1>. HIDE DEF r
<1>2. /\ r \in QueueType
      /\ r.curr_num_frame_pairs_ = IF N < kNumFrames THEN N + 1 ELSE kNumFrames
      /\ NthPairFromEnd(r, 0) = pair
      /\ \A i \in 1 .. r.curr_num_frame_pairs_ - 1 :
           NthPairFromEnd(r, i) = NthPairFromEnd(queue, i - 1)
      BY <1>0, <1>1, PushFacts DEF N
<1>3. N' = r.curr_num_frame_pairs_ /\ \A i : P(i)' = NthPairFromEnd(r, i)
      BY DEF N, P, r
<1>4. \A i \in 1 .. N' - 1 : i - 1 \in 0 .. N - 1
      BY <1>0, <1>2, <1>3
<1>. QED  BY <1>2, <1>3, <1>4 DEF P, r

ObjectType == [last_known_position_ : Int, last_detection_thumbnail_ : Int,
               last_frame_thumbnail_ : Int]

\* UpdatePosition moves the object and takes its thumbnail anew.
LEMMA UpdateFacts ==
    ASSUME NEW object \in ObjectType, NEW pos, NEW place
    PROVE  UpdatePosition(object, pos, place) =
             [last_known_position_ |-> pos,
              last_detection_thumbnail_ |-> object.last_detection_thumbnail_,
              last_frame_thumbnail_ |-> place]
<1>. DEFINE one == [object EXCEPT !.last_known_position_ = pos]
<1>1. one = [last_known_position_ |-> pos,
             last_detection_thumbnail_ |-> object.last_detection_thumbnail_,
             last_frame_thumbnail_ |-> object.last_frame_thumbnail_]
      BY DEF ObjectType
<1>2. UpdatePosition(object, pos, place) = [one EXCEPT !.last_frame_thumbnail_ = place]
      BY DEF UpdatePosition
<1>. HIDE DEF one
<1>. QED  BY <1>1, <1>2

\* A frame shifts an object by what moved and shows it where it is then.
LEMMA TrackedFacts ==
    ASSUME NEW o \in ObjectType, NEW pair \in PairType, NEW offset \in Int
    PROVE  LET r == Tracked(o, pair, offset)
           IN  /\ r \in ObjectType
               /\ r.last_known_position_ = o.last_known_position_ + pair.moved
               /\ r.last_detection_thumbnail_ = o.last_detection_thumbnail_
               /\ r.last_frame_thumbnail_ = r.last_known_position_ - offset
<1>. DEFINE r == Tracked(o, pair, offset)
            pos == o.last_known_position_ + pair.moved
<1>1. r = UpdatePosition(o, pos, pos - offset)
      BY DEF Tracked
<1>2. r = [last_known_position_ |-> pos,
           last_detection_thumbnail_ |-> o.last_detection_thumbnail_,
           last_frame_thumbnail_ |-> pos - offset]
      BY <1>1, UpdateFacts
<1>3. pos \in Int /\ o.last_detection_thumbnail_ \in Int /\ pos - offset \in Int
      BY DEF ObjectType, PairType
<1>. HIDE DEF pos, r
<1>. QED  BY <1>2, <1>3 DEF ObjectType, r, pos

\* The debug history of Java's side stays a sequence of numbers.
LEMMA ShortenedFacts ==
    ASSUME NEW s \in Seq(Int)
    PROVE  /\ Shortened(s) \in Seq(Int) /\ Len(Shortened(s)) <= Len(s)
           /\ \A j \in 0 .. Len(Shortened(s)) - 1 :
                Shortened(s)[Len(Shortened(s)) - j] = s[Len(s) - j]
<1>0. Len(s) \in Nat /\ MAX_DEBUG_HISTORY_SIZE \in Nat \ {0}
      BY ObjectTrackerAssumption
<1>1. CASE Len(s) > MAX_DEBUG_HISTORY_SIZE
      <2>. DEFINE a == Len(s) - MAX_DEBUG_HISTORY_SIZE + 1
                  u == SubSeq(s, a, Len(s))
      <2>1. a \in 1 .. Len(s)
            BY <1>0, <1>1
      <2>2. u \in Seq(Int) /\ Len(u) = MAX_DEBUG_HISTORY_SIZE
            BY <1>0, <1>1, <2>1
      <2>3. \A i \in 1 .. Len(u) : u[i] = s[a + i - 1]
            <3>1. a \in Int /\ Len(s) \in Int /\ Len(s) - a + 1 = Len(u)
                  BY <1>0, <1>1, <2>1, <2>2
            <3>2. \A i \in a .. Len(s) : s[i] \in Int
                  BY <1>0, <2>1
            <3>. QED  BY <3>1, <3>2, SubSeqProperties
      <2>. HIDE DEF u
      <2>4. \A j \in 0 .. Len(u) - 1 : u[Len(u) - j] = s[Len(s) - j]
            BY <1>0, <1>1, <2>2, <2>3
      <2>5. Shortened(s) = u
            BY <1>1 DEF Shortened, u
      <2>6. Len(u) <= Len(s)
            BY <1>0, <1>1, <2>2
      <2>. QED  BY <2>2, <2>4, <2>5, <2>6
<1>2. CASE ~(Len(s) > MAX_DEBUG_HISTORY_SIZE)
      BY <1>0, <1>2 DEF Shortened
<1>. QED  BY <1>1, <1>2

\* What nextFrame does to the images, to the queue, to the scene and to the
\* objects: when it tracks, OpticalFlow compares the pictures of the last frame
\* and of this one.
LEMMA NextFrameFacts ==
    ASSUME TypeOK, Clock, Pictures, Objects,
           NEW t \in Nat, timestamp < t, NEW m \in Int, nextFrame(t, m)
    PROVE  /\ curr_time_ < t /\ t \notin DOMAIN scene
           /\ scene' = [s \in DOMAIN scene \union {t} |->
                          IF s = t THEN scene[curr_time_] + m ELSE scene[s]]
           /\ queue' = SetNewest(IncrementFrameIndex(queue),
                                 [start_time_ |-> curr_time_, end_time_ |-> t,
                                  moved |-> IF Tracks THEN m ELSE 0])
           /\ image' \in [Buffers -> [data : Nat, computed : BOOLEAN, derived : Nat]]
           /\ flow' \in [frame1_ : Buffers, frame2_ : Buffers]
           /\ Pictures'
           /\ objects_' \in [DOMAIN objects_ -> ObjectType]
           /\ \A id \in DOMAIN objects_ :
                /\ objects_[id] \in ObjectType /\ objects_'[id] \in ObjectType
                /\ objects_'[id].last_known_position_ = objects_[id].last_known_position_ + m
                /\ objects_'[id].last_detection_thumbnail_ = objects_[id].last_detection_thumbnail_
                /\ objects_'[id].last_frame_thumbnail_ =
                     objects_'[id].last_known_position_ - (scene[curr_time_] + m)
           /\ handle' = Updated(handle, objects_')
           /\ debugHistory' = DebugHistory(queue')
<1>. DEFINE begun   == SetNewest(IncrementFrameIndex(queue), Pair(curr_time_, t))
            set     == [image EXCEPT ![frame1_] = SetData(@, Downsampled(t))]
            next    == FlowNextFrame(flow, frame1_)
            read    == IF Tracks THEN {frame2_, next.frame1_, next.frame2_} ELSE {}
            images  == [b \in Buffers |-> IF b \in read THEN Computed(set[b]) ELSE set[b]]
            offset  == [s \in DOMAIN scene \union {t} |->
                          IF s = t THEN scene[curr_time_] + m ELSE scene[s]]
            mv      == offset[images[next.frame2_].derived] - offset[images[next.frame1_].derived]
            pair    == [Pair(curr_time_, t) EXCEPT !.moved = mv]
            ended   == IF Tracks THEN SetNewest(begun, pair) ELSE begun
            objects == IF Tracks
                         THEN [id \in DOMAIN objects_ |->
                                 Tracked(objects_[id], NthPairFromEnd(ended, 0),
                                         offset[images[frame1_].data])]
                         ELSE objects_
<1>1. /\ queue' = ended /\ image' = images /\ flow' = next /\ objects_' = objects
      /\ scene' = offset /\ curr_time_' = t /\ num_frames_' = num_frames_ + 1
      /\ frame1_' = frame2_ /\ frame2_' = frame1_
      /\ handle' = Updated(handle, objects) /\ debugHistory' = DebugHistory(ended)
      BY DEF nextFrame, Tracks
<1>2. /\ curr_time_ \in Nat /\ num_frames_ \in Nat /\ timestamp \in Nat
      /\ curr_time_ \in DOMAIN scene /\ scene[curr_time_] \in Int
      /\ curr_time_ < t /\ t \notin DOMAIN scene
      <2>1. curr_time_ \in Nat /\ num_frames_ \in Nat /\ timestamp \in Nat
            BY DEF TypeOK
      <2>2. curr_time_ \in DOMAIN scene /\ curr_time_ <= timestamp
            BY DEF Clock
      <2>3. scene[curr_time_] \in Int
            BY <2>2, TypeFacts
      <2>4. curr_time_ < t
            BY <2>1, <2>2
      <2>5. t \notin DOMAIN scene
            <3>1. \A s \in DOMAIN scene : s <= curr_time_
                  BY DEF Clock
            <3>. QED  BY <2>1, <2>4, <3>1
      <2>. QED  BY <2>1, <2>2, <2>3, <2>4, <2>5
<1>3. /\ frame1_ \in Buffers /\ frame2_ \in Buffers /\ frame1_ # frame2_
      /\ Buffers = {frame1_, frame2_}
      BY SMTT(30) DEF TypeOK, Pictures, Buffers
<1>4. /\ set \in [Buffers -> [data : Nat, computed : BOOLEAN, derived : Nat]]
      /\ set[frame1_].data = t /\ set[frame1_].computed = FALSE
      /\ set[frame2_] = image[frame2_]
      <2>1. Downsampled(t) = t
            BY DEF Downsampled
      <2>2. image \in [Buffers -> [data : Nat, computed : BOOLEAN, derived : Nat]]
            BY DEF TypeOK
      <2>3. SetData(image[frame1_], t) = [data |-> t, computed |-> FALSE,
                                          derived |-> image[frame1_].derived]
            <3>1. image[frame1_] \in [data : Nat, computed : BOOLEAN, derived : Nat]
                  BY <1>3, <2>2
            <3>. QED  BY <3>1, SetDataFacts
      <2>. QED  BY <1>3, <2>1, <2>2, <2>3
<1>. HIDE DEF set
<1>5. /\ next.frame2_ = frame1_ /\ next \in [frame1_ : Buffers, frame2_ : Buffers]
      /\ num_frames_ > 0 => next.frame1_ = frame2_
      <2>1. num_frames_ > 0 => flow.frame1_ # NULL /\ flow.frame2_ = frame2_
            BY <1>2 DEF Pictures
      <2>2. num_frames_ = 0 => flow.frame1_ = NULL
            BY DEF Pictures
      <2>. QED  BY <1>2, <1>3, <2>1, <2>2 DEF FlowNextFrame
<1>. HIDE DEF next
<1>6. Tracks => read = Buffers
      BY <1>3, <1>5 DEF Tracks
<1>7. ~Tracks => read = {}
      OBVIOUS
<1>. HIDE DEF read
<1>8. \A b \in Buffers :
         /\ Computed(set[b]) \in [data : Nat, computed : BOOLEAN, derived : Nat]
         /\ Computed(set[b]).data = set[b].data
         /\ Computed(set[b]).computed
         /\ (set[b].computed => set[b].derived = set[b].data) =>
              Computed(set[b]).derived = set[b].data
      BY <1>4 DEF Computed
<1>9. \A b \in Buffers : set[b].computed => set[b].derived = set[b].data
      BY <1>3, <1>4 DEF Pictures
<1>10. /\ images \in [Buffers -> [data : Nat, computed : BOOLEAN, derived : Nat]]
       /\ \A b \in Buffers : images[b].data = set[b].data
       /\ \A b \in Buffers : images[b].computed => images[b].derived = images[b].data
       /\ Tracks => \A b \in Buffers : images[b].derived = set[b].data
       <2>1. CASE Tracks
             BY <1>6, <1>8, <1>9, <2>1
       <2>2. CASE ~Tracks
             BY <1>4, <1>7, <1>9, <2>2
       <2>. QED  BY <2>1, <2>2
<1>. HIDE DEF images
<1>11. set[frame2_].data = curr_time_
       BY <1>4 DEF Pictures
<1>12. /\ images[frame1_].data = t
       /\ Tracks => mv = m
       <2>1. offset[t] = scene[curr_time_] + m /\ offset[curr_time_] = scene[curr_time_]
             BY <1>2
       <2>2. Tracks => images[next.frame2_].derived = t /\ images[next.frame1_].derived = curr_time_
             BY <1>3, <1>4, <1>5, <1>10, <1>11 DEF Tracks
       <2>3. images[frame1_].data = t
             BY <1>3, <1>4, <1>10
       <2>. HIDE DEF offset
       <2>. QED  BY <1>2, <2>1, <2>2, <2>3
<1>13. offset[images[frame1_].data] = scene[curr_time_] + m
       BY <1>12
<1>. HIDE DEF mv, offset
<1>. DEFINE newest == [start_time_ |-> curr_time_, end_time_ |-> t,
                       moved |-> IF Tracks THEN m ELSE 0]
<1>14. newest \in PairType /\ Pair(curr_time_, t) \in PairType
       BY <1>2 DEF PairType, Pair
<1>15. queue \in QueueType
       BY TypeFacts
<1>16. ended = SetNewest(IncrementFrameIndex(queue), newest)
       <2>1. CASE Tracks
             <3>1. pair = newest
                   BY <1>12, <2>1 DEF Pair
             <3>. HIDE DEF pair, newest
             <3>2. ended = SetNewest(begun, newest)
                   BY <2>1, <3>1
             <3>. QED  BY <1>14, <1>15, <3>2, SetNewestTwice
       <2>2. CASE ~Tracks
             <3>1. Pair(curr_time_, t) = newest
                   BY <2>2 DEF Pair
             <3>. HIDE DEF newest
             <3>. QED  BY <2>2, <3>1
       <2>. QED  BY <2>1, <2>2
<1>17. NthPairFromEnd(ended, 0) = newest
       <2>. HIDE DEF newest, ended
       <2>. QED  BY <1>14, <1>15, <1>16, PushFacts
<1>. HIDE DEF ended
<1>18. objects = [id \in DOMAIN objects_ |->
                    Tracked(objects_[id], [start_time_ |-> curr_time_, end_time_ |-> t,
                                           moved |-> m],
                            scene[curr_time_] + m)]
       <2>1. CASE Tracks
             BY <1>13, <1>17, <2>1
       <2>2. CASE ~Tracks
             <3>1. DOMAIN objects_ = {}
                   BY <1>2, <2>2 DEF Tracks, Objects
             <3>2. objects_ = [id \in DOMAIN objects_ |-> objects_[id]]
                   BY DEF TypeOK
             <3>. QED  BY <2>2, <3>1, <3>2
       <2>. QED  BY <2>1, <2>2
<1>. HIDE DEF objects
<1>19. Pictures'
       <2>1. image'[frame2_'].data = curr_time_'
             BY <1>1, <1>12
       <2>2. \A b \in Buffers : image'[b].computed => image'[b].derived = image'[b].data
             BY <1>1, <1>10
       <2>3. num_frames_' # 0 /\ flow'.frame1_ # NULL /\ flow'.frame2_ = frame2_'
             BY <1>1, <1>2, <1>5 DEF Buffers, NULL
       <2>. QED  BY <1>1, <1>3, <2>1, <2>2, <2>3 DEF Pictures
<1>20. /\ objects_' \in [DOMAIN objects_ -> ObjectType]
       /\ \A id \in DOMAIN objects_ :
            /\ objects_[id] \in ObjectType /\ objects_'[id] \in ObjectType
            /\ objects_'[id].last_known_position_ = objects_[id].last_known_position_ + m
            /\ objects_'[id].last_detection_thumbnail_ = objects_[id].last_detection_thumbnail_
            /\ objects_'[id].last_frame_thumbnail_ =
                 objects_'[id].last_known_position_ - (scene[curr_time_] + m)
       <2>. DEFINE off == scene[curr_time_] + m
                   pr == [start_time_ |-> curr_time_, end_time_ |-> t, moved |-> m]
       <2>1. off \in Int /\ pr \in PairType /\ pr.moved = m
             BY <1>2 DEF PairType
       <2>2. objects_' = [id \in DOMAIN objects_ |->
                            Tracked(objects_[id], pr, off)]
             BY <1>1, <1>18
       <2>3. ASSUME NEW id \in DOMAIN objects_
             PROVE  /\ objects_[id] \in ObjectType /\ objects_'[id] \in ObjectType
                    /\ objects_'[id].last_known_position_ = objects_[id].last_known_position_ + m
                    /\ objects_'[id].last_detection_thumbnail_ = objects_[id].last_detection_thumbnail_
                    /\ objects_'[id].last_frame_thumbnail_ =
                         objects_'[id].last_known_position_ - off
             <3>1. objects_'[id] = Tracked(objects_[id], pr, off)
                   BY <2>2
             <3>2. objects_[id] \in ObjectType
                   BY DEF TypeOK, ObjectType
             <3>. DEFINE o == objects_[id]
                         r == objects_'[id]
             <3>3. /\ o \in ObjectType /\ r = Tracked(o, pr, off)
                   /\ off \in Int /\ pr \in PairType
                   BY <2>1, <3>1, <3>2
             <3>. HIDE DEF off, pr, o, r
             <3>4. /\ r \in ObjectType
                   /\ r.last_known_position_ = o.last_known_position_ + pr.moved
                   /\ r.last_detection_thumbnail_ = o.last_detection_thumbnail_
                   /\ r.last_frame_thumbnail_ = r.last_known_position_ - off
                   BY <3>3, TrackedFacts
             <3>. QED  BY <2>1, <3>3, <3>4 DEF o, r
       <2>4. objects_' \in [DOMAIN objects_ -> ObjectType]
             BY <2>2, <2>3
       <2>. QED  BY <2>3, <2>4
<1>21. handle' = Updated(handle, objects_') /\ debugHistory' = DebugHistory(queue')
       BY <1>1
<1>. QED  BY <1>1, <1>2, <1>5, <1>10, <1>16, <1>19, <1>20, <1>21 DEF offset


--------------------------------------------------------------------------------
(* The invariant.                                                          *)

Inv == TypeOK /\ Clock /\ Pictures /\ Pairs /\ Objects /\ ~aborted

LEMMA EmptyFacts ==
    EmptyQueue \in QueueType /\ EmptyQueue.curr_num_frame_pairs_ = 0
<1>1. kNumFrames \in Nat /\ kNumFrames >= 2 /\ 0 \in Indices
      BY ObjectTrackerAssumption DEF Indices
<1>2. Pair(-1, -1) \in PairType
      BY DEF Pair, PairType
<1>. QED  BY <1>1, <1>2 DEF EmptyQueue, QueueType

LEMMA InitInv ==
    ASSUME Init
    PROVE  Inv
<1>0. /\ queue = EmptyQueue /\ queue \in QueueType /\ N = 0
      /\ curr_time_ = 0 /\ num_frames_ = 0 /\ lastTimestamp = 0 /\ timestamp = 0
      /\ frame1_ = 1 /\ frame2_ = 2 /\ image = [b \in Buffers |-> NoImage]
      /\ flow = [frame1_ |-> NULL, frame2_ |-> NULL]
      /\ objects_ = [id \in {} |-> 0] /\ trackedObjects = {}
      /\ scene = [t \in {0} |-> 0] /\ handle = [id \in Ids |-> NoHandle]
      /\ kNumFrames \in Nat /\ kNumFrames >= 2
      BY EmptyFacts, ObjectTrackerAssumption DEF Init, N
<1>1. TypeOK
      <2>1. NoImage \in [data : Nat, computed : BOOLEAN, derived : Nat]
            BY DEF NoImage
      <2>2. NoHandle \in [tracker : {"none", "this", "other"}, isDead : BOOLEAN,
                          lastTrackedPosition : Int, place : Int, reached : BOOLEAN]
            BY DEF NoHandle
      <2>3. handle \in [Ids -> [tracker : {"none", "this", "other"}, isDead : BOOLEAN,
                                lastTrackedPosition : Int, place : Int, reached : BOOLEAN]]
            BY <1>0, <2>2
      <2>4. instance \in BOOLEAN /\ downsampled = 0 /\ debugHistory = <<>> /\ aborted \in BOOLEAN
            BY DEF Init
      <2>. QED  BY <1>0, <2>1, <2>3, <2>4 DEF TypeOK, QueueType, PairType, Buffers
<1>2. Clock
      BY <1>0 DEF Clock
<1>3. Pictures
      BY <1>0 DEF Pictures, NoImage, Buffers
<1>4. Pairs
      BY <1>0 DEF Pairs
<1>5. Objects
      BY <1>0 DEF Objects, checkValidObject, NoHandle
<1>. QED  BY <1>1, <1>2, <1>3, <1>4, <1>5 DEF Inv, Init

\* A new tracker starts from nothing; the objects of the old one are Java's
\* only, and none of them is valid any more.
LEMMA OpenKeeps ==
    ASSUME Inv, open
    PROVE  Inv'
<1>0. /\ queue' = EmptyQueue /\ queue' \in QueueType /\ N' = 0
      /\ curr_time_' = 0 /\ num_frames_' = 0 /\ lastTimestamp' = 0
      /\ frame1_' = 1 /\ frame2_' = 2 /\ image' = [b \in Buffers |-> NoImage]
      /\ flow' = [frame1_ |-> NULL, frame2_ |-> NULL]
      /\ objects_' = [id \in {} |-> 0] /\ trackedObjects' = {}
      /\ scene' = [t \in {0} |-> 0]
      /\ kNumFrames \in Nat /\ kNumFrames >= 2
      BY EmptyFacts, ObjectTrackerAssumption DEF open, N
<1>1. timestamp' \in Nat
      BY DEF open, Inv, TypeOK
<1>2. /\ handle' \in [Ids -> [tracker : {"none", "this", "other"}, isDead : BOOLEAN,
                              lastTrackedPosition : Int, place : Int, reached : BOOLEAN]]
      /\ \A id \in Ids : handle'[id].tracker # "this"
      <2>1. handle \in [Ids -> [tracker : {"none", "this", "other"}, isDead : BOOLEAN,
                                lastTrackedPosition : Int, place : Int, reached : BOOLEAN]]
            BY DEF Inv, TypeOK
      <2>2. handle' = [id \in Ids |-> IF handle[id].tracker = "this"
                                        THEN [handle[id] EXCEPT !.tracker = "other"]
                                        ELSE handle[id]]
            BY DEF open
      <2>. QED  BY <2>1, <2>2
<1>3. TypeOK'
      <2>1. NoImage \in [data : Nat, computed : BOOLEAN, derived : Nat]
            BY DEF NoImage
      <2>2. /\ instance' = TRUE /\ downsampled' = 0 /\ debugHistory' = <<>>
            /\ aborted' = aborted /\ aborted \in BOOLEAN
            BY DEF open, Inv, TypeOK
      <2>. QED  BY <1>0, <1>1, <1>2, <2>1, <2>2 DEF TypeOK, QueueType, PairType, Buffers
<1>4. Clock'
      BY <1>0, <1>1 DEF Clock
<1>5. Pictures'
      BY <1>0 DEF Pictures, NoImage, Buffers
<1>6. Pairs'
      BY <1>0 DEF Pairs
<1>7. Objects'
      BY <1>0, <1>2 DEF Objects, checkValidObject
<1>. QED  BY <1>3, <1>4, <1>5, <1>6, <1>7 DEF Inv, open

\* The handles after a frame: only the positions change.
LEMMA UpdatedFacts ==
    ASSUME TypeOK, NEW objects, handle' = Updated(handle, objects),
           \A id \in trackedObjects : objects[id].last_known_position_ \in Int
    PROVE  /\ handle' \in [Ids -> [tracker : {"none", "this", "other"}, isDead : BOOLEAN,
                                   lastTrackedPosition : Int, place : Int, reached : BOOLEAN]]
           /\ \A id \in Ids : /\ handle'[id].tracker = handle[id].tracker
                              /\ handle'[id].isDead = handle[id].isDead
                              /\ handle'[id].place = handle[id].place
                              /\ handle'[id].reached = handle[id].reached
           /\ \A id \in trackedObjects :
                handle'[id].lastTrackedPosition = objects[id].last_known_position_
<1>1. /\ handle \in [Ids -> [tracker : {"none", "this", "other"}, isDead : BOOLEAN,
                             lastTrackedPosition : Int, place : Int, reached : BOOLEAN]]
      /\ trackedObjects \subseteq Ids
      BY DEF TypeOK
<1>. QED  BY <1>1 DEF Updated

\* A frame that nextFrame may be given: the activity counts on.
Arrives(t, m) == t \in Nat /\ timestamp < t /\ m \in Int /\ nextFrame(t, m)

\* What a frame does to the numbers, to the scene and to the objects.
LEMMA FrameFacts ==
    ASSUME Inv, NEW t, NEW m, Arrives(t, m)
    PROVE  /\ t \in Nat /\ m \in Int /\ curr_time_ < t /\ curr_time_ \in Nat /\ num_frames_ \in Nat
           /\ curr_time_' = t /\ num_frames_' = num_frames_ + 1
           /\ lastTimestamp' = t /\ timestamp' = t
           /\ DOMAIN scene' = DOMAIN scene \union {t} /\ t \notin DOMAIN scene
           /\ scene' \in [DOMAIN scene' -> Int]
           /\ \A s \in DOMAIN scene : scene'[s] = scene[s] /\ scene[s] \in Int
           /\ scene'[t] = scene[curr_time_] + m
           /\ trackedObjects' = trackedObjects /\ trackedObjects = DOMAIN objects_
           /\ DOMAIN objects_' = DOMAIN objects_ /\ objects_' \in [DOMAIN objects_' -> ObjectType]
           /\ \A id \in DOMAIN objects_ :
                /\ objects_[id] \in ObjectType /\ objects_'[id] \in ObjectType
                /\ objects_'[id].last_known_position_ = objects_[id].last_known_position_ + m
                /\ objects_'[id].last_detection_thumbnail_ = objects_[id].last_detection_thumbnail_
                /\ objects_'[id].last_frame_thumbnail_ =
                     objects_'[id].last_known_position_ - scene'[t]
<1>0. /\ TypeOK /\ Clock /\ Pictures /\ Objects /\ nextFrame(t, m)
      /\ t \in Nat /\ timestamp < t /\ m \in Int
      BY DEF Inv, Arrives
<1>1. /\ curr_time_ < t /\ t \notin DOMAIN scene
      /\ scene' = [s \in DOMAIN scene \union {t} |->
                     IF s = t THEN scene[curr_time_] + m ELSE scene[s]]
      BY <1>0, NextFrameFacts
<1>2. /\ curr_time_' = t /\ num_frames_' = num_frames_ + 1
      /\ lastTimestamp' = t /\ timestamp' = t /\ trackedObjects' = trackedObjects
      BY <1>0 DEF nextFrame
<1>3. /\ curr_time_ \in Nat /\ num_frames_ \in Nat /\ curr_time_ \in DOMAIN scene
      /\ trackedObjects = DOMAIN objects_
      BY <1>0 DEF TypeOK, Clock, Objects
<1>4. \A s \in DOMAIN scene : scene[s] \in Int
      BY <1>0, TypeFacts
<1>5. /\ DOMAIN scene' = DOMAIN scene \union {t} /\ scene' \in [DOMAIN scene' -> Int]
      /\ \A s \in DOMAIN scene : scene'[s] = scene[s]
      /\ scene'[t] = scene[curr_time_] + m /\ scene[curr_time_] + m \in Int
      BY <1>0, <1>1, <1>3, <1>4
<1>6. /\ objects_' \in [DOMAIN objects_ -> ObjectType]
      /\ \A id \in DOMAIN objects_ :
           /\ objects_[id] \in ObjectType /\ objects_'[id] \in ObjectType
           /\ objects_'[id].last_known_position_ = objects_[id].last_known_position_ + m
           /\ objects_'[id].last_detection_thumbnail_ = objects_[id].last_detection_thumbnail_
           /\ objects_'[id].last_frame_thumbnail_ =
                objects_'[id].last_known_position_ - (scene[curr_time_] + m)
      BY <1>0, NextFrameFacts
<1>7. DOMAIN objects_' = DOMAIN objects_ /\ objects_' \in [DOMAIN objects_' -> ObjectType]
      BY <1>6
<1>. QED  BY <1>0, <1>1, <1>2, <1>3, <1>4, <1>5, <1>6, <1>7

\* What a frame does to the queue.
LEMMA FrameQueue ==
    ASSUME Inv, NEW t, NEW m, Arrives(t, m)
    PROVE  /\ queue' \in QueueType
           /\ N \in 0 .. kNumFrames /\ kNumFrames \in Nat /\ kNumFrames >= 2
           /\ N' = IF N < kNumFrames THEN N + 1 ELSE kNumFrames
           /\ P(0)' = [start_time_ |-> curr_time_, end_time_ |-> t,
                       moved |-> IF Tracks THEN m ELSE 0]
           /\ \A i \in 1 .. N' - 1 : P(i)' = P(i - 1) /\ i - 1 \in 0 .. N - 1
<1>0. /\ TypeOK /\ Clock /\ Pictures /\ Objects /\ nextFrame(t, m)
      /\ t \in Nat /\ timestamp < t /\ m \in Int
      BY DEF Inv, Arrives
<1>. DEFINE pair == [start_time_ |-> curr_time_, end_time_ |-> t,
                     moved |-> IF Tracks THEN m ELSE 0]
<1>1. queue' = SetNewest(IncrementFrameIndex(queue), pair)
      BY <1>0, NextFrameFacts
<1>2. pair \in PairType
      BY <1>0 DEF TypeOK, PairType
<1>. HIDE DEF pair
<1>3. /\ queue' \in QueueType
      /\ N' = IF N < kNumFrames THEN N + 1 ELSE kNumFrames
      /\ P(0)' = pair
      /\ \A i \in 1 .. N' - 1 : P(i)' = P(i - 1) /\ i - 1 \in 0 .. N - 1
      BY <1>0, <1>1, <1>2, QueueFacts
<1>4. N \in 0 .. kNumFrames /\ kNumFrames \in Nat /\ kNumFrames >= 2
      BY <1>0, TypeFacts
<1>. QED  BY <1>3, <1>4 DEF pair

\* What the history line gains is a number.
LEMMA FrameHistoryType ==
    ASSUME Inv, NEW t, NEW m, Arrives(t, m)
    PROVE  /\ debugHistory' = DebugHistory(queue')
           /\ debugHistory' \in Seq(Int)
           /\ upscaleRect(TrackBox(queue', 0, lastTimestamp)) \in Int
<1>1. debugHistory' = DebugHistory(queue')
      BY NextFrameFacts DEF Arrives, Inv
<1>2. queue' \in QueueType /\ lastTimestamp \in Int /\ debugHistory \in Seq(Int)
      <2>1. queue' \in QueueType
            BY FrameQueue
      <2>. QED  BY <2>1 DEF Inv, TypeOK
<1>. DEFINE x == upscaleRect(TrackBox(queue', 0, lastTimestamp))
<1>3. x \in Int
      <2>1. TrackBox(queue', 0, lastTimestamp) \in Int
            BY <1>2, TrackBoxType
      <2>. QED  BY <2>1, ObjectTrackerAssumption DEF upscaleRect
<1>. HIDE DEF x
<1>4. Append(debugHistory, x) \in Seq(Int)
      BY <1>2, <1>3
<1>5. Shortened(Append(debugHistory, x)) \in Seq(Int)
      BY <1>4, ShortenedFacts
<1>6. debugHistory' = IF lastTimestamp = 0 THEN debugHistory
                      ELSE Shortened(Append(debugHistory, x))
      BY <1>1 DEF DebugHistory, x
<1>. QED  BY <1>1, <1>2, <1>3, <1>5, <1>6 DEF x

\* The chain of pairs grows by the new one.
LEMMA FramePairs ==
    ASSUME Inv, NEW t, NEW m, Arrives(t, m)
    PROVE  Pairs'
<1>0. Pairs /\ Clock /\ TypeOK
      BY DEF Inv
<1>1. /\ t \in Nat /\ m \in Int /\ curr_time_ < t /\ curr_time_ \in Nat /\ num_frames_ \in Nat
      /\ curr_time_' = t /\ num_frames_' = num_frames_ + 1
      /\ DOMAIN scene' = DOMAIN scene \union {t} /\ t \notin DOMAIN scene
      /\ \A s \in DOMAIN scene : scene'[s] = scene[s] /\ scene[s] \in Int
      /\ scene'[t] = scene[curr_time_] + m
      BY FrameFacts
<1>2. /\ N \in 0 .. kNumFrames /\ kNumFrames \in Nat /\ kNumFrames >= 2
      /\ N' = IF N < kNumFrames THEN N + 1 ELSE kNumFrames
      /\ \A i \in 1 .. N' - 1 : P(i)' = P(i - 1) /\ i - 1 \in 0 .. N - 1
      BY FrameQueue
<1>3. /\ P(0)'.start_time_ = curr_time_ /\ P(0)'.end_time_ = t
      /\ Tracks => P(0)'.moved = m
      BY FrameQueue
<1>4. /\ curr_time_ \in DOMAIN scene /\ \A s \in DOMAIN scene : s <= curr_time_ /\ s \in Nat
      /\ num_frames_ = 0 <=> curr_time_ = 0
      BY <1>0, TypeFacts DEF Clock
<1>5. /\ N = IF num_frames_ < kNumFrames THEN num_frames_ ELSE kNumFrames
      /\ N > 0 => P(0).end_time_ = curr_time_
      BY <1>0 DEF Pairs
<1>6. \A i \in 0 .. N - 1 :
         /\ P(i).start_time_ \in DOMAIN scene /\ P(i).end_time_ \in DOMAIN scene
         /\ P(i).start_time_ < P(i).end_time_
         /\ i > 0 => P(i).end_time_ = P(i - 1).start_time_
         /\ always_track /\ P(i).start_time_ # 0 =>
              P(i).moved = scene[P(i).end_time_] - scene[P(i).start_time_]
      BY <1>0 DEF Pairs
<1>7. \A i, j \in 0 .. N - 1 : i < j => P(j).end_time_ < P(i).end_time_
      BY <1>0 DEF Pairs
<1>8. \A s \in DOMAIN scene \ {0} :
         N > 0 /\ P(N - 1).end_time_ <= s => \E i \in 0 .. N - 1 : P(i).end_time_ = s
      BY <1>0 DEF Pairs
<1>9. N' = IF num_frames_' < kNumFrames THEN num_frames_' ELSE kNumFrames
      BY <1>1, <1>2, <1>5
<1>10. ASSUME NEW i \in 0 .. N' - 1
       PROVE  /\ P(i)'.start_time_ \in DOMAIN scene' /\ P(i)'.end_time_ \in DOMAIN scene'
              /\ P(i)'.start_time_ < P(i)'.end_time_
              /\ i > 0 => P(i)'.end_time_ = P(i - 1)'.start_time_
              /\ always_track /\ P(i)'.start_time_ # 0 =>
                   P(i)'.moved = scene'[P(i)'.end_time_] - scene'[P(i)'.start_time_]
       <2>1. CASE i = 0
             <3>1. always_track /\ curr_time_ # 0 => Tracks
                   BY <1>1, <1>4 DEF Tracks
             <3>2. scene'[t] - scene'[curr_time_] = m
                   BY <1>1, <1>4
             <3>. QED  BY <1>1, <1>3, <1>4, <2>1, <3>1, <3>2
       <2>2. CASE i # 0
             <3>1. i \in 1 .. N' - 1
                   BY <1>2, <2>2
             <3>2. P(i)' = P(i - 1) /\ i - 1 \in 0 .. N - 1
                   BY <1>2, <3>1
             <3>3. P(i)'.end_time_ = P(i - 1)'.start_time_
                   <4>1. CASE i = 1
                         <5>1. P(i - 1)' = P(0)' /\ P(i)' = P(0) /\ N > 0
                               BY <1>2, <3>2, <4>1
                         <5>. QED  BY <1>3, <1>5, <5>1
                   <4>2. CASE i > 1
                         <5>1. i - 1 \in 1 .. N' - 1
                               BY <1>2, <4>2
                         <5>2. P(i - 1)' = P((i - 1) - 1)
                               BY <1>2, <5>1
                         <5>. QED  BY <1>6, <3>2, <4>2, <5>2
                   <4>. QED  BY <3>1, <4>1, <4>2
             <3>. QED  BY <1>1, <1>6, <3>2, <3>3
       <2>. QED  BY <2>1, <2>2
<1>11. ASSUME NEW i \in 0 .. N' - 1, NEW j \in 0 .. N' - 1, i < j
       PROVE  P(j)'.end_time_ < P(i)'.end_time_
       <2>1. j \in 1 .. N' - 1
             BY <1>2, <1>11
       <2>2. P(j)' = P(j - 1) /\ j - 1 \in 0 .. N - 1
             BY <1>2, <2>1
       <2>3. CASE i = 0
             <3>1. P(j - 1).end_time_ \in DOMAIN scene
                   BY <1>6, <2>2
             <3>. QED  BY <1>1, <1>3, <1>4, <2>2, <2>3, <3>1
       <2>4. CASE i # 0
             <3>1. i \in 1 .. N' - 1
                   BY <1>2, <2>4
             <3>2. P(i)' = P(i - 1) /\ i - 1 \in 0 .. N - 1 /\ i - 1 < j - 1
                   BY <1>2, <1>11, <3>1
             <3>. QED  BY <1>7, <2>2, <3>2
       <2>. QED  BY <2>3, <2>4
<1>12. ASSUME NEW s \in DOMAIN scene' \ {0}, N' > 0, P(N - 1)'.end_time_ <= s
       PROVE  \E i \in 0 .. N' - 1 : P(i)'.end_time_ = s
       <2>1. CASE s = t
             <3>1. 0 \in 0 .. N' - 1
                   BY <1>2
             <3>. QED  BY <1>3, <2>1, <3>1
       <2>2. CASE s \in DOMAIN scene
             <3>1. N > 0
                   BY <1>1, <1>2, <1>4, <1>5, <2>2
             <3>2. /\ N' - 1 \in 1 .. N' - 1 /\ N - 1 \in 0 .. N - 1
                   BY <1>2, <3>1
             <3>3. P(N - 1)' = P((N' - 1) - 1) /\ (N' - 1) - 1 \in 0 .. N - 1
                   BY <1>2, <3>2 DEF P
             <3>4. P(N - 1).end_time_ <= s
                   <4>1. CASE N < kNumFrames
                         <5>1. (N' - 1) - 1 = N - 1
                               BY <1>2, <4>1
                         <5>. QED  BY <1>12, <3>3, <5>1
                   <4>2. CASE N = kNumFrames
                         <5>1. (N' - 1) - 1 < N - 1
                               BY <1>2, <4>2
                         <5>2. P(N - 1).end_time_ < P((N' - 1) - 1).end_time_
                               BY <1>7, <3>2, <3>3, <5>1
                         <5>3. /\ P(N - 1).end_time_ \in Nat /\ P((N' - 1) - 1).end_time_ \in Nat
                               /\ s \in Nat
                               BY <1>4, <1>6, <2>2, <3>2, <3>3
                         <5>. QED  BY <1>12, <3>3, <5>2, <5>3
                   <4>. QED  BY <1>2, <4>1, <4>2
             <3>5. PICK i \in 0 .. N - 1 : P(i).end_time_ = s
                   BY <1>8, <2>2, <3>1, <3>4
             <3>6. i + 1 \in 1 .. N' - 1
                   <4>1. CASE N < kNumFrames
                         BY <1>2, <4>1
                   <4>2. CASE N = kNumFrames /\ i # N - 1
                         BY <1>2, <4>2
                   <4>3. CASE N = kNumFrames /\ i = N - 1
                         <5>1. (N' - 1) - 1 < N - 1
                               BY <1>2, <4>3
                         <5>2. P(N - 1).end_time_ < P((N' - 1) - 1).end_time_
                               BY <1>7, <3>2, <3>3, <5>1
                         <5>3. P(N - 1).end_time_ \in Nat /\ P((N' - 1) - 1).end_time_ \in Nat
                               BY <1>4, <1>6, <3>2, <3>3
                         <5>. QED  BY <1>12, <3>3, <3>5, <4>3, <5>2, <5>3
                   <4>. QED  BY <1>2, <4>1, <4>2, <4>3
             <3>7. P(i + 1)' = P((i + 1) - 1) /\ (i + 1) - 1 = i
                   BY <1>2, <3>6
             <3>8. i + 1 \in 0 .. N' - 1
                   BY <1>2, <3>6
             <3>. QED  BY <3>5, <3>7, <3>8
       <2>. QED  BY <1>1, <2>1, <2>2
<1>. QED  BY <1>1, <1>3, <1>9, <1>10, <1>11, <1>12 DEF Pairs

\* A frame keeps the invariant, and none of the checks it makes fails.
LEMMA FrameKeeps ==
    ASSUME Inv, NEW t, NEW m, Arrives(t, m)
    PROVE  Inv'
<1>0. /\ TypeOK /\ Clock /\ Pictures /\ Pairs /\ Objects /\ nextFrame(t, m)
      /\ timestamp < t
      BY DEF Inv, Arrives
<1>1. /\ t \in Nat /\ m \in Int /\ curr_time_ < t /\ curr_time_ \in Nat /\ num_frames_ \in Nat
      /\ curr_time_' = t /\ num_frames_' = num_frames_ + 1
      /\ lastTimestamp' = t /\ timestamp' = t
      /\ DOMAIN scene' = DOMAIN scene \union {t}
      /\ scene' \in [DOMAIN scene' -> Int]
      /\ trackedObjects' = trackedObjects /\ trackedObjects = DOMAIN objects_
      /\ DOMAIN objects_' = DOMAIN objects_
      BY FrameFacts
<1>2. \A id \in DOMAIN objects_ :
         /\ objects_[id] \in ObjectType /\ objects_'[id] \in ObjectType
         /\ objects_'[id].last_known_position_ = objects_[id].last_known_position_ + m
         /\ objects_'[id].last_detection_thumbnail_ = objects_[id].last_detection_thumbnail_
         /\ objects_'[id].last_frame_thumbnail_ =
              objects_'[id].last_known_position_ - scene'[t]
      BY FrameFacts
<1>3. /\ image' \in [Buffers -> [data : Nat, computed : BOOLEAN, derived : Nat]]
      /\ flow' \in [frame1_ : Buffers, frame2_ : Buffers]
      /\ Pictures' /\ handle' = Updated(handle, objects_')
      BY <1>0, <1>1, NextFrameFacts
<1>4. /\ handle' \in [Ids -> [tracker : {"none", "this", "other"}, isDead : BOOLEAN,
                              lastTrackedPosition : Int, place : Int, reached : BOOLEAN]]
      /\ \A id \in Ids : /\ handle'[id].tracker = handle[id].tracker
                         /\ handle'[id].isDead = handle[id].isDead
                         /\ handle'[id].place = handle[id].place
                         /\ handle'[id].reached = handle[id].reached
      /\ \A id \in trackedObjects :
           handle'[id].lastTrackedPosition = objects_'[id].last_known_position_
      <2>1. \A id \in trackedObjects : objects_'[id].last_known_position_ \in Int
            BY <1>1, <1>2 DEF ObjectType
      <2>. QED  BY <1>0, <1>3, <2>1, UpdatedFacts
<1>5. TypeOK'
      <2>1. queue' \in QueueType /\ debugHistory' \in Seq(Int)
            BY FrameQueue, FrameHistoryType
      <2>2. objects_' \in [DOMAIN objects_' -> ObjectType]
            BY FrameFacts
      <2>3. /\ frame1_' \in Buffers /\ frame2_' \in Buffers
            /\ instance' \in BOOLEAN /\ aborted' \in BOOLEAN
            BY <1>0 DEF nextFrame, TypeOK
      <2>4. downsampled' \in Nat
            <3>1. downsampled' = Downsampled(t)
                  BY <1>0 DEF nextFrame
            <3>. QED  BY <1>1, <3>1 DEF Downsampled
      <2>5. /\ DOMAIN objects_ \subseteq Ids /\ trackedObjects \subseteq Ids
            /\ DOMAIN scene \subseteq Nat
            BY <1>0 DEF TypeOK
      <2>6. flow' \in [frame1_ : Buffers \union {NULL}, frame2_ : Buffers \union {NULL}]
            BY <1>3
      <2>7. /\ curr_time_' \in Nat /\ num_frames_' \in Nat
            /\ lastTimestamp' \in Nat /\ timestamp' \in Nat
            /\ DOMAIN objects_' \subseteq Ids /\ trackedObjects' \subseteq Ids
            /\ DOMAIN scene' \subseteq Nat /\ scene' \in [DOMAIN scene' -> Int]
            BY <1>1, <2>5
      <2>. QED  BY <1>3, <1>4, <2>1, <2>2, <2>3, <2>4, <2>6, <2>7
                DEF TypeOK, QueueType, PairType, ObjectType
<1>6. Clock'
      <2>1. /\ 0 \in DOMAIN scene /\ \A s \in DOMAIN scene : s <= curr_time_ /\ s \in Nat
            BY <1>0, TypeFacts DEF Clock
      <2>. QED  BY <1>1, <2>1 DEF Clock
<1>7. Pairs'
      BY FramePairs
<1>8. Objects'
      <2>1. /\ trackedObjects \subseteq Ids
            /\ trackedObjects = {id \in Ids : checkValidObject(id)}
            /\ \A id \in trackedObjects :
                 /\ objects_[id].last_detection_thumbnail_ = handle[id].place
                 /\ always_track /\ handle[id].reached =>
                      objects_[id].last_known_position_ - scene[curr_time_] = handle[id].place
            BY <1>0 DEF Objects, TypeOK
      <2>2. \A id \in Ids : checkValidObject(id)' <=> checkValidObject(id)
            BY <1>4 DEF checkValidObject
      <2>3. trackedObjects' = {id \in Ids : checkValidObject(id)'}
            BY <1>1, <2>1, <2>2
      <2>4. num_frames_' > 0
            BY <1>1
      <2>5. \A id \in trackedObjects :
               /\ handle'[id].lastTrackedPosition = objects_'[id].last_known_position_
               /\ objects_'[id].last_detection_thumbnail_ = handle'[id].place
               /\ objects_'[id].last_frame_thumbnail_ =
                    objects_'[id].last_known_position_ - scene'[t]
            BY <1>1, <1>2, <1>4, <2>1
      <2>6. ASSUME NEW id \in trackedObjects, always_track, handle'[id].reached
            PROVE  objects_'[id].last_known_position_ - scene'[t] = handle'[id].place
            <3>1. /\ scene'[t] = scene[curr_time_] + m /\ scene[curr_time_] \in Int
                  BY <1>0, FrameFacts DEF Clock
            <3>2. /\ objects_[id].last_known_position_ \in Int
                  /\ objects_'[id].last_known_position_ = objects_[id].last_known_position_ + m
                  BY <1>1, <1>2 DEF ObjectType
            <3>3. /\ handle'[id].place = handle[id].place
                  /\ objects_[id].last_known_position_ - scene[curr_time_] = handle[id].place
                  BY <1>4, <2>1, <2>6
            <3>. QED  BY <1>1, <3>1, <3>2, <3>3
      <2>. QED  BY <1>1, <2>3, <2>4, <2>5, <2>6 DEF Objects
<1>9. ~aborted'
      <2>1. aborted' = (\/ ~(curr_time_ < t)
                        \/ ~(trackedObjects \subseteq DOMAIN objects_)
                        \/ lastTimestamp > t)
            BY <1>0 DEF nextFrame
      <2>2. lastTimestamp = curr_time_
            BY <1>0 DEF Clock
      <2>. QED  BY <1>1, <2>1, <2>2
<1>. QED  BY <1>3, <1>5, <1>6, <1>7, <1>8, <1>9 DEF Inv

\* A detection may be registered at the time of any frame.
LEMMA TrackKeeps ==
    ASSUME Inv, NEW id \in Ids, NEW box \in Boxes, NEW t \in DOMAIN scene \ {0},
           trackObject(id, box, t)
    PROVE  /\ Inv' /\ id \notin trackedObjects /\ UNCHANGED <<curr_time_, scene>>
           /\ \A i \in DOMAIN objects_ : objects_'[i] = objects_[i]
<1>0. TypeOK /\ Clock /\ Pictures /\ Pairs /\ Objects
      BY DEF Inv
<1>. DEFINE d == downscaleRect(box)
            pos == TrackBox(queue, d, t)
            new == [last_known_position_ |-> d,
                    last_detection_thumbnail_ |-> d - scene[Downsampled(t)],
                    last_frame_thumbnail_ |-> 0]
            object == UpdatePosition(new, pos, pos - scene[image[frame2_].data])
            reached == Reaches(queue, t)
            h == [tracker |-> "this", isDead |-> FALSE, lastTrackedPosition |-> pos,
                  place |-> d - scene[t], reached |-> reached]
<1>1. /\ ~checkValidObject(id)
      /\ downsampled' = Downsampled(t)
      /\ aborted' = (id \in DOMAIN objects_ \/ ~(0 < t /\ t <= curr_time_))
      /\ objects_' = [i \in DOMAIN objects_ \union {id} |->
                        IF i = id THEN object ELSE objects_[i]]
      /\ handle' = [handle EXCEPT ![id] = h]
      /\ trackedObjects' = trackedObjects \union {id}
      /\ UNCHANGED <<curr_time_, num_frames_, queue, frame1_, frame2_, image, flow,
                     instance, lastTimestamp, debugHistory, timestamp, scene>>
      BY DEF trackObject
<1>2. /\ t \in Nat /\ scene[t] \in Int /\ curr_time_ \in Nat /\ scene[curr_time_] \in Int
      /\ 0 < t /\ t <= curr_time_ /\ num_frames_ # 0 /\ num_frames_ \in Nat
      <2>1. /\ \A s \in DOMAIN scene : s \in Nat /\ scene[s] \in Int
            BY <1>0, TypeFacts
      <2>2. /\ curr_time_ \in DOMAIN scene /\ \A s \in DOMAIN scene : s <= curr_time_
            /\ num_frames_ = 0 <=> curr_time_ = 0
            BY <1>0 DEF Clock
      <2>3. num_frames_ \in Nat
            BY <1>0 DEF TypeOK
      <2>. QED  BY <2>1, <2>2, <2>3
<1>3. d \in Int /\ pos \in Int
      <2>1. d \in Int
            <3>1. box \in Int /\ DOWNSAMPLE_FACTOR \in Nat \ {0}
                  BY ObjectTrackerAssumption
            <3>. QED  BY <3>1 DEF downscaleRect
      <2>. HIDE DEF d
      <2>2. queue \in QueueType
            BY <1>0, TypeFacts
      <2>. QED  BY <1>2, <2>1, <2>2, TrackBoxType
<1>. HIDE DEF d
<1>3a. reached \in BOOLEAN /\ (always_track /\ reached => pos = d + (scene[curr_time_] - scene[t]))
       <2>1. reached \in BOOLEAN
             BY DEF Reaches
       <2>2. always_track /\ reached => TrackBox(queue, 0, t) = scene[curr_time_] - scene[t]
             BY <1>0, Exact DEF TrackBoxIsExact
       <2>3. pos = d + TrackBox(queue, 0, t)
             BY <1>0, <1>2, <1>3, TypeFacts, TrackBoxType
       <2>. HIDE DEF pos, reached
       <2>. QED  BY <2>1, <2>2, <2>3
<1>. HIDE DEF pos, reached
<1>4. Downsampled(t) = t /\ image[frame2_].data = curr_time_
      BY <1>0 DEF Downsampled, Pictures
<1>5. /\ object \in ObjectType /\ object.last_known_position_ = pos
      /\ object.last_detection_thumbnail_ = d - scene[t]
      /\ object.last_frame_thumbnail_ = pos - scene[curr_time_]
      <2>1. new = [last_known_position_ |-> d, last_detection_thumbnail_ |-> d - scene[t],
                   last_frame_thumbnail_ |-> 0]
            BY <1>4
      <2>2. new \in ObjectType /\ new.last_detection_thumbnail_ = d - scene[t]
            BY <1>2, <1>3, <2>1 DEF ObjectType
      <2>. HIDE DEF new
      <2>3. object = [last_known_position_ |-> pos,
                      last_detection_thumbnail_ |-> new.last_detection_thumbnail_,
                      last_frame_thumbnail_ |-> pos - scene[image[frame2_].data]]
            BY <2>2, UpdateFacts
      <2>4. object = [last_known_position_ |-> pos, last_detection_thumbnail_ |-> d - scene[t],
                      last_frame_thumbnail_ |-> pos - scene[curr_time_]]
            BY <1>4, <2>2, <2>3
      <2>. HIDE DEF object
      <2>. QED  BY <1>2, <1>3, <2>4 DEF ObjectType
<1>. HIDE DEF object
<1>6. id \notin DOMAIN objects_ /\ id \notin trackedObjects
      BY <1>0, <1>1 DEF Objects
<1>7. /\ handle' \in [Ids -> [tracker : {"none", "this", "other"}, isDead : BOOLEAN,
                              lastTrackedPosition : Int, place : Int, reached : BOOLEAN]]
      /\ handle'[id] = h
      /\ \A i \in Ids \ {id} : handle'[i] = handle[i]
      <2>1. handle \in [Ids -> [tracker : {"none", "this", "other"}, isDead : BOOLEAN,
                                lastTrackedPosition : Int, place : Int, reached : BOOLEAN]]
            BY <1>0 DEF TypeOK
      <2>2. h \in [tracker : {"none", "this", "other"}, isDead : BOOLEAN,
                   lastTrackedPosition : Int, place : Int, reached : BOOLEAN]
            BY <1>2, <1>3, <1>3a
      <2>. HIDE DEF h
      <2>. QED  BY <1>1, <2>1, <2>2
<1>8. /\ DOMAIN objects_' = DOMAIN objects_ \union {id} /\ objects_'[id] = object
      /\ \A i \in DOMAIN objects_ : objects_'[i] = objects_[i]
      /\ objects_' \in [DOMAIN objects_' -> ObjectType]
      <2>1. \A i \in DOMAIN objects_ : objects_[i] \in ObjectType
            BY <1>0 DEF TypeOK, ObjectType
      <2>. QED  BY <1>1, <1>5, <1>6, <2>1
<1>9. ~aborted' /\ aborted' \in BOOLEAN
      BY <1>1, <1>2, <1>6
<1>10. TypeOK'
       <2>1. downsampled' \in Nat
             BY <1>1, <1>2, <1>4
       <2>2. DOMAIN objects_' \subseteq Ids /\ trackedObjects' \subseteq Ids
             BY <1>0, <1>1, <1>8 DEF TypeOK
       <2>. QED  BY <1>0, <1>1, <1>7, <1>8, <1>9, <2>1, <2>2 DEF TypeOK, ObjectType
<1>11. Clock' /\ Pictures' /\ Pairs'
       BY <1>0, <1>1 DEF Clock, Pictures, Pairs, P, N
<1>12. Objects'
       <2>1. /\ trackedObjects = DOMAIN objects_
             /\ trackedObjects = {i \in Ids : checkValidObject(i)}
             /\ \A i \in trackedObjects :
                  /\ handle[i].lastTrackedPosition = objects_[i].last_known_position_
                  /\ objects_[i].last_detection_thumbnail_ = handle[i].place
                  /\ objects_[i].last_frame_thumbnail_ =
                       objects_[i].last_known_position_ - scene[curr_time_]
                  /\ always_track /\ handle[i].reached =>
                       objects_[i].last_known_position_ - scene[curr_time_] = handle[i].place
             BY <1>0 DEF Objects
       <2>2. trackedObjects \subseteq Ids
             BY <2>1
       <2>3. checkValidObject(id)' /\ \A i \in Ids \ {id} : checkValidObject(i)' <=> checkValidObject(i)
             BY <1>7 DEF checkValidObject
       <2>4. trackedObjects' = {i \in Ids : checkValidObject(i)'}
             BY <1>1, <2>1, <2>3
       <2>5. ASSUME NEW i \in trackedObjects'
             PROVE  /\ handle'[i].lastTrackedPosition = objects_'[i].last_known_position_
                    /\ objects_'[i].last_detection_thumbnail_ = handle'[i].place
                    /\ objects_'[i].last_frame_thumbnail_ =
                         objects_'[i].last_known_position_ - scene[curr_time_]
                    /\ always_track /\ handle'[i].reached =>
                         objects_'[i].last_known_position_ - scene[curr_time_] = handle'[i].place
             <3>1. CASE i = id
                   BY <1>2, <1>3, <1>5, <1>7, <1>8, <1>3a, <3>1
             <3>2. CASE i # id
                   BY <1>1, <1>7, <1>8, <2>1, <2>2, <3>2
             <3>. QED  BY <3>1, <3>2
       <2>6. num_frames_' > 0
             BY <1>1, <1>2
       <2>. QED  BY <1>1, <1>8, <2>1, <2>4, <2>5, <2>6 DEF Objects
<1>. QED  BY <1>1, <1>6, <1>8, <1>9, <1>10, <1>11, <1>12 DEF Inv

\* Only an object of this tracker is stopped, and it is found.
LEMMA StopKeeps ==
    ASSUME Inv, NEW id \in Ids, stopTracking(id)
    PROVE  /\ Inv' /\ UNCHANGED <<curr_time_, scene>>
           /\ \A i \in trackedObjects' : objects_'[i] = objects_[i]
<1>0. TypeOK /\ Clock /\ Pictures /\ Pairs /\ Objects
      BY DEF Inv
<1>1. /\ checkValidObject(id)
      /\ handle' = [handle EXCEPT ![id].isDead = TRUE]
      /\ aborted' = ~NativeFinds(id)
      /\ objects_' = [i \in DOMAIN objects_ \ {id} |-> objects_[i]]
      /\ trackedObjects' = trackedObjects \ {id}
      /\ UNCHANGED <<curr_time_, num_frames_, queue, frame1_, frame2_, image, flow,
                     instance, lastTimestamp, downsampled, debugHistory, timestamp, scene>>
      BY DEF stopTracking
<1>2. /\ trackedObjects = DOMAIN objects_
      /\ trackedObjects = {i \in Ids : checkValidObject(i)}
      /\ \A i \in trackedObjects :
           /\ handle[i].lastTrackedPosition = objects_[i].last_known_position_
           /\ objects_[i].last_detection_thumbnail_ = handle[i].place
           /\ objects_[i].last_frame_thumbnail_ =
                objects_[i].last_known_position_ - scene[curr_time_]
           /\ always_track /\ handle[i].reached =>
                objects_[i].last_known_position_ - scene[curr_time_] = handle[i].place
      /\ trackedObjects # {} => num_frames_ > 0
      BY <1>0 DEF Objects
<1>3. /\ handle' \in [Ids -> [tracker : {"none", "this", "other"}, isDead : BOOLEAN,
                              lastTrackedPosition : Int, place : Int, reached : BOOLEAN]]
      /\ handle'[id].isDead /\ \A i \in Ids \ {id} : handle'[i] = handle[i]
      <2>1. handle \in [Ids -> [tracker : {"none", "this", "other"}, isDead : BOOLEAN,
                                lastTrackedPosition : Int, place : Int, reached : BOOLEAN]]
            BY <1>0 DEF TypeOK
      <2>. QED  BY <1>1, <2>1
<1>4. /\ DOMAIN objects_' = DOMAIN objects_ \ {id}
      /\ \A i \in DOMAIN objects_ \ {id} : objects_'[i] = objects_[i]
      /\ objects_' \in [DOMAIN objects_' -> ObjectType]
      <2>1. \A i \in DOMAIN objects_ : objects_[i] \in ObjectType
            BY <1>0 DEF TypeOK, ObjectType
      <2>. QED  BY <1>1, <2>1
<1>5. ~aborted' /\ aborted' \in BOOLEAN
      BY <1>1, <1>2 DEF NativeFinds, checkValidObject
<1>6. TypeOK'
      BY <1>0, <1>1, <1>3, <1>4, <1>5 DEF TypeOK, ObjectType
<1>7. Clock' /\ Pictures' /\ Pairs'
      BY <1>0, <1>1 DEF Clock, Pictures, Pairs, P, N
<1>8. Objects'
      <2>1. ~checkValidObject(id)' /\ \A i \in Ids \ {id} : checkValidObject(i)' <=> checkValidObject(i)
            BY <1>3 DEF checkValidObject
      <2>2. trackedObjects' = {i \in Ids : checkValidObject(i)'}
            BY <1>1, <1>2, <2>1
      <2>3. \A i \in trackedObjects' :
               /\ handle'[i].lastTrackedPosition = objects_'[i].last_known_position_
               /\ objects_'[i].last_detection_thumbnail_ = handle'[i].place
               /\ objects_'[i].last_frame_thumbnail_ =
                    objects_'[i].last_known_position_ - scene'[curr_time_']
               /\ always_track /\ handle'[i].reached =>
                    objects_'[i].last_known_position_ - scene'[curr_time_'] = handle'[i].place
            BY <1>1, <1>2, <1>3, <1>4
      <2>. QED  BY <1>1, <1>2, <1>4, <2>2, <2>3 DEF Objects
<1>. QED  BY <1>1, <1>2, <1>4, <1>5, <1>6, <1>7, <1>8 DEF Inv

LEMMA StutterKeeps ==
    ASSUME Inv, UNCHANGED vars
    PROVE  Inv' /\ (History => History')
BY ZenonT(30) DEF Inv, TypeOK, Clock, Pictures, Pairs, Objects, History, checkValidObject, P, N,
       vars, native, java

\* A step is one of the calls; a frame is one that nextFrame may be given.
LEMMA Calls ==
    ASSUME Inv, Next
    PROVE  \/ open
           \/ \E t, m : Arrives(t, m)
           \/ \E id \in Ids, box \in Boxes, t \in DOMAIN scene \ {0} :
                trackObject(id, box, t)
           \/ \E id \in Ids : stopTracking(id)
<1>1. ASSUME NEW t \in timestamp + 1 .. timestamp + MaxGap, NEW m \in Motions,
             nextFrame(t, m)
      PROVE  Arrives(t, m)
      <2>1. timestamp \in Nat /\ MaxGap \in Nat /\ Motions \subseteq Int
            BY ObjectTrackerAssumption DEF Inv, TypeOK
      <2>2. t \in Nat /\ timestamp < t /\ m \in Int
            BY <2>1
      <2>. QED  BY <1>1, <2>2 DEF Arrives
<1>. QED  BY <1>1, Zenon DEF Next

LEMMA InvStep ==
    ASSUME Inv, [Next]_vars
    PROVE  Inv'
<1>1. CASE UNCHANGED vars
      BY <1>1, StutterKeeps
<1>2. CASE Next
      BY <1>2, Calls, OpenKeeps, FrameKeeps, TrackKeeps, StopKeeps
<1>. QED  BY <1>1, <1>2

\* Over a frame the objects move with the scene; nothing else moves them.
LEMMA AnchoredStep ==
    ASSUME Inv, [Next]_vars
    PROVE  \A id \in trackedObjects \intersect trackedObjects' :
             objects_'[id].last_known_position_ - scene'[curr_time_']
               = objects_[id].last_known_position_ - scene[curr_time_]
<1>0. /\ trackedObjects = DOMAIN objects_
      /\ \A id \in trackedObjects : objects_[id].last_known_position_ \in Int
      /\ curr_time_ \in DOMAIN scene
      BY DEF Inv, Objects, TypeOK, Clock
<1>1. CASE UNCHANGED vars
      BY <1>1 DEF vars, native, java
<1>2. CASE open
      BY <1>2 DEF open
<1>3. ASSUME NEW t, NEW m, Arrives(t, m)
      PROVE  \A id \in trackedObjects \intersect trackedObjects' :
               objects_'[id].last_known_position_ - scene'[curr_time_']
                 = objects_[id].last_known_position_ - scene[curr_time_]
      <2>1. /\ curr_time_' = t /\ m \in Int /\ scene[curr_time_] \in Int
            /\ scene'[t] = scene[curr_time_] + m
            BY <1>0, <1>3, FrameFacts
      <2>2. \A id \in DOMAIN objects_ :
               objects_'[id].last_known_position_ = objects_[id].last_known_position_ + m
            BY <1>3, FrameFacts
      <2>. QED  BY <1>0, <2>1, <2>2
<1>4. ASSUME NEW id \in Ids, NEW box \in Boxes, NEW t \in DOMAIN scene \ {0},
             trackObject(id, box, t)
      PROVE  \A i \in trackedObjects \intersect trackedObjects' :
               objects_'[i].last_known_position_ - scene'[curr_time_']
                 = objects_[i].last_known_position_ - scene[curr_time_]
      <2>1. UNCHANGED <<curr_time_, scene>> /\ \A i \in DOMAIN objects_ : objects_'[i] = objects_[i]
            BY <1>4, TrackKeeps
      <2>. QED  BY <1>0, <2>1
<1>5. ASSUME NEW id \in Ids, stopTracking(id)
      PROVE  \A i \in trackedObjects \intersect trackedObjects' :
               objects_'[i].last_known_position_ - scene'[curr_time_']
                 = objects_[i].last_known_position_ - scene[curr_time_]
      <2>1. UNCHANGED <<curr_time_, scene>> /\ \A i \in trackedObjects' : objects_'[i] = objects_[i]
            BY <1>5, StopKeeps
      <2>. QED  BY <2>1
<1>. QED  BY <1>1, <1>2, <1>3, <1>4, <1>5, Calls

--------------------------------------------------------------------------------
(* The history line.                                                       *)

\* With the frame before in the queue, TrackBox adds up the newest pair only.
LEMMA NewestMoved ==
    ASSUME Inv, NEW t, NEW m, Arrives(t, m), always_track, curr_time_ # 0
    PROVE  TrackBox(queue', 0, lastTimestamp) = m
<1>0. /\ t \in Nat /\ m \in Int /\ curr_time_ < t /\ curr_time_ \in Nat /\ num_frames_ \in Nat
      BY FrameFacts
<1>1. lastTimestamp = curr_time_ /\ num_frames_ # 0
      BY DEF Inv, Clock
<1>2. /\ N \in 0 .. kNumFrames /\ kNumFrames \in Nat /\ kNumFrames >= 2
      /\ N' = IF N < kNumFrames THEN N + 1 ELSE kNumFrames
      /\ \A i \in 1 .. N' - 1 : P(i)' = P(i - 1) /\ i - 1 \in 0 .. N - 1
      /\ queue' \in QueueType
      BY FrameQueue
<1>3. P(0)'.end_time_ = t /\ P(0)'.moved = m
      <2>1. Tracks
            BY <1>0, <1>1 DEF Tracks
      <2>. QED  BY <2>1, FrameQueue
<1>4. N > 0 /\ P(0).end_time_ = curr_time_
      BY <1>0, <1>1, <1>2 DEF Inv, Pairs
<1>5. 1 \in 1 .. N' - 1 /\ P(1)'.end_time_ = curr_time_
      <2>1. 1 \in 1 .. N' - 1 /\ 1 - 1 = 0
            BY <1>2, <1>4
      <2>. QED  BY <1>2, <1>4, <2>1
<1>. DEFINE q == queue'
            k == num_frames_back(q, curr_time_)
<1>6. /\ N' = q.curr_num_frame_pairs_
      /\ P(0)' = NthPairFromEnd(q, 0) /\ P(1)' = NthPairFromEnd(q, 1)
      BY DEF N, P
<1>7. q \in QueueType
      BY <1>2
<1>8. TrackBox(queue', 0, lastTimestamp) = TrackBox(q, 0, curr_time_)
      BY <1>1
<1>. HIDE DEF q
<1>9. k + 1 \in 0 .. 1 /\ NthPairFromEnd(q, k + 1).end_time_ <= curr_time_ /\ k \in Int
      <2>1. /\ 1 \in 0 .. q.curr_num_frame_pairs_ - 1 /\ curr_time_ \in Int
            /\ NthPairFromEnd(q, 1).end_time_ <= curr_time_
            BY <1>0, <1>2, <1>5, <1>6
      <2>2. /\ k \in -1 .. q.curr_num_frame_pairs_ - 1
            /\ k + 1 \in 0 .. 1 /\ NthPairFromEnd(q, k + 1).end_time_ <= curr_time_
            BY <1>7, <2>1, BackFacts
      <2>. QED  BY <2>2
<1>. HIDE DEF k
<1>10. k = 0
       <2>1. CASE k + 1 = 0
             BY <1>0, <1>3, <1>6, <1>9, <2>1
       <2>. QED  BY <1>9, <2>1
<1>11. Shift(q)[0] = NthPairFromEnd(q, 0).moved + Shift(q)[-1] /\ Shift(q)[-1] = 0
       <2>1. 0 \in -1 .. kNumFrames - 1 /\ -1 \in -1 .. kNumFrames - 1 /\ 0 - 1 = -1
             BY <1>2
       <2>. QED  BY <2>1, ShiftDef
<1>12. TrackBox(q, 0, curr_time_) = 0 + Shift(q)[k]
       BY TrackBoxShift DEF k
<1>. QED  BY <1>0, <1>3, <1>6, <1>8, <1>10, <1>11, <1>12

\* The new point of the line belongs to the new pair, all others to the pairs
\* they belonged to, which are one further from the end.
LEMMA FrameHistory ==
    ASSUME Inv, History, always_track,
           NEW t, NEW m, Arrives(t, m)
    PROVE  History'
<1>0. /\ t \in Nat /\ m \in Int /\ curr_time_ < t /\ curr_time_ \in Nat /\ num_frames_ \in Nat
      /\ num_frames_' = num_frames_ + 1
      /\ \A s \in DOMAIN scene : scene'[s] = scene[s] /\ scene[s] \in Int
      /\ scene'[t] = scene[curr_time_] + m
      BY FrameFacts
<1>1. /\ lastTimestamp = curr_time_ /\ (num_frames_ = 0 <=> curr_time_ = 0)
      /\ curr_time_ \in DOMAIN scene
      /\ debugHistory \in Seq(Int) /\ Len(debugHistory) \in Nat
      BY DEF Inv, Clock, TypeOK
<1>2. /\ N \in 0 .. kNumFrames /\ kNumFrames \in Nat /\ kNumFrames >= 2
      /\ N' = IF N < kNumFrames THEN N + 1 ELSE kNumFrames
      /\ \A i \in 1 .. N' - 1 : P(i)' = P(i - 1) /\ i - 1 \in 0 .. N - 1
      /\ P(0)'.start_time_ = curr_time_ /\ P(0)'.end_time_ = t
      BY FrameQueue
<1>3. /\ N = IF num_frames_ < kNumFrames THEN num_frames_ ELSE kNumFrames
      /\ \A i \in 0 .. N - 1 : P(i).start_time_ \in DOMAIN scene /\ P(i).end_time_ \in DOMAIN scene
      BY DEF Inv, Pairs
<1>4. debugHistory' = DebugHistory(queue') /\ debugHistory' \in Seq(Int)
      BY FrameHistoryType
<1>5. CASE curr_time_ = 0
      <2>1. debugHistory' = debugHistory
            BY <1>1, <1>4, <1>5 DEF DebugHistory
      <2>2. Len(debugHistory) = 0
            BY <1>1, <1>5 DEF History
      <2>. QED  BY <1>0, <2>1, <2>2 DEF History
<1>6. CASE curr_time_ # 0
      <2>. DEFINE x == upscaleRect(m)
                  L == Len(debugHistory)
                  s == Append(debugHistory, x)
                  r == Shortened(s)
      <2>1. x \in Int
            BY <1>0, ObjectTrackerAssumption DEF upscaleRect
      <2>2. debugHistory' = r
            BY <1>1, <1>4, <1>6, NewestMoved DEF DebugHistory
      <2>. HIDE DEF x
      <2>3. /\ s \in Seq(Int) /\ Len(s) = L + 1 /\ s[L + 1] = x
            /\ \A i \in 1 .. L : s[i] = debugHistory[i]
            BY <1>1, <2>1
      <2>. HIDE DEF s
      <2>4. /\ r \in Seq(Int) /\ Len(r) <= L + 1 /\ Len(r) \in Nat
            /\ \A j \in 0 .. Len(r) - 1 : r[Len(r) - j] = s[(L + 1) - j]
            <3>1. r \in Seq(Int) /\ Len(r) <= Len(s)
                  /\ \A j \in 0 .. Len(r) - 1 : r[Len(r) - j] = s[Len(s) - j]
                  BY <2>3, ShortenedFacts
            <3>2. Len(r) \in Nat
                  BY <3>1
            <3>. QED  BY <2>3, <3>1, <3>2
      <2>. HIDE DEF r
      <2>5. /\ L <= num_frames_ - 1 /\ L \in Nat
            /\ \A j \in 0 .. L - 1 :
                 j < kNumFrames =>
                    debugHistory[L - j] = upscaleRect(scene[P(j).end_time_] - scene[P(j).start_time_])
            BY <1>1, <1>6 DEF History
      <2>. HIDE DEF L
      <2>6. Len(r) <= num_frames_'  - 1 /\ num_frames_' # 0
            BY <1>0, <2>4, <2>5
      <2>7. ASSUME NEW j \in 0 .. Len(r) - 1, j < kNumFrames
            PROVE  r[Len(r) - j] = upscaleRect(scene'[P(j)'.end_time_] - scene'[P(j)'.start_time_])
            <3>1. CASE j = 0
                  <4>1. r[Len(r) - j] = x
                        <5>1. r[Len(r) - j] = s[(L + 1) - j]
                              BY <2>4
                        <5>2. (L + 1) - j = L + 1
                              BY <2>5, <3>1
                        <5>. QED  BY <2>3, <5>1, <5>2
                  <4>2. scene'[P(j)'.end_time_] - scene'[P(j)'.start_time_] = m
                        <5>1. scene'[t] - scene'[curr_time_] = m
                              BY <1>0, <1>1
                        <5>. QED  BY <1>2, <3>1, <5>1
                  <4>. QED  BY <4>1, <4>2 DEF x
            <3>2. CASE j # 0
                  <4>1. j \in 1 .. N' - 1 /\ j - 1 \in 0 .. L - 1 /\ j - 1 < kNumFrames
                        BY <1>0, <1>2, <1>3, <2>4, <2>5, <2>7, <3>2
                  <4>2. P(j)' = P(j - 1) /\ j - 1 \in 0 .. N - 1
                        BY <1>2, <4>1
                  <4>3. r[Len(r) - j] = debugHistory[L - (j - 1)]
                        <5>1. r[Len(r) - j] = s[(L + 1) - j]
                              BY <2>4
                        <5>2. (L + 1) - j = L - (j - 1) /\ L - (j - 1) \in 1 .. L
                              BY <2>5, <4>1
                        <5>. QED  BY <2>3, <5>1, <5>2
                  <4>4. debugHistory[L - (j - 1)] =
                           upscaleRect(scene[P(j - 1).end_time_] - scene[P(j - 1).start_time_])
                        BY <2>5, <4>1
                  <4>5. /\ scene'[P(j)'.end_time_] = scene[P(j - 1).end_time_]
                        /\ scene'[P(j)'.start_time_] = scene[P(j - 1).start_time_]
                        BY <1>0, <1>3, <4>2
                  <4>. QED  BY <4>3, <4>4, <4>5
            <3>. QED  BY <3>1, <3>2
      <2>. QED  BY <2>2, <2>6, <2>7 DEF History
<1>. QED  BY <1>5, <1>6

LEMMA HistoryStep ==
    ASSUME always_track, Inv, History, [Next]_vars
    PROVE  History'
<1>1. CASE UNCHANGED vars
      BY <1>1, StutterKeeps
<1>2. CASE open
      <2>1. Len(debugHistory') = 0 /\ num_frames_' = 0
            BY <1>2 DEF open
      <2>. QED  BY <2>1 DEF History
<1>3. ASSUME NEW t, NEW m, Arrives(t, m)
      PROVE  History'
      BY <1>3, FrameHistory
<1>4. CASE UNCHANGED <<queue, num_frames_, scene, debugHistory>>
      BY <1>4 DEF History, P
<1>5. ASSUME NEW id, NEW box, NEW t, trackObject(id, box, t)
      PROVE  UNCHANGED <<queue, num_frames_, scene, debugHistory>>
      BY <1>5 DEF trackObject
<1>6. ASSUME NEW id, stopTracking(id)
      PROVE  UNCHANGED <<queue, num_frames_, scene, debugHistory>>
      BY <1>6 DEF stopTracking
<1>. QED  BY <1>1, <1>2, <1>3, <1>4, <1>5, <1>6, Calls

--------------------------------------------------------------------------------
(* Theorems.                                                               *)

LEMMA InvCorrect == Spec => []Inv
<1>1. Init => Inv
      BY InitInv
<1>2. Inv /\ [Next]_vars => Inv'
      BY InvStep
<1>. QED  BY <1>1, <1>2, PTL DEF Spec

\* Every variable of the tracker keeps its type.
THEOREM TypeCorrect == Spec => []TypeOK
<1>1. Inv => TypeOK
      BY DEF Inv
<1>. QED  BY <1>1, InvCorrect, PTL

\* No CHECK_ALWAYS of the native code fails, whatever Java calls.
THEOREM NoCheckFailsCorrect == Spec => []NoCheckFails
<1>1. Inv => NoCheckFails
      BY DEF Inv, NoCheckFails
<1>. QED  BY <1>1, InvCorrect, PTL

\* TrackBox is exact for every frame that a queue of any length reaches.
THEOREM TrackBoxIsExactCorrect == Spec => []TrackBoxIsExact
<1>1. Inv => TrackBoxIsExact
      BY Exact DEF Inv
<1>. QED  BY <1>1, InvCorrect, PTL

\* The correlation is taken of the frame of the detection and of the newest
\* frame, and a box that the queue could follow is where its detector saw it.
THEOREM ComparesTheRightPlacesCorrect == Spec => []ComparesTheRightPlaces
<1>1. Inv => ComparesTheRightPlaces
      BY DEF Inv, Objects, ComparesTheRightPlaces
<1>. QED  BY <1>1, InvCorrect, PTL

\* A tracked object stays fixed to its place in the scene.
THEOREM StaysAnchoredCorrect == Spec => StaysAnchored
<1>1. Inv /\ [Next]_vars =>
        [\A id \in trackedObjects \intersect trackedObjects' :
           objects_'[id].last_known_position_ - scene'[curr_time_']
             = objects_[id].last_known_position_ - scene[curr_time_]]_vars
      BY AnchoredStep
<1>. QED  BY <1>1, InvCorrect, PTL DEF Spec, StaysAnchored

\* With always_track, which is what MultiBoxTracker passes, the two sides
\* agree on the objects and the history line shows the last frames' motion.
THEOREM JavaSeesNativeCorrect ==
    ASSUME always_track
    PROVE  Spec => []JavaSeesNative
<1>1. Init => Inv /\ History
      BY InitInv DEF Init, History
<1>2. Inv /\ History /\ [Next]_vars => Inv' /\ History'
      BY InvStep, HistoryStep
<1>3. Inv /\ History => JavaSeesNative
      <2>. SUFFICES ASSUME Inv, History
                    PROVE  JavaSeesNative
           OBVIOUS
      <2>1. Len(debugHistory) \in Nat
            BY DEF Inv, TypeOK
      <2>2. ASSUME NEW i \in 1 .. Len(debugHistory), Len(debugHistory) - i < kNumFrames
            PROVE  debugHistory[i] =
                     upscaleRect(scene[P(Len(debugHistory) - i).end_time_]
                                   - scene[P(Len(debugHistory) - i).start_time_])
            <3>1. /\ Len(debugHistory) - i \in 0 .. Len(debugHistory) - 1
                  /\ Len(debugHistory) - (Len(debugHistory) - i) = i
                  BY <2>1
            <3>. QED  BY <2>2, <3>1 DEF History
      <2>. QED  BY <2>2 DEF JavaSeesNative, Inv, Objects, P
<1>. QED  BY <1>1, <1>2, <1>3, PTL DEF Spec
================================================================================
