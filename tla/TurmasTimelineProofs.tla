------------------------ MODULE TurmasTimelineProofs ------------------------
(***************************************************************************)
(* Proofs about the timelines of Turmas: as long as the primary is not       *)
(* killed, every timeline, of a replica, in a handler or in flight, is an    *)
(* initial part of the primary's, and what the replicas derive from theirs   *)
(* (the capacity, the number of enrolled students) stays right.  The         *)
(* argument is about keys: two initial parts of one timeline have comparable *)
(* sets of keys, so comparing lengths, which is all correctTimeline does,    *)
(* compares the timelines.                                                   *)
(***************************************************************************)
EXTENDS TurmasProofs

-----------------------------------------------------------------------------
(* The inductive invariant. *)

\* A map: one frame for an instant, kept under its start.
OneFramePerInstant(times) ==
    /\ times \subseteq TimeFrame /\ IsFiniteSet(times)
    /\ \A f \in times : f.key = f.start /\ f.key # NoInstant
    /\ \A f, g \in times : f.key = g.key => f = g

\* About instances where the primary is not killed.
TimelineInv ==
    /\ \A s \in Servers : aClass[s].flag = FlagOf(s)
    /\ \A times \in Timelines : OneFramePerInstant(times)
    /\ TimelinesArePrefixes
    /\ CapacityIsCurrent
    /\ EnrolledWithinHistory

\* The instants at which the frames of a timeline start.
Keys(times) == {f.key : f \in times}

\* A timeline with one frame for an instant, none of them later than now.
Kept(times, now) == OneFramePerInstant(times) /\ \A f \in times : f.key =< now

-----------------------------------------------------------------------------
(* One timeline. *)

LEMMA KeptFrames ==
    ASSUME NEW now \in Nat, NEW times, Kept(times, now)
    PROVE  /\ times \in SUBSET TimeFrame /\ IsFiniteSet(times)
           /\ \A f \in times : /\ f.key \in Nat /\ f.key = f.start /\ f.key # NoInstant
                               /\ f.key =< now /\ f.end \in Nat /\ f.capacity \in Int
           /\ \A f, g \in times : f.key = g.key => f = g
BY DEF Kept, OneFramePerInstant, TimeFrame, Instant

\* Every other frame starts before the first one.
LEMMA KeptFirst ==
    ASSUME NEW now \in Nat, NEW times, Kept(times, now), times # {}
    PROVE  /\ FirstFrame(times) \in times
           /\ \A f \in times : f.key =< FirstFrame(times).key
           /\ \A f \in times : f # FirstFrame(times) => f.key < FirstFrame(times).key
<1>1. /\ FirstFrame(times) \in times
      /\ \A f \in times : f.key =< FirstFrame(times).key
  BY KeptFrames, FirstFrameIsLatest
<1>2. ASSUME NEW f \in times, f # FirstFrame(times)
      PROVE  f.key < FirstFrame(times).key
  <2>1. f.key # FirstFrame(times).key
    BY <1>1, <1>2, KeptFrames
  <2>2. f.key \in Nat /\ FirstFrame(times).key \in Nat
    BY <1>1, KeptFrames
  <2> QED
    BY <1>1, <2>1, <2>2
<1> QED
  BY <1>1, <1>2

\* The frame with the largest key is the first one.
LEMMA FirstByKey ==
    ASSUME NEW now \in Nat, NEW times, Kept(times, now), NEW f \in times,
           \A g \in times : g.key =< f.key
    PROVE  f = FirstFrame(times)
<1>1. f.key \in Nat /\ FirstFrame(times).key \in Nat
  BY KeptFirst, KeptFrames
<1> QED
  BY <1>1, KeptFirst

\* A timeline has as many keys as frames.
LEMMA KeysCount ==
    ASSUME NEW now \in Nat, NEW times, Kept(times, now)
    PROVE  IsFiniteSet(Keys(times)) /\ Cardinality(Keys(times)) = Cardinality(times)
<1> DEFINE key == [f \in times |-> f.key]
<1>1. key \in Bijection(times, Keys(times))
  <2>1. key \in [times -> Keys(times)]
    BY DEF Keys
  <2>2. \A f, g \in times : key[f] = key[g] => f = g
    BY KeptFrames
  <2>3. \A k \in Keys(times) : \E f \in times : key[f] = k
    BY DEF Keys
  <2> QED
    BY <2>1, <2>2, <2>3 DEF Bijection, Injection, Surjection, IsInjective
<1>2. ExistsBijection(times, Keys(times))
  BY <1>1 DEF ExistsBijection
<1> QED
  BY <1>2, FS_Bijection, KeptFrames

-----------------------------------------------------------------------------
(* Initial parts. *)

\* The frame of the primary's timeline that a frame of an initial part copies.
LEMMA PartFrame ==
    ASSUME NEW now \in Nat, NEW primary, Kept(primary, now),
           NEW times, Kept(times, now), InitialPart(times, primary), NEW f \in times
    PROVE  /\ \E g \in primary : /\ Precedes(f, g)
                                 /\ (f # FirstFrame(times) => f = g)
           /\ \A g \in primary : g.key = f.key => Precedes(f, g)
           /\ \A g \in primary : g.key < f.key => g \in times
<1>1. PICK g \in primary : Precedes(f, g) /\ (f # FirstFrame(times) => f = g)
  BY DEF InitialPart
<1>2. \A h \in primary : h.key = f.key => h = g
  BY <1>1, KeptFrames DEF Precedes
<1> QED
  BY <1>1, <1>2 DEF InitialPart

\* The keys of an initial part are the primary's up to some key.
LEMMA PartKeys ==
    ASSUME NEW now \in Nat, NEW primary, Kept(primary, now),
           NEW times, Kept(times, now), InitialPart(times, primary)
    PROVE  /\ Keys(times) \subseteq Keys(primary)
           /\ \A k \in Keys(primary), j \in Keys(times) : k < j => k \in Keys(times)
<1>1. \A f \in times : f.key \in Keys(primary)
  BY PartFrame DEF Precedes, Keys
<1>2. \A g \in primary, f \in times : g.key < f.key => g.key \in Keys(times)
  BY PartFrame DEF Keys
<1> QED
  BY <1>1, <1>2 DEF Keys

\* Of two initial parts, one has all the keys of the other.
LEMMA PartsComparable ==
    ASSUME NEW now \in Nat, NEW primary, Kept(primary, now),
           NEW A, Kept(A, now), InitialPart(A, primary),
           NEW B, Kept(B, now), InitialPart(B, primary)
    PROVE  Keys(A) \subseteq Keys(B) \/ Keys(B) \subseteq Keys(A)
<1> SUFFICES ASSUME NEW j \in Keys(A), j \notin Keys(B), NEW k \in Keys(B)
             PROVE  k \in Keys(A)
  OBVIOUS
<1>1. j \in Keys(primary) /\ k \in Keys(primary)
  BY PartKeys
<1>2. j \in Nat /\ k \in Nat
  BY KeptFrames DEF Keys
<1>3. ~(j < k) /\ j # k
  BY <1>1, PartKeys
<1>4. k < j
  BY <1>2, <1>3
<1> QED
  BY <1>1, <1>4, PartKeys

\* A received timeline that is not shorter has every key of the local one, and the
\* same keys exactly when it has the same length.
LEMMA NotStaleKeys ==
    ASSUME NEW now \in Nat, NEW primary, Kept(primary, now),
           NEW local, Kept(local, now), InitialPart(local, primary),
           NEW received, Kept(received, now), InitialPart(received, primary),
           ~StaleTimeline(local, received)
    PROVE  /\ Keys(local) \subseteq Keys(received)
           /\ Cardinality(received) = Cardinality(local) <=> Keys(local) = Keys(received)
<1>1. /\ IsFiniteSet(Keys(local)) /\ Cardinality(Keys(local)) = Cardinality(local)
      /\ IsFiniteSet(Keys(received)) /\ Cardinality(Keys(received)) = Cardinality(received)
  BY KeysCount
<1>2. Cardinality(Keys(local)) \in Nat /\ Cardinality(Keys(received)) \in Nat
  BY <1>1, FS_CardinalityType
<1>3. Cardinality(Keys(local)) =< Cardinality(Keys(received))
  BY <1>1, <1>2 DEF StaleTimeline
<1>4. Keys(received) \subseteq Keys(local) => Keys(received) = Keys(local)
  <2> SUFFICES ASSUME Keys(received) \in SUBSET Keys(local)
               PROVE  Keys(received) = Keys(local)
    OBVIOUS
  <2>1. Cardinality(Keys(received)) =< Cardinality(Keys(local))
    BY <1>1, FS_Subset
  <2>2. Cardinality(Keys(local)) = Cardinality(Keys(received))
    BY <1>2, <1>3, <2>1
  <2> QED
    BY <1>1, <2>2, FS_Subset
<1>5. Keys(local) \subseteq Keys(received)
  BY <1>4, PartsComparable
<1>6. Cardinality(received) = Cardinality(local) => Keys(local) = Keys(received)
  BY <1>1, <1>5, FS_Subset
<1> QED
  BY <1>1, <1>5, <1>6

\* Two initial parts with the same keys have the same frames but for the last.
LEMMA PartsAgree ==
    ASSUME NEW now \in Nat, NEW primary, Kept(primary, now),
           NEW A, Kept(A, now), InitialPart(A, primary),
           NEW B, Kept(B, now), InitialPart(B, primary),
           NEW f \in A, \E j \in Keys(A) : f.key < j, \E k \in Keys(B) : f.key < k
    PROVE  f \in B
<1>1. PICK a \in A : f.key < a.key
  BY DEF Keys
<1>2. PICK b \in B : f.key < b.key
  BY DEF Keys
<1>3. f # FirstFrame(A)
  <2>1. a.key =< FirstFrame(A).key /\ FirstFrame(A) \in A
    BY KeptFirst
  <2>2. a.key \in Nat /\ f.key \in Nat
    BY KeptFrames
  <2> QED
    BY <1>1, <2>1, <2>2
<1>4. f \in primary
  BY <1>3, PartFrame
<1> QED
  BY <1>2, <1>4, PartFrame

\* The first frames of two timelines with the same keys start at one instant.
LEMMA SameFirstKey ==
    ASSUME NEW now \in Nat, NEW A, Kept(A, now), NEW B, Kept(B, now),
           A # {}, Keys(A) = Keys(B)
    PROVE  B # {} /\ FirstFrame(A).key = FirstFrame(B).key
<1>1. B # {}
  BY DEF Keys
<1>2. FirstFrame(A) \in A /\ FirstFrame(B) \in B
  BY <1>1, KeptFirst
<1>3. PICK b \in B : b.key = FirstFrame(A).key
  BY <1>2 DEF Keys
<1>4. PICK a \in A : a.key = FirstFrame(B).key
  BY <1>2 DEF Keys
<1>5. FirstFrame(A).key =< FirstFrame(B).key /\ FirstFrame(B).key =< FirstFrame(A).key
  BY <1>1, <1>3, <1>4, KeptFirst
<1>6. FirstFrame(A).key \in Nat /\ FirstFrame(B).key \in Nat
  BY <1>2, KeptFrames
<1> QED
  BY <1>1, <1>5, <1>6

\* Merging timelines of one length: the local one stays, or its first frame is
\* replaced by the received one, which gives the received timeline.
LEMMA MergeSameLength ==
    ASSUME NEW now \in Nat, NEW primary, Kept(primary, now),
           NEW local, Kept(local, now), InitialPart(local, primary), local # {},
           NEW received, Kept(received, now), InitialPart(received, primary),
           Cardinality(received) = Cardinality(local), Keys(local) = Keys(received)
    PROVE  \/ MergedTimes(local, received) = local
           \/ /\ MergedTimes(local, received) = received
              /\ FirstFrame(received).end # NoInstant
<1> DEFINE first == FirstFrame(received)
<1>1. received # {} /\ FirstFrame(local).key = first.key
  BY SameFirstKey
<1>2. first \in received /\ first \in TimeFrame
  BY <1>1, KeptFirst, KeptFrames
<1>3. [first EXCEPT !.key = FirstFrame(local).key] = first
  BY <1>1, <1>2 DEF TimeFrame
<1>4. PutAll(local, {first}) = received
  <2>1. \A f \in received : f = first \/ f \in local
    <3> SUFFICES ASSUME NEW f \in received, f # first PROVE f \in local
      OBVIOUS
    <3>1. f.key < first.key /\ first.key \in Keys(received)
      BY <1>1, <1>2, KeptFirst DEF Keys
    <3> QED
      BY <3>1, PartsAgree
  <2>2. \A f \in local : f.key # first.key => f \in received
    <3> SUFFICES ASSUME NEW f \in local, f.key # first.key PROVE f \in received
      OBVIOUS
    <3>1. f.key < first.key
      BY <1>1, KeptFirst
    <3>2. first.key \in Keys(received)
      BY <1>2 DEF Keys
    <3> QED
      BY <3>1, <3>2, PartsAgree
  <2>3. \A f \in received : f # first => f.key # first.key
    BY <1>2, KeptFrames
  <2> HIDE DEF first
  <2> QED
    BY <1>2, <2>1, <2>2, <2>3 DEF PutAll
<1>5. \/ MergedTimes(local, received) = local
      \/ /\ MergedTimes(local, received)
                = PutAll(local, {[first EXCEPT !.key = FirstFrame(local).key]})
         /\ first.end # NoInstant
  BY DEF MergedTimes
<1> QED
  BY <1>3, <1>4, <1>5

\* Merging a longer timeline: the frames before the local first one are the same
\* and the others are received, which gives the received timeline.
LEMMA MergeLonger ==
    ASSUME NEW now \in Nat, NEW primary, Kept(primary, now),
           NEW local, Kept(local, now), InitialPart(local, primary), local # {},
           NEW received, Kept(received, now), InitialPart(received, primary),
           Cardinality(received) # Cardinality(local), Keys(local) \subseteq Keys(received)
    PROVE  MergedTimes(local, received) = received
<1> DEFINE first == FirstFrame(local)
           since == {f \in received : f.start >= first.start}
<1>1. first \in local /\ first.key = first.start /\ first.key \in Nat
  BY KeptFirst, KeptFrames
<1>2. PICK r \in received : r.key = first.key
  BY <1>1 DEF Keys
<1>3. r.start = first.start
  BY <1>1, <1>2, KeptFrames
<1>4. MergedTimes(local, received) = PutAll(local, since)
  BY <1>3 DEF MergedTimes, FramesSince
<1>5. \A f \in received : f \in since <=> ~(f.key < first.key)
  BY <1>1, KeptFrames
<1>6. \A f \in received : f \in since \/ f \in local
  <2> SUFFICES ASSUME NEW f \in received, f.key < first.key PROVE f \in local
    BY <1>5
  <2>1. first.key \in Keys(local) /\ first.key \in Keys(received)
    BY <1>1, <1>2 DEF Keys
  <2> QED
    BY <2>1, PartsAgree
<1>7. \A f \in local : f.key < first.key => f \in received
  <2> SUFFICES ASSUME NEW f \in local, f.key < first.key PROVE f \in received
    OBVIOUS
  <2>1. first.key \in Keys(local) /\ first.key \in Keys(received)
    BY <1>1, <1>2 DEF Keys
  <2> QED
    BY <2>1, PartsAgree
<1>8. \A f \in local : f.key < first.key \/ f.key = first.key
  <2>1. \A f \in local : f = first \/ f.key < first.key
    BY KeptFirst
  <2> QED
    BY <2>1
<1>9. r \in since /\ since \subseteq received
  <2>1. ~(r.key < first.key)
    BY <1>1, <1>2
  <2> QED
    BY <1>5, <2>1
<1>10. \A f \in received : f.key < first.key => \A g \in since : g.key # f.key
  BY <1>5
<1> HIDE DEF since, first
<1> QED
  BY <1>2, <1>4, <1>5, <1>6, <1>7, <1>8, <1>9, <1>10 DEF PutAll

\* What correctTimeline makes of a timeline it does not skip: the local one or the
\* received one, whichever it is with the received keys.
LEMMA MergedTimesChoice ==
    ASSUME NEW now \in Nat, NEW primary, Kept(primary, now),
           NEW local, Kept(local, now), InitialPart(local, primary),
           NEW received, Kept(received, now), InitialPart(received, primary),
           ~StaleTimeline(local, received)
    PROVE  /\ Keys(MergedTimes(local, received)) = Keys(received)
           /\ \/ MergedTimes(local, received) = local
              \/ /\ MergedTimes(local, received) = received
                 /\ Keys(received) = Keys(local) => FirstFrame(received).end # NoInstant
<1>1. received # {}
  BY DEF StaleTimeline
<1>2. CASE local = {}
  BY <1>1, <1>2 DEF MergedTimes, Keys
<1>3. CASE local # {} /\ Cardinality(received) = Cardinality(local)
  BY <1>3, NotStaleKeys, MergeSameLength
<1>4. CASE local # {} /\ Cardinality(received) # Cardinality(local)
  BY <1>4, NotStaleKeys, MergeLonger
<1> QED
  BY <1>2, <1>3, <1>4

\* The primary learns the end of its last frame: initial parts stay initial parts.
LEMMA EndKnown ==
    ASSUME NEW now \in Nat, NEW later \in Nat,
           NEW primary, Kept(primary, now), primary # {},
           NEW ended, Kept(ended, later), Keys(ended) = Keys(primary),
           FirstFrame(ended).end # NoInstant,
           FirstFrame(ended).capacity = FirstFrame(primary).capacity,
           \A f \in primary : f # FirstFrame(primary) => f \in ended,
           \A f \in ended : f # FirstFrame(ended) => f \in primary,
           NEW times, Kept(times, now), InitialPart(times, primary)
    PROVE  InitialPart(times, ended)
<1> DEFINE last == FirstFrame(primary)
           new == FirstFrame(ended)
<1>1. /\ last \in primary /\ last.key \in Nat /\ \A f \in primary : f.key =< last.key
      /\ last.key = last.start
  BY KeptFirst, KeptFrames
<1>2. new \in ended /\ new.key = last.key /\ new.start = last.start
  <2>1. ended # {}
    BY <1>1 DEF Keys
  <2>2. new \in ended /\ new.key = new.start
    BY <2>1, KeptFirst, KeptFrames
  <2>3. PICK f \in ended : f.key = last.key
    BY <1>1 DEF Keys
  <2>4. PICK g \in primary : g.key = new.key
    BY <2>2 DEF Keys
  <2>5. new.key =< last.key /\ last.key =< new.key /\ new.key \in Nat
    BY <1>1, <2>1, <2>2, <2>3, <2>4, KeptFirst, KeptFrames
  <2> QED
    BY <1>1, <2>2, <2>5
<1>3. \A f \in times : f.key \in Nat
  BY KeptFrames
<1>4. \A f \in times : \E g \in ended : Precedes(f, g) /\ (f # FirstFrame(times) => f = g)
  <2> SUFFICES ASSUME NEW f \in times
               PROVE  \E g \in ended : Precedes(f, g) /\ (f # FirstFrame(times) => f = g)
    OBVIOUS
  <2>1. PICK g \in primary : Precedes(f, g) /\ (f # FirstFrame(times) => f = g)
    BY PartFrame
  <2>2. CASE g # last
    BY <2>1, <2>2
  <2>3. CASE g = last
    <3>1. Precedes(f, new)
      BY <1>2, <2>1, <2>3 DEF Precedes
    <3>2. f = FirstFrame(times)
      <4>1. \A h \in times : h.key =< f.key
        <5> SUFFICES ASSUME NEW h \in times PROVE h.key =< f.key
          OBVIOUS
        <5>1. PICK k \in primary : Precedes(h, k)
          BY PartFrame
        <5> QED
          BY <1>1, <2>1, <2>3, <5>1 DEF Precedes
      <4> QED
        BY <4>1, FirstByKey
    <3> QED
      BY <1>2, <3>1, <3>2
  <2> QED
    BY <2>2, <2>3
<1>5. \A f \in times, g \in ended : g.key < f.key => g \in times
  <2> SUFFICES ASSUME NEW f \in times, NEW g \in ended, g.key < f.key PROVE g \in times
    OBVIOUS
  <2>1. PICK k \in primary : Precedes(f, k)
    BY PartFrame
  <2>2. g.key < last.key
    <3>1. f.key =< last.key /\ f.key \in Nat /\ g.key \in Nat
      BY <1>1, <1>3, <2>1, KeptFrames DEF Precedes
    <3> QED
      BY <1>1, <3>1
  <2>3. g # new /\ g \in primary
    BY <1>1, <1>2, <2>2
  <2> QED
    BY <2>3, PartFrame
<1> QED
  BY <1>4, <1>5 DEF InitialPart

\* The primary opens a new frame: initial parts stay initial parts.
LEMMA FrameOpened ==
    ASSUME NEW now \in Nat, NEW primary, Kept(primary, now), NEW frame, now < frame.key,
           frame.key \in Nat,
           NEW times, Kept(times, now), InitialPart(times, primary)
    PROVE  InitialPart(times, primary \cup {frame})
<1>1. \A f \in times : f.key \in Nat /\ f.key =< now
  BY KeptFrames
<1>2. \A f \in times : ~(frame.key < f.key)
  BY <1>1
<1> QED
  BY <1>2 DEF InitialPart

LEMMA PartOfItself ==
    ASSUME NEW times
    PROVE  InitialPart(times, times) /\ InitialPart({}, times)
BY DEF InitialPart, Precedes

\* A timeline that came from a server keeps its keys when it is decoded.
LEMMA ReceivedKept ==
    ASSUME NEW m \in Snapshot, OneFramePerInstant(m.enrollablesTimes)
    PROVE  Received(m).enrollablesTimes = m.enrollablesTimes
<1> DEFINE times == m.enrollablesTimes
<1>1. \A f \in times : f \in TimeFrame /\ f.key = f.start
  BY DEF OneFramePerInstant
<1>2. \A f \in times : [f EXCEPT !.key = f.start] = f
  BY <1>1 DEF TimeFrame
<1>3. {[f EXCEPT !.key = f.start] : f \in times} = times
  BY <1>2
<1> QED
  BY <1>3 DEF Received, Snapshot

-----------------------------------------------------------------------------
(* Places: what mergeStudents and the requests do to the number of enrolled    *)
(* students of one class.                                                      *)

\* What CapacityIsCurrent and EnrolledWithinHistory say of one class.
CapacityOfFirst(c) ==
    c.enrollablesTimes # {} => c.capacity = FirstFrame(c.enrollablesTimes).capacity

WithinHistory(c) ==
    EnrolledIn(c) # {} =>
        \E f \in c.enrollablesTimes : Cardinality(EnrolledIn(c)) =< f.capacity

LEMMA EnrolledCount ==
    ASSUME NEW c
    PROVE  /\ EnrolledIn(c) \in SUBSET StudentIds /\ IsFiniteSet(EnrolledIn(c))
           /\ Cardinality(EnrolledIn(c)) \in Nat
           /\ EnrolledIn(c) # {} => Cardinality(EnrolledIn(c)) # 0
<1>1. EnrolledIn(c) \in SUBSET StudentIds
  BY DEF EnrolledIn
<1>2. IsFiniteSet(EnrolledIn(c))
  BY <1>1, StudentIdsAssumption, FS_Subset
<1> QED
  BY <1>1, <1>2, FS_CardinalityType, FS_EmptySet

\* The frames of a class have whole capacities, and there is room in each.
LEMMA ClassFrames ==
    ASSUME NEW c, NEW now \in Nat, SoundClass(c, now)
    PROVE  /\ c \in ClassState /\ c.enrollablesTimes \in SUBSET TimeFrame
           /\ \A f \in c.enrollablesTimes : f.capacity \in Int /\ f.capacity > 0
BY DEF SoundClass, WellTimed, ClassState, TimeFrame

\* Fewer students on the same timeline.
LEMMA FewerWithin ==
    ASSUME NEW c, NEW now \in Nat, SoundClass(c, now), WithinHistory(c),
           NEW d, d.enrollablesTimes = c.enrollablesTimes,
           EnrolledIn(d) \subseteq EnrolledIn(c)
    PROVE  WithinHistory(d)
<1> SUFFICES ASSUME EnrolledIn(d) # {} PROVE
        \E f \in c.enrollablesTimes : Cardinality(EnrolledIn(d)) =< f.capacity
  BY DEF WithinHistory
<1>1. PICK f \in c.enrollablesTimes : Cardinality(EnrolledIn(c)) =< f.capacity
  BY DEF WithinHistory
<1>2. Cardinality(EnrolledIn(d)) =< Cardinality(EnrolledIn(c))
  BY EnrolledCount, FS_Subset
<1>3. Cardinality(EnrolledIn(d)) =< f.capacity
  BY <1>1, <1>2, EnrolledCount, ClassFrames
<1> QED
  BY <1>3

\* One more student, where a frame of the history has a place.
LEMMA OneMoreWithin ==
    ASSUME NEW c, NEW now \in Nat, SoundClass(c, now), NEW i,
           NEW f \in c.enrollablesTimes, Cardinality(EnrolledIn(c)) < f.capacity,
           NEW d, d.enrollablesTimes = c.enrollablesTimes,
           EnrolledIn(d) = EnrolledIn(c) \cup {i}
    PROVE  WithinHistory(d)
<1>1. Cardinality(EnrolledIn(d)) =< Cardinality(EnrolledIn(c)) + 1
  <2>1. IsFiniteSet(EnrolledIn(c)) /\ Cardinality(EnrolledIn(c)) \in Nat
    BY EnrolledCount
  <2>2. Cardinality(EnrolledIn(d)) =
            IF i \in EnrolledIn(c) THEN Cardinality(EnrolledIn(c))
            ELSE Cardinality(EnrolledIn(c)) + 1
    BY <2>1, FS_AddElement
  <2> QED
    BY <2>1, <2>2
<1>2. Cardinality(EnrolledIn(d)) =< f.capacity
  BY <1>1, EnrolledCount, ClassFrames
<1> QED
  BY <1>2 DEF WithinHistory

\* What the operators on one student change of a class.
LEMMA DiscardedOne ==
    ASSUME NEW c \in ClassState, NEW i \in StudentIds, NEW t,
           NEW d, d \in {ConflictDiscard(c, i, t), DiscardAt(c, i, t)}
    PROVE  /\ EnrolledIn(d) = EnrolledIn(c) \ {i}
           /\ d.enrollablesTimes = c.enrollablesTimes
           /\ d.capacity = c.capacity /\ d.flag = c.flag
<1>1. d.enrolled = [c.enrolled EXCEPT ![i] = NoInstant]
      /\ d.enrollablesTimes = c.enrollablesTimes /\ d.capacity = c.capacity /\ d.flag = c.flag
  BY DEF ConflictDiscard, DiscardAt, ClassState
<1>2. c.enrolled \in [StudentIds -> Instant]
  BY DEF ClassState, StudentMap
<1> QED
  BY <1>1, <1>2 DEF EnrolledIn

LEMMA EnrolledOne ==
    ASSUME NEW c \in ClassState, NEW i \in StudentIds, NEW t, t # NoInstant,
           NEW d, d \in {Admit(c, i, t), EnrollAt(c, i, t)}
    PROVE  /\ EnrolledIn(d) = EnrolledIn(c) \cup {i}
           /\ d.enrollablesTimes = c.enrollablesTimes
           /\ d.capacity = c.capacity /\ d.flag = c.flag
<1>1. d.enrolled = [c.enrolled EXCEPT ![i] = t]
      /\ d.enrollablesTimes = c.enrollablesTimes /\ d.capacity = c.capacity /\ d.flag = c.flag
  BY DEF Admit, EnrollAt, ClassState
<1>2. c.enrolled \in [StudentIds -> Instant]
  BY DEF ClassState, StudentMap
<1> QED
  BY <1>1, <1>2 DEF EnrolledIn

\* What a turn on one student keeps of a class.
SameTimeline(c, d) ==
    /\ d.enrollablesTimes = c.enrollablesTimes
    /\ d.capacity = c.capacity /\ d.flag = c.flag

\* The last place: as many students as before, or fewer.
LEMMA ContestWithin ==
    ASSUME NEW c, NEW now \in Nat, SoundClass(c, now), WithinHistory(c),
           EnrolledIn(c) # {}, NEW i \in StudentIds, i \notin EnrolledIn(c),
           NEW t \in Instant, t # NoInstant
    PROVE  WithinHistory(ContestLastPlace(c, i, t)) /\ SameTimeline(c, ContestLastPlace(c, i, t))
<1> DEFINE last == LastEnrolled(c)
           without == ConflictDiscard(c, last, c.enrolled[last])
           swapped == Admit(without, i, t)
<1>1. c \in ClassState /\ c.enrolled \in StudentMap
      /\ \A j \in StudentIds : c.enrolled[j] =< now
  BY DEF SoundClass, WellTimed, ClassState
<1>2. last \in EnrolledIn(c) /\ last \in StudentIds
  BY <1>1, LastEnrolledIsEnrolled DEF EnrolledIn
<1>3. c.enrolled[last] \in Instant
  BY <1>1, <1>2 DEF StudentMap
<1>4. EnrolledIn(without) = EnrolledIn(c) \ {last} /\ SameTimeline(c, without)
      /\ without \in ClassState
  <2>1. without \in ClassState
    BY <1>1, <1>2, <1>3 DEF ConflictDiscard, ClassState, StudentMap, Instant, NoInstant
  <2>2. EnrolledIn(without) = EnrolledIn(c) \ {last} /\ SameTimeline(c, without)
    BY <1>1, <1>2, DiscardedOne DEF SameTimeline
  <2> QED
    BY <2>1, <2>2
<1> HIDE DEF without
<1>5. EnrolledIn(swapped) = (EnrolledIn(c) \ {last}) \cup {i} /\ SameTimeline(c, swapped)
  BY <1>4, EnrolledOne DEF SameTimeline
<1>6. Cardinality(EnrolledIn(swapped)) = Cardinality(EnrolledIn(c))
  <2>1. Cardinality(EnrolledIn(c) \ {last}) = Cardinality(EnrolledIn(c)) - 1
        /\ IsFiniteSet(EnrolledIn(c) \ {last})
    BY <1>2, EnrolledCount, FS_RemoveElement
  <2>2. Cardinality(EnrolledIn(swapped)) = (Cardinality(EnrolledIn(c)) - 1) + 1
    BY <1>5, <2>1, FS_AddElement
  <2> QED
    BY <2>2, EnrolledCount
<1> HIDE DEF swapped
<1>7. WithinHistory(swapped)
  BY <1>5, <1>6 DEF WithinHistory, SameTimeline
<1>8. WithinHistory(ConflictDiscard(c, i, t)) /\ SameTimeline(c, ConflictDiscard(c, i, t))
  <2> DEFINE d == ConflictDiscard(c, i, t)
  <2>1. EnrolledIn(d) \subseteq EnrolledIn(c) /\ SameTimeline(c, d)
    BY <1>1, DiscardedOne DEF SameTimeline
  <2> HIDE DEF d
  <2>2. WithinHistory(d)
    BY <2>1, FewerWithin DEF SameTimeline
  <2> QED
    BY <2>1, <2>2 DEF d
<1>9. ContestLastPlace(c, i, t) = swapped \/ ContestLastPlace(c, i, t) = ConflictDiscard(c, i, t)
  BY DEF ContestLastPlace, swapped, without
<1> QED
  BY <1>5, <1>7, <1>8, <1>9

LEMMA DiscardWithin ==
    ASSUME NEW c, NEW now \in Nat, SoundClass(c, now), WithinHistory(c),
           NEW i \in StudentIds, NEW t
    PROVE  /\ WithinHistory(ConflictDiscard(c, i, t)) /\ SameTimeline(c, ConflictDiscard(c, i, t))
           /\ WithinHistory(DiscardAt(c, i, t)) /\ SameTimeline(c, DiscardAt(c, i, t))
<1>1. ASSUME NEW d \in {ConflictDiscard(c, i, t), DiscardAt(c, i, t)}
      PROVE  WithinHistory(d) /\ SameTimeline(c, d)
  <2>1. EnrolledIn(d) \subseteq EnrolledIn(c) /\ SameTimeline(c, d)
    BY ClassFrames, DiscardedOne DEF SameTimeline
  <2> QED
    BY <2>1, FewerWithin DEF SameTimeline
<1> QED
  BY <1>1

\* conflictEnroll never gives more places than the frame of the instant has, or
\* leaves as many students enrolled as there were.
LEMMA ConflictEnrollWithin ==
    ASSUME NEW c, NEW now \in Nat, SoundClass(c, now), WithinHistory(c),
           NEW i \in StudentIds, NEW t \in Instant, t # NoInstant
    PROVE  WithinHistory(ConflictEnroll(c, i, t)) /\ SameTimeline(c, ConflictEnroll(c, i, t))
<1> DEFINE around == FramesAround(c, t)
<1>1. CASE i \in EnrolledIn(c)
  BY <1>1 DEF ConflictEnroll, SameTimeline
<1>2. CASE i \notin EnrolledIn(c) /\ around = {}
  BY <1>2, DiscardWithin DEF ConflictEnroll
<1>3. CASE i \notin EnrolledIn(c) /\ around # {}
  <2>1. around \in SUBSET TimeFrame /\ \A f \in around : f.key =< now
    BY DEF FramesAround, SoundClass, ClassState, WellTimed
  <2>2. FirstFrame(around) \in c.enrollablesTimes
    BY <1>3, <2>1, FirstFrameIsLatest DEF FramesAround
  <2>3. FirstFrame(around).capacity \in Int /\ FirstFrame(around).capacity > 0
    BY <2>2, ClassFrames
  <2>4. CASE Cardinality(EnrolledIn(c)) >= FirstFrame(around).capacity
    <3>1. EnrolledIn(c) # {}
      BY <2>3, <2>4, FS_EmptySet
    <3> QED
      BY <1>3, <2>4, <3>1, ContestWithin DEF ConflictEnroll
  <2>5. CASE ~(Cardinality(EnrolledIn(c)) >= FirstFrame(around).capacity)
    <3>1. Cardinality(EnrolledIn(c)) < FirstFrame(around).capacity
      BY <2>3, <2>5, EnrolledCount
    <3>2. ConflictEnroll(c, i, t) = Admit(c, i, t)
      BY <1>3, <2>5 DEF ConflictEnroll
    <3>3. EnrolledIn(Admit(c, i, t)) = EnrolledIn(c) \cup {i} /\ SameTimeline(c, Admit(c, i, t))
      BY ClassFrames, EnrolledOne DEF SameTimeline
    <3> QED
      BY <2>2, <3>1, <3>2, <3>3, OneMoreWithin DEF SameTimeline
  <2> QED
    BY <2>4, <2>5
<1> QED
  BY <1>1, <1>2, <1>3

LEMMA MergeStudentWithin ==
    ASSUME NEW c, NEW now \in Nat, SoundClass(c, now), WithinHistory(c),
           NEW i \in StudentIds, NEW m, SoundSnapshot(m, now)
    PROVE  WithinHistory(MergeStudent(c, i, m)) /\ SameTimeline(c, MergeStudent(c, i, m))
<1>1. m.enrolled[i] \in Instant
  BY DEF SoundSnapshot, Snapshot, StudentMap
<1> QED
  BY <1>1, ConflictEnrollWithin, DiscardWithin DEF MergeStudent, SameTimeline

LEMMA ValidateStudentWithin ==
    ASSUME NEW c, NEW now \in Nat, SoundClass(c, now), WithinHistory(c), NEW i \in StudentIds
    PROVE  WithinHistory(ValidateStudent(c, i)) /\ SameTimeline(c, ValidateStudent(c, i))
BY DiscardWithin DEF ValidateStudent, SameTimeline

\* A student is enrolled while there is a place in the first frame.
LEMMA EnrollWithin ==
    ASSUME NEW c, NEW now \in Nat, SoundClass(c, now), WithinHistory(c), CapacityOfFirst(c),
           NEW i \in StudentIds, NEW t \in Instant, t # NoInstant,
           EnrollResponse(c, i) = "OK"
    PROVE  WithinHistory(EnrollAt(c, i, t)) /\ SameTimeline(c, EnrollAt(c, i, t))
<1> DEFINE times == c.enrollablesTimes
<1>1. c.enrollmentsOpen /\ ~(Cardinality(EnrolledIn(c)) >= c.capacity)
  BY DEF EnrollResponse
<1>2. times # {} /\ c.capacity = FirstFrame(times).capacity
  BY <1>1 DEF SoundClass, CapacityOfFirst
<1>3. FirstFrame(times) \in times
  <2>1. times \in SUBSET TimeFrame /\ \A f \in times : f.key =< now
    BY DEF SoundClass, ClassState, WellTimed
  <2> QED
    BY <1>2, <2>1, FirstFrameIsLatest
<1>4. Cardinality(EnrolledIn(c)) < FirstFrame(times).capacity
  BY <1>1, <1>2, <1>3, EnrolledCount, ClassFrames
<1>5. EnrolledIn(EnrollAt(c, i, t)) = EnrolledIn(c) \cup {i} /\ SameTimeline(c, EnrollAt(c, i, t))
  BY ClassFrames, EnrolledOne DEF SameTimeline
<1> QED
  BY <1>3, <1>4, <1>5, OneMoreWithin DEF SameTimeline

-----------------------------------------------------------------------------
(* One step of the servers. *)

\* The timeline every other one is compared with.
PrimaryTimes == aClass[Primary].enrollablesTimes

LEMMA InitTimelines == Init => TimelineInv
<1> SUFFICES ASSUME Init PROVE TimelineInv
  OBVIOUS
<1>1. /\ inflight = {} /\ handler = [s \in Servers |-> IdleHandler]
      /\ aClass = [s \in Servers |-> NewClass(FlagOf(s))]
  BY DEF Init
<1>2. \A s \in Servers : /\ aClass[s].flag = FlagOf(s) /\ aClass[s].enrollablesTimes = {}
                         /\ EnrolledIn(aClass[s]) = {}
                         /\ handler[s].msg.enrollablesTimes = {}
  BY <1>1 DEF NewClass, EnrolledIn, NobodyMapped, IdleHandler, EmptySnapshot, SnapshotOf
<1>3. \A times \in Timelines : times = {}
  BY <1>1, <1>2 DEF Timelines
<1>4. OneFramePerInstant({})
  BY FS_EmptySet DEF OneFramePerInstant
<1>5. TimelinesArePrefixes
  BY <1>3, PartOfItself DEF TimelinesArePrefixes, InitialPart
<1> QED
  BY <1>2, <1>3, <1>4, <1>5 DEF TimelineInv, CapacityIsCurrent, EnrolledWithinHistory

\* What the invariants say of every timeline and of the class of one server.
LEMMA TimelineFacts ==
    ASSUME IndInv, TimelineInv
    PROVE  /\ \A times \in Timelines \cup {{}} :
                 Kept(times, clock) /\ InitialPart(times, PrimaryTimes)
           /\ Kept(PrimaryTimes, clock) /\ PrimaryTimes \in Timelines
           /\ \A s \in Servers : /\ aClass[s].enrollablesTimes \in Timelines
                                 /\ handler[s].msg.enrollablesTimes \in Timelines
                                 /\ aClass[s].flag = FlagOf(s)
                                 /\ CapacityOfFirst(aClass[s]) /\ WithinHistory(aClass[s])
           /\ \A m \in inflight : m.state.enrollablesTimes \in Timelines
<1>1. \A s \in Servers : /\ aClass[s].enrollablesTimes \in Timelines
                         /\ handler[s].msg.enrollablesTimes \in Timelines
  BY DEF Timelines
<1>2. \A m \in inflight : m.state.enrollablesTimes \in Timelines
  BY DEF Timelines
<1>3. \A times \in Timelines : \A f \in times : f.key =< clock
  BY DEF Timelines, IndInv, SoundClass, SoundSnapshot, WellTimed
<1>4. \A times \in Timelines : Kept(times, clock) /\ InitialPart(times, PrimaryTimes)
  BY <1>3 DEF Kept, TimelineInv, TimelinesArePrefixes, PrimaryTimes
<1>5. Kept({}, clock) /\ InitialPart({}, PrimaryTimes)
  BY FS_EmptySet DEF Kept, OneFramePerInstant, InitialPart
<1>6. PrimaryTimes \in Timelines
  BY <1>1, ServersAssumption DEF PrimaryTimes
<1>7. \A s \in Servers : /\ aClass[s].flag = FlagOf(s)
                         /\ CapacityOfFirst(aClass[s]) /\ WithinHistory(aClass[s])
  BY DEF TimelineInv, CapacityIsCurrent, EnrolledWithinHistory, CapacityOfFirst, WithinHistory
<1> QED
  BY <1>1, <1>2, <1>4, <1>5, <1>6, <1>7

\* A step that replaces the class of s by d and moves known timelines around.
LEMMA TimelineStep ==
    ASSUME IndInv, TimelineInv, NEW s \in Servers, NEW d,
           aClass' = [aClass EXCEPT ![s] = d],
           d.flag = FlagOf(s), CapacityOfFirst(d), WithinHistory(d),
           OneFramePerInstant(d.enrollablesTimes),
           InitialPart(d.enrollablesTimes, PrimaryTimes'),
           \A times \in Timelines \cup {{}} : InitialPart(times, PrimaryTimes'),
           \A r \in Servers : handler'[r].msg.enrollablesTimes \in Timelines \cup {{}},
           \A m \in inflight' : m.state.enrollablesTimes \in Timelines \cup {{}}
    PROVE  TimelineInv'
<1>1. aClass \in [Servers -> ClassState]
  BY DEF IndInv, TypeOK
<1>2. \A r \in Servers : aClass'[r] = IF r = s THEN d ELSE aClass[r]
  BY <1>1
<1>3. \A r \in Servers : aClass'[r].flag = FlagOf(r)
  BY <1>2, TimelineFacts
<1>4. \A r \in Servers : CapacityOfFirst(aClass'[r]) /\ WithinHistory(aClass'[r])
  BY <1>2, TimelineFacts
<1>5. CapacityIsCurrent' /\ EnrolledWithinHistory'
  BY <1>4 DEF CapacityIsCurrent, EnrolledWithinHistory, CapacityOfFirst, WithinHistory
<1>6. \A r \in Servers : aClass'[r].enrollablesTimes \in Timelines \cup {d.enrollablesTimes}
  BY <1>2, TimelineFacts
<1>7. Timelines' \subseteq Timelines \cup {{}, d.enrollablesTimes}
  BY <1>6 DEF Timelines
<1>8. \A times \in Timelines \cup {{}} : OneFramePerInstant(times)
  BY TimelineFacts DEF Kept
<1>9. \A times \in Timelines' : OneFramePerInstant(times) /\ InitialPart(times, PrimaryTimes')
  BY <1>7, <1>8
<1>10. TimelinesArePrefixes'
  BY <1>9 DEF TimelinesArePrefixes, PrimaryTimes
<1> QED
  BY <1>3, <1>5, <1>9, <1>10 DEF TimelineInv

\* A step that changes only what a class knows of its students.
LEMMA StudentsStep ==
    ASSUME IndInv, TimelineInv, NEW s \in Servers, NEW d,
           aClass' = [aClass EXCEPT ![s] = d],
           SameTimeline(aClass[s], d), WithinHistory(d),
           \A r \in Servers : handler'[r].msg.enrollablesTimes \in Timelines \cup {{}},
           \A m \in inflight' : m.state.enrollablesTimes \in Timelines \cup {{}}
    PROVE  TimelineInv'
<1>1. aClass \in [Servers -> ClassState]
  BY DEF IndInv, TypeOK
<1>2. PrimaryTimes' = PrimaryTimes
  BY <1>1, ServersAssumption DEF PrimaryTimes, SameTimeline
<1>3. d.flag = FlagOf(s) /\ CapacityOfFirst(d)
  BY TimelineFacts DEF SameTimeline, CapacityOfFirst
<1>4. OneFramePerInstant(d.enrollablesTimes) /\ InitialPart(d.enrollablesTimes, PrimaryTimes)
  BY TimelineFacts DEF SameTimeline, Kept
<1> QED
  BY <1>2, <1>3, <1>4, TimelineFacts, TimelineStep

\* A step that leaves the classes alone.
LEMMA MessagesStep ==
    ASSUME IndInv, TimelineInv, UNCHANGED aClass,
           \A r \in Servers : handler'[r].msg.enrollablesTimes \in Timelines \cup {{}},
           \A m \in inflight' : m.state.enrollablesTimes \in Timelines \cup {{}}
    PROVE  TimelineInv'
<1>1. aClass' = [aClass EXCEPT ![Primary] = aClass[Primary]]
  BY DEF IndInv, TypeOK
<1>2. SameTimeline(aClass[Primary], aClass[Primary])
  BY DEF SameTimeline
<1> QED
  BY <1>1, <1>2, StudentsStep, TimelineFacts, ServersAssumption

\* Requests leave handlers and messages alone.
LEMMA NothingMoves ==
    ASSUME IndInv, TimelineInv, UNCHANGED <<handler, inflight>>
    PROVE  /\ \A r \in Servers : handler'[r].msg.enrollablesTimes \in Timelines \cup {{}}
           /\ \A m \in inflight' : m.state.enrollablesTimes \in Timelines \cup {{}}
BY TimelineFacts

\* A handler that advances keeps its message, or drops it.
LEMMA HandlerMoves ==
    ASSUME IndInv, TimelineInv, NEW s \in Servers, NEW h,
           h.msg = handler[s].msg \/ h = IdleHandler,
           handler' = [handler EXCEPT ![s] = h], UNCHANGED inflight
    PROVE  /\ \A r \in Servers : handler'[r].msg.enrollablesTimes \in Timelines \cup {{}}
           /\ \A m \in inflight' : m.state.enrollablesTimes \in Timelines \cup {{}}
<1>1. handler \in [Servers -> Handler]
  BY DEF IndInv, TypeOK
<1>2. IdleHandler.msg.enrollablesTimes = {}
  BY DEF IdleHandler, EmptySnapshot, SnapshotOf, NewClass
<1>3. \A r \in Servers : handler'[r] = IF r = s THEN h ELSE handler[r]
  BY <1>1
<1> QED
  BY <1>2, <1>3, TimelineFacts

LEMMA RequestsKeepTimelines ==
    ASSUME IndInv, TimelineInv, NEW s \in Servers,
           \/ \E i \in StudentIds : Enroll(s, i) \/ Discard(s, i)
           \/ Activate(s) \/ Deactivate(s) \/ ActivateGossip(s) \/ DeactivateGossip(s)
    PROVE  TimelineInv'
<1>1. /\ SoundClass(aClass[s], clock) /\ aClass[s] \in ClassState /\ clock \in Nat
      /\ WithinHistory(aClass[s]) /\ CapacityOfFirst(aClass[s])
  BY ServerInv, TimelineFacts
<1>2. ASSUME NEW i \in StudentIds, Enroll(s, i) PROVE TimelineInv'
  <2>1. clock' \in Instant /\ clock' # NoInstant
    BY <1>1, <1>2 DEF Enroll, ReadClock, Instant, NoInstant
  <2>2. WithinHistory(EnrollAt(aClass[s], i, clock'))
        /\ SameTimeline(aClass[s], EnrollAt(aClass[s], i, clock'))
    BY <1>1, <1>2, <2>1, EnrollWithin DEF Enroll
  <2>3. /\ aClass' = [aClass EXCEPT ![s] = EnrollAt(aClass[s], i, clock')]
        /\ UNCHANGED <<handler, inflight>>
    BY <1>2 DEF Enroll
  <2> QED
    BY <2>2, <2>3, StudentsStep, NothingMoves
<1>3. ASSUME NEW i \in StudentIds, Discard(s, i) PROVE TimelineInv'
  <2>1. WithinHistory(DiscardAt(aClass[s], i, clock'))
        /\ SameTimeline(aClass[s], DiscardAt(aClass[s], i, clock'))
    BY <1>1, DiscardWithin
  <2>2. /\ aClass' = [aClass EXCEPT ![s] = DiscardAt(aClass[s], i, clock')]
        /\ UNCHANGED <<handler, inflight>>
    BY <1>3 DEF Discard
  <2> QED
    BY <2>1, <2>2, StudentsStep, NothingMoves
<1>4. ASSUME Activate(s) \/ Deactivate(s) \/ ActivateGossip(s) \/ DeactivateGossip(s)
      PROVE  TimelineInv'
  <2>1. PICK b \in BOOLEAN :
            \/ aClass' = [aClass EXCEPT ![s] = [aClass[s] EXCEPT !.active = b]]
            \/ aClass' = [aClass EXCEPT ![s] = [aClass[s] EXCEPT !.gossip = b]]
    BY <1>4 DEF Activate, Deactivate, ActivateGossip, DeactivateGossip
  <2>2. UNCHANGED <<handler, inflight>>
    BY <1>4 DEF Activate, Deactivate, ActivateGossip, DeactivateGossip
  <2>3. ASSUME NEW d \in {[aClass[s] EXCEPT !.active = b], [aClass[s] EXCEPT !.gossip = b]}
        PROVE  SameTimeline(aClass[s], d) /\ WithinHistory(d)
    <3>1. SameTimeline(aClass[s], d) /\ d.enrolled = aClass[s].enrolled
      BY <1>1 DEF SameTimeline, ClassState
    <3> QED
      BY <1>1, <3>1 DEF WithinHistory, SameTimeline, EnrolledIn
  <2> QED
    BY <2>1, <2>2, <2>3, StudentsStep, NothingMoves
<1> QED
  BY <1>2, <1>3, <1>4

\* Only the primary opens: its new frame is later than every frame there is.
LEMMA OpenKeepsTimelines ==
    ASSUME IndInv, TimelineInv, NEW s \in Servers, NEW newCapacity \in Capacities,
           OpenEnrollments(s, newCapacity)
    PROVE  TimelineInv'
<1> DEFINE frame == [key |-> clock', start |-> clock', end |-> NoInstant,
                     capacity |-> newCapacity]
           times == aClass[s].enrollablesTimes
           d == OpenAt(aClass[s], newCapacity, clock')
<1>1. /\ SoundClass(aClass[s], clock) /\ aClass[s] \in ClassState /\ clock \in Nat
      /\ WithinHistory(aClass[s]) /\ aClass[s].flag = FlagOf(s)
      /\ aClass \in [Servers -> ClassState]
  BY ServerInv, TimelineFacts DEF IndInv, TypeOK
<1>2. clock' \in Nat /\ clock < clock' /\ clock' # NoInstant
  BY <1>1 DEF OpenEnrollments, ReadClock, NoInstant
<1>3. s = Primary /\ times = PrimaryTimes
  <2>1. aClass[s].flag = "P"
    BY DEF OpenEnrollments, OpenResponse
  <2> QED
    BY <1>1, <2>1 DEF FlagOf, PrimaryTimes
<1>4. aClass' = [aClass EXCEPT ![s] = d] /\ UNCHANGED <<handler, inflight>>
  BY DEF OpenEnrollments
<1>5. Kept(times, clock)
  BY <1>3, TimelineFacts
<1>6. PutAll(times, {frame}) = times \cup {frame}
  <2>1. \A f \in times : f.key # frame.key
    BY <1>1, <1>2, <1>5, KeptFrames
  <2> QED
    BY <2>1 DEF PutAll
<1>7. /\ d.flag = aClass[s].flag /\ d.capacity = newCapacity
      /\ d.enrollablesTimes = times \cup {frame} /\ d.enrolled = aClass[s].enrolled
  BY <1>1, <1>6 DEF OpenAt, ClassState
<1>8. frame \in TimeFrame
  BY <1>2, CapacitiesAssumption DEF TimeFrame, Instant, NoInstant
<1>9. Kept(times \cup {frame}, clock')
  <2>1. \A f \in times : f.key =< clock' /\ f.key # clock'
    BY <1>1, <1>2, <1>5, KeptFrames
  <2>2. IsFiniteSet(times \cup {frame})
    <3>1. IsFiniteSet(times)
      BY <1>1, <1>5, KeptFrames
    <3> HIDE DEF frame, times
    <3> QED
      BY <3>1, FS_AddElement
  <2> QED
    BY <1>1, <1>2, <1>5, <1>8, <2>1, <2>2, KeptFrames DEF Kept, OneFramePerInstant
<1> HIDE DEF d
<1>10. FirstFrame(times \cup {frame}) = frame
  <2>1. \A f \in times \cup {frame} : f.key =< frame.key
    BY <1>2, <1>9 DEF Kept
  <2> QED
    BY <1>2, <1>9, <2>1, FirstByKey
<1>11. CapacityOfFirst(d)
  BY <1>7, <1>10 DEF CapacityOfFirst
<1>12. WithinHistory(d)
  BY <1>1, <1>7 DEF WithinHistory, EnrolledIn
<1>13. PrimaryTimes' = times \cup {frame}
  BY <1>1, <1>3, <1>4, <1>7 DEF PrimaryTimes
<1>14. \A part \in Timelines \cup {{}} : InitialPart(part, times \cup {frame})
  BY <1>1, <1>2, <1>3, TimelineFacts, FrameOpened
<1> QED
  BY <1>1, <1>4, <1>7, <1>9, <1>11, <1>12, <1>13, <1>14, PartOfItself, NothingMoves, TimelineStep
     DEF Kept

\* Only the primary closes: it learns the end of its last frame.
LEMMA CloseKeepsTimelines ==
    ASSUME IndInv, TimelineInv, NEW s \in Servers, CloseEnrollments(s)
    PROVE  TimelineInv'
<1> DEFINE times == aClass[s].enrollablesTimes
           last == FirstFrame(times)
           closed == [last EXCEPT !.end = clock']
           ended == PutAll(times, {closed})
           d == CloseAt(aClass[s], clock')
<1>1. /\ SoundClass(aClass[s], clock) /\ aClass[s] \in ClassState /\ clock \in Nat
      /\ WithinHistory(aClass[s]) /\ CapacityOfFirst(aClass[s])
      /\ aClass[s].flag = FlagOf(s) /\ aClass \in [Servers -> ClassState]
  BY ServerInv, TimelineFacts DEF IndInv, TypeOK
<1>2. clock' \in Nat /\ clock < clock' /\ clock' # NoInstant
  BY <1>1 DEF CloseEnrollments, ReadClock, NoInstant
<1>3. s = Primary /\ times = PrimaryTimes /\ times # {}
  <2>1. aClass[s].flag = "P" /\ aClass[s].enrollmentsOpen
    BY DEF CloseEnrollments, CloseResponse
  <2> QED
    BY <1>1, <2>1 DEF FlagOf, PrimaryTimes, SoundClass
<1>4. aClass' = [aClass EXCEPT ![s] = d] /\ UNCHANGED <<handler, inflight>>
  BY DEF CloseEnrollments
<1>5. Kept(times, clock)
  BY <1>3, TimelineFacts
<1>6. last \in times /\ last \in TimeFrame
  BY <1>1, <1>3, <1>5, KeptFirst, KeptFrames
<1>7. /\ closed \in TimeFrame /\ closed.key = last.key /\ closed.start = last.start
      /\ closed.capacity = last.capacity /\ closed.end # NoInstant
  BY <1>2, <1>6 DEF TimeFrame, Instant
<1> HIDE DEF closed
<1>8. \A f \in times : f = last \/ f.key # closed.key
  BY <1>1, <1>5, <1>6, <1>7, KeptFrames
<1>9. ended = (times \ {last}) \cup {closed}
  BY <1>7, <1>8 DEF PutAll
<1>10. /\ d.flag = aClass[s].flag /\ d.capacity = aClass[s].capacity
       /\ d.enrollablesTimes = ended /\ d.enrolled = aClass[s].enrolled
  BY <1>1 DEF CloseAt, closed, ClassState
<1> HIDE DEF d, ended
<1>11. Kept(ended, clock')
  <2>1. ended \subseteq TimeFrame
    BY <1>1, <1>5, <1>7, <1>9, KeptFrames
  <2>2. IsFiniteSet(ended)
    <3>1. IsFiniteSet(times)
      BY <1>1, <1>5, KeptFrames
    <3>2. IsFiniteSet(times \ {last})
      BY <3>1, FS_RemoveElement
    <3> HIDE DEF times, last
    <3> QED
      BY <1>9, <3>2, FS_AddElement
  <2>3. \A f \in ended : f.key = f.start /\ f.key # NoInstant /\ f.key =< clock'
    <3>1. \A f \in times : f.key = f.start /\ f.key # NoInstant /\ f.key =< clock'
      BY <1>1, <1>2, <1>5, KeptFrames
    <3> QED
      BY <1>6, <1>7, <1>9, <3>1
  <2>4. \A f, g \in ended : f.key = g.key => f = g
    BY <1>1, <1>5, <1>7, <1>8, <1>9, KeptFrames
  <2> QED
    BY <2>1, <2>2, <2>3, <2>4 DEF Kept, OneFramePerInstant
<1>12. closed \in ended /\ FirstFrame(ended) = closed
  <2>1. closed \in ended
    BY <1>9
  <2>2. \A f \in ended : f.key =< closed.key
    <3>1. \A f \in times : f.key =< last.key
      BY <1>1, <1>3, <1>5, KeptFirst
    <3> QED
      BY <1>6, <1>7, <1>9, <3>1
  <2> QED
    BY <1>2, <1>11, <2>1, <2>2, FirstByKey
<1>13. CapacityOfFirst(d)
  BY <1>1, <1>3, <1>7, <1>10, <1>12 DEF CapacityOfFirst
<1>14. WithinHistory(d)
  <2>1. \A f \in times : \E g \in ended : g.capacity = f.capacity
    BY <1>7, <1>9
  <2>2. EnrolledIn(d) = EnrolledIn(aClass[s])
    BY <1>10 DEF EnrolledIn
  <2> QED
    BY <1>1, <1>10, <2>1, <2>2 DEF WithinHistory
<1>15. PrimaryTimes' = ended
  BY <1>1, <1>3, <1>4, <1>10 DEF PrimaryTimes
<1>16. Keys(ended) = Keys(times)
  BY <1>6, <1>7, <1>9 DEF Keys
<1>17. \A part \in Timelines \cup {{}} : InitialPart(part, ended)
  <2> SUFFICES ASSUME NEW part \in Timelines \cup {{}} PROVE InitialPart(part, ended)
    OBVIOUS
  <2>1. Kept(part, clock) /\ InitialPart(part, times)
    BY <1>3, TimelineFacts
  <2>2. \A f \in times : f # last => f \in ended
    BY <1>9
  <2>3. \A f \in ended : f # closed => f \in times
    BY <1>9
  <2> HIDE DEF times
  <2> QED
    BY <1>1, <1>2, <1>3, <1>5, <1>7, <1>11, <1>12, <1>16, <2>1, <2>2, <2>3, EndKnown
<1>18. OneFramePerInstant(ended)
  BY <1>11 DEF Kept
<1> QED
  BY <1>1, <1>4, <1>10, <1>13, <1>14, <1>15, <1>17, <1>18, PartOfItself, NothingMoves, TimelineStep

\* A class whose timeline is merged with a received one.
LEMMA MergedClass ==
    ASSUME IndInv, TimelineInv, NEW s \in Servers, NEW received \in Timelines,
           ~StaleTimeline(aClass[s].enrollablesTimes, received)
    PROVE  LET d == CorrectTimes(aClass[s], received)
           IN  /\ d.flag = FlagOf(s) /\ CapacityOfFirst(d) /\ WithinHistory(d)
               /\ d.enrollablesTimes = MergedTimes(aClass[s].enrollablesTimes, received)
<1> DEFINE local == aClass[s].enrollablesTimes
           merged == MergedTimes(local, received)
           d == CorrectTimes(aClass[s], received)
<1>1. /\ aClass[s] \in ClassState /\ aClass[s].flag = FlagOf(s) /\ clock \in Nat
      /\ WithinHistory(aClass[s])
  BY ServerInv, TimelineFacts
<1>2. /\ Kept(local, clock) /\ InitialPart(local, PrimaryTimes)
      /\ Kept(received, clock) /\ InitialPart(received, PrimaryTimes)
      /\ Kept(PrimaryTimes, clock)
  BY TimelineFacts
<1>3. /\ Keys(merged) = Keys(received) /\ Keys(local) \subseteq Keys(received)
      /\ merged = local \/ merged = received
  BY <1>1, <1>2, MergedTimesChoice, NotStaleKeys
<1>4. /\ d.flag = FlagOf(s) /\ d.capacity = FirstFrame(received).capacity
      /\ d.enrollablesTimes = merged /\ d.enrolled = aClass[s].enrolled
  BY <1>1 DEF CorrectTimes, ClassState
<1> HIDE DEF merged, d
<1>5. \A f \in local, g \in received : f.key = g.key => f.capacity = g.capacity
  <2> SUFFICES ASSUME NEW f \in local, NEW g \in received, f.key = g.key
               PROVE  f.capacity = g.capacity
    OBVIOUS
  <2>1. PICK h \in PrimaryTimes : Precedes(f, h)
    BY <1>1, <1>2, PartFrame
  <2>2. h.key = g.key
    BY <2>1 DEF Precedes
  <2>3. Precedes(g, h)
    BY <1>1, <1>2, <2>2, PartFrame
  <2> QED
    BY <2>1, <2>3 DEF Precedes
<1>6. CapacityOfFirst(d)
  <2>1. CASE merged = received
    BY <1>4, <2>1 DEF CapacityOfFirst
  <2>2. CASE merged = local /\ merged # {}
    <3>1. received # {} /\ FirstFrame(local).key = FirstFrame(received).key
      BY <1>1, <1>2, <1>3, <2>2, SameFirstKey
    <3>2. FirstFrame(local) \in local /\ FirstFrame(received) \in received
      BY <1>1, <1>2, <2>2, <3>1, KeptFirst
    <3> QED
      BY <1>4, <1>5, <2>2, <3>1, <3>2 DEF CapacityOfFirst
  <2> QED
    BY <1>3, <1>4, <2>1, <2>2 DEF CapacityOfFirst
<1>7. WithinHistory(d)
  <2>1. EnrolledIn(d) = EnrolledIn(aClass[s])
    BY <1>4 DEF EnrolledIn
  <2>2. \A f \in local : \E g \in merged : g.capacity = f.capacity
    <3> SUFFICES ASSUME NEW f \in local, merged = received
                 PROVE  \E g \in merged : g.capacity = f.capacity
      BY <1>3
    <3>1. PICK g \in received : g.key = f.key
      BY <1>3 DEF Keys
    <3> QED
      BY <1>5, <3>1
  <2> QED
    BY <1>1, <1>4, <2>1, <2>2 DEF WithinHistory
<1> QED
  BY <1>4, <1>6, <1>7 DEF d, merged

\* The primary takes a received timeline only to learn the end of its last frame.
LEMMA PrimaryMerges ==
    ASSUME IndInv, TimelineInv, NEW received \in Timelines,
           ~StaleTimeline(PrimaryTimes, received), NEW times \in Timelines \cup {{}}
    PROVE  InitialPart(times, MergedTimes(PrimaryTimes, received))
<1>1. /\ Kept(PrimaryTimes, clock) /\ InitialPart(PrimaryTimes, PrimaryTimes)
      /\ Kept(received, clock) /\ InitialPart(received, PrimaryTimes)
      /\ Kept(times, clock) /\ InitialPart(times, PrimaryTimes) /\ clock \in Nat
  BY TimelineFacts, PartOfItself DEF IndInv, TypeOK
<1>2. Keys(PrimaryTimes) = Keys(received)
  <2>1. Keys(PrimaryTimes) \subseteq Keys(received)
    BY <1>1, NotStaleKeys
  <2>2. Keys(received) \subseteq Keys(PrimaryTimes)
    BY <1>1, PartKeys
  <2> QED
    BY <2>1, <2>2
<1>3. CASE MergedTimes(PrimaryTimes, received) = PrimaryTimes
  BY <1>1, <1>3
<1>4. CASE /\ MergedTimes(PrimaryTimes, received) = received
           /\ FirstFrame(received).end # NoInstant
  <2>1. PrimaryTimes # {} /\ received # {}
    BY <1>2 DEF StaleTimeline, Keys
  <2>2. /\ FirstFrame(PrimaryTimes) \in PrimaryTimes /\ FirstFrame(received) \in received
        /\ FirstFrame(PrimaryTimes).key = FirstFrame(received).key
    BY <1>1, <1>2, <2>1, KeptFirst, SameFirstKey
  <2>3. FirstFrame(received).capacity = FirstFrame(PrimaryTimes).capacity
    BY <1>1, <2>2, PartFrame DEF Precedes
  <2>4. \A f \in PrimaryTimes : f # FirstFrame(PrimaryTimes) => f \in received
    <3> SUFFICES ASSUME NEW f \in PrimaryTimes, f # FirstFrame(PrimaryTimes)
                 PROVE  f \in received
      OBVIOUS
    <3>1. f.key < FirstFrame(PrimaryTimes).key
      BY <1>1, <2>1, KeptFirst
    <3>2. /\ FirstFrame(PrimaryTimes).key \in Keys(PrimaryTimes)
          /\ FirstFrame(PrimaryTimes).key \in Keys(received)
      BY <1>2, <2>2 DEF Keys
    <3> QED
      BY <1>1, <3>1, <3>2, PartsAgree
  <2>5. \A f \in received : f # FirstFrame(received) => f \in PrimaryTimes
    BY <1>1, PartFrame
  <2> QED
    BY <1>1, <1>2, <1>4, <2>1, <2>3, <2>4, <2>5, EndKnown
<1> QED
  BY <1>1, <1>2, <1>3, <1>4, MergedTimesChoice

LEMMA CorrectTimelineKeepsTimelines ==
    ASSUME IndInv, TimelineInv, NEW s \in Servers, CorrectTimeline(s)
    PROVE  TimelineInv'
<1> DEFINE received == handler[s].msg.enrollablesTimes
           local == aClass[s].enrollablesTimes
           merged == MergedTimes(local, received)
           d == CorrectTimes(aClass[s], received)
<1>1. /\ aClass \in [Servers -> ClassState] /\ received \in Timelines /\ clock \in Nat
      /\ handler[s] \in Handler
  BY ServerInv, TimelineFacts DEF IndInv, TypeOK
<1>2. UNCHANGED inflight
  BY DEF CorrectTimeline
<1>3. CASE StaleTimeline(local, received)
  <2> DEFINE h == [handler[s] EXCEPT !.phase = "corrected"]
  <2>1. handler' = [handler EXCEPT ![s] = h] /\ UNCHANGED aClass
    BY <1>3 DEF CorrectTimeline
  <2>2. h.msg = handler[s].msg
    BY <1>1 DEF Handler
  <2> HIDE DEF h
  <2> QED
    BY <1>2, <2>1, <2>2, HandlerMoves, MessagesStep
<1>4. CASE ~StaleTimeline(local, received)
  <2> DEFINE todo == KnownStudents(aClass[s])
             h == [handler[s] EXCEPT !.phase = After(todo, "validating", "corrected"),
                                     !.todo = todo]
  <2>1. handler' = [handler EXCEPT ![s] = h] /\ aClass' = [aClass EXCEPT ![s] = d]
    BY <1>4 DEF CorrectTimeline
  <2>2. h.msg = handler[s].msg
    BY <1>1 DEF Handler
  <2> HIDE DEF h
  <2>3. /\ d.flag = FlagOf(s) /\ CapacityOfFirst(d) /\ WithinHistory(d)
        /\ d.enrollablesTimes = merged
    BY <1>1, <1>4, MergedClass
  <2> HIDE DEF d
  <2>4. merged = local \/ merged = received
    BY <1>1, <1>4, TimelineFacts, MergedTimesChoice
  <2>5. merged \in Timelines
    BY <1>1, <2>4, TimelineFacts
  <2>6. \A times \in Timelines \cup {{}} : InitialPart(times, PrimaryTimes')
    <3>1. CASE s = Primary
      <4>1. PrimaryTimes' = MergedTimes(PrimaryTimes, received) /\ local = PrimaryTimes
        BY <1>1, <2>1, <2>3, <3>1 DEF PrimaryTimes
      <4> QED
        BY <1>1, <1>4, <4>1, PrimaryMerges
    <3>2. CASE s # Primary
      <4>1. PrimaryTimes' = PrimaryTimes
        BY <1>1, <2>1, <3>2, ServersAssumption DEF PrimaryTimes
      <4> QED
        BY <4>1, TimelineFacts
    <3> QED
      BY <3>1, <3>2
  <2>7. OneFramePerInstant(merged) /\ InitialPart(merged, PrimaryTimes')
    BY <2>5, <2>6, TimelineFacts DEF Kept
  <2>8. /\ \A r \in Servers : handler'[r].msg.enrollablesTimes \in Timelines \cup {{}}
        /\ \A m \in inflight' : m.state.enrollablesTimes \in Timelines \cup {{}}
    BY <1>2, <2>1, <2>2, HandlerMoves
  <2> HIDE DEF merged
  <2> QED
    BY <2>1, <2>3, <2>6, <2>7, <2>8, TimelineStep
<1> QED
  BY <1>3, <1>4

\* The loops of the handler change students, never frames.
LEMMA LoopsKeepTimelines ==
    ASSUME IndInv, TimelineInv, NEW s \in Servers, NEW i \in StudentIds,
           ValidateNext(s, i) \/ MergeNext(s, i)
    PROVE  TimelineInv'
<1>1. /\ SoundClass(aClass[s], clock) /\ clock \in Nat /\ WithinHistory(aClass[s])
      /\ SoundSnapshot(handler[s].msg, clock) /\ handler[s] \in Handler
      /\ handler \in [Servers -> Handler]
  BY ServerInv, TimelineFacts DEF IndInv, TypeOK
<1>2. CASE ValidateNext(s, i)
  <2> DEFINE h == [handler[s] EXCEPT
                       !.phase = After(handler[s].todo \ {i}, "validating", "corrected"),
                       !.todo = handler[s].todo \ {i}]
             d == ValidateStudent(aClass[s], i)
  <2>1. handler' = [handler EXCEPT ![s] = h] /\ aClass' = [aClass EXCEPT ![s] = d]
        /\ UNCHANGED inflight
    BY <1>1, <1>2 DEF ValidateNext
  <2>2. h.msg = handler[s].msg
    BY <1>1 DEF Handler
  <2>3. SameTimeline(aClass[s], d) /\ WithinHistory(d)
    BY <1>1, ValidateStudentWithin
  <2> HIDE DEF h, d
  <2> QED
    BY <2>1, <2>2, <2>3, HandlerMoves, StudentsStep
<1>3. CASE MergeNext(s, i)
  <2> DEFINE h == IF handler[s].todo = {i} THEN IdleHandler
                  ELSE [handler[s] EXCEPT !.todo = handler[s].todo \ {i}]
             d == MergeStudent(aClass[s], i, handler[s].msg)
  <2>1. handler' = [handler EXCEPT ![s] = h] /\ aClass' = [aClass EXCEPT ![s] = d]
        /\ UNCHANGED inflight
    BY <1>3 DEF MergeNext
  <2>2. h.msg = handler[s].msg \/ h = IdleHandler
    BY <1>1 DEF Handler
  <2>3. SameTimeline(aClass[s], d) /\ WithinHistory(d)
    BY <1>1, MergeStudentWithin
  <2> HIDE DEF h, d
  <2> QED
    BY <2>1, <2>2, <2>3, HandlerMoves, StudentsStep
<1> QED
  BY <1>2, <1>3

LEMMA MergeStudentsKeepsTimelines ==
    ASSUME IndInv, TimelineInv, NEW s \in Servers, MergeStudents(s)
    PROVE  TimelineInv'
<1>1. PICK todo \in SUBSET StudentIds :
          handler' = [handler EXCEPT ![s] =
              IF todo = {} THEN IdleHandler
              ELSE [handler[s] EXCEPT !.phase = "merging", !.todo = todo]]
  BY DEF MergeStudents
<1> DEFINE h == IF todo = {} THEN IdleHandler
                ELSE [handler[s] EXCEPT !.phase = "merging", !.todo = todo]
<1>2. handler' = [handler EXCEPT ![s] = h] /\ UNCHANGED <<aClass, inflight>>
  BY <1>1 DEF MergeStudents
<1>3. h.msg = handler[s].msg \/ h = IdleHandler
  BY ServerInv DEF Handler
<1> HIDE DEF h
<1> QED
  BY <1>2, <1>3, HandlerMoves, MessagesStep

\* A server sends the timeline it has.
LEMMA SendingKeepsTimelines ==
    ASSUME IndInv, TimelineInv, NEW s \in Servers,
           \/ StartRound(s)
           \/ \E d \in Servers : PropagateState(s, d) \/ ForceGossip(s, d)
    PROVE  TimelineInv'
<1>1. CASE StartRound(s)
  BY <1>1, NothingMoves, MessagesStep DEF StartRound
<1>2. ASSUME NEW d \in Servers, PropagateState(s, d) \/ ForceGossip(s, d)
      PROVE  TimelineInv'
  <2> DEFINE m == [from |-> s, to |-> d, state |-> SnapshotOf(aClass[s])]
  <2>1. inflight' = inflight \cup {m} /\ UNCHANGED <<aClass, handler>>
    BY <1>2 DEF PropagateState, ForceGossip, Propagate
  <2>2. m.state.enrollablesTimes = aClass[s].enrollablesTimes
    BY DEF SnapshotOf
  <2> HIDE DEF m
  <2> QED
    BY <2>1, <2>2, TimelineFacts, MessagesStep
<1> QED
  BY <1>1, <1>2

LEMMA MessagesKeepTimelines ==
    ASSUME IndInv, TimelineInv, NEW m \in inflight, Lose(m) \/ Receive(m)
    PROVE  TimelineInv'
<1>1. CASE Lose(m)
  BY <1>1, TimelineFacts, MessagesStep DEF Lose
<1>2. CASE Receive(m)
  <2> DEFINE h == [phase |-> "received", msg |-> Received(m.state), todo |-> {}]
  <2>1. /\ handler' = [handler EXCEPT ![m.to] = h]
        /\ inflight' \subseteq inflight /\ UNCHANGED aClass
    BY <1>2 DEF Receive
  <2>2. handler \in [Servers -> Handler] /\ m.to \in Servers /\ m.state \in Snapshot
    BY DEF IndInv, TypeOK, Message
  <2>3. OneFramePerInstant(m.state.enrollablesTimes)
    BY TimelineFacts DEF Kept
  <2>4. h.msg.enrollablesTimes = m.state.enrollablesTimes
    BY <2>2, <2>3, ReceivedKept
  <2> HIDE DEF h
  <2>5. \A r \in Servers : handler'[r] = IF r = m.to THEN h ELSE handler[r]
    BY <2>1, <2>2
  <2> QED
    BY <2>1, <2>4, <2>5, TimelineFacts, MessagesStep
<1> QED
  BY <1>1, <1>2

\* A secondary that is killed starts again with an empty timeline.
LEMMA RestartKeepsTimelines ==
    ASSUME Primary \notin Restartable, IndInv, TimelineInv, NEW s \in Servers, Restart(s)
    PROVE  TimelineInv'
<1> DEFINE d == NewClass(FlagOf(s))
<1>1. /\ s # Primary /\ aClass' = [aClass EXCEPT ![s] = d]
      /\ handler' = [handler EXCEPT ![s] = IdleHandler]
      /\ inflight' \subseteq inflight
  BY DEF Restart
<1>2. d.flag = FlagOf(s) /\ d.enrollablesTimes = {} /\ EnrolledIn(d) = {}
  BY DEF NewClass, EnrolledIn, NobodyMapped
<1> HIDE DEF d
<1>3. PrimaryTimes' = PrimaryTimes
  BY <1>1, ServersAssumption DEF PrimaryTimes, IndInv, TypeOK
<1>4. CapacityOfFirst(d) /\ WithinHistory(d)
  BY <1>2 DEF CapacityOfFirst, WithinHistory
<1>5. OneFramePerInstant({}) /\ InitialPart({}, PrimaryTimes)
  BY TimelineFacts DEF Kept
<1>6. \A r \in Servers : handler'[r].msg.enrollablesTimes \in Timelines \cup {{}}
  <2>1. handler \in [Servers -> Handler]
    BY DEF IndInv, TypeOK
  <2>2. IdleHandler.msg.enrollablesTimes = {}
    BY DEF IdleHandler, EmptySnapshot, SnapshotOf, NewClass
  <2>3. \A r \in Servers : handler'[r] = IF r = s THEN IdleHandler ELSE handler[r]
    BY <1>1, <2>1
  <2> QED
    BY <2>2, <2>3, TimelineFacts
<1> QED
  BY <1>1, <1>2, <1>3, <1>4, <1>5, <1>6, TimelineFacts, TimelineStep

-----------------------------------------------------------------------------
(* The theorems.  The primary is not killed: nothing of the timeline is saved, *)
(* so one that starts again has an empty one, which the others' are no part of. *)

LEMMA StepTimelines ==
    Primary \notin Restartable /\ IndInv /\ TimelineInv /\ [Next]_vars => TimelineInv'
<1> SUFFICES ASSUME Primary \notin Restartable, IndInv, TimelineInv, [Next]_vars
             PROVE  TimelineInv'
  OBVIOUS
<1>1. ASSUME NEW s \in Servers, ServerStep(s) PROVE TimelineInv'
  <2>1. ASSUME HandlerStep(s) PROVE TimelineInv'
    BY <2>1, CorrectTimelineKeepsTimelines, MergeStudentsKeepsTimelines, LoopsKeepTimelines
       DEF HandlerStep
  <2> QED
    BY <1>1, <2>1, RequestsKeepTimelines, OpenKeepsTimelines, CloseKeepsTimelines,
       SendingKeepsTimelines, RestartKeepsTimelines DEF ServerStep
<1>2. ASSUME NEW m \in inflight, Lose(m) \/ Receive(m) PROVE TimelineInv'
  BY <1>2, MessagesKeepTimelines
<1>3. CASE UNCHANGED vars
  <2>1. UNCHANGED <<aClass, handler, inflight>>
    BY <1>3 DEF vars
  <2> QED
    BY <2>1, NothingMoves, MessagesStep
<1> QED
  BY <1>1, <1>2, <1>3 DEF Next

LEMMA AlwaysTimelineInv ==
    ASSUME Primary \notin Restartable
    PROVE  Spec => [](IndInv /\ TimelineInv)
<1>1. Init => IndInv /\ TimelineInv
  BY InitInv, InitTimelines
<1>2. IndInv /\ TimelineInv /\ [Next]_vars => (IndInv /\ TimelineInv)'
  BY StepInv, StepTimelines
<1> QED
  BY <1>1, <1>2, PTL DEF Spec

\* While the primary lives, no replica, handler or message has a frame that the
\* primary does not have, lacks one that it has before, or has one changed.
THEOREM TimelinesStayPrefixes ==
    ASSUME Primary \notin Restartable
    PROVE  Spec => []TimelinesArePrefixes
<1>1. TimelineInv => TimelinesArePrefixes
  BY DEF TimelineInv
<1> QED
  BY <1>1, AlwaysTimelineInv, PTL

\* While the primary lives, no method meets a state that makes it throw: an empty
\* timeline with open enrollments, a full class without students, or two frames that
\* start at one instant.
THEOREM NothingEverThrows ==
    ASSUME Primary \notin Restartable
    PROVE  Spec => []NothingThrows
<1>1. IndInv /\ TimelineInv => NothingThrows
  <2> SUFFICES ASSUME IndInv, TimelineInv, NEW s \in Servers
               PROVE  /\ aClass[s].enrollmentsOpen => aClass[s].enrollablesTimes # {}
                      /\ Decodable(SnapshotOf(aClass[s]))
                      /\ \A f \in aClass[s].enrollablesTimes : f.capacity > 0
    BY DEF NothingThrows
  <2>1. OneFramePerInstant(aClass[s].enrollablesTimes)
    BY TimelineFacts DEF Kept
  <2>2. Decodable(SnapshotOf(aClass[s]))
    BY <2>1 DEF OneFramePerInstant, Decodable, SnapshotOf
  <2> QED
    BY <2>2, ServerInv DEF SoundClass, WellTimed
<1> QED
  BY <1>1, AlwaysTimelineInv, PTL

\* Secondaries may be killed and started again at any time, as often as they are:
\* nothing throws and no timeline departs from the primary's.
THEOREM RestartsAreHarmless ==
    ASSUME Primary \notin Restartable
    PROVE  Spec => []RestartIsHarmless
BY TimelinesStayPrefixes, NothingEverThrows, PTL DEF RestartIsHarmless

\* While the primary lives, the capacity a replica compares with is that of the most
\* recent frame it knows, whatever timelines it was sent in whatever order.
THEOREM CapacityStaysCurrent ==
    ASSUME Primary \notin Restartable
    PROVE  Spec => []CapacityIsCurrent
<1>1. TimelineInv => CapacityIsCurrent
  BY DEF TimelineInv
<1> QED
  BY <1>1, AlwaysTimelineInv, PTL

\* While the primary lives, a replica never has more students than the largest
\* capacity of its timeline, whatever it enrolled and whatever was propagated to it.
THEOREM EnrolledStayWithinHistory ==
    ASSUME Primary \notin Restartable
    PROVE  Spec => []EnrolledWithinHistory
<1>1. TimelineInv => EnrolledWithinHistory
  BY DEF TimelineInv
<1> QED
  BY <1>1, AlwaysTimelineInv, PTL

-----------------------------------------------------------------------------
(* The timelines of the servers as SharedTimeline sees them. *)

Known == [s \in Servers |-> aClass[s].enrollablesTimes]

\* The abstract specification and the invariants use the same words.
LEMMA SharedWords ==
    ASSUME NEW times, NEW all
    PROVE  /\ Shared!InitialPart(times, all) <=> InitialPart(times, all)
           /\ Shared!Newest(times) = FirstFrame(times)
           /\ Shared!Precedes(times, all) <=> Precedes(times, all)
BY Zenon DEF Shared!InitialPart, InitialPart, Shared!Newest, FirstFrame,
             Shared!Precedes, Precedes

\* What a step on the class of one server does to the timelines.
LEMMA KnownStep ==
    ASSUME IndInv, NEW s \in Servers, NEW d, aClass' = [aClass EXCEPT ![s] = d]
    PROVE  /\ Known' = [Known EXCEPT ![s] = d.enrollablesTimes]
           /\ Known'[s] = d.enrollablesTimes
           /\ SameTimeline(aClass[s], d) => Known' = Known
<1>1. aClass \in [Servers -> ClassState]
  BY DEF IndInv, TypeOK
<1>2. \A r \in Servers : aClass'[r] = IF r = s THEN d ELSE aClass[r]
  BY <1>1
<1>3. Known = [r \in Servers |-> aClass[r].enrollablesTimes]
  BY DEF Known
<1>4. Known' = [r \in Servers |-> IF r = s THEN d.enrollablesTimes ELSE Known[r]]
  <2>1. Known' = [r \in Servers |-> aClass'[r].enrollablesTimes]
    BY DEF Known
  <2>2. \A r \in Servers :
           aClass'[r].enrollablesTimes = IF r = s THEN d.enrollablesTimes ELSE Known[r]
    BY <1>2, <1>3
  <2> QED
    BY <2>1, <2>2
<1>5. SameTimeline(aClass[s], d) => d.enrollablesTimes = Known[s]
  BY <1>3 DEF SameTimeline
<1>6. Known = [r \in Servers |-> Known[r]]
  BY <1>3
<1> DEFINE before == Known
           after == Known'
<1>7. /\ after = [r \in Servers |-> IF r = s THEN d.enrollablesTimes ELSE before[r]]
      /\ before = [r \in Servers |-> before[r]]
      /\ SameTimeline(aClass[s], d) => d.enrollablesTimes = before[s]
  BY <1>4, <1>5, <1>6
<1> HIDE DEF before, after
<1>8. /\ after = [before EXCEPT ![s] = d.enrollablesTimes]
      /\ after[s] = d.enrollablesTimes
      /\ SameTimeline(aClass[s], d) => after = before
  BY <1>7
<1> QED
  BY <1>8 DEF before, after

\* Of two initial parts, the one with fewer keys is an initial part of the other,
\* and so it is when the keys are the same and the other knows the last end.
LEMMA PartOfPart ==
    ASSUME NEW now \in Nat, NEW primary, Kept(primary, now),
           NEW A, Kept(A, now), InitialPart(A, primary),
           NEW B, Kept(B, now), InitialPart(B, primary), Keys(A) \subseteq Keys(B),
           Keys(B) = Keys(A) => FirstFrame(B).end # NoInstant
    PROVE  InitialPart(A, B)
<1>1. ASSUME NEW f \in A
      PROVE  \E g \in B : Precedes(f, g) /\ (f # FirstFrame(A) => f = g)
  <2>1. PICK p \in primary : Precedes(f, p) /\ (f # FirstFrame(A) => f = p)
    BY PartFrame
  <2>2. PICK g \in B : g.key = f.key
    BY DEF Keys
  <2>3. Precedes(g, p) /\ p.key = f.key
    BY <2>1, <2>2, PartFrame DEF Precedes
  <2>4. CASE f # FirstFrame(A)
    <3>1. f.key < FirstFrame(A).key /\ FirstFrame(A) \in A
      BY <2>4, KeptFirst
    <3>2. PICK b \in B : b.key = FirstFrame(A).key
      BY <3>1 DEF Keys
    <3>3. f \in B
      BY <2>1, <2>4, <3>1, <3>2, PartFrame
    <3> QED
      BY <3>3 DEF Precedes
  <2>5. CASE f = FirstFrame(A)
    <3>1. f.key = g.key /\ f.start = g.start /\ f.capacity = g.capacity
      BY <2>1, <2>2, <2>3 DEF Precedes
    <3>2. f.end # NoInstant => g.end # NoInstant
      <4>1. CASE g # FirstFrame(B)
        <5>1. PICK q \in primary : Precedes(g, q) /\ g = q
          BY <4>1, PartFrame
        <5>2. q = p
          BY <2>2, <2>3, <5>1, KeptFrames
        <5> QED
          BY <2>1, <5>1, <5>2 DEF Precedes
      <4>2. CASE g = FirstFrame(B)
        <5>1. \A b \in B : b.key \in Keys(A)
          <6> SUFFICES ASSUME NEW b \in B, b.key # f.key PROVE b.key \in Keys(A)
            BY DEF Keys
          <6>1. b.key =< g.key /\ b.key \in Nat /\ g.key \in Nat
            BY <4>2, KeptFirst, KeptFrames
          <6>2. b.key < f.key
            BY <2>2, <6>1
          <6>3. b.key \in Keys(primary) /\ f.key \in Keys(A)
            BY PartKeys DEF Keys
          <6> QED
            BY <6>2, <6>3, PartKeys
        <5>2. Keys(B) = Keys(A)
          BY <5>1 DEF Keys
        <5> QED
          BY <4>2, <5>2
      <4> QED
        BY <4>1, <4>2
    <3> QED
      BY <2>5, <3>1, <3>2 DEF Precedes
  <2> QED
    BY <2>4, <2>5
<1>2. ASSUME NEW f \in A, NEW g \in B, g.key < f.key
      PROVE  g \in A
  <2>1. f.key \in Keys(A) /\ f.key \in Keys(B) /\ g.key \in Keys(A)
    <3>1. f.key \in Keys(A) /\ g.key \in Keys(B)
      BY DEF Keys
    <3> QED
      BY <1>2, <3>1, PartKeys
  <2> QED
    BY <1>2, <2>1, PartsAgree
<1> QED
  BY <1>1, <1>2 DEF InitialPart

\* A secondary takes a received timeline, or keeps its own: it learns.
LEMMA SecondaryLearns ==
    ASSUME IndInv, TimelineInv, NEW s \in Servers, s # Primary, NEW d,
           aClass' = [aClass EXCEPT ![s] = d], NEW received \in Timelines,
           ~StaleTimeline(aClass[s].enrollablesTimes, received),
           d.enrollablesTimes = MergedTimes(aClass[s].enrollablesTimes, received)
    PROVE  Known' = Known \/ Shared!Learn(s)
<1> DEFINE local == aClass[s].enrollablesTimes
           merged == MergedTimes(local, received)
<1>1. /\ Kept(PrimaryTimes, clock) /\ clock \in Nat
      /\ Kept(local, clock) /\ InitialPart(local, PrimaryTimes)
      /\ Kept(received, clock) /\ InitialPart(received, PrimaryTimes)
  BY TimelineFacts DEF IndInv, TypeOK
<1>2. /\ Known' = [Known EXCEPT ![s] = merged] /\ Known'[s] = merged
      /\ Known[s] = local /\ Known[Primary] = PrimaryTimes
  BY KnownStep, ServersAssumption DEF Known, PrimaryTimes
<1>3. CASE merged = local
  BY <1>2, <1>3 DEF Known
<1>4. CASE /\ merged = received
           /\ Keys(received) = Keys(local) => FirstFrame(received).end # NoInstant
  <2>1. Keys(local) \subseteq Keys(received)
    BY <1>1, NotStaleKeys
  <2>2. InitialPart(local, merged)
    BY <1>1, <1>4, <2>1, PartOfPart
  <2>3. InitialPart(merged, PrimaryTimes)
    BY <1>1, <1>4
  <2> HIDE DEF merged, local
  <2>4. /\ Shared!InitialPart(Known[s], Known'[s])
        /\ Shared!InitialPart(Known'[s], Known[Primary])
    BY <1>2, <2>2, <2>3, SharedWords
  <2> QED
    BY <1>2, <2>4 DEF Shared!Learn, Known
<1> QED
  BY <1>1, <1>3, <1>4, MergedTimesChoice

\* The primary takes a received timeline that tells it the end of its last frame.
LEMMA PrimaryLearnsEnd ==
    ASSUME IndInv, TimelineInv, NEW d,
           aClass' = [aClass EXCEPT ![Primary] = d], NEW received \in Timelines,
           ~StaleTimeline(PrimaryTimes, received),
           d.enrollablesTimes = MergedTimes(PrimaryTimes, received)
    PROVE  Known' = Known \/ Shared!CloseFrame
<1> DEFINE local == PrimaryTimes
           merged == MergedTimes(local, received)
           last == FirstFrame(local)
           end == FirstFrame(received)
<1>1. /\ Kept(local, clock) /\ InitialPart(local, local) /\ clock \in Nat
      /\ Kept(received, clock) /\ InitialPart(received, local)
  BY TimelineFacts DEF IndInv, TypeOK
<1>2. /\ Known' = [Known EXCEPT ![Primary] = merged] /\ Known'[Primary] = merged
      /\ Known[Primary] = local
  BY KnownStep, ServersAssumption DEF Known, PrimaryTimes
<1>3. Keys(local) = Keys(received)
  <2>1. Keys(local) \subseteq Keys(received)
    BY <1>1, NotStaleKeys
  <2>2. Keys(received) \subseteq Keys(local)
    BY <1>1, PartKeys
  <2> QED
    BY <2>1, <2>2
<1>4. CASE merged = local
  BY <1>2, <1>4 DEF Known
<1>5. CASE merged = received /\ end.end # NoInstant
  <2>1. received # {} /\ local # {}
    BY <1>3 DEF StaleTimeline, Keys
  <2>2. last \in local /\ end \in received /\ end.key = last.key
    BY <1>1, <1>3, <2>1, KeptFirst, SameFirstKey
  <2>3. Precedes(end, last)
    BY <1>1, <2>2, PartFrame
  <2>4. Precedes(last, end)
    BY <1>5, <2>3 DEF Precedes
  <2>5. \A f \in local : f # last => f \in received /\ f # end
    <3> SUFFICES ASSUME NEW f \in local, f # last PROVE f \in received /\ f # end
      OBVIOUS
    <3>1. f.key < last.key /\ f.key \in Nat /\ last.key \in Nat
      BY <1>1, <2>1, <2>2, KeptFirst, KeptFrames
    <3>2. last.key \in Keys(local) /\ last.key \in Keys(received)
      BY <1>3, <2>2 DEF Keys
    <3> QED
      BY <1>1, <2>2, <3>1, <3>2, PartsAgree
  <2>6. \A f \in received : f # end => f \in local /\ f # last
    <3> SUFFICES ASSUME NEW f \in received, f # end PROVE f \in local /\ f # last
      OBVIOUS
    <3>1. f.key # end.key
      BY <1>1, <2>2, KeptFrames
    <3> QED
      BY <1>1, <2>2, <3>1, PartFrame
  <2>7. received = (local \ {last}) \cup {end}
    BY <2>2, <2>5, <2>6
  <2> HIDE DEF merged, last, end, local
  <2>8. last \in Known[Primary] /\ end \in Known'[Primary]
    BY <1>2, <1>5, <2>2
  <2>9. last = Shared!Newest(Known[Primary]) /\ Shared!Precedes(last, end)
    BY <1>2, <2>4, SharedWords DEF last
  <2>10. Known' = [Known EXCEPT ![Primary] = (Known[Primary] \ {last}) \cup {end}]
    BY <1>2, <1>5, <2>7
  <2> QED
    BY <1>5, <2>8, <2>9, <2>10 DEF Shared!CloseFrame, Known
<1> QED
  BY <1>1, <1>3, <1>4, <1>5, MergedTimesChoice

\* A professor opens enrollments: a frame that is later than every other.
LEMMA OpenIsShared ==
    ASSUME IndInv, TimelineInv, NEW s \in Servers, NEW newCapacity \in Capacities,
           OpenEnrollments(s, newCapacity)
    PROVE  Shared!OpenFrame
<1> DEFINE frame == [key |-> clock', start |-> clock', end |-> NoInstant,
                     capacity |-> newCapacity]
           d == OpenAt(aClass[s], newCapacity, clock')
<1>1. /\ aClass[s] \in ClassState /\ clock \in Nat /\ aClass[s].flag = FlagOf(s)
      /\ Kept(PrimaryTimes, clock)
  BY ServerInv, TimelineFacts DEF IndInv, TypeOK
<1>2. clock' \in Nat /\ clock < clock'
  BY <1>1 DEF OpenEnrollments, ReadClock
<1>3. s = Primary /\ aClass[s].enrollablesTimes = PrimaryTimes
  <2>1. aClass[s].flag = "P"
    BY DEF OpenEnrollments, OpenResponse
  <2> QED
    BY <1>1, <2>1 DEF FlagOf, PrimaryTimes
<1>4. \A g \in PrimaryTimes : g.key < frame.key
  BY <1>1, <1>2, KeptFrames
<1>5. d.enrollablesTimes = PrimaryTimes \cup {frame}
  <2>1. \A g \in PrimaryTimes : g.key # frame.key
    BY <1>1, <1>2, KeptFrames
  <2>2. PutAll(PrimaryTimes, {frame}) = PrimaryTimes \cup {frame}
    BY <2>1 DEF PutAll
  <2> QED
    BY <1>1, <1>3, <2>2 DEF OpenAt, ClassState
<1>6. aClass' = [aClass EXCEPT ![s] = d]
  BY DEF OpenEnrollments
<1>7. frame.end = NoInstant
  OBVIOUS
<1> HIDE DEF frame, d
<1>8. /\ Known' = [Known EXCEPT ![Primary] = Known[Primary] \cup {frame}]
      /\ Known'[Primary] = Known[Primary] \cup {frame} /\ Known[Primary] = PrimaryTimes
  BY <1>3, <1>5, <1>6, KnownStep, ServersAssumption DEF Known, PrimaryTimes
<1>9. frame \in Known'[Primary] /\ \A g \in Known[Primary] : g.key < frame.key
  BY <1>4, <1>8
<1> QED
  BY <1>7, <1>8, <1>9 DEF Shared!OpenFrame, Known

\* A professor closes enrollments: the newest frame ends.
LEMMA CloseIsShared ==
    ASSUME IndInv, TimelineInv, NEW s \in Servers, CloseEnrollments(s)
    PROVE  Shared!CloseFrame
<1> DEFINE last == FirstFrame(PrimaryTimes)
           closed == [last EXCEPT !.end = clock']
           d == CloseAt(aClass[s], clock')
<1>1. /\ aClass[s] \in ClassState /\ clock \in Nat /\ aClass[s].flag = FlagOf(s)
      /\ Kept(PrimaryTimes, clock) /\ SoundClass(aClass[s], clock)
  BY ServerInv, TimelineFacts DEF IndInv, TypeOK
<1>2. clock' \in Nat /\ clock' # NoInstant
  BY <1>1 DEF CloseEnrollments, ReadClock, NoInstant
<1>3. s = Primary /\ aClass[s].enrollablesTimes = PrimaryTimes /\ PrimaryTimes # {}
  <2>1. aClass[s].flag = "P" /\ aClass[s].enrollmentsOpen
    BY DEF CloseEnrollments, CloseResponse
  <2> QED
    BY <1>1, <2>1 DEF FlagOf, PrimaryTimes, SoundClass
<1>4. last \in PrimaryTimes /\ last \in TimeFrame
  BY <1>1, <1>3, KeptFirst, KeptFrames
<1>5. /\ closed.key = last.key /\ closed.start = last.start
      /\ closed.capacity = last.capacity /\ closed.end # NoInstant
  BY <1>2, <1>4 DEF TimeFrame, Instant
<1>6. d.enrollablesTimes = PutAll(PrimaryTimes, {closed})
  BY <1>1, <1>3 DEF CloseAt, ClassState
<1>7. aClass' = [aClass EXCEPT ![s] = d]
  BY DEF CloseEnrollments
<1> HIDE DEF closed, d
<1>8. \A f \in PrimaryTimes : f = last \/ f.key # closed.key
  BY <1>1, <1>4, <1>5, KeptFrames
<1>9. d.enrollablesTimes = (PrimaryTimes \ {last}) \cup {closed}
  BY <1>5, <1>6, <1>8 DEF PutAll
<1>10. /\ Known' = [Known EXCEPT ![Primary] = (Known[Primary] \ {last}) \cup {closed}]
       /\ Known'[Primary] = (Known[Primary] \ {last}) \cup {closed}
       /\ Known[Primary] = PrimaryTimes
  <2>1. Known[Primary] = PrimaryTimes
    BY ServersAssumption DEF Known, PrimaryTimes
  <2> QED
    BY <1>3, <1>7, <1>9, <2>1, KnownStep
<1>11. last \in Known[Primary] /\ closed \in Known'[Primary]
  BY <1>4, <1>10
<1>12. last = Shared!Newest(Known[Primary]) /\ Shared!Precedes(last, closed)
  BY <1>5, <1>10, SharedWords DEF Precedes
<1> HIDE DEF last
<1> QED
  BY <1>5, <1>10, <1>11, <1>12 DEF Shared!CloseFrame, Known

LEMMA CorrectTimelineIsShared ==
    ASSUME IndInv, TimelineInv, NEW s \in Servers, CorrectTimeline(s)
    PROVE  Known' = Known \/ Shared!Next
<1> DEFINE received == handler[s].msg.enrollablesTimes
           d == CorrectTimes(aClass[s], received)
<1>1. /\ received \in Timelines /\ aClass[s] \in ClassState
  BY ServerInv, TimelineFacts
<1>2. CASE StaleTimeline(aClass[s].enrollablesTimes, received)
  <2>1. UNCHANGED aClass
    BY <1>2 DEF CorrectTimeline
  <2> QED
    BY <2>1 DEF Known
<1>3. CASE ~StaleTimeline(aClass[s].enrollablesTimes, received)
  <2>1. aClass' = [aClass EXCEPT ![s] = d]
    BY <1>3 DEF CorrectTimeline
  <2>2. d.enrollablesTimes = MergedTimes(aClass[s].enrollablesTimes, received)
    BY <1>1, <1>3, MergedClass
  <2> HIDE DEF d, received
  <2>3. CASE s = Primary
    BY <1>1, <1>3, <2>1, <2>2, <2>3, PrimaryLearnsEnd DEF PrimaryTimes, Shared!Next
  <2>4. CASE s # Primary
    BY <1>1, <1>3, <2>1, <2>2, <2>4, SecondaryLearns DEF Shared!Next
  <2> QED
    BY <2>3, <2>4
<1> QED
  BY <1>2, <1>3

\* Nothing else that a server does changes its timeline, except starting again.
LEMMA StudentsLeaveTimelines ==
    ASSUME IndInv, TimelineInv, NEW s \in Servers, NEW i \in StudentIds,
           Enroll(s, i) \/ Discard(s, i) \/ ValidateNext(s, i) \/ MergeNext(s, i)
    PROVE  Known' = Known
<1>1. /\ SoundClass(aClass[s], clock) /\ clock \in Nat /\ WithinHistory(aClass[s])
      /\ CapacityOfFirst(aClass[s]) /\ SoundSnapshot(handler[s].msg, clock)
  BY ServerInv, TimelineFacts
<1>2. CASE Enroll(s, i)
  <2>1. clock' \in Instant /\ clock' # NoInstant
    BY <1>1, <1>2 DEF Enroll, ReadClock, Instant, NoInstant
  <2>2. SameTimeline(aClass[s], EnrollAt(aClass[s], i, clock'))
    BY <1>1, <1>2, <2>1, EnrollWithin DEF Enroll
  <2>3. aClass' = [aClass EXCEPT ![s] = EnrollAt(aClass[s], i, clock')]
    BY <1>2 DEF Enroll
  <2> QED
    BY <2>2, <2>3, KnownStep
<1>3. CASE Discard(s, i)
  <2>1. SameTimeline(aClass[s], DiscardAt(aClass[s], i, clock'))
    BY <1>1, DiscardWithin
  <2>2. aClass' = [aClass EXCEPT ![s] = DiscardAt(aClass[s], i, clock')]
    BY <1>3 DEF Discard
  <2> QED
    BY <2>1, <2>2, KnownStep
<1>4. CASE ValidateNext(s, i)
  <2>1. SameTimeline(aClass[s], ValidateStudent(aClass[s], i))
    BY <1>1, ValidateStudentWithin
  <2>2. aClass' = [aClass EXCEPT ![s] = ValidateStudent(aClass[s], i)]
    BY <1>4 DEF ValidateNext
  <2> QED
    BY <2>1, <2>2, KnownStep
<1>5. CASE MergeNext(s, i)
  <2>1. SameTimeline(aClass[s], MergeStudent(aClass[s], i, handler[s].msg))
    BY <1>1, MergeStudentWithin
  <2>2. aClass' = [aClass EXCEPT ![s] = MergeStudent(aClass[s], i, handler[s].msg)]
    BY <1>5 DEF MergeNext
  <2> QED
    BY <2>1, <2>2, KnownStep
<1> QED
  BY <1>2, <1>3, <1>4, <1>5

LEMMA AdminsLeaveTimelines ==
    ASSUME IndInv, TimelineInv, NEW s \in Servers,
           Activate(s) \/ Deactivate(s) \/ ActivateGossip(s) \/ DeactivateGossip(s)
    PROVE  Known' = Known
<1>1. aClass[s] \in ClassState
  BY ServerInv
<1>2. PICK b \in BOOLEAN :
          \/ aClass' = [aClass EXCEPT ![s] = [aClass[s] EXCEPT !.active = b]]
          \/ aClass' = [aClass EXCEPT ![s] = [aClass[s] EXCEPT !.gossip = b]]
  BY DEF Activate, Deactivate, ActivateGossip, DeactivateGossip
<1>3. ASSUME NEW d \in {[aClass[s] EXCEPT !.active = b], [aClass[s] EXCEPT !.gossip = b]}
      PROVE  SameTimeline(aClass[s], d)
  BY <1>1 DEF SameTimeline, ClassState
<1> QED
  BY <1>2, <1>3, KnownStep

LEMMA StepIsShared ==
    ASSUME IndInv, TimelineInv, [Next]_vars
    PROVE  Known' = Known \/ Shared!Next
<1>1. ASSUME UNCHANGED aClass PROVE Known' = Known
  BY <1>1 DEF Known
<1>2. ASSUME NEW s \in Servers, ServerStep(s) PROVE Known' = Known \/ Shared!Next
  <2>1. CASE HandlerStep(s)
    <3>1. CASE MergeStudents(s)
      BY <1>1, <3>1 DEF MergeStudents
    <3> QED
      BY <2>1, <3>1, CorrectTimelineIsShared, StudentsLeaveTimelines DEF HandlerStep
  <2>2. CASE CloseEnrollments(s) \/ \E c \in Capacities : OpenEnrollments(s, c)
    BY <2>2, OpenIsShared, CloseIsShared DEF Shared!Next
  <2>3. CASE StartRound(s) \/ \E r \in Servers : PropagateState(s, r) \/ ForceGossip(s, r)
    BY <1>1, <2>3 DEF StartRound, PropagateState, ForceGossip
  <2>4. CASE Restart(s)
    <3>1. s \in Restartable /\ aClass' = [aClass EXCEPT ![s] = NewClass(FlagOf(s))]
      BY <2>4 DEF Restart
    <3>2. NewClass(FlagOf(s)).enrollablesTimes = {}
      BY DEF NewClass
    <3>3. Known' = [Known EXCEPT ![s] = {}]
      BY <3>1, <3>2, KnownStep
    <3> QED
      BY <3>1, <3>3 DEF Shared!Next, Shared!Forget, Known
  <2> QED
    BY <1>2, <2>1, <2>2, <2>3, <2>4, StudentsLeaveTimelines, AdminsLeaveTimelines
       DEF ServerStep
<1>3. CASE \E m \in inflight : Lose(m) \/ Receive(m)
  BY <1>1, <1>3 DEF Lose, Receive
<1>4. CASE UNCHANGED vars
  BY <1>1, <1>4 DEF vars
<1> QED
  BY <1>2, <1>3, <1>4 DEF Next

\* While the primary lives, the replicas implement the one timeline of
\* SharedTimeline: every step of any server either leaves the timelines alone or is
\* the primary opening or ending its newest frame, a secondary learning some of what
\* the primary knows and forgetting nothing, or a secondary that is started again.
THEOREM ReplicasShareTimeline ==
    ASSUME Primary \notin Restartable
    PROVE  Spec => TimelineIsShared
<1>1. Init => Shared!Init
  BY DEF Init, Shared!Init, NewClass
<1>2. IndInv /\ TimelineInv /\ [Next]_vars => [Shared!Next]_Known
  BY StepIsShared
<1> QED
  BY <1>1, <1>2, AlwaysTimelineInv, PTL DEF Spec, TimelineIsShared, Shared!Spec, Known

=============================================================================
