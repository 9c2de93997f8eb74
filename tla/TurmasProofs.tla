---------------------------- MODULE TurmasProofs ----------------------------
(***************************************************************************)
(* Proofs about Turmas, for any number of servers and students and for any *)
(* value of the bounds: first what the operators of TurmasClass return,    *)
(* then the records of all replicas.  IndInv, the inductive invariant, and *)
(* Forward, what a step does to the replicas' records, are proved          *)
(* together, action by action.                                             *)
(***************************************************************************)
EXTENDS Turmas, FiniteSetTheorems, WellFoundedInduction, TLAPS

-----------------------------------------------------------------------------
(* The inductive invariant. *)

\* Nothing in c is later than now, and a frame has room for a student.
WellTimed(c, now) ==
    /\ \A i \in StudentIds : c.enrolled[i] =< now /\ c.discarded[i] =< now
    /\ \A f \in c.enrollablesTimes : f.key =< now /\ f.start =< now /\ f.capacity > 0

SoundSnapshot(m, now) == m \in Snapshot /\ Exclusive(m) /\ WellTimed(m, now)

SoundClass(c, now) ==
    /\ c \in ClassState /\ Exclusive(c) /\ WellTimed(c, now)
    /\ TimelineAgrees(c)
    /\ c.enrollmentsOpen => c.enrollablesTimes # {}

\* The inductive invariant: every class state,
\* of a replica, in a handler or in flight, is sound at the present instant.
IndInv ==
    /\ TypeOK
    /\ \A s \in Servers :
        SoundClass(aClass[s], clock) /\ SoundSnapshot(handler[s].msg, clock)
    /\ \A m \in inflight : SoundSnapshot(m.state, clock)

-----------------------------------------------------------------------------
(* Largest elements. *)

\* A nonempty set of natural numbers has a smallest element.
LEMMA SmallestOf ==
    ASSUME NEW T \in SUBSET Nat, T # {}
    PROVE  \E x \in T : \A y \in T : x =< y
<1> DEFINE R == OpToRel(<, Nat)
<1>1. \E x \in T : \A y \in T : ~(<<y, x>> \in R)
  BY NatLessThanWellFounded, WFMin
<1>2. \A x, y \in Nat : ~(<<y, x>> \in R) => x =< y
  BY DEF OpToRel
<1> QED
  BY <1>1, <1>2

\* A nonempty set of natural numbers below a bound has a largest element.
LEMMA LargestOf ==
    ASSUME NEW T \in SUBSET Nat, T # {}, NEW n \in Nat, \A x \in T : x =< n
    PROVE  \E x \in T : \A y \in T : y =< x
<1> DEFINE U == {n - x : x \in T}
<1>0. \A x \in T : n - x \in Nat
  OBVIOUS
<1>1. U \in SUBSET Nat /\ U # {}
  <2>1. U \in SUBSET Nat
    BY <1>0
  <2>2. U # {}
    <3>1. PICK x \in T : TRUE
      OBVIOUS
    <3>2. n - x \in U
      BY <3>1
    <3> QED
      BY <3>2
  <2> QED
    BY <2>1, <2>2
<1> HIDE DEF U
<1>2. PICK u \in U : \A v \in U : u =< v
  BY <1>1, SmallestOf
<1>3. PICK x \in T : u = n - x
  BY <1>2 DEF U
<1>4. \A y \in T : n - y \in U
  BY DEF U
<1>5. \A y \in T : y =< x
  BY <1>2, <1>3, <1>4
<1> QED
  BY <1>5

\* FirstFrame picks the most recent frame of a timeline that has one.
LEMMA FirstFrameIsLatest ==
    ASSUME NEW times \in SUBSET TimeFrame, times # {},
           NEW n \in Nat, \A f \in times : f.key =< n
    PROVE  /\ FirstFrame(times) \in times
           /\ \A g \in times : g.key =< FirstFrame(times).key
<1> DEFINE keys == {f.key : f \in times}
<1>1. keys \in SUBSET Nat /\ keys # {} /\ \A k \in keys : k =< n
  BY DEF TimeFrame, Instant
<1>2. PICK k \in keys : \A j \in keys : j =< k
  BY <1>1, LargestOf
<1>3. \E f \in times : \A g \in times : g.key =< f.key
  BY <1>2
<1> QED
  BY <1>3 DEF FirstFrame

\* LastEnrolled picks an enrolled student when there is one.
LEMMA LastEnrolledIsEnrolled ==
    ASSUME NEW c, c.enrolled \in StudentMap, EnrolledIn(c) # {},
           NEW n \in Nat, \A i \in StudentIds : c.enrolled[i] =< n
    PROVE  /\ LastEnrolled(c) \in EnrolledIn(c)
           /\ \A j \in EnrolledIn(c) : c.enrolled[j] =< c.enrolled[LastEnrolled(c)]
<1> DEFINE instants == {c.enrolled[i] : i \in EnrolledIn(c)}
<1>1. instants \in SUBSET Nat /\ instants # {} /\ \A t \in instants : t =< n
  BY DEF EnrolledIn, StudentMap, Instant
<1>2. PICK t \in instants : \A u \in instants : u =< t
  BY <1>1, LargestOf
<1>3. \E i \in EnrolledIn(c) : \A j \in EnrolledIn(c) : c.enrolled[j] =< c.enrolled[i]
  BY <1>2
<1> QED
  BY <1>3 DEF LastEnrolled

-----------------------------------------------------------------------------
(* Frames. *)

LEMMA FirstFrameType ==
    ASSUME NEW times \in SUBSET TimeFrame, times # {},
           NEW n \in Nat, \A f \in times : f.key =< n
    PROVE  FirstFrame(times) \in TimeFrame
BY FirstFrameIsLatest

LEMMA PutAllType ==
    ASSUME NEW times \in SUBSET TimeFrame, NEW frames \in SUBSET TimeFrame
    PROVE  PutAll(times, frames) \in SUBSET TimeFrame
BY DEF PutAll

\* What correctTimeline leaves is not empty and made of local and received frames.
LEMMA MergedTimesFrames ==
    ASSUME NEW local \in SUBSET TimeFrame, NEW received \in SUBSET TimeFrame,
           NEW n \in Nat, received # {},
           \A f \in local \cup received :
               f.key =< n /\ f.start =< n /\ f.capacity > 0
    PROVE  /\ MergedTimes(local, received) \in SUBSET TimeFrame
           /\ MergedTimes(local, received) # {}
           /\ \A f \in MergedTimes(local, received) :
                  f.key =< n /\ f.start =< n /\ f.capacity > 0
<1>1. CASE local = {}
  BY <1>1 DEF MergedTimes
<1>2. CASE local # {} /\ Cardinality(received) = Cardinality(local)
  <2> DEFINE first == [FirstFrame(received) EXCEPT !.key = FirstFrame(local).key]
  <2>1. /\ FirstFrame(received) \in received /\ FirstFrame(received) \in TimeFrame
        /\ FirstFrame(local) \in local /\ FirstFrame(local) \in TimeFrame
    BY <1>2, FirstFrameIsLatest
  <2>2. first \in TimeFrame /\ first.key =< n /\ first.start =< n /\ first.capacity > 0
    BY <2>1 DEF TimeFrame
  <2>3. MergedTimes(local, received) = local
        \/ MergedTimes(local, received) = PutAll(local, {first})
    BY <1>2 DEF MergedTimes
  <2> HIDE DEF first
  <2>4. PutAll(local, {first}) \in SUBSET (local \cup {first}) /\ first \in PutAll(local, {first})
    BY DEF PutAll
  <2> QED
    BY <1>2, <2>2, <2>3, <2>4
<1>3. CASE local # {} /\ Cardinality(received) # Cardinality(local)
  <2> DEFINE since == FramesSince(received, FirstFrame(local).start)
  <2>1. MergedTimes(local, received) = PutAll(local, since)
    BY <1>3 DEF MergedTimes
  <2>2. since \in SUBSET received /\ since # {}
    <3>1. FirstFrame(local) \in TimeFrame
      BY <1>3, FirstFrameType
    <3>2. FirstFrame(local).start \in Nat
      BY <3>1 DEF TimeFrame, Instant
    <3> QED
      BY <3>2 DEF FramesSince, TimeFrame, Instant
  <2> HIDE DEF since
  <2>3. PutAll(local, since) \in SUBSET (local \cup since) /\ since \subseteq PutAll(local, since)
    BY DEF PutAll
  <2> QED
    BY <2>1, <2>2, <2>3
<1> QED
  BY <1>1, <1>2, <1>3

-----------------------------------------------------------------------------
(* Sound class states stay sound, and what they know of students advances. *)

\* A new class is sound at any instant; so is what it would send.
LEMMA NewClassSound ==
    ASSUME NEW flag \in {"P", "S"}, NEW now \in Nat
    PROVE  SoundClass(NewClass(flag), now)
BY DEF SoundClass, NewClass, ClassState, Exclusive, WellTimed, TimelineAgrees,
       ReceivedTimestamp, NobodyMapped, StudentMap, Instant, NoInstant

LEMMA SnapshotSound ==
    ASSUME NEW c, NEW now \in Nat, SoundClass(c, now)
    PROVE  SoundSnapshot(SnapshotOf(c), now)
BY DEF SoundClass, SoundSnapshot, SnapshotOf, ClassState, Snapshot, Exclusive, WellTimed

LEMMA ReceivedSound ==
    ASSUME NEW m, NEW now \in Nat, SoundSnapshot(m, now)
    PROVE  SoundSnapshot(Received(m), now)
<1> DEFINE times == {[f EXCEPT !.key = f.start] : f \in m.enrollablesTimes}
<1>1. m \in Snapshot /\ Received(m) = [m EXCEPT !.enrollablesTimes = times]
  BY DEF SoundSnapshot, Received
<1>2. m.enrollablesTimes \in SUBSET TimeFrame
  BY <1>1 DEF Snapshot
<1>3. times \in SUBSET TimeFrame
  BY <1>2 DEF TimeFrame
<1>4. \A f \in times : f.key =< now /\ f.start =< now /\ f.capacity > 0
  BY <1>2 DEF SoundSnapshot, WellTimed, TimeFrame
<1> HIDE DEF times
<1> QED
  BY <1>1, <1>3, <1>4 DEF SoundSnapshot, Snapshot, Exclusive, WellTimed

\* Soundness does not wear off with time.
LEMMA SoundLater ==
    ASSUME NEW now \in Nat, NEW later \in Nat, now =< later
    PROVE  /\ \A c : SoundClass(c, now) => SoundClass(c, later)
           /\ \A m : SoundSnapshot(m, now) => SoundSnapshot(m, later)
BY DEF SoundClass, SoundSnapshot, WellTimed, ClassState, Snapshot, StudentMap, TimeFrame, Instant

\* The entries of one student change, to an enrollment at e or a discard at x.
LEMMA OneStudentSound ==
    ASSUME NEW c, NEW now \in Nat, SoundClass(c, now), NEW i \in StudentIds,
           NEW later \in Nat, now =< later,
           NEW e \in Instant, NEW x \in Instant, NEW t \in Instant,
           e =< later, x =< later,
           (e = NoInstant /\ t = x) \/ (x = NoInstant /\ t = e),
           NEW d \in ClassState,
           d.enrolled = [c.enrolled EXCEPT ![i] = e],
           d.discarded = [c.discarded EXCEPT ![i] = x],
           d.studentTimeline = [c.studentTimeline EXCEPT ![i] = t],
           d.enrollablesTimes = c.enrollablesTimes,
           d.enrollmentsOpen = c.enrollmentsOpen
    PROVE  /\ SoundClass(d, later)
           /\ \A j \in StudentIds \ {i} : Advances(c, d, j)
<1>1. SoundClass(c, later) /\ c \in ClassState
  BY SoundLater DEF SoundClass
<1>2. /\ c.enrolled \in StudentMap /\ c.discarded \in StudentMap
      /\ c.studentTimeline \in StudentMap
  BY <1>1 DEF ClassState
<1>3. /\ d.enrolled[i] = e /\ d.discarded[i] = x /\ d.studentTimeline[i] = t
      /\ \A j \in StudentIds \ {i} :
            /\ d.enrolled[j] = c.enrolled[j] /\ d.discarded[j] = c.discarded[j]
            /\ d.studentTimeline[j] = c.studentTimeline[j]
  BY <1>2 DEF StudentMap
<1>4. Exclusive(d)
  BY <1>1, <1>3 DEF SoundClass, Exclusive
<1>5. TimelineAgrees(d)
  BY <1>1, <1>3 DEF SoundClass, TimelineAgrees, ReceivedTimestamp
<1>6. WellTimed(d, later)
  BY <1>1, <1>3 DEF SoundClass, WellTimed
<1>7. \A j \in StudentIds \ {i} : Advances(c, d, j)
  BY <1>3 DEF Advances, EnrolledIn
<1> QED
  BY <1>1, <1>4, <1>5, <1>6, <1>7 DEF SoundClass

LEMMA EnrollAtSound ==
    ASSUME NEW c, NEW now \in Nat, SoundClass(c, now), NEW i \in StudentIds,
           NEW later \in Nat, now < later
    PROVE  /\ SoundClass(EnrollAt(c, i, later), later)
           /\ \A j \in StudentIds : Advances(c, EnrollAt(c, i, later), j)
<1> DEFINE d == EnrollAt(c, i, later)
<1>1. /\ d \in ClassState
      /\ d.enrolled = [c.enrolled EXCEPT ![i] = later]
      /\ d.discarded = [c.discarded EXCEPT ![i] = NoInstant]
      /\ d.studentTimeline = [c.studentTimeline EXCEPT ![i] = later]
      /\ d.enrollablesTimes = c.enrollablesTimes
      /\ d.enrollmentsOpen = c.enrollmentsOpen
  BY DEF SoundClass, EnrollAt, ClassState, StudentMap, Instant, NoInstant
<1> HIDE DEF d
<1>2. SoundClass(d, later) /\ \A j \in StudentIds \ {i} : Advances(c, d, j)
  BY <1>1, OneStudentSound DEF Instant, NoInstant
<1>3. Advances(c, d, i)
  <2>1. d.studentTimeline[i] = later
    BY <1>1 DEF SoundClass, ClassState, StudentMap
  <2>2. c.studentTimeline[i] \in Nat /\ c.studentTimeline[i] =< now
    BY DEF SoundClass, ClassState, StudentMap, Instant, WellTimed, TimelineAgrees,
           ReceivedTimestamp
  <2> QED
    BY <2>1, <2>2 DEF Advances
<1> QED
  BY <1>2, <1>3 DEF d

LEMMA DiscardAtSound ==
    ASSUME NEW c, NEW now \in Nat, SoundClass(c, now), NEW i \in StudentIds,
           NEW later \in Nat, now < later
    PROVE  /\ SoundClass(DiscardAt(c, i, later), later)
           /\ \A j \in StudentIds : Advances(c, DiscardAt(c, i, later), j)
<1> DEFINE d == DiscardAt(c, i, later)
<1>1. /\ d \in ClassState
      /\ d.enrolled = [c.enrolled EXCEPT ![i] = NoInstant]
      /\ d.discarded = [c.discarded EXCEPT ![i] = later]
      /\ d.studentTimeline = [c.studentTimeline EXCEPT ![i] = later]
      /\ d.enrollablesTimes = c.enrollablesTimes
      /\ d.enrollmentsOpen = c.enrollmentsOpen
  BY DEF SoundClass, DiscardAt, ClassState, StudentMap, Instant, NoInstant
<1> HIDE DEF d
<1>2. SoundClass(d, later) /\ \A j \in StudentIds \ {i} : Advances(c, d, j)
  BY <1>1, OneStudentSound DEF Instant, NoInstant
<1>3. Advances(c, d, i)
  <2>1. d.studentTimeline[i] = later
    BY <1>1 DEF SoundClass, ClassState, StudentMap
  <2>2. c.studentTimeline[i] \in Nat /\ c.studentTimeline[i] =< now
    BY DEF SoundClass, ClassState, StudentMap, Instant, WellTimed, TimelineAgrees,
           ReceivedTimestamp
  <2> QED
    BY <2>1, <2>2 DEF Advances
<1> QED
  BY <1>2, <1>3 DEF d

\* Discarding a student with the instant its enrollment has, or with a later one.
LEMMA ConflictDiscardSound ==
    ASSUME NEW c, NEW now \in Nat, SoundClass(c, now), NEW i \in StudentIds,
           NEW t \in Instant, t =< now, c.studentTimeline[i] =< t
    PROVE  /\ SoundClass(ConflictDiscard(c, i, t), now)
           /\ \A j \in StudentIds : Advances(c, ConflictDiscard(c, i, t), j)
<1> DEFINE d == ConflictDiscard(c, i, t)
<1>1. /\ d \in ClassState
      /\ d.enrolled = [c.enrolled EXCEPT ![i] = NoInstant]
      /\ d.discarded = [c.discarded EXCEPT ![i] = t]
      /\ d.studentTimeline = [c.studentTimeline EXCEPT ![i] = t]
      /\ d.enrollablesTimes = c.enrollablesTimes
      /\ d.enrollmentsOpen = c.enrollmentsOpen
  BY DEF SoundClass, ConflictDiscard, ClassState, StudentMap, Instant, NoInstant
<1> HIDE DEF d
<1>2. SoundClass(d, now) /\ \A j \in StudentIds \ {i} : Advances(c, d, j)
  BY <1>1, OneStudentSound DEF Instant, NoInstant
<1>3. Advances(c, d, i)
  <2>1. d.studentTimeline[i] = t /\ d.enrolled[i] = NoInstant
    BY <1>1 DEF SoundClass, ClassState, StudentMap
  <2>2. c.studentTimeline[i] \in Nat
    BY DEF SoundClass, ClassState, StudentMap, Instant
  <2> QED
    BY <2>1, <2>2 DEF Advances, EnrolledIn, Instant
<1> QED
  BY <1>2, <1>3 DEF d

LEMMA AdmitSound ==
    ASSUME NEW c, NEW now \in Nat, SoundClass(c, now), NEW i \in StudentIds,
           NEW t \in Instant, t =< now, c.studentTimeline[i] < t
    PROVE  /\ SoundClass(Admit(c, i, t), now)
           /\ \A j \in StudentIds : Advances(c, Admit(c, i, t), j)
<1> DEFINE d == Admit(c, i, t)
<1>1. /\ d \in ClassState
      /\ d.enrolled = [c.enrolled EXCEPT ![i] = t]
      /\ d.discarded = [c.discarded EXCEPT ![i] = NoInstant]
      /\ d.studentTimeline = [c.studentTimeline EXCEPT ![i] = t]
      /\ d.enrollablesTimes = c.enrollablesTimes
      /\ d.enrollmentsOpen = c.enrollmentsOpen
  BY DEF SoundClass, Admit, ClassState, StudentMap, Instant, NoInstant
<1> HIDE DEF d
<1>2. SoundClass(d, now) /\ \A j \in StudentIds \ {i} : Advances(c, d, j)
  BY <1>1, OneStudentSound DEF Instant, NoInstant
<1>3. Advances(c, d, i)
  <2>1. d.studentTimeline[i] = t
    BY <1>1 DEF SoundClass, ClassState, StudentMap
  <2> QED
    BY <2>1 DEF Advances
<1> QED
  BY <1>2, <1>3 DEF d

-----------------------------------------------------------------------------
(* Frames and flags change, the students do not. *)

LEMMA StudentsUnchangedSound ==
    ASSUME NEW c, NEW now \in Nat, SoundClass(c, now), NEW d \in ClassState,
           NEW later \in Nat, now =< later,
           d.enrolled = c.enrolled, d.discarded = c.discarded,
           d.studentTimeline = c.studentTimeline,
           \A f \in d.enrollablesTimes : f.key =< later /\ f.start =< later /\ f.capacity > 0,
           d.enrollmentsOpen => d.enrollablesTimes # {}
    PROVE  SoundClass(d, later) /\ \A i \in StudentIds : Advances(c, d, i)
<1>1. SoundClass(c, later)
  BY SoundLater
<1>2. SoundClass(d, later)
  BY <1>1 DEF SoundClass, Exclusive, WellTimed, TimelineAgrees, ReceivedTimestamp
<1> QED
  BY <1>2 DEF Advances, EnrolledIn

LEMMA CloseAtSound ==
    ASSUME NEW c, NEW now \in Nat, SoundClass(c, now), c.enrollmentsOpen,
           NEW later \in Nat, now < later
    PROVE  /\ SoundClass(CloseAt(c, later), later)
           /\ \A i \in StudentIds : Advances(c, CloseAt(c, later), i)
<1> DEFINE times == c.enrollablesTimes
           closed == [FirstFrame(times) EXCEPT !.end = later]
           d == CloseAt(c, later)
<1>1. times \in SUBSET TimeFrame /\ times # {}
  BY DEF SoundClass, ClassState
<1>2. \A f \in times : f.key =< later /\ f.start =< later /\ f.capacity > 0
  BY SoundLater DEF SoundClass, WellTimed
<1>3. FirstFrame(times) \in times
  BY <1>1, <1>2, FirstFrameIsLatest
<1>4. closed \in TimeFrame /\ closed.key =< later /\ closed.start =< later /\ closed.capacity > 0
  BY <1>1, <1>2, <1>3 DEF TimeFrame, Instant
<1> HIDE DEF closed
<1>5. PutAll(times, {closed}) \in SUBSET TimeFrame /\ PutAll(times, {closed}) \subseteq times \cup {closed}
  BY <1>1, <1>4 DEF PutAll
<1>6. d = [c EXCEPT !.enrollmentsOpen = FALSE, !.enrollablesTimes = PutAll(times, {closed})]
  BY DEF CloseAt, closed
<1>7. d \in ClassState /\ d.enrolled = c.enrolled /\ d.discarded = c.discarded
      /\ d.studentTimeline = c.studentTimeline
      /\ d.enrollablesTimes = PutAll(times, {closed}) /\ ~d.enrollmentsOpen
  BY <1>5, <1>6 DEF SoundClass, ClassState
<1> HIDE DEF d, times
<1>8. \A f \in d.enrollablesTimes : f.key =< later /\ f.start =< later /\ f.capacity > 0
  BY <1>2, <1>4, <1>5, <1>7
<1> QED
  BY <1>7, <1>8, StudentsUnchangedSound DEF d

LEMMA OpenAtSound ==
    ASSUME NEW c, NEW now \in Nat, SoundClass(c, now), NEW newCapacity \in Int,
           newCapacity > 0, NEW later \in Nat, now < later
    PROVE  /\ SoundClass(OpenAt(c, newCapacity, later), later)
           /\ \A i \in StudentIds : Advances(c, OpenAt(c, newCapacity, later), i)
<1> DEFINE times == c.enrollablesTimes
           opened == [key |-> later, start |-> later, end |-> NoInstant,
                      capacity |-> newCapacity]
           d == OpenAt(c, newCapacity, later)
<1>1. times \in SUBSET TimeFrame
  BY DEF SoundClass, ClassState
<1>2. \A f \in times : f.key =< later /\ f.start =< later /\ f.capacity > 0
  BY SoundLater DEF SoundClass, WellTimed
<1>3. opened \in TimeFrame /\ opened.key =< later /\ opened.start =< later /\ opened.capacity > 0
  BY DEF TimeFrame, Instant, NoInstant
<1> HIDE DEF opened
<1>4. /\ PutAll(times, {opened}) \in SUBSET TimeFrame /\ PutAll(times, {opened}) # {}
      /\ PutAll(times, {opened}) \subseteq times \cup {opened}
  BY <1>1, <1>3 DEF PutAll
<1>5. d = [c EXCEPT !.enrollmentsOpen = TRUE, !.capacity = newCapacity,
                    !.enrollablesTimes = PutAll(times, {opened})]
  BY DEF OpenAt, opened
<1>6. d \in ClassState /\ d.enrolled = c.enrolled /\ d.discarded = c.discarded
      /\ d.studentTimeline = c.studentTimeline
      /\ d.enrollablesTimes = PutAll(times, {opened})
  BY <1>4, <1>5 DEF SoundClass, ClassState
<1> HIDE DEF d, times
<1>7. \A f \in d.enrollablesTimes : f.key =< later /\ f.start =< later /\ f.capacity > 0
  BY <1>2, <1>3, <1>4, <1>6
<1>8. d.enrollablesTimes # {} /\ now =< later
  BY <1>4, <1>6
<1>9. SoundClass(d, later) /\ \A i \in StudentIds : Advances(c, d, i)
  BY <1>6, <1>7, <1>8, StudentsUnchangedSound
<1> QED
  BY <1>9 DEF d

LEMMA CorrectTimesSound ==
    ASSUME NEW c, NEW now \in Nat, SoundClass(c, now),
           NEW m, SoundSnapshot(m, now), m.enrollablesTimes # {}
    PROVE  /\ SoundClass(CorrectTimes(c, m.enrollablesTimes), now)
           /\ \A i \in StudentIds : Advances(c, CorrectTimes(c, m.enrollablesTimes), i)
<1> DEFINE local == c.enrollablesTimes
           received == m.enrollablesTimes
           d == CorrectTimes(c, received)
<1>1. local \in SUBSET TimeFrame /\ received \in SUBSET TimeFrame
  BY DEF SoundClass, SoundSnapshot, ClassState, Snapshot
<1>2. \A f \in local \cup received : f.key =< now /\ f.start =< now /\ f.capacity > 0
  BY DEF SoundClass, SoundSnapshot, WellTimed
<1>3. FirstFrame(received) \in TimeFrame
  BY <1>1, <1>2, FirstFrameType
<1>4. FirstFrame(received).capacity \in Int
  BY <1>3 DEF TimeFrame
<1>5. /\ MergedTimes(local, received) \in SUBSET TimeFrame
      /\ MergedTimes(local, received) # {}
      /\ \A f \in MergedTimes(local, received) :
            f.key =< now /\ f.start =< now /\ f.capacity > 0
  BY <1>1, <1>2, MergedTimesFrames
<1>6. d \in ClassState /\ d.enrolled = c.enrolled /\ d.discarded = c.discarded
      /\ d.studentTimeline = c.studentTimeline
      /\ d.enrollablesTimes = MergedTimes(local, received)
  BY <1>4, <1>5 DEF SoundClass, ClassState, CorrectTimes
<1> HIDE DEF d
<1> QED
  BY <1>5, <1>6, StudentsUnchangedSound DEF d

-----------------------------------------------------------------------------
(* The turns of the two loops. *)

LEMMA AdvancesTransitive ==
    ASSUME NEW b \in ClassState, NEW c \in ClassState, NEW d \in ClassState,
           NEW i \in StudentIds, Advances(b, c, i), Advances(c, d, i)
    PROVE  Advances(b, d, i)
<1>1. /\ b.studentTimeline[i] \in Nat /\ c.studentTimeline[i] \in Nat
      /\ d.studentTimeline[i] \in Nat
  BY DEF ClassState, StudentMap, Instant
<1> QED
  BY <1>1 DEF Advances

\* An enrolled student's entry in studentTimeline is the instant of its enrollment.
LEMMA EnrolledTimeline ==
    ASSUME NEW c, NEW now \in Nat, SoundClass(c, now), NEW i \in EnrolledIn(c)
    PROVE  /\ i \in StudentIds
           /\ c.studentTimeline[i] = c.enrolled[i]
           /\ c.enrolled[i] \in Instant /\ c.enrolled[i] =< now
BY DEF SoundClass, EnrolledIn, TimelineAgrees, ReceivedTimestamp, Exclusive, WellTimed,
       ClassState, StudentMap

LEMMA ContestLastPlaceSound ==
    ASSUME NEW c, NEW now \in Nat, SoundClass(c, now), EnrolledIn(c) # {},
           NEW i \in StudentIds, i \notin EnrolledIn(c),
           NEW t \in Instant, t =< now, c.studentTimeline[i] < t
    PROVE  /\ SoundClass(ContestLastPlace(c, i, t), now)
           /\ \A j \in StudentIds : Advances(c, ContestLastPlace(c, i, t), j)
<1> DEFINE last == LastEnrolled(c)
           without == ConflictDiscard(c, last, c.enrolled[last])
<1>1. last \in EnrolledIn(c)
  <2>1. c.enrolled \in StudentMap /\ \A j \in StudentIds : c.enrolled[j] =< now
    BY DEF SoundClass, ClassState, WellTimed
  <2> QED
    BY <2>1, LastEnrolledIsEnrolled
<1> HIDE DEF last
<1>2. /\ last \in StudentIds /\ c.studentTimeline[last] = c.enrolled[last]
      /\ c.enrolled[last] \in Instant /\ c.enrolled[last] =< now
  BY <1>1, EnrolledTimeline
<1>3. SoundClass(without, now) /\ \A j \in StudentIds : Advances(c, without, j)
  <2>1. c.studentTimeline[last] =< c.enrolled[last]
    BY <1>2 DEF Instant
  <2> QED
    BY <1>2, <2>1, ConflictDiscardSound
<1>4. without.studentTimeline[i] = c.studentTimeline[i]
  BY <1>1 DEF ConflictDiscard, SoundClass, ClassState, StudentMap
<1>5. CASE c.studentTimeline[last] > t
  <2> HIDE DEF without
  <2>1. ContestLastPlace(c, i, t) = Admit(without, i, t)
    BY <1>5 DEF ContestLastPlace, last, without
  <2>2. SoundClass(Admit(without, i, t), now)
        /\ \A j \in StudentIds : Advances(without, Admit(without, i, t), j)
    BY <1>3, <1>4, AdmitSound
  <2>3. /\ c \in ClassState /\ without \in ClassState /\ Admit(without, i, t) \in ClassState
    BY <1>3, <2>2 DEF SoundClass
  <2> QED
    BY <1>3, <2>1, <2>2, <2>3, AdvancesTransitive
<1>6. CASE ~(c.studentTimeline[last] > t)
  <2>1. ContestLastPlace(c, i, t) = ConflictDiscard(c, i, t)
    BY <1>6 DEF ContestLastPlace, last
  <2>2. c.studentTimeline[i] =< t
    BY DEF SoundClass, ClassState, StudentMap, Instant
  <2> QED
    BY <2>1, <2>2, ConflictDiscardSound
<1> QED
  BY <1>5, <1>6

LEMMA ConflictEnrollSound ==
    ASSUME NEW c, NEW now \in Nat, SoundClass(c, now), NEW i \in StudentIds,
           NEW t \in Instant, t =< now, c.studentTimeline[i] < t
    PROVE  /\ SoundClass(ConflictEnroll(c, i, t), now)
           /\ \A j \in StudentIds : Advances(c, ConflictEnroll(c, i, t), j)
<1> DEFINE around == FramesAround(c, t)
           full == Cardinality(EnrolledIn(c)) >= FirstFrame(around).capacity
<1>1. c.studentTimeline[i] =< t
  BY DEF SoundClass, ClassState, StudentMap, Instant
<1>2. CASE i \in EnrolledIn(c)
  BY <1>2 DEF ConflictEnroll, Advances
<1>3. CASE i \notin EnrolledIn(c) /\ around = {}
  BY <1>1, <1>3, ConflictDiscardSound DEF ConflictEnroll
<1>4. CASE i \notin EnrolledIn(c) /\ around # {} /\ full
  <2>1. around \in SUBSET TimeFrame /\ \A f \in around : f.key =< now /\ f.capacity > 0
    BY DEF FramesAround, SoundClass, ClassState, WellTimed
  <2>2. FirstFrame(around) \in around
    BY <1>4, <2>1, FirstFrameIsLatest
  <2>3. FirstFrame(around).capacity \in Int /\ FirstFrame(around).capacity > 0
    BY <2>1, <2>2 DEF TimeFrame
  <2>4. EnrolledIn(c) # {}
    BY <1>4, <2>3, FS_EmptySet
  <2>5. ConflictEnroll(c, i, t) = ContestLastPlace(c, i, t)
    BY <1>4 DEF ConflictEnroll
  <2> QED
    BY <1>4, <2>4, <2>5, ContestLastPlaceSound
<1>5. CASE i \notin EnrolledIn(c) /\ around # {} /\ ~full
  BY <1>5, AdmitSound DEF ConflictEnroll
<1> QED
  BY <1>2, <1>3, <1>4, <1>5

LEMMA MergeStudentSound ==
    ASSUME NEW c, NEW now \in Nat, SoundClass(c, now), NEW i \in StudentIds,
           NEW m, SoundSnapshot(m, now)
    PROVE  /\ SoundClass(MergeStudent(c, i, m), now)
           /\ \A j \in StudentIds : Advances(c, MergeStudent(c, i, m), j)
<1>1. /\ m.enrolled[i] \in Instant /\ m.enrolled[i] =< now
      /\ m.discarded[i] \in Instant /\ m.discarded[i] =< now
      /\ c.studentTimeline[i] \in Nat
  BY DEF SoundSnapshot, SoundClass, WellTimed, Snapshot, ClassState, StudentMap, Instant
<1>2. CASE ReceivedTimestamp(m, i) =< c.studentTimeline[i]
  BY <1>2 DEF MergeStudent, Advances
<1>3. CASE ~(ReceivedTimestamp(m, i) =< c.studentTimeline[i]) /\ m.enrolled[i] # NoInstant
  <2>1. ReceivedTimestamp(m, i) = m.enrolled[i]
    BY <1>3 DEF SoundSnapshot, Exclusive, ReceivedTimestamp
  <2>2. c.studentTimeline[i] < m.enrolled[i]
    BY <1>1, <1>3, <2>1 DEF Instant
  <2> QED
    BY <1>1, <1>3, <2>2, ConflictEnrollSound DEF MergeStudent
<1>4. CASE ~(ReceivedTimestamp(m, i) =< c.studentTimeline[i]) /\ m.enrolled[i] = NoInstant
  <2>1. ReceivedTimestamp(m, i) = m.discarded[i]
    BY <1>4 DEF ReceivedTimestamp
  <2>2. c.studentTimeline[i] =< m.discarded[i]
    BY <1>1, <1>4, <2>1 DEF Instant
  <2> QED
    BY <1>1, <1>4, <2>2, ConflictDiscardSound DEF MergeStudent
<1> QED
  BY <1>2, <1>3, <1>4

LEMMA ValidateStudentSound ==
    ASSUME NEW c, NEW now \in Nat, SoundClass(c, now), NEW i \in StudentIds
    PROVE  /\ SoundClass(ValidateStudent(c, i), now)
           /\ \A j \in StudentIds : Advances(c, ValidateStudent(c, i), j)
<1>1. CASE i \in EnrolledIn(c) /\ ~IsEnrollable(c, i)
  <2>1. c.enrolled[i] \in Instant /\ c.enrolled[i] =< now /\ c.studentTimeline[i] =< c.enrolled[i]
    BY <1>1, EnrolledTimeline DEF Instant
  <2> QED
    BY <1>1, <2>1, ConflictDiscardSound DEF ValidateStudent
<1>2. CASE ~(i \in EnrolledIn(c) /\ ~IsEnrollable(c, i))
  BY <1>2 DEF ValidateStudent, Advances
<1> QED
  BY <1>1, <1>2

-----------------------------------------------------------------------------
(* All replicas. *)

\* What RecordsOnlyAdvance says of one step.
Forward ==
    \A s \in Servers \ Restartable, i \in StudentIds : Advances(aClass[s], aClass'[s], i)

LEMMA IdleHandlerType ==
    IdleHandler \in Handler /\ \A now \in Nat : SoundSnapshot(IdleHandler.msg, now)
<1>1. \A now \in Nat : SoundSnapshot(EmptySnapshot, now)
  BY NewClassSound, SnapshotSound DEF EmptySnapshot
<1>2. EmptySnapshot \in Snapshot
  BY <1>1 DEF SoundSnapshot
<1> QED
  BY <1>1, <1>2 DEF IdleHandler, Handler, Phases

LEMMA InitInv == Init => IndInv
<1> SUFFICES ASSUME Init PROVE IndInv
  OBVIOUS
<1>1. clock = 0 /\ inflight = {} /\ round = [s \in Servers |-> {}]
      /\ handler = [s \in Servers |-> IdleHandler]
      /\ aClass = [s \in Servers |-> NewClass(FlagOf(s))]
  BY DEF Init
<1>2. \A s \in Servers : SoundClass(NewClass(FlagOf(s)), 0)
  BY NewClassSound DEF FlagOf
<1>3. \A s \in Servers : NewClass(FlagOf(s)) \in ClassState
  BY <1>2 DEF SoundClass
<1>4. TypeOK
  BY <1>1, <1>3, IdleHandlerType DEF TypeOK
<1> QED
  BY <1>1, <1>2, <1>4, IdleHandlerType DEF IndInv

\* What IndInv says of one server.
LEMMA ServerInv ==
    ASSUME IndInv, NEW s \in Servers
    PROVE  /\ SoundClass(aClass[s], clock) /\ aClass[s] \in ClassState
           /\ handler[s] \in Handler /\ SoundSnapshot(handler[s].msg, clock)
           /\ clock \in Nat
BY DEF IndInv, TypeOK

\* A step that replaces the class of s, and perhaps a handler, keeps the rest.
LEMMA ClassStep ==
    ASSUME IndInv, NEW s \in Servers, NEW d,
           SoundClass(d, clock'), \A i \in StudentIds : Advances(aClass[s], d, i),
           aClass' = [aClass EXCEPT ![s] = d],
           clock' \in Nat, clock =< clock',
           handler' \in [Servers -> Handler],
           \A r \in Servers : SoundSnapshot(handler'[r].msg, clock),
           UNCHANGED <<round, inflight>>
    PROVE  IndInv' /\ Forward
<1>1. /\ aClass \in [Servers -> ClassState] /\ clock \in Nat
      /\ \A r \in Servers : SoundClass(aClass[r], clock)
      /\ \A m \in inflight : SoundSnapshot(m.state, clock)
  BY DEF IndInv, TypeOK
<1>2. d \in ClassState
  BY DEF SoundClass
<1>3. TypeOK'
  BY <1>1, <1>2 DEF IndInv, TypeOK
<1>4. \A r \in Servers : SoundClass(aClass'[r], clock')
  BY <1>1, SoundLater
<1>5. \A r \in Servers : SoundSnapshot(handler'[r].msg, clock')
  BY <1>1, SoundLater
<1>6. \A m \in inflight' : SoundSnapshot(m.state, clock')
  BY <1>1, SoundLater
<1>7. Forward
  BY <1>1 DEF Forward, Advances
<1> QED
  BY <1>3, <1>4, <1>5, <1>6, <1>7 DEF IndInv

\* A request: the class of s changes, under the monitor, and nothing else.
LEMMA RequestStep ==
    ASSUME IndInv, NEW s \in Servers, NEW d,
           SoundClass(d, clock'), \A i \in StudentIds : Advances(aClass[s], d, i),
           aClass' = [aClass EXCEPT ![s] = d],
           clock' \in Nat, clock =< clock',
           UNCHANGED <<handler, round, inflight>>
    PROVE  IndInv' /\ Forward
<1>1. /\ handler' \in [Servers -> Handler]
      /\ \A r \in Servers : SoundSnapshot(handler'[r].msg, clock)
  BY DEF IndInv, TypeOK
<1> QED
  BY <1>1, ClassStep

\* A step that leaves the classes and the clock alone.
LEMMA MessageStep ==
    ASSUME IndInv, UNCHANGED <<aClass, clock>>, TypeOK',
           \A r \in Servers : SoundSnapshot(handler'[r].msg, clock),
           \A m \in inflight' : SoundSnapshot(m.state, clock)
    PROVE  IndInv' /\ Forward
<1>1. Forward
  BY DEF Forward, Advances
<1> QED
  BY <1>1 DEF IndInv

-----------------------------------------------------------------------------
(* Students and professors. *)

LEMMA EnrollStep ==
    ASSUME IndInv, NEW s \in Servers, NEW i \in StudentIds, Enroll(s, i)
    PROVE  IndInv' /\ Forward
<1>1. clock' \in Nat /\ clock < clock' /\ clock =< clock'
  BY ServerInv DEF Enroll, ReadClock
<1>2. SoundClass(EnrollAt(aClass[s], i, clock'), clock')
      /\ \A j \in StudentIds : Advances(aClass[s], EnrollAt(aClass[s], i, clock'), j)
  BY <1>1, ServerInv, EnrollAtSound
<1>3. aClass' = [aClass EXCEPT ![s] = EnrollAt(aClass[s], i, clock')]
      /\ UNCHANGED <<handler, round, inflight>>
  BY DEF Enroll
<1> QED
  BY <1>1, <1>2, <1>3, RequestStep

LEMMA DiscardStep ==
    ASSUME IndInv, NEW s \in Servers, NEW i \in StudentIds, Discard(s, i)
    PROVE  IndInv' /\ Forward
<1>1. clock' \in Nat /\ clock < clock' /\ clock =< clock'
  BY ServerInv DEF Discard, ReadClock
<1>2. SoundClass(DiscardAt(aClass[s], i, clock'), clock')
      /\ \A j \in StudentIds : Advances(aClass[s], DiscardAt(aClass[s], i, clock'), j)
  BY <1>1, ServerInv, DiscardAtSound
<1>3. aClass' = [aClass EXCEPT ![s] = DiscardAt(aClass[s], i, clock')]
      /\ UNCHANGED <<handler, round, inflight>>
  BY DEF Discard
<1> QED
  BY <1>1, <1>2, <1>3, RequestStep

LEMMA CloseStep ==
    ASSUME IndInv, NEW s \in Servers, CloseEnrollments(s)
    PROVE  IndInv' /\ Forward
<1>1. clock' \in Nat /\ clock < clock' /\ clock =< clock'
  BY ServerInv DEF CloseEnrollments, ReadClock
<1>2. aClass[s].enrollmentsOpen
  BY DEF CloseEnrollments, CloseResponse
<1>3. SoundClass(CloseAt(aClass[s], clock'), clock')
      /\ \A j \in StudentIds : Advances(aClass[s], CloseAt(aClass[s], clock'), j)
  BY <1>1, <1>2, ServerInv, CloseAtSound
<1>4. aClass' = [aClass EXCEPT ![s] = CloseAt(aClass[s], clock')]
      /\ UNCHANGED <<handler, round, inflight>>
  BY DEF CloseEnrollments
<1> QED
  BY <1>1, <1>3, <1>4, RequestStep

\* OpenResponse refuses a capacity that is not above the number of enrolled students.
LEMMA OpenStep ==
    ASSUME IndInv, NEW s \in Servers, NEW newCapacity \in Capacities,
           OpenEnrollments(s, newCapacity)
    PROVE  IndInv' /\ Forward
<1>1. clock' \in Nat /\ clock < clock' /\ clock =< clock'
  BY ServerInv DEF OpenEnrollments, ReadClock
<1>2. newCapacity \in Int /\ newCapacity > 0
  <2>1. ~(Cardinality(EnrolledIn(aClass[s])) >= newCapacity)
    BY DEF OpenEnrollments, OpenResponse
  <2>2. EnrolledIn(aClass[s]) \in SUBSET StudentIds
    BY DEF EnrolledIn
  <2>3. IsFiniteSet(EnrolledIn(aClass[s]))
    BY <2>2, StudentIdsAssumption, FS_Subset
  <2>4. Cardinality(EnrolledIn(aClass[s])) \in Nat
    BY <2>3, FS_CardinalityType
  <2> QED
    BY <2>1, <2>4, CapacitiesAssumption
<1>3. SoundClass(OpenAt(aClass[s], newCapacity, clock'), clock')
      /\ \A j \in StudentIds : Advances(aClass[s], OpenAt(aClass[s], newCapacity, clock'), j)
  BY <1>1, <1>2, ServerInv, OpenAtSound
<1>4. aClass' = [aClass EXCEPT ![s] = OpenAt(aClass[s], newCapacity, clock')]
      /\ UNCHANGED <<handler, round, inflight>>
  BY DEF OpenEnrollments
<1> QED
  BY <1>1, <1>3, <1>4, RequestStep

-----------------------------------------------------------------------------
(* Administrators. *)

\* The flags active and gossip say nothing about the records.
LEMMA ToggleSound ==
    ASSUME NEW c, NEW now \in Nat, SoundClass(c, now), NEW b \in BOOLEAN
    PROVE  /\ SoundClass([c EXCEPT !.active = b], now)
           /\ SoundClass([c EXCEPT !.gossip = b], now)
           /\ \A i \in StudentIds : /\ Advances(c, [c EXCEPT !.active = b], i)
                                    /\ Advances(c, [c EXCEPT !.gossip = b], i)
<1>1. c \in ClassState
  BY DEF SoundClass
<1>2. \A f \in c.enrollablesTimes : f.key =< now /\ f.start =< now /\ f.capacity > 0
  BY DEF SoundClass, WellTimed
<1>3. c.enrollmentsOpen => c.enrollablesTimes # {}
  BY DEF SoundClass
<1>4. SoundClass([c EXCEPT !.active = b], now)
      /\ \A i \in StudentIds : Advances(c, [c EXCEPT !.active = b], i)
  <2> DEFINE d == [c EXCEPT !.active = b]
  <2>1. /\ d \in ClassState /\ d.enrolled = c.enrolled /\ d.discarded = c.discarded
        /\ d.studentTimeline = c.studentTimeline
        /\ d.enrollablesTimes = c.enrollablesTimes
        /\ d.enrollmentsOpen = c.enrollmentsOpen
    BY <1>1 DEF ClassState
  <2> HIDE DEF d
  <2>2. SoundClass(d, now) /\ \A i \in StudentIds : Advances(c, d, i)
    BY <1>2, <1>3, <2>1, StudentsUnchangedSound
  <2> QED
    BY <2>2 DEF d
<1>5. SoundClass([c EXCEPT !.gossip = b], now)
      /\ \A i \in StudentIds : Advances(c, [c EXCEPT !.gossip = b], i)
  <2> DEFINE d == [c EXCEPT !.gossip = b]
  <2>1. /\ d \in ClassState /\ d.enrolled = c.enrolled /\ d.discarded = c.discarded
        /\ d.studentTimeline = c.studentTimeline
        /\ d.enrollablesTimes = c.enrollablesTimes
        /\ d.enrollmentsOpen = c.enrollmentsOpen
    BY <1>1 DEF ClassState
  <2> HIDE DEF d
  <2>2. SoundClass(d, now) /\ \A i \in StudentIds : Advances(c, d, i)
    BY <1>2, <1>3, <2>1, StudentsUnchangedSound
  <2> QED
    BY <2>2 DEF d
<1> QED
  BY <1>4, <1>5

LEMMA AdminStep ==
    ASSUME IndInv, NEW s \in Servers,
           \/ Activate(s) \/ Deactivate(s) \/ ActivateGossip(s) \/ DeactivateGossip(s)
    PROVE  IndInv' /\ Forward
<1>1. PICK b \in BOOLEAN :
          \/ aClass' = [aClass EXCEPT ![s] = [aClass[s] EXCEPT !.active = b]]
          \/ aClass' = [aClass EXCEPT ![s] = [aClass[s] EXCEPT !.gossip = b]]
  BY DEF Activate, Deactivate, ActivateGossip, DeactivateGossip
<1>2. UNCHANGED <<handler, round, inflight, clock>>
  BY DEF Activate, Deactivate, ActivateGossip, DeactivateGossip
<1>3. clock' \in Nat /\ clock =< clock' /\ SoundClass(aClass[s], clock')
  BY <1>2, ServerInv
<1>4. CASE aClass' = [aClass EXCEPT ![s] = [aClass[s] EXCEPT !.active = b]]
  BY <1>2, <1>3, <1>4, ToggleSound, RequestStep
<1>5. CASE aClass' = [aClass EXCEPT ![s] = [aClass[s] EXCEPT !.gossip = b]]
  BY <1>2, <1>3, <1>5, ToggleSound, RequestStep
<1> QED
  BY <1>1, <1>4, <1>5

-----------------------------------------------------------------------------
(* Propagation. *)

LEMMA StartRoundStep ==
    ASSUME IndInv, NEW s \in Servers, StartRound(s)
    PROVE  IndInv' /\ Forward
<1>1. TypeOK'
  BY DEF IndInv, TypeOK, StartRound, Peers
<1>2. /\ UNCHANGED <<aClass, clock, handler, inflight>>
  BY DEF StartRound
<1> QED
  BY <1>1, <1>2, MessageStep DEF IndInv

\* A snapshot of a sound class, sent to another server, is a sound message.
LEMMA PropagateStep ==
    ASSUME IndInv, NEW s \in Servers, NEW d \in Servers, d # s, Propagate(s, d),
           UNCHANGED <<aClass, handler, clock>>,
           \A r \in Servers : round'[r] \subseteq round[r],
           round' \in [Servers -> SUBSET Servers]
    PROVE  IndInv' /\ Forward
<1> DEFINE m == [from |-> s, to |-> d, state |-> SnapshotOf(aClass[s])]
<1>1. SoundSnapshot(SnapshotOf(aClass[s]), clock)
  BY ServerInv, SnapshotSound
<1>2. m \in Message /\ m.from # m.to /\ SoundSnapshot(m.state, clock)
  BY <1>1 DEF SoundSnapshot, Message
<1>3. inflight' = inflight \cup {m}
  BY DEF Propagate
<1> HIDE DEF m
<1>4. TypeOK'
  BY <1>2, <1>3 DEF IndInv, TypeOK
<1>5. \A n \in inflight' : SoundSnapshot(n.state, clock)
  BY <1>2, <1>3 DEF IndInv
<1>6. \A r \in Servers : SoundSnapshot(handler'[r].msg, clock)
  BY DEF IndInv
<1> QED
  BY <1>4, <1>5, <1>6, MessageStep

LEMMA PropagateStateStep ==
    ASSUME IndInv, NEW s \in Servers, NEW d \in Servers, PropagateState(s, d)
    PROVE  IndInv' /\ Forward
<1>1. round \in [Servers -> SUBSET Servers] /\ d # s
  BY DEF IndInv, TypeOK, PropagateState
<1>2. /\ round' \in [Servers -> SUBSET Servers]
      /\ \A r \in Servers : round'[r] \subseteq round[r]
  BY <1>1 DEF PropagateState
<1>3. Propagate(s, d) /\ UNCHANGED <<aClass, handler, clock>>
  BY DEF PropagateState
<1> QED
  BY <1>1, <1>2, <1>3, PropagateStep

LEMMA ForceGossipStep ==
    ASSUME IndInv, NEW s \in Servers, NEW d \in Servers, ForceGossip(s, d)
    PROVE  IndInv' /\ Forward
<1>1. round' \in [Servers -> SUBSET Servers] /\ round' = round /\ d # s
  BY DEF IndInv, TypeOK, ForceGossip, Peers
<1>2. Propagate(s, d) /\ UNCHANGED <<aClass, handler, clock>>
  BY DEF ForceGossip
<1> QED
  BY <1>1, <1>2, PropagateStep

LEMMA LoseStep ==
    ASSUME IndInv, NEW m \in inflight, Lose(m)
    PROVE  IndInv' /\ Forward
<1>1. inflight' \subseteq inflight /\ UNCHANGED <<aClass, handler, round, clock>>
  BY DEF Lose
<1>2. TypeOK'
  BY <1>1 DEF IndInv, TypeOK
<1> QED
  BY <1>1, <1>2, MessageStep DEF IndInv

LEMMA ReceiveStep ==
    ASSUME IndInv, NEW m \in inflight, Receive(m)
    PROVE  IndInv' /\ Forward
<1> DEFINE h == [phase |-> "received", msg |-> Received(m.state), todo |-> {}]
<1>1. m.to \in Servers /\ SoundSnapshot(m.state, clock) /\ clock \in Nat
  BY DEF IndInv, TypeOK, Message
<1>2. SoundSnapshot(Received(m.state), clock)
  BY <1>1, ReceivedSound
<1>3. h \in Handler /\ SoundSnapshot(h.msg, clock)
  BY <1>2 DEF SoundSnapshot, Handler, Phases
<1>4. /\ handler' = [handler EXCEPT ![m.to] = h]
      /\ inflight' \subseteq inflight /\ UNCHANGED <<aClass, round, clock>>
  BY DEF Receive
<1> HIDE DEF h
<1>5. TypeOK'
  BY <1>1, <1>3, <1>4 DEF IndInv, TypeOK
<1>6. \A r \in Servers : SoundSnapshot(handler'[r].msg, clock)
  BY <1>1, <1>3, <1>4 DEF IndInv, TypeOK
<1> QED
  BY <1>4, <1>5, <1>6, MessageStep DEF IndInv

-----------------------------------------------------------------------------
(* The handler.  HandlerStays: a step that moves the handler of s keeps its   *)
(* message, or drops it.                                                      *)

LEMMA HandlerStays ==
    ASSUME IndInv, NEW s \in Servers, NEW h \in Handler,
           h.msg = handler[s].msg \/ h = IdleHandler,
           handler' = [handler EXCEPT ![s] = h]
    PROVE  /\ handler' \in [Servers -> Handler]
           /\ \A r \in Servers : SoundSnapshot(handler'[r].msg, clock)
<1>1. handler \in [Servers -> Handler] /\ clock \in Nat
      /\ \A r \in Servers : SoundSnapshot(handler[r].msg, clock)
  BY DEF IndInv, TypeOK
<1>2. SoundSnapshot(h.msg, clock)
  BY <1>1, IdleHandlerType
<1> QED
  BY <1>1, <1>2

LEMMA CorrectTimelineStep ==
    ASSUME IndInv, NEW s \in Servers, CorrectTimeline(s)
    PROVE  IndInv' /\ Forward
<1> DEFINE received == handler[s].msg.enrollablesTimes
           todo == KnownStudents(aClass[s])
           skipped == [handler[s] EXCEPT !.phase = "corrected"]
           started == [handler[s] EXCEPT !.phase = After(todo, "validating", "corrected"),
                                         !.todo = todo]
<1>1. UNCHANGED <<round, inflight, clock>>
  BY DEF CorrectTimeline
<1>2. CASE StaleTimeline(aClass[s].enrollablesTimes, received)
  <2>1. handler' = [handler EXCEPT ![s] = skipped] /\ UNCHANGED aClass
    BY <1>2 DEF CorrectTimeline
  <2>2. skipped \in Handler /\ skipped.msg = handler[s].msg
    BY ServerInv DEF Handler, Phases
  <2> HIDE DEF skipped
  <2>3. /\ handler' \in [Servers -> Handler]
        /\ \A r \in Servers : SoundSnapshot(handler'[r].msg, clock)
    BY <2>1, <2>2, HandlerStays
  <2>4. TypeOK'
    BY <1>1, <2>1, <2>3 DEF IndInv, TypeOK
  <2> QED
    BY <1>1, <2>1, <2>3, <2>4, MessageStep DEF IndInv
<1>3. CASE ~StaleTimeline(aClass[s].enrollablesTimes, received)
  <2>1. /\ aClass' = [aClass EXCEPT ![s] = CorrectTimes(aClass[s], received)]
        /\ handler' = [handler EXCEPT ![s] = started]
    BY <1>3 DEF CorrectTimeline
  <2>2. started \in Handler /\ started.msg = handler[s].msg
    BY ServerInv DEF Handler, Phases, After, KnownStudents
  <2> HIDE DEF started
  <2>3. /\ handler' \in [Servers -> Handler]
        /\ \A r \in Servers : SoundSnapshot(handler'[r].msg, clock)
    BY <2>1, <2>2, HandlerStays
  <2>4. received # {}
    BY <1>3 DEF StaleTimeline
  <2>5. SoundClass(CorrectTimes(aClass[s], received), clock)
        /\ \A i \in StudentIds : Advances(aClass[s], CorrectTimes(aClass[s], received), i)
    BY <2>4, ServerInv, CorrectTimesSound
  <2>6. SoundClass(CorrectTimes(aClass[s], received), clock') /\ clock' \in Nat /\ clock =< clock'
    BY <1>1, <2>5, ServerInv
  <2> QED
    BY <1>1, <2>1, <2>3, <2>5, <2>6, ClassStep
<1> QED
  BY <1>2, <1>3

LEMMA ValidateNextStep ==
    ASSUME IndInv, NEW s \in Servers, NEW i \in StudentIds, ValidateNext(s, i)
    PROVE  IndInv' /\ Forward
<1> DEFINE h == [handler[s] EXCEPT
                     !.phase = After(handler[s].todo \ {i}, "validating", "corrected"),
                     !.todo = handler[s].todo \ {i}]
           d == ValidateStudent(aClass[s], i)
<1>1. /\ UNCHANGED <<round, inflight, clock>>
      /\ aClass' = [aClass EXCEPT ![s] = d]
      /\ handler' = [handler EXCEPT ![s] = h]
  BY ServerInv DEF ValidateNext
<1>2. h \in Handler /\ h.msg = handler[s].msg
  BY ServerInv DEF Handler, Phases, After
<1> HIDE DEF h
<1>3. /\ handler' \in [Servers -> Handler]
      /\ \A r \in Servers : SoundSnapshot(handler'[r].msg, clock)
  BY <1>1, <1>2, HandlerStays
<1>4. SoundClass(d, clock) /\ \A j \in StudentIds : Advances(aClass[s], d, j)
  BY ServerInv, ValidateStudentSound
<1>5. SoundClass(d, clock') /\ clock' \in Nat /\ clock =< clock'
  BY <1>1, <1>4, ServerInv
<1> HIDE DEF d
<1> QED
  BY <1>1, <1>3, <1>4, <1>5, ClassStep

LEMMA MergeStudentsStep ==
    ASSUME IndInv, NEW s \in Servers, MergeStudents(s)
    PROVE  IndInv' /\ Forward
<1>1. PICK todo \in SUBSET StudentIds :
          handler' = [handler EXCEPT ![s] =
              IF todo = {} THEN IdleHandler
              ELSE [handler[s] EXCEPT !.phase = "merging", !.todo = todo]]
  BY DEF MergeStudents
<1>2. UNCHANGED <<aClass, round, inflight, clock>>
  BY DEF MergeStudents
<1> DEFINE h == IF todo = {} THEN IdleHandler
                ELSE [handler[s] EXCEPT !.phase = "merging", !.todo = todo]
<1>3. h \in Handler /\ (h.msg = handler[s].msg \/ h = IdleHandler)
  BY ServerInv, IdleHandlerType DEF Handler, Phases
<1> HIDE DEF h
<1>4. /\ handler' \in [Servers -> Handler]
      /\ \A r \in Servers : SoundSnapshot(handler'[r].msg, clock)
  BY <1>1, <1>3, HandlerStays DEF h
<1>5. TypeOK'
  BY <1>2, <1>4 DEF IndInv, TypeOK
<1> QED
  BY <1>2, <1>4, <1>5, MessageStep DEF IndInv

LEMMA MergeNextStep ==
    ASSUME IndInv, NEW s \in Servers, NEW i \in StudentIds, MergeNext(s, i)
    PROVE  IndInv' /\ Forward
<1> DEFINE h == IF handler[s].todo = {i} THEN IdleHandler
                ELSE [handler[s] EXCEPT !.todo = handler[s].todo \ {i}]
           d == MergeStudent(aClass[s], i, handler[s].msg)
<1>1. /\ UNCHANGED <<round, inflight, clock>>
      /\ aClass' = [aClass EXCEPT ![s] = d]
      /\ handler' = [handler EXCEPT ![s] = h]
  BY DEF MergeNext
<1>2. h \in Handler /\ (h.msg = handler[s].msg \/ h = IdleHandler)
  BY ServerInv, IdleHandlerType DEF Handler
<1> HIDE DEF h
<1>3. /\ handler' \in [Servers -> Handler]
      /\ \A r \in Servers : SoundSnapshot(handler'[r].msg, clock)
  BY <1>1, <1>2, HandlerStays
<1>4. SoundClass(d, clock) /\ \A j \in StudentIds : Advances(aClass[s], d, j)
  BY ServerInv, MergeStudentSound
<1>5. SoundClass(d, clock') /\ clock' \in Nat /\ clock =< clock'
  BY <1>1, <1>4, ServerInv
<1> HIDE DEF d
<1> QED
  BY <1>1, <1>3, <1>4, <1>5, ClassStep

\* The restarted server forgets everything; Forward does not speak of it.
LEMMA RestartStep ==
    ASSUME IndInv, NEW s \in Servers, Restart(s)
    PROVE  IndInv' /\ Forward
<1> DEFINE d == NewClass(FlagOf(s))
<1>1. /\ s \in Restartable /\ aClass' = [aClass EXCEPT ![s] = d]
      /\ handler' = [handler EXCEPT ![s] = IdleHandler]
      /\ round' = [round EXCEPT ![s] = {}]
      /\ inflight' \subseteq inflight /\ clock' = clock
  BY DEF Restart
<1>2. SoundClass(d, clock) /\ d \in ClassState
  <2>1. SoundClass(d, clock)
    BY ServerInv, NewClassSound DEF FlagOf
  <2> QED
    BY <2>1 DEF SoundClass
<1> HIDE DEF d
<1>3. /\ handler' \in [Servers -> Handler]
      /\ \A r \in Servers : SoundSnapshot(handler'[r].msg, clock)
  BY <1>1, IdleHandlerType, HandlerStays
<1>4. TypeOK'
  BY <1>1, <1>2, <1>3 DEF IndInv, TypeOK
<1>5. \A r \in Servers : SoundClass(aClass'[r], clock)
  BY <1>1, <1>2 DEF IndInv, TypeOK
<1>6. Forward
  BY <1>1 DEF Forward, Advances, IndInv, TypeOK
<1> QED
  BY <1>1, <1>3, <1>4, <1>5, <1>6 DEF IndInv

-----------------------------------------------------------------------------
(* The theorems. *)

LEMMA StepInv == IndInv /\ [Next]_vars => IndInv' /\ Forward
<1> SUFFICES ASSUME IndInv, [Next]_vars PROVE IndInv' /\ Forward
  OBVIOUS
<1>1. ASSUME NEW s \in Servers, ServerStep(s) PROVE IndInv' /\ Forward
  <2>1. ASSUME HandlerStep(s) PROVE IndInv' /\ Forward
    BY <2>1, CorrectTimelineStep, MergeStudentsStep, ValidateNextStep, MergeNextStep
       DEF HandlerStep
  <2> QED
    BY <1>1, <2>1, EnrollStep, DiscardStep, OpenStep, CloseStep, AdminStep, StartRoundStep,
       PropagateStateStep, ForceGossipStep, RestartStep DEF ServerStep
<1>2. ASSUME NEW m \in inflight, Lose(m) \/ Receive(m) PROVE IndInv' /\ Forward
  BY <1>2, LoseStep, ReceiveStep
<1>3. CASE UNCHANGED vars
  BY <1>3 DEF vars, IndInv, TypeOK, Forward, Advances
<1> QED
  BY <1>1, <1>2, <1>3 DEF Next

LEMMA AlwaysIndInv == Spec => []IndInv
BY InitInv, StepInv, PTL DEF Spec

\* Every variable keeps its type in every behaviour of the servers.
THEOREM TypeCorrect == Spec => []TypeOK
<1>1. IndInv => TypeOK
  BY DEF IndInv
<1> QED
  BY <1>1, AlwaysIndInv, PTL

\* The enrolled, discarded and studentTimeline maps of every replica agree, and so
\* does everything that travels, however propagations and requests interleave.
THEOREM RecordsAlwaysAgree == Spec => []RecordsAgree
<1>1. IndInv => RecordsAgree
  BY DEF IndInv, RecordsAgree, SoundClass, SoundSnapshot
<1> QED
  BY <1>1, AlwaysIndInv, PTL

\* No propagation, however late, takes back a later action on a student.
THEOREM RecordsNeverGoBack == Spec => RecordsOnlyAdvance
<1>1. IndInv /\ [Next]_vars => [Forward]_vars
  BY StepInv
<1> QED
  BY <1>1, AlwaysIndInv, PTL DEF Spec, RecordsOnlyAdvance, Forward

=============================================================================
