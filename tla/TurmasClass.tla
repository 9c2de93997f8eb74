---------------------------- MODULE TurmasClass ----------------------------
(***************************************************************************)
(* The data and the sequential code of one replica of the class: Class.java, *)
(* StudentClass.java and TimeFrame.java of the Turmas class server.  A class *)
(* is a record, and every operator below maps a record to the record that    *)
(* one method (or one turn of a method's loop) leaves behind.                *)
(*                                                                           *)
(* Abstractions.  A student is its id; ids are numbers because the code      *)
(* walks them in the order of a TreeMap.  Names are left out: nothing tests  *)
(* them.  An Instant is a natural number, and NoInstant stands for an absent *)
(* map entry, for a null end of a time frame and for Instant.MIN, which the  *)
(* code only ever compares with later instants.                              *)
(***************************************************************************)
EXTENDS Integers, FiniteSets

CONSTANT StudentIds

ASSUME StudentIdsAssumption == StudentIds \subseteq Nat /\ IsFiniteSet(StudentIds)

NoInstant == 0
Instant == Nat

(***************************************************************************)
(* enrollablesTimes is a map from an instant to a TimeFrame: a set of frames *)
(* that carry their key.  The key equals the start of the frame when it is   *)
(* put, except where correctTimeline puts a received frame under a local key. *)
(***************************************************************************)
TimeFrame == [key : Instant, start : Instant, end : Instant, capacity : Int]

\* enrolled, discarded and studentTimeline map an id to the instant of its entry.
StudentMap == [StudentIds -> Instant]

\* What createPropagateRequest sends: the class state and the frames.
Snapshot == [enrollmentsOpen : BOOLEAN, capacity : Int,
             enrolled : StudentMap, discarded : StudentMap,
             enrollablesTimes : SUBSET TimeFrame]

ClassState == [flag : {"P", "S"}, active : BOOLEAN, gossip : BOOLEAN,
               enrollmentsOpen : BOOLEAN, capacity : Int,
               enrolled : StudentMap, discarded : StudentMap,
               studentTimeline : StudentMap,
               enrollablesTimes : SUBSET TimeFrame]

NobodyMapped == [i \in StudentIds |-> NoInstant]

NewClass(flag) ==
    [flag |-> flag, active |-> TRUE, gossip |-> TRUE,
     enrollmentsOpen |-> FALSE, capacity |-> 0,
     enrolled |-> NobodyMapped, discarded |-> NobodyMapped,
     studentTimeline |-> NobodyMapped, enrollablesTimes |-> {}]

EnrolledIn(c) == {i \in StudentIds : c.enrolled[i] # NoInstant}

FirstFrame(times) == CHOOSE f \in times : \A g \in times : g.key =< f.key

PutAll(times, frames) ==
    {f \in times : \A g \in frames : g.key # f.key} \cup frames

(***************************************************************************)
(* Requests of students and professors.  The response is the first error the *)
(* method meets; a request that gets anything but "OK" changes nothing.      *)
(***************************************************************************)
EnrollResponse(c, i) ==
    IF ~c.active THEN "INACTIVE_SERVER"
    ELSE IF ~c.enrollmentsOpen THEN "ENROLLMENTS_ALREADY_CLOSED"
    ELSE IF i \in EnrolledIn(c) THEN "STUDENT_ALREADY_ENROLLED"
    ELSE IF Cardinality(EnrolledIn(c)) >= c.capacity THEN "FULL_CLASS"
    ELSE "OK"

EnrollAt(c, i, now) ==
    [c EXCEPT !.enrolled[i] = now,
              !.studentTimeline[i] = now,
              !.discarded[i] = NoInstant]

DiscardResponse(c, i) ==
    IF ~c.active THEN "INACTIVE_SERVER"
    ELSE IF c.enrolled[i] = NoInstant /\ c.discarded[i] = NoInstant
         THEN "NON_EXISTING_STUDENT"
    ELSE "OK"

\* Only for an enrolled student: discarding a discarded one is a no-op.
DiscardAt(c, i, now) ==
    [c EXCEPT !.enrolled[i] = NoInstant,
              !.studentTimeline[i] = now,
              !.discarded[i] = now]

CloseResponse(c) ==
    IF ~c.active THEN "INACTIVE_SERVER"
    ELSE IF c.flag # "P" THEN "WRITING_NOT_SUPPORTED"
    ELSE IF ~c.enrollmentsOpen THEN "ENROLLMENTS_ALREADY_CLOSED"
    ELSE "OK"

CloseAt(c, now) ==
    [c EXCEPT !.enrollmentsOpen = FALSE,
              !.enrollablesTimes =
                  PutAll(@, {[FirstFrame(@) EXCEPT !.end = now]})]

\* Mutant: the capacity may equal the number of enrolled students.
OpenResponse_AllowsFull(c, newCapacity) ==
    IF ~c.active THEN "INACTIVE_SERVER"
    ELSE IF c.flag # "P" THEN "WRITING_NOT_SUPPORTED"
    ELSE IF c.enrollmentsOpen THEN "ENROLLMENTS_ALREADY_OPENED"
    ELSE IF Cardinality(EnrolledIn(c)) > newCapacity THEN "FULL_CLASS"
    ELSE "OK"

OpenResponse(c, newCapacity) ==
    IF ~c.active THEN "INACTIVE_SERVER"
    ELSE IF c.flag # "P" THEN "WRITING_NOT_SUPPORTED"
    ELSE IF c.enrollmentsOpen THEN "ENROLLMENTS_ALREADY_OPENED"
    ELSE IF Cardinality(EnrolledIn(c)) >= newCapacity THEN "FULL_CLASS"
    ELSE "OK"

OpenAt(c, newCapacity, now) ==
    [c EXCEPT !.enrollmentsOpen = TRUE,
              !.capacity = newCapacity,
              !.enrollablesTimes =
                  PutAll(@, {[key |-> now, start |-> now, end |-> NoInstant,
                              capacity |-> newCapacity]})]

(***************************************************************************)
(* Propagation: what is sent and what the receiver rebuilds from it.         *)
(***************************************************************************)
SnapshotOf(c) ==
    [enrollmentsOpen |-> c.enrollmentsOpen, capacity |-> c.capacity,
     enrolled |-> c.enrolled, discarded |-> c.discarded,
     enrollablesTimes |-> c.enrollablesTimes]

EmptySnapshot == SnapshotOf(NewClass("S"))

\* Collectors.toMap throws when two frames have the same start.
Decodable(m) ==
    \A f, g \in m.enrollablesTimes : f.start = g.start => f = g

\* createReceivedClass: the frames are keyed by their start again.
Received(m) ==
    [m EXCEPT !.enrollablesTimes = {[f EXCEPT !.key = f.start] : f \in @}]

\* Mutant: the discarded students are not put into the received studentTimeline.
ReceivedTimestamp_EnrolledOnly(m, i) == m.enrolled[i]

\* The received studentTimeline: enrolled first, overridden by discarded.
ReceivedTimestamp(m, i) ==
    IF m.discarded[i] # NoInstant THEN m.discarded[i] ELSE m.enrolled[i]

(***************************************************************************)
(* Conflict resolution.                                                      *)
(***************************************************************************)
In(instant, frame) ==
    /\ instant > frame.start
    /\ frame.end = NoInstant \/ instant < frame.end

ConflictDiscard(c, i, instant) ==
    [c EXCEPT !.discarded[i] = instant,
              !.studentTimeline[i] = instant,
              !.enrolled[i] = NoInstant]

\* The frame inEnrollableTimeframe returns: the most recent one that fits.
FramesAround(c, instant) == {f \in c.enrollablesTimes : In(instant, f)}

LastEnrolled(c) ==
    CHOOSE i \in EnrolledIn(c) : \A j \in EnrolledIn(c) : c.enrolled[j] =< c.enrolled[i]

\* Mutant: discarded.remove is forgotten.
Admit_KeepsDiscarded(c, i, instant) ==
    [c EXCEPT !.enrolled[i] = instant,
              !.studentTimeline[i] = instant]

Admit(c, i, instant) ==
    [c EXCEPT !.enrolled[i] = instant,
              !.studentTimeline[i] = instant,
              !.discarded[i] = NoInstant]

\* Mutant: the last student is not discarded.
ContestLastPlace_KeepsLast(c, i, instant) ==
    IF c.studentTimeline[LastEnrolled(c)] > instant
    THEN Admit(c, i, instant)
    ELSE ConflictDiscard(c, i, instant)

\* The class is full: the later of the received and the last enrolled student
\* is discarded, with the instant it already had.
ContestLastPlace(c, i, instant) ==
    LET last == LastEnrolled(c)
    IN  IF c.studentTimeline[last] > instant
        THEN Admit(ConflictDiscard(c, last, c.enrolled[last]), i, instant)
        ELSE ConflictDiscard(c, i, instant)

ConflictEnroll(c, i, instant) ==
    IF i \in EnrolledIn(c) THEN c
    ELSE IF FramesAround(c, instant) = {} THEN ConflictDiscard(c, i, instant)
    ELSE IF Cardinality(EnrolledIn(c)) >= FirstFrame(FramesAround(c, instant)).capacity
         THEN ContestLastPlace(c, i, instant)
    ELSE Admit(c, i, instant)

\* Mutant: an action of the same instant is applied again.
MergeStudent_NotStrict(c, i, m) ==
    IF ReceivedTimestamp(m, i) < c.studentTimeline[i] THEN c
    ELSE IF m.enrolled[i] # NoInstant THEN ConflictEnroll(c, i, m.enrolled[i])
    ELSE ConflictDiscard(c, i, m.discarded[i])

\* One turn of mergeStudents' loop, for student i of the received state m.
MergeStudent(c, i, m) ==
    IF ReceivedTimestamp(m, i) =< c.studentTimeline[i] THEN c
    ELSE IF m.enrolled[i] # NoInstant THEN ConflictEnroll(c, i, m.enrolled[i])
    ELSE ConflictDiscard(c, i, m.discarded[i])

(***************************************************************************)
(* correctTimeline: the frames, then the students they invalidate.           *)
(***************************************************************************)
StaleTimeline(local, received) ==
    received = {} \/ Cardinality(received) < Cardinality(local)

\* Mutant: the loop stops before the frame that is current locally.
FramesSince_StopsEarly(received, start) == {f \in received : f.start > start}

\* From the most recent frame down to the one that is current locally, or all.
FramesSince(received, start) ==
    IF \E f \in received : f.start = start
    THEN {f \in received : f.start >= start}
    ELSE received

\* Mutant: an empty local timeline stays empty.
MergedTimes_KeepsEmpty(local, received) ==
    IF local = {} THEN local
    ELSE IF Cardinality(received) = Cardinality(local) THEN local
    ELSE PutAll(local, FramesSince(received, FirstFrame(local).start))

MergedTimes(local, received) ==
    IF local = {} THEN received
    ELSE IF Cardinality(received) = Cardinality(local)
    THEN IF FirstFrame(received).end \in {NoInstant, FirstFrame(local).end}
         THEN local
         ELSE PutAll(local, {[FirstFrame(received) EXCEPT !.key = FirstFrame(local).key]})
    ELSE PutAll(local, FramesSince(received, FirstFrame(local).start))

\* Mutant: the capacity is not set from the received timeline.
CorrectTimes_KeepsCapacity(c, received) ==
    [c EXCEPT !.enrollablesTimes = MergedTimes(@, received),
              !.enrollmentsOpen = FirstFrame(received).end = NoInstant]

\* Everything correctTimeline does before its loop; the timeline is not stale.
CorrectTimes(c, received) ==
    [c EXCEPT !.enrollablesTimes = MergedTimes(@, received),
              !.enrollmentsOpen = FirstFrame(received).end = NoInstant,
              !.capacity = FirstFrame(received).capacity]

IsEnrollable(c, i) ==
    \E f \in FramesAround(c, c.enrolled[i]) :
        Cardinality(EnrolledIn(c)) =< f.capacity

\* One turn of correctTimeline's loop.
ValidateStudent(c, i) ==
    IF i \in EnrolledIn(c) /\ ~IsEnrollable(c, i)
    THEN ConflictDiscard(c, i, c.enrolled[i])
    ELSE c

(***************************************************************************)
(* Vocabulary of the properties: a class state c, of a replica or received.  *)
(***************************************************************************)
\* No student is listed as enrolled and discarded at once.
Exclusive(c) == \A i \in StudentIds : NoInstant \in {c.enrolled[i], c.discarded[i]}

\* studentTimeline holds the instant of the student's entry in the other two maps.
TimelineAgrees(c) ==
    \A i \in StudentIds : c.studentTimeline[i] = ReceivedTimestamp(c, i)

\* From record c to record d, what is known of student i only moves forward: a
\* later action, or at the same instant from enrolled to discarded.
Advances(c, d, i) ==
    \/ d.studentTimeline[i] > c.studentTimeline[i]
    \/ /\ d.studentTimeline[i] = c.studentTimeline[i]
       /\ i \in EnrolledIn(d) => i \in EnrolledIn(c)

=============================================================================
