------------------------------- MODULE Turmas -------------------------------
(***************************************************************************)
(* The replicated class servers of Turmas: one primary, any number of        *)
(* secondaries, every replica serving students and professors and            *)
(* propagating its whole state to the others, on a timer or when an          *)
(* administrator forces it.                                                  *)
(*                                                                           *)
(* Grain of atomicity.  The methods of Class are synchronized, so a request  *)
(* is one step.  ClassServerImpl.propagateState is not: it calls             *)
(* createReceivedClass, correctTimeline and mergeStudents one after another  *)
(* and the monitor of the class is free between them.  The two loops are     *)
(* modelled turn by turn, with the monitor held.                             *)
(***************************************************************************)
EXTENDS TurmasClass

CONSTANTS
    Servers,      \* the class servers
    Primary,      \* the one started with flag P
    Capacities,   \* the capacities professors ask for
    Commands,     \* the commands that are issued in this instance
    Restartable,  \* the servers whose process may be killed and started again
    MaxClock,     \* bound: readings of Instant.now()
    MaxOutstanding \* bound: propagations sent whose handling has not ended

AllCommands == {"enroll", "discard", "open", "close", "activate", "deactivate",
                "activateGossip", "deactivateGossip", "gossip"}

ASSUME ServersAssumption == Primary \in Servers /\ Restartable \subseteq Servers
ASSUME CapacitiesAssumption == Capacities \subseteq Int
ASSUME CommandsAssumption == Commands \subseteq AllCommands
ASSUME BoundsAssumption == MaxClock \in Nat /\ MaxOutstanding \in Nat

VARIABLES
    aClass,    \* the Class object of each server
    handler,   \* the propagateState call each server is executing
    round,     \* the peers the timer task of each server has still to send to
    inflight,  \* the propagations sent and not yet handled
    clock      \* the last reading of Instant.now(), one clock for one machine

vars == <<aClass, handler, round, inflight, clock>>

Phases == {"idle", "received", "validating", "corrected", "merging"}

Handler == [phase : Phases, msg : Snapshot, todo : SUBSET StudentIds]

IdleHandler == [phase |-> "idle", msg |-> EmptySnapshot, todo |-> {}]

Message == [from : Servers, to : Servers, state : Snapshot]

FlagOf(s) == IF s = Primary THEN "P" ELSE "S"

Init ==
    /\ aClass = [s \in Servers |-> NewClass(FlagOf(s))]
    /\ handler = [s \in Servers |-> IdleHandler]
    /\ round = [s \in Servers |-> {}]
    /\ inflight = {}
    /\ clock = 0

\* Mutant: a server is not left out of its own broadcast.
Peers_WithSelf(s) == Servers

Peers(s) == Servers \ {s}

\* No loop of the propagation handler holds the monitor of the class.
MonitorFree(s) == handler[s].phase \notin {"validating", "merging"}

\* A command arrives that runs under the monitor of s.
Request(command, s) == command \in Commands /\ MonitorFree(s)

\* Instant.now(): every reading is later than the ones before.
ReadClock == clock < MaxClock /\ clock' = clock + 1

-----------------------------------------------------------------------------
(* Students and professors.  Refused requests change nothing: no step. *)

Enroll(s, i) ==
    /\ Request("enroll", s)
    /\ EnrollResponse(aClass[s], i) = "OK"
    /\ ReadClock
    /\ aClass' = [aClass EXCEPT ![s] = EnrollAt(@, i, clock')]
    /\ UNCHANGED <<handler, round, inflight>>

Discard(s, i) ==
    /\ Request("discard", s)
    /\ DiscardResponse(aClass[s], i) = "OK"
    /\ i \in EnrolledIn(aClass[s])
    /\ ReadClock
    /\ aClass' = [aClass EXCEPT ![s] = DiscardAt(@, i, clock')]
    /\ UNCHANGED <<handler, round, inflight>>

OpenEnrollments(s, newCapacity) ==
    /\ Request("open", s)
    /\ OpenResponse(aClass[s], newCapacity) = "OK"
    /\ ReadClock
    /\ aClass' = [aClass EXCEPT ![s] = OpenAt(@, newCapacity, clock')]
    /\ UNCHANGED <<handler, round, inflight>>

CloseEnrollments(s) ==
    /\ Request("close", s)
    /\ CloseResponse(aClass[s]) = "OK"
    /\ ReadClock
    /\ aClass' = [aClass EXCEPT ![s] = CloseAt(@, clock')]
    /\ UNCHANGED <<handler, round, inflight>>

-----------------------------------------------------------------------------
(* Administrators. *)

Activate(s) ==
    /\ Request("activate", s)
    /\ aClass' = [aClass EXCEPT ![s].active = TRUE]
    /\ UNCHANGED <<handler, round, inflight, clock>>

Deactivate(s) ==
    /\ Request("deactivate", s)
    /\ aClass' = [aClass EXCEPT ![s].active = FALSE]
    /\ UNCHANGED <<handler, round, inflight, clock>>

ActivateGossip(s) ==
    /\ Request("activateGossip", s)
    /\ aClass' = [aClass EXCEPT ![s].gossip = TRUE]
    /\ UNCHANGED <<handler, round, inflight, clock>>

DeactivateGossip(s) ==
    /\ Request("deactivateGossip", s)
    /\ aClass' = [aClass EXCEPT ![s].gossip = FALSE]
    /\ UNCHANGED <<handler, round, inflight, clock>>

-----------------------------------------------------------------------------
(* Propagation, the sending side. *)

Outstanding ==
    Cardinality(inflight) + Cardinality({s \in Servers : handler[s].phase # "idle"})

Propagate(s, d) ==
    /\ MonitorFree(s)
    /\ Outstanding < MaxOutstanding
    /\ inflight' = inflight \cup
           {[from |-> s, to |-> d, state |-> SnapshotOf(aClass[s])]}

\* The timer task starts a round: the only place where active and gossip are read.
StartRound(s) ==
    /\ MonitorFree(s)
    /\ round[s] = {}
    /\ aClass[s].active /\ aClass[s].gossip
    /\ round' = [round EXCEPT ![s] = Peers(s)]
    /\ UNCHANGED <<aClass, handler, inflight, clock>>

PropagateState(s, d) ==
    /\ d \in round[s]
    /\ Propagate(s, d)
    /\ round' = [round EXCEPT ![s] = @ \ {d}]
    /\ UNCHANGED <<aClass, handler, clock>>

\* An administrator's gossip command: reads neither active nor gossip.
ForceGossip(s, d) ==
    /\ Request("gossip", s)
    /\ d \in Peers(s)
    /\ Propagate(s, d)
    /\ UNCHANGED <<aClass, handler, round, clock>>

\* The deadline passes first, the connection fails, or the receiver refuses it.
Lose(m) ==
    /\ inflight' = inflight \ {m}
    /\ UNCHANGED <<aClass, handler, round, clock>>

-----------------------------------------------------------------------------
(* Propagation, the receiving side: one propagateState call at a time. *)

Receive(m) ==
    /\ handler[m.to].phase = "idle"
    /\ aClass[m.to].active /\ aClass[m.to].gossip
    /\ Decodable(m.state)
    /\ handler' = [handler EXCEPT ![m.to] =
           [phase |-> "received", msg |-> Received(m.state), todo |-> {}]]
    /\ inflight' = inflight \ {m}
    /\ UNCHANGED <<aClass, round, clock>>

\* The phase that follows once the ids in todo are dealt with.
After(todo, busy, done) == IF todo = {} THEN done ELSE busy

KnownStudents(c) == {i \in StudentIds : c.studentTimeline[i] # NoInstant}

CorrectTimeline(s) ==
    LET received == handler[s].msg.enrollablesTimes
        todo == KnownStudents(aClass[s])
    IN  /\ handler[s].phase = "received"
        /\ UNCHANGED <<round, inflight, clock>>
        /\ IF StaleTimeline(aClass[s].enrollablesTimes, received)
           THEN /\ handler' = [handler EXCEPT ![s].phase = "corrected"]
                /\ UNCHANGED aClass
           ELSE /\ aClass' = [aClass EXCEPT ![s] = CorrectTimes(@, received)]
                /\ handler' = [handler EXCEPT
                       ![s].phase = After(todo, "validating", "corrected"),
                       ![s].todo = todo]

\* Both loops walk the ids in order.
NextInLine(s, i) ==
    i \in handler[s].todo /\ \A j \in handler[s].todo : i =< j

ValidateNext(s, i) ==
    /\ handler[s].phase = "validating"
    /\ NextInLine(s, i)
    /\ aClass' = [aClass EXCEPT ![s] = ValidateStudent(@, i)]
    /\ handler' = [handler EXCEPT
           ![s].phase = After(handler[s].todo \ {i}, "validating", "corrected"),
           ![s].todo = @ \ {i}]
    /\ UNCHANGED <<round, inflight, clock>>

MergeStudents(s) ==
    LET todo == {i \in StudentIds : ReceivedTimestamp(handler[s].msg, i) # NoInstant}
    IN  /\ handler[s].phase = "corrected"
        /\ handler' = [handler EXCEPT ![s] =
               IF todo = {} THEN IdleHandler
               ELSE [@ EXCEPT !.phase = "merging", !.todo = todo]]
        /\ UNCHANGED <<aClass, round, inflight, clock>>

MergeNext(s, i) ==
    /\ handler[s].phase = "merging"
    /\ NextInLine(s, i)
    /\ aClass' = [aClass EXCEPT ![s] = MergeStudent(@, i, handler[s].msg)]
    /\ handler' = [handler EXCEPT ![s] =
           IF handler[s].todo = {i} THEN IdleHandler
           ELSE [handler[s] EXCEPT !.todo = handler[s].todo \ {i}]]
    /\ UNCHANGED <<round, inflight, clock>>

\* A step of the propagateState call that s is executing.
HandlerStep(s) ==
    \/ CorrectTimeline(s) \/ MergeStudents(s)
    \/ \E i \in StudentIds : ValidateNext(s, i) \/ MergeNext(s, i)

-----------------------------------------------------------------------------
\* Nothing is persisted: a restarted server knows only its flag.
Restart(s) ==
    /\ s \in Restartable
    /\ aClass' = [aClass EXCEPT ![s] = NewClass(FlagOf(s))]
    /\ handler' = [handler EXCEPT ![s] = IdleHandler]
    /\ round' = [round EXCEPT ![s] = {}]
    /\ inflight' = {m \in inflight : m.to # s}
    /\ UNCHANGED clock

ServerStep(s) ==
    \/ \E i \in StudentIds : Enroll(s, i) \/ Discard(s, i)
    \/ \E newCapacity \in Capacities : OpenEnrollments(s, newCapacity)
    \/ CloseEnrollments(s)
    \/ Activate(s) \/ Deactivate(s)
    \/ ActivateGossip(s) \/ DeactivateGossip(s)
    \/ StartRound(s)
    \/ \E d \in Servers : PropagateState(s, d) \/ ForceGossip(s, d)
    \/ HandlerStep(s)
    \/ Restart(s)

Next ==
    \/ \E s \in Servers : ServerStep(s)
    \/ \E m \in inflight : Lose(m) \/ Receive(m)

Spec == Init /\ [][Next]_vars

-----------------------------------------------------------------------------
(* Fairness.  The timer task runs every five seconds for as long as the       *)
(* process lives, so rounds start and proceed again and again; the handler    *)
(* is a thread that runs; and a propagation that is sent again and again is   *)
(* handled again and again (the servers share a machine, and a call fails     *)
(* only when its five-second deadline passes).                                *)

ReceiveFrom(s, d) == \E m \in inflight : m.from = s /\ m.to = d /\ Receive(m)

Fairness ==
    \A s \in Servers :
        /\ WF_vars(HandlerStep(s))
        /\ SF_vars(StartRound(s))
        /\ \A d \in Peers(s) : SF_vars(PropagateState(s, d)) /\ SF_vars(ReceiveFrom(s, d))

FairSpec == Spec /\ Fairness

-----------------------------------------------------------------------------
(* Invariants. *)

\* Every variable keeps its type, and no server propagates to itself.
TypeOK ==
    /\ aClass \in [Servers -> ClassState]
    /\ handler \in [Servers -> Handler]
    /\ round \in [Servers -> SUBSET Servers] /\ \A s \in Servers : s \notin round[s]
    /\ inflight \subseteq Message /\ \A m \in inflight : m.from # m.to
    /\ clock \in Nat

\* The three maps of a replica (Class.java:17-19) tell one story: a student is
\* enrolled or discarded but not both, and studentTimeline, which mergeStudents
\* compares, holds the instant of that very entry; what travels is exclusive too.
RecordsAgree ==
    /\ \A s \in Servers :
        /\ Exclusive(aClass[s]) /\ TimelineAgrees(aClass[s])
        /\ Exclusive(handler[s].msg)
    /\ \A m \in inflight : Exclusive(m.state)

\* What the code takes for granted: there is a frame to close while enrollments are
\* open (closeEnrollments' firstKey throws otherwise), a class that is full has a
\* last student (conflictEnroll's getLast), and no two frames that are sent start
\* at one instant (createReceivedClass' toMap).
NothingThrows ==
    \A s \in Servers :
        /\ aClass[s].enrollmentsOpen => aClass[s].enrollablesTimes # {}
        /\ Decodable(SnapshotOf(aClass[s]))
        /\ \A f \in aClass[s].enrollablesTimes : f.capacity > 0

\* The capacity enroll compares with is that of the most recent frame known.
CapacityIsCurrent ==
    \A s \in Servers : aClass[s].enrollablesTimes # {} =>
        aClass[s].capacity = FirstFrame(aClass[s].enrollablesTimes).capacity

Timelines ==
    {aClass[s].enrollablesTimes : s \in Servers}
        \cup {handler[s].msg.enrollablesTimes : s \in Servers}
        \cup {m.state.enrollablesTimes : m \in inflight}

\* Same frame, but the primary may know of its end first.
Precedes(f, g) ==
    /\ f.key = g.key /\ f.start = g.start /\ f.capacity = g.capacity
    /\ f.end # NoInstant => g.end # NoInstant

\* No frame of times is invented or skipped, and all but its last frame are as the
\* primary has them (correctTimeline counts frames only).
InitialPart(times, primary) ==
    /\ \A f \in times : \E g \in primary :
          Precedes(f, g) /\ (f # FirstFrame(times) => f = g)
    /\ \A f \in times, g \in primary : g.key < f.key => g \in times

\* While the primary lives, every timeline, of a replica or in a message, is an
\* initial part of the primary's.
TimelinesArePrefixes ==
    \A times \in Timelines : InitialPart(times, aClass[Primary].enrollablesTimes)

\* A secondary that is killed and comes back with an empty class causes no
\* exception in any handler and no timeline that is not the primary's
\* (ClassServerRunner 31, propagateState).
RestartIsHarmless == NothingThrows /\ TimelinesArePrefixes

\* A replica never has more students than the largest capacity it ever granted.
EnrolledWithinHistory ==
    \A s \in Servers : EnrolledIn(aClass[s]) # {} =>
        \E f \in aClass[s].enrollablesTimes :
            Cardinality(EnrolledIn(aClass[s])) =< f.capacity

-----------------------------------------------------------------------------
(* Action properties. *)

\* No late propagation undoes a later action on a student, on any replica that is
\* not restarted (the isAfter guard of mergeStudents, and what surrounds it).
RecordsOnlyAdvance ==
    [][\A s \in Servers \ Restartable, i \in StudentIds :
          Advances(aClass[s], aClass'[s], i)]_vars

Shared == INSTANCE SharedTimeline WITH
    knows <- [s \in Servers |-> aClass[s].enrollablesTimes]

\* The replicas implement one timeline that only the primary writes: however old
\* the states are that servers send each other, none forgets a frame, takes a
\* closed one to be open or knows of one that was not opened, and only the
\* primary's timeline changes of itself (correctTimeline compares no more than
\* the number of frames and the last end).
TimelineIsShared == Shared!Spec

-----------------------------------------------------------------------------
(* Liveness. *)

\* s knows every frame of the primary, and the end of those that are closed.
KnowsTimeline(s) ==
    \A f \in aClass[Primary].enrollablesTimes : \E g \in aClass[s].enrollablesTimes :
        g.key = f.key /\ (f.end # NoInstant => g.end # NoInstant)

\* s has what the primary has: its frames, each student it knows, and each
\* cancelled enrollment or a later action on that student.
CaughtUp(s) ==
    /\ KnowsTimeline(s)
    /\ KnownStudents(aClass[Primary]) \subseteq KnownStudents(aClass[s])
    /\ \A i \in StudentIds :
          aClass[Primary].discarded[i] =< aClass[s].studentTimeline[i]

\* Nobody stops the servers or their gossip.
Gossiping == \A s \in Servers : aClass[s].active /\ aClass[s].gossip

\* A server that was killed and comes back with an empty class is brought up to
\* date: once it is killed no more and the servers are left to gossip, it has again
\* and again the primary's frames and students, whatever was in flight or half
\* handled when it was killed, on either side (ClassServerRunner 31-67,
\* propagateState).
RestartedCatchUp ==
    \A s \in Restartable :
        (<>[][~Restart(s)]_vars /\ <>[]Gossiping) => []<>CaughtUp(s)

\* Again and again every replica has caught up with the primary: no frame that is
\* opened or closed stays unknown, however often secondaries send older timelines.
TimelineReachesEveryone == []<>(\A s \in Servers : KnowsTimeline(s))

\* Again and again every replica has each cancelled enrollment, or a later action
\* on that student: a cancellation is not lost to the order of propagations.
DiscardReachesEveryone ==
    []<>(\A s, d \in Servers, i \in StudentIds :
            aClass[s].discarded[i] =< aClass[d].studentTimeline[i])

\* Nothing a replica decided is lost on the way: frames, closings and
\* cancellations reach every replica again and again, whatever propagations
\* fail, cross or overtake each other (PropagateFrontend, propagateState).
NewsReachesEveryone == TimelineReachesEveryone /\ DiscardReachesEveryone

\* When the clients are done, the replicas come to list the same students as
\* enrolled and stay so (ProjectStatement.md:68-69).
EnrolledConverge ==
    <>[](\A s, d \in Servers : EnrolledIn(aClass[s]) = EnrolledIn(aClass[d]))

\* Nobody competes for a place: every frame has one for each student, and none
\* is closed.
Uncontested ==
    \A s \in Servers : \A f \in aClass[s].enrollablesTimes :
        f.capacity >= Cardinality(StudentIds) /\ f.end = NoInstant

\* They do as long as nobody competes for a place: it is the last place and the
\* end of a frame that make the replicas decide differently (mergeStudents,
\* conflictEnroll).
UncontestedConverge == []Uncontested => EnrolledConverge

-----------------------------------------------------------------------------
(* What the documents and comments say and the code does not do. *)

\* Class.java:516, "if end == null enrollments still open else enrollments closed".
OpenMatchesTimeline ==
    \A s \in Servers : aClass[s].enrollablesTimes # {} =>
        (aClass[s].enrollmentsOpen <=>
            FirstFrame(aClass[s].enrollablesTimes).end = NoInstant)

\* ProjectStatement.md:76-77: students beyond the capacity of the class are moved
\* to the list of cancelled enrollments by the propagation.
CapacityRespected ==
    \A s \in Servers : handler[s].phase = "idle" /\ aClass[s].enrollablesTimes # {} =>
        Cardinality(EnrolledIn(aClass[s])) =< aClass[s].capacity

\* REPORT.md:49, discarding the last student of a full class "counts as an action":
\* it has an instant of its own, later than the enrollment it cancels.
EvictionIsAnAction ==
    [][\A s \in Servers \ Restartable, i \in StudentIds :
          (i \in EnrolledIn(aClass[s]) /\ i \notin EnrolledIn(aClass'[s]))
              => aClass'[s].studentTimeline[i] > aClass[s].studentTimeline[i]]_vars

\* REPORT.md:35, of two enrollments of one student "the one that is considered is
\* the first action": merging keeps the earlier instant.
FirstEnrollmentWins ==
    [][\A s \in Servers, i \in StudentIds :
          (MergeNext(s, i) /\ {i} \subseteq EnrolledIn(aClass[s]) \cap EnrolledIn(handler[s].msg))
              => aClass'[s].enrolled[i] =< handler[s].msg.enrolled[i]]_vars
=============================================================================
