----------------------------- MODULE SharedTimeline -----------------------------
(***************************************************************************)
(* What the class servers promise together of the periods of enrollment:   *)
(* only the primary opens and closes them, and the others come to know     *)
(* them in their order, forget none, and take none to be open again.       *)
(***************************************************************************)
EXTENDS Naturals

CONSTANTS Servers, Primary, Restartable, NoInstant

VARIABLE knows    \* the frames each server knows

\* The most recent frame.
Newest(times) == CHOOSE f \in times : \A g \in times : g.key =< f.key

\* The same frame, of which g may know the end.
Precedes(f, g) ==
    /\ f.key = g.key /\ f.start = g.start /\ f.capacity = g.capacity
    /\ f.end # NoInstant => g.end # NoInstant

\* What times knows of all: its first frames, of the newest maybe not the end.
InitialPart(times, all) ==
    /\ \A f \in times : \E g \in all : Precedes(f, g) /\ (f # Newest(times) => f = g)
    /\ \A f \in times, g \in all : g.key < f.key => g \in times

Init == knows = [s \in Servers |-> {}]

OpenFrame ==
    \E f \in knows'[Primary] :
        /\ f.end = NoInstant
        /\ \A g \in knows[Primary] : g.key < f.key
        /\ knows' = [knows EXCEPT ![Primary] = @ \cup {f}]

\* The newest frame ends, or had ended at another instant.
CloseFrame ==
    \E last \in knows[Primary] : \E f \in knows'[Primary] :
        /\ last = Newest(knows[Primary])
        /\ Precedes(last, f) /\ f.end # NoInstant
        /\ knows' = [knows EXCEPT ![Primary] = (@ \ {last}) \cup {f}]

Learn(s) ==
    /\ s # Primary
    /\ InitialPart(knows[s], knows'[s])
    /\ InitialPart(knows'[s], knows[Primary])
    /\ knows' = [knows EXCEPT ![s] = knows'[s]]

Forget(s) ==
    /\ s \in Restartable
    /\ knows' = [knows EXCEPT ![s] = {}]

Next == OpenFrame \/ CloseFrame \/ \E s \in Servers : Learn(s) \/ Forget(s)

Spec == Init /\ [][Next]_knows
=================================================================================
