------------------------- MODULE TecnicoFSBatchProofs -------------------------
(***************************************************************************)
(* What is proved of TecnicoFSBatch, for every number of slots and every     *)
(* input: types, the buffer, the order of the commands, and the inumbers.    *)
(***************************************************************************)
EXTENDS TecnicoFSBatch, WellFoundedInduction, SequenceTheorems, TLAPS

-----------------------------------------------------------------------------
(* The inductive invariants: of the buffer, of the stream, of the last worker  *)
(* and of inumbers.                                                          *)

\* What the semaphores amount to.  It is an
\* invariant until a worker that has passed the end on posts once more (alert).
Inserting(t) == pc[t] \in {"inserting", "storing", "posting"}

Someone(place) == IF \E t \in Threads : pc[t] = place THEN 1 ELSE 0

\* The slots that are stored and not taken start at conspos.
Filled == execute + Someone("posting")

Offset(k) == IF k >= conspos THEN k - conspos ELSE k + MaxCommands - conspos

\* Slot k holds a command that no worker has parsed.
Pending(k) == Offset(k) < Filled \/ (Someone("parsing") = 1 /\ k = TakenSlot)

\* Every slot is free, claimed, stored or taken, and the semaphores count them.
SlotsCounted ==
    /\ loadInput + Someone("storing") + Filled + Someone("parsing") = MaxCommands
    /\ Offset(prodpos) = IF Filled = MaxCommands THEN 0 ELSE Filled

\* There is one end, inserted last, and nothing is inserted while it is pending.
OneEnd ==
    \A k \in SlotIds : Pending(k) =>
        /\ slots[k] # Blank
        /\ slots[k] = EndCommand =>
            /\ prodpos = (k + 1) % MaxCommands
            /\ \A t \in Threads : pc[t] \notin {"inserting", "storing"}
            /\ \/ pc[Producer] = "done"
               \/ pc[Producer] = "posting" /\ command[Producer] = EndCommand

\* One thread inserts and one parses; a worker inserts only the end, after processInput.
ThreadsInTurn ==
    /\ \A t, u \in Threads : Inserting(t) /\ Inserting(u) => t = u
    /\ \A v, w \in Workers : pc[v] = "parsing" /\ pc[w] = "parsing" => v = w
    /\ pc[Producer] \in {"reading", "inserting", "storing", "posting", "done"}
    /\ \A w \in Workers :
        /\ pc[w] # "reading"
        /\ Inserting(w) => command[w] = EndCommand
        /\ Inserting(w) \/ pc[w] = "alerting" => pc[Producer] = "done"

BufferInv == TypeOK /\ SlotsCounted /\ OneEnd /\ ThreadsInTurn

\* What passes through the buffer: the commands and then the end, again and again.
InStream(i) == IF i =< Len(Commands) THEN Commands[i] ELSE EndCommand

\* The slots that hold a command that no worker has parsed, and how many of them
\* come before slot k.
Buffered == Filled + Someone("parsing")

Ahead(k) ==
    IF Someone("parsing") = 0 THEN Offset(k) ELSE IF k = TakenSlot THEN 0 ELSE Offset(k) + 1

\* How far processInput has come in the stream.
ReadAhead ==
    /\ pc[Producer] = "reading" \/ (pc[Producer] = "posting" /\ command[Producer] # EndCommand) =>
           next - 1 =< Len(Input) /\ Len(CommandsRead[next - 1]) = Len(parsed) + Buffered
    /\ pc[Producer] \in {"inserting", "storing"} /\ command[Producer] # EndCommand =>
           next - 1 =< Len(Input) /\ Len(CommandsRead[next - 1]) = Len(parsed) + Buffered + 1
    /\ pc[Producer] = "done" \/ (pc[Producer] = "posting" /\ command[Producer] = EndCommand) =>
           \/ Len(parsed) + Buffered > Len(Commands)
           \/ \E w \in Workers : pc[w] \in {"inserting", "storing"}

\* Parsed, buffered and carried to the buffer are successive parts of the stream,
\* and a worker that passes the end on leaves no command behind.
SlotsInStream ==
    \A k \in SlotIds : Pending(k) => slots[k] = InStream(Len(parsed) + Ahead(k) + 1)

CarriedInStream ==
    \A t \in Threads : pc[t] \in {"inserting", "storing"} =>
        command[t] = InStream(Len(parsed) + Buffered + 1)

EndPassedOn ==
    \A w \in Workers : Inserting(w) \/ pc[w] = "alerting" => parsed = Commands

StreamInv ==
    /\ IsPrefix(parsed, Commands)
    /\ SlotsInStream /\ CarriedInStream /\ ReadAhead /\ EndPassedOn

\* What the last worker has still to do: only the end is left for it.
NobodyDone == \A w \in Workers : pc[w] # "done"

OnlyTheEndIsLeft ==
    /\ parsed = Commands
    /\ pc[Producer] = "done"
    /\ \A w \in Workers :
           /\ pc[w] = "parsing" => slots[TakenSlot] = EndCommand
           /\ pc[w] \in {"idle", "applying", "looking", "removing", "creating"} =>
                  slots[conspos] = EndCommand

\* Why inumbers are unique when no name is renamed twice: whoever renames a name
\* has its inumber to itself, and the inumber of a create is new.
RenamedOnce ==
    \A i, j \in 1 .. Len(Commands) :
        Commands[i].token = "r" /\ Commands[j].token = "r" /\ Commands[i].name = Commands[j].name
            => i = j

Renaming(w) ==
    /\ pc[w] \in {"applying", "looking", "removing", "creating"}
    /\ command[w].token = "r"

RenamesApart ==
    /\ \A v, w \in Workers :
           Renaming(v) /\ Renaming(w) /\ command[v].name = command[w].name => v = w
    /\ \A w \in Workers, i \in 1 .. Len(Commands) :
           Renaming(w) /\ i > Len(parsed) /\ Commands[i].token = "r"
               => Commands[i].name # command[w].name

\* The inumber that w has for a name that does not have it.
Holds(w) ==
    \/ pc[w] = "applying" /\ command[w].token = "c"
    \/ pc[w] = "creating"

\* The inumber that w has found under the name it renames.
Found(w) == pc[w] \in {"looking", "removing"} /\ inumber[w] # 0

OwnInumbers ==
    /\ \A w \in Workers :
           /\ pc[w] \in {"looking", "removing", "creating"} => command[w].token = "r"
           /\ Holds(w) \/ pc[w] = "removing" => inumber[w] # 0
           /\ Holds(w) => \A n \in Names : files[n] # inumber[w]
           /\ Found(w) => \A n \in Names : files[n] = inumber[w] => n = command[w].name
    /\ \A v, w \in Workers :
           (Holds(v) \/ Found(v)) /\ (Holds(w) \/ Found(w)) /\ inumber[v] = inumber[w] => v = w

\* The positions stay in the buffer when they are advanced.
LEMMA AdvanceInBuffer ==
    ASSUME NEW k \in SlotIds
    PROVE  (k + 1) % MaxCommands \in SlotIds
BY MaxCommandsAssumption DEF SlotIds

\* The slot that was taken is one of the buffer.
LEMMA TakenSlotInBuffer ==
    ASSUME conspos \in SlotIds
    PROVE  TakenSlot \in SlotIds
BY MaxCommandsAssumption DEF SlotIds, TakenSlot

\* Each line of the input, the end and what garbage leads to are commands.
LEMMA LinesAreCommands ==
    /\ \A k \in 1 .. Len(Input) : Input[k] \in Command
    /\ EndCommand \in Command /\ Garbage \in Command
BY InputAssumption DEF Command, EndCommand, Garbage

\* A command with one of these tokens is a line, so that its names are names.
LEMMA CommandsWithNames ==
    ASSUME NEW c \in Command, c.token \in {"c", "d", "l", "r"}
    PROVE  c.name \in Names /\ c.newName \in Names
BY DEF Command, Line, EndCommand, Garbage

\* A thread that goes to a place is in a place.
LEMMA GotoPlace ==
    ASSUME pc \in [Threads -> Place], NEW t \in Threads, NEW p \in Place, Goto(t, p)
    PROVE  pc' \in [Threads -> Place]
BY DEF Goto

-----------------------------------------------------------------------------
LEMMA InitTypeOK == Init => TypeOK
<1> SUFFICES ASSUME Init PROVE TypeOK
  OBVIOUS
<1>1. pc \in [Threads -> Place]
  BY DEF Init, Place
<1>2. command \in [Threads -> Command]
  BY LinesAreCommands DEF Init
<1>3. slots \in [SlotIds -> Command \cup {Blank}]
  BY DEF Init
<1>4. prodpos \in SlotIds /\ conspos \in SlotIds
  BY MaxCommandsAssumption DEF Init, SlotIds
<1>5. next \in Nat \ {0}
  BY DEF Init
<1>6. loadInput \in Nat /\ execute \in Nat /\ nextINumber \in Nat
  BY MaxCommandsAssumption DEF Init
<1>7. inumber \in [Workers -> 0 .. nextINumber] /\ files \in [Names -> 0 .. nextINumber]
  BY DEF Init
<1>8. exited \in BOOLEAN
  BY DEF Init
<1>9. parsed \in Seq(Command)
  BY DEF Init
<1> QED
  BY <1>1, <1>2, <1>3, <1>4, <1>5, <1>6, <1>7, <1>8, <1>9 DEF TypeOK

\* processInput reads a line.
LEMMA ReadLineTypeOK ==
    ASSUME TypeOK, ReadLine
    PROVE  TypeOK'
<1> USE DEF ReadLine, ReadCommand, buffer
<1>1. Producer \in Threads
  BY DEF Threads
<1>2. next' \in Nat \ {0}
  BY DEF TypeOK
<1>3. command' \in [Threads -> Command] /\ pc' \in [Threads -> Place]
  <2>1. CASE next > Len(Input)
    BY <1>1, <2>1, LinesAreCommands, GotoPlace DEF TypeOK, Place, Goto
  <2>2. CASE next =< Len(Input)
    <3>1. next \in 1 .. Len(Input)
      BY <2>2, InputAssumption DEF TypeOK
    <3> QED
      BY <1>1, <2>2, <3>1, LinesAreCommands, GotoPlace DEF TypeOK, Place, Goto
  <2> QED
    BY <2>1, <2>2, InputAssumption DEF TypeOK
<1>4. exited' \in BOOLEAN
  BY DEF TypeOK
<1> QED
  BY <1>2, <1>3, <1>4 DEF TypeOK

\* insertCommand, by any thread.
LEMMA InsertTypeOK ==
    ASSUME TypeOK, NEW t \in Threads, Insert(t)
    PROVE  TypeOK'
<1>1. CASE WaitForSlot(t)
  BY <1>1 DEF TypeOK, WaitForSlot, outcome, Goto, Place
<1>2. CASE Store(t)
  <2>1. prodpos' \in SlotIds
    BY <1>2, AdvanceInBuffer DEF TypeOK, Store, outcome
  <2>2. slots' \in [SlotIds -> Command \cup {Blank}]
    BY <1>2 DEF TypeOK, Store, outcome
  <2>3. pc' \in [Threads -> Place]
    BY <1>2 DEF TypeOK, Store, outcome, Goto, Place
  <2> QED
    BY <1>2, <2>1, <2>2, <2>3 DEF TypeOK, Store, outcome
<1>3. CASE Post(t)
  <2>1. AfterInsert(t) \in Place
    BY DEF AfterInsert, Place
  <2> QED
    BY <1>3, <2>1 DEF TypeOK, Post, outcome, Goto
<1> QED
  BY <1>1, <1>2, <1>3 DEF Insert

\* A worker takes a slot and parses what it holds.
LEMMA TakeTypeOK ==
    ASSUME TypeOK, NEW w \in Workers, Take(w) \/ Parse(w) \/ Alert(w)
    PROVE  TypeOK'
<1>0. w \in Threads
  BY DEF Threads
<1>1. CASE Take(w)
  <2>1. conspos' \in SlotIds
    BY <1>1, AdvanceInBuffer DEF TypeOK, Take, outcome
  <2> QED
    BY <1>0, <1>1, <2>1 DEF TypeOK, Take, outcome, Goto, Place
<1>2. CASE Parse(w)
  <2>1. PICK c \in Scanned(w) :
          /\ command' = [command EXCEPT ![w] = c]
          /\ exited' = (c = Garbage)
          /\ parsed' = IF c = EndCommand THEN parsed ELSE Append(parsed, c)
          /\ nextINumber' = IF c.token = "c" THEN nextINumber + 1 ELSE nextINumber
          /\ inumber' = IF c.token = "c" THEN [inumber EXCEPT ![w] = nextINumber'] ELSE inumber
          /\ Goto(w, AfterParse(c))
    BY <1>2 DEF Parse
  <2>2. c \in Command
    BY <1>0, <2>1, TakenSlotInBuffer, LinesAreCommands DEF TypeOK, Scanned
  <2>3. command' \in [Threads -> Command] /\ exited' \in BOOLEAN
    BY <2>1, <2>2 DEF TypeOK
  <2>4. parsed' \in Seq(Command)
    BY <2>1, <2>2 DEF TypeOK
  <2>5. nextINumber' \in Nat /\ nextINumber =< nextINumber'
    BY <2>1 DEF TypeOK
  <2>6. inumber' \in [Workers -> 0 .. nextINumber']
    BY <2>1, <2>5 DEF TypeOK
  <2>7. files' \in [Names -> 0 .. nextINumber']
    BY <1>2, <2>5 DEF TypeOK, Parse
  <2>8. pc' \in [Threads -> Place]
    BY <1>0, <2>1 DEF TypeOK, Goto, AfterParse, Place
  <2> QED
    BY <1>2, <2>3, <2>4, <2>5, <2>6, <2>7, <2>8 DEF TypeOK, Parse
<1>3. CASE Alert(w)
  BY <1>0, <1>3 DEF TypeOK, Alert, outcome, Goto, Place
<1> QED
  BY <1>1, <1>2, <1>3

\* A worker applies a command to the files.
LEMMA ApplyTypeOK ==
    ASSUME TypeOK, NEW w \in Workers,
           \/ Create(w) \/ Lookup(w) \/ Delete(w)
           \/ LookupName(w) \/ LookupNewName(w) \/ RemoveName(w) \/ CreateNewName(w)
    PROVE  TypeOK'
<1> USE DEF buffer, outcome, Goto, Applying
<1>0. w \in Threads /\ {"idle", "looking", "removing", "creating"} \subseteq Place
  BY DEF Threads, Place
<1>n. 0 \in 0 .. nextINumber
  BY DEF TypeOK
<1>1. CASE Create(w)
  BY <1>0, <1>1 DEF TypeOK, Create
<1>2. CASE Lookup(w)
  BY <1>0, <1>2 DEF TypeOK, Lookup
<1>3. CASE Delete(w)
  <2>1. files' \in [Names -> 0 .. nextINumber]
    BY <1>n, <1>3 DEF TypeOK, Delete
  <2>2. pc' \in [Threads -> Place]
    BY <1>0, <1>3 DEF TypeOK, Delete
  <2> QED
    BY <1>3, <2>1, <2>2 DEF TypeOK, Delete
<1>4. CASE LookupName(w)
  <2>1. files[command[w].name] \in 0 .. nextINumber
    BY <1>0, <1>4, CommandsWithNames DEF TypeOK, LookupName
  <2> QED
    BY <1>0, <1>4, <2>1 DEF TypeOK, LookupName
<1>5. CASE LookupNewName(w)
  BY <1>0, <1>5 DEF TypeOK, LookupNewName
<1>6. CASE RemoveName(w)
  <2>1. files' \in [Names -> 0 .. nextINumber]
    BY <1>n, <1>6 DEF TypeOK, RemoveName
  <2>2. pc' \in [Threads -> Place]
    BY <1>0, <1>6 DEF TypeOK, RemoveName
  <2> QED
    BY <1>6, <2>1, <2>2 DEF TypeOK, RemoveName
<1>7. CASE CreateNewName(w)
  BY <1>0, <1>7 DEF TypeOK, CreateNewName
<1> QED
  BY <1>1, <1>2, <1>3, <1>4, <1>5, <1>6, <1>7

-----------------------------------------------------------------------------
LEMMA StepTypeOK == TypeOK /\ [Next]_vars => TypeOK'
<1> SUFFICES ASSUME TypeOK, [Next]_vars PROVE TypeOK'
  OBVIOUS
<1>1. CASE ProducerStep
  <2>1. Producer \in Threads
    BY DEF Threads
  <2> QED
    BY <1>1, <2>1, ReadLineTypeOK, InsertTypeOK DEF ProducerStep
<1>2. ASSUME NEW w \in Workers, WorkerStep(w) PROVE TypeOK'
  <2>1. w \in Threads
    BY DEF Threads
  <2> QED
    BY <1>2, <2>1, InsertTypeOK, TakeTypeOK, ApplyTypeOK DEF WorkerStep
<1>3. CASE Ended
  BY <1>3 DEF Ended, TypeOK, vars
<1>4. CASE UNCHANGED vars
  BY <1>4 DEF TypeOK, vars
<1> QED
  BY <1>1, <1>2, <1>3, <1>4 DEF Next

\* Type correctness: the positions never leave the buffer, and no worker holds, and no
\* file has, an inumber that obtainNewInumber has not handed out.
THEOREM TypeCorrect == Spec => []TypeOK
BY InitTypeOK, StepTypeOK, PTL DEF Spec

-----------------------------------------------------------------------------
(* The buffer.  BufferInv holds from one step to the next until a worker that  *)
(* has passed the end on posts executeCommand without having inserted anything; *)
(* the lemmas follow the commands through the buffer.                          *)

\* The slot after k, and the one before conspos, without remainders.
LEMMA SlotAfter ==
    ASSUME NEW k \in SlotIds
    PROVE  (k + 1) % MaxCommands = IF k + 1 = MaxCommands THEN 0 ELSE k + 1
BY MaxCommandsAssumption DEF SlotIds

LEMMA SlotBefore ==
    ASSUME conspos \in SlotIds
    PROVE  TakenSlot = IF conspos = 0 THEN MaxCommands - 1 ELSE conspos - 1
<1>1. CASE conspos = 0
  BY <1>1, MaxCommandsAssumption DEF SlotIds, TakenSlot
<1>2. CASE conspos # 0
  BY <1>2, MaxCommandsAssumption DEF SlotIds, TakenSlot
<1> QED
  BY <1>1, <1>2

\* Whether someone is at a place when t has moved from there, or to there.
LEMMA SomeoneMoves ==
    ASSUME TypeOK, NEW t \in Threads, NEW to, Goto(t, to), NEW place
    PROVE  /\ to = place => Someone(place)' = 1
           /\ to # place /\ pc[t] # place => Someone(place)' = Someone(place)
           /\ to # place /\ pc[t] = place /\ (\A u \in Threads : pc[u] = place => u = t)
                => Someone(place)' = 0
           /\ pc[t] = place => Someone(place) = 1
<1>1. pc \in [Threads -> Place] /\ pc' = [pc EXCEPT ![t] = to]
  BY DEF TypeOK, Goto
<1>2. \A u \in Threads : pc'[u] = IF u = t THEN to ELSE pc[u]
  BY <1>1
<1> QED
  BY <1>2 DEF Someone

LEMMA SomeoneType == \A place : Someone(place) \in {0, 1} /\ Someone(place)' \in {0, 1}
BY DEF Someone

\* What TypeOK says of the numbers.
LEMMA NumbersType ==
    ASSUME TypeOK
    PROVE  /\ prodpos \in SlotIds /\ conspos \in SlotIds /\ prodpos \in Nat /\ conspos \in Nat
           /\ prodpos < MaxCommands /\ conspos < MaxCommands
           /\ loadInput \in Nat /\ execute \in Nat /\ Filled \in Nat
           /\ MaxCommands \in Nat /\ MaxCommands > 0
<1>1. prodpos \in SlotIds /\ conspos \in SlotIds /\ loadInput \in Nat /\ execute \in Nat
  BY DEF TypeOK
<1>2. Filled \in Nat
  BY <1>1, SomeoneType DEF Filled
<1> QED
  BY <1>1, <1>2, MaxCommandsAssumption DEF SlotIds

\* Two slots are at different distances from conspos.
LEMMA OffsetType ==
    ASSUME TypeOK
    PROVE  /\ \A k \in SlotIds : Offset(k) \in 0 .. MaxCommands - 1
           /\ \A j, k \in SlotIds : Offset(j) = Offset(k) => j = k
BY NumbersType DEF Offset, SlotIds

LEMMA BlankIsNoCommand == Blank \notin Command
<1>1. \A c \in Command : c.token \in {"c", "l", "r", "d", "#", "?", "x"}
  BY DEF Command, Line, EndCommand, Garbage
<1>2. Blank.token \notin {"c", "l", "r", "d", "#", "?", "x"}
  BY DEF Blank
<1> QED
  BY <1>1, <1>2

\* The semaphores keep the slot that is written apart from the one that is read.
LEMMA BufferKeepsApart ==
    ASSUME BufferInv
    PROVE  NoOverwrite
<1> SUFFICES ASSUME NEW t \in Threads, NEW w \in Workers,
                    pc[t] = "storing", pc[w] = "parsing"
             PROVE  prodpos # TakenSlot
  BY DEF NoOverwrite
<1>1. w \in Threads
  BY DEF Threads
<1>2. Someone("storing") = 1 /\ Someone("parsing") = 1
  BY <1>1 DEF Someone
<1>3. Filled + 2 =< MaxCommands /\ Offset(prodpos) = Filled
  BY <1>2, NumbersType DEF BufferInv, SlotsCounted
<1>4. TypeOK
  BY DEF BufferInv
<1> QED
  BY <1>3, <1>4, NumbersType, SlotBefore DEF Offset

\* A step that leaves the slots, the positions and who is storing, posting or parsing
\* alone, and that nobody starts to insert, keeps the invariant.
LEMMA CountsUnchanged ==
    ASSUME BufferInv, UNCHANGED <<prodpos, conspos>>,
           loadInput' + Someone("storing")' = loadInput + Someone("storing"),
           Filled' = Filled, Someone("parsing")' = Someone("parsing")
    PROVE  SlotsCounted' /\ \A k \in SlotIds : Pending(k)' <=> Pending(k)
<1>1. TypeOK
  BY DEF BufferInv
<1>2. \A k \in SlotIds : Offset(k)' = Offset(k)
  BY DEF Offset
<1>3. TakenSlot' = TakenSlot
  BY DEF TakenSlot
<1>4. Offset(prodpos)' = Offset(prodpos)
  BY DEF Offset
<1>5. SlotsCounted'
  BY <1>4 DEF BufferInv, SlotsCounted
<1> QED
  BY <1>2, <1>3, <1>5 DEF Pending

\* processInput reads a line: as it is not done, there is no end in the buffer.
LEMMA ReadLineKeepsBuffer ==
    ASSUME BufferInv, TypeOK', ReadLine
    PROVE  BufferInv'
<1>1. /\ TypeOK /\ pc[Producer] = "reading" /\ Producer \in Threads /\ Producer \notin Workers
      /\ Threads = Workers \cup {Producer} /\ pc \in [Threads -> Place]
  BY ThreadsAssumption DEF BufferInv, TypeOK, ReadLine, Threads
<1>2. UNCHANGED <<slots, prodpos, conspos, loadInput, execute>>
  BY DEF ReadLine, buffer
<1>3. pc' = pc \/ pc' = [pc EXCEPT ![Producer] = "inserting"]
  BY DEF ReadLine, ReadCommand, Goto
<1>4. /\ \A w \in Workers : pc'[w] = pc[w] /\ command'[w] = command[w]
      /\ pc'[Producer] \in {"reading", "inserting"}
  BY <1>1, <1>3 DEF ReadLine, ReadCommand, TypeOK
<1>5. \A place \in {"storing", "posting", "parsing"} : Someone(place)' = Someone(place)
  BY <1>1, <1>4 DEF Someone
<1>6. Filled' = Filled
  BY <1>2, <1>5 DEF Filled
<1>7. SlotsCounted' /\ \A k \in SlotIds : Pending(k)' <=> Pending(k)
  BY <1>2, <1>5, <1>6, CountsUnchanged
<1>8. OneEnd'
  BY <1>1, <1>2, <1>7 DEF BufferInv, OneEnd
<1>9. \A w \in Workers : ~Inserting(w) /\ pc[w] # "alerting"
  BY <1>1 DEF BufferInv, ThreadsInTurn
<1>10. ThreadsInTurn'
  BY <1>1, <1>4, <1>9 DEF BufferInv, ThreadsInTurn, Inserting
<1> QED
  BY <1>7, <1>8, <1>10 DEF BufferInv

\* Where t goes from a place of insertCommand, and where the others stay.
LEMMA OneMoves ==
    ASSUME TypeOK, NEW t \in Threads, NEW to, Goto(t, to)
    PROVE  /\ \A u \in Threads : pc'[u] = IF u = t THEN to ELSE pc[u]
           /\ Producer \in Threads /\ Producer \notin Workers
           /\ Workers \subseteq Threads /\ (t # Producer => t \in Workers)
BY ThreadsAssumption DEF TypeOK, Goto, Threads

\* A free slot is claimed.
LEMMA WaitForSlotKeepsBuffer ==
    ASSUME BufferInv, TypeOK', NEW t \in Threads, WaitForSlot(t)
    PROVE  BufferInv'
<1>1. /\ TypeOK /\ pc[t] = "inserting" /\ Goto(t, "storing")
      /\ UNCHANGED <<slots, prodpos, conspos, execute, command>>
      /\ loadInput' = loadInput - 1
  BY DEF BufferInv, WaitForSlot
<1>2. \A u \in Threads : Inserting(u) => u = t
  BY <1>1 DEF BufferInv, ThreadsInTurn, Inserting
<1>3. Someone("storing") = 0
  BY <1>1, <1>2 DEF Someone, Inserting
<1>4. /\ Someone("storing")' = 1 /\ Someone("posting")' = Someone("posting")
      /\ Someone("parsing")' = Someone("parsing")
  BY <1>1, SomeoneMoves
<1>5. Filled' = Filled
  BY <1>1, <1>4 DEF Filled
<1>6. loadInput' + Someone("storing")' = loadInput + Someone("storing")
  BY <1>1, <1>3, <1>4, NumbersType
<1>7. SlotsCounted' /\ \A k \in SlotIds : Pending(k)' <=> Pending(k)
  BY <1>1, <1>4, <1>5, <1>6, CountsUnchanged
<1>8. \A k \in SlotIds : Pending(k) => slots[k] # Blank /\ slots[k] # EndCommand
  BY <1>1 DEF BufferInv, OneEnd
<1>9. OneEnd'
  BY <1>1, <1>7, <1>8 DEF OneEnd
<1>10. ThreadsInTurn'
  BY <1>1, <1>2, OneMoves DEF BufferInv, ThreadsInTurn, Inserting
<1> QED
  BY <1>7, <1>9, <1>10 DEF BufferInv

\* The claimed slot is written: it is the one after those that are stored.
LEMMA StoreKeepsBuffer ==
    ASSUME BufferInv, TypeOK', NEW t \in Threads, Store(t)
    PROVE  BufferInv'
<1>1. /\ TypeOK /\ pc[t] = "storing" /\ Goto(t, "posting")
      /\ UNCHANGED <<conspos, execute, loadInput, command>>
      /\ slots' = [slots EXCEPT ![prodpos] = command[t]]
      /\ prodpos' = (prodpos + 1) % MaxCommands
      /\ slots \in [SlotIds -> Command \cup {Blank}] /\ command[t] \in Command
  BY DEF BufferInv, Store, TypeOK
<1>2. \A u \in Threads : Inserting(u) => u = t
  BY <1>1 DEF BufferInv, ThreadsInTurn, Inserting
<1>3. /\ Someone("storing") = 1 /\ Someone("posting") = 0
  BY <1>1, <1>2 DEF Someone, Inserting
<1>4. /\ Someone("storing")' = 0 /\ Someone("posting")' = 1
      /\ Someone("parsing")' = Someone("parsing")
  <2>1. \A u \in Threads : pc[u] = "storing" => u = t
    BY <1>2 DEF Inserting
  <2> QED
    BY <1>1, <2>1, SomeoneMoves
<1>5. Filled' = Filled + 1
  BY <1>1, <1>3, <1>4, NumbersType DEF Filled
<1>6. Filled < MaxCommands /\ Offset(prodpos) = Filled
  BY <1>1, <1>3, NumbersType, SomeoneType DEF BufferInv, SlotsCounted
<1>7. \A k \in SlotIds : Offset(k)' = Offset(k)
  BY <1>1 DEF Offset
<1>8. loadInput' + Someone("storing")' + Filled' + Someone("parsing")' = MaxCommands
  BY <1>1, <1>3, <1>4, <1>5, NumbersType, SomeoneType DEF BufferInv, SlotsCounted
<1>9. Offset(prodpos)' = IF Filled' = MaxCommands THEN 0 ELSE Filled'
  <2>1. prodpos' = IF prodpos + 1 = MaxCommands THEN 0 ELSE prodpos + 1
    BY <1>1, NumbersType, SlotAfter
  <2>2. \/ prodpos >= conspos /\ prodpos - conspos = Filled
        \/ prodpos < conspos /\ prodpos + MaxCommands - conspos = Filled
    BY <1>1, <1>6, NumbersType DEF Offset
  <2>3. Offset(prodpos)' = IF prodpos' >= conspos THEN prodpos' - conspos
                           ELSE prodpos' + MaxCommands - conspos
    BY <1>1 DEF Offset
  <2>4. /\ prodpos \in Nat /\ conspos \in Nat /\ MaxCommands \in Nat /\ Filled \in Nat
        /\ prodpos < MaxCommands /\ conspos < MaxCommands
    BY <1>1, NumbersType
  <2> QED
    BY <1>5, <1>6, <2>1, <2>2, <2>3, <2>4
<1>10. \A k \in SlotIds : Pending(k)' => Pending(k) \/ k = prodpos
  <2>1. \A k \in SlotIds : Offset(k) = Filled => k = prodpos
    BY <1>1, <1>6, NumbersType, OffsetType
  <2>2. \A k \in SlotIds : Offset(k) \in Int
    BY <1>1, OffsetType
  <2>3. ASSUME NEW k \in SlotIds, Offset(k)' < Filled'
        PROVE  Offset(k) < Filled \/ k = prodpos
    <3>1. Filled \in Int
      BY <1>1, NumbersType
    <3>2. Offset(k) < Filled + 1
      BY <1>5, <1>7, <2>3
    <3> QED
      BY <2>1, <2>2, <3>1, <3>2
  <2>4. TakenSlot' = TakenSlot
    BY <1>1 DEF TakenSlot
  <2> QED
    BY <1>4, <2>3, <2>4 DEF Pending
<1>11. command[t] # Blank
  BY <1>1, BlankIsNoCommand
<1>12. \A k \in SlotIds : Pending(k) => slots[k] # Blank /\ slots[k] # EndCommand
  BY <1>1 DEF BufferInv, OneEnd
<1>13. t # Producer => command[t] = EndCommand /\ pc[Producer] = "done"
  BY <1>1, OneMoves DEF BufferInv, ThreadsInTurn, Inserting
<1>14. OneEnd'
  <2> SUFFICES ASSUME NEW k \in SlotIds, Pending(k)'
               PROVE  /\ slots'[k] # Blank
                      /\ slots'[k] = EndCommand =>
                          /\ prodpos' = (k + 1) % MaxCommands
                          /\ \A u \in Threads : pc'[u] \notin {"inserting", "storing"}
                          /\ \/ pc'[Producer] = "done"
                             \/ pc'[Producer] = "posting" /\ command'[Producer] = EndCommand
    BY DEF OneEnd
  <2>1. CASE k = prodpos
    <3>1. slots'[k] = command[t] /\ prodpos' = (k + 1) % MaxCommands
      BY <1>1, <2>1
    <3>2. \A u \in Threads : pc'[u] \notin {"inserting", "storing"}
      BY <1>1, <1>2, OneMoves DEF Inserting
    <3>3. command[t] = EndCommand =>
              \/ pc'[Producer] = "done"
              \/ pc'[Producer] = "posting" /\ command'[Producer] = EndCommand
      BY <1>1, <1>13, OneMoves
    <3> QED
      BY <1>11, <3>1, <3>2, <3>3
  <2>2. CASE k # prodpos
    <3>1. slots'[k] = slots[k] /\ Pending(k)
      BY <1>1, <1>10, <2>2
    <3> QED
      BY <1>12, <3>1
  <2> QED
    BY <2>1, <2>2
<1>15. ThreadsInTurn'
  BY <1>1, <1>2, OneMoves DEF BufferInv, ThreadsInTurn, Inserting
<1> QED
  BY <1>8, <1>9, <1>14, <1>15 DEF BufferInv, SlotsCounted

\* The command is announced.
LEMMA PostKeepsBuffer ==
    ASSUME BufferInv, TypeOK', NEW t \in Threads, Post(t)
    PROVE  BufferInv'
<1>1. /\ TypeOK /\ pc[t] = "posting" /\ Goto(t, AfterInsert(t))
      /\ UNCHANGED <<slots, prodpos, conspos, loadInput, command>>
      /\ execute' = execute + 1
  BY DEF BufferInv, Post
<1>2. \A u \in Threads : Inserting(u) => u = t
  BY <1>1 DEF BufferInv, ThreadsInTurn, Inserting
<1>3. AfterInsert(t) \in {"alerting", "done", "reading"}
  BY DEF AfterInsert
<1>4. /\ Someone("posting") = 1 /\ Someone("posting")' = 0
      /\ Someone("storing")' = Someone("storing")
      /\ Someone("parsing")' = Someone("parsing")
  <2>1. \A u \in Threads : pc[u] = "posting" => u = t
    BY <1>2 DEF Inserting
  <2> QED
    BY <1>1, <1>3, <2>1, SomeoneMoves
<1>5. Filled' = Filled
  BY <1>1, <1>4, NumbersType DEF Filled
<1>6. SlotsCounted' /\ \A k \in SlotIds : Pending(k)' <=> Pending(k)
  BY <1>1, <1>4, <1>5, CountsUnchanged
<1>7. \A u \in Threads : pc'[u] = IF u = t THEN AfterInsert(t) ELSE pc[u]
  BY <1>1, OneMoves
<1>8. /\ Producer \in Threads /\ Producer \notin Workers /\ Workers \subseteq Threads
      /\ t # Producer => t \in Workers
  BY <1>1, OneMoves
<1>9. CASE t = Producer
  <2>1. pc'[Producer] = IF command[Producer] = EndCommand THEN "done" ELSE "reading"
    BY <1>7, <1>9 DEF AfterInsert
  <2>2. OneEnd'
    BY <1>1, <1>3, <1>6, <1>7, <1>9, <2>1 DEF BufferInv, OneEnd
  <2>3. \A w \in Workers : ~Inserting(w) /\ pc[w] # "alerting" /\ pc'[w] = pc[w]
    BY <1>1, <1>2, <1>7, <1>8, <1>9 DEF BufferInv, ThreadsInTurn
  <2>4. ThreadsInTurn'
    BY <1>1, <1>7, <1>8, <1>9, <2>1, <2>3 DEF BufferInv, ThreadsInTurn, Inserting
  <2> QED
    BY <1>6, <2>2, <2>4 DEF BufferInv
<1>10. CASE t # Producer
  <2>1. t \in Workers /\ pc'[t] = "alerting" /\ pc[Producer] = "done" /\ pc'[Producer] = "done"
    BY <1>1, <1>7, <1>8, <1>10 DEF BufferInv, ThreadsInTurn, Inserting, AfterInsert
  <2>2. OneEnd'
    BY <1>1, <1>6, <1>7, <2>1 DEF BufferInv, OneEnd
  <2>3. ThreadsInTurn'
    BY <1>1, <1>2, <1>7, <1>8, <2>1 DEF BufferInv, ThreadsInTurn, Inserting
  <2> QED
    BY <1>6, <2>2, <2>3 DEF BufferInv
<1> QED
  BY <1>9, <1>10

\* The oldest stored slot is taken.
LEMMA TakeKeepsBuffer ==
    ASSUME BufferInv, TypeOK', NEW w \in Workers, Take(w)
    PROVE  BufferInv'
<1>1. /\ TypeOK /\ w \in Threads /\ pc[w] = "idle" /\ Goto(w, "parsing")
      /\ UNCHANGED <<slots, prodpos, loadInput, command>>
      /\ execute > 0 /\ execute' = execute - 1
      /\ conspos' = (conspos + 1) % MaxCommands
      /\ \A v \in Workers : pc[v] # "parsing"
  BY DEF BufferInv, Take, Threads, CommandsLockFree
<1>2. \A u \in Threads : pc[u] # "parsing"
  BY <1>1 DEF Threads, BufferInv, ThreadsInTurn
<1>3. /\ Someone("parsing") = 0 /\ Someone("parsing")' = 1
      /\ Someone("storing")' = Someone("storing") /\ Someone("posting")' = Someone("posting")
  <2>1. Someone("parsing") = 0
    BY <1>2 DEF Someone
  <2> QED
    BY <1>1, <2>1, SomeoneMoves
<1>4. /\ prodpos \in Nat /\ conspos \in Nat /\ MaxCommands \in Nat /\ Filled \in Nat
      /\ prodpos < MaxCommands /\ conspos < MaxCommands
  BY <1>1, NumbersType
<1>5. Filled' = Filled - 1 /\ Filled > 0
  BY <1>1, <1>3, NumbersType, SomeoneType DEF Filled
<1>6. Filled =< MaxCommands
      /\ loadInput' + Someone("storing")' + Filled' + Someone("parsing")' = MaxCommands
  BY <1>1, <1>3, <1>5, NumbersType, SomeoneType DEF BufferInv, SlotsCounted
<1>7. conspos' = IF conspos + 1 = MaxCommands THEN 0 ELSE conspos + 1
  BY <1>1, NumbersType, SlotAfter
<1>8. ASSUME NEW k \in SlotIds
      PROVE  Offset(k)' = IF k = conspos THEN MaxCommands - 1 ELSE Offset(k) - 1
  <2>1. Offset(k)' = IF k >= conspos' THEN k - conspos' ELSE k + MaxCommands - conspos'
    BY DEF Offset
  <2>2. k \in Nat /\ k < MaxCommands
    BY <1>4 DEF SlotIds
  <2> QED
    BY <1>4, <1>7, <2>1, <2>2 DEF Offset
<1>9. Offset(prodpos)' = IF Filled' = MaxCommands THEN 0 ELSE Filled'
  <2>1. Offset(prodpos)' = IF prodpos = conspos THEN MaxCommands - 1 ELSE Offset(prodpos) - 1
    <3>1. Offset(prodpos)' = IF prodpos >= conspos' THEN prodpos - conspos'
                             ELSE prodpos + MaxCommands - conspos'
      BY <1>1 DEF Offset
    <3> QED
      BY <1>4, <1>7, <3>1 DEF Offset
  <2>2. Offset(prodpos) = IF Filled = MaxCommands THEN 0 ELSE Filled
    BY DEF BufferInv, SlotsCounted
  <2>3. prodpos = conspos <=> Offset(prodpos) = 0
    BY <1>4 DEF Offset
  <2> QED
    BY <1>4, <1>5, <1>6, <2>1, <2>2, <2>3
<1>10. TakenSlot' = conspos
  <2>1. conspos' \in SlotIds
    BY DEF TypeOK
  <2>2. TakenSlot' = IF conspos' = 0 THEN MaxCommands - 1 ELSE conspos' - 1
    <3>1. TakenSlot' = (conspos' + MaxCommands - 1) % MaxCommands
      BY DEF TakenSlot
    <3>2. CASE conspos' = 0
      BY <1>4, <3>1, <3>2, MaxCommandsAssumption
    <3>3. CASE conspos' # 0
      <4>1. conspos' \in Nat /\ conspos' < MaxCommands
        BY <1>4, <2>1 DEF SlotIds
      <4> QED
        BY <1>4, <3>1, <3>3, <4>1, MaxCommandsAssumption
    <3> QED
      BY <3>2, <3>3
  <2> QED
    BY <1>4, <1>7, <2>2
<1>11. ASSUME NEW k \in SlotIds, Pending(k)' PROVE Pending(k)
  <2>1. Offset(conspos) = 0
    BY <1>4 DEF Offset
  <2>2. Offset(k)' < Filled' \/ k = conspos
    BY <1>10, <1>11 DEF Pending
  <2>3. Offset(k) \in Int
    BY <1>1, OffsetType
  <2>4. Offset(k) < Filled
    BY <1>4, <1>5, <1>6, <1>8, <2>1, <2>2, <2>3
  <2> QED
    BY <2>4 DEF Pending
<1>12. \A u \in Threads : pc'[u] = IF u = w THEN "parsing" ELSE pc[u]
  BY <1>1, OneMoves
<1>13. Producer \in Threads /\ Producer \notin Workers /\ Workers \subseteq Threads
  BY <1>1, OneMoves
<1>14. OneEnd'
  <2> SUFFICES ASSUME NEW k \in SlotIds, Pending(k)'
               PROVE  /\ slots'[k] # Blank
                      /\ slots'[k] = EndCommand =>
                          /\ prodpos' = (k + 1) % MaxCommands
                          /\ \A u \in Threads : pc'[u] \notin {"inserting", "storing"}
                          /\ \/ pc'[Producer] = "done"
                             \/ pc'[Producer] = "posting" /\ command'[Producer] = EndCommand
    BY DEF OneEnd
  <2>1. Pending(k)
    BY <1>11
  <2> QED
    BY <1>1, <1>12, <1>13, <2>1 DEF BufferInv, OneEnd
<1>15. ThreadsInTurn'
  BY <1>1, <1>12, <1>13 DEF BufferInv, ThreadsInTurn, Inserting
<1> QED
  BY <1>6, <1>9, <1>14, <1>15 DEF BufferInv, SlotsCounted

\* The slot is parsed and free: if it held the end, no other command is left.
LEMMA ParseKeepsBuffer ==
    ASSUME BufferInv, TypeOK', NEW w \in Workers, Parse(w)
    PROVE  BufferInv'
<1>1. /\ TypeOK /\ w \in Threads /\ pc[w] = "parsing" /\ TakenSlot \in SlotIds
      /\ UNCHANGED <<slots, prodpos, conspos, execute>>
      /\ loadInput' = loadInput + 1
  BY TakenSlotInBuffer DEF BufferInv, Parse, Threads, TypeOK
<1>2. Someone("parsing") = 1 /\ Pending(TakenSlot)
  BY <1>1 DEF Someone, Pending
<1>3. slots[TakenSlot] # Blank
  BY <1>1, <1>2 DEF BufferInv, OneEnd
<1> DEFINE c == slots[TakenSlot]
<1>4. command' = [command EXCEPT ![w] = c] /\ Goto(w, AfterParse(c))
  BY <1>3 DEF Parse, Scanned
<1>5. AfterParse(c) = IF c = EndCommand THEN "inserting" ELSE "applying"
  BY DEF AfterParse
<1> HIDE DEF c
<1>6. \A u \in Threads : pc[u] = "parsing" => u = w
  BY <1>1 DEF BufferInv, ThreadsInTurn, Threads
<1>7. /\ Someone("parsing")' = 0
      /\ Someone("storing")' = Someone("storing") /\ Someone("posting")' = Someone("posting")
  BY <1>1, <1>4, <1>5, <1>6, SomeoneMoves
<1>8. Filled' = Filled
  BY <1>1, <1>7 DEF Filled
<1>9. \A k \in SlotIds : Offset(k)' = Offset(k)
  BY <1>1 DEF Offset
<1>10. SlotsCounted'
  <2>1. Offset(prodpos)' = Offset(prodpos)
    BY <1>1 DEF Offset
  <2>2. loadInput' + Someone("storing")' + Filled' + Someone("parsing")' = MaxCommands
    BY <1>1, <1>2, <1>7, <1>8, NumbersType, SomeoneType DEF BufferInv, SlotsCounted
  <2> QED
    BY <1>8, <2>1, <2>2 DEF BufferInv, SlotsCounted
<1>11. \A k \in SlotIds : Pending(k)' => Offset(k) < Filled /\ Pending(k)
  BY <1>7, <1>8, <1>9 DEF Pending
<1>12. /\ \A u \in Threads : pc'[u] = IF u = w THEN AfterParse(c) ELSE pc[u]
       /\ Producer \in Threads /\ Producer \notin Workers /\ Workers \subseteq Threads
  BY <1>1, <1>4, OneMoves
<1>13. \A u \in Threads : command'[u] = IF u = w THEN c ELSE command[u]
  BY <1>1, <1>4 DEF TypeOK
<1>14. CASE c = EndCommand
  <2>1. /\ prodpos = (TakenSlot + 1) % MaxCommands
        /\ \A u \in Threads : pc[u] \notin {"inserting", "storing"}
        /\ pc[Producer] \in {"done", "posting"}
    BY <1>1, <1>2, <1>14 DEF BufferInv, OneEnd, c
  <2>2. prodpos = conspos
    <3>1. (TakenSlot + 1) % MaxCommands =
             IF TakenSlot + 1 = MaxCommands THEN 0 ELSE TakenSlot + 1
      BY <1>1, SlotAfter
    <3>2. TakenSlot = IF conspos = 0 THEN MaxCommands - 1 ELSE conspos - 1
      BY <1>1, NumbersType, SlotBefore
    <3> QED
      BY <1>1, <2>1, <3>1, <3>2, NumbersType
  <2>3. Filled = 0
    <3>1. Filled < MaxCommands /\ Filled \in Nat
      BY <1>1, <1>2, NumbersType, SomeoneType DEF BufferInv, SlotsCounted
    <3>2. Offset(prodpos) = Filled
      BY <3>1 DEF BufferInv, SlotsCounted
    <3>3. Offset(prodpos) = 0
      BY <1>1, <2>2, NumbersType DEF Offset
    <3> QED
      BY <3>2, <3>3
  <2>4. Someone("posting") = 0
    BY <1>1, <2>3, NumbersType, SomeoneType DEF Filled
  <2>5. \A u \in Threads : ~Inserting(u)
    BY <2>1, <2>4 DEF Someone, Inserting
  <2>6. pc[Producer] = "done"
    BY <1>12, <2>1, <2>5 DEF Inserting
  <2>7. OneEnd'
    <3>1. \A k \in SlotIds : Offset(k) \in Nat
      BY <1>1, OffsetType
    <3>2. \A k \in SlotIds : ~(Offset(k) < Filled)
      BY <2>3, <3>1
    <3> QED
      BY <1>11, <3>2 DEF OneEnd
  <2>8. ThreadsInTurn'
    BY <1>5, <1>6, <1>12, <1>13, <1>14, <2>5, <2>6 DEF BufferInv, ThreadsInTurn, Inserting
  <2> QED
    BY <1>10, <2>7, <2>8 DEF BufferInv
<1>15. CASE c # EndCommand
  <2>1. AfterParse(c) = "applying"
    BY <1>5, <1>15
  <2>2. OneEnd'
    <3> SUFFICES ASSUME NEW k \in SlotIds, Pending(k)'
                 PROVE  /\ slots'[k] # Blank
                        /\ slots'[k] = EndCommand =>
                            /\ prodpos' = (k + 1) % MaxCommands
                            /\ \A u \in Threads : pc'[u] \notin {"inserting", "storing"}
                            /\ \/ pc'[Producer] = "done"
                               \/ pc'[Producer] = "posting" /\ command'[Producer] = EndCommand
      BY DEF OneEnd
    <3>1. Pending(k)
      BY <1>11
    <3>2. Producer # w
      BY <1>12
    <3> QED
      BY <1>1, <1>12, <1>13, <2>1, <3>1, <3>2 DEF BufferInv, OneEnd
  <2>3. ThreadsInTurn'
    BY <1>6, <1>12, <1>13, <2>1 DEF BufferInv, ThreadsInTurn, Inserting
  <2> QED
    BY <1>10, <2>2, <2>3 DEF BufferInv
<1> QED
  BY <1>14, <1>15

\* Applying a command leaves the buffer alone.
LEMMA ApplyKeepsBuffer ==
    ASSUME BufferInv, TypeOK', NEW w \in Workers,
           \/ Create(w) \/ Lookup(w) \/ Delete(w)
           \/ LookupName(w) \/ LookupNewName(w) \/ RemoveName(w) \/ CreateNewName(w)
    PROVE  BufferInv'
<1> DEFINE Applied == {"idle", "looking", "removing", "creating", "applying"}
<1>1. /\ TypeOK /\ w \in Threads
      /\ UNCHANGED <<slots, prodpos, conspos, loadInput, execute, command>>
  BY DEF BufferInv, Threads, buffer, Create, Lookup, Delete, LookupName, LookupNewName,
         RemoveName, CreateNewName
<1>2. PICK to \in Applied : pc[w] \in Applied /\ Goto(w, to)
  BY DEF Create, Lookup, Delete, LookupName, LookupNewName, RemoveName, CreateNewName, Applying
<1>3. \A place \in {"storing", "posting", "parsing"} : Someone(place)' = Someone(place)
  BY <1>1, <1>2, SomeoneMoves
<1>4. Filled' = Filled
  BY <1>1, <1>3 DEF Filled
<1>5. SlotsCounted' /\ \A k \in SlotIds : Pending(k)' <=> Pending(k)
  BY <1>1, <1>3, <1>4, CountsUnchanged
<1>6. /\ \A u \in Threads : pc'[u] = IF u = w THEN to ELSE pc[u]
      /\ Producer \in Threads /\ Producer \notin Workers /\ Workers \subseteq Threads
  BY <1>1, <1>2, OneMoves
<1>7. \A u \in Threads : pc'[u] = pc[u] \/ (pc'[u] \in Applied /\ u \in Workers)
  BY <1>2, <1>6
<1>8. OneEnd'
  BY <1>1, <1>5, <1>6, <1>7 DEF BufferInv, OneEnd
<1>9. ThreadsInTurn'
  BY <1>1, <1>6, <1>7 DEF BufferInv, ThreadsInTurn, Inserting
<1> QED
  BY <1>5, <1>8, <1>9 DEF BufferInv

\* The end is passed on by a worker: only it ends the run of BufferInv.
LEMMA BufferStep ==
    ASSUME BufferInv, TypeOK', [Next]_vars, \A w \in Workers : pc'[w] # "done"
    PROVE  BufferInv'
<1>1. CASE ProducerStep
  <2>1. Producer \in Threads
    BY DEF Threads
  <2> QED
    BY <1>1, <2>1, ReadLineKeepsBuffer, WaitForSlotKeepsBuffer, StoreKeepsBuffer,
       PostKeepsBuffer DEF ProducerStep, Insert
<1>2. ASSUME NEW w \in Workers, WorkerStep(w) PROVE BufferInv'
  <2>1. w \in Threads
    BY DEF Threads
  <2>2. ~Alert(w)
    <3>1. Alert(w) => pc'[w] = "done"
      BY <2>1, OneMoves DEF Alert, BufferInv
    <3> QED
      BY <3>1
  <2> QED
    BY <1>2, <2>1, <2>2, WaitForSlotKeepsBuffer, StoreKeepsBuffer, PostKeepsBuffer,
       TakeKeepsBuffer, ParseKeepsBuffer, ApplyKeepsBuffer DEF WorkerStep, Insert
<1>3. CASE UNCHANGED vars
  <2>1. UNCHANGED <<pc, command, slots, prodpos, conspos, loadInput, execute>>
    BY <1>3 DEF vars
  <2> QED
    BY <2>1 DEF BufferInv, SlotsCounted, OneEnd, ThreadsInTurn, Inserting, Filled, Offset,
                Pending, Someone, TakenSlot
<1> QED
  BY <1>1, <1>2, <1>3 DEF Next, Ended

LEMMA InitBuffer == Init => BufferInv
<1> SUFFICES ASSUME Init PROVE BufferInv
  OBVIOUS
<1>1. TypeOK
  BY InitTypeOK
<1>2. \A t \in Threads : pc[t] = IF t = Producer THEN "reading" ELSE "idle"
  BY DEF Init
<1>3. Producer \in Threads /\ Producer \notin Workers /\ Workers \subseteq Threads
  BY ThreadsAssumption DEF Threads
<1>4. Someone("storing") = 0 /\ Someone("posting") = 0 /\ Someone("parsing") = 0
  BY <1>2 DEF Someone
<1>5. /\ Filled = 0 /\ prodpos = 0 /\ conspos = 0 /\ loadInput = MaxCommands
  BY <1>4 DEF Init, Filled
<1>6. SlotsCounted
  BY <1>4, <1>5, MaxCommandsAssumption DEF SlotsCounted, Offset
<1>7. \A k \in SlotIds : ~Pending(k)
  <2>1. \A k \in SlotIds : Offset(k) \in Nat
    BY <1>1, OffsetType
  <2> QED
    BY <1>4, <1>5, <2>1 DEF Pending
<1>8. ThreadsInTurn
  BY <1>2, <1>3 DEF ThreadsInTurn, Inserting
<1> QED
  BY <1>1, <1>6, <1>7, <1>8 DEF BufferInv, OneEnd

-----------------------------------------------------------------------------
\* At most one thread is still running.
AtMostOneRuns == \A t, u \in Threads : pc[t] # "done" /\ pc[u] # "done" => t = u

\* A thread that is done stays so.
LEMMA DoneStays ==
    ASSUME TypeOK, [Next]_vars, NEW t \in Threads, pc[t] = "done"
    PROVE  pc'[t] = "done"
<1>1. \A u \in Threads : \A to : Goto(u, to) /\ pc[u] # "done" => pc'[t] = "done"
  BY OneMoves
<1>2. CASE ReadLine
  <2>1. Producer \in Threads
    BY DEF Threads
  <2> QED
    BY <1>1, <1>2, <2>1 DEF ReadLine, ReadCommand
<1>3. ASSUME NEW u \in Threads, Insert(u) PROVE pc'[t] = "done"
  BY <1>1, <1>3 DEF Insert, WaitForSlot, Store, Post
<1>4. ASSUME NEW w \in Workers,
             \/ Take(w) \/ Parse(w) \/ Alert(w) \/ Create(w) \/ Lookup(w) \/ Delete(w)
             \/ LookupName(w) \/ LookupNewName(w) \/ RemoveName(w) \/ CreateNewName(w)
      PROVE  pc'[t] = "done"
  <2>1. PICK to : Goto(w, to) /\ pc[w] # "done"
    BY <1>4 DEF Take, Parse, Alert, Create, Lookup, Delete, LookupName, LookupNewName,
                RemoveName, CreateNewName, Applying
  <2>2. w \in Threads
    BY DEF Threads
  <2> QED
    BY <1>1, <2>1, <2>2
<1>5. CASE UNCHANGED vars
  BY <1>5 DEF vars
<1> QED
  BY <1>2, <1>3, <1>4, <1>5 DEF Next, ProducerStep, WorkerStep, Ended, Threads

LEMMA DrainStep ==
    TypeOK /\ (NobodyDone => BufferInv) /\ [Next]_vars => (NobodyDone => BufferInv)'
<1> SUFFICES ASSUME TypeOK, NobodyDone => BufferInv, [Next]_vars, NobodyDone'
             PROVE  BufferInv'
  OBVIOUS
<1>1. NobodyDone
  BY DoneStays DEF NobodyDone, Threads
<1>2. \A w \in Workers : pc'[w] # "done"
  BY DEF NobodyDone
<1> QED
  BY <1>1, <1>2, StepTypeOK, BufferStep

\* However many workers there are, until one of them passes the end on and returns, no
\* command is written over one that is being read: the semaphores are enough.
THEOREM NoOverwriteUntilTheEnd == Spec => [](NobodyDone => NoOverwrite)
<1>1. Init => TypeOK /\ (NobodyDone => BufferInv)
  BY InitTypeOK, InitBuffer
<1>2. TypeOK /\ (NobodyDone => BufferInv) /\ [Next]_vars
          => (TypeOK /\ (NobodyDone => BufferInv))'
  BY StepTypeOK, DrainStep
<1>3. (NobodyDone => BufferInv) => (NobodyDone => NoOverwrite)
  BY BufferKeepsApart
<1> QED
  BY <1>1, <1>2, <1>3, PTL DEF Spec

\* With two workers, the one that is left when the other returns is alone.
LEMMA AloneStep ==
    ASSUME \A v, w, x \in Workers : v = w \/ w = x \/ v = x
    PROVE  /\ TypeOK /\ (NobodyDone => BufferInv) /\ (~NobodyDone => AtMostOneRuns)
           /\ [Next]_vars
           => (~NobodyDone => AtMostOneRuns)'
<1> SUFFICES ASSUME TypeOK, NobodyDone => BufferInv, ~NobodyDone => AtMostOneRuns,
                    [Next]_vars, ~NobodyDone'
             PROVE  AtMostOneRuns'
  OBVIOUS
<1>1. \A t \in Threads : pc'[t] # "done" => pc[t] # "done"
  BY DoneStays
<1>2. CASE ~NobodyDone
  BY <1>1, <1>2 DEF AtMostOneRuns
<1>3. CASE NobodyDone
  <2>1. PICK w \in Workers : pc'[w] = "done" /\ pc[w] # "done"
    BY <1>3 DEF NobodyDone
  <2>2. w \in Threads /\ Producer # w
    BY ThreadsAssumption DEF Threads
  <2>3. pc[w] = "alerting"
    <3>1. ASSUME NEW u \in Threads, NEW to, Goto(u, to), to # "done" PROVE FALSE
      BY <2>1, <2>2, <3>1, OneMoves
    <3>2. ASSUME NEW u \in Threads, NEW to, Goto(u, to), u # w PROVE FALSE
      BY <2>1, <2>2, <3>2, OneMoves
    <3>3. ~(\E u \in Threads : Insert(u))
      <4> SUFFICES ASSUME NEW u \in Threads, Insert(u) PROVE FALSE
        OBVIOUS
      <4>1. CASE WaitForSlot(u) \/ Store(u)
        BY <3>1, <4>1 DEF WaitForSlot, Store
      <4>2. CASE Post(u)
        <5>1. CASE u = w
          BY <2>2, <3>1, <4>2, <5>1 DEF Post, AfterInsert
        <5>2. CASE u # w
          BY <3>2, <4>2, <5>2 DEF Post
        <5> QED
          BY <5>1, <5>2
      <4> QED
        BY <4>1, <4>2 DEF Insert
    <3>4. ~ReadLine
      <4>1. Producer \in Threads
        BY DEF Threads
      <4> QED
        BY <2>1, <3>1, <4>1 DEF ReadLine, ReadCommand
    <3>5. ASSUME NEW v \in Workers,
                 \/ Take(v) \/ Parse(v) \/ Create(v) \/ Lookup(v) \/ Delete(v)
                 \/ LookupName(v) \/ LookupNewName(v) \/ RemoveName(v) \/ CreateNewName(v)
          PROVE  FALSE
      <4>1. v \in Threads
        BY DEF Threads
      <4>2. PICK to : Goto(v, to) /\ to # "done"
        BY <3>5 DEF Take, Parse, AfterParse, Create, Lookup, Delete, LookupName,
                    LookupNewName, RemoveName, CreateNewName
      <4> QED
        BY <3>1, <4>1, <4>2
    <3>6. ~UNCHANGED vars
      BY <2>1 DEF vars
    <3>7. PICK v \in Workers : Alert(v)
      BY <3>3, <3>4, <3>5, <3>6 DEF Next, ProducerStep, WorkerStep, Ended, Threads
    <3>8. v = w
      BY <3>2, <3>7 DEF Alert, Threads
    <3> QED
      BY <3>7, <3>8 DEF Alert
  <2>4. pc[Producer] = "done"
    BY <1>3, <2>3 DEF BufferInv, ThreadsInTurn
  <2>5. pc'[Producer] = "done"
    BY <2>4, DoneStays DEF Threads
  <2>6. \A t \in Threads : pc'[t] # "done" => t \in Workers /\ t # w
    BY <2>1, <2>5 DEF Threads
  <2> QED
    BY <2>6 DEF AtMostOneRuns
<1> QED
  BY <1>2, <1>3

\* With at most two workers no command is ever written over one that is being read.  With
\* three it may be: the post that alerts the others counts a command nobody inserted.
THEOREM NeverOverwrites ==
    ASSUME \A v, w, x \in Workers : v = w \/ w = x \/ v = x
    PROVE  Spec => []NoOverwrite
<1> DEFINE Inv == /\ TypeOK
                  /\ NobodyDone => BufferInv
                  /\ ~NobodyDone => AtMostOneRuns
<1>1. Init => Inv
  <2>1. Init => NobodyDone
    BY ThreadsAssumption DEF Init, NobodyDone, Threads
  <2> QED
    BY <2>1, InitTypeOK, InitBuffer
<1>2. Inv /\ [Next]_vars => Inv'
  BY StepTypeOK, DrainStep, AloneStep
<1>3. Inv => NoOverwrite
  <2>1. AtMostOneRuns => NoOverwrite
    <3> SUFFICES ASSUME AtMostOneRuns, NEW t \in Threads, NEW w \in Workers,
                        pc[t] = "storing", pc[w] = "parsing"
                 PROVE  FALSE
      BY DEF NoOverwrite
    <3>1. t = w
      BY DEF AtMostOneRuns, Threads
    <3> QED
      BY <3>1
  <2> QED
    BY <2>1, BufferKeepsApart
<1> HIDE DEF Inv
<1> QED
  BY <1>1, <1>2, <1>3, PTL DEF Spec

-----------------------------------------------------------------------------
(* The stream of commands.  The buffer keeps them in their order, from the one   *)
(* that is parsed next to the one processInput carries.                          *)

\* A set of naturals has a least one.
LEMMA LeastNatural ==
    ASSUME NEW S \in SUBSET Nat, S # {}
    PROVE  \E m \in S : \A n \in S : m =< n
<1>1. PICK m \in S : \A n \in S : ~ (<<n, m>> \in OpToRel(<, Nat))
  BY WFMin, NatLessThanWellFounded
<1>2. \A n \in S : ~ (n < m)
  BY <1>1 DEF OpToRel
<1> QED
  BY <1>2

\* The commands among the first k lines, from those among the first k - 1.
ReadNext(k, before) ==
    IF k = 0 THEN <<>> ELSE IF IsCommand(Input[k]) THEN Append(before, Input[k]) ELSE before

\* The recursive definition of CommandsRead defines a function.
LEMMA CommandsReadDefined ==
    /\ CommandsRead \in [0 .. Len(Input) -> Seq(Line)]
    /\ \A k \in 0 .. Len(Input) : CommandsRead[k] = ReadNext(k, CommandsRead[k - 1])
<1> DEFINE N == Len(Input)
           Reads(n, g) == g \in [0 .. n -> Seq(Line)]
                          /\ \A k \in 0 .. n : g[k] = ReadNext(k, g[k - 1])
           Missing == {n \in 0 .. N : ~(\E g : Reads(n, g))}
<1>1. N \in Nat
  BY InputAssumption
<1>m. \A n : n \in Missing <=> n \in 0 .. N /\ ~(\E g : Reads(n, g))
  OBVIOUS
<1> HIDE DEF Missing, Reads
<1>2. ASSUME Missing # {} PROVE FALSE
  <2>1. PICK n \in Missing : \A m \in Missing : n =< m
    <3>1. Missing \in SUBSET Nat
      BY <1>1, <1>m
    <3> QED
      BY <1>2, <3>1, LeastNatural
  <2>2. n # 0
    <3> DEFINE none == [k \in 0 .. 0 |-> <<>>]
    <3>1. none \in [0 .. 0 -> Seq(Line)]
      OBVIOUS
    <3>2. \A k \in 0 .. 0 : none[k] = ReadNext(k, none[k - 1])
      BY DEF ReadNext
    <3> HIDE DEF none
    <3>3. Reads(0, none)
      BY <3>1, <3>2 DEF Reads
    <3> QED
      BY <1>m, <2>1, <3>3
  <2>3. n - 1 \in 0 .. N /\ n \in 1 .. N /\ ~(n =< n - 1)
    BY <1>1, <1>m, <2>1, <2>2
  <2>4. PICK g : Reads(n - 1, g)
    BY <1>m, <2>1, <2>3
  <2> DEFINE h == [k \in 0 .. n |-> IF k = n THEN ReadNext(n, g[n - 1]) ELSE g[k]]
  <2>5. Input[n] \in Line
    BY <2>3, InputAssumption
  <2>6. ReadNext(n, g[n - 1]) \in Seq(Line)
    BY <2>2, <2>3, <2>4, <2>5 DEF ReadNext, Reads
  <2>7. h \in [0 .. n -> Seq(Line)]
    BY <2>3, <2>4, <2>6 DEF Reads
  <2>8. \A k \in 0 .. n : h[k] = ReadNext(k, h[k - 1])
    <3> SUFFICES ASSUME NEW k \in 0 .. n PROVE h[k] = ReadNext(k, h[k - 1])
      OBVIOUS
    <3>1. CASE k = n
      BY <2>3, <3>1
    <3>2. CASE k # n
      <4>1. k \in 0 .. n - 1 /\ h[k] = g[k]
        BY <2>3, <3>2
      <4>2. g[k] = ReadNext(k, g[k - 1])
        BY <2>4, <4>1 DEF Reads
      <4>3. CASE k = 0
        BY <4>1, <4>2, <4>3 DEF ReadNext
      <4>4. CASE k # 0
        BY <2>3, <3>2, <4>1, <4>2, <4>4
      <4> QED
        BY <4>3, <4>4
    <3> QED
      BY <3>1, <3>2
  <2>9. Reads(n, h)
    BY <2>7, <2>8 DEF Reads
  <2> QED
    BY <1>m, <2>1, <2>9
<1>3. PICK g : Reads(N, g)
  BY <1>1, <1>2, <1>m
<1>4. g = [k \in 0 .. Len(Input) |->
              IF k = 0 THEN <<>>
              ELSE IF IsCommand(Input[k]) THEN Append(g[k - 1], Input[k])
              ELSE g[k - 1]]
  BY <1>3 DEF ReadNext, Reads
<1>5. CommandsRead = [k \in 0 .. Len(Input) |->
              IF k = 0 THEN <<>>
              ELSE IF IsCommand(Input[k]) THEN Append(CommandsRead[k - 1], Input[k])
              ELSE CommandsRead[k - 1]]
  BY <1>4 DEF CommandsRead
<1>6. \A k \in 0 .. N : CommandsRead[k] = ReadNext(k, CommandsRead[k - 1])
  BY <1>5 DEF ReadNext
<1>7. \A k \in 0 .. N : CommandsRead[k] \in Seq(Line)
  <2> DEFINE Odd == {k \in 0 .. N : CommandsRead[k] \notin Seq(Line)}
  <2>1. ASSUME Odd # {} PROVE FALSE
    <3>0. Odd \in SUBSET Nat
      BY <1>1
    <3>1. PICK k \in Odd : \A m \in Odd : k =< m
      BY <2>1, <3>0, LeastNatural
    <3>2. k = 0 => ReadNext(k, CommandsRead[k - 1]) \in Seq(Line)
      BY DEF ReadNext
    <3>3. k # 0 => k - 1 \in 0 .. N /\ k \in 1 .. N /\ k - 1 \notin Odd
      BY <1>1, <3>1
    <3>4. k # 0 => CommandsRead[k - 1] \in Seq(Line) /\ Input[k] \in Line
      BY <3>3, InputAssumption
    <3>5. ReadNext(k, CommandsRead[k - 1]) \in Seq(Line)
      BY <3>2, <3>4 DEF ReadNext
    <3> QED
      BY <1>6, <3>1, <3>5
  <2> QED
    BY <2>1
<1>8. CommandsRead \in [0 .. N -> Seq(Line)]
  BY <1>5, <1>7
<1> QED
  BY <1>6, <1>8

\* The first commands are those read first.
LEMMA ReadsGrow ==
    ASSUME NEW k \in 0 .. Len(Input)
    PROVE  /\ Len(CommandsRead[k]) =< Len(Commands)
           /\ \A i \in 1 .. Len(CommandsRead[k]) : CommandsRead[k][i] = Commands[i]
<1> DEFINE N == Len(Input)
           Kept(j) == /\ Len(CommandsRead[k]) =< Len(CommandsRead[j])
                      /\ \A i \in 1 .. Len(CommandsRead[k]) :
                            CommandsRead[k][i] = CommandsRead[j][i]
           Odd == {j \in k .. N : ~Kept(j)}
<1>1. N \in Nat /\ k \in Nat /\ k =< N
  BY InputAssumption
<1>m. \A j : j \in Odd <=> j \in k .. N /\ ~Kept(j)
  OBVIOUS
<1> HIDE DEF Odd
<1>2. ASSUME Odd # {} PROVE FALSE
  <2>0. Odd \in SUBSET Nat
    BY <1>1, <1>m
  <2>1. PICK j \in Odd : \A m \in Odd : j =< m
    BY <1>2, <2>0, LeastNatural
  <2>2. j # k
    <3> SUFFICES ASSUME j = k PROVE FALSE
      OBVIOUS
    <3>1. Kept(j)
      <4>1. Len(CommandsRead[k]) \in Nat
        BY CommandsReadDefined
      <4> QED
        BY <4>1
    <3> QED
      BY <1>m, <2>1, <3>1
  <2>3. j - 1 \in k .. N /\ j \in 1 .. N /\ j - 1 \in 0 .. N /\ ~(j =< j - 1)
    BY <1>1, <1>m, <2>1, <2>2
  <2>4. Kept(j - 1)
    BY <1>m, <2>1, <2>3
  <2>5. Input[j] \in Line /\ CommandsRead[j - 1] \in Seq(Line) /\ CommandsRead[k] \in Seq(Line)
    <3>1. Input[j] \in Line
      BY <2>3, InputAssumption
    <3>2. \A i \in 0 .. N : CommandsRead[i] \in Seq(Line)
      BY CommandsReadDefined
    <3> QED
      BY <2>3, <3>1, <3>2
  <2>6. \/ CommandsRead[j] = Append(CommandsRead[j - 1], Input[j])
        \/ CommandsRead[j] = CommandsRead[j - 1]
    BY <2>3, CommandsReadDefined DEF ReadNext
  <2>7. Kept(j)
    <3>1. CASE CommandsRead[j] = CommandsRead[j - 1]
      BY <2>4, <3>1
    <3>2. CASE CommandsRead[j] = Append(CommandsRead[j - 1], Input[j])
      <4>1. /\ Len(CommandsRead[j]) = Len(CommandsRead[j - 1]) + 1
            /\ \A i \in 1 .. Len(CommandsRead[j - 1]) :
                  CommandsRead[j][i] = CommandsRead[j - 1][i]
        BY <2>5, <3>2
      <4>2. Len(CommandsRead[j - 1]) \in Nat /\ Len(CommandsRead[k]) \in Nat
        BY <2>5
      <4> QED
        BY <2>4, <4>1, <4>2
    <3> QED
      BY <2>6, <3>1, <3>2
  <2> QED
    BY <1>m, <2>1, <2>7
<1>3. Kept(N)
  BY <1>1, <1>2, <1>m
<1> QED
  BY <1>3 DEF Commands

\* Only commands are read, never the end.
LEMMA CommandsAreCommands ==
    /\ Commands \in Seq(Line)
    /\ \A i \in 1 .. Len(Commands) : Commands[i] \in Line /\ IsCommand(Commands[i])
<1> DEFINE N == Len(Input)
           Good(k) == \A i \in 1 .. Len(CommandsRead[k]) : IsCommand(CommandsRead[k][i])
           Odd == {k \in 0 .. N : ~Good(k)}
<1>1. N \in Nat
  BY InputAssumption
<1>m. \A k : k \in Odd <=> k \in 0 .. N /\ ~Good(k)
  OBVIOUS
<1> HIDE DEF Odd
<1>2. ASSUME Odd # {} PROVE FALSE
  <2>0. Odd \in SUBSET Nat
    BY <1>1, <1>m
  <2>1. PICK k \in Odd : \A m \in Odd : k =< m
    BY <1>2, <2>0, LeastNatural
  <2>2. CASE k = 0
    <3>1. CommandsRead[k] = <<>>
      BY <1>1, <2>2, CommandsReadDefined DEF ReadNext
    <3> QED
      BY <1>m, <2>1, <3>1
  <2>3. CASE k # 0
    <3>1. k - 1 \in 0 .. N /\ k \in 0 .. N /\ ~(k =< k - 1)
      BY <1>1, <1>m, <2>1, <2>3
    <3>2. Good(k - 1) /\ CommandsRead[k - 1] \in Seq(Line)
      BY <1>m, <2>1, <3>1, CommandsReadDefined
    <3>3. \/ CommandsRead[k] = Append(CommandsRead[k - 1], Input[k]) /\ IsCommand(Input[k])
          \/ CommandsRead[k] = CommandsRead[k - 1]
      BY <2>3, <3>1, CommandsReadDefined DEF ReadNext
    <3>4. Good(k)
      <4> SUFFICES ASSUME NEW i \in 1 .. Len(CommandsRead[k]) PROVE IsCommand(CommandsRead[k][i])
        OBVIOUS
      <4>1. CASE CommandsRead[k] = CommandsRead[k - 1]
        BY <3>2, <4>1
      <4>2. CASE CommandsRead[k] = Append(CommandsRead[k - 1], Input[k]) /\ IsCommand(Input[k])
        <5>1. CASE i = Len(CommandsRead[k - 1]) + 1
          <6>1. CommandsRead[k][i] = Input[k]
            BY <3>2, <4>2, <5>1
          <6> QED
            BY <4>2, <6>1
        <5>2. CASE i # Len(CommandsRead[k - 1]) + 1
          <6>1. i \in 1 .. Len(CommandsRead[k - 1]) /\ CommandsRead[k][i] = CommandsRead[k - 1][i]
            BY <3>2, <4>2, <5>2
          <6> QED
            BY <3>2, <6>1
        <5> QED
          BY <5>1, <5>2
      <4> QED
        BY <3>3, <4>1, <4>2
    <3> QED
      BY <1>m, <2>1, <3>4
  <2> QED
    BY <2>2, <2>3
<1>3. Good(N)
  BY <1>1, <1>2, <1>m
<1>4. Commands \in Seq(Line)
  BY <1>1, CommandsReadDefined DEF Commands
<1> QED
  BY <1>3, <1>4 DEF Commands

\* What a worker finds in the stream after its first n commands.
LEMMA StreamFacts ==
    /\ Len(Commands) \in Nat /\ CommandsRead[0] = <<>>
    /\ \A i \in 1 .. Len(Commands) :
          /\ InStream(i) = Commands[i] /\ InStream(i) # EndCommand /\ InStream(i) # Garbage
          /\ Commands[i].token \in {"c", "l", "r", "d"}
    /\ \A i \in Nat : i > Len(Commands) => InStream(i) = EndCommand
    /\ \A i \in Nat : i > 0 => (InStream(i) = EndCommand <=> i > Len(Commands))
<1>1. Len(Commands) \in Nat
  BY CommandsAreCommands
<1>2. CommandsRead[0] = <<>>
  BY InputAssumption, CommandsReadDefined DEF ReadNext
<1>3. \A i \in 1 .. Len(Commands) : Commands[i].token \in {"c", "l", "r", "d"}
  BY CommandsAreCommands DEF IsCommand
<1>4. EndCommand.token = "x" /\ Garbage.token = "?"
  BY DEF EndCommand, Garbage
<1>5. \A i \in 1 .. Len(Commands) : InStream(i) = Commands[i]
  BY <1>1 DEF InStream
<1>6. \A i \in Nat : i > Len(Commands) => InStream(i) = EndCommand
  BY <1>1 DEF InStream
<1>7. \A i \in 1 .. Len(Commands) : Commands[i] # EndCommand /\ Commands[i] # Garbage
  BY <1>3, <1>4
<1>8. \A i \in Nat : i > 0 /\ i =< Len(Commands) => i \in 1 .. Len(Commands)
  BY <1>1
<1>9. \A i \in Nat : i > 0 => (InStream(i) = EndCommand <=> i > Len(Commands))
  BY <1>1, <1>5, <1>6, <1>7, <1>8
<1> QED
  BY <1>1, <1>2, <1>3, <1>5, <1>6, <1>7, <1>9

\* A sequence of commands begins Commands, or is Commands.
LEMMA PrefixFacts ==
    ASSUME NEW s \in Seq(Command)
    PROVE  /\ IsPrefix(s, Commands) <=> /\ Len(s) =< Len(Commands)
                                        /\ \A i \in 1 .. Len(s) : s[i] = Commands[i]
           /\ s = Commands <=> IsPrefix(s, Commands) /\ Len(s) = Len(Commands)
<1>1. Commands \in Seq(Line) /\ Commands \in Seq(Command)
  BY CommandsAreCommands DEF Command
<1>2. Len(s) \in Nat /\ Len(Commands) \in Nat
  BY <1>1
<1>3. ASSUME Len(s) =< Len(Commands)
      PROVE  SubSeq(s, 1, Len(s)) = SubSeq(Commands, 1, Len(s))
                 <=> \A i \in 1 .. Len(s) : s[i] = Commands[i]
  <2>1. /\ Len(SubSeq(s, 1, Len(s))) = Len(s) /\ Len(SubSeq(Commands, 1, Len(s))) = Len(s)
        /\ \A i \in 1 .. Len(s) : /\ SubSeq(s, 1, Len(s))[i] = s[i]
                                  /\ SubSeq(Commands, 1, Len(s))[i] = Commands[i]
    BY <1>1, <1>2, <1>3
  <2>2. SubSeq(s, 1, Len(s)) \in Seq(Command) /\ SubSeq(Commands, 1, Len(s)) \in Seq(Command)
    BY <1>1, <1>2, <1>3
  <2>3. ASSUME \A i \in 1 .. Len(s) : s[i] = Commands[i]
        PROVE  SubSeq(s, 1, Len(s)) = SubSeq(Commands, 1, Len(s))
    BY <2>1, <2>2, <2>3, SeqEqual
  <2>4. ASSUME SubSeq(s, 1, Len(s)) = SubSeq(Commands, 1, Len(s)), NEW i \in 1 .. Len(s)
        PROVE  s[i] = Commands[i]
    BY <2>1, <2>4
  <2> QED
    BY <2>3, <2>4
<1>4. IsPrefix(s, Commands) <=> /\ Len(s) =< Len(Commands)
                                /\ \A i \in 1 .. Len(s) : s[i] = Commands[i]
  BY <1>3 DEF IsPrefix
<1>5. ASSUME IsPrefix(s, Commands), Len(s) = Len(Commands) PROVE s = Commands
  BY <1>1, <1>4, <1>5, SeqEqual
<1>6. s = Commands => \A i \in 1 .. Len(s) : s[i] = Commands[i]
  OBVIOUS
<1> QED
  BY <1>2, <1>4, <1>5, <1>6

LEMMA BufferedType ==
    ASSUME TypeOK
    PROVE  /\ Buffered \in Nat /\ Len(parsed) \in Nat
           /\ \A k \in SlotIds : Ahead(k) \in Nat
<1>1. Buffered \in Nat
  BY NumbersType, SomeoneType DEF Buffered
<1>2. Len(parsed) \in Nat
  BY DEF TypeOK
<1>3. \A k \in SlotIds : Offset(k) \in Nat
  BY OffsetType, NumbersType
<1> QED
  BY <1>1, <1>2, <1>3 DEF Ahead

\* A step that leaves the slots that wait for a worker alone.
LEMMA StreamUnchanged ==
    ASSUME TypeOK, UNCHANGED <<slots, conspos, parsed>>,
           Filled' = Filled, Someone("parsing")' = Someone("parsing")
    PROVE  /\ Buffered' = Buffered
           /\ SlotsInStream => SlotsInStream'
<1>1. TakenSlot' = TakenSlot
  BY DEF TakenSlot
<1>2. \A k \in SlotIds : Offset(k)' = Offset(k)
  BY DEF Offset
<1>3. \A k \in SlotIds : Pending(k)' <=> Pending(k)
  BY <1>1, <1>2 DEF Pending
<1>4. \A k \in SlotIds : Ahead(k)' = Ahead(k)
  BY <1>1, <1>2 DEF Ahead
<1>5. \A i : InStream(i)' = InStream(i)
  BY DEF InStream, Commands
<1>6. SlotsInStream => SlotsInStream'
  BY <1>3, <1>4 DEF SlotsInStream
<1> QED
  BY <1>6 DEF Buffered

\* processInput reads a line: the next command of the stream, or its end.
LEMMA ReadLineKeepsStream ==
    ASSUME BufferInv, TypeOK', StreamInv, ReadLine
    PROVE  StreamInv'
<1>1. /\ TypeOK /\ pc[Producer] = "reading" /\ next' = next + 1
      /\ Producer \in Threads /\ Producer \notin Workers /\ Workers \subseteq Threads
      /\ UNCHANGED <<slots, prodpos, conspos, loadInput, execute, parsed>>
  BY ThreadsAssumption DEF BufferInv, ReadLine, Threads, buffer
<1>2. pc' = pc \/ pc' = [pc EXCEPT ![Producer] = "inserting"]
  BY DEF ReadLine, ReadCommand, Goto
<1>3. /\ \A w \in Workers : pc'[w] = pc[w] /\ command'[w] = command[w]
      /\ pc'[Producer] \in {"reading", "inserting"}
  BY <1>1, <1>2 DEF ReadLine, ReadCommand, TypeOK
<1>4. \A place \in {"storing", "posting", "parsing"} : Someone(place)' = Someone(place)
  BY <1>1, <1>3 DEF Someone, Threads
<1>5. Filled' = Filled
  BY <1>1, <1>4 DEF Filled
<1>6. Buffered' = Buffered /\ SlotsInStream'
  BY <1>1, <1>4, <1>5, StreamUnchanged DEF StreamInv
<1>7. \A w \in Workers : ~Inserting(w) /\ pc[w] # "alerting"
  BY <1>1 DEF BufferInv, ThreadsInTurn
<1>8. EndPassedOn'
  BY <1>3, <1>7 DEF EndPassedOn, Inserting
<1>9. next - 1 =< Len(Input) /\ Len(CommandsRead[next - 1]) = Len(parsed) + Buffered
  BY <1>1 DEF StreamInv, ReadAhead
<1>10. next \in Nat /\ next > 0 /\ Len(Input) \in Nat
  BY InputAssumption DEF BufferInv, TypeOK
<1>11. next' - 1 = next /\ Buffered \in Nat /\ Len(parsed) \in Nat
  BY <1>1, <1>10, BufferedType
<1>12. CASE next > Len(Input)
  <2>1. next - 1 = Len(Input)
    BY <1>9, <1>10, <1>12
  <2>2. command' = [command EXCEPT ![Producer] = EndCommand] /\ Goto(Producer, "inserting")
    BY <1>12 DEF ReadLine, ReadCommand
  <2>3. pc'[Producer] = "inserting" /\ command'[Producer] = EndCommand
    BY <1>1, <2>2 DEF Goto, TypeOK
  <2>4. InStream(Len(parsed) + Buffered + 1) = EndCommand
    <3>1. Len(Commands) = Len(parsed) + Buffered
      BY <1>9, <2>1 DEF Commands
    <3> QED
      BY <1>11, <3>1, StreamFacts
  <2>5. CarriedInStream'
    BY <1>1, <1>3, <1>6, <1>7, <2>3, <2>4 DEF CarriedInStream, Threads, Inserting
  <2>6. ReadAhead'
    BY <2>3 DEF ReadAhead
  <2> QED
    BY <1>1, <1>6, <1>8, <2>5, <2>6 DEF StreamInv
<1>13. CASE next =< Len(Input) /\ IsCommand(Input[next])
  <2>1. command' = [command EXCEPT ![Producer] = Input[next]] /\ Goto(Producer, "inserting")
    BY <1>10, <1>13 DEF ReadLine, ReadCommand
  <2>2. pc'[Producer] = "inserting" /\ command'[Producer] = Input[next]
    BY <1>1, <2>1 DEF Goto, TypeOK
  <2>3. /\ next \in 0 .. Len(Input) /\ next # 0 /\ next - 1 \in 0 .. Len(Input)
    BY <1>10, <1>13
  <2>4. /\ CommandsRead[next] = Append(CommandsRead[next - 1], Input[next])
        /\ CommandsRead[next - 1] \in Seq(Line)
    BY <1>13, <2>3, CommandsReadDefined DEF ReadNext
  <2>5. /\ Len(CommandsRead[next]) = Len(parsed) + Buffered + 1
        /\ CommandsRead[next][Len(parsed) + Buffered + 1] = Input[next]
    BY <1>9, <2>4
  <2>6. Len(parsed) + Buffered + 1 \in 1 .. Len(CommandsRead[next])
    BY <1>11, <2>5
  <2>7. InStream(Len(parsed) + Buffered + 1) = Input[next]
    <3>1. /\ Len(CommandsRead[next]) =< Len(Commands)
          /\ CommandsRead[next][Len(parsed) + Buffered + 1] = Commands[Len(parsed) + Buffered + 1]
      BY <2>3, <2>6, ReadsGrow
    <3>2. Len(parsed) + Buffered + 1 =< Len(Commands)
      BY <2>5, <3>1
    <3> QED
      BY <2>5, <3>1, <3>2 DEF InStream
  <2>8. CarriedInStream'
    BY <1>1, <1>3, <1>6, <1>7, <2>2, <2>7 DEF CarriedInStream, Threads, Inserting
  <2>9. ReadAhead'
    BY <1>1, <1>6, <1>11, <1>13, <2>2, <2>5 DEF ReadAhead
  <2> QED
    BY <1>1, <1>6, <1>8, <2>8, <2>9 DEF StreamInv
<1>14. CASE next =< Len(Input) /\ ~IsCommand(Input[next])
  <2>1. UNCHANGED <<pc, command>>
    BY <1>10, <1>14 DEF ReadLine
  <2>2. /\ next \in 0 .. Len(Input) /\ next # 0
    BY <1>10, <1>14
  <2>3. CommandsRead[next] = CommandsRead[next - 1]
    BY <1>14, <2>2, CommandsReadDefined DEF ReadNext
  <2>4. CarriedInStream'
    BY <1>1, <1>6, <2>1 DEF CarriedInStream, StreamInv
  <2>5. ReadAhead'
    BY <1>1, <1>6, <1>9, <1>11, <1>14, <2>1, <2>3 DEF ReadAhead
  <2> QED
    BY <1>1, <1>6, <1>8, <2>4, <2>5 DEF StreamInv
<1> QED
  BY <1>10, <1>12, <1>13, <1>14

\* A free slot is claimed.
LEMMA WaitForSlotKeepsStream ==
    ASSUME BufferInv, StreamInv, NEW t \in Threads, WaitForSlot(t)
    PROVE  StreamInv'
<1>1. /\ TypeOK /\ pc[t] = "inserting" /\ Goto(t, "storing")
      /\ UNCHANGED <<slots, prodpos, conspos, execute, command, next, parsed>>
  BY DEF BufferInv, WaitForSlot, outcome
<1>2. Someone("posting")' = Someone("posting") /\ Someone("parsing")' = Someone("parsing")
  BY <1>1, SomeoneMoves
<1>3. Filled' = Filled
  BY <1>1, <1>2 DEF Filled
<1>4. Buffered' = Buffered /\ SlotsInStream'
  BY <1>1, <1>2, <1>3, StreamUnchanged DEF StreamInv
<1>5. /\ \A u \in Threads : pc'[u] = IF u = t THEN "storing" ELSE pc[u]
      /\ Producer \in Threads /\ Workers \subseteq Threads
  BY <1>1, OneMoves
<1>6. CarriedInStream'
  BY <1>1, <1>4, <1>5 DEF CarriedInStream, StreamInv
<1>7. ReadAhead'
  BY <1>1, <1>4, <1>5 DEF ReadAhead, StreamInv
<1>8. EndPassedOn'
  BY <1>1, <1>5 DEF EndPassedOn, StreamInv, Inserting
<1> QED
  BY <1>1, <1>4, <1>6, <1>7, <1>8 DEF StreamInv

\* What is carried comes after all that is buffered.
LEMMA StoreKeepsStream ==
    ASSUME BufferInv, BufferInv', StreamInv, NEW t \in Threads, Store(t)
    PROVE  StreamInv'
<1>1. /\ TypeOK /\ pc[t] = "storing" /\ Goto(t, "posting")
      /\ UNCHANGED <<conspos, execute, loadInput, command, next, parsed>>
      /\ slots' = [slots EXCEPT ![prodpos] = command[t]]
      /\ slots \in [SlotIds -> Command \cup {Blank}] /\ prodpos \in SlotIds
  BY DEF BufferInv, Store, TypeOK, outcome
<1>2. \A u \in Threads : Inserting(u) => u = t
  BY <1>1 DEF BufferInv, ThreadsInTurn, Inserting
<1>3. Someone("storing") = 1 /\ Someone("posting") = 0
  BY <1>1, <1>2 DEF Someone, Inserting
<1>4. Someone("posting")' = 1 /\ Someone("parsing")' = Someone("parsing")
  BY <1>1, SomeoneMoves
<1>5. Filled' = Filled + 1 /\ Buffered' = Buffered + 1
  BY <1>1, <1>3, <1>4, NumbersType, SomeoneType DEF Filled, Buffered
<1>6. Filled < MaxCommands /\ Offset(prodpos) = Filled
  BY <1>1, <1>3, NumbersType, SomeoneType DEF BufferInv, SlotsCounted
<1>7. /\ \A k \in SlotIds : Offset(k)' = Offset(k)
      /\ TakenSlot' = TakenSlot
  BY <1>1 DEF Offset, TakenSlot
<1>8. \A k \in SlotIds : Ahead(k)' = Ahead(k)
  BY <1>4, <1>7 DEF Ahead
<1>9. Someone("parsing") = 1 => prodpos # TakenSlot
  <2>1. SUFFICES ASSUME Someone("parsing") = 1 PROVE prodpos # TakenSlot
    OBVIOUS
  <2>2. PICK u \in Threads : pc[u] = "parsing"
    BY <2>1 DEF Someone
  <2>3. u \in Workers
    BY <2>2 DEF BufferInv, ThreadsInTurn, Threads
  <2> QED
    BY <1>1, <2>2, <2>3, BufferKeepsApart DEF NoOverwrite
<1>10. Ahead(prodpos) = Buffered
  BY <1>1, <1>6, <1>9, SomeoneType, NumbersType DEF Ahead, Buffered
<1>11. \A k \in SlotIds : Pending(k)' => Pending(k) \/ k = prodpos
  <2>1. \A k \in SlotIds : Offset(k) = Filled => k = prodpos
    BY <1>1, <1>6, NumbersType, OffsetType
  <2>2. Filled \in Int /\ \A k \in SlotIds : Offset(k) \in Int
    BY <1>1, NumbersType, OffsetType
  <2>3. \A k \in SlotIds : Offset(k)' < Filled' => Offset(k) < Filled \/ k = prodpos
    BY <1>5, <1>7, <2>1, <2>2
  <2> QED
    BY <1>4, <1>7, <2>3 DEF Pending
<1>12. command[t] = InStream(Len(parsed) + Buffered + 1)
  BY <1>1 DEF StreamInv, CarriedInStream
<1>13. \A i : InStream(i)' = InStream(i)
  BY DEF InStream, Commands
<1>14. SlotsInStream'
  <2> SUFFICES ASSUME NEW k \in SlotIds, Pending(k)'
               PROVE  slots'[k] = InStream(Len(parsed) + Ahead(k) + 1)
    BY <1>1, <1>8, <1>13 DEF SlotsInStream
  <2>1. CASE k = prodpos
    BY <1>1, <1>10, <1>12, <2>1
  <2>2. CASE k # prodpos
    <3>1. Pending(k) /\ slots'[k] = slots[k]
      BY <1>1, <1>11, <2>2
    <3> QED
      BY <3>1 DEF StreamInv, SlotsInStream
  <2> QED
    BY <2>1, <2>2
<1>15. /\ \A u \in Threads : pc'[u] = IF u = t THEN "posting" ELSE pc[u]
       /\ Producer \in Threads /\ Producer \notin Workers /\ Workers \subseteq Threads
       /\ t # Producer => t \in Workers
  BY <1>1, OneMoves
<1>16. CarriedInStream'
  BY <1>2, <1>15 DEF CarriedInStream, Inserting
<1>17. EndPassedOn'
  BY <1>1, <1>15 DEF EndPassedOn, StreamInv, Inserting
<1>18. Buffered \in Nat /\ Len(parsed) \in Nat
  BY <1>1, BufferedType
<1>19. command[t] = EndCommand => Len(parsed) + Buffered' > Len(Commands)
  <2>1. Len(parsed) + Buffered + 1 \in Nat /\ Len(parsed) + Buffered + 1 > 0
    BY <1>18
  <2>2. command[t] = EndCommand => Len(parsed) + Buffered + 1 > Len(Commands)
    BY <1>12, <2>1, StreamFacts
  <2> QED
    BY <1>5, <1>18, <2>2
<1>20. ReadAhead'
  <2>1. CASE t = Producer
    <3>1. pc'[Producer] = "posting"
      BY <1>15, <2>1
    <3>2. CASE command[Producer] = EndCommand
      BY <1>1, <1>19, <2>1, <3>1, <3>2 DEF ReadAhead
    <3>3. CASE command[Producer] # EndCommand
      <4>1. next - 1 =< Len(Input) /\ Len(CommandsRead[next - 1]) = Len(parsed) + Buffered + 1
        BY <1>1, <2>1, <3>3 DEF StreamInv, ReadAhead
      <4>2. Len(parsed) + Buffered + 1 = Len(parsed) + Buffered'
        BY <1>5, <1>18
      <4> QED
        BY <1>1, <3>1, <3>3, <4>1, <4>2 DEF ReadAhead
    <3> QED
      BY <3>2, <3>3
  <2>2. CASE t # Producer
    <3>1. pc[Producer] = "done" /\ command[t] = EndCommand /\ pc'[Producer] = "done"
      BY <1>1, <1>15, <2>2 DEF BufferInv, ThreadsInTurn, Inserting
    <3> QED
      BY <1>1, <1>19, <3>1 DEF ReadAhead
  <2> QED
    BY <2>1, <2>2
<1> QED
  BY <1>1, <1>14, <1>16, <1>17, <1>20 DEF StreamInv

LEMMA PostKeepsStream ==
    ASSUME BufferInv, StreamInv, NEW t \in Threads, Post(t)
    PROVE  StreamInv'
<1>1. /\ TypeOK /\ pc[t] = "posting" /\ Goto(t, AfterInsert(t))
      /\ UNCHANGED <<slots, prodpos, conspos, loadInput, command, next, parsed>>
      /\ execute' = execute + 1
  BY DEF BufferInv, Post, outcome
<1>2. \A u \in Threads : Inserting(u) => u = t
  BY <1>1 DEF BufferInv, ThreadsInTurn, Inserting
<1>3. AfterInsert(t) \in {"alerting", "done", "reading"}
  BY DEF AfterInsert
<1>4. /\ Someone("posting") = 1 /\ Someone("posting")' = 0
      /\ Someone("parsing")' = Someone("parsing")
  <2>1. \A u \in Threads : pc[u] = "posting" => u = t
    BY <1>2 DEF Inserting
  <2> QED
    BY <1>1, <1>3, <2>1, SomeoneMoves
<1>5. Filled' = Filled
  BY <1>1, <1>4, NumbersType DEF Filled
<1>6. Buffered' = Buffered /\ SlotsInStream'
  BY <1>1, <1>4, <1>5, StreamUnchanged DEF StreamInv
<1>7. /\ \A u \in Threads : pc'[u] = IF u = t THEN AfterInsert(t) ELSE pc[u]
      /\ Producer \in Threads /\ Producer \notin Workers /\ Workers \subseteq Threads
      /\ t # Producer => t \in Workers
  BY <1>1, OneMoves
<1>8. CarriedInStream'
  BY <1>2, <1>3, <1>7 DEF CarriedInStream, Inserting
<1>9. EndPassedOn'
  BY <1>1, <1>7 DEF EndPassedOn, StreamInv, Inserting
<1>10. ReadAhead'
  <2>1. CASE t = Producer
    <3>1. pc'[Producer] = IF command[Producer] = EndCommand THEN "done" ELSE "reading"
      BY <1>7, <2>1 DEF AfterInsert
    <3>2. \A w \in Workers : pc'[w] = pc[w]
      BY <1>7, <2>1
    <3> QED
      BY <1>1, <1>6, <2>1, <3>1, <3>2 DEF StreamInv, ReadAhead
  <2>2. CASE t # Producer
    <3>1. pc'[Producer] = pc[Producer]
      BY <1>7, <2>2
    <3>2. \A w \in Workers : pc[w] \in {"inserting", "storing"} => pc'[w] \in {"inserting", "storing"}
      BY <1>1, <1>7
    <3> QED
      BY <1>1, <1>6, <3>1, <3>2 DEF StreamInv, ReadAhead
  <2> QED
    BY <2>1, <2>2
<1> QED
  BY <1>1, <1>6, <1>8, <1>9, <1>10 DEF StreamInv

\* What was first in the buffer is what the worker will parse.
LEMMA TakeKeepsStream ==
    ASSUME BufferInv, BufferInv', StreamInv, NEW w \in Workers, Take(w)
    PROVE  StreamInv'
<1>1. /\ TypeOK /\ w \in Threads /\ pc[w] = "idle" /\ Goto(w, "parsing")
      /\ UNCHANGED <<slots, prodpos, loadInput, command, next, parsed>>
      /\ execute > 0 /\ execute' = execute - 1
      /\ conspos' = (conspos + 1) % MaxCommands
      /\ \A v \in Workers : pc[v] # "parsing"
  BY DEF BufferInv, Take, Threads, CommandsLockFree, outcome
<1>2. \A u \in Threads : pc[u] # "parsing"
  BY <1>1 DEF Threads, BufferInv, ThreadsInTurn
<1>3. /\ Someone("parsing") = 0 /\ Someone("parsing")' = 1
      /\ Someone("posting")' = Someone("posting")
  <2>1. Someone("parsing") = 0
    BY <1>2 DEF Someone
  <2> QED
    BY <1>1, <2>1, SomeoneMoves
<1>4. /\ conspos \in Nat /\ MaxCommands \in Nat /\ Filled \in Nat /\ conspos < MaxCommands
      /\ conspos \in SlotIds /\ execute \in Nat
  BY <1>1, NumbersType
<1>5. Filled' = Filled - 1 /\ Filled > 0 /\ Filled =< MaxCommands
  <2>1. Filled' = Filled - 1 /\ Filled > 0
    BY <1>1, <1>3, NumbersType, SomeoneType DEF Filled
  <2>2. Filled =< MaxCommands
    BY <1>1, NumbersType, SomeoneType DEF BufferInv, SlotsCounted
  <2> QED
    BY <2>1, <2>2
<1>6. Buffered' = Buffered
  BY <1>3, <1>4, <1>5 DEF Buffered
<1>7. conspos' = IF conspos + 1 = MaxCommands THEN 0 ELSE conspos + 1
  BY <1>1, NumbersType, SlotAfter
<1>8. \A k \in SlotIds : Offset(k)' = IF k = conspos THEN MaxCommands - 1 ELSE Offset(k) - 1
  <2> SUFFICES ASSUME NEW k \in SlotIds
               PROVE  Offset(k)' = IF k = conspos THEN MaxCommands - 1 ELSE Offset(k) - 1
    OBVIOUS
  <2>1. Offset(k)' = IF k >= conspos' THEN k - conspos' ELSE k + MaxCommands - conspos'
    BY DEF Offset
  <2>2. k \in Nat /\ k < MaxCommands
    BY <1>4 DEF SlotIds
  <2> QED
    BY <1>4, <1>7, <2>1, <2>2 DEF Offset
<1>9. TakenSlot' = conspos
  <2>1. conspos' \in SlotIds
    BY DEF BufferInv, TypeOK
  <2>2. TakenSlot' = (conspos' + MaxCommands - 1) % MaxCommands
    BY DEF TakenSlot
  <2>3. CASE conspos' = 0
    BY <1>4, <1>7, <2>2, <2>3, MaxCommandsAssumption
  <2>4. CASE conspos' # 0
    BY <1>4, <1>7, <2>1, <2>2, <2>4, MaxCommandsAssumption DEF SlotIds
  <2> QED
    BY <2>3, <2>4
<1>10. \A k \in SlotIds : Offset(k) \in Int
  BY <1>1, OffsetType
<1>11. Offset(conspos) = 0
  BY <1>4 DEF Offset
<1>12. \A k \in SlotIds : Pending(k)' => Pending(k) /\ Ahead(k)' = Ahead(k)
  <2> SUFFICES ASSUME NEW k \in SlotIds, Pending(k)' PROVE Pending(k) /\ Ahead(k)' = Ahead(k)
    OBVIOUS
  <2>1. CASE k = conspos
    <3>1. Offset(k) < Filled
      BY <1>4, <1>5, <1>11, <2>1
    <3>2. Ahead(k) = 0 /\ Ahead(k)' = 0
      BY <1>3, <1>9, <1>11, <2>1 DEF Ahead
    <3> QED
      BY <3>1, <3>2 DEF Pending
  <2>2. CASE k # conspos
    <3>1. Offset(k)' < Filled'
      BY <1>9, <2>2 DEF Pending
    <3>2. Offset(k)' = Offset(k) - 1
      BY <1>8, <2>2
    <3>3. Offset(k) < Filled
      BY <1>4, <1>5, <1>10, <3>1, <3>2
    <3>4. Ahead(k) = Offset(k) /\ Ahead(k)' = Offset(k)' + 1
      BY <1>3, <1>9, <2>2 DEF Ahead
    <3>5. Ahead(k)' = Ahead(k)
      BY <1>10, <3>2, <3>4
    <3> QED
      BY <3>3, <3>5 DEF Pending
  <2> QED
    BY <2>1, <2>2
<1>13. \A i : InStream(i)' = InStream(i)
  BY DEF InStream, Commands
<1>14. SlotsInStream'
  BY <1>1, <1>12, <1>13 DEF StreamInv, SlotsInStream
<1>15. /\ \A u \in Threads : pc'[u] = IF u = w THEN "parsing" ELSE pc[u]
       /\ Producer \in Threads /\ Producer \notin Workers /\ Workers \subseteq Threads
  BY <1>1, OneMoves
<1>16. CarriedInStream'
  BY <1>1, <1>6, <1>13, <1>15 DEF StreamInv, CarriedInStream
<1>17. EndPassedOn'
  BY <1>1, <1>15 DEF StreamInv, EndPassedOn, Inserting
<1>18. ReadAhead'
  <2>1. pc'[Producer] = pc[Producer]
    BY <1>15
  <2>2. \A v \in Workers : pc[v] \in {"inserting", "storing"} => pc'[v] \in {"inserting", "storing"}
    BY <1>1, <1>15
  <2> QED
    BY <1>1, <1>6, <2>1, <2>2 DEF StreamInv, ReadAhead
<1> QED
  BY <1>1, <1>14, <1>16, <1>17, <1>18 DEF StreamInv

\* A worker parses the next command of the stream, or the end after the last.
LEMMA ParsesTheNext ==
    ASSUME BufferInv, StreamInv, NEW w \in Workers, Parse(w)
    PROVE  LET c == slots[TakenSlot] IN
           /\ command' = [command EXCEPT ![w] = c] /\ Goto(w, AfterParse(c))
           /\ nextINumber' = IF c.token = "c" THEN nextINumber + 1 ELSE nextINumber
           /\ inumber' = IF c.token = "c" THEN [inumber EXCEPT ![w] = nextINumber'] ELSE inumber
           /\ c = InStream(Len(parsed) + 1)
           /\ c = EndCommand => parsed = Commands /\ parsed' = parsed
           /\ c # EndCommand => /\ Len(parsed) + 1 \in 1 .. Len(Commands)
                                /\ c = Commands[Len(parsed) + 1]
                                /\ parsed' = Append(parsed, c)
<1>1. /\ TypeOK /\ w \in Threads /\ pc[w] = "parsing" /\ TakenSlot \in SlotIds
  BY TakenSlotInBuffer DEF BufferInv, Parse, Threads, TypeOK
<1>2. Someone("parsing") = 1 /\ Pending(TakenSlot)
  BY <1>1 DEF Someone, Pending
<1>3. slots[TakenSlot] # Blank
  BY <1>1, <1>2 DEF BufferInv, OneEnd
<1> DEFINE c == slots[TakenSlot]
<1>4. /\ command' = [command EXCEPT ![w] = c] /\ Goto(w, AfterParse(c))
      /\ nextINumber' = IF c.token = "c" THEN nextINumber + 1 ELSE nextINumber
      /\ inumber' = IF c.token = "c" THEN [inumber EXCEPT ![w] = nextINumber'] ELSE inumber
      /\ parsed' = IF c = EndCommand THEN parsed ELSE Append(parsed, c)
  BY <1>3 DEF Parse, Scanned
<1>5. Ahead(TakenSlot) = 0
  BY <1>2 DEF Ahead
<1>6. Len(parsed) \in Nat /\ parsed \in Seq(Command)
  BY <1>1 DEF TypeOK
<1>7. c = InStream(Len(parsed) + 1)
  <2>1. c = InStream(Len(parsed) + 0 + 1)
    BY <1>1, <1>2, <1>5 DEF StreamInv, SlotsInStream
  <2>2. Len(parsed) + 0 + 1 = Len(parsed) + 1
    BY <1>6
  <2> QED
    BY <2>1, <2>2
<1> HIDE DEF c
<1>8. IsPrefix(parsed, Commands) /\ Len(parsed) =< Len(Commands)
  BY <1>6, PrefixFacts DEF StreamInv
<1>9. Len(Commands) \in Nat /\ (c = EndCommand <=> Len(parsed) + 1 > Len(Commands))
  <2>1. Len(parsed) + 1 \in Nat /\ Len(parsed) + 1 > 0
    BY <1>6
  <2> QED
    BY <1>7, <2>1, StreamFacts
<1>10. c = EndCommand => parsed = Commands
  <2>1. c = EndCommand => Len(parsed) = Len(Commands)
    BY <1>6, <1>8, <1>9
  <2> QED
    BY <1>6, <1>8, <2>1, PrefixFacts
<1>11. c # EndCommand => Len(parsed) + 1 \in 1 .. Len(Commands)
  BY <1>6, <1>9
<1>12. c # EndCommand => c = Commands[Len(parsed) + 1]
  BY <1>7, <1>11, StreamFacts
<1> QED
  BY <1>4, <1>7, <1>10, <1>11, <1>12 DEF c

LEMMA ParseKeepsStream ==
    ASSUME BufferInv, BufferInv', StreamInv, NEW w \in Workers, Parse(w)
    PROVE  StreamInv'
<1> DEFINE c == slots[TakenSlot]
<1>1. /\ TypeOK /\ w \in Threads /\ pc[w] = "parsing" /\ TakenSlot \in SlotIds
      /\ UNCHANGED <<next, slots, prodpos, conspos, execute>>
  BY TakenSlotInBuffer DEF BufferInv, Parse, Threads, TypeOK
<1>2. /\ command' = [command EXCEPT ![w] = c] /\ Goto(w, AfterParse(c))
      /\ c = InStream(Len(parsed) + 1)
      /\ c = EndCommand => parsed = Commands /\ parsed' = parsed
      /\ c # EndCommand => /\ Len(parsed) + 1 \in 1 .. Len(Commands)
                           /\ c = Commands[Len(parsed) + 1]
                           /\ parsed' = Append(parsed, c)
  BY ParsesTheNext
<1>3. AfterParse(c) = IF c = EndCommand THEN "inserting" ELSE "applying"
  BY DEF AfterParse
<1> HIDE DEF c
<1>4. \A u \in Threads : pc[u] = "parsing" => u = w
  BY <1>1 DEF BufferInv, ThreadsInTurn, Threads
<1>5. Someone("parsing") = 1 /\ Someone("parsing")' = 0 /\ Someone("posting")' = Someone("posting")
  BY <1>1, <1>2, <1>3, <1>4, SomeoneMoves
<1>6. Filled' = Filled /\ Filled \in Nat
  BY <1>1, <1>5, NumbersType DEF Filled
<1>7. Buffered' = Buffered - 1 /\ Buffered \in Nat
  BY <1>5, <1>6 DEF Buffered
<1>8. \A k \in SlotIds : Offset(k)' = Offset(k) /\ Offset(k) \in Nat
  BY <1>1, OffsetType, NumbersType DEF Offset
<1>9. \A k \in SlotIds : Pending(k)' => Offset(k) < Filled /\ Pending(k)
  BY <1>5, <1>6, <1>8 DEF Pending
<1>10. Offset(TakenSlot) >= Filled
  <2>1. /\ prodpos \in Nat /\ conspos \in Nat /\ MaxCommands \in Nat /\ MaxCommands > 0
        /\ conspos < MaxCommands /\ conspos \in SlotIds /\ loadInput \in Nat
    BY <1>1, NumbersType
  <2>2. Filled + 1 =< MaxCommands
    BY <1>5, <1>6, <2>1, SomeoneType DEF BufferInv, SlotsCounted
  <2>3. Offset(TakenSlot) = MaxCommands - 1
    BY <2>1, SlotBefore DEF Offset
  <2> QED
    BY <1>6, <2>1, <2>2, <2>3
<1>11. /\ Len(parsed) \in Nat /\ parsed \in Seq(Command) /\ parsed' \in Seq(Command)
  BY <1>1 DEF TypeOK, BufferInv
<1>12. \A k \in SlotIds : Pending(k)' => /\ Pending(k) /\ Ahead(k) = Offset(k) + 1
                                         /\ Ahead(k)' = Offset(k)
  <2> SUFFICES ASSUME NEW k \in SlotIds, Pending(k)'
               PROVE  Pending(k) /\ Ahead(k) = Offset(k) + 1 /\ Ahead(k)' = Offset(k)
    OBVIOUS
  <2>1. k # TakenSlot
    BY <1>6, <1>8, <1>9, <1>10
  <2> QED
    BY <1>5, <1>8, <1>9, <2>1 DEF Ahead
<1>13. \A i : InStream(i)' = InStream(i)
  BY DEF InStream, Commands
<1>14. /\ \A u \in Threads : pc'[u] = IF u = w THEN AfterParse(c) ELSE pc[u]
       /\ \A u \in Threads : command'[u] = IF u = w THEN c ELSE command[u]
       /\ Producer \in Threads /\ Producer \notin Workers /\ Workers \subseteq Threads
  BY <1>1, <1>2, OneMoves DEF TypeOK
<1>15. Len(Commands) \in Nat
  BY StreamFacts
<1>16. CASE c = EndCommand
  <2>1. parsed = Commands /\ parsed' = parsed
    BY <1>2, <1>16
  <2>2. \A i \in Nat : i > 0 => InStream(Len(parsed) + i) = EndCommand
    <3>1. \A i \in Nat : i > 0 => Len(parsed) + i \in Nat /\ Len(parsed) + i > Len(Commands)
      BY <1>15, <2>1
    <3> QED
      BY <3>1, StreamFacts
  <2>3. ASSUME NEW n \in Nat PROVE InStream(Len(parsed) + n + 1) = EndCommand
    <3>1. n + 1 \in Nat /\ n + 1 > 0 /\ Len(parsed) + (n + 1) = Len(parsed) + n + 1
      BY <1>11
    <3> QED
      BY <2>2, <3>1
  <2>4. SlotsInStream'
    <3> SUFFICES ASSUME NEW k \in SlotIds, Pending(k)'
                 PROVE  slots[k] = InStream(Len(parsed) + Ahead(k)' + 1)
      BY <1>1, <1>13, <2>1 DEF SlotsInStream
    <3>1. Ahead(k) \in Nat /\ Ahead(k)' \in Nat
      BY <1>8, <1>12
    <3>2. slots[k] = InStream(Len(parsed) + Ahead(k) + 1)
      BY <1>12 DEF StreamInv, SlotsInStream
    <3> QED
      BY <2>3, <3>1, <3>2
  <2>5. Buffered' \in Nat
    BY <1>5, <1>6, <1>7 DEF Buffered
  <2>6. CarriedInStream'
    <3> SUFFICES ASSUME NEW u \in Threads, pc'[u] \in {"inserting", "storing"}
                 PROVE  command'[u] = EndCommand
      BY <1>13, <2>1, <2>3, <2>5 DEF CarriedInStream
    <3>1. CASE u = w
      BY <1>14, <1>16, <3>1
    <3>2. CASE u # w
      BY <1>7, <1>14, <2>3, <3>2 DEF StreamInv, CarriedInStream
    <3> QED
      BY <3>1, <3>2
  <2>7. EndPassedOn'
    BY <1>13, <2>1 DEF EndPassedOn, Commands
  <2>8. pc'[w] = "inserting"
    BY <1>3, <1>14, <1>16
  <2>9. pc'[Producer] = "done"
    BY <1>14, <2>8 DEF BufferInv, ThreadsInTurn, Inserting
  <2>10. ReadAhead'
    BY <2>8, <2>9 DEF ReadAhead
  <2> QED
    BY <1>13, <2>1, <2>4, <2>6, <2>7, <2>10 DEF StreamInv, Commands
<1>17. CASE c # EndCommand
  <2>1. /\ parsed' = Append(parsed, c) /\ c = Commands[Len(parsed) + 1]
        /\ Len(parsed) + 1 =< Len(Commands) /\ pc'[w] = "applying"
    BY <1>2, <1>3, <1>14, <1>17
  <2>2. /\ Len(parsed') = Len(parsed) + 1
        /\ \A i \in 1 .. Len(parsed) : parsed'[i] = parsed[i]
        /\ parsed'[Len(parsed) + 1] = c
    <3>1. c \in Command
      BY <1>1, <1>14, <1>11 DEF BufferInv, TypeOK
    <3> QED
      BY <1>11, <2>1, <3>1
  <2>3. IsPrefix(parsed', Commands)
    <3>1. \A i \in 1 .. Len(parsed) : parsed[i] = Commands[i]
      BY <1>11, PrefixFacts DEF StreamInv
    <3>2. \A i \in 1 .. Len(parsed') : i \in 1 .. Len(parsed) \/ i = Len(parsed) + 1
      BY <1>11, <2>2
    <3>3. \A i \in 1 .. Len(parsed') : parsed'[i] = Commands[i]
      BY <2>1, <2>2, <3>1, <3>2
    <3> QED
      BY <1>11, <2>1, <2>2, <3>3, PrefixFacts
  <2>4. Len(parsed') + Buffered' = Len(parsed) + Buffered
    BY <1>7, <1>11, <2>2
  <2>5. SlotsInStream'
    <3> SUFFICES ASSUME NEW k \in SlotIds, Pending(k)'
                 PROVE  slots[k] = InStream(Len(parsed') + Ahead(k)' + 1)
      BY <1>1, <1>13 DEF SlotsInStream
    <3>1. Len(parsed') + Ahead(k)' + 1 = Len(parsed) + Ahead(k) + 1
      BY <1>8, <1>11, <1>12, <2>2
    <3>2. slots[k] = InStream(Len(parsed) + Ahead(k) + 1)
      BY <1>12 DEF StreamInv, SlotsInStream
    <3> QED
      BY <3>1, <3>2
  <2>6. CarriedInStream'
    BY <1>13, <1>14, <2>1, <2>4 DEF StreamInv, CarriedInStream
  <2>7. EndPassedOn'
    <3> SUFFICES ASSUME NEW v \in Workers, Inserting(v)' \/ pc'[v] = "alerting" PROVE FALSE
      BY DEF EndPassedOn
    <3>1. pc'[v] = pc[v]
      BY <1>14, <2>1 DEF Inserting
    <3>2. parsed = Commands
      BY <3>1 DEF StreamInv, EndPassedOn, Inserting
    <3> QED
      BY <1>11, <2>1, <3>2
  <2>8. /\ pc'[Producer] = pc[Producer] /\ command'[Producer] = command[Producer]
        /\ \A v \in Workers : pc[v] \in {"inserting", "storing"} => pc'[v] \in {"inserting", "storing"}
    BY <1>1, <1>14
  <2>9. ReadAhead'
    BY <1>1, <2>4, <2>8 DEF StreamInv, ReadAhead, Commands
  <2> QED
    BY <2>3, <2>5, <2>6, <2>7, <2>9 DEF StreamInv, Commands
<1> QED
  BY <1>16, <1>17

LEMMA ApplyKeepsStream ==
    ASSUME BufferInv, StreamInv, NEW w \in Workers,
           \/ Create(w) \/ Lookup(w) \/ Delete(w)
           \/ LookupName(w) \/ LookupNewName(w) \/ RemoveName(w) \/ CreateNewName(w)
    PROVE  StreamInv'
<1> DEFINE Applied == {"idle", "looking", "removing", "creating", "applying"}
<1>1. /\ TypeOK /\ w \in Threads
      /\ UNCHANGED <<slots, prodpos, conspos, loadInput, execute, command, next, parsed>>
  BY DEF BufferInv, Threads, buffer, outcome, Create, Lookup, Delete, LookupName, LookupNewName,
         RemoveName, CreateNewName
<1>2. PICK to \in Applied : pc[w] \in Applied /\ Goto(w, to)
  BY DEF Create, Lookup, Delete, LookupName, LookupNewName, RemoveName, CreateNewName, Applying
<1>3. \A place \in {"posting", "parsing"} : Someone(place)' = Someone(place)
  BY <1>1, <1>2, SomeoneMoves
<1>4. Filled' = Filled
  BY <1>1, <1>3 DEF Filled
<1>5. Buffered' = Buffered /\ SlotsInStream'
  BY <1>1, <1>3, <1>4, StreamUnchanged DEF StreamInv
<1>6. /\ \A u \in Threads : pc'[u] = IF u = w THEN to ELSE pc[u]
      /\ Producer \in Threads /\ Producer \notin Workers /\ Workers \subseteq Threads
  BY <1>1, <1>2, OneMoves
<1>7. CarriedInStream'
  BY <1>1, <1>2, <1>5, <1>6 DEF StreamInv, CarriedInStream
<1>8. EndPassedOn'
  BY <1>1, <1>2, <1>6 DEF StreamInv, EndPassedOn, Inserting
<1>9. pc'[Producer] = pc[Producer]
  BY <1>6
<1>10. \A v \in Workers : pc[v] \in {"inserting", "storing"} => pc'[v] \in {"inserting", "storing"}
  BY <1>2, <1>6
<1>11. ReadAhead'
  BY <1>1, <1>5, <1>9, <1>10 DEF StreamInv, ReadAhead
<1> QED
  BY <1>1, <1>5, <1>7, <1>8, <1>11 DEF StreamInv

LEMMA StreamStep ==
    ASSUME BufferInv, TypeOK', StreamInv, [Next]_vars, \A w \in Workers : pc'[w] # "done"
    PROVE  StreamInv'
<1>0. BufferInv'
  BY BufferStep
<1>1. CASE ProducerStep
  <2>1. Producer \in Threads
    BY DEF Threads
  <2> QED
    BY <1>0, <1>1, <2>1, ReadLineKeepsStream, WaitForSlotKeepsStream, StoreKeepsStream,
       PostKeepsStream DEF ProducerStep, Insert
<1>2. ASSUME NEW w \in Workers, WorkerStep(w) PROVE StreamInv'
  <2>1. w \in Threads
    BY DEF Threads
  <2>2. ~Alert(w)
    <3>1. Alert(w) => pc'[w] = "done"
      BY <2>1, OneMoves DEF Alert, BufferInv
    <3> QED
      BY <3>1
  <2> QED
    BY <1>0, <1>2, <2>1, <2>2, WaitForSlotKeepsStream, StoreKeepsStream, PostKeepsStream,
       TakeKeepsStream, ParseKeepsStream, ApplyKeepsStream DEF WorkerStep, Insert
<1>3. CASE UNCHANGED vars
  <2>1. UNCHANGED <<pc, command, slots, prodpos, conspos, loadInput, execute, next, parsed>>
    BY <1>3 DEF vars
  <2> QED
    BY <2>1 DEF StreamInv, SlotsInStream, CarriedInStream, ReadAhead, EndPassedOn, Inserting,
                Filled, Offset, Pending, Someone, TakenSlot, Ahead, Buffered, InStream, Commands
<1> QED
  BY <1>1, <1>2, <1>3 DEF Next, Ended

LEMMA InitStream == Init => StreamInv
<1> SUFFICES ASSUME Init PROVE StreamInv
  OBVIOUS
<1>1. TypeOK /\ BufferInv
  BY InitTypeOK, InitBuffer
<1>2. \A t \in Threads : pc[t] = IF t = Producer THEN "reading" ELSE "idle"
  BY DEF Init
<1>3. Producer \in Threads /\ Producer \notin Workers /\ Workers \subseteq Threads
  BY ThreadsAssumption DEF Threads
<1>4. Someone("posting") = 0 /\ Someone("parsing") = 0
  BY <1>2 DEF Someone
<1>5. Filled = 0 /\ Buffered = 0
  BY <1>4 DEF Init, Filled, Buffered
<1>6. \A k \in SlotIds : ~Pending(k)
  <2>1. \A k \in SlotIds : Offset(k) \in Nat
    BY <1>1, OffsetType, NumbersType
  <2> QED
    BY <1>4, <1>5, <2>1 DEF Pending
<1>7. parsed = <<>> /\ Len(parsed) = 0 /\ parsed \in Seq(Command)
  BY DEF Init
<1>8. IsPrefix(parsed, Commands)
  <2>1. Len(Commands) \in Nat
    BY StreamFacts
  <2>2. Len(parsed) =< Len(Commands) /\ \A i \in 1 .. Len(parsed) : parsed[i] = Commands[i]
    BY <1>7, <2>1
  <2> QED
    BY <1>7, <2>2, PrefixFacts
<1>9. ReadAhead
  <2>1. next - 1 = 0 /\ Len(Input) \in Nat
    BY InputAssumption DEF Init
  <2>2. Len(CommandsRead[next - 1]) = Len(parsed) + Buffered
    BY <1>5, <1>7, <2>1, StreamFacts
  <2> QED
    BY <1>2, <1>3, <2>1, <2>2 DEF ReadAhead
<1> QED
  BY <1>2, <1>3, <1>6, <1>8, <1>9
     DEF StreamInv, SlotsInStream, CarriedInStream, EndPassedOn, Inserting

-----------------------------------------------------------------------------
(* When a worker returns, all commands have been parsed, and what the other   *)
(* one finds in the buffer is the end.                                        *)

LEMMA LastWorkerStarts ==
    ASSUME \A u, v, x \in Workers : u = v \/ v = x \/ u = x,
           BufferInv, StreamInv, NEW w \in Workers, Alert(w)
    PROVE  parsed = Commands /\ OnlyTheEndIsLeft'
<1>1. /\ TypeOK /\ w \in Threads /\ pc[w] = "alerting" /\ Goto(w, "done")
      /\ UNCHANGED <<slots, prodpos, conspos, command, parsed>>
  BY DEF BufferInv, Alert, Threads, outcome
<1>2. parsed = Commands /\ pc[Producer] = "done"
  BY <1>1 DEF StreamInv, EndPassedOn, BufferInv, ThreadsInTurn
<1>3. /\ \A u \in Threads : pc'[u] = IF u = w THEN "done" ELSE pc[u]
      /\ Producer \in Threads /\ Producer \notin Workers /\ Workers \subseteq Threads
  BY <1>1, OneMoves
<1>4. Len(parsed) \in Nat /\ Len(parsed) = Len(Commands) /\ Filled \in Nat
  BY <1>1, <1>2, BufferedType, NumbersType
<1>5. \A k \in SlotIds : Pending(k) => slots[k] = EndCommand
  <2> SUFFICES ASSUME NEW k \in SlotIds, Pending(k) PROVE slots[k] = EndCommand
    OBVIOUS
  <2>1. Ahead(k) \in Nat
    BY <1>1, BufferedType
  <2>2. Len(parsed) + Ahead(k) + 1 \in Nat /\ Len(parsed) + Ahead(k) + 1 > Len(Commands)
    BY <1>4, <2>1
  <2> QED
    BY <2>2, StreamFacts DEF StreamInv, SlotsInStream
<1>6. ASSUME NEW v \in Workers, pc[v] = "parsing" PROVE slots[TakenSlot] = EndCommand
  <2>1. Someone("parsing") = 1
    BY <1>3, <1>6 DEF Someone
  <2>2. TakenSlot \in SlotIds
    BY <1>1, NumbersType, TakenSlotInBuffer
  <2> QED
    BY <1>5, <2>1, <2>2 DEF Pending
<1>7. ASSUME NEW v \in Workers,
             pc[v] \in {"idle", "applying", "looking", "removing", "creating"}
      PROVE  slots[conspos] = EndCommand
  <2>1. \A u \in Workers : u = v \/ u = w
    BY <1>1, <1>7
  <2>2. \A u \in Threads : pc[u] \notin {"parsing", "inserting", "storing"}
    BY <1>1, <1>2, <1>7, <2>1 DEF Threads
  <2>3. Someone("parsing") = 0
    BY <2>2 DEF Someone
  <2>4. Len(parsed) + Buffered > Len(Commands)
    BY <1>2, <1>3, <2>2 DEF StreamInv, ReadAhead
  <2>5. Filled > 0
    BY <1>4, <2>3, <2>4 DEF Buffered
  <2>6. conspos \in SlotIds /\ Offset(conspos) = 0
    BY <1>1, NumbersType DEF Offset
  <2> QED
    BY <1>5, <2>5, <2>6 DEF Pending
<1>8. TakenSlot' = TakenSlot
  BY <1>1 DEF TakenSlot
<1>9. pc'[Producer] = "done"
  BY <1>2, <1>3
<1>10. \A v \in Workers : pc'[v] # "done" => pc'[v] = pc[v]
  BY <1>3
<1>11. parsed' = Commands'
  BY <1>1, <1>2 DEF Commands
<1> QED
  BY <1>1, <1>2, <1>6, <1>7, <1>8, <1>9, <1>10, <1>11 DEF OnlyTheEndIsLeft

\* The last worker takes the end, passes it on and returns.
LEMMA LastWorkerEnds ==
    ASSUME TypeOK, AtMostOneRuns, OnlyTheEndIsLeft, [Next]_vars
    PROVE  OnlyTheEndIsLeft' /\ parsed' = parsed
<1>1. /\ pc[Producer] = "done" /\ parsed = Commands
      /\ Producer \in Threads /\ Workers \subseteq Threads
  BY DEF OnlyTheEndIsLeft, Threads
<1>2. Commands' = Commands
  BY DEF Commands
<1>3. CASE UNCHANGED vars
  BY <1>2, <1>3 DEF OnlyTheEndIsLeft, vars, TakenSlot
<1>4. ~ProducerStep
  BY <1>1 DEF ProducerStep, ReadLine, Insert, WaitForSlot, Store, Post
<1>5. ASSUME NEW w \in Workers, WorkerStep(w) PROVE OnlyTheEndIsLeft' /\ parsed' = parsed
  <2>0. w \in Threads /\ pc[w] # "done"
    BY <1>1, <1>5 DEF WorkerStep, Take, Parse, Insert, WaitForSlot, Store, Post, Alert, Create,
                      Lookup, Delete, LookupName, LookupNewName, RemoveName, CreateNewName, Applying
  <2>1. \A u \in Threads : u # w => pc[u] = "done"
    BY <2>0 DEF AtMostOneRuns
  <2>2. w # Producer
    BY ThreadsAssumption
  <2> DEFINE Applied == {"idle", "applying", "looking", "removing", "creating"}
  <2>3. ASSUME NEW to, Goto(w, to), parsed' = parsed,
               to = "parsing" => slots'[TakenSlot'] = EndCommand,
               to \in Applied => slots'[conspos'] = EndCommand
        PROVE  OnlyTheEndIsLeft' /\ parsed' = parsed
    <3>1. \A u \in Threads : pc'[u] = IF u = w THEN to ELSE "done"
      BY <2>0, <2>1, <2>3, OneMoves
    <3>2. pc'[Producer] = "done"
      BY <1>1, <2>2, <3>1
    <3>3. \A v \in Workers : v = w \/ pc'[v] = "done"
      BY <1>1, <3>1
    <3>4. pc'[w] = to
      BY <2>0, <3>1
    <3> QED
      BY <1>1, <1>2, <2>3, <3>2, <3>3, <3>4 DEF OnlyTheEndIsLeft
  <2>4. CASE Take(w)
    <3>1. /\ Goto(w, "parsing") /\ parsed' = parsed /\ slots' = slots
          /\ conspos' = (conspos + 1) % MaxCommands /\ slots[conspos] = EndCommand
      BY <2>4 DEF Take, outcome, OnlyTheEndIsLeft
    <3>2. TakenSlot' = conspos
      <4>1. conspos \in SlotIds /\ conspos' \in SlotIds
        BY <3>1, AdvanceInBuffer DEF TypeOK
      <4>2. TakenSlot' = (conspos' + MaxCommands - 1) % MaxCommands
        BY DEF TakenSlot
      <4>3. conspos' = IF conspos + 1 = MaxCommands THEN 0 ELSE conspos + 1
        BY <3>1, <4>1, SlotAfter
      <4>4. conspos \in Nat /\ MaxCommands \in Nat /\ conspos < MaxCommands
        BY NumbersType
      <4>5. CASE conspos' = 0
        BY <4>2, <4>3, <4>4, <4>5, MaxCommandsAssumption
      <4>6. CASE conspos' # 0
        BY <4>1, <4>2, <4>3, <4>4, <4>6, MaxCommandsAssumption DEF SlotIds
      <4> QED
        BY <4>5, <4>6
    <3> QED
      BY <2>3, <3>1, <3>2
  <2>5. CASE Parse(w)
    <3>1. slots[TakenSlot] = EndCommand
      BY <2>5 DEF Parse, OnlyTheEndIsLeft
    <3>2. EndCommand # Blank
      BY DEF EndCommand, Blank
    <3>3. Goto(w, "inserting") /\ parsed' = parsed
      BY <2>5, <3>1, <3>2 DEF Parse, Scanned, AfterParse
    <3> QED
      BY <2>3, <3>3
  <2>6. CASE Insert(w)
    <3>1. PICK to \in {"storing", "posting", "alerting"} : Goto(w, to)
      BY <2>2, <2>6 DEF Insert, WaitForSlot, Store, Post, AfterInsert
    <3>2. parsed' = parsed
      BY <2>6 DEF Insert, WaitForSlot, Store, Post, outcome
    <3> QED
      BY <2>3, <3>1, <3>2
  <2>7. CASE Alert(w)
    BY <2>3, <2>7 DEF Alert, outcome
  <2>8. CASE \/ Create(w) \/ Lookup(w) \/ Delete(w)
             \/ LookupName(w) \/ LookupNewName(w) \/ RemoveName(w) \/ CreateNewName(w)
    <3>1. PICK to \in Applied : pc[w] \in Applied /\ Goto(w, to)
      BY <2>8 DEF Create, Lookup, Delete, LookupName, LookupNewName, RemoveName, CreateNewName,
                  Applying
    <3>2. parsed' = parsed /\ slots' = slots /\ conspos' = conspos
      BY <2>8 DEF Create, Lookup, Delete, LookupName, LookupNewName, RemoveName, CreateNewName,
                  buffer, outcome
    <3>3. slots[conspos] = EndCommand
      BY <3>1 DEF OnlyTheEndIsLeft
    <3> QED
      BY <2>3, <3>1, <3>2, <3>3
  <2> QED
    BY <1>5, <2>4, <2>5, <2>6, <2>7, <2>8 DEF WorkerStep
<1> QED
  BY <1>3, <1>4, <1>5 DEF Next, Ended, vars

-----------------------------------------------------------------------------
\* With at most two workers: commands come through the buffer in their order until one
\* returns, and the end is all that is left for the other.
CommandsComeInOrder ==
    /\ TypeOK
    /\ NobodyDone => BufferInv /\ StreamInv
    /\ ~NobodyDone => AtMostOneRuns /\ OnlyTheEndIsLeft

LEMMA InitInOrder == Init => CommandsComeInOrder
<1>1. Init => NobodyDone
  BY ThreadsAssumption DEF Init, NobodyDone, Threads
<1> QED
  BY <1>1, InitTypeOK, InitBuffer, InitStream DEF CommandsComeInOrder

\* A step that ends a worker is its Alert.
LEMMA OnlyAlertEnds ==
    ASSUME TypeOK, [Next]_vars, NEW w \in Workers, pc[w] # "done", pc'[w] = "done"
    PROVE  Alert(w)
<1>1. w \in Threads /\ w # Producer
  BY ThreadsAssumption DEF Threads
<1>2. ASSUME NEW u \in Threads, NEW to, Goto(u, to) PROVE u = w /\ to = "done"
  BY <1>1, <1>2, OneMoves
<1>3. ~ProducerStep
  <2>1. Producer \in Threads
    BY DEF Threads
  <2>2. ~ReadLine
    BY <1>1, <1>2, <2>1 DEF ReadLine, ReadCommand
  <2>3. ~Insert(Producer)
    BY <1>1, <1>2, <2>1 DEF Insert, WaitForSlot, Store, Post
  <2> QED
    BY <2>2, <2>3 DEF ProducerStep
<1>4. ASSUME NEW v \in Workers, WorkerStep(v) PROVE Alert(w)
  <2>1. v \in Threads
    BY DEF Threads
  <2>2. ~Insert(v)
    BY <1>1, <1>2, <2>1 DEF Insert, WaitForSlot, Store, Post, AfterInsert
  <2>3. ~(Take(v) \/ Create(v) \/ Lookup(v) \/ Delete(v) \/ LookupName(v) \/ RemoveName(v)
            \/ CreateNewName(v))
    BY <1>2, <2>1 DEF Take, Create, Lookup, Delete, LookupName, RemoveName, CreateNewName
  <2>4. ~Parse(v) /\ ~LookupNewName(v)
    <3>1. Parse(v) => \E to \in {"inserting", "applying"} : Goto(v, to)
      BY DEF Parse, AfterParse
    <3>2. LookupNewName(v) => \E to \in {"removing", "idle"} : Goto(v, to)
      BY DEF LookupNewName
    <3> QED
      BY <1>2, <2>1, <3>1, <3>2
  <2>5. Alert(v) => v = w
    BY <1>2, <2>1 DEF Alert
  <2> QED
    BY <1>4, <2>2, <2>3, <2>4, <2>5 DEF WorkerStep
<1>5. ~UNCHANGED vars
  BY DEF vars
<1> QED
  BY <1>3, <1>4, <1>5 DEF Next, Ended

LEMMA InOrderStep ==
    ASSUME \A v, w, x \in Workers : v = w \/ w = x \/ v = x,
           CommandsComeInOrder, [Next]_vars
    PROVE  CommandsComeInOrder'
<1>1. TypeOK /\ TypeOK'
  BY StepTypeOK DEF CommandsComeInOrder
<1>2. CASE NobodyDone /\ NobodyDone'
  <2>1. \A w \in Workers : pc'[w] # "done"
    BY <1>2 DEF NobodyDone
  <2> QED
    BY <1>1, <1>2, <2>1, BufferStep, StreamStep DEF CommandsComeInOrder
<1>3. CASE NobodyDone /\ ~NobodyDone'
  <2>1. PICK w \in Workers : pc'[w] = "done" /\ pc[w] # "done"
    BY <1>3 DEF NobodyDone
  <2>2. Alert(w)
    BY <1>1, <2>1, OnlyAlertEnds
  <2>3. OnlyTheEndIsLeft'
    BY <1>3, <2>2, LastWorkerStarts DEF CommandsComeInOrder
  <2>4. AtMostOneRuns'
    BY <1>1, <1>3, AloneStep DEF CommandsComeInOrder
  <2> QED
    BY <1>1, <1>3, <2>3, <2>4 DEF CommandsComeInOrder
<1>4. CASE ~NobodyDone
  <2>1. ~NobodyDone'
    BY <1>1, <1>4, DoneStays DEF NobodyDone, Threads
  <2>2. AtMostOneRuns'
    BY <1>1, <1>4, <2>1, AloneStep DEF CommandsComeInOrder
  <2>3. OnlyTheEndIsLeft'
    BY <1>1, <1>4, LastWorkerEnds DEF CommandsComeInOrder
  <2> QED
    BY <1>1, <2>1, <2>2, <2>3 DEF CommandsComeInOrder
<1> QED
  BY <1>2, <1>3, <1>4

Done == {w \in Workers : pc[w] = "done"}

\* Each step hands out the next command, or stops a worker when none is left, or
\* is none of the stream's business.
LEMMA StreamRefinement ==
    ASSUME \A v, w, x \in Workers : v = w \/ w = x \/ v = x,
           CommandsComeInOrder, CommandsComeInOrder', [Next]_vars
    PROVE  [Stream!Next]_<<parsed, Done>>
<1>1. TypeOK /\ TypeOK'
  BY DEF CommandsComeInOrder
<1>2. \A w \in Workers : pc[w] = "done" => pc'[w] = "done"
  BY <1>1, DoneStays DEF Threads
<1>3. CASE \E w \in Workers : pc[w] # "done" /\ pc'[w] = "done"
  <2>1. PICK w \in Workers : pc[w] # "done" /\ pc'[w] = "done"
    BY <1>3
  <2>2. Alert(w)
    BY <1>1, <2>1, OnlyAlertEnds
  <2>3. parsed = Commands
    <3>1. CASE NobodyDone
      BY <2>2, <3>1, LastWorkerStarts DEF CommandsComeInOrder
    <3>2. CASE ~NobodyDone
      BY <3>2 DEF CommandsComeInOrder, OnlyTheEndIsLeft
    <3> QED
      BY <3>1, <3>2
  <2>4. parsed' = parsed
    BY <2>2 DEF Alert, outcome
  <2>5. Done' = Done \cup {w}
    <3>1. \A v \in Workers : v # w => pc'[v] = pc[v]
      BY <1>1, <2>2, OneMoves DEF Alert, Threads
    <3> QED
      BY <2>1, <3>1 DEF Done
  <2>6. w \notin Done
    BY <2>1 DEF Done
  <2>7. Stream!Stop(w)
    BY <2>3, <2>4, <2>5, <2>6 DEF Stream!Stop, Done
  <2> QED
    BY <2>7 DEF Stream!Next
<1>4. CASE ~\E w \in Workers : pc[w] # "done" /\ pc'[w] = "done"
  <2>1. Done' = Done
    BY <1>2, <1>4 DEF Done
  <2>2. CASE ~NobodyDone
    BY <1>1, <2>1, <2>2, LastWorkerEnds DEF CommandsComeInOrder
  <2>3. CASE NobodyDone /\ \E w \in Workers : Parse(w)
    <3>1. PICK w \in Workers : Parse(w)
      BY <2>3
    <3>2. \/ parsed' = parsed
          \/ /\ Len(parsed) + 1 \in 1 .. Len(Commands)
             /\ parsed' = Append(parsed, Commands[Len(parsed) + 1])
      BY <2>3, <3>1, ParsesTheNext DEF CommandsComeInOrder
    <3>3. Len(parsed) \in Nat /\ Len(Commands) \in Nat
      BY <1>1, BufferedType, StreamFacts
    <3>4. parsed' = parsed \/ Stream!HandOut
      BY <2>1, <3>2, <3>3 DEF Stream!HandOut, Done
    <3> QED
      BY <2>1, <3>4 DEF Stream!Next
  <2>4. CASE ~\E w \in Workers : Parse(w)
    <3>1. parsed' = parsed
      BY <2>4 DEF Next, Ended, vars, ProducerStep, WorkerStep, ReadLine, Insert, WaitForSlot, Store,
                  Post, Take, Alert, Create, Lookup, Delete, LookupName, LookupNewName, RemoveName,
                  CreateNewName, outcome
    <3> QED
      BY <2>1, <3>1
  <2> QED
    BY <2>2, <2>3, <2>4
<1> QED
  BY <1>3, <1>4

\* With at most two workers the buffer implements CommandStream: the workers take the
\* commands of the input in their order, each once, and return only when all are taken.
THEOREM BufferImplementsStream ==
    ASSUME \A v, w, x \in Workers : v = w \/ w = x \/ v = x
    PROVE  Spec => InOrder
<1>1. Init => Stream!Init
  <2>1. ASSUME Init PROVE parsed = <<>> /\ Done = {}
    BY <2>1, ThreadsAssumption DEF Init, Done, Threads
  <2> QED
    BY <2>1 DEF Stream!Init, Done
<1>2. CommandsComeInOrder /\ [Next]_vars => CommandsComeInOrder'
  BY InOrderStep
<1>3. CommandsComeInOrder /\ CommandsComeInOrder' /\ [Next]_vars
          => [Stream!Next]_<<parsed, {w \in Workers : pc[w] = "done"}>>
  BY StreamRefinement DEF Done
<1>4. Spec => []CommandsComeInOrder
  BY <1>2, InitInOrder, PTL DEF Spec
<1> QED
  BY <1>1, <1>3, <1>4, PTL DEF Spec, InOrder, Stream!Spec

-----------------------------------------------------------------------------
(* Inumbers.  A worker has an inumber to itself from the moment obtainNewInumber *)
(* or the removal of a name gives it to the moment it is in a bucket again; what *)
(* a rename has found can only be moved by a rename of the same name.            *)

InumbersOwned == RenamesApart /\ OwnInumbers /\ InumbersUnique

Active == {"applying", "looking", "removing", "creating"}

\* A step that leaves alone the files, what was parsed, and who is still applying a
\* command.
LEMMA OwnedUnchanged ==
    ASSUME InumbersOwned, files' = files, parsed' = parsed,
           \A w \in Workers : pc'[w] \in Active =>
               pc'[w] = pc[w] /\ command'[w] = command[w] /\ inumber'[w] = inumber[w]
    PROVE  InumbersOwned'
<1>1. \A w \in Workers : Renaming(w)' => Renaming(w) /\ command'[w] = command[w]
  BY DEF Renaming, Active
<1>2. \A w \in Workers : Holds(w)' => Holds(w) /\ inumber'[w] = inumber[w]
  BY DEF Holds, Active
<1>3. \A w \in Workers : Found(w)' =>
          Found(w) /\ inumber'[w] = inumber[w] /\ command'[w] = command[w]
  BY DEF Found, Active
<1>4. RenamesApart'
  BY <1>1 DEF InumbersOwned, RenamesApart, Commands
<1>5. OwnInumbers'
  <2>1. \A w \in Workers : /\ pc'[w] \in {"looking", "removing", "creating"} => command'[w].token = "r"
                           /\ Holds(w)' \/ pc'[w] = "removing" => inumber'[w] # 0
    BY <1>2 DEF InumbersOwned, OwnInumbers, Active
  <2>2. \A w \in Workers :
          /\ Holds(w)' => \A n \in Names : files'[n] # inumber'[w]
          /\ Found(w)' => \A n \in Names : files'[n] = inumber'[w] => n = command'[w].name
    BY <1>2, <1>3 DEF InumbersOwned, OwnInumbers
  <2>3. \A v, w \in Workers :
          (Holds(v)' \/ Found(v)') /\ (Holds(w)' \/ Found(w)') /\ inumber'[v] = inumber'[w] => v = w
    BY <1>2, <1>3 DEF InumbersOwned, OwnInumbers
  <2> QED
    BY <2>1, <2>2, <2>3 DEF OwnInumbers
<1>6. InumbersUnique'
  BY DEF InumbersOwned, InumbersUnique
<1> QED
  BY <1>4, <1>5, <1>6 DEF InumbersOwned

\* A command is parsed: its name is no other rename's, and a new inumber is no file's.
LEMMA ParseKeepsOwned ==
    ASSUME RenamedOnce, TypeOK, InumbersOwned, NEW w \in Workers, NEW c,
           /\ command' = [command EXCEPT ![w] = c] /\ Goto(w, "applying")
           /\ nextINumber' = IF c.token = "c" THEN nextINumber + 1 ELSE nextINumber
           /\ inumber' = IF c.token = "c" THEN [inumber EXCEPT ![w] = nextINumber'] ELSE inumber
           /\ Len(parsed) + 1 \in 1 .. Len(Commands) /\ c = Commands[Len(parsed) + 1]
           /\ parsed' = Append(parsed, c) /\ files' = files,
           pc[w] = "parsing", c \in Command
    PROVE  InumbersOwned'
<1>1. /\ w \in Threads /\ Workers \subseteq Threads
      /\ \A u \in Threads : pc'[u] = IF u = w THEN "applying" ELSE pc[u]
      /\ \A u \in Threads : command'[u] = IF u = w THEN c ELSE command[u]
  BY OneMoves DEF Threads, TypeOK
<1>2. \A v \in Workers : v # w => inumber'[v] = inumber[v]
  BY DEF TypeOK
<1>3. Len(parsed) \in Nat /\ Len(parsed') = Len(parsed) + 1 /\ Len(Commands) \in Nat
  <2>1. parsed \in Seq(Command)
    BY DEF TypeOK
  <2> QED
    BY <2>1, StreamFacts
<1>4. \A v \in Workers : v # w =>
          /\ Renaming(v)' = Renaming(v) /\ Holds(v)' = Holds(v) /\ Found(v)' = Found(v)
          /\ command'[v] = command[v] /\ pc'[v] = pc[v]
  BY <1>1, <1>2 DEF Renaming, Holds, Found
<1>5. /\ Renaming(w)' => c.token = "r"
      /\ command'[w] = c /\ pc'[w] = "applying" /\ ~Found(w)'
      /\ Holds(w)' => c.token = "c"
  BY <1>1 DEF Renaming, Holds, Found
<1>6. RenamesApart'
  <2>1. ASSUME NEW v \in Workers, v # w, Renaming(v), c.token = "r" PROVE c.name # command[v].name
    <3>1. Len(parsed) + 1 > Len(parsed)
      BY <1>3
    <3> QED
      BY <2>1, <3>1 DEF InumbersOwned, RenamesApart
  <2>2. ASSUME NEW u \in Workers, NEW v \in Workers, Renaming(u)', Renaming(v)',
               command'[u].name = command'[v].name
        PROVE  u = v
    <3>1. CASE u # w /\ v # w
      BY <1>4, <2>2, <3>1 DEF InumbersOwned, RenamesApart
    <3>2. CASE u = w /\ v # w
      BY <1>4, <1>5, <2>1, <2>2, <3>2
    <3>3. CASE u # w /\ v = w
      BY <1>4, <1>5, <2>1, <2>2, <3>3
    <3> QED
      BY <3>1, <3>2, <3>3
  <2>3. ASSUME NEW v \in Workers, NEW i \in 1 .. Len(Commands), Renaming(v)',
               i > Len(parsed'), Commands[i].token = "r"
        PROVE  Commands[i].name # command'[v].name
    <3>1. i > Len(parsed) /\ i # Len(parsed) + 1
      BY <1>3, <2>3
    <3>2. CASE v # w
      BY <1>4, <2>3, <3>1, <3>2 DEF InumbersOwned, RenamesApart
    <3>3. CASE v = w
      BY <1>5, <2>3, <3>1, <3>3 DEF RenamedOnce
    <3> QED
      BY <3>2, <3>3
  <2>4. Commands' = Commands
    BY DEF Commands
  <2> QED
    BY <2>2, <2>3, <2>4 DEF RenamesApart
<1>7. ASSUME Holds(w)'
      PROVE  /\ inumber'[w] # 0
             /\ \A n \in Names : files[n] # inumber'[w]
             /\ \A v \in Workers : inumber[v] # inumber'[w]
  <2>1. inumber'[w] = nextINumber + 1
    BY <1>5, <1>7 DEF TypeOK
  <2>2. /\ nextINumber \in Nat /\ \A n \in Names : files[n] \in 0 .. nextINumber
        /\ \A v \in Workers : inumber[v] \in 0 .. nextINumber
    BY DEF TypeOK
  <2> QED
    BY <2>1, <2>2
<1>8. OwnInumbers'
  <2>1. ASSUME NEW v \in Workers
        PROVE  /\ pc'[v] \in {"looking", "removing", "creating"} => command'[v].token = "r"
               /\ Holds(v)' \/ pc'[v] = "removing" => inumber'[v] # 0
               /\ Holds(v)' => \A n \in Names : files'[n] # inumber'[v]
               /\ Found(v)' => \A n \in Names : files'[n] = inumber'[v] => n = command'[v].name
    <3>1. CASE v = w
      BY <1>5, <1>7, <3>1
    <3>2. CASE v # w
      BY <1>2, <1>4, <3>2 DEF InumbersOwned, OwnInumbers
    <3> QED
      BY <3>1, <3>2
  <2>2. ASSUME NEW u \in Workers, NEW v \in Workers, Holds(u)' \/ Found(u)', Holds(v)' \/ Found(v)',
               inumber'[u] = inumber'[v]
        PROVE  u = v
    <3>1. CASE u # w /\ v # w
      BY <1>2, <1>4, <2>2, <3>1 DEF InumbersOwned, OwnInumbers
    <3>2. CASE u = w /\ v # w
      BY <1>2, <1>5, <1>7, <2>2, <3>2
    <3>3. CASE u # w /\ v = w
      BY <1>2, <1>5, <1>7, <2>2, <3>3
    <3> QED
      BY <3>1, <3>2, <3>3
  <2> QED
    BY <2>1, <2>2 DEF OwnInumbers
<1>9. InumbersUnique'
  BY DEF InumbersOwned, InumbersUnique
<1> QED
  BY <1>6, <1>8, <1>9 DEF InumbersOwned

\* What w does to the files while it applies a command leaves the other workers' claims.
LEMMA OwnedApart ==
    ASSUME InumbersOwned, NEW w \in Workers, parsed' = parsed, command' = command,
           \A v \in Workers : v # w => pc'[v] = pc[v] /\ inumber'[v] = inumber[v],
           Renaming(w)' => Renaming(w),
           \A v \in Workers : v # w /\ (Holds(v) \/ Found(v)) =>
               \A n \in Names : files'[n] # files[n] => files'[n] # inumber[v],
           /\ pc'[w] \in {"looking", "removing", "creating"} => command[w].token = "r"
           /\ Holds(w)' \/ pc'[w] = "removing" => inumber'[w] # 0
           /\ Holds(w)' => \A n \in Names : files'[n] # inumber'[w]
           /\ Found(w)' => \A n \in Names : files'[n] = inumber'[w] => n = command[w].name,
           \A v \in Workers : v # w /\ (Holds(v) \/ Found(v)) /\ (Holds(w)' \/ Found(w)')
               => inumber[v] # inumber'[w],
           InumbersUnique'
    PROVE  InumbersOwned'
<1>1. \A v \in Workers : v # w =>
          Renaming(v)' = Renaming(v) /\ Holds(v)' = Holds(v) /\ Found(v)' = Found(v)
  BY DEF Renaming, Holds, Found
<1>2. RenamesApart'
  <2>1. \A v \in Workers : Renaming(v)' => Renaming(v)
    BY <1>1
  <2> QED
    BY <2>1 DEF InumbersOwned, RenamesApart, Commands
<1>3. ASSUME NEW v \in Workers
      PROVE  /\ pc'[v] \in {"looking", "removing", "creating"} => command'[v].token = "r"
             /\ Holds(v)' \/ pc'[v] = "removing" => inumber'[v] # 0
             /\ Holds(v)' => \A n \in Names : files'[n] # inumber'[v]
             /\ Found(v)' => \A n \in Names : files'[n] = inumber'[v] => n = command'[v].name
  <2>1. CASE v = w
    BY <2>1
  <2>2. CASE v # w
    BY <1>1, <2>2 DEF InumbersOwned, OwnInumbers
  <2> QED
    BY <2>1, <2>2
<1>4. ASSUME NEW u \in Workers, NEW v \in Workers, Holds(u)' \/ Found(u)', Holds(v)' \/ Found(v)',
             inumber'[u] = inumber'[v]
      PROVE  u = v
  <2>1. CASE u # w /\ v # w
    BY <1>1, <1>4, <2>1 DEF InumbersOwned, OwnInumbers
  <2>2. CASE u = w /\ v # w
    BY <1>1, <1>4, <2>2
  <2>3. CASE u # w /\ v = w
    BY <1>1, <1>4, <2>3
  <2> QED
    BY <2>1, <2>2, <2>3
<1>5. OwnInumbers'
  BY <1>3, <1>4 DEF OwnInumbers
<1> QED
  BY <1>2, <1>5 DEF InumbersOwned

\* A worker applies a command.
LEMMA ApplyKeepsOwned ==
    ASSUME TypeOK, InumbersOwned, NEW w \in Workers,
           \/ Create(w) \/ Lookup(w) \/ Delete(w)
           \/ LookupName(w) \/ LookupNewName(w) \/ RemoveName(w) \/ CreateNewName(w)
    PROVE  InumbersOwned'
<1>1. /\ w \in Threads /\ parsed' = parsed /\ command' = command
      /\ files \in [Names -> 0 .. nextINumber] /\ inumber \in [Workers -> 0 .. nextINumber]
  BY DEF Threads, TypeOK, buffer, outcome, Create, Lookup, Delete, LookupName, LookupNewName,
         RemoveName, CreateNewName
<1>2. \A to : Goto(w, to) => /\ pc'[w] = to
                             /\ \A v \in Workers : v # w => pc'[v] = pc[v]
  BY <1>1, OneMoves
<1>n. /\ pc[w] \in {"looking", "removing", "creating"} \/ Applying(w, "r") =>
             Renaming(w) /\ command[w].name \in Names /\ command[w].newName \in Names
      /\ Applying(w, "c") \/ Applying(w, "d") => command[w].name \in Names
  <2>1. command[w] \in Command
    BY <1>1 DEF TypeOK
  <2>2. pc[w] \in {"looking", "removing", "creating"} => command[w].token = "r"
    BY DEF InumbersOwned, OwnInumbers
  <2> QED
    BY <2>1, <2>2, CommandsWithNames DEF Renaming, Applying
<1>3. CASE Lookup(w)
  <2>1. pc'[w] = "idle" /\ files' = files /\ inumber' = inumber
    BY <1>2, <1>3 DEF Lookup, outcome
  <2> QED
    BY <1>1, <1>2, <1>3, <2>1, OwnedUnchanged DEF Lookup, Active
<1>4. CASE Create(w)
  <2>1. /\ pc'[w] = "idle" /\ inumber' = inumber /\ Holds(w) /\ command[w].name \in Names
        /\ files' = [files EXCEPT ![command[w].name] = inumber[w]]
    BY <1>2, <1>4, <1>n DEF Create, Holds, Applying
  <2>2. \A n \in Names : files'[n] = IF n = command[w].name THEN inumber[w] ELSE files[n]
    BY <1>1, <2>1
  <2>3. ASSUME NEW v \in Workers, v # w, Holds(v) \/ Found(v) PROVE inumber[v] # inumber[w]
    BY <2>1, <2>3 DEF InumbersOwned, OwnInumbers
  <2>4. \A n \in Names : files[n] # inumber[w]
    BY <2>1 DEF InumbersOwned, OwnInumbers
  <2>5. InumbersUnique'
    BY <2>2, <2>4 DEF InumbersOwned, InumbersUnique
  <2>6. ~Renaming(w)' /\ ~Holds(w)' /\ ~Found(w)'
    BY <2>1 DEF Renaming, Holds, Found
  <2>7. \A v \in Workers : v # w => pc'[v] = pc[v] /\ inumber'[v] = inumber[v]
    BY <1>2, <1>4, <2>1 DEF Create
  <2>8. \A v \in Workers : v # w /\ (Holds(v) \/ Found(v)) =>
            \A n \in Names : files'[n] # files[n] => files'[n] # inumber[v]
    BY <2>2, <2>3
  <2> QED
    BY <1>1, <2>1, <2>5, <2>6, <2>7, <2>8, OwnedApart
<1>5. CASE Delete(w)
  <2>1. /\ pc'[w] = "idle" /\ inumber' = inumber /\ command[w].name \in Names
        /\ files' = [files EXCEPT ![command[w].name] = 0]
    BY <1>2, <1>5, <1>n DEF Delete
  <2>2. \A n \in Names : files'[n] = IF n = command[w].name THEN 0 ELSE files[n]
    BY <1>1, <2>1
  <2>3. \A v \in Workers : Holds(v) \/ Found(v) => inumber[v] # 0
    BY DEF InumbersOwned, OwnInumbers, Found
  <2>5. InumbersUnique'
    BY <2>2 DEF InumbersOwned, InumbersUnique
  <2>6. ~Renaming(w)' /\ ~Holds(w)' /\ ~Found(w)'
    BY <2>1 DEF Renaming, Holds, Found
  <2>7. \A v \in Workers : v # w => pc'[v] = pc[v] /\ inumber'[v] = inumber[v]
    BY <1>2, <1>5, <2>1 DEF Delete
  <2>8. \A v \in Workers : v # w /\ (Holds(v) \/ Found(v)) =>
            \A n \in Names : files'[n] # files[n] => files'[n] # inumber[v]
    BY <2>2, <2>3
  <2> QED
    BY <1>1, <2>1, <2>5, <2>6, <2>7, <2>8, OwnedApart
<1>6. CASE LookupName(w)
  <2>1. /\ pc'[w] = "looking" /\ files' = files /\ Renaming(w) /\ command[w].name \in Names
        /\ inumber' = [inumber EXCEPT ![w] = files[command[w].name]]
    BY <1>2, <1>6, <1>n DEF LookupName
  <2>2. inumber'[w] = files[command[w].name]
    BY <1>1, <2>1
  <2>3. \A v \in Workers : v # w => pc'[v] = pc[v] /\ inumber'[v] = inumber[v]
    BY <1>1, <1>2, <1>6, <2>1 DEF LookupName
  <2>4. /\ ~Holds(w)' /\ (Found(w)' => inumber'[w] # 0)
        /\ command[w].token = "r"
    BY <2>1 DEF Holds, Found, Renaming
  <2>5. InumbersUnique'
    BY <2>1 DEF InumbersOwned, InumbersUnique
  <2>6. Found(w)' => \A n \in Names : files'[n] = inumber'[w] => n = command[w].name
    BY <2>1, <2>2, <2>4 DEF InumbersOwned, InumbersUnique
  <2>7. ASSUME NEW v \in Workers, v # w, Holds(v) \/ Found(v) PROVE inumber[v] # inumber'[w]
    <3>1. CASE Holds(v)
      BY <2>1, <2>2, <3>1 DEF InumbersOwned, OwnInumbers
    <3>2. CASE Found(v)
      <4>1. Renaming(v)
        BY <3>2 DEF Found, Renaming, InumbersOwned, OwnInumbers
      <4>2. command[v].name # command[w].name
        BY <2>1, <2>7, <4>1 DEF InumbersOwned, RenamesApart
      <4> QED
        BY <2>1, <2>2, <3>2, <4>2 DEF InumbersOwned, OwnInumbers
    <3> QED
      BY <2>7, <3>1, <3>2
  <2>8. pc'[w] # "removing"
    BY <2>1
  <2> QED
    BY <1>1, <2>1, <2>3, <2>4, <2>5, <2>6, <2>7, <2>8, OwnedApart
<1>7. CASE LookupNewName(w)
  <2>1. /\ files' = files /\ inumber' = inumber /\ Renaming(w) /\ pc[w] = "looking"
        /\ pc'[w] \in {"removing", "idle"} /\ (pc'[w] = "removing" => inumber[w] # 0)
    BY <1>2, <1>7, <1>n DEF LookupNewName, outcome
  <2>2. \A v \in Workers : v # w => pc'[v] = pc[v] /\ inumber'[v] = inumber[v]
    BY <1>2, <1>7, <2>1 DEF LookupNewName
  <2>3. /\ ~Holds(w)' /\ (Found(w)' => Found(w)) /\ command[w].token = "r"
    BY <2>1 DEF Holds, Found, Renaming
  <2>4. InumbersUnique'
    BY <2>1 DEF InumbersOwned, InumbersUnique
  <2>5. Found(w)' => \A n \in Names : files'[n] = inumber'[w] => n = command[w].name
    BY <2>1, <2>3 DEF InumbersOwned, OwnInumbers
  <2>6. \A v \in Workers : v # w /\ (Holds(v) \/ Found(v)) /\ Found(w)' => inumber[v] # inumber'[w]
    BY <2>1, <2>3 DEF InumbersOwned, OwnInumbers
  <2> QED
    BY <1>1, <2>1, <2>2, <2>3, <2>4, <2>5, <2>6, OwnedApart
<1>8. CASE RemoveName(w)
  <2>1. /\ pc'[w] = "creating" /\ pc[w] = "removing" /\ inumber' = inumber
        /\ Renaming(w) /\ command[w].name \in Names
        /\ files' = [files EXCEPT ![command[w].name] = 0]
    BY <1>2, <1>8, <1>n DEF RemoveName
  <2>2. \A n \in Names : files'[n] = IF n = command[w].name THEN 0 ELSE files[n]
    BY <1>1, <2>1
  <2>3. Found(w) /\ inumber[w] # 0 /\ command[w].token = "r"
    BY <2>1 DEF InumbersOwned, OwnInumbers, Found, Renaming
  <2>4. \A v \in Workers : Holds(v) \/ Found(v) => inumber[v] # 0
    BY DEF InumbersOwned, OwnInumbers, Found
  <2>5. InumbersUnique'
    BY <2>2 DEF InumbersOwned, InumbersUnique
  <2>6. \A n \in Names : files'[n] # inumber'[w]
    BY <2>1, <2>2, <2>3 DEF InumbersOwned, OwnInumbers
  <2>7. \A v \in Workers : v # w => pc'[v] = pc[v] /\ inumber'[v] = inumber[v]
    BY <1>2, <1>8, <2>1 DEF RemoveName
  <2>8. \A v \in Workers : v # w /\ (Holds(v) \/ Found(v)) =>
            /\ \A n \in Names : files'[n] # files[n] => files'[n] # inumber[v]
            /\ inumber[v] # inumber'[w]
    BY <2>1, <2>2, <2>3, <2>4 DEF InumbersOwned, OwnInumbers
  <2>9. ~Found(w)' /\ inumber'[w] # 0
    BY <2>1, <2>3 DEF Found
  <2> QED
    BY <1>1, <2>1, <2>3, <2>5, <2>6, <2>7, <2>8, <2>9, OwnedApart
<1>9. CASE CreateNewName(w)
  <2>1. /\ pc'[w] = "idle" /\ inumber' = inumber /\ Holds(w) /\ command[w].newName \in Names
        /\ files' = [files EXCEPT ![command[w].newName] = inumber[w]]
    BY <1>2, <1>9, <1>n DEF CreateNewName, Holds
  <2>2. \A n \in Names : files'[n] = IF n = command[w].newName THEN inumber[w] ELSE files[n]
    BY <1>1, <2>1
  <2>3. ASSUME NEW v \in Workers, v # w, Holds(v) \/ Found(v) PROVE inumber[v] # inumber[w]
    BY <2>1, <2>3 DEF InumbersOwned, OwnInumbers
  <2>4. \A n \in Names : files[n] # inumber[w]
    BY <2>1 DEF InumbersOwned, OwnInumbers
  <2>5. InumbersUnique'
    BY <2>2, <2>4 DEF InumbersOwned, InumbersUnique
  <2>6. ~Renaming(w)' /\ ~Holds(w)' /\ ~Found(w)'
    BY <2>1 DEF Renaming, Holds, Found
  <2>7. \A v \in Workers : v # w => pc'[v] = pc[v] /\ inumber'[v] = inumber[v]
    BY <1>2, <1>9, <2>1 DEF CreateNewName
  <2>8. \A v \in Workers : v # w /\ (Holds(v) \/ Found(v)) =>
            \A n \in Names : files'[n] # files[n] => files'[n] # inumber[v]
    BY <2>2, <2>3
  <2> QED
    BY <1>1, <2>1, <2>5, <2>6, <2>7, <2>8, OwnedApart
<1> QED
  BY <1>3, <1>4, <1>5, <1>6, <1>7, <1>8, <1>9

LEMMA OwnedStep ==
    ASSUME RenamedOnce, CommandsComeInOrder, TypeOK', InumbersOwned, [Next]_vars
    PROVE  InumbersOwned'
<1>1. TypeOK /\ Producer \in Threads /\ Workers \subseteq Threads
  BY DEF CommandsComeInOrder, Threads
<1>2. CASE UNCHANGED vars
  BY <1>2, OwnedUnchanged DEF vars
<1>3. ASSUME NEW t \in Threads, NEW to, Goto(t, to), to \notin Active,
             files' = files, parsed' = parsed, inumber' = inumber,
             \A w \in Workers : w # t => command'[w] = command[w]
      PROVE  InumbersOwned'
  <2>1. \A w \in Workers : pc'[w] \in Active => w # t /\ pc'[w] = pc[w]
    BY <1>1, <1>3, OneMoves
  <2> QED
    BY <1>3, <2>1, OwnedUnchanged
<1>4. CASE ReadLine
  <2>1. \A w \in Workers : command'[w] = command[w]
    BY <1>1, <1>4, ThreadsAssumption DEF ReadLine, ReadCommand, TypeOK
  <2>2. files' = files /\ parsed' = parsed /\ inumber' = inumber
    BY <1>4 DEF ReadLine
  <2>3. pc' = pc \/ Goto(Producer, "inserting")
    BY <1>4 DEF ReadLine, ReadCommand
  <2>4. CASE pc' = pc
    BY <2>1, <2>2, <2>4, OwnedUnchanged
  <2>5. CASE Goto(Producer, "inserting")
    BY <1>1, <1>3, <2>1, <2>2, <2>5 DEF Active
  <2> QED
    BY <2>3, <2>4, <2>5
<1>5. ASSUME NEW t \in Threads, Insert(t) PROVE InumbersOwned'
  <2>1. PICK to \in {"storing", "posting", "alerting", "done", "reading"} : Goto(t, to)
    BY <1>5 DEF Insert, WaitForSlot, Store, Post, AfterInsert
  <2>2. files' = files /\ parsed' = parsed /\ inumber' = inumber /\ command' = command
    BY <1>5 DEF Insert, WaitForSlot, Store, Post, outcome
  <2> QED
    BY <1>3, <2>1, <2>2 DEF Active
<1>6. ASSUME NEW w \in Workers, Take(w) \/ Alert(w) PROVE InumbersOwned'
  <2>1. PICK to \in {"parsing", "done"} : Goto(w, to)
    BY <1>6 DEF Take, Alert
  <2>2. files' = files /\ parsed' = parsed /\ inumber' = inumber /\ command' = command
    BY <1>6 DEF Take, Alert, outcome
  <2> QED
    BY <1>1, <1>3, <2>1, <2>2 DEF Active
<1>7. ASSUME NEW w \in Workers, Parse(w) PROVE InumbersOwned'
  <2> DEFINE c == slots[TakenSlot]
  <2>1. /\ pc[w] = "parsing" /\ files' = files /\ TakenSlot \in SlotIds /\ w \in Threads
    BY <1>1, <1>7, TakenSlotInBuffer DEF Parse, TypeOK
  <2>2. CASE NobodyDone
    <3>1. /\ command' = [command EXCEPT ![w] = c] /\ Goto(w, AfterParse(c))
          /\ nextINumber' = IF c.token = "c" THEN nextINumber + 1 ELSE nextINumber
          /\ inumber' = IF c.token = "c" THEN [inumber EXCEPT ![w] = nextINumber'] ELSE inumber
          /\ c = EndCommand => parsed = Commands /\ parsed' = parsed
          /\ c # EndCommand => /\ Len(parsed) + 1 \in 1 .. Len(Commands)
                               /\ c = Commands[Len(parsed) + 1]
                               /\ parsed' = Append(parsed, c)
      BY <1>7, <2>2, ParsesTheNext DEF CommandsComeInOrder
    <3> HIDE DEF c
    <3>2. \A v \in Workers : v # w => command'[v] = command[v]
      BY <1>1, <3>1 DEF TypeOK
    <3>3. CASE c = EndCommand
      <4>1. Goto(w, "inserting") /\ inumber' = inumber
        BY <3>1, <3>3 DEF AfterParse, EndCommand
      <4> QED
        BY <1>3, <2>1, <3>1, <3>2, <3>3, <4>1 DEF Active
    <3>4. CASE c # EndCommand
      <4>1. Goto(w, "applying")
        BY <3>1, <3>4 DEF AfterParse
      <4>2. c \in Command
        BY <1>1, <2>1, <3>1 DEF TypeOK
      <4> QED
        BY <1>1, <2>1, <3>1, <3>4, <4>1, <4>2, ParseKeepsOwned
    <3> QED
      BY <3>3, <3>4
  <2>3. CASE ~NobodyDone
    <3>1. slots[TakenSlot] = EndCommand
      BY <2>1, <2>3 DEF CommandsComeInOrder, OnlyTheEndIsLeft
    <3>2. EndCommand # Blank /\ EndCommand.token # "c"
      BY DEF EndCommand, Blank
    <3>3. /\ Goto(w, "inserting") /\ parsed' = parsed /\ inumber' = inumber
          /\ command' = [command EXCEPT ![w] = EndCommand]
      BY <1>7, <3>1, <3>2 DEF Parse, Scanned, AfterParse
    <3>4. \A v \in Workers : v # w => command'[v] = command[v]
      BY <1>1, <3>3 DEF TypeOK
    <3> QED
      BY <1>3, <2>1, <3>3, <3>4 DEF Active
  <2> QED
    BY <2>2, <2>3
<1> QED
  BY <1>1, <1>2, <1>4, <1>5, <1>6, <1>7, ApplyKeepsOwned
     DEF Next, Ended, ProducerStep, WorkerStep

\* With at most two workers, and an input that renames no name twice, no two names ever
\* have one inumber, although a rename lets go of its buckets three times.
THEOREM InumbersStayUnique ==
    ASSUME \A v, w, x \in Workers : v = w \/ w = x \/ v = x, RenamedOnce
    PROVE  Spec => []InumbersUnique
<1> DEFINE Inv == CommandsComeInOrder /\ InumbersOwned
<1>1. Init => Inv
  <2> SUFFICES ASSUME Init PROVE InumbersOwned
    BY InitInOrder
  <2>1. \A w \in Workers : pc[w] = "idle"
    BY ThreadsAssumption DEF Init, Threads
  <2>2. \A n \in Names : files[n] = 0
    BY DEF Init
  <2> QED
    BY <2>1, <2>2
       DEF InumbersOwned, RenamesApart, OwnInumbers, InumbersUnique, Renaming, Holds, Found
<1>2. Inv /\ [Next]_vars => Inv'
  BY InOrderStep, OwnedStep DEF CommandsComeInOrder
<1>3. Inv => InumbersUnique
  BY DEF InumbersOwned
<1> HIDE DEF Inv
<1> QED
  BY <1>1, <1>2, <1>3, PTL DEF Spec
=============================================================================
