--------------------------- MODULE TecnicoFSBatch ---------------------------
(***************************************************************************)
(* The batch TecnicoFS of Operating Systems, Project 2, in the builds with   *)
(* threads: processInput reads the commands of a file into a circular        *)
(* buffer, and the worker threads of applyCommands take them out and apply   *)
(* them to the file system.                                                  *)
(*                                                                           *)
(* Grain of atomicity.  A wait on a semaphore, the copy into a slot (under   *)
(* loadLock), the reading of a slot, and each visit to a bucket (under its   *)
(* lock) are steps of their own.  A worker that waits on executeCommand does *)
(* so with commandsLock held, which only makes other workers wait too, so    *)
(* both are one step.                                                        *)
(*                                                                           *)
(* Abstractions.  A file is its name and its inumber; the buckets and their  *)
(* trees are one function from names to inumbers, 0 where there is no file.  *)
(***************************************************************************)
EXTENDS Integers, Sequences, FiniteSets, SequencesExt

CONSTANTS
    Workers,     \* the worker threads
    Producer,    \* the thread of processInput
    Names,       \* the names of files
    Input,       \* the lines of the input file
    MaxCommands  \* MAX_COMMANDS, the slots of the buffer

Line == [token : {"c", "l", "r", "d", "#", "?"}, name : Names, newName : Names]

ASSUME ThreadsAssumption == Workers # {} /\ Producer \notin Workers
ASSUME InputAssumption == Input \in Seq(Line)
ASSUME MaxCommandsAssumption == MaxCommands \in Nat \ {0}

VARIABLES
    pc,          \* where each thread is
    command,     \* the command each thread handles
    next,        \* the line processInput reads next
    slots,       \* inputCommands
    prodpos,
    conspos,
    loadInput,   \* semaphore loadInputCommand
    execute,     \* semaphore executeCommand
    nextINumber,
    inumber,     \* iNumber or idNumber of each worker
    files,       \* the inumber of each name
    exited,      \* the process has exited with failure
    parsed       \* history: the commands the workers have parsed

vars == <<pc, command, next, slots, prodpos, conspos, loadInput, execute,
          nextINumber, inumber, files, exited, parsed>>

buffer == <<slots, prodpos, conspos, loadInput, execute>>
outcome == <<next, nextINumber, inumber, files, exited, parsed>>

Threads == Workers \cup {Producer}
SlotIds == 0 .. MaxCommands - 1

EndCommand == [token |-> "x"]
Blank == [token |-> ""]      \* a slot that was never written
Garbage == [token |-> "?"]   \* what an uninitialised token leads to

Command == Line \cup {EndCommand, Garbage}

\* Only these tokens are put into the buffer; "#" is a comment.
IsCommand(line) == line.token \in {"c", "l", "r", "d"}

Init ==
    /\ pc = [t \in Threads |-> IF t = Producer THEN "reading" ELSE "idle"]
    /\ command = [t \in Threads |-> Garbage]
    /\ next = 1
    /\ slots = [k \in SlotIds |-> Blank]
    /\ prodpos = 0 /\ conspos = 0
    /\ loadInput = MaxCommands /\ execute = 0
    /\ nextINumber = 0
    /\ inumber = [w \in Workers |-> 0]
    /\ files = [n \in Names |-> 0]
    /\ exited = FALSE
    /\ parsed = <<>>

Goto(t, place) == pc' = [pc EXCEPT ![t] = place]

-----------------------------------------------------------------------------
(* processInput. *)

ReadCommand(line) ==
    /\ command' = [command EXCEPT ![Producer] = line]
    /\ Goto(Producer, "inserting")
    /\ UNCHANGED exited

ReadLine ==
    /\ pc[Producer] = "reading"
    /\ next' = next + 1
    /\ IF next > Len(Input) THEN ReadCommand(EndCommand)
       ELSE IF IsCommand(Input[next]) THEN ReadCommand(Input[next])
       ELSE /\ exited' = (Input[next].token # "#")
            /\ UNCHANGED <<pc, command>>
    /\ UNCHANGED <<buffer, nextINumber, inumber, files, parsed>>

-----------------------------------------------------------------------------
(* insertCommand, called by processInput for each command and by a worker that *)
(* has taken the end.                                                          *)

\* Mutant: the semaphore is tried, not waited for.
WaitForSlot_Tries(t) ==
    /\ pc[t] = "inserting"
    /\ loadInput' = IF loadInput > 0 THEN loadInput - 1 ELSE 0
    /\ Goto(t, "storing")
    /\ UNCHANGED <<command, slots, prodpos, conspos, execute, outcome>>

WaitForSlot(t) ==
    /\ pc[t] = "inserting"
    /\ loadInput > 0
    /\ loadInput' = loadInput - 1
    /\ Goto(t, "storing")
    /\ UNCHANGED <<command, slots, prodpos, conspos, execute, outcome>>

\* Mutant: one slot too many.
Store_WrapsLate(t) ==
    /\ pc[t] = "storing"
    /\ slots' = [slots EXCEPT ![prodpos] = command[t]]
    /\ prodpos' = (prodpos + 1) % (MaxCommands + 1)
    /\ Goto(t, "posting")
    /\ UNCHANGED <<command, conspos, loadInput, execute, outcome>>

Store(t) ==
    /\ pc[t] = "storing"
    /\ slots' = [slots EXCEPT ![prodpos] = command[t]]
    /\ prodpos' = (prodpos + 1) % MaxCommands
    /\ Goto(t, "posting")
    /\ UNCHANGED <<command, conspos, loadInput, execute, outcome>>

\* Mutant: a worker that has passed the end on goes back for another command.
AfterInsert_LoopsOn(t) ==
    IF t # Producer THEN "idle"
    ELSE IF command[t] = EndCommand THEN "done"
    ELSE "reading"

\* Where insertCommand returns to.
AfterInsert(t) ==
    IF t # Producer THEN "alerting"
    ELSE IF command[t] = EndCommand THEN "done"
    ELSE "reading"

\* Mutant: a post too many.
Post_Twice(t) ==
    /\ pc[t] = "posting"
    /\ execute' = execute + 2
    /\ Goto(t, AfterInsert(t))
    /\ UNCHANGED <<command, slots, prodpos, conspos, loadInput, outcome>>

Post(t) ==
    /\ pc[t] = "posting"
    /\ execute' = execute + 1
    /\ Goto(t, AfterInsert(t))
    /\ UNCHANGED <<command, slots, prodpos, conspos, loadInput, outcome>>

-----------------------------------------------------------------------------
(* applyCommands: taking a command out of the buffer. *)

CommandsLockFree == \A w \in Workers : pc[w] # "parsing"

Take(w) ==
    /\ pc[w] = "idle"
    /\ CommandsLockFree
    /\ execute > 0
    /\ execute' = execute - 1
    /\ conspos' = (conspos + 1) % MaxCommands
    /\ Goto(w, "parsing")
    /\ UNCHANGED <<command, slots, prodpos, loadInput, outcome>>

\* The slot that removeCommand returned, while commandsLock is held.
TakenSlot == (conspos + MaxCommands - 1) % MaxCommands

\* sscanf of a blank slot assigns nothing: token and names are those of the turn
\* before, or uninitialised.
Scanned(w) ==
    IF slots[TakenSlot] = Blank THEN {command[w], Garbage} ELSE {slots[TakenSlot]}

AfterParse(c) == IF c = EndCommand THEN "inserting" ELSE "applying"

Parse(w) ==
    /\ pc[w] = "parsing"
    /\ loadInput' = loadInput + 1
    /\ \E c \in Scanned(w) :
        /\ command' = [command EXCEPT ![w] = c]
        /\ exited' = (c = Garbage)
        /\ parsed' = IF c = EndCommand THEN parsed ELSE Append(parsed, c)
        /\ nextINumber' = IF c.token = "c" THEN nextINumber + 1 ELSE nextINumber
        /\ inumber' = IF c.token = "c" THEN [inumber EXCEPT ![w] = nextINumber'] ELSE inumber
        /\ Goto(w, AfterParse(c))
    /\ UNCHANGED <<next, slots, prodpos, conspos, execute, files>>

\* The end is in the buffer again; one more post, and the thread returns.
Alert(w) ==
    /\ pc[w] = "alerting"
    /\ execute' = execute + 1
    /\ Goto(w, "done")
    /\ UNCHANGED <<command, slots, prodpos, conspos, loadInput, outcome>>

-----------------------------------------------------------------------------
(* applyCommands: the file system. *)

Applying(w, token) == pc[w] = "applying" /\ command[w].token = token

Create(w) ==
    /\ Applying(w, "c")
    /\ files' = [files EXCEPT ![command[w].name] = inumber[w]]
    /\ Goto(w, "idle")
    /\ UNCHANGED <<command, next, buffer, nextINumber, inumber, exited, parsed>>

Lookup(w) ==
    /\ Applying(w, "l")
    /\ Goto(w, "idle")
    /\ UNCHANGED <<command, buffer, outcome>>

Delete(w) ==
    /\ Applying(w, "d")
    /\ files' = [files EXCEPT ![command[w].name] = 0]
    /\ Goto(w, "idle")
    /\ UNCHANGED <<command, next, buffer, nextINumber, inumber, exited, parsed>>

\* A rename visits the buckets four times, unlocked in between.
LookupName(w) ==
    /\ Applying(w, "r")
    /\ inumber' = [inumber EXCEPT ![w] = files[command[w].name]]
    /\ Goto(w, "looking")
    /\ UNCHANGED <<command, next, buffer, nextINumber, files, exited, parsed>>

LookupNewName(w) ==
    /\ pc[w] = "looking"
    /\ Goto(w, IF inumber[w] # 0 /\ files[command[w].newName] = 0 THEN "removing"
               ELSE "idle")
    /\ UNCHANGED <<command, buffer, outcome>>

\* Mutant: the old name is kept.
RemoveName_Keeps(w) ==
    /\ pc[w] = "removing"
    /\ Goto(w, "creating")
    /\ UNCHANGED <<command, buffer, outcome>>

RemoveName(w) ==
    /\ pc[w] = "removing"
    /\ files' = [files EXCEPT ![command[w].name] = 0]
    /\ Goto(w, "creating")
    /\ UNCHANGED <<command, next, buffer, nextINumber, inumber, exited, parsed>>

CreateNewName(w) ==
    /\ pc[w] = "creating"
    /\ files' = [files EXCEPT ![command[w].newName] = inumber[w]]
    /\ Goto(w, "idle")
    /\ UNCHANGED <<command, next, buffer, nextINumber, inumber, exited, parsed>>

-----------------------------------------------------------------------------
Insert(t) == WaitForSlot(t) \/ Store(t) \/ Post(t)

ProducerStep == ~exited /\ (ReadLine \/ Insert(Producer))

WorkerStep(w) ==
    /\ ~exited
    /\ \/ Take(w) \/ Parse(w) \/ Insert(w) \/ Alert(w)
       \/ Create(w) \/ Lookup(w) \/ Delete(w)
       \/ LookupName(w) \/ LookupNewName(w) \/ RemoveName(w) \/ CreateNewName(w)

\* runThreads has joined every thread.
Joined == \A t \in Threads : pc[t] = "done"

Ended == (exited \/ Joined) /\ UNCHANGED vars

Next == ProducerStep \/ (\E w \in Workers : WorkerStep(w)) \/ Ended

Spec == Init /\ [][Next]_vars

\* Every thread is scheduled.
FairSpec == Spec /\ WF_vars(ProducerStep) /\ \A w \in Workers : WF_vars(WorkerStep(w))

-----------------------------------------------------------------------------
\* The commands among the first k lines.
CommandsRead[k \in 0 .. Len(Input)] ==
    IF k = 0 THEN <<>>
    ELSE IF IsCommand(Input[k]) THEN Append(CommandsRead[k - 1], Input[k])
    ELSE CommandsRead[k - 1]

Commands == CommandsRead[Len(Input)]

Place == {"reading", "inserting", "storing", "posting", "idle", "parsing", "alerting",
          "applying", "looking", "removing", "creating", "done"}

\* Types: positions are slots, and the inumbers are those handed out.
TypeOK ==
    /\ pc \in [Threads -> Place]
    /\ command \in [Threads -> Command]
    /\ next \in Nat \ {0}
    /\ slots \in [SlotIds -> Command \cup {Blank}]
    /\ prodpos \in SlotIds /\ conspos \in SlotIds
    /\ loadInput \in Nat /\ execute \in Nat
    /\ nextINumber \in Nat
    /\ inumber \in [Workers -> 0 .. nextINumber]
    /\ files \in [Names -> 0 .. nextINumber]
    /\ exited \in BOOLEAN
    /\ parsed \in Seq(Command)

\* insertCommand never writes the slot a worker is reading, although no lock is
\* common to them: only the semaphores keep them apart.
NoOverwrite ==
    \A t \in Threads, w \in Workers :
        pc[t] = "storing" /\ pc[w] = "parsing" => prodpos # TakenSlot

\* No two names have one inumber, although a rename lets go of its buckets between
\* looking, deleting and creating.
InumbersUnique ==
    \A m, n \in Names : files[m] = files[n] /\ files[m] # 0 => m = n

\* The line that ends the input is the "end of the commands to execute"
\* (main.c:123): the workers take the commands of the file and no other.
NothingAfterTheEnd == IsPrefix(parsed, Commands)

Stream == INSTANCE CommandStream WITH
    taken <- parsed, stopped <- {w \in Workers : pc[w] = "done"}

\* The buffer implements the stream of commands: the workers take the commands of
\* the file in their order, each once, and stop only when none is left.
InOrder == Stream!Spec

\* The thread that takes the end "ends and alerts the next" (main.c:181), until all
\* have ended and runThreads returns.
Terminates == <>(exited \/ Joined)
=============================================================================
