# A verification project for Uni-Projects

The repository (`src/`) is the coursework of a computer science degree: some
twenty directories, most of them small sequential exercises, reports and
vendored code.  Some of its programs are concurrent, distributed or driven by
events, and were built to survive interleavings, lost messages, link changes,
crashes or impatient users.  They are what this project models, checks and, in
part, proves:

| program | where | modules |
|---|---|---|
| Turmas, a replicated class enrollment service | `Distributed Systems/Project` | `TurmasClass`, `Turmas`, `SharedTimeline` |
| a reliable file transfer over UDP | `Computer Networks/Project 1` | `FileTransfer`, `ReliableDelivery` |
| TecnicoFS, batch version with threads | `Operating Systems/Proj2` | `TecnicoFSBatch`, `CommandStream` |
| TecnicoFS, server and client library | `Operating Systems/Proj3` | `TecnicoFSServer` |
| four routing protocols on a simulator | `Computer Networks/Project 2` | `RoutingSimulator`, `Routes`, `DistanceVector`, `PathVector`, `LinkState`, `Routing` |
| a billiard table page | `Computer Graphics/Proj2` | `Billiard` |
| pages of a mobile, a truck and a golf course | `Computer Graphics/Proj1`, `Proj3`, `Proj4` | `Mobile`, `Truck`, `Golf`, `OrbitControls`, `Scenes` |

`PROJECT.json` lists every component, run, mutant, mapped definition, finding,
hazard and theorem; this file explains them.  Three modules are abstract
specifications, which the detailed ones are shown to implement: `SharedTimeline`,
`ReliableDelivery` and `CommandStream`.

Contents: 1 inventory, 2 Turmas, 3 file transfer, 4 TecnicoFS batch,
5 TecnicoFS server, 6 routing, 7 billiard, 8 the other pages, 9 findings,
10 what is proved, 11 what is not modelled, 12 plan.

Every module has an `MC` module with the small sets TLC needs, and one `.cfg` per
run, named `<MC module>_<run>.cfg`.  What is proved is in the modules named
`...Proofs`, with the inductive invariants that only the proofs need.  A definition `Name_Variant` after a comment
"Mutant:" is a wrong form of `Name`, which no specification uses: with it in the
place of `Name` the run finds the property violated that `PROJECT.json` names.

---------------------------------------------------------------------------

## 1. Inventory of the repository

### Turmas (Distributed Systems/Project)

| part | state | operations | talks to |
|---|---|---|---|
| `ClassServer`: `Class`, `TimeFrame`, `StudentClass` | maps `enrolled`, `discarded`, `studentTimeline`; the map `enrollablesTimes` of open/close frames; `capacity`, `enrollmentsOpen`, the flags `active` and `gossip` | `enroll`, `discard`, `openEnrollments`, `closeEnrollments`, `correctTimeline`, `mergeStudents`, `createReceivedClass`, snapshots | called by the service implementations, all methods `synchronized` |
| `ClassServer`: service implementations, `PropagateFrontend`, timer | the timer of five seconds | client requests, administrator requests, `propagateState` sent and received | gRPC to every other server |
| `NamingServer` | services, their server entries | register, lookup, remove, all synchronized | called by servers and clients |
| `Student`, `Professor`, `Admin`, `StubManager` | none that lasts | one command per call, retries at another server | lookup, then gRPC |

Hard: whole-state propagation, handled in three calls with the monitor free in
between; propagations that cross; per-student instants compared with `isAfter`;
a capacity that is checked locally on every server; servers that die; an
administrator who suspends servers and gossip.
Correct when: the maps of a replica agree with each other; a replica never
forgets a later action; all timelines are those of the primary; the capacity
holds; the replicas converge.

### Reliable file transfer (Computer Networks/Project 1)

`file-sender.c` and `file-receiver.c`, with window sizes as arguments (Stop and
Wait, Go Back N, Selective Repeat), over UDP; `log-packets.c` interposes
`sendto` and drops packets by a pattern.  State: on each side a window base, a
bit vector and the number of the last chunk; the sender's place in the window
and its count of timeouts.
Hard: losses of any packet, late and reordered acknowledgements, timeouts,
`uint32_t` numbers with -1 as "unknown", two ways of ending.
Correct when: a program that exits with success has moved the whole file; both
end; the file arrives if losses are few.

### Routing protocols (Computer Networks/Project 2)

`dv.c`, `dvrpp.c`, `pv.c`, `ls.c` over `routing-simulator.cpp`: event handlers
(`init_state`, `notify_link_change`, `notify_receive_message`) on the state of one
node, messages delivered by the simulator in the order of its event queue.  Hard:
link changes while messages travel, counting to infinity, stale link states.
Correct when: after the last link change the routes settle on shortest paths,
and no forwarding loop lasts.

### Graphics pages (Computer Graphics/Proj1 to Proj4)

Four pages on three.js, each with a scene, a key handler that sets flags, an
`animate` function asked for once per frame, and a handler of resizes.  Proj2 is a
billiard table: keys choose, colour and turn a cue and ask for a shot; every
frame reads those flags and queues an `update` for a second later, which moves
the balls and looks for collisions and holes.  Proj1 is a mobile of three branches
that keys turn; Proj3 a truck with lights, materials and two cameras; Proj4 a
golf course with a pause screen, a refresh, and a camera that `OrbitControls`
moves by mouse, pen or fingers.  State: the globals at the top of each file and
the `userData` of the objects.  Hard: keys, frames, queued updates and gestures in
any order; flags that outlive what they were set for.
Correct when: the animation goes on; a shot is taken by the ball of the cue that
is red; what is changed together stays together; a refresh is done; a gesture
ends when the pointer or finger goes.

### TecnicoFS (Operating Systems/Proj1, Proj2, Proj3)

Proj1: sequential.  Proj2: a producer thread that reads a file of commands into
a circular buffer, worker threads that take and apply them to hashed, locked
binary trees.  Proj3: a server with a thread per client on a Unix socket, an
i-node table and per-client open-file tables, and a client library.  Hard: the
semaphores and locks of the buffer, ending the threads, renames over two
buckets, checks that are stale when acted on, a lock taken with `try_lock`.
Correct when: commands are taken in order and the program ends; a name has one
i-node and an i-node one name; only the owner removes a file; every request is
answered.

### The rest

Sequential or not program logic: the library application (Object Oriented
Programming), the command interpreters of Introduction to Data Structures and
Algorithms, an optimised algorithm (Analysis and Synthesis of Algorithms), a
Takuzu solver, a compiler on vendored libraries, a Turing machine table, Prolog
and Python exercises, an assembly game, SQL, sketches and reports.  See
section 11.

---------------------------------------------------------------------------

## 2. Turmas

### Model and code

`TurmasClass` is `Class.java` as operators on a record; it has no variables.

| model | code |
|---|---|
| `ClassState` fields | the fields of `Class`; `enrolled`, `discarded`, `studentTimeline` are functions from student ids to instants, `NoInstant` (0) where the map has no entry |
| `enrollablesTimes` | the TreeMap of frames, as a set of records `key, start, end, capacity`; `key` is the map's key, which `correctTimeline` can make differ from the frame's own start |
| `EnrollResponse`, `DiscardResponse`, ... | the checks and their order, as the response code; a refused request changes nothing and is no step |
| `EnrollAt`, `DiscardAt`, `OpenAt`, `CloseAt` | the assignments that follow, at one reading of the clock |
| `SnapshotOf`, `Received` | `createPropagateRequest` and `createReceivedClass`: what the message carries and what the receiver makes of it, `studentTimeline` rebuilt from the two maps |
| `StaleTimeline`, `CorrectTimes`, `ValidateStudent` | `correctTimeline`: the comparison of lengths, the copying of frames, and the loop over the students that puts those without a frame in `discarded` |
| `MergeStudent`, `ConflictEnroll`, `ContestLastPlace`, `ConflictDiscard` | one turn of `mergeStudents` and what it calls |

`Turmas` composes one such record per server (`aClass[s]`) with the handler of
`propagateState` (`handler[s]`: a phase and the ids its loop still has), the timer
task (`round[s]`: the peers it has still to call) and the messages (`inflight`).

Grain of atomicity.  The methods of `Class` are `synchronized`: a request is one
step.  `ClassServerImpl.propagateState` calls three of them in a row and is itself
synchronized on the service object only, so other requests fall between
`Received`, `CorrectTimeline` and `MergeStudents`; that is why a handler has
phases.  The two loops are modelled turn by turn, with the monitor held
(`MonitorFree`), so that each turn is a small step that can be proved about; no
request interleaves with them.  A propagation round reads `active` and `gossip`
once, at its start, and takes a fresh snapshot for each peer, as the code does.

Clock.  `Instant.now()` is one counter that every reading increases.  All servers
run on one machine (the host is `localhost` throughout), and the resolution of
`Instant.now()` is far below the time of a request.

Messages.  A propagation may be lost (`Lose`: connection refused, deadline passed
before it was handled, receiver inactive), delayed and overtaken.  It is not
duplicated: gRPC does not repeat a call and the sender does not retry it.  A call
whose deadline passes after it was handled is simply handled.

Restarts.  `Restart(s)` replaces a server of `Restartable` by a new one.  Nothing
is persisted.

`SharedTimeline` is the abstract specification of the timelines: only the primary
opens and ends frames, a secondary learns some of what the primary knows and forgets
nothing, or is started again.  The property `TimelineIsShared` says that `Turmas`
implements it, with `knows` mapped to the frames of each server; students, messages
and handlers are invisible.  Its `CloseFrame` lets the newest frame end at
another instant than it did: the primary, too, takes `enrollmentsOpen` from a
received timeline (Class.java 517), so that a late one opens it again without a frame,
and the next close gives the last frame a new end, which another late one can take
back.  That a frame is closed stays known, when it closed does not.

### Runs

| run | instance | shows |
|---|---|---|
| `replicas` | 2 servers, 2 students, capacities 1 and 2 (0 is refused), all client commands, clock up to 4, 2 propagations outstanding (one each way, or two that overtake) | nothing throws; the three maps of a replica agree; what it knows of a student never goes back; a replica never has more students than the largest capacity it granted; the capacity in force is that of the last frame; the replicas implement `SharedTimeline` |
| `failures` | fair gossip, one student, capacity 1, every command, administrators' too, a secondary that is killed and restarted at any moment, clock up to 4, 1 outstanding | `RestartedCatchUp`: once it is killed no more and nobody stops the servers or their gossip, the secondary has, again and again, the primary's frames, its students and its cancellations |
| `dissemination` | fair gossip, 2 students, capacities 1 and 2, client commands, clock up to 3, 2 outstanding | frames, closings and cancellations reach everyone, though propagations fail, cross and overtake each other; with a place for every student and no closing, the replicas come to list the same students and stay so |
| `diverge` | fair gossip, one place for two students, no closing, clock up to 4, 1 outstanding | the finding of section 9 |

`UncontestedConverge` has two conditions, and both are needed: with one place,
or with a frame that is closed while an enrollment is on its way, the lists differ
for ever (`EnrolledConverge` in the place of the properties of `dissemination`,
with `Capacities = {2}`, `MaxClock = 4` and `MaxOutstanding = 1`, shows the second).  What `RestartedCatchUp` promises of the
students is that the secondary lists or has cancelled each of them, and has every
cancellation of the primary; it does not promise the primary's instants, because
of two enrollments of one student each server keeps its own.  That a restarted
secondary does no harm (`RestartIsHarmless`: no handler throws, no timeline is
other than the primary's) is a theorem of section 10.

Bounds.  `MaxClock` counts the actions of clients that succeed (each reads the
clock once); an opening, two enrollments and a close, a cancellation or another
opening are what each hazard needs.  `MaxOutstanding` counts messages sent and not
completely handled; two are enough for crossing and overtaking.  Two students are
enough for the race for a last place, two servers for every pairwise conflict;
`MergeStudent` looks at one student at a time and a propagation involves two
servers.  The theorems of section 10 have no such bounds.

Fairness.  `TimerTask` runs every five seconds for ever, so `StartRound` and
`PropagateState` are strongly fair (the monitor they need is free again and
again); the handler's thread runs (`WF`); a propagation that is sent again and
again from one server to another is handled again and again (`SF` of
`ReceiveFrom`): the servers share a machine, and a call fails only at its
five-second deadline.  Clients and administrators are not fair.

---------------------------------------------------------------------------

## 3. Reliable file transfer

### Model and code

| model | code |
|---|---|
| `sender` | `file-sender.c`, `main`: `seq_num` (window base), `acks_vector`, `to_send`, `last_chunk`, `data_len`, the timeouts in a row; `pc` is "sending" in the inner loop, "waiting" in `recvfrom` |
| `receiver` | `file-receiver.c`, `main`: `seq_num`, `acks_vector`, `last_chunk`; `pc` is "waiting", or "lingering" once the file is complete |
| `written` | the chunks at their place in the output file |
| `toReceiver`, `toSender` | datagrams on their way; `Send` also drops them, which is what `log-packets.c` does |
| `SendSegment`, `SkipSegment`, `SendError` | a turn of the inner loop: the segment is sent, passed over because its bit is set, or `sendto` fails |
| `ReceiveAck`, `SenderTimeout` | a turn of the outer loop |
| `ReceiveSegment`, `ReceiverTimeout` | a turn of the receiver's loop |

A chunk is its number; the bytes of a chunk are those of the file at its place,
so only its length matters: `Full` chunks of 1000 bytes and one of `Rest`.  A bit
vector is the set of its bits that are 1, so that shifts by any number of bits
are defined and bits shifted out of 32 are lost.  `last_chunk` is unsigned and -1
is its largest value, `MaxSeq`, scaled down for TLC with the wraparound of
`last_chunk + 1` kept (`Succ`).  The initial `data_len` is not read before it is
written.

Network.  By default channels are queues (two programs on one host); `Faults`
adds `"reorder"`, `"delay"` and `"error"`.  Time: the sender's timeout is one
second, the receiver's four, and two while it lingers.  Without `"delay"` a
second is longer than all that a packet brings about, so the sender times out
only when nothing is on its way (`Quiescent`), and the receiver only after as many
of the sender's timeouts as its own lasts (`quiet`, `Patience`), or when the
sender is gone.  With `"delay"` a timeout may happen at any moment;
`MaxInTransit` then bounds the packets in the network.

`ReliableDelivery` is the abstract specification: the receiver writes the chunks in
their order and each once, and either program reports a success only when the whole
file is there.  `DeliversInOrder` says that `FileTransfer` implements it, with the
state of the two programs mapped to what they report (`Report`).

### Runs

| run | instance | shows |
|---|---|---|
| `gobackn` | 3 full chunks and an empty last, windows 3 and 1; 2 drops, and delay, reordering and `sendto` errors without bound | the sender never passes the receiver, `ReliableDelivery` is implemented, success on either side means delivered, both programs end |
| `selective` | 11 chunks, windows 8 and 8, 2 losses | the file arrives, the vectors stay in 32 bits |

Bounds.  In `gobackn` premature timeouts make the sender give up whatever is lost,
so the ends of both programs are reached in every combination; packets that are
sent again are the duplicates.  In `selective` the sender cannot time out three
times in a row, which is the condition under which arrival is promised, and two
losses are the most for which Selective Repeat is right (three reach the case
`ReceivedAll` of section 9).
Fairness: both processes run (weak fairness of `SenderStep` and `ReceiverStep`); a
blocked `recvfrom` returns, with a packet or when its time has passed.

---------------------------------------------------------------------------

## 4. TecnicoFS, batch version

### Model and code

| model | code (`Operating Systems/Proj2/main.c`) |
|---|---|
| `ReadLine` | a turn of the loop of `processInput`; after the last line it inserts the end command |
| `WaitForSlot`, `Store`, `Post` | `insertCommand`: `sem_wait`, the copy under `loadLock`, `sem_post`; the producer and a worker that ends call it |
| `Take` | `commandsLock`, `removeCommand` |
| `Parse` | `sscanf` of the slot, `sem_post(&loadInputCommand)`, the inumber of a create, releasing `commandsLock` |
| `Alert` | the `sem_post` of line 184 and the return of the thread |
| `Create`, `Lookup`, `Delete` | the visit to a bucket under its lock (`fs.c`) |
| `LookupName`, `LookupNewName`, `RemoveName`, `CreateNewName` | the four visits of a rename |

`removeCommand` returns a pointer into the buffer: the slot is read by `Parse`, a
step after its position was given up.  That is where `NoOverwrite` could fail.  A
worker that waits on `executeCommand` holds `commandsLock`; since the only other
threads that want that lock are workers, which would wait on the same semaphore,
lock and wait are one step.  `sscanf` of a slot that was never written assigns
nothing: the worker goes on with the command it had before, or with an
uninitialised token, of which only the outcome "not a command", the exit of the
process, is modelled.  The trees of a bucket are abstracted to a function from
names to inumbers (`insert` of a name that exists overwrites its inumber, as in
`lib/bst.c`).  The build without `MUTEX` and `RWLOCK` has one worker and is the
instance with one.

`CommandStream` is the abstract specification: commands are handed out one at a
time, in order and each once, and a worker stops only when none is left.  The
property `InOrder` says that `TecnicoFSBatch` implements it, with `taken` mapped to
the commands parsed and `stopped` to the threads that have returned.

### Runs

| run | instance | shows |
|---|---|---|
| `buffer` | 2 workers, 2 slots, 7 lines of every kind | types, no overwriting, unique inumbers, the refinement, termination |
| `stuck` | 3 workers | the finding of section 9 |

Two slots for six commands make the buffer full and empty and wrap it three
times.  Two workers are the most for which the program is right.  The input holds
one rename of each name: with two renames of one name that overlap, two names
get one inumber, which no document excludes (a hazard, not a finding).
Fairness: every thread that can run is scheduled (weak fairness).

---------------------------------------------------------------------------

## 5. TecnicoFS, server and client

### Model and code

| model | code (`Operating Systems/Proj3`) |
|---|---|
| `pc[c]`, `request[c]`, `inumber[c]` | where the thread of client `c` is in `processCommand` and `applyCommands`, the command it read, and its local `iNumber` |
| `waiting[c]`, `replies[c]` | the client library: it writes a request and reads one answer (`readOutp`) |
| `tree`, `lock` | `bstRoot` and `bstLock`; a name's node is in the tree of its bucket |
| `inode` | `inode_table`: owner and permissions |
| `openFile` | the descriptors of the `client` record |
| `CreateLookup`, `inode_create`, `create` | case `c`; three visits, with nothing held in between |
| `DeleteLookup`, `DeleteCheck`, `delete`, `inode_delete` | case `d` |
| `OpenLookup`, `Open`, `Close`, `Read`, `Write` | cases `o`, `x`, `l`, `w` |
| `RenameLookupNew`, `RenameLookup`, `RenameLookupAgain`, `RenameCheck` | case `r` up to line 180 |
| `Search`, `RenameInBucket`, `TryFirst`, `TrySecond`, `RenameAcross` | `reName` |
| `tfsMount`, `tfsUnmount`, `Exit` | connecting, leaving, and the end of `main` after the last client `runThreads` accepts |

A visit to a bucket under its lock is one step, and so is a call of the i-node
table under its mutex.  `Inside` says who may hold a bucket's lock at the moment,
which is all a `try_lock` of another thread can notice of such a step.  Contents
of files are left out; `Read` and `Write` are kept for their answers.

What the code does and the model keeps:

* `syncMech_try_lock` returns 0 for success, and `reName` takes 0 for a failure
  (fs.c 84-85).  Left alone it still ends with both locks: it takes the first, finds
  it taken (by itself), takes the second, gives the first back, takes it again, and
  finds both taken.  With another thread near, it may believe it holds a lock of
  that thread's; releasing it is undefined (`defined`).
* The locks are only taken if both searches succeed, but released always (80, 102).
  A file made when the table was full has inumber -1, which `lookup` cannot tell
  from "no such file": renaming another file to its name gets past line 169,
  and `reName` releases a lock nobody holds.  `StaysDefined` names this exception.
* A rename between buckets assigns the root of the second bucket to the first
  (fs.c 99): the other files of the first are lost, and two locks guard one tree
  (`shared`).
* A rename of another user's file is never answered (main.c 180): its thread reads on
  and its client waits for ever (`pc` is "refused").  An open without a free descriptor is answered twice (212-217, 264-267).
  `close` looks up an uninitialised name (306): the model lets it be any name of the
  instance, or text that falls into the bucket of one, whose lock it waits for.  `read` looks at the first
  descriptor only.
* The server exits after the fifth client it accepts (351-400, 431), whatever the
  others are doing.

Nothing is said of the server after an undefined act or after two buckets share a
tree: what follows is either undefined by C or an unsynchronised use of one tree.

`disturbed` remembers that two commands met: a name changed its node while two
commands under way use it, or a rename was at the locks of two buckets while
another thread was at one.  The races of such commands are known and not subtle
(two creates of one name both see it missing and leave an i-node without a
name); the properties are about what must hold although everything else interleaves: the i-node table, the
descriptors and all names that only one command uses.

### Runs

| run | instance | shows |
|---|---|---|
| `server` | 2 clients of 2 users, 3 names in 2 buckets, 2 i-nodes, 1 descriptor each, 4 requests of every kind | names and i-nodes match; only owners remove files; a rename left alone does nothing undefined; every request is answered but for the rename of a file that is not the client's |

Bounds.  Four requests (`MaxRequests`) make a file, use it twice and fill the table
of two i-nodes and the one descriptor; two clients are enough for a race.
`Unanswered` is the only exception to `EveryRequestIsAnswered` while the server is followed: a
rename was given up at the owner's check, and the file is indeed another's, or its
i-node was freed since it was looked up; every other rename is answered.
`Requests` are those of `MCTecnicoFSServer`; the order of a request's steps and
the order of the clients are free.  Fairness: threads run, and a client reads the
answer that has come (weak fairness).  A blocked `wrlock` is granted when the lock
is free for good.  `Exit` is not fair: the property must hold while the server
lives.

---------------------------------------------------------------------------

## 6. Routing protocols

### Model and code

| model | code (`Computer Networks/Project 2`) |
|---|---|
| `RoutingSimulator` | `routing-simulator.cpp`: the topology, the event queue, `process_event`, `set_route`, `send_message`, what a topology file can ask for |
| `DistanceVector` | `dv.c`, and `dvrpp.c` with `Poisoned`: both handlers and `bellmond_ford` |
| `PathVector` | `pv.c`, with `set_path` and the variable `inPath` |
| `LinkState` | `ls.c`, with `Dijkstra` and the flooding |
| `Routing` | the four simulators, one of which runs (`protocol`) |
| `Routes` | the minimum the routers share, and the reference: shortest paths and where a packet gets |

The simulator's queue is a priority queue of events; messages take one unit of
time.  `events` holds those of the current time, link changes first, and `later`
those of the next; that is all the order there is.  Link changes come at the next time, while
messages are still on their way, or when all is quiet.  Costs are those of
`routing-simulator.h`, `COST_ADD` saturates.  `RoutesUseLinks` is what the assertion in
`set_route` (lines 490-491) asks of a route when it is set, kept ever after.

What the code does and the model keeps:

* dv.c 98: neighbours are told of a change of the node's own costs, not of a link
  that comes up.  Trace: the line 1-2-3-4; links 2-3 and 3-4 break; while the
  costs count up, link 1-3 comes up with the cost 1 has for 3 through 2 at that moment.
  1 changes no cost and tells 3 nothing; 3 never learns how to reach 2.
* dv.c 69: costs only count up along links that cost something.  Trace: the line
  1-2-3 with costs 0 and 1; link 2-3 breaks.  1 and 2 keep the cost 1 for 3 through each
  other, nobody's cost changes, and all is quiet.  The simulator reads any cost
  (`routing-simulator.cpp` 121-127), the repository's topology files have no 0; the
  instances have none either, and the theorem on distance vectors says so.
* dvrpp.c 80-83: the next hop is kept only with a new cost, so that the poison goes
  to a hop that is no longer used, against the comment of line 106.
  Trace: the line 1-2-3-4 of cost 1; link 1-4 comes up, so that 3 reaches 1 by 2 or by 4 at
  the same cost; then 1-2 breaks.  3 uses 4 but still tells 2 infinity: 2 has no
  route to 1 for ever.
* pv.c 127: `inPath` is left from the last node looked at.  Trace: links 1-2 and
  1-4; then 1-2 breaks.  The path of 4, the last node, to 2 comes by 1, so 1
  passes over destination 2 and keeps the route over the broken link.
* pv.c 71-82: `set_path` puts the next hop in front of the node's own old path at
  each update, so that a path is a history of next hops rather than the way to the
  destination that its comment names.
* pv.c 128-137 and 162: neighbours are told of a change of the node's own costs only,
  as in dv.c.  Trace: the network 1-2, 2-3, 1-3, 2-4 of cost 1; link 1-2 breaks, so that
  1 reaches 2 and 4 by 3, at costs 2 and 3.  Then 2-4 breaks and 1-2 comes up with cost 2.
  2 loses its route to 4 before its link to 1 is back, and the link changes no cost of 2:
  it tells 1 nothing.  1 finds the old cost of 2 for 4 as good as what 3 offers, and
  keeps a route to 4 by 2, which has none.
* ls.c 89: only neighbours are visited by `Dijkstra`, against the comments of 80, 85 and
  88.  On the line 1-2-3-4 the ends never get a route to each other (the run `unvisited`).
  `LinkRoutesAreShortest` compares with the shortest paths, `ShortestWithin(FALSE)`, and
  excepts the destinations of which no shortest path stays among the node's
  neighbours: there the cost is that of the cheapest path that does, `ShortestWithin(TRUE)`.
* ls.c 83: a node without neighbours reads `next_hop` uninitialised
  (`CrashInDijkstra`); `build-report.md` records that count-to-infinity.net fails.  When neighbours
  are left but none is open, `next_hop` is that of the round before, which was
  visited: the round changes nothing.

### Runs

| run | instance | shows |
|---|---|---|
| `unvisited` | the line of 4 nodes, no changes | link state routers do not find all routes (section 9) |
| `routing` | 4 nodes; a pair, a line, a ring, a diamond, a kite; then two times of link changes, any link to 1, 2 or infinity, two links of node 3, or 1-2 that comes up while 2-4 breaks; infinity is 8 | each protocol's routes against the reference, the routes while messages travel, versions of flooded copies, and that messages die out |

Bounds.  Four nodes are the least for a detour, a loop beside the broken link, and
a part that is cut off; two times of changes (`MaxChanges`) put a change among the
messages of the other.  `CostInfinity = 8` is more than the longest path (6) and
keeps the counting short.  Fairness: `WF_events(Progress)`, the loop of
`process_events`, which ends only when the queue is empty; `LinkChanges` is not fair.

---------------------------------------------------------------------------

## 7. Billiard table

| model | code (`Computer Graphics/Proj2/Proj2.js`) |
|---|---|
| `onKeyDown` | the key handler: cues, colour, angle, shot, cameras |
| `animate` | `checkBallPlace`, `mudaCorTaco`, `direcionaTaco`, `daTacada`, in the order of a frame, then a queued `update` |
| `UpdateBall` | a turn of the loop of `update`: `moveBall`, `checkCollisionBall`, `checkCollisionHoles`; no key falls between two turns |
| `running` | the last line of `animate` was reached, which asks for the next frame |
| `careless` | a key was pressed for which the handlers are not made: a shot without a red cue, a cue key before the last one was seen |

Geometry is a choice: which balls touch, which is over a hole, how fast one
slows down.  Walls only turn a ball and are out.  An update is queued by every
frame for a second later, so that one may run at any time.

The run is `pages` of section 8, in which the table is one of the pages: at most one
cue is red or turned, the ball of a chosen cue stays where it was put, a shot is
taken by that cue only, frames end only after a careless key.  `BilliardTable`
declares the table's constants, for `Billiard` and for `Scenes`.

Bounds.  Two cues (`NumCues`) are enough for one key among the flags of another;
two balls (`NumBalls`): one that was shot rolls and takes the part of the balls
that lie on the table.  `AngleLimit = 0` keeps the turning short, a step to either
side, since a cue at the limit may still be turned; the limit is looked at the
same way at 333.  What ends the frames is told by `careless`, which is the very
case: `KeepsRunning` says that nothing else ends them.  No liveness: nothing must ever happen on this table.

---------------------------------------------------------------------------

## 8. The other pages

| module | code |
|---|---|
| `Mobile` | Proj1.js: the keys that turn branches and swap wireframes |
| `Truck` | Proj3.js: lights and helpers, the ten parts whose materials each branch of a key exchanges, cameras, `onResize` with the window it remembers |
| `Golf` | Proj4.js: lights, materials, wireframe, ball, pause screen, refresh |
| `OrbitControls` | OrbitControls.js: pointers, fingers, the wheel; what the browser cancels |
| `Scenes` | one window that shows one of the four pages |

The pages share nothing; `Scenes` puts them into one run, with the closed pages
standing still.

| run | instance | shows |
|---|---|---|
| `pages` | 3 branches; 2 cues, 2 balls, one step of angle to each side; 2 meshes, windows of 3 sizes a side or none, 2 pointers, 3 fingers | the billiard table as section 7 says; handlers agree on what they change together; the side camera fits the last window resized while it was active, square ones excepted; a refresh asked for is done; gestures are attended to as long as they are made |

`WF` of `GolfFrame` is the browser's promise to `requestAnimationFrame`, which
`animate` asks for unconditionally.  Three fingers are one more than any gesture
has, two pointers share one pair of listeners.

Told by the models and by no property: in Proj1 the key whose comment (line 277)
says that it activates the wireframe only swaps it between rods and figures.  In
OrbitControls a pointer that the browser cancels leaves its listeners behind;
`cancelled` excuses it.  In Proj3 a window that becomes square, by a change of width
to the height remembered as a width, leaves the side camera with the proportions
it had; `SideCameraFits` without its second disjunct shows it.  In Proj4 a refresh
leaves the wireframe of the basic materials as it was, for all meshes alike.

---------------------------------------------------------------------------

## 9. Findings

Each is a run whose property quotes a comment or a document, and which TLC
violates.

* `diverge`: because an eviction keeps the instant of the enrollment, two replicas
  that evict different students never agree again, while `ProjectStatement.md:68-69`
  says that both servers must have the same state.
* `stuck`: in the batch TecnicoFS a worker that ends posts `executeCommand` once
  more than it fills slots.  From three workers on, another worker takes a slot
  that nobody filled, the end of the commands can be passed over, and a worker
  waits for ever.
* `unvisited`: comments of `ls.c` (80, 85, 88) say that `Dijkstra` visits every node; the
  condition of line 89 admits neighbours of the node itself only.  With nodes 1 to 4 in a
  line and all link states known everywhere, 1 has no route to 4 and 4 none to 1.

More documented expectations are stated in the modules and fail.  They have no run
of their own; each can be seen by putting it in the place of the property of a
run named here, with the constants given:

| expectation | module | how to see it fail | why |
|---|---|---|---|
| `CapacityRespected` | `Turmas` | `replicas`, with capacities 1 and 2, `MaxClock = 5`, `MaxOutstanding = 1` | `ProjectStatement.md:76-77`: students beyond the capacity are moved to the cancelled enrollments; the code compares with the capacity of the frame a student enrolled in and keeps a class above its present capacity |
| `OpenMatchesTimeline` | `Turmas` | `replicas` | `Class.java:517` decides "open" by the end of the received frame even if the local one, already closed, was kept |
| `EvictionIsAnAction` | `Turmas` | `replicas` | the cause of `diverge`: an evicted student keeps the instant of the enrollment |
| `FirstEnrollmentWins` | `Turmas` | `replicas` | of two enrollments of one student the local one is kept, not the first |
| `DeliveredAll` | `FileTransfer` | `gobackn`, with `Full = 0`, `Rest = 500`, windows of 1, `MaxSeq = 99`, `Faults <- Loopback`, `MaxLosses = 1`, `MaxInTransit = 0` | a file shorter than a chunk, whose only packet is dropped: the sender exits with success at its first timeout, since `last_chunk + 1` wraps to 0 (`file-sender.c:134-136`) |
| `ReceivedAll` | `FileTransfer` | `selective`, with `Full = 4`, `Rest = 500`, windows of 3, `MaxLosses = 3` | the receiver shifts its vector one bit less than it moves its window and reports an incomplete file complete (`file-receiver.c:107-111`, 142) |
| `SelectiveAcksReceived` | `FileTransfer` | as `ReceivedAll` | the cause of that: acknowledgements claim chunks that never came |
| `SkipsOnlyReceived` | `FileTransfer` | as `ReceivedAll`; without any loss for `Full = 6`, windows of 4, `Faults <- Unordered` | the sender consumes an acknowledgement's bits from `to_send` on though they are aligned to the window base, and passes over a chunk it never sent |
| `NothingAfterTheEnd` | `TecnicoFSBatch` | `stuck` | a worker applies an old command again |

`DeliveredAll` and `ReceivedAll` hold in the run `gobackn`, where the file has
more chunks than the window and the receiver a window of one.

One more behaviour is recorded as a hazard and not as a finding, for want of a
statement it contradicts: a primary that is killed and started again opens a
frame of its own; when a secondary then sends back the old timeline,
`correctTimeline` can store one frame under two keys, and the message made of it
makes `Collectors.toMap` throw at every receiver.

---------------------------------------------------------------------------

## 10. What is proved

The proof modules are `TurmasProofs`, `TurmasTimelineProofs`,
`FileTransferProofs`, `TecnicoFSBatchProofs`, `TecnicoFSServerProofs`,
`RoutingProofs`, `BilliardProofs` and `ScenesProofs`, checked by TLAPS.  Every theorem holds for every value
of the constants that their named assumptions allow; a hypothesis beyond these is
in the theorem's statement and explained here.

### Turmas, records

`TypeCorrect`, `RecordsAlwaysAgree`, `RecordsNeverGoBack`, for any number of servers,
students, commands, messages and instants.  `RecordsAgree` is not inductive: a
message in flight and a handler's received class must be sound too, and no instant
may lie after the clock (else a new action would not be later than what a replica
knows).  The invariant `IndInv` is that every class state, received class and
message is sound at the present instant.  The first part of `TurmasProofs` proves for
each operator of `TurmasClass` that it keeps a sound class sound and only moves a
student's record forward; the second goes through the actions with those lemmas.

### Turmas, timelines

`TimelinesStayPrefixes`, `NothingEverThrows`, `RestartsAreHarmless`,
`CapacityStaysCurrent`, `EnrolledStayWithinHistory`, all under the hypothesis
`Primary \notin Restartable`.  It is necessary: a killed primary opens a frame of
its own beside the one the secondary remembers (the end of section 9), and TLC then
finds each of the five violated.  Secondaries may be killed at any moment.

The invariant `TimelineInv` has every timeline (of a replica, in a handler, in
flight) a map with one frame for an instant (`OneFramePerInstant`), none later than
the clock, and an initial part (`InitialPart`) of the primary's.  The heart is a fact
about keys: two initial parts of one timeline have comparable sets of keys, so that
comparing the *lengths*, which is all `correctTimeline` does, compares the
timelines.  From there: a merged timeline is one of the two and hence an initial
part; the primary is never taken to be behind, so that its timeline only grows by
its own openings and only the end of its last frame is ever received; the frames of a map can be collected by their starts; the newest
frame has the capacity in force; and the students kept by `validateStudent` and
`mergeStudents` are counted against the frame they came from.

`ReplicasShareTimeline` (`Spec => TimelineIsShared`, the refinement of
`SharedTimeline`, under the same hypothesis).  An opening maps to `OpenFrame`, since the clock
is later than every frame; a close, or the primary's merge with a timeline of the
same keys, to `CloseFrame`; a secondary's merge to `Learn`; a restart to `Forget`;
all else to a stutter.  `Learn` asks that the local timeline is an initial part of the
merged one.  Both are initial parts of the primary's and the keys are comparable, so what
is left is the end of the last frame: it is not forgotten because a timeline of the
same length is only taken with an end, and in a longer one that frame is
no longer the last and has the end that the primary has (`PartOfPart`).

### File transfer

`TypeCorrect` and `SenderNeverAhead` for all windows and networks;
`GoBackNHasNoGaps`, `GoBackNReceivesAll` and `GoBackNDelivers` for a receive
window of one chunk.  The invariant `IndInv` adds that no acknowledgement on
its way is ahead of the receiver (`AcksBehind`), that only a short chunk is
taken for the last (`LastChunks`), where the sender is in its window
(`SenderPlace`), and that chunks are written in order (`InOrder`).
`GoBackNDelivers` needs a file of at least as many full chunks as the window:
`DeliveredAll` in section 9 shows that the assumption is needed.

`GoBackNImplementsDelivery` (`Spec => DeliversInOrder`, the refinement of
`ReliableDelivery`, under both hypotheses).  `GoBackNHasNoGaps` says that all chunks
below the receiver's base are written and `NothingAhead` that no other is, so that the
file is as long as the base is far and what is written next is the next chunk; a segment
that comes twice, late or too soon maps to a stutter, the end of a program to
`SenderEnds` or `ReceiverEnds`, whose success the two theorems before allow.

### TecnicoFS, batch

`TypeCorrect`, `NeverOverwrites` (`Spec => []NoOverwrite` for at most two workers) and
`NoOverwriteUntilTheEnd` (`Spec => [](NobodyDone => NoOverwrite)` for any number of
workers).  The invariant `BufferInv` is an account: free slots, filled slots, threads that
hold a slot they have not written or posted yet, and workers between `Take` and
`Parse` add up to the buffer, and the two positions differ by the commands
inserted and not taken.  The `sem_post` by which a worker that ends wakes the next one (`Alert`)
counts a command that nobody inserted; with two workers only the last worker can take
it, with three TLC finds `NoOverwrite` violated (`MaxCommands = 3`), hence the two
theorems.

`BufferImplementsStream` (`Spec => InOrder`, the refinement of `CommandStream`, for at most
two workers).  `StreamInv` says that the commands parsed, the slots from the one being
parsed to the last stored (`Ahead` counts them), and the command that is carried to
the buffer are successive parts of one stream (`InStream`): the commands of the
input, then the end again and again.  When the first worker returns, `OnlyTheEndIsLeft`
takes over: all is parsed, and what the other worker finds is the end.
`Alert` maps to `Stop`, `Parse` of a command to `HandOut`, all else to a stutter.
With three workers `NothingAfterTheEnd` (section 9) fails and so does the refinement.

`InumbersStayUnique` (`Spec => []InumbersUnique`, for at most two workers and inputs of which
`RenamedOnce` holds, as it does of the run's).  A rename looks its inumber up, lets go,
and only later removes the name: `OwnInumbers` says that an inumber that is
`Found` can be under no other name and one that a worker `Holds` under none, and that no two
workers have the same; it needs `RenamesApart`, that whoever renames a name is the only one to do so,
now and in what is still to be parsed.  It rests on the refinement: a command that
was handed out twice would be a second rename.

### TecnicoFS, server

`FilesKeepTheirInodes`, `NothingUndefined` and the action property `OwnersAlone`, for any
number of clients, names, buckets, i-nodes, descriptors and requests.  They share the
invariant `ServerInv`:

* What a thread looked up stays true until it acts (`LookedUp`): its local
  `iNumber` is still that of the name it uses, its client still owns it where that was checked.
  Another thread could only change this by changing that name, and then the two
  commands clash, which `disturbed` records.
* An i-node in use has a name, or is in flight (`InFlight`): a thread took it in
  `inode_create` and has not inserted it, or removed its name and has not deleted it, and no other
  thread or name has that number.
* A rename at two locks that nobody met holds every lock that is held
  (`LocksHeld`), so that the double negations of `reName` can be followed try by
  try, and what it releases it holds.

The assumption on `User` is that users are naturals: `uid_t` is unsigned, and its
largest value, which marks a free i-node (`inodes.h`, `FREE_INODE`), is no user's.

### Routing protocols

`TypeCorrect`, `RoutesKeepUsingLinks`, `CopiesStayOld`, `LinkRoutesSettleShortest`,
`DistancesSettleShortest` and `PathRoutesSettle`, for any number of nodes, any infinity, networks, link changes and times of them, and whichever of the four routers
runs.  A route is one handler's work, but the topology changes before the handler is
called, and for one end of a link before the other; so the invariant `IndInv` is mostly
about the queue:

* Events come in order (`EventsInOrder`): pairs of notifications of one change to the two ends of
  the link, then messages.  In between, the second end is not told
  (`HalfTold`), and its event is the next.
* With link states a node knows its own links as they are, but for such a
  half-told one (`OwnLinksKnown`): `Dijkstra` reads these and not the topology.
* `NoRouteToOneself`, since `set_route` is not called for the node itself.

A handler is `Sound` if it leaves the types, the own links of link states, and routes
over links that are up.  `ProcessStep` shows once, for the simulator, that any sound handler
keeps the invariant; that each is sound follows for the vectors from the minimum
they take over neighbours (`CheapestRoute`, `CheapestThrough`), and for link states from a
property of each round of `Dijkstra` (`VisitKeepsWays`): whatever has a
finite distance has a neighbour for a first hop.  A path vector router that passes over
a destination keeps its old route, hence `PassedOver` in the property.

`CopiesAreOld` is inductive with `OwnLinksKnown` beside it: only a link
event changes a node's own link state, and then its version; a message never
brings a node a newer version of its own links.

`LinkRoutesSettleShortest` rests on two more invariants.  `RoutesAsKnown`: a node's routes
are at all times the cheapest by the link states it has, over its own neighbours.
It is about `Dijkstra` alone: after k rounds k nodes are visited (`VisitCounts`), no
node left to visit is closer than a visited one (`Relaxed`, `Open`), and so the
distances of the last round are the cheapest ways (`ShortestKnown`).  `NeighborsHeard`: each
end of a link that is up has the newest link state of the other end or a message on its
way brings it, or the other end is told of the link next.  Once nothing is on its way a
node has the newest link states of its neighbours, and these are all that
`ShortestWithin(TRUE)` looks at (`SettledKnown`): the cost of each route is the one it
gives, which is the shortest path's wherever the two references agree.  Neither says
anything of link states from beyond a neighbour: they may be old for ever.

`DistancesSettleShortest` has the hypothesis `PositiveCosts`: no link costs nothing, at
first or after a change.  It is necessary (the trace for dv.c 69 in section 6, found by
TLC).  What the property itself leaves out, `unheard` links and next hops that disagree, stays left out.
Two more invariants hold while messages travel:

* `RoutesByTable`: a node's routes are the cheapest by its table, its own row is what they cost, unless
  it is told of a link next.
* `VectorsHeard`: each end of a link has what the other end would tell it now, or the
  last message on its way from there brings it (`Latest`, over both queues in order), or the
  other end has told nothing since the link came up (`unheard`).

Once nothing is on its way the costs are `Balanced`: no node could do better by
one of its links, and each finite cost is that of one link more than a neighbour's
(`SettledBalanced`).  With reverse poisoning a node may know infinity of a neighbour instead, but then it is that
neighbour's next hop, and nearer than the neighbour.  Balanced costs are those of the
reference.  No path costs less (`NotCheaper`, by the rounds of the reference).  None of
them is too low (`NotDearer`): a node is reached when the reference is down to its
cost; of the nodes not reached yet the one with the least cost has it by a link to a
node with less, as the link costs something, which is reached already, so
that each round reaches another node (`RoundReaches`, with `FirstLink`: paths of the reference also
grow at their first link), and N rounds reach all.

`PathRoutesSettle` has the same hypothesis and the same two kinds of invariants:

* `PathsByTable`: a node's routes are the cheapest through the neighbours whose announced
  paths do not come by it, but for destinations it passed over, and its own row is what
  the routes cost.
* `PathsHeard`: each end of a link has the other's costs, or the last message on its way
  brings them, or the other has told nothing since the link came up (`unheard`).  It says
  nothing of the paths that come with them (there are *some* paths): `set_path` changes a
  node's paths at every update, also when no cost changes and nobody is told.

What is settled is thus only one half of `Balanced`: where a destination is not passed
over, a finite cost is that of one link more than the next hop's (`SettledPaths`,
`Explained`), while a cheaper neighbour may have been left out because of an old path.
That half is enough.  Links cost something, so that costs fall with
every hop of a route (`Falling`), and a packet can pass no more nodes than cost more than the
one where it is: after N hops it is at the destination or at a node that passed it over
(`FollowArrives`).  And explained costs are never below the reference, which is the
lemma `NotDearer` again.  Routes that are dearer than the shortest, or missing, are what
old paths do to the network; the property does not exclude them, since the code does not.

### Billiard table

The three invariants of the run `pages` about the table (`AtMostOneRedCue`, `AimedBallStays`,
`CarefulUserKeepsFrames`) and its action property (`ShotsTakenWithRedCue`), for any
number of cues and balls and any limit of the angle.  The invariant `IndInv` adds to
them that a chosen cue is red or turns red at the next frame (`ChosenTurnsRed`), what
the flags say of each other while nobody was careless (`FlagsInOrder`: a shot is
only pending with a red cue that is kept), and that the falling ball is not the
chosen one (`NotFalling`), without which a frame could lower the ball that was put
back.

`ScenesProofs` carries these over to the table as one of the pages (`TableHasOneRedCue`,
`TableAimedBallStays`, `TableKeepsFrames`, `TableShotsAimed`): whatever page is open, the
table does what it would by itself (`TableByItself`), since the steps of the other pages
leave its variables alone.

### The other pages

`HandlersKeepAgreeing`, `SideCameraKeepsFitting`, `GesturesStayHeld`, for any branches,
parts, meshes, window sizes, pointers and fingers.  The invariant is `PagesInv`, one part
for each page that keeps something its properties do not mention: `MobileInv` and
`GolfInv` add the types of the flags, and `TruckInv` how the three numbers that
`onResize` remembers belong together (the remembered height is one the side camera fits, with
its width or with the same height again; the last window seen is the fitted one or
square).  `SideCameraFits` alone is not inductive, since the next call computes from
the remembered numbers.  `GesturesAreHeld` is.

### Only model-checked

* Liveness (`SF`/`WF` of every run that has it): TLAPS does not reason about fairness or
  ENABLED.
* What is particular to Selective Repeat.

The models are built without RECURSIVE operators, which TLAPS cannot use.  Recursive
functions are reasoned about with `LeastNatural` (a non-empty set of naturals has a least
member): `CommandsReadDefined` proves in this way that the recursive definition of
the commands of an input defines a function, and `ReadsGrow` and `CommandsAreCommands`
what it yields; `RecursionDefined` and `StepsTaken` of `RoutingProofs` do so for any
function that is computed step by step, and are used for the rounds of `Dijkstra` and of the
reference and for the messages of a handler.

---------------------------------------------------------------------------

## 11. What is not modelled, and why

* Naming server and clients of Turmas: only the set of peers, and commands that
  come to any server in any order.  The retry of a call whose deadline passed at
  another server, and a naming server that lists dead servers, are planned.
* TecnicoFS server: contents of files; `SIGINT`, which prints the tree and exits; a
  client that dies in a request; the array `worker`, which has room for one thread
  (main.c 355).  What follows an undefined act (section 5).
* TecnicoFS Proj1: the same commands without threads.
* Pages: walls of the table; the angle, slide and cameras of the mobile, which no
  other handler reads; the flag and the resizing of the golf course; the arrow keys
  of OrbitControls, whose handler hangs on an element that cannot take the focus.
  The `index.html` files name scripts that are not all in the repository.
* three.js: a vendored library of some 42 000 lines, three copies of which lie
  beside the pages.  They are most of the repository's JavaScript and none of its
  logic; the pages use them to build and draw a scene graph.
* Library application: sequential, and one of its classes is in the repository
  only as a compiled file.
* The interpreters, the solver, the algorithm exercises: one pass over an input,
  no concurrency or failure.
* The compiler: tree walks on vendored libraries.  Assembly, Turing machine: they
  run only in simulators that are not in the repository as source.  SQL, sketches,
  diagrams, reports: no program logic.

---------------------------------------------------------------------------

## 12. Plan

Done: `TurmasClass`, `Turmas` and `SharedTimeline` (records, timelines and the
refinement proved), `FileTransfer` and `ReliableDelivery` (Go Back N and the
refinement proved), `CommandStream` and `TecnicoFSBatch` (proved),
`TecnicoFSServer` (proved), the billiard table and the other pages (proved), the routing
protocols (routes, flooding, and what link states, distance vectors and path vectors
settle on proved).  Every invariant, action property and refinement of the passing runs is
a theorem.  Next, in this order:

1. Theorems: the part of Selective Repeat that holds.
2. `TurmasNaming`: registration, removal and lookup, clients that retry at another
   server after a deadline; composed with the enrollments of `TurmasClass`.
3. An abstract specification of the enrollments themselves: what the replicas
   promise together of a student whose actions reach different servers.
