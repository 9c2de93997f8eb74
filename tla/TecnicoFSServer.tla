---------------------------- MODULE TecnicoFSServer ----------------------------
(***************************************************************************)
(* The TecnicoFS server of Operating Systems/Proj3: a thread per client    *)
(* that reads a request from the client's socket, applies it and answers,  *)
(* and the client library, which waits for the answer of each request.     *)
(*                                                                         *)
(* A visit to a bucket under its lock is one step, and so is a call of the *)
(* i-node table under its mutex; whatever a request looks up may be stale  *)
(* in its next step.  The two searches of reName that no lock covers are   *)
(* taken to read the trees at one moment.  What a file holds is left out,  *)
(* and a tree is what it maps each name to.                                *)
(*                                                                         *)
(* Releasing a lock that is not held is undefined, and a rename between    *)
(* buckets leaves the files of the first one behind and two locks for the  *)
(* tree of the second: nothing is said of the server after either.         *)
(***************************************************************************)
EXTENDS Integers, Sequences, FiniteSets

CONSTANTS
    Clients, User,      \* client processes, and the user each one runs for
    Names, Buckets,
    Hash,               \* the bucket of a name
    TableSize,          \* INODE_TABLE_SIZE: 50 in the source
    MaxOpenFiles,       \* MAX_OPEN_FILES: 5 in the source
    MaxClients,         \* MAX_CLIENTS: 5 in the source
    Requests,           \* the requests that are made in this instance
    MaxRequests         \* bound on how many

Inodes == 0..(TableSize - 1)
Slots  == 1..MaxOpenFiles

NONE  == 0
WRITE == 1
READ  == 2
RW    == 3
Permissions == NONE..RW

Request ==
    [op : {"create"}, name : Names, owner : Permissions, others : Permissions]
        \cup [op : {"delete"}, name : Names]
        \cup [op : {"open"}, name : Names, mode : Permissions]
        \cup [op : {"rename"}, name : Names, new : Names]
        \cup [op : {"read", "write"}, fd : Inodes]
        \cup [op : {"close"}, name : Names]    \* not sent, see Close

ASSUME ServerAssumption ==
    /\ User \in [Clients -> Nat] /\ Hash \in [Names -> Buckets]
    /\ TableSize \in Nat \ {0} /\ MaxOpenFiles \in Nat \ {0}
    /\ MaxClients \in Nat /\ MaxRequests \in Nat
    /\ Requests \subseteq Request

\* What may stand where a name is looked for: no node, or one with an inumber,
\* which is -1 when the table was full.
NoNode == -2
NoInode == -1

FreeInode == [owner |-> -1, ownerPermissions |-> NONE, othersPermissions |-> NONE]
FreeSlot  == [fd |-> -1, mode |-> -1]
Free == "free"

\* Answers of the server, but for the descriptor of an opened file.
OK             == 0
ALREADY_EXISTS == -4
NOT_FOUND      == -5
DENIED         == -6
MAXED          == -7
NOT_OPEN       == -8
IS_OPEN        == -9
INVALID_MODE   == -10

VARIABLES
    tree,        \* the nodes by name, each in the tree of its bucket
    lock,        \* per bucket, the thread that holds its lock between two steps
    inode,       \* the i-node table
    openFile,    \* per client, its descriptors
    pc,          \* per client, the next step of its thread
    request,     \* per client, the request its thread works on or did last
    inumber,     \* per client, iNumber
    waiting,     \* per client, it waits for an answer
    replies,     \* per client, answers it has not read
    accepted, asked,    \* connections accepted, requests made
    running,     \* the server process lives
    defined,     \* it has done nothing undefined
    shared,      \* the roots of two buckets point to one tree
    disturbed    \* two commands got in each other's way (see Disturb)

files   == <<tree, lock, shared>>
thread  == <<openFile, inumber>>
clients == <<request, waiting, accepted, asked, running>>
vars == <<files, inode, thread, pc, replies, clients, defined, disturbed>>

Init ==
    /\ tree = [n \in Names |-> NoNode]
    /\ lock = [b \in Buckets |-> Free]
    /\ inode = [i \in Inodes |-> FreeInode]
    /\ openFile = [c \in Clients |-> [s \in Slots |-> FreeSlot]]
    /\ pc = [c \in Clients |-> "out"]
    /\ request \in [Clients -> {CHOOSE r \in Requests : TRUE}]
    /\ inumber = [c \in Clients |-> NoInode]
    /\ waiting = [c \in Clients |-> FALSE]
    /\ replies = [c \in Clients |-> <<>>]
    /\ accepted = 0 /\ asked = 0
    /\ running = TRUE /\ defined = TRUE /\ shared = FALSE /\ disturbed = FALSE

-----------------------------------------------------------------------------
(* The client library.  A client that has answers left over, because there *)
(* were two, would take them for those of its next requests; it is only    *)
(* followed until then.                                                    *)

tfsMount(c) ==
    /\ pc[c] = "out" /\ accepted < MaxClients
    /\ pc' = [pc EXCEPT ![c] = "idle"]
    /\ accepted' = accepted + 1
    /\ UNCHANGED <<files, inode, thread, replies, request, waiting, asked, running, defined>>

\* The thread is reading from the socket, so that it begins at once.
Ask(c, r) ==
    /\ pc[c] = "idle" /\ ~waiting[c] /\ replies[c] = <<>>
    /\ asked < MaxRequests /\ asked' = asked + 1
    /\ request' = [request EXCEPT ![c] = r]
    /\ waiting' = [waiting EXCEPT ![c] = TRUE]
    /\ pc' = [pc EXCEPT ![c] = r.op]
    /\ UNCHANGED <<files, inode, thread, replies, accepted, running, defined>>

readOutp(c) ==
    /\ waiting[c] /\ replies[c] # <<>>
    /\ waiting' = [waiting EXCEPT ![c] = FALSE]
    /\ replies' = [replies EXCEPT ![c] = Tail(@)]
    /\ UNCHANGED <<files, inode, thread, pc, request, accepted, asked, running, defined>>

tfsUnmount(c) ==
    /\ pc[c] = "idle" /\ ~waiting[c]
    /\ pc' = [pc EXCEPT ![c] = "gone"]
    /\ UNCHANGED <<files, inode, thread, replies, clients, defined>>

\* runThreads ends after the last client it accepts, and main exits.
Exit ==
    /\ accepted = MaxClients
    /\ running' = FALSE
    /\ UNCHANGED <<files, inode, thread, pc, replies, request, waiting, accepted, asked, defined>>

-----------------------------------------------------------------------------
(* What the threads do is put together of these.                           *)

Name(c) == request[c].name
New(c)  == request[c].new

lookup(n) == IF tree[n] = NoNode THEN NoInode ELSE tree[n]

\* A visit to the bucket of n waits for its lock.
Visits(n) == lock[Hash[n]] = Free

At(c, step) == pc[c] = step

Continue(c, step) ==
    pc' = [pc EXCEPT ![c] = step] /\ UNCHANGED replies

Answer(c, codes) ==
    /\ pc' = [pc EXCEPT ![c] = "idle"]
    /\ replies' = [replies EXCEPT ![c] = codes]

Undefined(c) ==
    /\ defined' = FALSE
    /\ UNCHANGED <<files, inode, thread, pc, replies, clients>>

\* inode_get fails without setting the owner and the permissions, and the
\* caller goes on with what its variables hold.
Unknown(c) == inumber[c] = NoInode \/ inode[inumber[c]] = FreeInode

Owns(c) == inode[inumber[c]].owner = User[c]

-----------------------------------------------------------------------------
(* create.                                                                 *)

CreateLookup(c) ==
    /\ At(c, "create") /\ Visits(Name(c))
    /\ IF lookup(Name(c)) >= 0 THEN Answer(c, <<ALREADY_EXISTS>>)
                               ELSE Continue(c, "inode_create")
    /\ UNCHANGED <<files, inode, thread, clients, defined>>

\* Mutant: a number is taken whether or not it is free.
FreeInodes_Any == Inodes

FreeInodes == {i \in Inodes : inode[i] = FreeInode}

inode_create(c) ==
    /\ At(c, "inode_create")
    /\ \E i \in IF FreeInodes = {} THEN {NoInode}
                ELSE {j \in FreeInodes : \A k \in FreeInodes : j <= k} :
        /\ inumber' = [inumber EXCEPT ![c] = i]
        /\ inode' = IF i = NoInode THEN inode
                    ELSE [inode EXCEPT ![i] =
                            [owner |-> User[c], ownerPermissions |-> request[c].owner,
                             othersPermissions |-> request[c].others]]
    /\ Continue(c, "insert")
    /\ UNCHANGED <<files, openFile, clients, defined>>

create(c) ==
    /\ At(c, "insert") /\ Visits(Name(c))
    /\ tree' = [tree EXCEPT ![Name(c)] = inumber[c]]
    /\ Answer(c, <<OK>>)
    /\ UNCHANGED <<lock, shared, inode, thread, clients, defined>>

-----------------------------------------------------------------------------
(* open, close, read and write.                                            *)

OpenLookup(c) ==
    /\ At(c, "open") /\ Visits(Name(c))
    /\ inumber' = [inumber EXCEPT ![c] = lookup(Name(c))]
    /\ IF lookup(Name(c)) < 0 THEN Answer(c, <<NOT_FOUND>>) ELSE Continue(c, "opening")
    /\ UNCHANGED <<files, inode, openFile, clients, defined>>

\* May c open the i-node in this mode?
Allowed(c, mode) ==
    LET i == inode[inumber[c]]
        p == IF Owns(c) THEN i.ownerPermissions ELSE i.othersPermissions
    IN  mode # NONE /\ (IF mode = RW THEN p > NONE ELSE p \in {mode, RW})

\* The first of some slots.
First(slots) == CHOOSE s \in slots : \A t \in slots : s <= t

FreeSlots(c) == {s \in Slots : openFile[c][s].fd < 0}

\* A client that may open the file but has no slot left is answered twice.
Open(c) ==
    /\ At(c, "opening")
    /\ \E allowed \in BOOLEAN :
        /\ allowed => request[c].mode # NONE
        /\ ~Unknown(c) => allowed = Allowed(c, request[c].mode)
        /\ IF allowed /\ FreeSlots(c) # {}
           THEN /\ openFile' = [openFile EXCEPT ![c][First(FreeSlots(c))] =
                                   [fd |-> inumber[c], mode |-> request[c].mode]]
                /\ Answer(c, <<inumber[c]>>)
           ELSE /\ UNCHANGED openFile
                /\ Answer(c, IF allowed THEN <<MAXED, DENIED>> ELSE <<DENIED>>)
    /\ UNCHANGED <<files, inode, inumber, clients, defined>>

SlotsOf(c, fd) == {s \in Slots : openFile[c][s].fd = fd}

\* The client sends a descriptor, which is not looked at, and no name, so that
\* lookup is given whatever the variable holds: a name, or what is none and
\* falls into the same bucket as one.
Close(c) ==
    LET fd == lookup(Name(c))
    IN  /\ At(c, "close") /\ Visits(Name(c))
        /\ \/ Answer(c, <<NOT_FOUND>>) /\ UNCHANGED openFile
           \/ IF fd >= 0 /\ SlotsOf(c, fd) # {}
              THEN /\ openFile' = [openFile EXCEPT ![c][First(SlotsOf(c, fd))] = FreeSlot]
                   /\ Answer(c, <<OK>>)
              ELSE /\ UNCHANGED openFile
                   /\ Answer(c, IF fd >= 0 THEN <<MAXED>> ELSE <<NOT_FOUND>>)
    /\ UNCHANGED <<files, inode, inumber, clients, defined>>

\* The loop ends at its first turn: only the first slot is looked at.
Read(c) ==
    /\ At(c, "read")
    /\ Answer(c, IF openFile[c][1].fd # request[c].fd THEN <<NOT_OPEN>>
                 ELSE IF openFile[c][1].mode \in {READ, RW} THEN <<OK>>
                 ELSE <<INVALID_MODE>>)
    /\ UNCHANGED <<files, inode, thread, clients, defined>>

Write(c) ==
    LET slots == SlotsOf(c, request[c].fd)
    IN  /\ At(c, "write")
        /\ Answer(c, IF slots = {} THEN <<NOT_OPEN>>
                     ELSE IF openFile[c][First(slots)].mode \in {WRITE, RW} THEN <<OK>>
                     ELSE <<INVALID_MODE>>)
        /\ UNCHANGED <<files, inode, thread, clients, defined>>

-----------------------------------------------------------------------------
(* delete.                                                                 *)

DeleteLookup(c) ==
    /\ At(c, "delete") /\ Visits(Name(c))
    /\ inumber' = [inumber EXCEPT ![c] = lookup(Name(c))]
    /\ IF lookup(Name(c)) < 0 THEN Answer(c, <<NOT_FOUND>>) ELSE Continue(c, "deleting")
    /\ UNCHANGED <<files, inode, openFile, clients, defined>>

\* Mutant: the owner is not asked for.
DeleteCheck_AnyOwner(c) ==
    /\ At(c, "deleting")
    /\ IF SlotsOf(c, inumber[c]) # {} THEN Answer(c, <<IS_OPEN>>)
       ELSE Continue(c, "remove")
    /\ UNCHANGED <<files, inode, thread, clients, defined>>

\* Only the client's own descriptors are looked at.
DeleteCheck(c) ==
    /\ At(c, "deleting")
    /\ \E mine \in BOOLEAN :
        /\ ~Unknown(c) => mine = Owns(c)
        /\ IF ~mine THEN Answer(c, <<DENIED>>)
           ELSE IF SlotsOf(c, inumber[c]) # {} THEN Answer(c, <<IS_OPEN>>)
           ELSE Continue(c, "remove")
    /\ UNCHANGED <<files, inode, thread, clients, defined>>

delete(c) ==
    /\ At(c, "remove") /\ Visits(Name(c))
    /\ tree' = [tree EXCEPT ![Name(c)] = NoNode]
    /\ Continue(c, "inode_delete")
    /\ UNCHANGED <<lock, shared, inode, thread, clients, defined>>

inode_delete(c) ==
    /\ At(c, "inode_delete")
    /\ inode' = [inode EXCEPT ![inumber[c]] = FreeInode]
    /\ Answer(c, <<OK>>)
    /\ UNCHANGED <<files, thread, clients, defined>>

-----------------------------------------------------------------------------
(* rename.                                                                 *)

RenameLookupNew(c) ==
    /\ At(c, "rename") /\ Visits(New(c))
    /\ IF lookup(New(c)) >= 0 THEN Answer(c, <<ALREADY_EXISTS>>)
                              ELSE Continue(c, "lookup name")
    /\ UNCHANGED <<files, inode, thread, clients, defined>>

\* Mutant: whether there is a file of the old name is not asked.
RenameLookup_Unasked(c) ==
    /\ At(c, "lookup name") /\ Visits(Name(c))
    /\ Continue(c, "lookup again")
    /\ UNCHANGED <<files, inode, thread, clients, defined>>

\* Mutant: that there is no file of the old name is not answered.
RenameLookup_Silent(c) ==
    /\ At(c, "lookup name") /\ Visits(Name(c))
    /\ Continue(c, IF lookup(Name(c)) < 0 THEN "idle" ELSE "lookup again")
    /\ UNCHANGED <<files, inode, thread, clients, defined>>

RenameLookup(c) ==
    /\ At(c, "lookup name") /\ Visits(Name(c))
    /\ IF lookup(Name(c)) < 0 THEN Answer(c, <<NOT_FOUND>>)
                              ELSE Continue(c, "lookup again")
    /\ UNCHANGED <<files, inode, thread, clients, defined>>

RenameLookupAgain(c) ==
    /\ At(c, "lookup again") /\ Visits(Name(c))
    /\ inumber' = [inumber EXCEPT ![c] = lookup(Name(c))]
    /\ Continue(c, "whose")
    /\ UNCHANGED <<files, inode, openFile, clients, defined>>

\* To a user the file does not belong to nothing is answered.  The thread is
\* done with the request and reads on, but its client waits for ever.
RenameCheck(c) ==
    /\ At(c, "whose")
    /\ \E mine \in BOOLEAN :
        /\ ~Unknown(c) => mine = Owns(c)
        /\ Continue(c, IF mine THEN "search" ELSE "refused")
    /\ UNCHANGED <<files, inode, thread, clients, defined>>

OneBucket(c) == Hash[Name(c)] = Hash[New(c)]

Renamable(c) == tree[Name(c)] # NoNode /\ tree[New(c)] = NoNode

Moved(c) == [tree EXCEPT ![New(c)] = tree[Name(c)], ![Name(c)] = NoNode]

\* If the searches fail no lock is taken, and what was not taken is released.
Search(c) ==
    /\ At(c, "search")
    /\ IF Renamable(c)
       THEN /\ Continue(c, IF OneBucket(c) THEN "wrlock" ELSE "first")
            /\ UNCHANGED <<files, inode, thread, clients, defined>>
       ELSE Undefined(c)

\* The second search, the move and the release are all under the lock.
RenameInBucket(c) ==
    /\ At(c, "wrlock") /\ Visits(Name(c))
    /\ tree' = IF Renamable(c) THEN Moved(c) ELSE tree
    /\ Answer(c, <<OK>>)
    /\ UNCHANGED <<lock, shared, inode, thread, clients, defined>>

\* The steps at which a thread is inside a bucket, if it has begun them.
Inside(d, b) ==
    \/ pc[d] \in {"create", "insert", "open", "delete", "remove", "lookup name",
                  "lookup again", "wrlock", "close"} /\ Hash[Name(d)] = b
    \/ pc[d] = "rename" /\ Hash[New(d)] = b

\* try_lock takes the lock, or it does not: it is held or another is inside.
TryLock(c, b, taken) ==
    /\ taken => lock[b] = Free
    /\ ~taken => lock[b] # Free \/ \E d \in Clients \ {c} : Inside(d, b)

\* try_lock returns 0 when it takes the lock, which is taken for a failure.
\* So the first is tried until it fails, then the second; if that one is taken
\* the first is released, and if it fails both are believed to be held.
TryFirst(c) ==
    /\ At(c, "first")
    /\ \E taken \in BOOLEAN :
        /\ TryLock(c, Hash[Name(c)], taken)
        /\ lock' = IF taken THEN [lock EXCEPT ![Hash[Name(c)]] = c] ELSE lock
        /\ Continue(c, IF taken THEN "first" ELSE "second")
    /\ UNCHANGED <<tree, shared, inode, thread, clients, defined>>

TrySecond(c) ==
    LET from == Hash[Name(c)]
        to == Hash[New(c)]
    IN  /\ At(c, "second")
        /\ \/ /\ TryLock(c, to, FALSE)
              /\ Continue(c, "move")
              /\ UNCHANGED <<files, inode, thread, clients, defined>>
           \/ /\ TryLock(c, to, TRUE)
              /\ lock[from] = c
              /\ lock' = [lock EXCEPT ![from] = Free, ![to] = c]
              /\ Continue(c, "first")
              /\ UNCHANGED <<tree, shared, inode, thread, clients, defined>>
           \/ /\ TryLock(c, to, TRUE)
              /\ lock[from] # c
              /\ Undefined(c)

Released(c) == [lock EXCEPT ![Hash[Name(c)]] = Free, ![Hash[New(c)]] = Free]

\* The root of the first bucket becomes that of the second, from whose tree
\* the old name is removed.
RenameAcross(c) ==
    /\ At(c, "move")
    /\ \/ /\ {lock[Hash[Name(c)]], lock[Hash[New(c)]]} # {c}
          /\ Undefined(c)
       \/ /\ {lock[Hash[Name(c)]], lock[Hash[New(c)]]} = {c}
          /\ shared' = Renamable(c)
          /\ tree' = IF Renamable(c)
                     THEN [n \in Names |-> IF Hash[n] = Hash[Name(c)] THEN NoNode
                                          ELSE Moved(c)[n]]
                     ELSE tree
          /\ lock' = Released(c)
          /\ Answer(c, <<OK>>)
          /\ UNCHANGED <<inode, thread, clients, defined>>

-----------------------------------------------------------------------------
ThreadStep(c) ==
    \/ CreateLookup(c) \/ inode_create(c) \/ create(c)
    \/ OpenLookup(c) \/ Open(c) \/ Close(c) \/ Read(c) \/ Write(c)
    \/ DeleteLookup(c) \/ DeleteCheck(c) \/ delete(c) \/ inode_delete(c)
    \/ RenameLookupNew(c) \/ RenameLookup(c) \/ RenameLookupAgain(c) \/ RenameCheck(c)
    \/ Search(c) \/ RenameInBucket(c)
    \/ TryFirst(c) \/ TrySecond(c) \/ RenameAcross(c)

ClientStep(c) ==
    \/ tfsMount(c) \/ readOutp(c) \/ tfsUnmount(c)
    \/ \E r \in Requests : Ask(c, r)

Busy == {c \in Clients : pc[c] \notin {"out", "idle", "gone", "refused"}}

Uses(c, n) ==
    \/ request[c].op \in {"create", "delete", "open", "rename"} /\ n = Name(c)
    \/ request[c].op = "rename" /\ n = New(c)

\* A name changes its node while two commands that use it are under way.
NamesClash ==
    \E n \in Names : /\ tree'[n] # tree[n]
                   /\ \E c, d \in Busy : c # d /\ Uses(c, n) /\ Uses(d, n)

\* A rename is at the locks of two buckets while another thread is at one.
LocksClash ==
    \E c, d \in Clients :
        /\ c # d /\ pc[c] \in {"first", "second", "move"}
        /\ \E b \in {Hash[Name(c)], Hash[New(c)]} :
               Inside(d, b) \/ pc[d] \in {"first", "second", "move"}

Disturb == disturbed' = (disturbed \/ NamesClash \/ LocksClash')

Step(A) == running /\ defined /\ ~shared /\ A /\ Disturb

Next ==
    \/ \E c \in Clients : Step(ThreadStep(c)) \/ Step(ClientStep(c))
    \/ Step(Exit)

\* The threads of the server run, and a client reads the answer it waits for.
Spec == Init /\ [][Next]_vars
             /\ \A c \in Clients : WF_vars(Step(ThreadStep(c))) /\ WF_vars(Step(readOutp(c)))

-----------------------------------------------------------------------------
(***************************************************************************)
(* Properties                                                              *)
(***************************************************************************)

\* Names and i-nodes in use belong to each other.
Matched ==
    /\ \A n \in Names : tree[n] >= 0 =>
           /\ inode[tree[n]] # FreeInode
           /\ \A m \in Names \ {n} : tree[m] # tree[n]
    /\ \A i \in Inodes : inode[i] # FreeInode =>
           \/ \E n \in Names : tree[n] = i
           \/ \E c \in Clients : pc[c] \in {"insert", "inode_delete"} /\ inumber[c] = i

\* A file has an i-node of its own, and an i-node in use has a name or is on
\* its way to get or to lose it, although names and numbers change hands in
\* separate steps and numbers are used again: as long as no two commands use
\* one name at a time (applyCommands, inode_create, inode_delete).
FilesMatchInodes == disturbed \/ shared \/ ~defined \/ Matched

\* A file only loses its name to a command of its owner: what was asked in
\* an earlier step still holds, as long as no two commands use one name at a
\* time (main.c 278-292, 178-181).
OnlyOwnersRemove ==
    [][\A n \in Names : tree[n] >= 0 /\ tree'[n] # tree[n] =>
          \/ disturbed' \/ shared'
          \/ \E c \in Busy : pc'[c] # pc[c] /\ inode[tree[n]].owner = User[c]]_vars

\* Left alone, the tries of a rename for two locks end with both, although
\* their results are read the wrong way round, and nothing is released that
\* is not held; a file that was created with the table full is the exception
\* (reName 75-110).
StaysDefined == defined \/ disturbed \/ \E n \in Names : tree[n] = NoInode

\* The rename of a file that is not the client's was given up, or that of one
\* whose i-node is gone when the owner is asked for: neither is answered
\* (main.c 179-180).
Unanswered(c) == pc[c] = "refused" /\ (Unknown(c) \/ ~Owns(c))

\* Every request is answered, whatever locks other threads hold and wait for,
\* but for the rename of a file that turned out not to be the client's, unless the server exits, as it does
\* after its last client, or is at the end of what is followed of it.
EveryRequestIsAnswered ==
    \A c \in Clients :
        waiting[c] ~> ~waiting[c] \/ ~running \/ ~defined \/ shared \/ Unanswered(c)

\* The steps of each request.
CreateSteps == {"create", "inode_create", "insert"}
OpenSteps   == {"open", "opening"}
DeleteSteps == {"delete", "deleting", "remove", "inode_delete"}
LockSteps   == {"first", "second", "move"}
MoveSteps   == {"search", "wrlock"} \cup LockSteps
RenameSteps == {"rename", "lookup name", "lookup again", "whose"} \cup MoveSteps

\* A thread is at a step of its request, which has the names the step uses.
AtSteps ==
    /\ request = [c \in Clients |-> request[c]]
    /\ pc \in [Clients -> {"out", "idle", "gone", "refused", "read", "write", "close"}
                          \cup CreateSteps \cup OpenSteps \cup DeleteSteps \cup RenameSteps]
    /\ \A c \in Clients :
        /\ pc[c] \in CreateSteps \cup OpenSteps \cup DeleteSteps =>
               request[c].op \in {"create", "open", "delete"} /\ Name(c) \in Names
        /\ pc[c] \in CreateSteps =>
               request[c].owner \in Permissions /\ request[c].others \in Permissions
        /\ pc[c] \in RenameSteps =>
               request[c].op = "rename" /\ Name(c) \in Names /\ New(c) \in Names

\* Types.
TypeOK ==
    /\ tree \in [Names -> {NoNode, NoInode} \cup Inodes]
    /\ lock \in [Buckets -> Clients \cup {Free}]
    /\ inode \in [Inodes -> [owner : Int, ownerPermissions : Permissions,
                             othersPermissions : Permissions]]
    /\ inumber \in [Clients -> {NoInode} \cup Inodes]
    /\ AtSteps
=================================================================================
