------------------------- MODULE TecnicoFSServerProofs -------------------------
(***************************************************************************)
(* What the run server shows of two clients and three names holds for any  *)
(* number of clients, names, buckets, i-nodes and requests.                *)
(***************************************************************************)
EXTENDS TecnicoFSServer, TLAPS

-----------------------------------------------------------------------------
(* Why files keep their i-nodes and locks their owners.  As long as nobody *)
(* gets in the way, what a thread has looked up stays true until it acts   *)
(* on it: these facts are about each step between two visits.              *)

\* The i-node c has made or is about to delete has no name, and no other
\* thread has it.
Flying(c) == pc[c] \in {"insert", "inode_delete"} /\ inumber[c] # NoInode

InFlight(c) ==
    /\ inode[inumber[c]] # FreeInode
    /\ \A n \in Names : tree[n] # inumber[c]
    /\ \A d \in Clients \ {c} : Flying(d) => inumber[d] # inumber[c]

\* A new name stays free, a name to be deleted keeps its i-node, and so does a
\* name to be changed, whose owner is c once that was asked.
LookedUp(c) ==
    /\ pc[c] \in {"inode_create", "insert"} => tree[Name(c)] < 0
    /\ pc[c] \in {"deleting", "remove"} => inumber[c] >= 0 /\ tree[Name(c)] = inumber[c]
    /\ pc[c] = "remove" => inode[tree[Name(c)]].owner = User[c]
    /\ pc[c] = "inode_delete" => inumber[c] >= 0
    /\ pc[c] \in RenameSteps \ {"rename"} => tree[New(c)] < 0
    /\ pc[c] \in RenameSteps \ {"rename", "lookup name"} => tree[Name(c)] >= 0
    /\ pc[c] = "whose" => inumber[c] = tree[Name(c)]
    /\ pc[c] \in MoveSteps => inode[tree[Name(c)]].owner = User[c]

\* Every lock is held by a thread that tries for two and will release it.
LocksHeld ==
    /\ \A b \in Buckets : lock[b] # Free =>
           \E c \in Clients : /\ lock[b] = c /\ pc[c] \in LockSteps
                              /\ b \in {Hash[Name(c)], Hash[New(c)]}
    /\ \A c \in Clients :
           /\ pc[c] \in {"second", "move"} => lock[Hash[Name(c)]] = c
           /\ pc[c] = "move" => lock[Hash[New(c)]] = c

Undisturbed ==
    /\ Matched /\ LocksHeld /\ ~LocksClash
    /\ \A c \in Clients : LookedUp(c) /\ (Flying(c) => InFlight(c))

ServerInv == TypeOK /\ StaysDefined /\ (disturbed \/ shared \/ ~defined \/ Undisturbed)

USE ServerAssumption

\* The steps of all commands.
AllSteps == {"out", "idle", "gone", "refused", "read", "write", "close"} \cup CreateSteps
                \cup OpenSteps \cup DeleteSteps \cup RenameSteps

\* What a step of c may do to the trees, the i-nodes and the other threads,
\* whatever c does: change the names c uses, take a free i-node, free its own.
Effect(c) ==
    /\ \A d \in Clients \ {c} : /\ pc'[d] = pc[d] /\ inumber'[d] = inumber[d]
                                /\ request'[d] = request[d]
    /\ \A n \in Names : tree'[n] # tree[n] => c \in Busy /\ Uses(c, n)
    /\ \A i \in Inodes : inode'[i] # inode[i] =>
           inode[i] = FreeInode \/ (pc[c] = "inode_delete" /\ i = inumber[c])
    /\ \A n \in Names : tree'[n] >= 0 =>
           \/ \E m \in Names : tree[m] = tree'[n]
           \/ pc[c] = "insert" /\ tree'[n] = inumber[c]
    /\ Flying(c)' => \/ Flying(c) /\ inumber'[c] = inumber[c]
                     \/ inode[inumber'[c]] = FreeInode
                     \/ \E m \in Names : tree[m] = inumber'[c]

\* Numbers from the table are what is not below zero.
LEMMA Numbers ==
    ASSUME TypeOK
    PROVE  /\ \A n \in Names : tree[n] >= 0 => tree[n] \in Inodes
           /\ \A c \in Clients : inumber[c] >= 0 <=> inumber[c] \in Inodes
           /\ \A c \in Clients : inumber[c] # NoInode <=> inumber[c] \in Inodes
           /\ \A n \in Names : tree[n] < 0 <=> tree[n] \notin Inodes
           /\ \A n \in Names : tree[n] < 0 <=> ~(tree[n] >= 0)
           /\ \A n \in Names : tree[n] \notin Inodes => tree[n] \in {NoNode, NoInode}
  <1>1. TableSize \in Nat
    OBVIOUS
  <1>2. \A i \in Inodes : i >= 0 /\ ~(i < 0) /\ i # NoInode
    BY <1>1 DEF Inodes, NoInode
  <1>3. ~(NoInode >= 0) /\ ~(NoNode >= 0) /\ NoInode < 0 /\ NoNode < 0
    BY DEF NoInode, NoNode
  <1>4. \A n \in Names : tree[n] \in {NoNode, NoInode} \cup Inodes
    BY DEF TypeOK
  <1>5. \A c \in Clients : inumber[c] \in {NoInode} \cup Inodes
    BY DEF TypeOK
  <1> QED
    BY <1>2, <1>3, <1>4, <1>5

\* No step of its own can be taken from a thread: another thread's step leaves
\* what c has looked up as it was, unless their names clash.
LEMMA OthersKeep ==
    ASSUME TypeOK, Undisturbed, NEW d \in Clients, Effect(d), ~NamesClash,
           NEW c \in Clients \ {d}
    PROVE  LookedUp(c)' /\ (Flying(c)' => InFlight(c)')
  <1>1. pc'[c] = pc[c] /\ inumber'[c] = inumber[c] /\ request'[c] = request[c]
    BY DEF Effect
  <1>2. ASSUME NEW n \in Names, c \in Busy, Uses(c, n) PROVE tree'[n] = tree[n]
    BY <1>2 DEF Effect, NamesClash
  <1>3. ASSUME NEW n \in Names, tree[n] >= 0 PROVE inode'[tree[n]] = inode[tree[n]]
    <2>1. tree[n] \in Inodes /\ inode[tree[n]] # FreeInode
      BY <1>3, Numbers DEF Undisturbed, Matched
    <2>2. pc[d] = "inode_delete" => inumber[d] # tree[n]
      BY <1>3, Numbers DEF Undisturbed, LookedUp, Flying, InFlight
    <2> QED
      BY <2>1, <2>2 DEF Effect
  <1>4. LookedUp(c)'
    <2>1. pc[c] \in CreateSteps \cup DeleteSteps =>
              Name(c) \in Names /\ tree'[Name(c)] = tree[Name(c)]
      BY <1>2 DEF TypeOK, AtSteps, Busy, Uses, CreateSteps, DeleteSteps
    <2>2. pc[c] \in RenameSteps =>
              /\ Name(c) \in Names /\ tree'[Name(c)] = tree[Name(c)]
              /\ New(c) \in Names /\ tree'[New(c)] = tree[New(c)]
      BY <1>2 DEF TypeOK, AtSteps, Busy, Uses, RenameSteps, MoveSteps, LockSteps
    <2>3. Name(c)' = Name(c) /\ New(c)' = New(c)
      BY <1>1 DEF Name, New
    <2>4. LookedUp(c)
      BY DEF Undisturbed
    <2>5. CASE pc[c] \in CreateSteps
      BY <1>1, <2>1, <2>3, <2>4, <2>5
         DEF LookedUp, CreateSteps, RenameSteps, MoveSteps, LockSteps
    <2>6. CASE pc[c] \in DeleteSteps
      BY <1>1, <1>3, <2>1, <2>3, <2>4, <2>6
         DEF LookedUp, DeleteSteps, RenameSteps, MoveSteps, LockSteps
    <2>7. CASE pc[c] \in RenameSteps
      BY <1>1, <1>3, <2>2, <2>3, <2>4, <2>7
         DEF LookedUp, RenameSteps, MoveSteps, LockSteps
    <2>8. CASE pc[c] \notin CreateSteps \cup DeleteSteps \cup RenameSteps
      BY <1>1, <2>8 DEF LookedUp, CreateSteps, DeleteSteps, RenameSteps, MoveSteps, LockSteps
    <2> QED
      BY <2>5, <2>6, <2>7, <2>8
  <1>5. ASSUME Flying(c)' PROVE InFlight(c)'
    <2>1. Flying(c) /\ InFlight(c)
      BY <1>1, <1>5 DEF Flying, Undisturbed
    <2>2. inumber[c] \in Inodes
      BY <2>1, Numbers DEF Flying
    <2>3. pc[d] = "inode_delete" => inumber[d] # inumber[c]
      BY <2>1, Numbers DEF InFlight, Flying, Undisturbed, LookedUp
    <2>4. inode'[inumber[c]] # FreeInode
      BY <2>1, <2>2, <2>3 DEF Effect, InFlight
    <2>5. ASSUME NEW n \in Names PROVE tree'[n] # inumber[c]
      <3>1. CASE tree'[n] >= 0 /\ \E m \in Names : tree[m] = tree'[n]
        BY <2>1, <3>1 DEF InFlight
      <3>2. CASE pc[d] = "insert" /\ tree'[n] = inumber[d]
        <4>1. inumber[c] # inumber[d]
          <5> SUFFICES ASSUME inumber[d] = inumber[c] PROVE FALSE
            OBVIOUS
          <5>1. Flying(d)
            BY <2>1, <3>2 DEF Flying
          <5> QED
            BY <2>1, <5>1 DEF InFlight
        <4> QED
          BY <3>2, <4>1
      <3>3. CASE ~(tree'[n] >= 0)
        BY <2>2, <3>3 DEF Inodes
      <3> QED
        BY <3>1, <3>2, <3>3 DEF Effect
    <2>6. ASSUME NEW e \in Clients \ {c}, Flying(e)' PROVE inumber'[e] # inumber[c]
      <3>1. CASE e = d
        BY <2>1, <2>6, <3>1 DEF Effect, InFlight
      <3>2. CASE e # d
        BY <2>1, <2>6, <3>2 DEF Effect, InFlight, Flying
      <3> QED
        BY <3>1, <3>2
    <2> QED
      BY <1>1, <2>4, <2>5, <2>6 DEF InFlight
  <1> QED
    BY <1>4, <1>5
-----------------------------------------------------------------------------
(* Every step keeps the types: a thread goes on within its own command.    *)

\* A step within a command, or back to the next request.
LEMMA StepAtSteps ==
    ASSUME AtSteps, NEW c \in Clients, NEW step, pc' = [pc EXCEPT ![c] = step],
           UNCHANGED request,
           \/ step \in {"idle", "refused"}
           \/ \E S \in {CreateSteps, OpenSteps, DeleteSteps, RenameSteps} :
                  step \in S /\ pc[c] \in S
    PROVE  AtSteps'
  <1>1. step \in AllSteps
    BY DEF AllSteps
  <1>2. pc' \in [Clients -> AllSteps]
    BY <1>1 DEF AtSteps, AllSteps
  <1>3. request' = [d \in Clients |-> request'[d]]
    BY DEF AtSteps
  <1>4. ASSUME NEW d \in Clients
        PROVE  /\ pc'[d] \in CreateSteps \cup OpenSteps \cup DeleteSteps =>
                      request[d].op \in {"create", "open", "delete"} /\ Name(d) \in Names
               /\ pc'[d] \in CreateSteps =>
                      request[d].owner \in Permissions /\ request[d].others \in Permissions
               /\ pc'[d] \in RenameSteps =>
                      request[d].op = "rename" /\ Name(d) \in Names /\ New(d) \in Names
    <2>1. CASE d # c
      BY <2>1 DEF AtSteps
    <2>2. CASE d = c /\ step \in {"idle", "refused"}
      BY <2>2 DEF AtSteps, CreateSteps, OpenSteps, DeleteSteps, RenameSteps, MoveSteps, LockSteps
    <2>3. CASE d = c /\ step \notin {"idle", "refused"}
      <3>1. pc'[c] = step
        BY DEF AtSteps
      <3>2. /\ step \in CreateSteps \cup OpenSteps \cup DeleteSteps =>
                   pc[c] \in CreateSteps \cup OpenSteps \cup DeleteSteps
            /\ step \in CreateSteps => pc[c] \in CreateSteps
            /\ step \in RenameSteps => pc[c] \in RenameSteps
        BY <2>3 DEF CreateSteps, OpenSteps, DeleteSteps, RenameSteps, MoveSteps, LockSteps
      <3> QED
        BY <2>3, <3>1, <3>2 DEF AtSteps
    <2> QED
      BY <2>1, <2>2, <2>3
  <1> QED
    BY <1>2, <1>3, <1>4 DEF AtSteps, AllSteps, Name, New

\* The commands that only look, and those of open files, change no table.
LEMMA LookTypeOK ==
    ASSUME TypeOK, NEW c \in Clients,
           \/ CreateLookup(c) \/ OpenLookup(c) \/ Open(c) \/ Close(c) \/ Read(c) \/ Write(c)
           \/ DeleteLookup(c) \/ DeleteCheck(c)
           \/ RenameLookupNew(c) \/ RenameLookup(c) \/ RenameLookupAgain(c)
           \/ RenameCheck(c) \/ Search(c)
    PROVE  TypeOK'
  <1>1. UNCHANGED <<tree, lock, inode>>
    BY DEF CreateLookup, OpenLookup, Open, Close, Read, Write, DeleteLookup, DeleteCheck,
           RenameLookupNew, RenameLookup, RenameLookupAgain, RenameCheck, Search, Undefined, files
  <1>2. inumber' \in [Clients -> {NoInode} \cup Inodes]
    <2>1. \A n \in Names : lookup(n) \in {NoInode} \cup Inodes
      BY DEF TypeOK, lookup
    <2>2. CASE UNCHANGED inumber
      BY <2>2 DEF TypeOK
    <2>3. CASE \E n \in Names : inumber' = [inumber EXCEPT ![c] = lookup(n)]
      BY <2>1, <2>3 DEF TypeOK
    <2>4. CASE OpenLookup(c) \/ DeleteLookup(c) \/ RenameLookupAgain(c)
      <3>1. Name(c) \in Names
        BY <2>4 DEF TypeOK, AtSteps, OpenLookup, DeleteLookup, RenameLookupAgain, At,
                    OpenSteps, DeleteSteps, RenameSteps
      <3> QED
        BY <2>3, <2>4, <3>1 DEF OpenLookup, DeleteLookup, RenameLookupAgain
    <2> QED
      BY <2>2, <2>4 DEF CreateLookup, Open, Close, Read, Write, DeleteCheck, RenameLookupNew,
                        RenameLookup, RenameCheck, Search, Undefined, thread
  <1>3. AtSteps'
    <2>1. UNCHANGED request
      BY DEF CreateLookup, OpenLookup, Open, Close, Read, Write, DeleteLookup, DeleteCheck,
             RenameLookupNew, RenameLookup, RenameLookupAgain, RenameCheck, Search, Undefined,
             clients
    <2>2. AtSteps
      BY DEF TypeOK
    <2>3. CASE pc' = [pc EXCEPT ![c] = "idle"]
      BY <2>1, <2>2, <2>3, StepAtSteps
    <2>13. CASE pc' = [pc EXCEPT ![c] = "refused"]
      BY <2>1, <2>2, <2>13, StepAtSteps
    <2>4. ASSUME NEW S \in {CreateSteps, OpenSteps, DeleteSteps, RenameSteps}, pc[c] \in S,
                 NEW step \in S, pc' = [pc EXCEPT ![c] = step]
          PROVE  AtSteps'
      BY <2>1, <2>2, <2>4, StepAtSteps
    <2>5. CASE CreateLookup(c)
      BY <2>3, <2>4, <2>5 DEF CreateLookup, At, Answer, Continue, CreateSteps
    <2>6. CASE OpenLookup(c)
      BY <2>3, <2>4, <2>6 DEF OpenLookup, At, Answer, Continue, OpenSteps
    <2>7. CASE Open(c) \/ Close(c) \/ Read(c) \/ Write(c)
      BY <2>3, <2>7 DEF Open, Close, Read, Write, Answer
    <2>8. CASE DeleteLookup(c) \/ DeleteCheck(c)
      BY <2>3, <2>4, <2>8 DEF DeleteLookup, DeleteCheck, At, Answer, Continue, DeleteSteps
    <2>9. CASE RenameLookupNew(c) \/ RenameLookup(c) \/ RenameLookupAgain(c)
      BY <2>3, <2>4, <2>9 DEF RenameLookupNew, RenameLookup, RenameLookupAgain, At, Answer,
                              Continue, RenameSteps
    <2>10. CASE RenameCheck(c)
      BY <2>13, <2>4, <2>10 DEF RenameCheck, At, Continue, RenameSteps, MoveSteps
    <2>11. CASE Search(c) /\ Renamable(c)
      BY <2>4, <2>11 DEF Search, At, Continue, RenameSteps, MoveSteps, LockSteps
    <2>12. CASE Search(c) /\ ~Renamable(c)
      BY <2>1, <2>2, <2>12 DEF Search, Undefined, AtSteps, Name, New
    <2> QED
      BY <2>5, <2>6, <2>7, <2>8, <2>9, <2>10, <2>11, <2>12
  <1> QED
    BY <1>1, <1>2, <1>3 DEF TypeOK
\* The steps that change names, i-nodes or locks put what is of their type.
LEMMA ChangeTypeOK ==
    ASSUME TypeOK, NEW c \in Clients,
           \/ inode_create(c) \/ create(c) \/ delete(c) \/ inode_delete(c)
           \/ RenameInBucket(c) \/ TryFirst(c) \/ TrySecond(c) \/ RenameAcross(c)
    PROVE  TypeOK'
  <1>1. UNCHANGED request
    BY DEF inode_create, create, delete, inode_delete, RenameInBucket, TryFirst, TrySecond,
           RenameAcross, Undefined, clients
  <1>2. AtSteps'
    <2>1. AtSteps
      BY DEF TypeOK
    <2>2. CASE pc' = [pc EXCEPT ![c] = "idle"]
      BY <1>1, <2>1, <2>2, StepAtSteps
    <2>3. ASSUME NEW S \in {CreateSteps, DeleteSteps, RenameSteps}, pc[c] \in S,
                 NEW step \in S, pc' = [pc EXCEPT ![c] = step]
          PROVE  AtSteps'
      BY <1>1, <2>1, <2>3, StepAtSteps
    <2>4. CASE UNCHANGED pc
      BY <1>1, <2>1, <2>4 DEF AtSteps, Name, New
    <2>5. CASE inode_create(c)
      BY <2>3, <2>5 DEF inode_create, At, Continue, CreateSteps
    <2>6. CASE delete(c)
      BY <2>3, <2>6 DEF delete, At, Continue, DeleteSteps
    <2>7. CASE TryFirst(c) \/ TrySecond(c)
      BY <2>3, <2>4, <2>7 DEF TryFirst, TrySecond, Undefined, At, Continue, RenameSteps,
                              MoveSteps, LockSteps
    <2>8. CASE create(c) \/ inode_delete(c) \/ RenameInBucket(c) \/ RenameAcross(c)
      BY <2>2, <2>4, <2>8 DEF create, inode_delete, RenameInBucket, RenameAcross, Undefined, Answer
    <2> QED
      BY <2>5, <2>6, <2>7, <2>8
  <1>3. tree' \in [Names -> {NoNode, NoInode} \cup Inodes]
    <2>1. CASE UNCHANGED tree
      BY <2>1 DEF TypeOK
    <2>2. CASE create(c) \/ delete(c)
      BY <2>2 DEF TypeOK, create, delete
    <2>3. ASSUME pc[c] \in RenameSteps
          PROVE  Moved(c) \in [Names -> {NoNode, NoInode} \cup Inodes]
      <3>1. tree[Name(c)] \in {NoNode, NoInode} \cup Inodes
        BY <2>3 DEF TypeOK, AtSteps
      <3> QED
        BY <3>1 DEF Moved, TypeOK
    <2>4. CASE RenameInBucket(c)
      BY <2>3, <2>4 DEF TypeOK, RenameInBucket, At, RenameSteps, MoveSteps
    <2>5. CASE RenameAcross(c)
      BY <2>3, <2>5 DEF TypeOK, RenameAcross, Undefined, files, At,
                        RenameSteps, MoveSteps, LockSteps
    <2> QED
      BY <2>1, <2>2, <2>4, <2>5 DEF inode_create, inode_delete, TryFirst, TrySecond, Undefined, files
  <1>4. lock' \in [Buckets -> Clients \cup {Free}]
    <2>1. CASE TryFirst(c) \/ TrySecond(c) \/ RenameAcross(c)
      BY <2>1 DEF TypeOK, TryFirst, TrySecond, RenameAcross, Released, Undefined, files
    <2>2. CASE UNCHANGED lock
      BY <2>2 DEF TypeOK
    <2> QED
      BY <2>1, <2>2 DEF inode_create, create, delete, inode_delete, RenameInBucket, files
  <1>5. /\ inode' \in [Inodes -> [owner : Int, ownerPermissions : Permissions,
                                  othersPermissions : Permissions]]
        /\ inumber' \in [Clients -> {NoInode} \cup Inodes]
    <2>1. CASE inode_create(c)
      <3>1. PICK i \in IF FreeInodes = {} THEN {NoInode}
                       ELSE {j \in FreeInodes : \A k \in FreeInodes : j <= k} :
                /\ inumber' = [inumber EXCEPT ![c] = i]
                /\ inode' = IF i = NoInode THEN inode
                            ELSE [inode EXCEPT ![i] =
                                    [owner |-> User[c], ownerPermissions |-> request[c].owner,
                                     othersPermissions |-> request[c].others]]
        BY <2>1 DEF inode_create
      <3>2. i \in {NoInode} \cup Inodes
        BY <3>1 DEF FreeInodes
      <3>3. User[c] \in Int /\ request[c].owner \in Permissions /\ request[c].others \in Permissions
        BY <2>1 DEF inode_create, At, TypeOK, AtSteps, CreateSteps
      <3> DEFINE new == [owner |-> User[c], ownerPermissions |-> request[c].owner,
                         othersPermissions |-> request[c].others]
      <3>4. new \in [owner : Int, ownerPermissions : Permissions,
                     othersPermissions : Permissions]
        BY <3>3
      <3>5. inode' = inode \/ inode' = [inode EXCEPT ![i] = new]
        BY <3>1
      <3>6. inumber' = [inumber EXCEPT ![c] = i]
        BY <3>1
      <3> HIDE DEF new
      <3> QED
        BY <3>2, <3>4, <3>5, <3>6 DEF TypeOK
    <2>2. CASE inode_delete(c)
      <3>1. FreeInode \in [owner : Int, ownerPermissions : Permissions,
                           othersPermissions : Permissions]
        BY DEF FreeInode, Permissions, NONE, RW
      <3> QED
        BY <2>2, <3>1 DEF TypeOK, inode_delete, thread
    <2>3. CASE UNCHANGED <<inode, inumber>>
      BY <2>3 DEF TypeOK
    <2> QED
      BY <2>1, <2>2, <2>3 DEF create, delete, RenameInBucket, TryFirst, TrySecond, RenameAcross,
                              Undefined, thread
  <1> QED
    BY <1>2, <1>3, <1>4, <1>5 DEF TypeOK
\* Mounting, unmounting, asking and reading an answer move a client between
\* being out, idle, gone and at the first step of a request.
LEMMA ClientTypeOK ==
    ASSUME TypeOK, NEW c \in Clients, ClientStep(c)
    PROVE  /\ TypeOK'
           /\ UNCHANGED <<tree, lock, inode, inumber, shared, defined>>
           /\ \A d \in Clients \ {c} : request'[d] = request[d]
           /\ \/ UNCHANGED <<pc, request>>
              \/ /\ pc[c] \in {"out", "idle"}
                 /\ \E step \in {"idle", "gone", "create", "delete", "open", "rename", "read",
                                 "write", "close"} : pc' = [pc EXCEPT ![c] = step]
  <1>1. CASE tfsMount(c) \/ tfsUnmount(c)
    <2>1. PICK step \in {"idle", "gone"} : pc' = [pc EXCEPT ![c] = step]
      BY <1>1 DEF tfsMount, tfsUnmount
    <2>2. UNCHANGED <<tree, lock, inode, inumber, shared, defined, request>>
          /\ pc[c] \in {"out", "idle"}
      BY <1>1 DEF tfsMount, tfsUnmount, files, thread, clients
    <2>3. pc' \in [Clients -> AllSteps]
      BY <2>1 DEF TypeOK, AtSteps, AllSteps
    <2>4. step \notin CreateSteps \cup OpenSteps \cup DeleteSteps \cup RenameSteps
      BY <2>1 DEF CreateSteps, OpenSteps, DeleteSteps, RenameSteps, MoveSteps, LockSteps
    <2>5. AtSteps'
      BY <2>1, <2>2, <2>3, <2>4 DEF TypeOK, AtSteps, AllSteps, Name, New
    <2> QED
      BY <2>1, <2>2, <2>5 DEF TypeOK
  <1>2. CASE readOutp(c)
    <2>1. UNCHANGED <<tree, lock, inode, inumber, shared, defined, request, pc>>
      BY <1>2 DEF readOutp, files, thread
    <2> QED
      BY <2>1 DEF TypeOK, AtSteps, Name, New
  <1>3. ASSUME NEW r \in Requests, Ask(c, r)
        PROVE  /\ TypeOK'
               /\ UNCHANGED <<tree, lock, inode, inumber, shared, defined>>
               /\ request' = [request EXCEPT ![c] = r] /\ pc[c] = "idle"
               /\ r.op \in {"create", "delete", "open", "rename", "read", "write", "close"}
               /\ pc' = [pc EXCEPT ![c] = r.op]
    <2>1. /\ UNCHANGED <<tree, lock, inode, inumber, shared, defined>>
          /\ request' = [request EXCEPT ![c] = r] /\ pc[c] = "idle"
          /\ pc' = [pc EXCEPT ![c] = r.op]
      BY <1>3 DEF Ask, files, thread
    <2>2. r \in Request
      OBVIOUS
    <2>3. /\ r.op \in {"create", "delete", "open", "rename", "read", "write", "close"}
          /\ r.op \in {"create", "open", "delete", "rename"} => r.name \in Names
          /\ r.op = "rename" => r.new \in Names
          /\ r.op = "create" => r.owner \in Permissions /\ r.others \in Permissions
      BY <2>2 DEF Request
    <2>4. /\ r.op \in CreateSteps \cup OpenSteps \cup DeleteSteps =>
                 r.op \in {"create", "open", "delete"}
          /\ r.op \in CreateSteps => r.op = "create"
          /\ r.op \in RenameSteps => r.op = "rename"
          /\ r.op \in AllSteps
      BY <2>3 DEF CreateSteps, OpenSteps, DeleteSteps, RenameSteps, MoveSteps, LockSteps, AllSteps
    <2>5. pc' \in [Clients -> AllSteps] /\ pc'[c] = r.op /\ request'[c] = r
      BY <2>1, <2>4 DEF TypeOK, AtSteps, AllSteps
    <2>6. request' = [d \in Clients |-> request'[d]]
      BY <2>1 DEF TypeOK, AtSteps
    <2>7. \A d \in Clients \ {c} : pc'[d] = pc[d] /\ request'[d] = request[d]
      BY <2>1 DEF TypeOK, AtSteps
    <2>8. ASSUME NEW d \in Clients
          PROVE  /\ pc'[d] \in CreateSteps \cup OpenSteps \cup DeleteSteps =>
                        /\ request'[d].op \in {"create", "open", "delete"}
                        /\ request'[d].name \in Names
                 /\ pc'[d] \in CreateSteps =>
                        request'[d].owner \in Permissions /\ request'[d].others \in Permissions
                 /\ pc'[d] \in RenameSteps =>
                        /\ request'[d].op = "rename"
                        /\ request'[d].name \in Names /\ request'[d].new \in Names
      BY <2>3, <2>4, <2>5, <2>7 DEF TypeOK, AtSteps, Name, New
    <2>9. AtSteps'
      BY <2>5, <2>6, <2>8 DEF AtSteps, AllSteps, Name, New
    <2> QED
      BY <2>1, <2>3, <2>9 DEF TypeOK
  <1>4. ASSUME NEW r \in Requests, Ask(c, r)
        PROVE  \A d \in Clients \ {c} : request'[d] = request[d]
    BY <1>3, <1>4 DEF TypeOK, AtSteps
  <1>5. CASE \E r \in Requests : Ask(c, r)
    BY <1>3, <1>4, <1>5
  <1> QED
    BY <1>1, <1>2, <1>5 DEF ClientStep, tfsMount, tfsUnmount, readOutp, clients, files, thread

-----------------------------------------------------------------------------
(* Every step keeps the invariant, unless somebody got in the way.         *)

\* What there is to show of a step of c: the rest follows from OthersKeep.
Kept(c) ==
    /\ Effect(c) /\ Matched' /\ LocksHeld'
    /\ LookedUp(c)' /\ (Flying(c)' => InFlight(c)')

\* A step that leaves the locks, by a thread that holds none.
LEMMA LocksFrame ==
    ASSUME TypeOK, LocksHeld, NEW c \in Clients, NEW step,
           pc' = [pc EXCEPT ![c] = step], UNCHANGED lock,
           \A d \in Clients \ {c} : request'[d] = request[d],
           pc[c] \notin LockSteps, step \notin {"second", "move"}
    PROVE  LocksHeld'
  <1>0. pc'[c] = step /\ \A d \in Clients \ {c} : pc'[d] = pc[d]
    BY DEF TypeOK, AtSteps
  <1>1. ASSUME NEW b \in Buckets, lock'[b] # Free
        PROVE  \E d \in Clients : /\ lock'[b] = d /\ pc'[d] \in LockSteps
                                  /\ b \in {Hash[Name(d)'], Hash[New(d)']}
    <2>1. PICK d \in Clients : /\ lock[b] = d /\ pc[d] \in LockSteps
                               /\ b \in {Hash[Name(d)], Hash[New(d)]}
      BY <1>1 DEF LocksHeld
    <2>2. d # c
      BY <2>1
    <2> QED
      BY <1>0, <2>1, <2>2 DEF Name, New
  <1>2. ASSUME NEW d \in Clients
        PROVE  /\ pc'[d] \in {"second", "move"} => lock'[Hash[Name(d)']] = d
               /\ pc'[d] = "move" => lock'[Hash[New(d)']] = d
    BY <1>0 DEF LocksHeld, Name, New
  <1> QED
    BY <1>1, <1>2 DEF LocksHeld

\* A step that changes no table and takes c to a step where it has no i-node
\* and no lock.
LEMMA Quiet ==
    ASSUME TypeOK, Undisturbed, NEW c \in Clients, NEW step,
           pc' = [pc EXCEPT ![c] = step], UNCHANGED <<tree, inode, lock>>,
           \A d \in Clients \ {c} : inumber'[d] = inumber[d] /\ request'[d] = request[d],
           pc[c] \notin {"insert", "inode_delete"} \cup LockSteps,
           step \notin {"insert", "inode_delete", "second", "move"},
           LookedUp(c)'
    PROVE  Kept(c)
  <1>1. pc'[c] = step /\ \A d \in Clients \ {c} : pc'[d] = pc[d]
    BY DEF TypeOK, AtSteps
  <1>2. ~Flying(c)'
    BY <1>1 DEF Flying
  <1>3. Effect(c)
    BY <1>1, <1>2 DEF Effect
  <1>4. Matched'
    <2>1. \A n \in Names : tree'[n] >= 0 =>
              inode'[tree'[n]] # FreeInode /\ \A m \in Names \ {n} : tree'[m] # tree'[n]
      BY DEF Undisturbed, Matched
    <2>2. ASSUME NEW i \in Inodes, inode'[i] # FreeInode, ~\E n \in Names : tree'[n] = i
          PROVE  \E d \in Clients : pc'[d] \in {"insert", "inode_delete"} /\ inumber'[d] = i
      <3>1. PICK d \in Clients : pc[d] \in {"insert", "inode_delete"} /\ inumber[d] = i
        BY <2>2 DEF Undisturbed, Matched
      <3>2. d # c
        BY <3>1
      <3> QED
        BY <1>1, <3>1, <3>2
    <2> QED
      BY <2>1, <2>2 DEF Matched
  <1>5. LocksHeld'
    BY LocksFrame DEF Undisturbed
  <1> QED
    BY <1>2, <1>3, <1>4, <1>5 DEF Kept
\* Between two requests, at the first step of one, and where only descriptors
\* matter, nothing was looked up.
LEMMA NothingLookedUp ==
    ASSUME NEW c \in Clients,
           pc'[c] \in {"out", "idle", "gone", "refused", "create", "delete", "open", "rename",
                       "read", "write", "close", "opening"}
    PROVE  LookedUp(c)'
  BY DEF LookedUp, RenameSteps, MoveSteps, LockSteps

\* create, delete and open: what they look up is there, or is not.
LEMMA FileLookKept ==
    ASSUME TypeOK, Undisturbed, NEW c \in Clients,
           \/ CreateLookup(c) \/ OpenLookup(c) \/ Open(c) \/ Close(c) \/ Read(c) \/ Write(c)
           \/ DeleteLookup(c) \/ DeleteCheck(c)
    PROVE  Kept(c)
  <1>1. /\ UNCHANGED <<tree, inode, lock, request>>
        /\ \A d \in Clients \ {c} : inumber'[d] = inumber[d]
    BY DEF CreateLookup, OpenLookup, Open, Close, Read, Write, DeleteLookup, DeleteCheck,
           files, thread, clients, TypeOK
  <1>2. pc[c] \notin {"insert", "inode_delete"} \cup LockSteps
    BY DEF CreateLookup, OpenLookup, Open, Close, Read, Write, DeleteLookup, DeleteCheck, At,
           LockSteps
  <1>3. ASSUME NEW step \in {"idle", "opening"}, pc' = [pc EXCEPT ![c] = step] PROVE Kept(c)
    <2>1. pc'[c] = step
      BY <1>3 DEF TypeOK, AtSteps
    <2> QED
      BY <1>1, <1>2, <1>3, <2>1, Quiet, NothingLookedUp
  <1>4. ASSUME NEW step \in {"inode_create", "deleting", "remove"},
               pc' = [pc EXCEPT ![c] = step], LookedUp(c)'
        PROVE  Kept(c)
    BY <1>1, <1>2, <1>4, Quiet
  <1>5. CASE CreateLookup(c)
    <2>1. CASE lookup(Name(c)) >= 0
      BY <1>3, <1>5, <2>1 DEF CreateLookup, Answer
    <2>2. CASE ~(lookup(Name(c)) >= 0)
      <3>1. Name(c) \in Names
        BY <1>5 DEF CreateLookup, At, TypeOK, AtSteps, CreateSteps
      <3>2. tree[Name(c)] \notin Inodes
        BY <2>2, <3>1, Numbers DEF lookup, NoNode, Inodes
      <3>3. tree[Name(c)] < 0
        BY <3>1, <3>2, Numbers
      <3>4. pc' = [pc EXCEPT ![c] = "inode_create"]
        BY <1>5, <2>2 DEF CreateLookup, Continue
      <3>5. pc'[c] = "inode_create"
        BY <3>4 DEF TypeOK, AtSteps
      <3>6. LookedUp(c)'
        BY <1>1, <3>3, <3>5 DEF LookedUp, Name, RenameSteps, MoveSteps, LockSteps
      <3> QED
        BY <1>4, <3>4, <3>6
    <2> QED
      BY <2>1, <2>2
  <1>6. CASE OpenLookup(c) \/ Open(c) \/ Close(c) \/ Read(c) \/ Write(c)
    BY <1>3, <1>6 DEF OpenLookup, Open, Close, Read, Write, Answer, Continue
  <1>7. CASE DeleteLookup(c)
    <2>1. CASE lookup(Name(c)) < 0
      BY <1>3, <1>7, <2>1 DEF DeleteLookup, Answer
    <2>2. CASE ~(lookup(Name(c)) < 0)
      <3>1. Name(c) \in Names
        BY <1>7 DEF DeleteLookup, At, TypeOK, AtSteps, DeleteSteps
      <3>2. NoInode < 0
        BY DEF NoInode
      <3>3. lookup(Name(c)) = tree[Name(c)] /\ ~(tree[Name(c)] < 0)
        BY <2>2, <3>2 DEF lookup
      <3>4. tree[Name(c)] \in Inodes
        BY <3>1, <3>3, Numbers
      <3>5. pc' = [pc EXCEPT ![c] = "deleting"] /\ inumber' = [inumber EXCEPT ![c] = tree[Name(c)]]
        BY <1>7, <2>2, <3>3 DEF DeleteLookup, Continue
      <3>6. pc'[c] = "deleting" /\ inumber'[c] = tree[Name(c)]
        BY <3>5 DEF TypeOK, AtSteps
      <3>7. tree[Name(c)] >= 0
        BY <3>4 DEF Inodes
      <3>8. LookedUp(c)'
        BY <1>1, <3>6, <3>7 DEF LookedUp, Name, RenameSteps, MoveSteps, LockSteps
      <3> QED
        BY <1>4, <3>5, <3>8
    <2> QED
      BY <2>1, <2>2
  <1>8. CASE DeleteCheck(c)
    <2>1. PICK mine \in BOOLEAN :
              /\ ~Unknown(c) => mine = Owns(c)
              /\ IF ~mine THEN Answer(c, <<DENIED>>)
                 ELSE IF SlotsOf(c, inumber[c]) # {} THEN Answer(c, <<IS_OPEN>>)
                 ELSE Continue(c, "remove")
      BY <1>8 DEF DeleteCheck
    <2>2. CASE pc' = [pc EXCEPT ![c] = "idle"]
      BY <1>3, <2>2
    <2>3. CASE mine /\ pc' = [pc EXCEPT ![c] = "remove"]
      <3>1. inumber[c] >= 0 /\ tree[Name(c)] = inumber[c] /\ Name(c) \in Names
        BY <1>8 DEF Undisturbed, LookedUp, DeleteCheck, At, TypeOK, AtSteps, DeleteSteps
      <3>2. inumber[c] \in Inodes /\ inumber[c] # NoInode /\ inode[inumber[c]] # FreeInode
        BY <3>1, Numbers DEF Undisturbed, Matched
      <3>3. inode[inumber[c]].owner = User[c]
        BY <2>1, <2>3, <3>2 DEF Unknown, Owns
      <3>4. pc'[c] = "remove" /\ inumber'[c] = inumber[c]
        BY <1>8, <2>3 DEF DeleteCheck, thread, TypeOK, AtSteps
      <3>5. LookedUp(c)'
        BY <1>1, <3>1, <3>3, <3>4 DEF LookedUp, Name, RenameSteps, MoveSteps, LockSteps
      <3> QED
        BY <1>4, <2>3, <3>5
    <2> QED
      BY <2>1, <2>2, <2>3 DEF Answer, Continue
  <1> QED
    BY <1>5, <1>6, <1>7, <1>8
\* rename: it goes on when the new name is free, the old one is there, and its
\* owner asks; the searches under no lock find the same.
LEMMA RenameLookKept ==
    ASSUME TypeOK, Undisturbed, NEW c \in Clients,
           \/ RenameLookupNew(c) \/ RenameLookup(c) \/ RenameLookupAgain(c) \/ RenameCheck(c)
           \/ Search(c) /\ Renamable(c)
    PROVE  Kept(c)
  <1>1. /\ UNCHANGED <<tree, inode, lock, request>>
        /\ \A d \in Clients \ {c} : inumber'[d] = inumber[d]
    BY DEF RenameLookupNew, RenameLookup, RenameLookupAgain, RenameCheck, Search,
           files, thread, clients, TypeOK
  <1>2. pc[c] \notin {"insert", "inode_delete"} \cup LockSteps /\ pc[c] \in RenameSteps
    BY DEF RenameLookupNew, RenameLookup, RenameLookupAgain, RenameCheck, Search, At,
           LockSteps, RenameSteps, MoveSteps
  <1>3. ASSUME NEW step \in {"idle", "refused"}, pc' = [pc EXCEPT ![c] = step] PROVE Kept(c)
    <2>1. pc'[c] = step
      BY <1>3 DEF TypeOK, AtSteps
    <2> QED
      BY <1>1, <1>2, <1>3, <2>1, Quiet, NothingLookedUp
  <1>4. ASSUME NEW step \in {"lookup name", "lookup again", "whose", "search", "wrlock", "first"},
               pc' = [pc EXCEPT ![c] = step],
               tree[New(c)] < 0,
               step # "lookup name" => tree[Name(c)] >= 0,
               step = "whose" => inumber'[c] = tree[Name(c)],
               step \in MoveSteps => inode[tree[Name(c)]].owner = User[c]
        PROVE  Kept(c)
    <2>1. pc'[c] = step
      BY <1>4 DEF TypeOK, AtSteps
    <2>2. LookedUp(c)'
      BY <1>1, <1>4, <2>1 DEF LookedUp, Name, New, RenameSteps, MoveSteps, LockSteps
    <2> QED
      BY <1>1, <1>2, <1>4, <2>2, Quiet
  <1>5. Name(c) \in Names /\ New(c) \in Names
    BY <1>2 DEF TypeOK, AtSteps
  <1>6. \A n \in Names : lookup(n) < 0 <=> tree[n] < 0
    BY DEF lookup, NoNode, NoInode
  <1>7. \A n \in Names : lookup(n) < 0 <=> ~(lookup(n) >= 0)
    BY DEF lookup, NoNode, NoInode, TypeOK, Inodes
  <1>8. \A n \in Names : tree[n] < 0 <=> ~(tree[n] >= 0)
    BY Numbers
  <1>9. LookedUp(c)
    BY DEF Undisturbed
  <1>10. CASE RenameLookupNew(c)
    BY <1>3, <1>4, <1>5, <1>6, <1>7, <1>10
       DEF RenameLookupNew, Answer, Continue, MoveSteps, LockSteps
  <1>11. CASE RenameLookup(c)
    <2>1. tree[New(c)] < 0
      BY <1>9, <1>11 DEF LookedUp, RenameLookup, At, RenameSteps
    <2> QED
      BY <1>3, <1>4, <1>5, <1>6, <1>8, <1>11, <2>1
         DEF RenameLookup, Answer, Continue, MoveSteps, LockSteps
  <1>12. CASE RenameLookupAgain(c)
    <2>1. tree[New(c)] < 0 /\ tree[Name(c)] >= 0
      BY <1>9, <1>12 DEF LookedUp, RenameLookupAgain, At, RenameSteps
    <2>2. lookup(Name(c)) = tree[Name(c)]
      BY <2>1 DEF lookup, NoNode
    <2>3. inumber'[c] = tree[Name(c)]
      BY <1>12, <2>2 DEF RenameLookupAgain, TypeOK
    <2> QED
      BY <1>4, <1>12, <2>1, <2>3 DEF RenameLookupAgain, Continue, MoveSteps, LockSteps
  <1>13. CASE RenameCheck(c)
    <2>1. PICK mine \in BOOLEAN : /\ ~Unknown(c) => mine = Owns(c)
                                  /\ Continue(c, IF mine THEN "search" ELSE "refused")
      BY <1>13 DEF RenameCheck
    <2>2. tree[New(c)] < 0 /\ tree[Name(c)] >= 0 /\ inumber[c] = tree[Name(c)]
      BY <1>9, <1>13 DEF LookedUp, RenameCheck, At, RenameSteps
    <2>3. inumber[c] # NoInode /\ inode[inumber[c]] # FreeInode
      BY <1>5, <2>2, Numbers DEF Undisturbed, Matched
    <2>4. mine => inode[tree[Name(c)]].owner = User[c]
      BY <2>1, <2>2, <2>3 DEF Unknown, Owns
    <2> QED
      BY <1>3, <1>4, <2>1, <2>2, <2>4 DEF Continue, MoveSteps
  <1>14. CASE Search(c) /\ Renamable(c)
    <2>1. /\ tree[New(c)] < 0 /\ tree[Name(c)] >= 0
          /\ inode[tree[Name(c)]].owner = User[c]
      BY <1>9, <1>14 DEF LookedUp, Search, At, RenameSteps, MoveSteps
    <2> QED
      BY <1>4, <1>14, <2>1 DEF Search, Continue
  <1> QED
    BY <1>10, <1>11, <1>12, <1>13, <1>14

\* A client's own steps, and the exit of the server, touch none of this.
LEMMA ClientKept == ASSUME TypeOK, Undisturbed, NEW c \in Clients, ClientStep(c) PROVE Kept(c)
  <1>1. /\ UNCHANGED <<tree, lock, inode, inumber>>
        /\ \A d \in Clients \ {c} : request'[d] = request[d]
        /\ \/ UNCHANGED <<pc, request>>
           \/ /\ pc[c] \in {"out", "idle"}
              /\ \E step \in {"idle", "gone", "create", "delete", "open", "rename", "read",
                              "write", "close"} : pc' = [pc EXCEPT ![c] = step]
    BY ClientTypeOK
  <1>2. CASE ~UNCHANGED <<pc, request>>
    <2>1. PICK step \in {"idle", "gone", "create", "delete", "open", "rename", "read",
                         "write", "close"} : pc' = [pc EXCEPT ![c] = step]
      BY <1>1, <1>2
    <2>2. pc'[c] = step
      BY <2>1 DEF TypeOK, AtSteps
    <2>3. LookedUp(c)'
      BY <2>2, NothingLookedUp
    <2>4. pc[c] \notin {"insert", "inode_delete"} \cup LockSteps
      BY <1>1, <1>2 DEF LockSteps
    <2> QED
      BY <1>1, <2>1, <2>3, <2>4, Quiet
  <1>3. CASE UNCHANGED <<pc, request>>
    <2>1. Effect(c)
      BY <1>1, <1>3 DEF Effect, Flying
    <2>2. Matched' /\ LocksHeld'
      BY <1>1, <1>3 DEF Undisturbed, Matched, LocksHeld, Name, New
    <2>3. LookedUp(c)'
      BY <1>1, <1>3 DEF Undisturbed, LookedUp, Name, New
    <2>4. Flying(c)' => InFlight(c)'
      BY <1>1, <1>3 DEF Undisturbed, Flying, InFlight
    <2> QED
      BY <2>1, <2>2, <2>3, <2>4 DEF Kept
  <1> QED
    BY <1>2, <1>3
\* inode_create takes a number that is free: nothing has it, named or not.
LEMMA InodeCreateKept ==
    ASSUME TypeOK, Undisturbed, NEW c \in Clients, inode_create(c) PROVE Kept(c)
  <1> DEFINE new == [owner |-> User[c], ownerPermissions |-> request[c].owner,
                     othersPermissions |-> request[c].others]
  <1>1. PICK i : /\ i = NoInode \/ i \in FreeInodes
                 /\ inumber' = [inumber EXCEPT ![c] = i]
                 /\ inode' = IF i = NoInode THEN inode ELSE [inode EXCEPT ![i] = new]
    BY DEF inode_create
  <1>2. /\ pc[c] = "inode_create" /\ pc' = [pc EXCEPT ![c] = "insert"]
        /\ UNCHANGED <<tree, lock, request>>
    BY DEF inode_create, At, Continue, files, clients
  <1>3. /\ pc'[c] = "insert" /\ inumber'[c] = i
        /\ \A d \in Clients \ {c} : /\ pc'[d] = pc[d] /\ inumber'[d] = inumber[d]
                                    /\ request'[d] = request[d]
    BY <1>1, <1>2 DEF TypeOK, AtSteps
  <1>4. new # FreeInode
    <2>1. new.owner \in Nat /\ FreeInode.owner = -1
      BY DEF FreeInode
    <2> QED
      BY <2>1
  <1>5. i # NoInode => i \in Inodes /\ inode[i] = FreeInode /\ inode'[i] = new
    BY <1>1 DEF FreeInodes, TypeOK
  <1>6. \A j \in Inodes : inode'[j] = IF j = i /\ i # NoInode THEN new ELSE inode[j]
    BY <1>1 DEF TypeOK
  <1> HIDE DEF new
  <1>7. i # NoInode => /\ \A n \in Names : tree[n] # i
                       /\ \A d \in Clients : Flying(d) => inumber[d] # i
    <2>1. ASSUME i # NoInode, NEW n \in Names PROVE tree[n] # i
      BY <1>5, <2>1, Numbers DEF Undisturbed, Matched, Inodes
    <2>2. ASSUME i # NoInode, NEW d \in Clients, Flying(d) PROVE inumber[d] # i
      BY <1>5, <2>2 DEF Undisturbed, InFlight
    <2> QED
      BY <2>1, <2>2
  <1>8. Effect(c)
    <2>1. Flying(c)' => inode[inumber'[c]] = FreeInode
      BY <1>3, <1>5 DEF Flying
    <2>2. \A j \in Inodes : inode'[j] # inode[j] => inode[j] = FreeInode
      BY <1>5, <1>6
    <2> QED
      BY <1>2, <1>3, <2>1, <2>2 DEF Effect
  <1>9. Matched'
    <2>1. ASSUME NEW n \in Names, tree[n] >= 0
          PROVE  inode'[tree[n]] # FreeInode /\ \A m \in Names \ {n} : tree[m] # tree[n]
      BY <1>4, <1>6, <2>1, Numbers DEF Undisturbed, Matched
    <2>2. ASSUME NEW j \in Inodes, inode'[j] # FreeInode
          PROVE  \/ \E n \in Names : tree[n] = j
                 \/ \E d \in Clients : pc'[d] \in {"insert", "inode_delete"} /\ inumber'[d] = j
      <3>1. CASE j = i
        BY <1>3, <3>1
      <3>2. CASE j # i
        <4>1. inode[j] # FreeInode
          BY <1>6, <2>2, <3>2
        <4>2. \A d \in Clients : pc[d] \in {"insert", "inode_delete"} => d # c
          BY <1>2
        <4> QED
          BY <1>3, <4>1, <4>2 DEF Undisturbed, Matched
      <3> QED
        BY <3>1, <3>2
    <2> QED
      BY <1>2, <2>1, <2>2 DEF Matched
  <1>10. LocksHeld'
    BY <1>2, LocksFrame DEF Undisturbed, LockSteps
  <1>11. LookedUp(c)'
    <2>1. tree[Name(c)] < 0
      BY <1>2 DEF Undisturbed, LookedUp
    <2> QED
      BY <1>2, <1>3, <2>1 DEF LookedUp, Name, RenameSteps, MoveSteps, LockSteps
  <1>12. Flying(c)' => InFlight(c)'
    <2> SUFFICES ASSUME i # NoInode PROVE InFlight(c)'
      BY <1>3 DEF Flying
    <2>1. \A d \in Clients \ {c} : Flying(d)' => inumber'[d] # i
      BY <1>3, <1>7 DEF Flying
    <2> QED
      BY <1>2, <1>3, <1>4, <1>5, <1>7, <2>1 DEF InFlight
  <1> QED
    BY <1>8, <1>9, <1>10, <1>11, <1>12 DEF Kept

\* create gives its i-node, which nothing else has, the name that is still free.
LEMMA CreateKept ==
    ASSUME TypeOK, Undisturbed, NEW c \in Clients, create(c) PROVE Kept(c)
  <1> DEFINE nm == Name(c)
             i  == inumber[c]
  <1>1. /\ pc[c] = "insert" /\ pc' = [pc EXCEPT ![c] = "idle"]
        /\ tree' = [tree EXCEPT ![nm] = i]
        /\ UNCHANGED <<inode, inumber, lock, request>>
    BY DEF create, At, Answer, thread, clients
  <1>2. /\ pc'[c] = "idle"
        /\ \A d \in Clients \ {c} : pc'[d] = pc[d]
    BY <1>1 DEF TypeOK, AtSteps
  <1>3. nm \in Names /\ request[c].op \in {"create", "open", "delete"} /\ c \in Busy
    BY <1>1 DEF TypeOK, AtSteps, CreateSteps, Busy
  <1>4. \A n \in Names : tree'[n] = IF n = nm THEN i ELSE tree[n]
    BY <1>1, <1>3 DEF TypeOK
  <1>5. tree[nm] < 0
    BY <1>1 DEF Undisturbed, LookedUp
  <1>6. i # NoInode => /\ inode[i] # FreeInode
                       /\ \A n \in Names : tree[n] # i
    BY <1>1 DEF Undisturbed, Flying, InFlight
  <1> HIDE DEF nm
  <1>7. Effect(c)
    <2>1. \A n \in Names : tree'[n] # tree[n] => Uses(c, n)
      BY <1>3, <1>4 DEF Uses, nm
    <2> QED
      BY <1>1, <1>2, <1>3, <1>4, <2>1 DEF Effect, Flying
  <1>8. Matched'
    <2>1. ASSUME NEW n \in Names, tree'[n] >= 0
          PROVE  inode'[tree'[n]] # FreeInode /\ \A m \in Names \ {n} : tree'[m] # tree'[n]
      <3>1. CASE n = nm
        BY <1>1, <1>4, <1>6, <2>1, <3>1, Numbers
      <3>2. CASE n # nm
        <4>1. tree'[n] = tree[n] /\ tree[n] >= 0
          BY <1>4, <2>1, <3>2
        <4>2. i # tree[n]
          BY <1>6, <4>1, Numbers DEF Inodes, NoInode
        <4> QED
          BY <1>1, <1>4, <4>1, <4>2 DEF Undisturbed, Matched
      <3> QED
        BY <3>1, <3>2
    <2>2. ASSUME NEW j \in Inodes, inode[j] # FreeInode
          PROVE  \/ \E n \in Names : tree'[n] = j
                 \/ \E d \in Clients : pc'[d] \in {"insert", "inode_delete"} /\ inumber[d] = j
      <3>1. CASE j = i
        BY <1>3, <1>4, <3>1
      <3>2. CASE \E n \in Names : tree[n] = j
        <4>1. PICK n \in Names : tree[n] = j
          BY <3>2
        <4>2. n # nm
          BY <1>5, <4>1, Numbers
        <4> QED
          BY <1>4, <4>1, <4>2
      <3>3. CASE \E d \in Clients \ {c} : pc[d] \in {"insert", "inode_delete"} /\ inumber[d] = j
        BY <1>2, <3>3
      <3> QED
        BY <2>2, <3>1, <3>2, <3>3 DEF Undisturbed, Matched
    <2> QED
      BY <1>1, <2>1, <2>2 DEF Matched
  <1>9. LocksHeld'
    BY <1>1, LocksFrame DEF Undisturbed, LockSteps
  <1>10. LookedUp(c)' /\ ~Flying(c)'
    BY <1>2, NothingLookedUp DEF Flying
  <1> QED
    BY <1>7, <1>8, <1>9, <1>10 DEF Kept
\* delete takes the name from the i-node that was looked up: it has no other.
LEMMA DeleteKept ==
    ASSUME TypeOK, Undisturbed, NEW c \in Clients, delete(c) PROVE Kept(c)
  <1> DEFINE nm == Name(c)
             i  == inumber[c]
  <1>1. /\ pc[c] = "remove" /\ pc' = [pc EXCEPT ![c] = "inode_delete"]
        /\ tree' = [tree EXCEPT ![nm] = NoNode]
        /\ UNCHANGED <<inode, inumber, lock, request>>
    BY DEF delete, At, Continue, thread, clients
  <1>2. /\ pc'[c] = "inode_delete"
        /\ \A d \in Clients \ {c} : pc'[d] = pc[d]
    BY <1>1 DEF TypeOK, AtSteps
  <1>3. nm \in Names /\ request[c].op \in {"create", "open", "delete"} /\ c \in Busy
    BY <1>1 DEF TypeOK, AtSteps, DeleteSteps, Busy
  <1>4. \A n \in Names : tree'[n] = IF n = nm THEN NoNode ELSE tree[n]
    BY <1>1, <1>3 DEF TypeOK
  <1>5. i >= 0 /\ tree[nm] = i /\ i \in Inodes /\ i # NoNode
    <2>1. i >= 0 /\ tree[nm] = i
      BY <1>1 DEF Undisturbed, LookedUp
    <2> QED
      BY <2>1, Numbers DEF NoNode, Inodes
  <1>6. ~(NoNode >= 0)
    BY DEF NoNode
  <1>7. inode[i] # FreeInode /\ \A n \in Names \ {nm} : tree[n] # i
    BY <1>3, <1>5 DEF Undisturbed, Matched
  <1> HIDE DEF nm
  <1>8. Effect(c)
    <2>1. \A n \in Names : tree'[n] # tree[n] => Uses(c, n)
      BY <1>3, <1>4 DEF Uses, nm
    <2>2. \A n \in Names : tree'[n] >= 0 => \E m \in Names : tree[m] = tree'[n]
      BY <1>4, <1>6
    <2> QED
      BY <1>1, <1>2, <1>3, <1>5, <2>1, <2>2 DEF Effect
  <1>9. Matched'
    <2>1. ASSUME NEW n \in Names, tree'[n] >= 0
          PROVE  inode'[tree'[n]] # FreeInode /\ \A m \in Names \ {n} : tree'[m] # tree'[n]
      <3>1. n # nm /\ tree'[n] = tree[n] /\ tree[n] # NoNode
        BY <1>4, <1>6, <2>1
      <3> QED
        BY <1>1, <1>4, <2>1, <3>1 DEF Undisturbed, Matched
    <2>2. ASSUME NEW j \in Inodes, inode[j] # FreeInode
          PROVE  \/ \E n \in Names : tree'[n] = j
                 \/ \E d \in Clients : pc'[d] \in {"insert", "inode_delete"} /\ inumber[d] = j
      <3>1. CASE j = i
        BY <1>2, <3>1
      <3>2. CASE j # i /\ \E n \in Names : tree[n] = j
        BY <1>4, <1>5, <3>2
      <3>3. CASE \E d \in Clients : pc[d] \in {"insert", "inode_delete"} /\ inumber[d] = j
        BY <1>1, <1>2, <3>3
      <3> QED
        BY <2>2, <3>1, <3>2, <3>3 DEF Undisturbed, Matched
    <2> QED
      BY <1>1, <2>1, <2>2 DEF Matched
  <1>10. LocksHeld'
    BY <1>1, LocksFrame DEF Undisturbed, LockSteps
  <1>11. LookedUp(c)'
    BY <1>1, <1>2, <1>5 DEF LookedUp, RenameSteps, MoveSteps, LockSteps
  <1>12. InFlight(c)'
    <2>1. \A n \in Names : tree'[n] # i
      BY <1>4, <1>5, <1>7
    <2>2. ASSUME NEW d \in Clients \ {c}, Flying(d) PROVE inumber[d] # i
      BY <1>3, <1>5, <2>2 DEF Undisturbed, InFlight
    <2> QED
      BY <1>1, <1>2, <1>7, <2>1, <2>2 DEF InFlight, Flying
  <1> QED
    BY <1>8, <1>9, <1>10, <1>11, <1>12 DEF Kept

\* inode_delete frees an i-node that has lost its name.
LEMMA InodeDeleteKept ==
    ASSUME TypeOK, Undisturbed, NEW c \in Clients, inode_delete(c) PROVE Kept(c)
  <1> DEFINE i == inumber[c]
  <1>1. /\ pc[c] = "inode_delete" /\ pc' = [pc EXCEPT ![c] = "idle"]
        /\ inode' = [inode EXCEPT ![i] = FreeInode]
        /\ UNCHANGED <<tree, inumber, lock, request>>
    BY DEF inode_delete, At, Answer, files, thread, clients
  <1>2. /\ pc'[c] = "idle"
        /\ \A d \in Clients \ {c} : pc'[d] = pc[d]
    BY <1>1 DEF TypeOK, AtSteps
  <1>3. i \in Inodes /\ \A n \in Names : tree[n] # i
    <2>1. i \in Inodes /\ i # NoInode
      BY <1>1, Numbers DEF Undisturbed, LookedUp
    <2> QED
      BY <1>1, <2>1 DEF Undisturbed, Flying, InFlight
  <1>4. \A j \in Inodes : inode'[j] = IF j = i THEN FreeInode ELSE inode[j]
    BY <1>1, <1>3 DEF TypeOK
  <1>5. Effect(c)
    BY <1>1, <1>2, <1>4 DEF Effect, Flying
  <1>6. Matched'
    <2>1. ASSUME NEW n \in Names, tree[n] >= 0
          PROVE  inode'[tree[n]] # FreeInode /\ \A m \in Names \ {n} : tree[m] # tree[n]
      BY <1>3, <1>4, <2>1, Numbers DEF Undisturbed, Matched
    <2>2. ASSUME NEW j \in Inodes, inode'[j] # FreeInode
          PROVE  \/ \E n \in Names : tree[n] = j
                 \/ \E d \in Clients : pc'[d] \in {"insert", "inode_delete"} /\ inumber[d] = j
      BY <1>2, <1>4, <2>2 DEF Undisturbed, Matched
    <2> QED
      BY <1>1, <2>1, <2>2 DEF Matched
  <1>7. LocksHeld'
    BY <1>1, LocksFrame DEF Undisturbed, LockSteps
  <1>8. LookedUp(c)' /\ ~Flying(c)'
    BY <1>2, NothingLookedUp DEF Flying
  <1> QED
    BY <1>5, <1>6, <1>7, <1>8 DEF Kept

\* A move from one name to another changes nothing but the names.
LEMMA MovedMatched ==
    ASSUME TypeOK, Undisturbed, NEW c \in Clients, Name(c) \in Names, New(c) \in Names,
           tree' = tree \/ (Renamable(c) /\ tree' = Moved(c)), UNCHANGED <<inode, inumber>>,
           pc'[c] = "idle", \A d \in Clients \ {c} : pc'[d] = pc[d],
           pc[c] \notin {"insert", "inode_delete"}
    PROVE  /\ Matched'
           /\ \A n \in Names : tree'[n] # tree[n] => n \in {Name(c), New(c)}
           /\ \A n \in Names : tree'[n] >= 0 => \E m \in Names : tree[m] = tree'[n]
  <1>1. \A j \in Inodes : inode[j] # FreeInode =>
            \/ \E n \in Names : tree[n] = j
            \/ \E d \in Clients : pc'[d] \in {"insert", "inode_delete"} /\ inumber[d] = j
    BY DEF Undisturbed, Matched
  <1>2. CASE tree' = tree
    BY <1>1, <1>2 DEF Undisturbed, Matched
  <1>3. CASE Renamable(c) /\ tree' = Moved(c)
    <2> DEFINE from == Name(c)
               to   == New(c)
    <2>1. from # to /\ tree[to] = NoNode
      BY <1>3 DEF Renamable
    <2>2. \A n \in Names : tree'[n] = IF n = from THEN NoNode
                                      ELSE IF n = to THEN tree[from] ELSE tree[n]
      BY <1>3, <2>1 DEF Moved, TypeOK
    <2> HIDE DEF from, to
    <2>3. ~(NoNode >= 0) /\ NoNode \notin Inodes
      BY DEF NoNode, Inodes
    <2>4. from \in Names /\ to \in Names
      BY DEF from, to
    <2>5. ASSUME NEW n \in Names, tree'[n] >= 0
          PROVE  /\ inode[tree'[n]] # FreeInode
                 /\ \A m \in Names \ {n} : tree'[m] # tree'[n]
                 /\ \E m \in Names : tree[m] = tree'[n]
      <3>1. tree'[n] # NoNode
        BY <2>3, <2>5
      <3>2. CASE n = to
        <4>1. tree'[n] = tree[from] /\ tree[from] >= 0
          BY <2>1, <2>2, <2>5, <3>2
        <4> QED
          BY <2>2, <2>4, <3>1, <3>2, <4>1 DEF Undisturbed, Matched
      <3>3. CASE n # to
        <4>1. n # from /\ tree'[n] = tree[n] /\ tree[n] >= 0
          BY <2>2, <2>5, <3>1, <3>3
        <4> QED
          BY <2>2, <2>4, <3>1, <3>3, <4>1 DEF Undisturbed, Matched
      <3> QED
        BY <3>2, <3>3
    <2>6. ASSUME NEW j \in Inodes, NEW n \in Names, tree[n] = j
          PROVE  \E m \in Names : tree'[m] = j
      <3>1. n # to
        BY <2>1, <2>3, <2>6
      <3> QED
        BY <2>1, <2>2, <2>4, <2>6, <3>1
    <2>7. Matched'
      BY <1>1, <2>5, <2>6 DEF Matched
    <2>8. \A n \in Names : tree'[n] # tree[n] => n \in {from, to}
      BY <2>2
    <2> QED
      BY <2>5, <2>7, <2>8 DEF from, to
  <1> QED
    BY <1>2, <1>3

\* rename within a bucket moves the i-node under the lock.
LEMMA RenameInBucketKept ==
    ASSUME TypeOK, Undisturbed, NEW c \in Clients, RenameInBucket(c) PROVE Kept(c)
  <1>1. /\ pc[c] = "wrlock" /\ pc' = [pc EXCEPT ![c] = "idle"]
        /\ tree' = tree \/ (Renamable(c) /\ tree' = Moved(c))
        /\ UNCHANGED <<inode, inumber, lock, request>>
    BY DEF RenameInBucket, At, Answer, thread, clients
  <1>2. /\ pc'[c] = "idle"
        /\ \A d \in Clients \ {c} : pc'[d] = pc[d]
    BY <1>1 DEF TypeOK, AtSteps
  <1>3. Name(c) \in Names /\ New(c) \in Names /\ request[c].op = "rename" /\ c \in Busy
    BY <1>1 DEF TypeOK, AtSteps, RenameSteps, MoveSteps, Busy
  <1>4. /\ Matched'
        /\ \A n \in Names : tree'[n] # tree[n] => n \in {Name(c), New(c)}
        /\ \A n \in Names : tree'[n] >= 0 => \E m \in Names : tree[m] = tree'[n]
    BY <1>1, <1>2, <1>3, MovedMatched
  <1>5. Effect(c)
    BY <1>1, <1>2, <1>3, <1>4 DEF Effect, Uses, Flying
  <1>6. LocksHeld'
    BY <1>1, LocksFrame DEF Undisturbed, LockSteps
  <1>7. LookedUp(c)' /\ ~Flying(c)'
    BY <1>2, NothingLookedUp DEF Flying
  <1> QED
    BY <1>4, <1>5, <1>6, <1>7 DEF Kept
\* A rename at the locks of two buckets is alone there, and all locks that are
\* held are its own.
LEMMA Alone ==
    ASSUME TypeOK, Undisturbed, NEW c \in Clients, pc[c] \in LockSteps
    PROVE  /\ \A d \in Clients \ {c} : pc[d] \notin LockSteps
           /\ \A d \in Clients \ {c} : ~Inside(d, Hash[Name(c)]) /\ ~Inside(d, Hash[New(c)])
           /\ \A b \in Buckets : lock[b] # Free =>
                  lock[b] = c /\ b \in {Hash[Name(c)], Hash[New(c)]}
           /\ Hash[Name(c)] \in Buckets /\ Hash[New(c)] \in Buckets
  <1>1. ASSUME NEW d \in Clients \ {c}, NEW b \in {Hash[Name(c)], Hash[New(c)]}
        PROVE  ~Inside(d, b) /\ pc[d] \notin LockSteps
    BY <1>1 DEF Undisturbed, LocksClash, LockSteps
  <1>2. \A b \in Buckets : lock[b] # Free =>
            lock[b] = c /\ b \in {Hash[Name(c)], Hash[New(c)]}
    BY <1>1 DEF Undisturbed, LocksHeld
  <1>3. Name(c) \in Names /\ New(c) \in Names
    BY DEF TypeOK, AtSteps, RenameSteps, MoveSteps
  <1> QED
    BY <1>1, <1>2, <1>3

\* A step at the locks that leaves c there with the locks of its buckets.
LEMMA LockStepKept ==
    ASSUME TypeOK, Undisturbed, NEW c \in Clients, pc[c] \in LockSteps,
           NEW step \in LockSteps, pc' = [pc EXCEPT ![c] = step],
           UNCHANGED <<tree, inode, inumber, request>>,
           \A b \in Buckets : lock'[b] # Free =>
               lock'[b] = c /\ b \in {Hash[Name(c)], Hash[New(c)]},
           step \in {"second", "move"} => lock'[Hash[Name(c)]] = c,
           step = "move" => lock'[Hash[New(c)]] = c
    PROVE  Kept(c)
  <1>1. pc'[c] = step /\ \A d \in Clients \ {c} : pc'[d] = pc[d]
    BY DEF TypeOK, AtSteps
  <1>2. \A d \in Clients \ {c} : pc'[d] \notin LockSteps
    BY <1>1, Alone
  <1>3. step \notin {"insert", "inode_delete"} /\ pc[c] \notin {"insert", "inode_delete"}
    BY DEF LockSteps
  <1>4. Effect(c)
    BY <1>1, <1>3 DEF Effect, Flying
  <1>5. Matched'
    <2>1. \A d \in Clients : pc[d] \in {"insert", "inode_delete"} => pc'[d] = pc[d]
      BY <1>1, <1>3
    <2> QED
      BY <2>1 DEF Undisturbed, Matched
  <1>6. LocksHeld'
    <2>1. Name(c)' = Name(c) /\ New(c)' = New(c)
      BY DEF Name, New
    <2>2. \A d \in Clients : pc'[d] \in {"second", "move"} => d = c
      BY <1>2 DEF LockSteps
    <2> QED
      BY <1>1, <2>1, <2>2 DEF LocksHeld
  <1>7. LookedUp(c)'
    <2>1. LookedUp(c)
      BY DEF Undisturbed
    <2> QED
      BY <1>1, <2>1 DEF LookedUp, Name, New, RenameSteps, MoveSteps, LockSteps
  <1>8. ~Flying(c)'
    BY <1>1, <1>3 DEF Flying
  <1> QED
    BY <1>4, <1>5, <1>6, <1>7, <1>8 DEF Kept

\* Alone, a try for the first lock takes it and is repeated, and fails because
\* it is c's own.
LEMMA TryFirstKept ==
    ASSUME TypeOK, Undisturbed, NEW c \in Clients, TryFirst(c) PROVE Kept(c)
  <1> DEFINE from == Hash[Name(c)]
  <1>1. pc[c] \in LockSteps /\ UNCHANGED <<tree, inode, inumber, request>>
    BY DEF TryFirst, At, LockSteps, thread, clients
  <1>2. PICK taken \in BOOLEAN :
            /\ TryLock(c, from, taken)
            /\ lock' = IF taken THEN [lock EXCEPT ![from] = c] ELSE lock
            /\ pc' = [pc EXCEPT ![c] = IF taken THEN "first" ELSE "second"]
    BY DEF TryFirst, Continue
  <1>3. from \in Buckets
    BY <1>1, Alone
  <1>4. \A b \in Buckets : lock'[b] # Free =>
            lock'[b] = c /\ b \in {Hash[Name(c)], Hash[New(c)]}
    BY <1>1, <1>2, <1>3, Alone DEF TypeOK
  <1>5. ~taken => lock[from] = c
    BY <1>1, <1>2, <1>3, Alone DEF TryLock
  <1> HIDE DEF from
  <1>6. CASE taken
    BY <1>1, <1>2, <1>4, <1>6, LockStepKept DEF LockSteps
  <1>7. CASE ~taken
    <2>1. lock'[Hash[Name(c)]] = c
      BY <1>2, <1>5, <1>7 DEF from
    <2> QED
      BY <1>1, <1>2, <1>4, <1>7, <2>1, LockStepKept DEF LockSteps
  <1> QED
    BY <1>6, <1>7

\* The second lock is c's own already, or c exchanges its locks and goes back;
\* the first lock is never missing.
LEMMA TrySecondKept ==
    ASSUME TypeOK, Undisturbed, NEW c \in Clients, TrySecond(c)
    PROVE  Kept(c) /\ UNCHANGED <<shared, defined>>
  <1> DEFINE from == Hash[Name(c)]
             to   == Hash[New(c)]
  <1>1. pc[c] \in LockSteps /\ pc[c] = "second"
    BY DEF TrySecond, At, LockSteps
  <1>2. lock[from] = c
    BY <1>1 DEF Undisturbed, LocksHeld
  <1>3. from \in Buckets /\ to \in Buckets
    BY <1>1, Alone
  <1>4. CASE /\ TryLock(c, to, FALSE)
             /\ Continue(c, "move")
             /\ UNCHANGED <<files, inode, thread, clients, defined>>
    <2>1. lock[to] = c
      BY <1>1, <1>3, <1>4, Alone DEF TryLock
    <2>2. /\ pc' = [pc EXCEPT ![c] = "move"]
          /\ UNCHANGED <<tree, inode, inumber, request, lock, shared, defined>>
      BY <1>4 DEF Continue, files, thread, clients
    <2> QED
      BY <1>1, <1>2, <2>1, <2>2, Alone, LockStepKept DEF LockSteps
  <1>5. CASE /\ lock' = [lock EXCEPT ![from] = Free, ![to] = c]
             /\ Continue(c, "first")
             /\ UNCHANGED <<tree, shared, inode, thread, clients, defined>>
    <2>1. \A b \in Buckets : lock'[b] # Free => lock'[b] = c /\ b \in {from, to}
      BY <1>1, <1>3, <1>5, Alone DEF TypeOK
    <2>2. /\ pc' = [pc EXCEPT ![c] = "first"]
          /\ UNCHANGED <<tree, inode, inumber, request, shared, defined>>
      BY <1>5 DEF Continue, thread, clients
    <2> QED
      BY <1>1, <2>1, <2>2, LockStepKept DEF LockSteps
  <1> QED
    BY <1>2, <1>4, <1>5 DEF TrySecond

\* A move between buckets has both locks and releases them; nothing is followed
\* of the server after one that succeeds.
LEMMA RenameAcrossKept ==
    ASSUME TypeOK, Undisturbed, NEW c \in Clients, RenameAcross(c)
    PROVE  UNCHANGED defined /\ (shared' \/ Kept(c))
  <1> DEFINE from == Hash[Name(c)]
             to   == Hash[New(c)]
  <1>1. pc[c] \in LockSteps /\ pc[c] = "move"
    BY DEF RenameAcross, At, LockSteps
  <1>2. lock[from] = c /\ lock[to] = c
    BY <1>1 DEF Undisturbed, LocksHeld
  <1>3. /\ lock' = Released(c) /\ UNCHANGED <<inode, inumber, request, defined>>
        /\ pc' = [pc EXCEPT ![c] = "idle"]
        /\ shared' = Renamable(c)
        /\ ~Renamable(c) => tree' = tree
    BY <1>2 DEF RenameAcross, Answer, thread, clients
  <1>4. \A b \in Buckets : lock'[b] = Free
    BY <1>1, <1>3, Alone DEF Released, TypeOK
  <1>5. /\ pc'[c] = "idle"
        /\ \A d \in Clients \ {c} : pc'[d] = pc[d] /\ pc'[d] \notin LockSteps
    BY <1>1, <1>3, Alone DEF TypeOK, AtSteps
  <1>6. ASSUME ~Renamable(c) PROVE Kept(c)
    <2>1. Effect(c)
      BY <1>3, <1>5, <1>6 DEF Effect, Flying
    <2>2. Matched'
      <3>1. \A d \in Clients : pc[d] \in {"insert", "inode_delete"} => pc'[d] = pc[d]
        BY <1>1, <1>5
      <3> QED
        BY <1>3, <1>6, <3>1 DEF Undisturbed, Matched
    <2>3. LocksHeld'
      BY <1>4, <1>5 DEF LocksHeld, LockSteps
    <2>4. LookedUp(c)' /\ ~Flying(c)'
      BY <1>5, NothingLookedUp DEF Flying
    <2> QED
      BY <2>1, <2>2, <2>3, <2>4 DEF Kept
  <1> QED
    BY <1>3, <1>6
\* A rename that finds no place for the new name under no lock found a file
\* without an i-node there.
LEMMA SearchFails ==
    ASSUME TypeOK, Undisturbed, NEW c \in Clients, Search(c), ~Renamable(c)
    PROVE  ~defined' /\ \E n \in Names : tree'[n] = NoInode
  <1>1. tree[New(c)] < 0 /\ tree[Name(c)] >= 0 /\ New(c) \in Names /\ Name(c) \in Names
    BY DEF Search, At, Undisturbed, LookedUp, TypeOK, AtSteps, RenameSteps, MoveSteps
  <1>2. tree[Name(c)] # NoNode
    BY <1>1 DEF NoNode
  <1>3. tree[New(c)] = NoInode
    BY <1>1, <1>2, Numbers DEF Renamable
  <1> QED
    BY <1>1, <1>3 DEF Search, Undefined, files

\* Every step of a thread keeps what there is to keep, or the server is followed
\* no further.
LEMMA ThreadKept ==
    ASSUME TypeOK, Undisturbed, NEW c \in Clients, ThreadStep(c)
    PROVE  \/ UNCHANGED defined /\ (shared' \/ Kept(c))
           \/ ~defined' /\ \E n \in Names : tree'[n] = NoInode
  <1>1. CASE CreateLookup(c) \/ OpenLookup(c) \/ Open(c) \/ Close(c) \/ Read(c) \/ Write(c)
                \/ DeleteLookup(c) \/ DeleteCheck(c)
    BY <1>1, FileLookKept DEF CreateLookup, OpenLookup, Open, Close, Read, Write, DeleteLookup,
                              DeleteCheck
  <1>2. CASE \/ RenameLookupNew(c) \/ RenameLookup(c) \/ RenameLookupAgain(c) \/ RenameCheck(c)
             \/ Search(c) /\ Renamable(c)
    BY <1>2, RenameLookKept DEF RenameLookupNew, RenameLookup, RenameLookupAgain, RenameCheck,
                                Search
  <1>3. CASE Search(c) /\ ~Renamable(c)
    BY <1>3, SearchFails
  <1>4. CASE inode_create(c) \/ create(c) \/ delete(c) \/ inode_delete(c) \/ RenameInBucket(c)
    BY <1>4, InodeCreateKept, CreateKept, DeleteKept, InodeDeleteKept, RenameInBucketKept
       DEF inode_create, create, delete, inode_delete, RenameInBucket
  <1>5. CASE TryFirst(c)
    BY <1>5, TryFirstKept DEF TryFirst
  <1>6. CASE TrySecond(c) \/ RenameAcross(c)
    BY <1>6, TrySecondKept, RenameAcrossKept
  <1> QED
    BY <1>1, <1>2, <1>3, <1>4, <1>5, <1>6 DEF ThreadStep

\* What c keeps for itself the others keep too.
LEMMA AllKept ==
    ASSUME TypeOK, Undisturbed, NEW c \in Clients, Kept(c), ~NamesClash, ~LocksClash'
    PROVE  Undisturbed'
  <1>1. \A d \in Clients : LookedUp(d)' /\ (Flying(d)' => InFlight(d)')
    BY OthersKeep DEF Kept
  <1> QED
    BY <1>1 DEF Kept, Undisturbed

\* Nobody has begun, and nothing is there.
LEMMA InitServerInv == Init => ServerInv
  <1> SUFFICES ASSUME Init PROVE ServerInv
    OBVIOUS
  <1>1. TypeOK
    <2>1. FreeInode \in [owner : Int, ownerPermissions : Permissions,
                         othersPermissions : Permissions]
      BY DEF FreeInode, Permissions, NONE, RW
    <2>2. AtSteps
      <3>1. \A c \in Clients : pc[c] = "out"
        BY DEF Init
      <3>2. "out" \notin CreateSteps \cup OpenSteps \cup DeleteSteps \cup RenameSteps
        BY DEF CreateSteps, OpenSteps, DeleteSteps, RenameSteps, MoveSteps, LockSteps
      <3>3. request = [c \in Clients |-> request[c]]
        BY DEF Init
      <3>4. pc \in [Clients -> AllSteps]
        BY DEF Init, AllSteps
      <3> QED
        BY <3>1, <3>2, <3>3, <3>4 DEF AtSteps, AllSteps
    <2> QED
      BY <2>1, <2>2 DEF Init, TypeOK
  <1>2. Matched
    BY DEF Init, Matched, NoNode
  <1>3. LocksHeld /\ ~LocksClash
    BY DEF Init, LocksHeld, LocksClash
  <1>4. \A c \in Clients : LookedUp(c) /\ ~Flying(c)
    BY DEF Init, LookedUp, Flying, RenameSteps, MoveSteps, LockSteps
  <1> QED
    BY <1>1, <1>2, <1>3, <1>4 DEF Init, ServerInv, StaysDefined, Undisturbed

\* Every step keeps the invariant.
LEMMA StepServerInv == ServerInv /\ [Next]_vars => ServerInv'
  <1> SUFFICES ASSUME ServerInv, [Next]_vars PROVE ServerInv'
    OBVIOUS
  <1>0. TypeOK
    BY DEF ServerInv
  <1>1. ASSUME NEW c \in Clients, Step(ThreadStep(c)) PROVE ServerInv'
    <2>1. TypeOK'
      BY <1>0, <1>1, LookTypeOK, ChangeTypeOK DEF Step, ThreadStep
    <2>2. CASE disturbed'
      BY <2>1, <2>2 DEF ServerInv, StaysDefined
    <2>3. CASE ~disturbed'
      <3>1. Undisturbed /\ ~NamesClash /\ ~LocksClash' /\ defined
        BY <1>1, <2>3 DEF Step, Disturb, ServerInv
      <3>2. CASE ~defined' /\ \E n \in Names : tree'[n] = NoInode
        BY <2>1, <3>2 DEF ServerInv, StaysDefined
      <3>3. CASE UNCHANGED defined /\ (shared' \/ Kept(c))
        <4>1. shared' \/ Undisturbed'
          BY <1>0, <3>1, <3>3, AllKept
        <4>2. defined'
          BY <3>1, <3>3
        <4> QED
          BY <2>1, <4>1, <4>2 DEF ServerInv, StaysDefined
      <3> QED
        BY <1>0, <1>1, <3>1, <3>2, <3>3, ThreadKept DEF Step
    <2> QED
      BY <2>2, <2>3
  <1>2. ASSUME NEW c \in Clients, Step(ClientStep(c)) PROVE ServerInv'
    <2>1. TypeOK' /\ UNCHANGED <<tree, shared, defined>>
      BY <1>0, <1>2, ClientTypeOK DEF Step
    <2>2. CASE disturbed'
      BY <2>1, <2>2 DEF ServerInv, StaysDefined
    <2>3. CASE ~disturbed'
      <3>1. Undisturbed /\ ~NamesClash /\ ~LocksClash' /\ defined
        BY <1>2, <2>3 DEF Step, Disturb, ServerInv
      <3>2. Undisturbed'
        BY <1>0, <1>2, <3>1, ClientKept, AllKept DEF Step
      <3> QED
        BY <2>1, <3>1, <3>2 DEF ServerInv, StaysDefined
    <2> QED
      BY <2>2, <2>3
  <1>3. ASSUME UNCHANGED <<files, inode, thread, pc, request, defined>>,
               disturbed => disturbed'
        PROVE  ServerInv'
    <2>1. UNCHANGED <<tree, lock, shared, inode, inumber, pc, request, defined>>
      BY <1>3 DEF files, thread
    <2>2. TypeOK'
      BY <1>0, <2>1 DEF TypeOK, AtSteps, Name, New
    <2>3. CASE disturbed'
      BY <2>2, <2>3 DEF ServerInv, StaysDefined
    <2>4. CASE ~disturbed' /\ ~disturbed
      <3>1. StaysDefined'
        BY <2>1, <2>4 DEF ServerInv, StaysDefined
      <3>2. ASSUME Undisturbed PROVE Undisturbed'
        <4>1. Matched' /\ LocksHeld'
          BY <2>1, <3>2 DEF Undisturbed, Matched, LocksHeld, Name, New
        <4>2. LocksClash' = LocksClash
          BY <2>1 DEF LocksClash, Inside, Name, New
        <4>3. ASSUME NEW c \in Clients PROVE LookedUp(c)' /\ (Flying(c)' => InFlight(c)')
          BY <2>1, <3>2 DEF Undisturbed, LookedUp, Flying, InFlight, Name, New
        <4> QED
          BY <3>2, <4>1, <4>2, <4>3 DEF Undisturbed
      <3> QED
        BY <2>1, <2>2, <2>4, <3>1, <3>2 DEF ServerInv
    <2> QED
      BY <1>3, <2>3, <2>4
  <1>4. CASE Step(Exit)
    <2>1. UNCHANGED <<files, inode, thread, pc, request, defined>>
      BY <1>4 DEF Step, Exit
    <2>2. disturbed => disturbed'
      BY <1>4 DEF Step, Disturb
    <2> QED
      BY <1>3, <2>1, <2>2
  <1>5. CASE UNCHANGED vars
    BY <1>3, <1>5 DEF vars, clients, thread
  <1> QED
    BY <1>1, <1>2, <1>4, <1>5 DEF Next

-----------------------------------------------------------------------------
\* As long as no two commands use one name at a time, a file has an i-node of
\* its own and an i-node in use has a name or is on its way to get or lose it,
\* for any number of clients and of requests (applyCommands, inode_create,
\* inode_delete).
THEOREM FilesKeepTheirInodes == Spec => []FilesMatchInodes
  <1>1. ServerInv => FilesMatchInodes
    BY DEF ServerInv, Undisturbed, FilesMatchInodes
  <1> QED
    BY <1>1, InitServerInv, StepServerInv, PTL DEF Spec

\* Left alone, a rename across buckets ends its tries with both locks, and the
\* server releases nothing that is not held, unless a file was created with the
\* table full (reName).
THEOREM NothingUndefined == Spec => []StaysDefined
  <1>1. ServerInv => StaysDefined
    BY DEF ServerInv
  <1> QED
    BY <1>1, InitServerInv, StepServerInv, PTL DEF Spec

\* The steps that take a name away are of the owner of its i-node.
LEMMA RemovedByOwner ==
    ASSUME TypeOK, Undisturbed, NEW c \in Clients, ThreadStep(c),
           NEW n \in Names, tree[n] >= 0, tree'[n] # tree[n]
    PROVE  shared' \/ (c \in Busy /\ pc'[c] # pc[c] /\ inode[tree[n]].owner = User[c])
  <1>1. CASE create(c)
    <2>1. tree[Name(c)] < 0 /\ Name(c) \in Names
      BY <1>1 DEF create, At, Undisturbed, LookedUp, TypeOK, AtSteps, CreateSteps
    <2>2. n = Name(c)
      BY <1>1 DEF create, TypeOK
    <2> QED
      BY <2>1, <2>2, Numbers
  <1>2. CASE delete(c)
    <2>1. pc[c] = "remove" /\ pc'[c] = "inode_delete" /\ n = Name(c)
      BY <1>2 DEF delete, At, Continue, TypeOK, AtSteps
    <2> QED
      BY <2>1 DEF Undisturbed, LookedUp, Busy
  <1>3. CASE RenameInBucket(c)
    <2>1. pc[c] = "wrlock" /\ pc'[c] = "idle" /\ Renamable(c) /\ tree' = Moved(c)
      BY <1>3 DEF RenameInBucket, At, Answer, TypeOK, AtSteps
    <2>2. n = Name(c) \/ n = New(c)
      BY <2>1 DEF Moved, TypeOK
    <2>3. n # New(c)
      BY <2>1 DEF Renamable, NoNode
    <2>4. inode[tree[Name(c)]].owner = User[c] /\ c \in Busy
      BY <2>1 DEF Undisturbed, LookedUp, MoveSteps, Busy
    <2> QED
      BY <2>1, <2>2, <2>3, <2>4
  <1>4. CASE RenameAcross(c)
    BY <1>4 DEF RenameAcross, Undefined, files
  <1> QED
    BY <1>1, <1>2, <1>3, <1>4
       DEF ThreadStep, CreateLookup, inode_create, OpenLookup, Open, Close, Read, Write,
           DeleteLookup, DeleteCheck, inode_delete, RenameLookupNew, RenameLookup,
           RenameLookupAgain, RenameCheck, Search, TryFirst, TrySecond, Undefined, files

\* As long as no two commands use one name at a time, a file only loses its name
\* to a command of its owner, although the owner is asked for in an earlier step
\* (applyCommands).
THEOREM OwnersAlone == Spec => OnlyOwnersRemove
  <1> DEFINE A == \A n \in Names : tree[n] >= 0 /\ tree'[n] # tree[n] =>
                     \/ disturbed' \/ shared'
                     \/ \E c \in Busy : pc'[c] # pc[c] /\ inode[tree[n]].owner = User[c]
  <1>1. ServerInv /\ [Next]_vars => [A]_vars
    <2> SUFFICES ASSUME ServerInv, Next, NEW n \in Names, tree[n] >= 0, tree'[n] # tree[n],
                        ~disturbed'
                 PROVE  shared' \/ \E c \in Busy : /\ pc'[c] # pc[c]
                                                   /\ inode[tree[n]].owner = User[c]
      OBVIOUS
    <2>1. TypeOK
      BY DEF ServerInv
    <2>2. ASSUME NEW c \in Clients, Step(ThreadStep(c))
          PROVE  shared' \/ \E d \in Busy : /\ pc'[d] # pc[d]
                                            /\ inode[tree[n]].owner = User[d]
      <3>1. Undisturbed /\ ThreadStep(c)
        BY <2>2 DEF Step, Disturb, ServerInv
      <3> QED
        BY <2>1, <3>1, RemovedByOwner
    <2>3. ASSUME NEW c \in Clients, Step(ClientStep(c)) PROVE FALSE
      BY <2>1, <2>3, ClientTypeOK DEF Step
    <2>4. ~Step(Exit)
      BY DEF Step, Exit, files
    <2> QED
      BY <2>2, <2>3, <2>4 DEF Next
  <1> QED
    BY <1>1, InitServerInv, StepServerInv, PTL DEF Spec, OnlyOwnersRemove
=============================================================================
