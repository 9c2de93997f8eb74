------------------------- MODULE FileTransferProofs -------------------------
(***************************************************************************)
(* Proofs about FileTransfer, for files of any length, every pair of window  *)
(* sizes and any network.  IndInv is shown to be inductive, a handler at a   *)
(* time; the theorems follow from it.                                        *)
(***************************************************************************)
EXTENDS FileTransfer, FiniteSetTheorems, SequenceTheorems, WellFoundedInduction, TLAPS

-----------------------------------------------------------------------------
(* The inductive invariant. *)

AcksBehind ==
    /\ SenderBehindReceiver
    /\ \A k \in DOMAIN toSender : toSender[k].seq_num =< receiver.seq_num

\* Only a short segment is taken for the last chunk.
LastChunks ==
    /\ sender.last_chunk >= Full /\ receiver.last_chunk >= Full
    /\ receiver.pc \in {"lingering", "success"} => receiver.seq_num > receiver.last_chunk

\* A file that is longer than the send window is not taken for finished at its start.
SenderPlace ==
    /\ sender.pc = "sending" => sender.to_send < sender.seq_num + SendWindow
    /\ ~Exited(sender) => sender.timeout < MAX_RETRIES
    /\ SendWindow =< Full =>
        /\ sender.seq_num = 0 /\ sender.pc = "waiting" => sender.data_len = ChunkSize
        /\ sender.pc = "success" => sender.seq_num > Full

\* With a receive window of one chunk, chunks are written in order.
InOrder == ReceiveWindow = 1 => receiver.acks_vector = {} /\ NoGaps

\* The inductive invariant: the parts hold together, none by itself.
IndInv == TypeOK /\ AcksBehind /\ LastChunks /\ SenderPlace /\ InOrder

(***************************************************************************)
(* Sequences and bit vectors.                                                *)
(***************************************************************************)

\* Every packet that remains on its way was on its way before.
LEMMA RemovedAt ==
    ASSUME NEW S, NEW channel \in Seq(S), NEW k \in DOMAIN channel
    PROVE  /\ RemoveAt(channel, k) \in Seq(S)
           /\ \A i \in DOMAIN RemoveAt(channel, k) : \E j \in DOMAIN channel :
                RemoveAt(channel, k)[i] = channel[j]
<1> DEFINE before == SubSeq(channel, 1, k - 1)
           after == SubSeq(channel, k + 1, Len(channel))
<1>1. Len(channel) \in Nat /\ DOMAIN channel = 1 .. Len(channel)
      /\ \A i \in DOMAIN channel : channel[i] \in S
  BY LenProperties, ElementOfSeq
<1>2. before \in Seq(S) /\ Len(before) = k - 1
      /\ \A i \in 1 .. k - 1 : before[i] = channel[i]
  BY <1>1, SubSeqProperties, Z3
<1>3. after \in Seq(S) /\ Len(after) = Len(channel) - k
      /\ \A i \in 1 .. Len(channel) - k : after[i] = channel[k + i]
  BY <1>1, SubSeqProperties, Z3
<1>4. RemoveAt(channel, k) = before \o after
  BY DEF RemoveAt
<1> HIDE DEF before, after
<1>5. /\ before \o after \in Seq(S)
      /\ Len(before \o after) = Len(before) + Len(after)
      /\ \A i \in 1 .. Len(before) + Len(after) : (before \o after)[i] =
             IF i =< Len(before) THEN before[i] ELSE after[i - Len(before)]
  <2>1. before \in Seq(S) /\ after \in Seq(S)
    BY <1>2, <1>3
  <2> HIDE DEF before, after
  <2> QED BY <2>1, ConcatProperties, Zenon
<1>6. DOMAIN (before \o after) = 1 .. Len(channel) - 1
  <2>1. Len(before \o after) = Len(channel) - 1
    BY <1>1, <1>2, <1>3, <1>5
  <2> QED BY <2>1, <1>5, LenProperties
<1>7. ASSUME NEW i \in 1 .. Len(channel) - 1
      PROVE  \E j \in DOMAIN channel : (before \o after)[i] = channel[j]
  <2>1. CASE i =< k - 1
    <3>1. (before \o after)[i] = channel[i]
      BY <2>1, <1>1, <1>2, <1>3, <1>5
    <3> QED BY <3>1, <1>1
  <2>2. CASE ~(i =< k - 1)
    <3>1. (before \o after)[i] = after[i - (k - 1)]
      BY <2>2, <1>1, <1>2, <1>3, <1>5
    <3>2. i - (k - 1) \in 1 .. Len(channel) - k
      BY <2>2, <1>1
    <3>3. (before \o after)[i] = channel[k + (i - (k - 1))]
      BY <3>1, <3>2, <1>3
    <3>5. k + (i - (k - 1)) = i + 1
      BY <1>1
    <3>4. i + 1 \in DOMAIN channel
      BY <1>1
    <3> QED BY <3>3, <3>4, <3>5
  <2> QED BY <2>1, <2>2
<1> QED
  BY <1>4, <1>5, <1>6, <1>7

\* The loop over the low bits of a vector stops.
LEMMA FirstClearType ==
    ASSUME NEW bits \in Bits
    PROVE  FirstClear(bits) \in 0 .. VectorBits
<1> DEFINE clear == {n \in 0 .. VectorBits : n \notin bits}
           less == OpToRel(<, Nat)
<1>1. VectorBits \in clear
  BY DEF Bits, VectorBits
<1>2. clear \subseteq Nat /\ clear # {}
  BY <1>1
<1>3. IsWellFoundedOn(less, Nat)
  BY NatLessThanWellFounded
<1>4. PICK n \in clear : \A b \in clear : <<b, n>> \notin less
  <2> HIDE DEF clear, less
  <2> QED BY <1>2, <1>3, WFMin
<1>5. ASSUME NEW b \in 0 .. n - 1 PROVE b \in bits
  <2>1. n \in 0 .. VectorBits /\ b \in Nat /\ b < n /\ b \in 0 .. VectorBits
    BY DEF VectorBits
  <2>2. <<b, n>> \in less
    BY <2>1 DEF OpToRel
  <2> QED BY <1>4, <2>1, <2>2
<1> QED
  BY <1>4, <1>5 DEF FirstClear

\* An empty vector: the loop does not start.
LEMMA FirstClearOfNone == FirstClear({}) = 0
<1>1. 0 \in 0 .. VectorBits /\ 0 \notin {} /\ \A b \in 0 .. 0 - 1 : b \in {}
  BY DEF VectorBits
<1>2. ASSUME NEW n \in 0 .. VectorBits, \A b \in 0 .. n - 1 : b \in {}
      PROVE  n = 0
  BY <1>2 DEF VectorBits
<1> QED
  BY <1>1, <1>2 DEF FirstClear

LEMMA Shifts ==
    ASSUME NEW bits \in Bits
    PROVE  ShiftRight(bits) \in Bits /\ ShiftLeft(bits) \in Bits
BY DEF Bits, ShiftRight, ShiftLeft, VectorBits

LEMMA Sizes ==
    ASSUME NEW n \in Nat
    PROVE  Size(n) \in 0 .. ChunkSize /\ (Size(n) < ChunkSize <=> n >= Full)
BY FileAssumption DEF Size, ChunkSize

(***************************************************************************)
(* What one call does to the variables of one program.                       *)
(***************************************************************************)

SenderType ==
    [pc : {"sending", "waiting", "success", "failure"}, seq_num : Nat,
     acks_vector : Bits, to_send : Nat, last_chunk : Nat,
     data_len : 0 .. ChunkSize, timeout : 0 .. MAX_RETRIES]

ReceiverType ==
    [pc : {"waiting", "lingering", "success", "failure"}, seq_num : Nat,
     acks_vector : Bits, last_chunk : Nat]

\* The part of the invariant that is about the sender alone.
SoundSender(s) ==
    /\ s \in SenderType
    /\ s.last_chunk >= Full
    /\ s.pc = "sending" => s.to_send < s.seq_num + SendWindow
    /\ s.pc \in {"sending", "waiting"} => s.timeout < MAX_RETRIES
    /\ SendWindow =< Full =>
        /\ s.seq_num = 0 /\ s.pc = "waiting" => s.data_len = ChunkSize
        /\ s.pc = "success" => s.seq_num > Full

\* The part of the invariant that is about the receiver alone.
SoundReceiver(r) ==
    /\ r \in ReceiverType
    /\ r.last_chunk >= Full
    /\ r.pc \in {"lingering", "success"} => r.seq_num > r.last_chunk
    /\ ReceiveWindow = 1 => r.acks_vector = {}

LEMMA NextSegmentSound ==
    ASSUME NEW s, SoundSender(s), s.pc = "sending"
    PROVE  SoundSender(NextSegment(s)) /\ NextSegment(s).seq_num = s.seq_num
<1> DEFINE t == NextSegment(s)
<1>1. s \in SenderType /\ s.to_send \in Nat /\ s.seq_num \in Nat /\ s.acks_vector \in Bits
  BY DEF SoundSender, SenderType
<1>2. Size(s.to_send) \in 0 .. ChunkSize /\ ShiftRight(s.acks_vector) \in Bits
  BY <1>1, Sizes, Shifts
<1> DEFINE pc == IF s.to_send + 1 < s.seq_num + SendWindow THEN "sending" ELSE "waiting"
           last == IF ~Skips(s) /\ Size(s.to_send) < ChunkSize
                   THEN s.to_send ELSE s.last_chunk
<1>3. pc \in {"sending", "waiting"} /\ last \in Nat /\ last >= Full
  BY <1>1, Sizes DEF SoundSender, SenderType
<1>4. /\ t \in SenderType /\ t.seq_num = s.seq_num /\ t.to_send = s.to_send + 1
      /\ t.data_len = Size(s.to_send) /\ t.pc = pc /\ t.last_chunk = last
      /\ t.timeout = s.timeout
  <2>1. t = [s EXCEPT !.pc = pc, !.data_len = Size(s.to_send), !.last_chunk = last,
                      !.to_send = s.to_send + 1,
                      !.acks_vector = ShiftRight(s.acks_vector)]
    BY DEF NextSegment
  <2> DEFINE len == Size(s.to_send)
             bits == ShiftRight(s.acks_vector)
  <2>2. len \in 0 .. ChunkSize /\ bits \in Bits /\ s.to_send + 1 \in Nat
    BY <1>1, <1>2
  <2> HIDE DEF pc, last, len, bits
  <2>3. t = [pc |-> pc, seq_num |-> s.seq_num, acks_vector |-> bits,
             to_send |-> s.to_send + 1, last_chunk |-> last, data_len |-> len,
             timeout |-> s.timeout]
    BY <1>1, <2>1 DEF SenderType, len, bits
  <2> HIDE DEF t
  <2>4. s.seq_num \in Nat /\ s.timeout \in 0 .. MAX_RETRIES
    BY <1>1 DEF SenderType
  <2> QED BY <1>3, <2>2, <2>3, <2>4 DEF SenderType, len
<1>5. SendWindow =< Full /\ t.seq_num = 0 => t.data_len = ChunkSize
  <2> SUFFICES ASSUME SendWindow =< Full, t.seq_num = 0 PROVE t.data_len = ChunkSize
    OBVIOUS
  <2>1. s.to_send < Full
    BY <1>1, <1>4, FileAssumption, WindowsAssumption DEF SoundSender
  <2> QED BY <1>4, <2>1 DEF Size
<1>6. t.pc = "sending" => t.to_send < t.seq_num + SendWindow
  BY <1>4
<1> QED
  <2> HIDE DEF pc, last
  <2> QED BY <1>3, <1>4, <1>5, <1>6 DEF SoundSender

\* The loop test ends the loop only when the window has moved past the last chunk.
LEMMA LoopTestSound ==
    ASSUME NEW s, SoundSender(s), s.pc = "waiting"
    PROVE  SoundSender(AtLoopTest(s)) /\ AtLoopTest(s).seq_num = s.seq_num
<1> DEFINE t == AtLoopTest(s)
<1>1. s \in SenderType
  BY DEF SoundSender
<1>2. t = [s EXCEPT !.pc = t.pc] /\ t.pc \in {"success", "sending", "waiting"}
      /\ t \in SenderType
  BY <1>1 DEF AtLoopTest, SenderType
<1>3. /\ t.pc = "success" => s.seq_num = Succ(s.last_chunk) /\ s.data_len < ChunkSize
      /\ t.pc = "sending" => s.to_send < s.seq_num + SendWindow
  BY <1>1 DEF AtLoopTest, SenderType
<1>4. SendWindow =< Full /\ t.pc = "success" => t.seq_num > Full
  <2> SUFFICES ASSUME SendWindow =< Full, t.pc = "success" PROVE s.seq_num > Full
    BY <1>1, <1>2 DEF SenderType
  <2>1. s.seq_num # 0
    BY <1>3 DEF SoundSender, ChunkSize
  <2> QED
    BY <2>1, <1>1, <1>3, FileAssumption, MaxSeqAssumption DEF SoundSender, SenderType, Succ
<1> QED
  <2>1. t.seq_num = s.seq_num /\ t.data_len = s.data_len /\ t.to_send = s.to_send
        /\ t.last_chunk = s.last_chunk /\ t.timeout = s.timeout
    BY <1>1, <1>2 DEF SenderType
  <2> QED BY <1>2, <1>3, <1>4, <2>1 DEF SoundSender

LEMMA AcknowledgeSound ==
    ASSUME NEW s, SoundSender(s), s.pc = "waiting", NEW ack \in Ack
    PROVE  /\ SoundSender(Acknowledge(s, ack)) /\ Acknowledge(s, ack).pc = "waiting"
           /\ Acknowledge(s, ack).seq_num \in {s.seq_num, ack.seq_num}
<1> DEFINE t == [s EXCEPT !.acks_vector = ShiftLeft(ack.selective_acks),
                          !.seq_num = ack.seq_num, !.timeout = 0]
<1>1. s \in SenderType /\ ack.seq_num \in Nat /\ ShiftLeft(ack.selective_acks) \in Bits
  BY Shifts DEF SoundSender, Ack
<1>2. CASE ack.seq_num >= s.seq_num /\ ack.seq_num =< s.seq_num + 1 + SendWindow
  <2>1. t \in SenderType /\ t.pc = "waiting" /\ t.seq_num = ack.seq_num
        /\ t.last_chunk = s.last_chunk /\ t.data_len = s.data_len /\ t.timeout = 0
    <3> DEFINE bits == ShiftLeft(ack.selective_acks)
    <3>1. bits \in Bits /\ 0 \in 0 .. MAX_RETRIES
      BY <1>1 DEF MAX_RETRIES
    <3> HIDE DEF bits
    <3>2. t = [s EXCEPT !.acks_vector = bits, !.seq_num = ack.seq_num, !.timeout = 0]
      BY DEF bits
    <3> QED BY <1>1, <3>1, <3>2 DEF SenderType
  <2>2. t.seq_num = 0 => s.seq_num = 0
    BY <1>1, <1>2, <2>1 DEF SenderType
  <2>3. SoundSender(t)
    BY <2>1, <2>2 DEF SoundSender, MAX_RETRIES
  <2> QED BY <1>2, <2>1, <2>3 DEF Acknowledge
<1>3. CASE ~(ack.seq_num >= s.seq_num /\ ack.seq_num =< s.seq_num + 1 + SendWindow)
  BY <1>3 DEF Acknowledge
<1> QED BY <1>2, <1>3

LEMMA AfterTimeoutSound ==
    ASSUME NEW s, SoundSender(s), s.pc = "waiting"
    PROVE  SoundSender(AfterTimeout(s)) /\ AfterTimeout(s).seq_num = s.seq_num
<1> DEFINE back == [s EXCEPT !.timeout = @ + 1, !.to_send = s.seq_num,
                             !.last_chunk = NoChunk]
<1>1. s \in SenderType /\ s.timeout + 1 \in 0 .. MAX_RETRIES
  BY DEF SoundSender, SenderType, MAX_RETRIES
<1>2. NoChunk \in Nat /\ NoChunk >= Full
  BY FileAssumption, MaxSeqAssumption DEF NoChunk, MAX_WINDOW_SIZE
<1>3. back \in SenderType /\ back.pc = "waiting" /\ back.seq_num = s.seq_num
      /\ back.last_chunk = NoChunk /\ back.data_len = s.data_len
      /\ back.timeout = s.timeout + 1
  BY <1>1, <1>2 DEF SenderType
<1>4. CASE back.timeout = MAX_RETRIES
  <2> DEFINE t == [back EXCEPT !.pc = "failure"]
  <2>1. t \in SenderType /\ t.pc = "failure" /\ t.seq_num = s.seq_num
        /\ t.last_chunk = NoChunk
    <3> HIDE DEF back
    <3> QED BY <1>3 DEF SenderType
  <2>2. SoundSender(t)
    BY <1>2, <2>1 DEF SoundSender
  <2> QED BY <1>4, <2>1, <2>2 DEF AfterTimeout
<1>5. CASE back.timeout # MAX_RETRIES
  <2>1. SoundSender(back)
    <3> HIDE DEF back
    <3> QED BY <1>1, <1>2, <1>3, <1>5 DEF SoundSender, MAX_RETRIES
  <2>2. SoundSender(AtLoopTest(back)) /\ AtLoopTest(back).seq_num = back.seq_num
    <3> HIDE DEF back
    <3> QED BY <1>3, <2>1, LoopTestSound
  <2> QED BY <1>3, <1>5, <2>2 DEF AfterTimeout
<1> QED BY <1>4, <1>5

LEMMA NoteLastChunkSound ==
    ASSUME NEW r \in ReceiverType, r.last_chunk >= Full, NEW chunk \in Nat
    PROVE  LET n == NoteLastChunk(r, chunk)
           IN  /\ n \in ReceiverType /\ n.last_chunk >= Full
               /\ n.seq_num = r.seq_num /\ n.acks_vector = r.acks_vector
BY Sizes DEF NoteLastChunk, ReceiverType

LEMMA MarkSound ==
    ASSUME NEW r \in ReceiverType, NEW chunk \in Nat
    PROVE  LET m == Mark(r, chunk)
           IN  /\ m \in ReceiverType
               /\ m.seq_num = r.seq_num /\ m.last_chunk = r.last_chunk
               /\ ReceiveWindow = 1 => m.acks_vector = r.acks_vector
<1>1. CASE InWindow(r, chunk) /\ chunk # r.seq_num
  <2>1. /\ chunk - r.seq_num - 1 \in 0 .. VectorBits - 1
        /\ ReceiveWindow # 1
    BY <1>1, WindowsAssumption
       DEF InWindow, ReceiverType, MAX_WINDOW_SIZE, VectorBits
  <2> DEFINE bits == r.acks_vector \cup {chunk - r.seq_num - 1}
  <2>2. bits \in Bits
    BY <2>1 DEF Bits, ReceiverType
  <2>3. Mark(r, chunk) = [r EXCEPT !.acks_vector = bits]
    BY <1>1 DEF Mark
  <2> HIDE DEF bits
  <2> QED BY <2>1, <2>2, <2>3 DEF ReceiverType
<1>2. CASE ~(InWindow(r, chunk) /\ chunk # r.seq_num)
  BY <1>2 DEF Mark
<1> QED BY <1>1, <1>2

LEMMA MoveWindowSound ==
    ASSUME NEW r \in ReceiverType, NEW chunk \in Nat
    PROVE  LET v == MoveWindow(r, chunk)
           IN  /\ v \in ReceiverType
               /\ v.seq_num >= r.seq_num /\ v.last_chunk = r.last_chunk
               /\ r.acks_vector = {} =>
                    /\ v.acks_vector = {}
                    /\ v.seq_num = IF chunk = r.seq_num THEN r.seq_num + 1 ELSE r.seq_num
<1>1. CASE chunk # r.seq_num
  BY <1>1 DEF MoveWindow, ReceiverType
<1>2. CASE chunk = r.seq_num
  <2> DEFINE run == FirstClear(r.acks_vector)
             bits == {b - run : b \in {a \in r.acks_vector : a >= run}}
             base == r.seq_num + run + 1
  <2>1. run \in 0 .. VectorBits /\ r.acks_vector \in Bits /\ r.seq_num \in Nat
    BY FirstClearType DEF ReceiverType
  <2>2. bits \in Bits
    BY <2>1 DEF Bits, VectorBits
  <2>3. base \in Nat /\ base >= r.seq_num
    BY <2>1 DEF VectorBits
  <2>4. r.acks_vector = {} => bits = {} /\ base = r.seq_num + 1
    BY <2>1, FirstClearOfNone
  <2>5. MoveWindow(r, chunk) = [r EXCEPT !.seq_num = base, !.acks_vector = bits]
    BY <1>2 DEF MoveWindow
  <2> HIDE DEF run, bits, base
  <2> QED BY <1>2, <2>2, <2>3, <2>4, <2>5 DEF ReceiverType
<1> QED BY <1>1, <1>2

LEMMA AfterSegmentSound ==
    ASSUME NEW r, SoundReceiver(r), NEW chunk \in Nat
    PROVE  LET t == AfterSegment(r, chunk)
           IN  /\ SoundReceiver(t) /\ t.seq_num >= r.seq_num
               /\ t.pc \in {"waiting", "lingering"}
               /\ ReceiveWindow = 1 =>
                    t.seq_num = IF chunk = r.seq_num THEN r.seq_num + 1 ELSE r.seq_num
<1> DEFINE n == NoteLastChunk(r, chunk)
           m == Mark(n, chunk)
           v == MoveWindow(m, chunk)
           t == [v EXCEPT !.pc = IF Complete(v) THEN "lingering" ELSE "waiting"]
<1>1. r \in ReceiverType /\ r.last_chunk >= Full
      /\ (ReceiveWindow = 1 => r.acks_vector = {})
  BY DEF SoundReceiver
<1>2. n \in ReceiverType /\ n.last_chunk >= Full /\ n.seq_num = r.seq_num
      /\ n.acks_vector = r.acks_vector
  BY <1>1, NoteLastChunkSound
<1>3. m \in ReceiverType /\ m.last_chunk >= Full /\ m.seq_num = r.seq_num
      /\ (ReceiveWindow = 1 => m.acks_vector = {})
  <2> HIDE DEF n
  <2> QED BY <1>1, <1>2, MarkSound
<1>4. /\ v \in ReceiverType /\ v.last_chunk >= Full /\ v.seq_num >= r.seq_num
      /\ ReceiveWindow = 1 =>
           /\ v.acks_vector = {}
           /\ v.seq_num = IF chunk = r.seq_num THEN r.seq_num + 1 ELSE r.seq_num
  <2> HIDE DEF m
  <2> QED BY <1>3, MoveWindowSound
<1>5. AfterSegment(r, chunk) = t
  BY DEF AfterSegment
<1> HIDE DEF v
<1>6. /\ t \in ReceiverType /\ t.seq_num = v.seq_num /\ t.last_chunk = v.last_chunk
      /\ t.acks_vector = v.acks_vector
      /\ t.pc = IF Complete(v) THEN "lingering" ELSE "waiting"
  BY <1>4 DEF ReceiverType
<1>7. SoundReceiver(t)
  BY <1>4, <1>6 DEF SoundReceiver, Complete
<1> QED
  BY <1>4, <1>5, <1>6, <1>7

(***************************************************************************)
(* The invariant, action by action.                                          *)
(***************************************************************************)

\* The rest of the types.
NetworkType ==
    /\ written \subseteq Nat
    /\ toReceiver \in Seq(Nat) /\ toSender \in Seq(Ack)
    /\ losses \in Nat /\ quiet \in Nat

LEMMA Parts ==
    IndInv <=> /\ SoundSender(sender) /\ SoundReceiver(receiver)
               /\ NetworkType /\ AcksBehind
               /\ ReceiveWindow = 1 => NoGaps
BY DEF IndInv, TypeOK, SoundSender, SoundReceiver, SenderType, ReceiverType,
       NetworkType, LastChunks, SenderPlace, InOrder, Exited

LEMMA PartsNext ==
    (/\ SoundSender(sender') /\ SoundReceiver(receiver')
     /\ NetworkType' /\ AcksBehind'
     /\ ReceiveWindow = 1 => NoGaps') => IndInv'
BY DEF IndInv, TypeOK, SoundSender, SoundReceiver, SenderType, ReceiverType,
       NetworkType, LastChunks, SenderPlace, InOrder, Exited

LEMMA InitInv == Init => IndInv
<1> SUFFICES ASSUME Init PROVE IndInv
  OBVIOUS
<1>1. {} \in Bits /\ NoChunk \in Nat /\ NoChunk >= Full /\ 0 \in 0 .. MAX_RETRIES
      /\ 0 \in 0 .. ChunkSize
  BY FileAssumption, MaxSeqAssumption
     DEF Bits, NoChunk, MAX_WINDOW_SIZE, MAX_RETRIES, ChunkSize
<1>2. SoundSender(sender)
  <2>1. sender \in SenderType
    BY <1>1 DEF Init, SenderType
  <2> QED
    BY <1>1, <2>1, WindowsAssumption DEF Init, SoundSender, MAX_WINDOW_SIZE, MAX_RETRIES
<1>3. SoundReceiver(receiver)
  BY <1>1 DEF Init, SoundReceiver, ReceiverType
<1>4. NetworkType /\ AcksBehind /\ NoGaps
  BY DEF Init, NetworkType, AcksBehind, SenderBehindReceiver, NoGaps
<1> QED BY <1>2, <1>3, <1>4, Parts

\* A packet that is sent joins those on their way.
LEMMA Appended ==
    ASSUME NEW S, NEW channel \in Seq(S), NEW packet \in S
    PROVE  /\ Append(channel, packet) \in Seq(S)
           /\ \A i \in DOMAIN Append(channel, packet) : Append(channel, packet)[i] = packet
                \/ \E j \in DOMAIN channel : Append(channel, packet)[i] = channel[j]
<1> DEFINE after == Append(channel, packet)
<1>1. /\ after \in Seq(S) /\ Len(after) = Len(channel) + 1
      /\ \A i \in 1 .. Len(channel) : after[i] = channel[i]
      /\ after[Len(channel) + 1] = packet
  BY AppendProperties
<1>2. Len(channel) \in Nat /\ DOMAIN channel = 1 .. Len(channel)
      /\ DOMAIN after = 1 .. Len(channel) + 1
  BY <1>1, LenProperties
<1> QED BY <1>1, <1>2

\* A step of the sender alone keeps what is said of the receiver and its file.
LEMMA SenderAlone ==
    ASSUME IndInv, SoundSender(sender'), sender'.seq_num =< receiver.seq_num,
           toReceiver' \in Seq(Nat), toSender' \in Seq(Ack),
           \A i \in DOMAIN toSender' : toSender'[i].seq_num =< receiver.seq_num,
           losses' \in Nat, quiet' \in Nat,
           UNCHANGED <<receiver, written>>
    PROVE  IndInv'
<1>1. SoundReceiver(receiver') /\ NetworkType' /\ AcksBehind'
      /\ (ReceiveWindow = 1 => NoGaps')
  BY Parts DEF NetworkType, AcksBehind, SenderBehindReceiver, NoGaps
<1> QED BY <1>1, PartsNext

LEMMA SendSegmentInv == IndInv /\ SendSegment => IndInv'
<1> SUFFICES ASSUME IndInv, SendSegment PROVE IndInv'
  OBVIOUS
<1>1. SoundSender(sender) /\ NetworkType /\ AcksBehind /\ sender.to_send \in Nat
  BY Parts DEF SoundSender, SenderType
<1>2. SoundSender(sender') /\ sender'.seq_num = sender.seq_num
  BY <1>1, NextSegmentSound DEF SendSegment
<1>3. toReceiver' \in Seq(Nat) /\ losses' \in Nat
  <2>1. /\ toReceiver' \in {toReceiver, Append(toReceiver, sender.to_send)}
        /\ losses' = losses \/ losses' = losses + 1
    BY DEF SendSegment, Send
  <2>2. toReceiver \in Seq(Nat) /\ losses \in Nat
    BY <1>1 DEF NetworkType
  <2>3. toReceiver' \in Seq(Nat)
    BY <1>1, <2>1, <2>2, Appended
  <2> QED BY <2>1, <2>2, <2>3
<1> QED
  BY <1>1, <1>2, <1>3, SenderAlone
     DEF SendSegment, NetworkType, AcksBehind, SenderBehindReceiver

LEMMA SkipSegmentInv == IndInv /\ SkipSegment => IndInv'
<1> SUFFICES ASSUME IndInv, SkipSegment PROVE IndInv'
  OBVIOUS
<1>1. SoundSender(sender) /\ NetworkType /\ AcksBehind
  BY Parts
<1>2. SoundSender(sender') /\ sender'.seq_num = sender.seq_num
  BY <1>1, NextSegmentSound DEF SkipSegment
<1> QED
  BY <1>1, <1>2, SenderAlone
     DEF SkipSegment, NetworkType, AcksBehind, SenderBehindReceiver

LEMMA SendErrorInv == IndInv /\ SendError => IndInv'
<1> SUFFICES ASSUME IndInv, SendError PROVE IndInv'
  OBVIOUS
<1>1. SoundSender(sender) /\ NetworkType /\ AcksBehind
  BY Parts
<1>2. SoundSender(sender') /\ sender'.seq_num = sender.seq_num
  BY <1>1 DEF SendError, SoundSender, SenderType
<1>3. toSender' \in Seq(Ack) /\ DOMAIN toSender' = {}
  BY EmptySeq DEF SendError
<1> QED
  BY <1>1, <1>2, <1>3, SenderAlone
     DEF SendError, NetworkType, AcksBehind, SenderBehindReceiver

LEMMA ReceiveAckInv ==
    ASSUME IndInv, NEW k \in Deliverable(toSender), ReceiveAck(k)
    PROVE  IndInv'
<1>1. SoundSender(sender) /\ NetworkType /\ AcksBehind /\ k \in DOMAIN toSender
  BY Parts DEF Deliverable
<1>2. toSender[k] \in Ack /\ toSender[k].seq_num =< receiver.seq_num
      /\ sender.seq_num =< receiver.seq_num
  BY <1>1, ElementOfSeq DEF NetworkType, AcksBehind, SenderBehindReceiver
<1>3. SoundSender(sender') /\ sender'.seq_num =< receiver.seq_num
  <2> DEFINE acked == Acknowledge(sender, toSender[k])
  <2>1. SoundSender(acked) /\ acked.pc = "waiting"
        /\ acked.seq_num \in {sender.seq_num, toSender[k].seq_num}
    BY <1>1, <1>2, AcknowledgeSound DEF ReceiveAck
  <2>2. sender' = AtLoopTest(acked)
    BY DEF ReceiveAck
  <2> HIDE DEF acked
  <2> QED BY <1>2, <2>1, <2>2, LoopTestSound
<1>4. /\ RemoveAt(toSender, k) \in Seq(Ack)
      /\ \A i \in DOMAIN RemoveAt(toSender, k) : \E j \in DOMAIN toSender :
            RemoveAt(toSender, k)[i] = toSender[j]
  BY <1>1, RemovedAt DEF NetworkType
<1>5. toSender' \in Seq(Ack)
      /\ \A i \in DOMAIN toSender' : toSender'[i].seq_num =< receiver.seq_num
  <2>1. CASE toSender' = <<>>
    BY <2>1, EmptySeq
  <2>2. CASE toSender' = RemoveAt(toSender, k)
    BY <2>2, <1>1, <1>4 DEF AcksBehind
  <2> QED BY <2>1, <2>2 DEF ReceiveAck
<1> QED
  BY <1>1, <1>3, <1>5, SenderAlone DEF ReceiveAck, NetworkType

LEMMA SenderTimeoutInv == IndInv /\ SenderTimeout => IndInv'
<1> SUFFICES ASSUME IndInv, SenderTimeout PROVE IndInv'
  OBVIOUS
<1>1. SoundSender(sender) /\ NetworkType /\ AcksBehind
  BY Parts
<1>2. SoundSender(sender') /\ sender'.seq_num = sender.seq_num
  BY <1>1, AfterTimeoutSound DEF SenderTimeout
<1>3. toSender' \in Seq(Ack)
      /\ \A i \in DOMAIN toSender' : toSender'[i].seq_num =< receiver.seq_num
  BY <1>1, EmptySeq DEF SenderTimeout, NetworkType, AcksBehind
<1>4. quiet' \in Nat
  BY <1>1 DEF SenderTimeout, NetworkType
<1> QED
  BY <1>1, <1>2, <1>3, <1>4, SenderAlone
     DEF SenderTimeout, NetworkType, AcksBehind, SenderBehindReceiver

LEMMA ReceiveSegmentInv ==
    ASSUME IndInv, NEW k \in Deliverable(toReceiver), ReceiveSegment(k)
    PROVE  IndInv'
<1> DEFINE chunk == toReceiver[k]
           ack == [seq_num |-> receiver'.seq_num,
                   selective_acks |-> receiver'.acks_vector]
<1>1. SoundSender(sender) /\ SoundReceiver(receiver) /\ NetworkType /\ AcksBehind
      /\ k \in DOMAIN toReceiver /\ (ReceiveWindow = 1 => NoGaps)
  BY Parts DEF Deliverable
<1>2. chunk \in Nat
  BY <1>1, ElementOfSeq DEF NetworkType
<1>3. /\ SoundReceiver(receiver') /\ receiver'.seq_num >= receiver.seq_num
      /\ ReceiveWindow = 1 =>
           receiver'.seq_num = IF chunk = receiver.seq_num
                               THEN receiver.seq_num + 1 ELSE receiver.seq_num
  BY <1>1, <1>2, AfterSegmentSound DEF ReceiveSegment
<1>4. /\ receiver.seq_num \in Nat /\ receiver'.seq_num \in Nat
      /\ receiver'.acks_vector \in Bits /\ sender.seq_num \in Nat
  BY <1>1, <1>3 DEF SoundReceiver, ReceiverType, SoundSender, SenderType
<1>5. toReceiver' \in Seq(Nat)
  BY <1>1, RemovedAt DEF ReceiveSegment, NetworkType
<1>6. ack \in Ack
  BY <1>4 DEF Ack
<1>7. toSender' \in {toSender, Append(toSender, ack)} /\ losses' \in Nat
  <2>1. toSender' \in {toSender, Append(toSender, ack)}
        /\ (losses' = losses \/ losses' = losses + 1)
    BY DEF ReceiveSegment, Send
  <2> QED BY <1>1, <2>1 DEF NetworkType
<1>8. /\ toSender' \in Seq(Ack)
      /\ \A i \in DOMAIN toSender' :
           toSender'[i] = ack \/ \E j \in DOMAIN toSender : toSender'[i] = toSender[j]
  <2>1. toSender \in Seq(Ack)
    BY <1>1 DEF NetworkType
  <2> HIDE DEF ack
  <2>2. CASE toSender' = toSender
    BY <2>1, <2>2
  <2>3. CASE toSender' = Append(toSender, ack)
    <3>1. /\ Append(toSender, ack) \in Seq(Ack)
          /\ \A i \in DOMAIN Append(toSender, ack) : Append(toSender, ack)[i] = ack
               \/ \E j \in DOMAIN toSender : Append(toSender, ack)[i] = toSender[j]
      BY <1>6, <2>1, Appended
    <3> QED BY <2>3, <3>1
  <2> QED BY <1>7, <2>2, <2>3
<1>9. AcksBehind'
  <2>1. sender'.seq_num =< receiver'.seq_num
    BY <1>1, <1>3, <1>4 DEF ReceiveSegment, AcksBehind, SenderBehindReceiver
  <2>2. ASSUME NEW i \in DOMAIN toSender'
        PROVE  toSender'[i].seq_num =< receiver'.seq_num
    <3>1. CASE toSender'[i] = ack
      BY <3>1, <1>4
    <3>2. CASE \E j \in DOMAIN toSender : toSender'[i] = toSender[j]
      <4>1. PICK j \in DOMAIN toSender : toSender'[i] = toSender[j]
        BY <3>2
      <4>2. toSender[j] \in Ack /\ toSender[j].seq_num =< receiver.seq_num
        BY <1>1, ElementOfSeq DEF NetworkType, AcksBehind
      <4>3. toSender[j].seq_num \in Nat
        BY <4>2 DEF Ack
      <4> QED BY <4>1, <4>2, <4>3, <1>3, <1>4
    <3> QED BY <3>1, <3>2, <1>8
  <2> QED BY <2>1, <2>2 DEF AcksBehind, SenderBehindReceiver
<1>10. ReceiveWindow = 1 => NoGaps'
  <2> SUFFICES ASSUME ReceiveWindow = 1, NEW n \in 0 .. receiver'.seq_num - 1
               PROVE  n \in written'
    BY DEF NoGaps
  <2>1. CASE n < receiver.seq_num
    BY <2>1, <1>1, <1>4 DEF NoGaps, ReceiveSegment
  <2>2. CASE ~(n < receiver.seq_num)
    <3>1. n = chunk /\ InWindow(receiver, chunk)
      BY <2>2, <1>2, <1>3, <1>4 DEF InWindow
    <3> QED BY <3>1 DEF ReceiveSegment
  <2> QED BY <2>1, <2>2
<1>11. NetworkType'
  <2>1. written' \subseteq Nat
    BY <1>1, <1>2 DEF ReceiveSegment, NetworkType
  <2> QED BY <2>1, <1>5, <1>7, <1>8 DEF ReceiveSegment, NetworkType
<1>12. SoundSender(sender')
  BY <1>1 DEF ReceiveSegment
<1> QED
  BY <1>3, <1>9, <1>10, <1>11, <1>12, PartsNext

LEMMA ReceiverTimeoutInv == IndInv /\ ReceiverTimeout => IndInv'
<1> SUFFICES ASSUME IndInv, ReceiverTimeout PROVE IndInv'
  OBVIOUS
<1>1. SoundSender(sender) /\ SoundReceiver(receiver) /\ NetworkType /\ AcksBehind
      /\ (ReceiveWindow = 1 => NoGaps)
  BY Parts
<1>2. SoundReceiver(receiver') /\ receiver'.seq_num = receiver.seq_num
  BY <1>1 DEF ReceiverTimeout, SoundReceiver, ReceiverType
<1>3. NetworkType'
  BY <1>1, EmptySeq DEF ReceiverTimeout, NetworkType
<1>4. SoundSender(sender') /\ AcksBehind' /\ (ReceiveWindow = 1 => NoGaps')
  BY <1>1, <1>2 DEF ReceiverTimeout, AcksBehind, SenderBehindReceiver, NoGaps
<1> QED
  BY <1>2, <1>3, <1>4, PartsNext

LEMMA StutterInv == IndInv /\ UNCHANGED vars => IndInv'
BY DEF vars, IndInv, TypeOK, AcksBehind, SenderBehindReceiver, LastChunks, SenderPlace,
       InOrder, NoGaps, Exited

LEMMA NextInv == IndInv /\ [Next]_vars => IndInv'
<1> SUFFICES ASSUME IndInv, [Next]_vars PROVE IndInv'
  OBVIOUS
<1>1. CASE SenderStep
  BY <1>1, SendSegmentInv, SkipSegmentInv, SendErrorInv, SenderTimeoutInv, ReceiveAckInv
     DEF SenderStep
<1>2. CASE ReceiverStep
  BY <1>2, ReceiveSegmentInv, ReceiverTimeoutInv DEF ReceiverStep
<1>3. CASE Finished
  BY <1>3, StutterInv DEF Finished
<1>4. CASE UNCHANGED vars
  BY <1>4, StutterInv
<1> QED
  BY <1>1, <1>2, <1>3, <1>4 DEF Next

LEMMA AlwaysIndInv == Spec => []IndInv
BY InitInv, NextInv, PTL DEF Spec

(***************************************************************************)
(* The theorems.                                                             *)
(***************************************************************************)

\* The variables of both programs keep their types: in particular no bit of a
\* vector is set beyond its 32, whatever the shifts of file-sender.c and
\* file-receiver.c do to it.
THEOREM TypeCorrect == Spec => []TypeOK
<1>1. IndInv => TypeOK
  BY DEF IndInv
<1> QED
  BY <1>1, AlwaysIndInv, PTL

\* For every pair of window sizes and any network, the base of the sender's window
\* (file-sender.c:109-117) never passes that of the receiver's.
THEOREM SenderNeverAhead == Spec => []SenderBehindReceiver
<1>1. IndInv => SenderBehindReceiver
  BY DEF IndInv, AcksBehind
<1> QED
  BY <1>1, AlwaysIndInv, PTL

\* With a receive window of 1 (Stop & Wait, Go Back N), every chunk below the base
\* of the receiver is in its file: file-receiver.c:93-112.
THEOREM GoBackNHasNoGaps ==
    ASSUME ReceiveWindow = 1
    PROVE  Spec => []NoGaps
<1>1. IndInv => NoGaps
  BY DEF IndInv, InOrder
<1> QED
  BY <1>1, AlwaysIndInv, PTL

\* With a receive window of 1, a receiver that exits with success
\* (file-receiver.c:124-144) has the whole file.
THEOREM GoBackNReceivesAll ==
    ASSUME ReceiveWindow = 1
    PROVE  Spec => []ReceivedAll
<1>1. IndInv => ReceivedAll
  <2> SUFFICES ASSUME IndInv, receiver.pc = "success", NEW n \in 0 .. Full
               PROVE  n \in written
    BY DEF ReceivedAll, FileWritten
  <2>1. receiver.seq_num > Full /\ receiver.seq_num \in Nat
    BY Parts, FileAssumption DEF SoundReceiver, ReceiverType
  <2> QED
    BY <2>1, Parts, FileAssumption DEF NoGaps
<1> QED
  BY <1>1, AlwaysIndInv, PTL

\* With a receive window of 1 and a file longer than the send window, a sender that
\* exits with success (file-sender.c:136) has delivered the whole file.
THEOREM GoBackNDelivers ==
    ASSUME ReceiveWindow = 1, SendWindow =< Full
    PROVE  Spec => []DeliveredAll
<1>1. IndInv => DeliveredAll
  <2> SUFFICES ASSUME IndInv, sender.pc = "success", NEW n \in 0 .. Full
               PROVE  n \in written
    BY DEF DeliveredAll, FileWritten
  <2>1. sender.seq_num > Full /\ sender.seq_num \in Nat /\ receiver.seq_num \in Nat
    BY Parts DEF SoundSender, SenderType, SoundReceiver, ReceiverType
  <2>2. receiver.seq_num > Full
    BY <2>1, Parts, FileAssumption DEF AcksBehind, SenderBehindReceiver
  <2> QED
    BY <2>1, <2>2, Parts, FileAssumption DEF NoGaps
<1> QED
  BY <1>1, AlwaysIndInv, PTL

(***************************************************************************)
(* With a receive window of one, the programs implement ReliableDelivery.    *)
(***************************************************************************)

\* No chunk is written ahead of the receiver's base.
NothingAhead == written \subseteq 0 .. receiver.seq_num - 1

\* What a step does to the file: nothing, or the chunk at the base is written.
LEMMA FileGrows ==
    ASSUME ReceiveWindow = 1, IndInv, [Next]_vars
    PROVE  \/ written' = written /\ receiver'.seq_num = receiver.seq_num
           \/ /\ written' = written \cup {receiver.seq_num}
              /\ receiver'.seq_num = receiver.seq_num + 1
              /\ ~Exited(receiver) /\ ~Exited(receiver)' /\ sender' = sender
<1>1. SoundReceiver(receiver) /\ NetworkType /\ receiver \in ReceiverType
  BY Parts DEF SoundReceiver
<1>2. CASE SenderStep
  BY <1>2 DEF SenderStep, SendSegment, SkipSegment, SendError, SenderTimeout, ReceiveAck
<1>3. ASSUME NEW k \in Deliverable(toReceiver), ReceiveSegment(k)
      PROVE  \/ written' = written /\ receiver'.seq_num = receiver.seq_num
             \/ /\ written' = written \cup {receiver.seq_num}
                /\ receiver'.seq_num = receiver.seq_num + 1
                /\ ~Exited(receiver) /\ ~Exited(receiver)' /\ sender' = sender
  <2> DEFINE chunk == toReceiver[k]
  <2>1. k \in DOMAIN toReceiver
    BY DEF Deliverable
  <2>2. chunk \in Nat
    BY <1>1, <2>1, ElementOfSeq DEF NetworkType
  <2>3. /\ receiver' = AfterSegment(receiver, chunk) /\ ~Exited(receiver) /\ sender' = sender
        /\ written' = IF InWindow(receiver, chunk) THEN written \cup {chunk} ELSE written
    BY <1>3 DEF ReceiveSegment
  <2> HIDE DEF chunk
  <2>4. /\ receiver'.seq_num = IF chunk = receiver.seq_num
                               THEN receiver.seq_num + 1 ELSE receiver.seq_num
        /\ receiver'.pc \in {"waiting", "lingering"}
    BY <1>1, <2>2, <2>3, AfterSegmentSound
  <2>5. InWindow(receiver, chunk) <=> chunk = receiver.seq_num
    BY <1>1, <2>2 DEF InWindow, ReceiverType
  <2> QED
    BY <2>3, <2>4, <2>5 DEF Exited
<1>4. CASE ReceiverTimeout
  BY <1>1, <1>4 DEF ReceiverTimeout, ReceiverType
<1>5. CASE Finished \/ UNCHANGED vars
  BY <1>5 DEF Finished, vars
<1> QED
  BY <1>2, <1>3, <1>4, <1>5 DEF Next, ReceiverStep

LEMMA NothingAheadInv ==
    ASSUME ReceiveWindow = 1
    PROVE  Spec => []NothingAhead
<1>1. Init => NothingAhead
  BY DEF Init, NothingAhead
<1>2. IndInv /\ NothingAhead /\ [Next]_vars => NothingAhead'
  <2> SUFFICES ASSUME IndInv, NothingAhead, [Next]_vars PROVE NothingAhead'
    OBVIOUS
  <2>1. receiver.seq_num \in Nat
    BY Parts DEF SoundReceiver, ReceiverType
  <2>2. CASE written' = written /\ receiver'.seq_num = receiver.seq_num
    BY <2>2 DEF NothingAhead
  <2>3. CASE /\ written' = written \cup {receiver.seq_num}
             /\ receiver'.seq_num = receiver.seq_num + 1
    <3>1. ASSUME NEW n \in written' PROVE n \in 0 .. receiver'.seq_num - 1
      <4>1. n \in written \/ n = receiver.seq_num
        BY <2>3
      <4>2. n \in written => n \in 0 .. receiver.seq_num - 1
        BY DEF NothingAhead
      <4> QED
        BY <2>1, <2>3, <4>1, <4>2
    <3> QED
      BY <3>1 DEF NothingAhead
  <2> QED
    BY <2>2, <2>3, FileGrows
<1> QED
  BY <1>1, <1>2, AlwaysIndInv, PTL DEF Spec

\* A report is one of its program's end, and stays.
LEMMA Reported ==
    ASSUME IndInv, IndInv', [Next]_vars
    PROVE  /\ Report(sender) # "running" => Report(sender)' = Report(sender)
           /\ Report(receiver) # "running" => Report(receiver)' = Report(receiver)
           /\ Report(sender)' \in {"running", "failure", "success"}
           /\ Report(receiver)' \in {"running", "failure", "success"}
           /\ Report(sender)' = Report(sender) \/ Report(receiver)' = Report(receiver)
           /\ Report(sender)' = "success" => sender'.pc = "success"
           /\ Report(receiver)' = "success" => receiver'.pc = "success"
<1>1. SenderStep => ~Exited(sender) /\ receiver' = receiver
  BY DEF SenderStep, SendSegment, SkipSegment, SendError, SenderTimeout, ReceiveAck, Exited
<1>2. ReceiverStep => ~Exited(receiver) /\ sender' = sender
  BY DEF ReceiverStep, ReceiveSegment, ReceiverTimeout
<1>3. Finished \/ UNCHANGED vars => sender' = sender /\ receiver' = receiver
  BY DEF Finished, vars
<1> QED
  BY <1>1, <1>2, <1>3 DEF Next, Report, Exited

LEMMA StepDelivers ==
    ASSUME ReceiveWindow = 1, IndInv, IndInv', NothingAhead, DeliveredAll', ReceivedAll',
           [Next]_vars
    PROVE  [Delivery!Next]_(Delivery!vars)
<1>1. receiver.seq_num \in Nat
  BY Parts DEF SoundReceiver, ReceiverType
<1>2. written = 0 .. receiver.seq_num - 1
  BY Parts DEF NoGaps, NothingAhead
<1>3. Cardinality(written) = receiver.seq_num
  BY <1>1, <1>2, FS_Interval
<1>4. CASE written' = written
  <2>1. 0 .. Full \subseteq written \/ (Report(sender)' # "success" /\ Report(receiver)' # "success")
    BY <1>4, Reported DEF DeliveredAll, ReceivedAll, FileWritten
  <2>2. CASE Report(sender)' = Report(sender) /\ Report(receiver)' = Report(receiver)
    BY <1>4, <2>2 DEF Delivery!vars
  <2>3. CASE Report(sender)' # Report(sender)
    <3>1. /\ Report(sender) = "running" /\ Report(receiver)' = Report(receiver)
          /\ Report(sender)' \in Delivery!Reports
      BY <2>1, <2>3, Reported DEF Delivery!Reports
    <3> QED
      BY <1>4, <3>1 DEF Delivery!Next, Delivery!SenderEnds
  <2>4. CASE Report(receiver)' # Report(receiver)
    <3>1. /\ Report(receiver) = "running" /\ Report(sender)' = Report(sender)
          /\ Report(receiver)' \in Delivery!Reports
      BY <2>1, <2>4, Reported DEF Delivery!Reports
    <3> QED
      BY <1>4, <3>1 DEF Delivery!Next, Delivery!ReceiverEnds
  <2> QED
    BY <2>2, <2>3, <2>4
<1>5. CASE written' # written
  <2>1. /\ written' = written \cup {Cardinality(written)}
        /\ ~Exited(receiver) /\ ~Exited(receiver)' /\ sender' = sender
    BY <1>3, <1>5, FileGrows
  <2>2. /\ Report(receiver) = "running" /\ Report(receiver)' = "running"
        /\ Report(sender)' = Report(sender)
    BY <2>1 DEF Report, Exited
  <2>3. Delivery!Cardinality(written) = Cardinality(written)
    BY Zenon DEF Delivery!Cardinality, Cardinality
  <2>4. Delivery!Write
    BY <2>1, <2>2, <2>3, Zenon DEF Delivery!Write
  <2> QED
    BY <2>4 DEF Delivery!Next
<1> QED
  BY <1>4, <1>5

\* With a receive window of 1 and a file longer than the send window, the two programs
\* implement ReliableDelivery: chunks are written in order, each once, by a receiver
\* that runs, and success is reported only of a file that is there
\* (file-sender.c:67-145, file-receiver.c:69-147).
THEOREM GoBackNImplementsDelivery ==
    ASSUME ReceiveWindow = 1, SendWindow =< Full
    PROVE  Spec => DeliversInOrder
<1>1. Init => Delivery!Init
  BY DEF Init, Delivery!Init, Report, Exited
<1>2. IndInv /\ IndInv' /\ NothingAhead /\ DeliveredAll' /\ ReceivedAll' /\ [Next]_vars
          => [Delivery!Next]_(Delivery!vars)
  BY StepDelivers
<1> QED
  BY <1>1, <1>2, AlwaysIndInv, NothingAheadInv, GoBackNDelivers, GoBackNReceivesAll, PTL
     DEF Spec, DeliversInOrder, Delivery!Spec
=============================================================================
