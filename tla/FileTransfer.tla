---------------------------- MODULE FileTransfer ----------------------------
(***************************************************************************)
(* The reliable file transfer of Computer Networks, Project 1: file-sender.c *)
(* and file-receiver.c, a selective repeat protocol over UDP whose window    *)
(* sizes are command line arguments.  With both windows of 1 it is Stop &    *)
(* Wait, with a receive window of 1 it is Go Back N.                         *)
(*                                                                           *)
(* Abstractions.  A chunk is its number: its bytes are those of the file at  *)
(* 1000 times that number, so a data packet is a number and Size tells its   *)
(* length.  An acks_vector is the set of the positions of its bits that are  *)
(* 1.  A step is one turn of the sender's inner loop, or one recvfrom of     *)
(* either program with everything it does until it blocks again.             *)
(***************************************************************************)
EXTENDS Integers, SequencesExt

CONSTANTS
    Full,          \* the number of chunks of 1000 bytes in the file
    Rest,          \* the number of bytes in the file after those
    SendWindow,    \* sw_size
    ReceiveWindow, \* rw_size
    MaxSeq,        \* the largest uint32_t (scaled down for TLC)
    Faults,        \* what the network does besides dropping packets
    MaxLosses,     \* bound: packets dropped
    MaxInTransit   \* bound: packets on their way when a timeout may be premature

MAX_WINDOW_SIZE == 32
MAX_RETRIES == 3
VectorBits == 32
ChunkSize == 1000

ASSUME FileAssumption == Full \in Nat /\ Rest \in 0 .. ChunkSize - 1
ASSUME WindowsAssumption ==
    SendWindow \in 1 .. MAX_WINDOW_SIZE /\ ReceiveWindow \in 1 .. MAX_WINDOW_SIZE
ASSUME MaxSeqAssumption == MaxSeq \in Nat /\ MaxSeq > Full + MAX_WINDOW_SIZE
ASSUME NetworkAssumption ==
    /\ Faults \subseteq {"delay", "reorder", "error"}
    /\ MaxLosses \in Nat /\ MaxInTransit \in Nat

VARIABLES
    sender,     \* the variables of file-sender's main
    receiver,   \* the variables of file-receiver's main
    written,    \* the chunks the receiver has written to its file
    toReceiver, \* the data packets on their way, oldest first
    toSender,   \* the acknowledgements on their way, oldest first
    losses,     \* the packets dropped so far
    quiet       \* the sender's timeouts since the receiver last got a packet

vars == <<sender, receiver, written, toReceiver, toSender, losses, quiet>>

Bits == SUBSET (0 .. VectorBits - 1)

Ack == [seq_num : Nat, selective_acks : Bits]

\* What -1 is in the uint32_t last_chunk: the last chunk is not known.
NoChunk == MaxSeq

\* last_chunk + 1
Succ(n) == IF n = MaxSeq THEN 0 ELSE n + 1

\* Mutant: the lowest bit is kept.
ShiftRight_KeepsLow(bits) == {b - 1 : b \in bits}

ShiftRight(bits) == {b - 1 : b \in bits \ {0}}

ShiftLeft(bits) == {b + 1 : b \in bits \ {VectorBits - 1}}

\* What fread returns for chunk n; anything less than ChunkSize sets feof.
Size(n) == IF n < Full THEN ChunkSize ELSE IF n = Full THEN Rest ELSE 0

Exited(process) == process.pc \in {"success", "failure"}

Init ==
    /\ sender = [pc |-> "sending", seq_num |-> 0, acks_vector |-> {}, to_send |-> 0,
                 last_chunk |-> NoChunk, data_len |-> 0, timeout |-> 0]
    /\ receiver = [pc |-> "waiting", seq_num |-> 0, acks_vector |-> {},
                   last_chunk |-> NoChunk]
    /\ written = {}
    /\ toReceiver = <<>> /\ toSender = <<>>
    /\ losses = 0 /\ quiet = 0

-----------------------------------------------------------------------------
(* The network.  A packet may be dropped, which log-packets.c does when it is *)
(* sent, and nobody reads the socket of a program that has exited.            *)

Send(channel, packet, peer) ==
    \/ /\ channel' = IF Exited(peer) THEN channel ELSE Append(channel, packet)
       /\ UNCHANGED losses
    \/ /\ ~Exited(peer) /\ losses < MaxLosses
       /\ losses' = losses + 1
       /\ UNCHANGED channel

\* The positions of the packets that recvfrom may return next.
Deliverable(channel) ==
    IF "reorder" \in Faults THEN DOMAIN channel ELSE DOMAIN channel \cap {1}

\* Without delays a second is long enough for every packet sent to have its effect.
Quiescent ==
    "delay" \in Faults \/ (toReceiver = <<>> /\ toSender = <<>> /\ sender.pc # "sending")

\* Seconds of RECEIVER_INCOMPLETE_TIMEOUT and RECEIVER_COMPLETE_TIMEOUT, which are
\* multiples of RETRANSMIT_TIMEOUT.
Patience == IF receiver.pc = "lingering" THEN 2 ELSE 4

-----------------------------------------------------------------------------
(* The sender. *)

\* Mutant: the end of the file is not part of the loop condition.
AtLoopTest_IgnoresEof(s) ==
    [s EXCEPT !.pc =
        IF s.seq_num = Succ(s.last_chunk) THEN "success"
        ELSE IF s.to_send < s.seq_num + SendWindow THEN "sending"
        ELSE "waiting"]

\* The loop condition, and the inner loop's.
AtLoopTest(s) ==
    [s EXCEPT !.pc =
        IF s.seq_num = Succ(s.last_chunk) /\ s.data_len < ChunkSize THEN "success"
        ELSE IF s.to_send < s.seq_num + SendWindow THEN "sending"
        ELSE "waiting"]

\* A segment that is acknowledged is not sent, nor is one after the end of the file
\* once the last chunk is known.
Skips(s) ==
    0 \in s.acks_vector \/ (Size(s.to_send) = 0 /\ s.last_chunk # NoChunk)

NextSegment(s) ==
    LET chunk == s.to_send
    IN  [s EXCEPT !.pc = IF chunk + 1 < s.seq_num + SendWindow THEN "sending"
                         ELSE "waiting",
                  !.data_len = Size(chunk),
                  !.last_chunk = IF ~Skips(s) /\ Size(chunk) < ChunkSize
                                 THEN chunk ELSE @,
                  !.to_send = chunk + 1,
                  !.acks_vector = ShiftRight(@)]

SendSegment ==
    /\ sender.pc = "sending" /\ ~Skips(sender)
    /\ sender' = NextSegment(sender)
    /\ Send(toReceiver, sender.to_send, receiver)
    /\ UNCHANGED <<receiver, written, toSender, quiet>>

SkipSegment ==
    /\ sender.pc = "sending" /\ Skips(sender)
    /\ sender' = NextSegment(sender)
    /\ UNCHANGED <<receiver, written, toReceiver, toSender, losses, quiet>>

\* sendto fails: "Truncated packet."
SendError ==
    /\ "error" \in Faults
    /\ sender.pc = "sending" /\ ~Skips(sender)
    /\ sender' = [sender EXCEPT !.pc = "failure"]
    /\ toSender' = <<>>
    /\ UNCHANGED <<receiver, written, toReceiver, losses, quiet>>

\* Mutant: the acknowledged number is taken for that of the last chunk received.
Acknowledge_OneMore(s, ack) ==
    IF ack.seq_num >= s.seq_num /\ ack.seq_num =< s.seq_num + 1 + SendWindow
    THEN [s EXCEPT !.acks_vector = ShiftLeft(ack.selective_acks),
                   !.seq_num = ack.seq_num + 1,
                   !.timeout = 0]
    ELSE s

\* Only an acknowledgement inside the window counts.
Acknowledge(s, ack) ==
    IF ack.seq_num >= s.seq_num /\ ack.seq_num =< s.seq_num + 1 + SendWindow
    THEN [s EXCEPT !.acks_vector = ShiftLeft(ack.selective_acks),
                   !.seq_num = ack.seq_num,
                   !.timeout = 0]
    ELSE s

ReceiveAck(k) ==
    /\ sender.pc = "waiting"
    /\ sender' = AtLoopTest(Acknowledge(sender, toSender[k]))
    /\ toSender' = IF Exited(sender') THEN <<>> ELSE RemoveAt(toSender, k)
    /\ UNCHANGED <<receiver, written, toReceiver, losses, quiet>>

\* Mutant: last_chunk is not reset.
AfterTimeout_KeepsLastChunk(s) ==
    LET back == [s EXCEPT !.timeout = @ + 1, !.to_send = s.seq_num]
    IN  IF back.timeout = MAX_RETRIES THEN [back EXCEPT !.pc = "failure"]
        ELSE AtLoopTest(back)

\* Mutant: the timeouts are not counted.
AfterTimeout_NotCounted(s) ==
    AtLoopTest([s EXCEPT !.to_send = s.seq_num, !.last_chunk = NoChunk])

\* Back to the base of the window, to send again what is not acknowledged.
AfterTimeout(s) ==
    LET back == [s EXCEPT !.timeout = @ + 1, !.to_send = s.seq_num,
                          !.last_chunk = NoChunk]
    IN  IF back.timeout = MAX_RETRIES THEN [back EXCEPT !.pc = "failure"]
        ELSE AtLoopTest(back)

SenderTimeout ==
    /\ sender.pc = "waiting"
    /\ Quiescent
    /\ IF "delay" \in Faults
       THEN Len(toReceiver) + Len(toSender) < MaxInTransit /\ UNCHANGED quiet
       ELSE IF Exited(receiver) THEN UNCHANGED quiet
       ELSE quiet < Patience /\ quiet' = quiet + 1
    /\ sender' = AfterTimeout(sender)
    /\ toSender' = IF Exited(sender') THEN <<>> ELSE toSender
    /\ UNCHANGED <<receiver, written, toReceiver, losses>>

-----------------------------------------------------------------------------
(* The receiver. *)

InWindow(r, chunk) == chunk >= r.seq_num /\ chunk < r.seq_num + ReceiveWindow

\* Where the inner loop over the low bits stops.
FirstClear(bits) ==
    CHOOSE n \in 0 .. VectorBits : n \notin bits /\ \A b \in 0 .. n - 1 : b \in bits

Mark(r, chunk) ==
    IF InWindow(r, chunk) /\ chunk # r.seq_num
    THEN [r EXCEPT !.acks_vector = @ \cup {chunk - r.seq_num - 1}]
    ELSE r

\* Mutant: a chunk after the base moves the window as well.
MoveWindow_AnyChunk(r, chunk) ==
    LET run == FirstClear(r.acks_vector)
    IN  IF chunk < r.seq_num THEN r
        ELSE [r EXCEPT !.seq_num = @ + run + 1,
                       !.acks_vector = {b - run : b \in {a \in @ : a >= run}}]

\* The base of the window arrived: the window moves.
MoveWindow(r, chunk) ==
    LET run == FirstClear(r.acks_vector)
    IN  IF chunk # r.seq_num THEN r
        ELSE [r EXCEPT !.seq_num = @ + run + 1,
                       !.acks_vector = {b - run : b \in {a \in @ : a >= run}}]

\* Only before the file is complete does a short segment set last_chunk.
NoteLastChunk(r, chunk) ==
    IF r.pc = "waiting" /\ Size(chunk) < ChunkSize
    THEN [r EXCEPT !.last_chunk = chunk]
    ELSE r

\* Mutant: complete when the last chunk is the next one expected.
Complete_TooSoon(r) == r.last_chunk # NoChunk /\ r.seq_num >= r.last_chunk

Complete(r) == r.last_chunk # NoChunk /\ r.seq_num > r.last_chunk

AfterSegment(r, chunk) ==
    LET moved == MoveWindow(Mark(NoteLastChunk(r, chunk), chunk), chunk)
    IN  [moved EXCEPT !.pc = IF Complete(moved) THEN "lingering" ELSE "waiting"]

ReceiveSegment(k) ==
    LET chunk == toReceiver[k]
    IN  /\ ~Exited(receiver)
        /\ receiver' = AfterSegment(receiver, chunk)
        /\ written' = IF InWindow(receiver, chunk) THEN written \cup {chunk} ELSE written
        /\ toReceiver' = RemoveAt(toReceiver, k)
        /\ Send(toSender, [seq_num |-> receiver'.seq_num,
                           selective_acks |-> receiver'.acks_vector], sender)
        /\ quiet' = 0
        /\ UNCHANGED sender

\* Nothing came for Patience: the sender is gone or all it sent was dropped.
ReceiverTimeout ==
    /\ ~Exited(receiver)
    /\ Quiescent
    /\ "delay" \in Faults \/ Exited(sender) \/ quiet >= Patience - 1
    /\ receiver' = [receiver EXCEPT
           !.pc = IF receiver.pc = "lingering" THEN "success" ELSE "failure"]
    /\ toReceiver' = <<>>
    /\ UNCHANGED <<sender, written, toSender, losses, quiet>>

-----------------------------------------------------------------------------
Finished == Exited(sender) /\ Exited(receiver) /\ UNCHANGED vars

SenderStep ==
    \/ SendSegment \/ SkipSegment \/ SendError \/ SenderTimeout
    \/ \E k \in Deliverable(toSender) : ReceiveAck(k)

ReceiverStep ==
    \/ \E k \in Deliverable(toReceiver) : ReceiveSegment(k)
    \/ ReceiverTimeout

Next == SenderStep \/ ReceiverStep \/ Finished

Spec == Init /\ [][Next]_vars

\* Both programs run, and a blocked recvfrom returns: a packet comes or time passes.
FairSpec == Spec /\ WF_vars(SenderStep) /\ WF_vars(ReceiverStep)

-----------------------------------------------------------------------------
(* Properties. *)

\* Every chunk of the file has been written at its place by the receiver.
FileWritten == 0 .. Full \subseteq written

\* Types: the vectors stay in their 32 bits, and the sender's count of timeouts in a
\* row does not pass MAX_RETRIES.
TypeOK ==
    /\ sender \in [pc : {"sending", "waiting", "success", "failure"}, seq_num : Nat,
                   acks_vector : Bits, to_send : Nat, last_chunk : Nat,
                   data_len : 0 .. ChunkSize, timeout : 0 .. MAX_RETRIES]
    /\ receiver \in [pc : {"waiting", "lingering", "success", "failure"}, seq_num : Nat,
                     acks_vector : Bits, last_chunk : Nat]
    /\ written \subseteq Nat
    /\ toReceiver \in Seq(Nat) /\ toSender \in Seq(Ack)
    /\ losses \in Nat /\ quiet \in Nat

\* The windows never run apart: the sender's base is one the receiver had, however
\* old the acknowledgements are that reach it.
SenderBehindReceiver == sender.seq_num =< receiver.seq_num

\* Every chunk below the receiver's base is in the file.
NoGaps == \A chunk \in 0 .. receiver.seq_num - 1 : chunk \in written

\* A receiver that reports a complete file has all of it.
ReceivedAll == receiver.pc = "success" => FileWritten

\* A sender that exits with success has delivered the file.
DeliveredAll == sender.pc = "success" => FileWritten

\* What a program that runs, or has ended, shows of itself.
Report(process) == IF Exited(process) THEN process.pc ELSE "running"

Delivery == INSTANCE ReliableDelivery WITH
    LastChunk <- Full, file <- written, sender <- Report(sender), receiver <- Report(receiver)

\* Lost, delayed, repeated and overtaking packets notwithstanding, the receiver
\* writes the chunks in their order and each once, and neither program reports a
\* success that is not one.
DeliversInOrder == Delivery!Spec

\* file-receiver.c:58-59, bit k of the vector says that chunk window_base+1+k has
\* been received.
SelectiveAcksReceived ==
    \A b \in receiver.acks_vector : receiver.seq_num + 1 + b \in written

\* file-sender.c:53-54 and 67, a segment is passed over as acknowledged only when
\* the receiver has it.
SkipsOnlyReceived ==
    sender.pc = "sending" /\ 0 \in sender.acks_vector => sender.to_send \in written

-----------------------------------------------------------------------------
\* Liveness: both programs end.
Terminates == <>(Exited(sender) /\ Exited(receiver))

\* The receiver ends with the whole file.
Arrives == <>(receiver.pc = "success" /\ FileWritten)
=============================================================================
