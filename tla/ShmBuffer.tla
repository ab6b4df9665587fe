------------------------------ MODULE ShmBuffer ------------------------------
(***************************************************************************)
(* shmBuffer (include/protocols/shm_buffer.hpp): one slot of shared memory *)
(* through which writers pass messages to a reader in chunks of at most    *)
(* Slot bytes.  "guard" says that the slot holds a chunk.  The code holds  *)
(* the spinlock from the test of guard to its change, so each of these     *)
(* sections is one step; the busy waits are guards.  A writer stands for a *)
(* process: the std::mutex of a shmBuffer excludes only the threads that   *)
(* share the object.                                                       *)
(*                                                                         *)
(* A message is known by its number in the order in which first chunks are *)
(* stored, and its size; a chunk by its message and offset.                *)
(***************************************************************************)
EXTENDS Integers, Sequences

CONSTANTS
  Slot,     \* SHM_SMALL_MSG_SIZE
  Mantissa, \* bits of the significand of a float
  Sizes,    \* sizes of the messages
  Writer,   \* processes that put
  MaxPut    \* messages put, over all writers

ASSUME SlotAssumption == Slot \in Nat \ {0} /\ Mantissa \in Nat \ {0}
ASSUME SizesAssumption == Sizes \subseteq Nat
ASSUME MaxPutAssumption == MaxPut \in Nat

VARIABLES
  seg,   \* the segment: guard, data.size and the chunk in data.data
  w,     \* locals of put, by writer
  r,     \* locals of get, and the size the last probe returned
  sent,  \* history: sizes of the messages whose first chunk was stored
  rcvd   \* history: what get returned, with the chunks it copied

vars == <<seg, w, r, sent, rcvd>>

Chunk == [m : Nat, p : Nat]
NoChunk == [m |-> 0, p |-> 0]
NoSize == -1

SegRec == [guard : BOOLEAN, size : Nat, data : Chunk]
\* pc "put": sz is the argument of put, p the bytes already stored, m the
\* message number, 0 before the first chunk.
WriterRec == [pc : {"idle", "put"}, sz : Nat, p : Nat, m : Nat]
WriterIdle == [pc |-> "idle", sz |-> 0, p |-> 0, m |-> 0]
\* pc "get": n is nmsgs, the chunks still to come; got those copied so far.
ReaderRec == [pc : {"idle", "get"}, seen : Nat \cup {NoSize}, size : Nat,
              n : Nat, got : Seq(Chunk)]
ReaderIdle == [pc |-> "idle", seen |-> NoSize, size |-> 0, n |-> 0, got |-> <<>>]
RcvdRec == [seen : Nat \cup {NoSize}, size : Nat, got : Seq(Chunk)]

TypeOK ==
  /\ seg \in SegRec
  /\ w \in [Writer -> WriterRec]
  /\ r \in ReaderRec
  /\ sent \in Seq(Nat)
  /\ rcvd \in Seq(RcvdRec)

\* createBuffer: guard = nullptr
Init ==
  /\ seg = [guard |-> FALSE, size |-> 0, data |-> NoChunk]
  /\ w = [x \in Writer |-> WriterIdle]
  /\ r = ReaderIdle
  /\ sent = <<>> /\ rcvd = <<>>

-----------------------------------------------------------------------------
(* put *)

\* Call of put(data, sz); EOS is sz = 0.
StartPut(x, sz) ==
  /\ w[x].pc = "idle" /\ Len(sent) < MaxPut
  /\ w' = [w EXCEPT ![x] = [pc |-> "put", sz |-> sz, p |-> 0, m |-> 0]]
  /\ UNCHANGED <<seg, r, sent, rcvd>>

\* A chunk may be stored: the slot is empty.
SlotFreeAnyway == TRUE \* mutant
SlotFree == ~seg.guard

\* put returns when everything up to q is stored: size -= s reached 0.
PutOver(x, q) == w[x].sz <= q

\* Wait for the empty slot, store the next chunk and raise guard.
PutChunk(x) ==
  LET m == IF w[x].m = 0 THEN Len(sent) + 1 ELSE w[x].m
      q == w[x].p + Slot
  IN
  /\ w[x].pc = "put" /\ SlotFree
  /\ sent' = IF w[x].m = 0 THEN Append(sent, w[x].sz) ELSE sent
  /\ seg' = [guard |-> TRUE, size |-> w[x].sz, data |-> [m |-> m, p |-> w[x].p]]
  /\ w' = [w EXCEPT ![x] = IF PutOver(x, q) THEN WriterIdle
                           ELSE [@ EXCEPT !.p = q, !.m = m]]
  /\ UNCHANGED <<r, rcvd>>

-----------------------------------------------------------------------------
(* getsize, trygetsize, get, tryget *)

\* n rounded to the nearest float, ties to even.
FloatOf(n) ==
  LET e    == CHOOSE i \in 0 .. 63 : 2^i <= n /\ n < 2^(i + 1)
      unit == 2^(e + 1 - Mantissa)
      q    == n \div unit
      twice == 2 * (n % unit)
  IN IF n < 2^Mantissa THEN n
     ELSE IF twice > unit \/ (twice = unit /\ q % 2 = 1) THEN (q + 1) * unit
     ELSE q * unit

CeilDiv(a, b) == (a + b - 1) \div b

\* int nmsgs = std::ceil((float)size / SHM_SMALL_MSG_SIZE)
FloorChunks(size) == FloatOf(size) \div Slot \* mutant
NMsgs(size) == CeilDiv(FloatOf(size), Slot)

\* HandleSHM::probe: getsize or trygetsize, which leave the chunk in the slot.
GetSizeMissed == \* mutant
  /\ r.pc = "idle" /\ seg.guard /\ UNCHANGED vars
GetSize ==
  /\ r.pc = "idle" /\ seg.guard
  /\ r' = [r EXCEPT !.seen = seg.size]
  /\ UNCHANGED <<seg, w, sent, rcvd>>

\* The chunk is copied and guard lowered.
TakeKeeping == seg \* mutant
Take == [seg EXCEPT !.guard = FALSE]

\* get copies a chunk with n chunks to come, this one included.
Copy(seen, size, n, got) ==
  /\ seg' = Take
  /\ IF n = 1
       THEN /\ rcvd' = Append(rcvd, [seen |-> seen, size |-> size, got |-> got])
            /\ r' = ReaderIdle
       ELSE /\ r' = [pc |-> "get", seen |-> seen, size |-> size, n |-> n - 1, got |-> got]
            /\ UNCHANGED rcvd

\* The first chunk of get or tryget, called after a probe (HandleUser::receive).
\* A size of 0 is EOS, which has no chunk to copy.
StartGet ==
  /\ r.pc = "idle" /\ r.seen # NoSize /\ seg.guard
  /\ IF seg.size = 0 THEN Copy(r.seen, 0, 1, <<>>)
     ELSE Copy(r.seen, seg.size, NMsgs(seg.size), <<seg.data>>)
  /\ UNCHANGED <<w, sent>>

\* The following chunks: the loop waits for each of them.
GetChunk ==
  /\ r.pc = "get" /\ seg.guard
  /\ Copy(r.seen, r.size, r.n, Append(r.got, seg.data))
  /\ UNCHANGED <<w, sent>>

-----------------------------------------------------------------------------
(* Specification *)

Start == \E x \in Writer : \E sz \in Sizes : StartPut(x, sz)
Read == GetSize \/ StartGet \/ GetChunk

\* Every message was put and received.
Done == /\ Len(sent) >= MaxPut /\ Len(rcvd) = Len(sent)
        /\ \A x \in Writer : w[x].pc = "idle"
        /\ UNCHANGED vars

Next == Start \/ (\E x \in Writer : PutChunk(x)) \/ Read \/ Done

Spec == Init /\ [][Next]_vars

\* The processes run.
FairSpec == /\ Spec
            /\ \A x \in Writer : WF_vars(PutChunk(x))
            /\ WF_vars(StartGet \/ GetChunk) /\ WF_vars(GetSize /\ r.seen = NoSize)

-----------------------------------------------------------------------------
(* Properties *)

\* The chunks of message i: what a complete get copies.
Chunks(size) == CeilDiv(size, Slot)
Whole(i, size) == IF size = 0 THEN <<>>
                  ELSE [k \in 1 .. Chunks(size) |-> [m |-> i, p |-> (k - 1) * Slot]]

\* The i-th message got is the i-th message put, complete, with its chunks in
\* order and none of another message (shm_buffer.hpp 118-196).
Intact == \A i \in 1 .. Len(rcvd) :
  /\ i <= Len(sent)
  /\ rcvd[i].size = sent[i]
  /\ rcvd[i].got = Whole(i, sent[i])

\* get writes as many bytes as the segment says whatever its argument: they are
\* as many as the probe announced, for which the caller made room.
NoOverrun == \A i \in 1 .. Len(rcvd) : rcvd[i].size = rcvd[i].seen

\* The buffer implements the channel of whole messages; a damaged message is
\* no message of the channel.
DeliveredMsg(i) == IF rcvd[i].got = Whole(i, rcvd[i].size) THEN rcvd[i].size ELSE NoSize
Channel == INSTANCE OneSlotChannel WITH
  Msg <- Sizes, sent <- sent, delivered <- [i \in 1 .. Len(rcvd) |-> DeliveredMsg(i)]
ImplementsChannel == Channel!Spec

\* Every message put is got.
AllReceived == \A i \in 1 .. MaxPut : (Len(sent) >= i) ~> (Len(rcvd) >= i)

=============================================================================
