-------------------------- MODULE ShmBuffer_proofs --------------------------
(***************************************************************************)
(* Proofs about ShmBuffer: the inductive invariant, Intact and NoOverrun,  *)
(* and the refinement of OneSlotChannel.                                   *)
(***************************************************************************)
EXTENDS ShmBuffer, TLAPS

-----------------------------------------------------------------------------
(* Arithmetic *)

\* Multiplication by a positive number is strictly monotone.
LEMMA MulMono == ASSUME NEW a \in Int, NEW b \in Int, NEW c \in Nat \ {0}, a * c < b * c
                 PROVE  a < b
  BY Z3

\* Integer division rounds down by less than the divisor.
LEMMA DivBounds == ASSUME NEW a \in Nat, NEW b \in Nat \ {0}
                   PROVE  /\ a \div b \in Nat
                          /\ (a \div b) * b <= a
                          /\ a < (a \div b) * b + b
  BY Z3

\* The chunks of a message cover it, and one chunk less does not.
LEMMA CeilBounds == ASSUME NEW s \in Nat \ {0}
                    PROVE  /\ Chunks(s) \in Nat \ {0}
                           /\ (Chunks(s) - 1) * Slot < s
                           /\ s <= Chunks(s) * Slot
<1> DEFINE q == (s + Slot - 1) \div Slot
<1>1. s + Slot - 1 \in Nat
  BY SlotAssumption
<1>2. q \in Nat /\ q * Slot <= s + Slot - 1 /\ s + Slot - 1 < q * Slot + Slot
  BY <1>1, DivBounds, SlotAssumption
<1> HIDE DEF q
<1>3. q # 0
  BY <1>2, SlotAssumption
<1>4. (q - 1) * Slot = q * Slot - Slot
  BY <1>2, SlotAssumption
<1>5. Chunks(s) = q
  BY DEF Chunks, CeilDiv, q
<1> QED
  BY <1>2, <1>3, <1>4, <1>5, SlotAssumption

-----------------------------------------------------------------------------
(* The inductive invariant *)

\* What the proofs assume of the sizes and the writers: the float computation
\* of nmsgs is exact, and messages of several chunks have a single writer.
Exact == \A s \in Sizes \ {0} : NMsgs(s) = Chunks(s)
NoMixing == \/ \A x, y \in Writer : x = y
            \/ \A s \in Sizes : s <= Slot

\* The first n chunks of message i.
Prefix(i, n) == [k \in 1 .. n |-> [m |-> i, p |-> (k - 1) * Slot]]

\* Message N is the last one put; the segment still describes its last chunk.
N == Len(sent)
Last == seg.data.p

SizesInv == /\ \A i \in 1 .. N : sent[i] \in Sizes
            /\ \A x \in Writer : w[x].pc = "put" => w[x].sz \in Sizes

SegInv == N > 0 => seg.data.m = N /\ seg.size = sent[N]

\* A writer between two chunks is writing message N; while message N has
\* chunks to come, there is such a writer.
WriterInv ==
  /\ \A x \in Writer : w[x].m = 0 => w[x].p = 0
  /\ \A x \in Writer : w[x].m # 0 =>
       /\ w[x].pc = "put" /\ N > 0 /\ w[x].m = N /\ w[x].sz = sent[N]
       /\ w[x].p = Last + Slot /\ w[x].p < w[x].sz
  /\ N > 0 /\ Last + Slot < sent[N] => \E x \in Writer : w[x].m # 0

\* The reader is before, inside or after message N.
ReaderInv ==
  /\ r.pc = "idle" /\ ~seg.guard =>
       /\ Len(rcvd) = N /\ r.seen = NoSize
       /\ N > 0 => sent[N] <= Last + Slot
  /\ r.pc = "idle" /\ seg.guard =>
       /\ N > 0 /\ Len(rcvd) = N - 1 /\ Last = 0 /\ r.seen \in {NoSize, seg.size}
  /\ r.pc = "get" =>
       /\ N > 0 /\ Len(rcvd) = N - 1 /\ sent[N] # 0
       /\ r.size = sent[N] /\ r.seen = sent[N]
       /\ \E l \in Nat \ {0} :
            /\ r.got = Prefix(N, l)
            /\ r.n = Chunks(sent[N]) - l /\ r.n >= 1
            /\ Last = (IF seg.guard THEN l ELSE l - 1) * Slot

RcvdInv == \A i \in 1 .. Len(rcvd) :
  /\ rcvd[i].size = sent[i] /\ rcvd[i].seen = sent[i]
  /\ rcvd[i].got = Whole(i, sent[i])

IInv == TypeOK /\ SizesInv /\ SegInv /\ WriterInv /\ ReaderInv /\ RcvdInv


\* The empty buffer satisfies the invariant.
LEMMA InitInv == Init => IInv
  BY SlotAssumption
  DEF Init, IInv, TypeOK, SegRec, Chunk, NoChunk, WriterRec, WriterIdle,
      ReaderRec, ReaderIdle, RcvdRec, NoSize, SizesInv, SegInv, WriterInv,
      ReaderInv, RcvdInv, N, Last

\* A call of put changes nothing but the locals of the writer.
LEMMA StartPutInv ==
  ASSUME IInv, NEW x \in Writer, NEW sz \in Sizes, StartPut(x, sz)
  PROVE  IInv'
<1> USE SlotAssumption, SizesAssumption DEF IInv, StartPut
<1>1. TypeOK'
  BY DEF TypeOK, WriterRec
<1>2. SizesInv'
  BY DEF SizesInv, N, TypeOK, WriterRec
<1>3. SegInv' /\ RcvdInv'
  BY DEF SegInv, RcvdInv, N
<1>4. WriterInv'
  <2>1. w[x].m = 0
    BY DEF WriterInv
  <2> QED
    BY <2>1 DEF WriterInv, N, Last, TypeOK, WriterRec
<1>5. ReaderInv'
  BY DEF ReaderInv, N, Last
<1> QED
  BY <1>1, <1>2, <1>3, <1>4, <1>5

\* A probe only remembers the size of message N.
LEMMA GetSizeInv == ASSUME IInv, GetSize PROVE IInv'
<1> USE DEF IInv, GetSize
<1>1. TypeOK'
  BY DEF TypeOK, ReaderRec, SegRec
<1>2. SizesInv' /\ SegInv' /\ RcvdInv' /\ WriterInv'
  BY DEF SizesInv, SegInv, RcvdInv, WriterInv, N, Last
<1>3. ReaderInv'
  BY DEF ReaderInv, N, Last, TypeOK, ReaderRec
<1> QED
  BY <1>1, <1>2, <1>3

\* The invariant reads nothing but the variables.
LEMMA StutterInv == ASSUME IInv, UNCHANGED vars PROVE IInv'
  BY DEF IInv, vars, TypeOK, SizesInv, SegInv, WriterInv, ReaderInv, RcvdInv, N, Last

\* A writer that stores a first chunk finds no message in progress, on either
\* side: the buffer is between two messages.
LEMMA FirstChunk ==
  ASSUME IInv, NoMixing, NEW x \in Writer, w[x].pc = "put", w[x].m = 0, ~seg.guard
  PROVE  /\ \A y \in Writer : w[y].m = 0
         /\ r.pc = "idle" /\ Len(rcvd) = N /\ r.seen = NoSize /\ N \in Nat
<1> USE SlotAssumption, SizesAssumption DEF IInv
<1>1. \A y \in Writer : w[y].m = 0
  <2>1. SUFFICES ASSUME NEW y \in Writer, w[y].m # 0 PROVE FALSE
    OBVIOUS
  <2>2. x # y /\ w[y].sz \in Sizes /\ w[y].sz \in Nat /\ w[y].sz > Slot
    BY <2>1 DEF WriterInv, SizesInv, TypeOK, WriterRec, SegRec, Chunk, Last
  <2> QED
    BY <2>2 DEF NoMixing
<1>2. N > 0 => sent[N] <= Last + Slot
  BY <1>1 DEF WriterInv, TypeOK, SegRec, Chunk, N, Last
<1>3. r.pc = "idle"
  <2>1. SUFFICES ASSUME r.pc = "get" PROVE FALSE
    BY DEF TypeOK, ReaderRec
  <2>2. PICK l \in Nat \ {0} : /\ Chunks(sent[N]) - l >= 1 /\ Last = (l - 1) * Slot
    BY <2>1 DEF ReaderInv
  <2>3. sent[N] \in Nat \ {0} /\ N > 0
    BY <2>1 DEF ReaderInv, TypeOK, N
  <2>4. (Chunks(sent[N]) - 1) * Slot < sent[N] /\ Chunks(sent[N]) \in Nat
    BY <2>3, CeilBounds
  <2>5. (l - 1) * Slot + Slot = l * Slot
    BY <2>2
  <2>6. (Chunks(sent[N]) - 1) * Slot < l * Slot
    BY <1>2, <2>2, <2>3, <2>4, <2>5
  <2>7. Chunks(sent[N]) - 1 < l
    BY <2>4, <2>6, MulMono
  <2> QED
    BY <2>2, <2>4, <2>7
<1>4. /\ Len(rcvd) = N /\ r.seen = NoSize /\ N \in Nat
  BY <1>3 DEF ReaderInv, TypeOK, N
<1> QED
  BY <1>1, <1>3, <1>4

\* A writer stores a chunk: the first one of message N + 1, or the next one of
\* message N, which the reader is waiting for.
LEMMA PutChunkInv ==
  ASSUME IInv, NoMixing, NEW x \in Writer, PutChunk(x)
  PROVE  IInv'
<1> USE SlotAssumption, SizesAssumption DEF IInv
<1>0. /\ w[x].pc = "put" /\ ~seg.guard /\ w[x] \in WriterRec /\ w[x].sz \in Sizes
      /\ w[x].sz \in Nat /\ UNCHANGED <<r, rcvd>>
  BY DEF PutChunk, SlotFree, TypeOK, SizesInv
<1>1. CASE w[x].m = 0
  <2>1. (\A y \in Writer : w[y].m = 0) /\ r.pc = "idle"
    BY <1>0, <1>1, FirstChunk
  <2>3. r.pc = "idle"
    BY <2>1
  <2>4. /\ Len(rcvd) = N /\ r.seen = NoSize /\ N \in Nat
    BY <1>0, <1>1, FirstChunk
  <2>5. /\ sent' = Append(sent, w[x].sz)
        /\ seg' = [guard |-> TRUE, size |-> w[x].sz, data |-> [m |-> N + 1, p |-> 0]]
        /\ w' = [w EXCEPT ![x] = IF w[x].sz <= Slot THEN WriterIdle
                                 ELSE [w[x] EXCEPT !.p = Slot, !.m = N + 1]]
    <3>1. w[x].p = 0 /\ w[x].p + Slot = Slot
      BY <1>1 DEF WriterInv
    <3> QED
      BY <1>1, <3>1 DEF PutChunk, PutOver, N
  <2>6. /\ N' = N + 1 /\ sent'[N + 1] = w[x].sz /\ \A i \in 1 .. N : sent'[i] = sent[i]
        /\ sent' \in Seq(Nat) /\ Last' = 0
    BY <1>0, <2>5 DEF TypeOK, N, Last
  <2>7. TypeOK'
    <3>1. seg' \in SegRec
      BY <1>0, <2>4, <2>5 DEF SegRec, Chunk
    <3>2. w' \in [Writer -> WriterRec]
      <4>1. WriterIdle \in WriterRec
        BY DEF WriterRec, WriterIdle
      <4> DEFINE v == [w[x] EXCEPT !.p = Slot]
      <4>2. v \in WriterRec
        BY <1>0 DEF WriterRec
      <4> HIDE DEF v
      <4>3. [v EXCEPT !.m = N + 1] \in WriterRec
        BY <2>4, <4>2 DEF WriterRec
      <4>4. [w[x] EXCEPT !.p = Slot, !.m = N + 1] \in WriterRec
        BY <4>3 DEF v
      <4> QED
        BY <2>5, <4>1, <4>4 DEF TypeOK
    <3> QED
      BY <1>0, <2>6, <3>1, <3>2 DEF TypeOK
  <2>8. SizesInv'
    <3>1. \A i \in 1 .. N + 1 : sent'[i] \in Sizes
      BY <1>0, <2>4, <2>6 DEF SizesInv
    <3>2. \A y \in Writer : w'[y].pc = "put" => w'[y].sz \in Sizes
      BY <1>0, <2>5 DEF SizesInv, TypeOK, WriterRec, WriterIdle
    <3> QED
      BY <2>6, <3>1, <3>2 DEF SizesInv
  <2>9. SegInv'
    BY <2>5, <2>6 DEF SegInv
  <2>10. WriterInv'
    BY <1>0, <2>1, <2>4, <2>5, <2>6 DEF WriterInv, TypeOK, WriterRec, WriterIdle
  <2>11. ReaderInv'
    BY <1>0, <2>3, <2>4, <2>5, <2>6 DEF ReaderInv
  <2>12. RcvdInv'
    BY <1>0, <2>4, <2>6 DEF RcvdInv
  <2> QED
    BY <2>7, <2>8, <2>9, <2>10, <2>11, <2>12
<1>2. CASE w[x].m # 0
  <2>1. /\ N > 0 /\ N \in Nat /\ w[x].m = N /\ w[x].sz = sent[N]
        /\ w[x].p = Last + Slot /\ w[x].p < w[x].sz /\ Last \in Nat
    BY <1>2 DEF WriterInv, TypeOK, N, Last, SegRec, Chunk
  <2>2. \A y \in Writer : w[y].m # 0 => y = x
    BY <1>0, <2>1 DEF NoMixing
  <2>3. r.pc = "get"
    BY <1>0, <2>1 DEF ReaderInv, TypeOK, ReaderRec
  <2>4. /\ UNCHANGED sent
        /\ seg' = [guard |-> TRUE, size |-> sent[N], data |-> [m |-> N, p |-> Last + Slot]]
        /\ w' = [w EXCEPT ![x] = IF sent[N] <= Last + Slot + Slot THEN WriterIdle
                                 ELSE [w[x] EXCEPT !.p = Last + Slot + Slot]]
    BY <1>0, <1>2, <2>1 DEF PutChunk, PutOver, WriterRec
  <2>5. N' = N /\ Last' = Last + Slot
    BY <2>4 DEF N, Last
  <2>6. TypeOK'
    <3>1. seg' \in SegRec
      BY <1>0, <2>1, <2>4 DEF SegRec, Chunk, WriterRec
    <3>2. w' \in [Writer -> WriterRec]
      <4>1. WriterIdle \in WriterRec /\ [w[x] EXCEPT !.p = Last + Slot + Slot] \in WriterRec
        BY <1>0, <2>1 DEF WriterRec, WriterIdle
      <4> QED
        BY <2>4, <4>1 DEF TypeOK
    <3> QED
      BY <1>0, <2>4, <3>1, <3>2 DEF TypeOK
  <2>7. SizesInv'
    BY <1>0, <2>4, <2>5 DEF SizesInv, TypeOK, WriterRec, WriterIdle
  <2>8. SegInv' /\ RcvdInv'
    BY <1>0, <2>4, <2>5 DEF SegInv, RcvdInv
  <2>9. WriterInv'
    <3>1. \A y \in Writer \ {x} : w'[y] = w[y] /\ w[y].m = 0 /\ w[y].p = 0
      BY <2>2, <2>4 DEF WriterInv, TypeOK
    <3>2. CASE sent[N] <= Last + Slot + Slot
      <4>1. w'[x] = WriterIdle
        BY <2>4, <3>2 DEF TypeOK
      <4>2. w'[x].m = 0 /\ w'[x].p = 0
        BY <4>1 DEF WriterIdle
      <4>3. ~(Last' + Slot < sent[N])
        BY <1>0, <2>1, <2>5, <3>2
      <4> QED
        BY <2>4, <2>5, <3>1, <4>2, <4>3 DEF WriterInv
    <3>3. CASE ~(sent[N] <= Last + Slot + Slot)
      <4>1. w'[x] = [w[x] EXCEPT !.p = Last + Slot + Slot]
        BY <2>4, <3>3 DEF TypeOK
      <4>2. /\ w'[x].pc = "put" /\ w'[x].m = N /\ w'[x].sz = sent[N]
            /\ w'[x].p = Last' + Slot
        BY <1>0, <2>1, <2>5, <4>1 DEF WriterRec
      <4>3. w'[x].p < w'[x].sz
        BY <1>0, <2>1, <2>5, <3>3, <4>2
      <4> QED
        BY <2>1, <2>4, <2>5, <3>1, <4>2, <4>3 DEF WriterInv
    <3> QED
      BY <3>2, <3>3
  <2>10. ReaderInv'
    <3>1. PICK l \in Nat \ {0} : /\ r.got = Prefix(N, l) /\ r.n = Chunks(sent[N]) - l
                                 /\ r.n >= 1 /\ Last = (l - 1) * Slot
      BY <1>0, <2>3 DEF ReaderInv
    <3>2. Last + Slot = l * Slot
      BY <3>1
    <3> QED
      BY <1>0, <2>3, <2>4, <2>5, <3>1, <3>2 DEF ReaderInv, Prefix
  <2> QED
    BY <2>6, <2>7, <2>8, <2>9, <2>10
<1> QED
  BY <1>1, <1>2

\* get copies a chunk of message N: the last one completes the message.  Both
\* StartGet and GetChunk are this step, with l chunks already copied.
LEMMA CopyInv ==
  ASSUME IInv, seg.guard, N > 0, sent[N] # 0,
         NEW l \in Nat, l < Chunks(sent[N]), Last = l * Slot, Len(rcvd) = N - 1,
         Copy(sent[N], sent[N], Chunks(sent[N]) - l, Prefix(N, l + 1)),
         UNCHANGED <<w, sent>>
  PROVE  IInv'
<1> USE SlotAssumption, SizesAssumption DEF IInv
<1> DEFINE C == Chunks(sent[N])
<1>1. /\ N \in Nat /\ sent[N] \in Nat \ {0} /\ C \in Nat \ {0}
      /\ (C - 1) * Slot < sent[N] /\ sent[N] <= C * Slot /\ N' = N
  <2>1. N \in Nat /\ sent[N] \in Nat \ {0} /\ N' = N
    BY DEF TypeOK, N
  <2> QED
    BY <2>1, CeilBounds
<1> HIDE DEF C
<1>2. /\ seg' = [seg EXCEPT !.guard = FALSE] /\ Last' = Last
      /\ seg' \in SegRec /\ ~seg'.guard /\ seg'.data = seg.data /\ seg'.size = seg.size
  BY DEF Copy, Take, TypeOK, SegRec, Last
<1>3. Prefix(N, l + 1) \in Seq(Chunk)
  BY <1>1 DEF Prefix, Chunk
<1>4. SizesInv' /\ SegInv' /\ WriterInv'
  BY <1>1, <1>2 DEF SizesInv, SegInv, WriterInv
<1>5. CASE C - l = 1
  <2>1. /\ rcvd' = Append(rcvd, [seen |-> sent[N], size |-> sent[N], got |-> Prefix(N, l + 1)])
        /\ r' = ReaderIdle
    BY <1>5 DEF Copy, C
  <2>2. [seen |-> sent[N], size |-> sent[N], got |-> Prefix(N, l + 1)] \in RcvdRec
    BY <1>1, <1>3 DEF RcvdRec
  <2>3. /\ rcvd' \in Seq(RcvdRec) /\ Len(rcvd') = N
        /\ rcvd'[N] = [seen |-> sent[N], size |-> sent[N], got |-> Prefix(N, l + 1)]
        /\ \A i \in 1 .. N - 1 : rcvd'[i] = rcvd[i]
    BY <1>1, <2>1, <2>2 DEF TypeOK
  <2>4. TypeOK'
    <3>1. r' \in ReaderRec
      BY <2>1 DEF ReaderRec, ReaderIdle, NoSize
    <3> QED
      BY <1>2, <2>3, <3>1 DEF TypeOK
  <2>5. RcvdInv'
    <3>1. Prefix(N, l + 1) = Whole(N, sent[N])
      BY <1>1, <1>5 DEF Prefix, Whole, C
    <3>2. \A i \in 1 .. N - 1 : /\ rcvd'[i].size = sent[i] /\ rcvd'[i].seen = sent[i]
                                /\ rcvd'[i].got = Whole(i, sent[i])
      BY <1>1, <2>3 DEF RcvdInv
    <3>3. /\ rcvd'[N].size = sent[N] /\ rcvd'[N].seen = sent[N]
          /\ rcvd'[N].got = Whole(N, sent[N])
      BY <2>3, <3>1
    <3>4. \A i \in 1 .. Len(rcvd') : i \in 1 .. N - 1 \/ i = N
      BY <1>1, <2>3
    <3> QED
      BY <3>2, <3>3, <3>4 DEF RcvdInv
  <2>6. ReaderInv'
    <3>1. sent[N] <= Last + Slot
      BY <1>1, <1>5
    <3> QED
      BY <1>1, <1>2, <2>1, <2>3, <3>1 DEF ReaderInv, ReaderIdle
  <2> QED
    BY <1>4, <2>4, <2>5, <2>6
<1>6. CASE C - l # 1
  <2>1. /\ r' = [pc |-> "get", seen |-> sent[N], size |-> sent[N], n |-> C - l - 1,
                 got |-> Prefix(N, l + 1)]
        /\ UNCHANGED rcvd
    BY <1>6 DEF Copy, C
  <2>2. TypeOK'
    <3>0. C - l - 1 \in Nat
      BY <1>1, <1>6 DEF C
    <3>1. r' \in ReaderRec
      BY <1>1, <1>3, <2>1, <3>0 DEF ReaderRec
    <3> QED
      BY <1>2, <2>1, <3>1 DEF TypeOK
  <2>3. RcvdInv'
    BY <2>1 DEF RcvdInv
  <2>4. ReaderInv'
    <3>1. /\ l + 1 \in Nat \ {0} /\ C - l - 1 = C - (l + 1) /\ C - l - 1 >= 1
          /\ Last = ((l + 1) - 1) * Slot
      BY <1>1, <1>6 DEF C
    <3> QED
      BY <1>1, <1>2, <2>1, <3>1 DEF ReaderInv, C, Prefix
  <2> QED
    BY <1>4, <2>2, <2>3, <2>4
<1> QED
  BY <1>5, <1>6

\* EOS has no chunk to copy.
LEMMA EosInv ==
  ASSUME IInv, r.pc = "idle", seg.guard, r.seen # NoSize, seg.size = 0,
         Copy(r.seen, 0, 1, <<>>), UNCHANGED <<w, sent>>
  PROVE  IInv'
<1> USE SlotAssumption, SizesAssumption DEF IInv
<1>1. /\ N \in Nat /\ N > 0 /\ N' = N /\ sent[N] = 0 /\ r.seen = 0 /\ Len(rcvd) = N - 1
      /\ Last = 0
  BY DEF TypeOK, N, ReaderInv, SegInv
<1>2. /\ Last' = Last /\ seg' \in SegRec /\ ~seg'.guard /\ seg'.data = seg.data
      /\ seg'.size = seg.size
  BY DEF Copy, Take, TypeOK, SegRec, Last
<1>3. SizesInv' /\ SegInv' /\ WriterInv'
  BY <1>1, <1>2 DEF SizesInv, SegInv, WriterInv
<1>4. /\ rcvd' = Append(rcvd, [seen |-> 0, size |-> 0, got |-> <<>>]) /\ r' = ReaderIdle
  BY <1>1 DEF Copy
<1>5. /\ rcvd' \in Seq(RcvdRec) /\ Len(rcvd') = N
      /\ rcvd'[N] = [seen |-> 0, size |-> 0, got |-> <<>>]
      /\ \A i \in 1 .. N - 1 : rcvd'[i] = rcvd[i]
  <2>1. [seen |-> 0, size |-> 0, got |-> <<>>] \in RcvdRec
    BY DEF RcvdRec
  <2> QED
    BY <1>1, <1>4, <2>1 DEF TypeOK
<1>6. TypeOK'
  <2>1. r' \in ReaderRec
    BY <1>4 DEF ReaderRec, ReaderIdle, NoSize
  <2> QED
    BY <1>2, <1>5, <2>1 DEF TypeOK
<1>7. RcvdInv'
  BY <1>1, <1>5 DEF RcvdInv, Whole
<1>8. ReaderInv'
  BY <1>1, <1>2, <1>4, <1>5 DEF ReaderInv, ReaderIdle
<1> QED
  BY <1>3, <1>6, <1>7, <1>8

\* The first chunk of a message, or EOS.
LEMMA StartGetInv == ASSUME IInv, Exact, StartGet PROVE IInv'
<1> USE SlotAssumption, SizesAssumption DEF IInv
<1>1. CASE seg.size = 0
  BY <1>1, EosInv DEF StartGet
<1>2. CASE seg.size # 0
  <2>1. /\ N > 0 /\ N \in Nat /\ seg.guard /\ r.pc = "idle" /\ Len(rcvd) = N - 1 /\ Last = 0
        /\ seg.size = sent[N] /\ seg.data.m = N /\ r.seen = sent[N] /\ seg.data \in Chunk
    BY DEF StartGet, ReaderInv, SegInv, TypeOK, N, SegRec
  <2>2. sent[N] \in Sizes /\ sent[N] \in Nat \ {0}
    BY <1>2, <2>1 DEF SizesInv, TypeOK, N
  <2>3. NMsgs(sent[N]) = Chunks(sent[N]) - 0 /\ 0 < Chunks(sent[N])
    BY <2>2, CeilBounds DEF Exact
  <2>4. <<seg.data>> = Prefix(N, 0 + 1)
    <3>1. seg.data = [m |-> N, p |-> (1 - 1) * Slot]
      BY <2>1 DEF Chunk, Last
    <3> QED
      BY <3>1 DEF Prefix
  <2>5. /\ Copy(sent[N], sent[N], Chunks(sent[N]) - 0, Prefix(N, 0 + 1))
        /\ UNCHANGED <<w, sent>>
    BY <1>2, <2>1, <2>3, <2>4 DEF StartGet
  <2>6. Last = 0 * Slot
    BY <2>1
  <2> QED
    BY <2>1, <2>2, <2>3, <2>5, <2>6, CopyInv
<1> QED
  BY <1>1, <1>2

\* A following chunk of the message being read.
LEMMA GetChunkInv == ASSUME IInv, GetChunk PROVE IInv'
<1> USE SlotAssumption, SizesAssumption DEF IInv
<1>1. PICK l \in Nat \ {0} : /\ r.got = Prefix(N, l) /\ r.n = Chunks(sent[N]) - l
                             /\ r.n >= 1 /\ Last = l * Slot
  BY DEF GetChunk, ReaderInv
<1>2. /\ N > 0 /\ N \in Nat /\ seg.guard /\ Len(rcvd) = N - 1 /\ sent[N] # 0
      /\ r.size = sent[N] /\ r.seen = sent[N] /\ seg.data.m = N /\ seg.data \in Chunk
      /\ sent[N] \in Nat \ {0}
  BY DEF GetChunk, ReaderInv, SegInv, TypeOK, N, SegRec
<1>3. l < Chunks(sent[N])
  <2>1. Chunks(sent[N]) \in Nat
    BY <1>2, CeilBounds
  <2> QED
    BY <1>1, <2>1
<1>4. Append(r.got, seg.data) = Prefix(N, l + 1)
  <2>1. seg.data = [m |-> N, p |-> ((l + 1) - 1) * Slot]
    BY <1>1, <1>2 DEF Chunk, Last
  <2>2. Prefix(N, l) \in Seq(Chunk) /\ Len(Prefix(N, l)) = l
    BY <1>1, <1>2 DEF Prefix, Chunk
  <2>3. \A k \in 1 .. l : Prefix(N, l)[k] = [m |-> N, p |-> (k - 1) * Slot]
    BY DEF Prefix
  <2> DEFINE A == Append(Prefix(N, l), seg.data)
  <2>4. /\ A \in Seq(Chunk) /\ Len(A) = l + 1
        /\ \A k \in 1 .. l : A[k] = Prefix(N, l)[k] /\ A[l + 1] = seg.data
    BY <1>1, <1>2, <2>2
  <2> HIDE DEF A
  <2>5. \A k \in 1 .. l + 1 : A[k] = [m |-> N, p |-> (k - 1) * Slot]
    <3>1. SUFFICES ASSUME NEW k \in 1 .. l + 1 PROVE A[k] = [m |-> N, p |-> (k - 1) * Slot]
      OBVIOUS
    <3>2. CASE k = l + 1
      BY <1>1, <2>1, <2>4, <3>2
    <3>3. CASE k \in 1 .. l
      BY <2>3, <2>4, <3>3
    <3> QED
      BY <1>1, <3>2, <3>3
  <2>6. A = [k \in 1 .. l + 1 |-> A[k]]
    BY <2>4
  <2>7. A = Prefix(N, l + 1)
    BY <2>5, <2>6 DEF Prefix
  <2> QED
    BY <1>1, <2>7 DEF A
<1>5. /\ Copy(sent[N], sent[N], Chunks(sent[N]) - l, Prefix(N, l + 1))
      /\ UNCHANGED <<w, sent>>
  BY <1>1, <1>2, <1>4 DEF GetChunk
<1> QED
  BY <1>1, <1>2, <1>3, <1>5, CopyInv

\* Every step of the buffer preserves the invariant, if sizes are counted
\* exactly and writers do not mix chunks.
LEMMA NextInv == ASSUME IInv, Exact, NoMixing, [Next]_vars PROVE IInv'
<1>1. CASE Start
  BY <1>1, StartPutInv DEF Start
<1>2. CASE \E x \in Writer : PutChunk(x)
  BY <1>2, PutChunkInv
<1>3. CASE Read
  BY <1>3, GetSizeInv, StartGetInv, GetChunkInv DEF Read
<1>4. CASE Done \/ UNCHANGED vars
  BY <1>4, StutterInv DEF Done
<1> QED
  BY <1>1, <1>2, <1>3, <1>4 DEF Next

-----------------------------------------------------------------------------
(* The channel *)

\* What a step does to the two histories: nothing, the first chunk of a message
\* when everything put was got, or the end of a get when something was not.
SendStep == /\ Len(rcvd) = Len(sent) /\ UNCHANGED rcvd
            /\ \E m \in Sizes : sent' = Append(sent, m)
DeliverStep == /\ Len(rcvd) + 1 = Len(sent) /\ UNCHANGED sent
               /\ Len(rcvd') = Len(sent)

\* The reader ends a get, or takes a chunk.
LEMMA CopyHistory ==
  ASSUME IInv, seg.guard, NEW seen, NEW size, NEW n, NEW got,
         Copy(seen, size, n, got), UNCHANGED sent,
         [seen |-> seen, size |-> size, got |-> got] \in RcvdRec
  PROVE  DeliverStep \/ UNCHANGED <<sent, rcvd>>
<1>1. rcvd \in Seq(RcvdRec) /\ sent \in Seq(Nat) /\ r.pc \in {"idle", "get"}
  BY DEF IInv, TypeOK, ReaderRec
<1>2. Len(rcvd) = N - 1 /\ N = Len(sent) /\ N \in Nat
  BY <1>1 DEF IInv, ReaderInv, N
<1>3. CASE n = 1
  <2>1. rcvd' = Append(rcvd, [seen |-> seen, size |-> size, got |-> got])
    BY <1>3 DEF Copy
  <2>2. Len(rcvd') = Len(rcvd) + 1
    BY <1>1, <2>1
  <2> QED
    BY <1>1, <1>2, <2>2 DEF DeliverStep
<1>4. CASE n # 1
  BY <1>4 DEF Copy
<1> QED
  BY <1>3, <1>4

\* Every step is a step of the channel's histories.
LEMMA HistoryStep ==
  ASSUME IInv, NoMixing, [Next]_vars
  PROVE  SendStep \/ DeliverStep \/ UNCHANGED <<sent, rcvd>>
<1>1. CASE Start
  BY <1>1 DEF Start, StartPut
<1>2. ASSUME NEW x \in Writer, PutChunk(x)
      PROVE  SendStep \/ UNCHANGED <<sent, rcvd>>
  <2>1. w[x].pc = "put" /\ ~seg.guard /\ w[x].sz \in Sizes
    BY <1>2 DEF PutChunk, SlotFree, IInv, SizesInv
  <2>2. CASE w[x].m = 0
    <3>1. Len(rcvd) = N
      BY <2>1, <2>2, FirstChunk
    <3> QED
      BY <1>2, <2>1, <2>2, <3>1 DEF PutChunk, SendStep, N
  <2>3. CASE w[x].m # 0
    BY <1>2, <2>3 DEF PutChunk
  <2> QED
    BY <2>2, <2>3
<1>3. CASE GetSize
  BY <1>3 DEF GetSize
<1>4. CASE StartGet
  <2>1. /\ r.seen \in Nat \cup {NoSize} /\ seg.size \in Nat /\ seg.data \in Chunk
    BY DEF IInv, TypeOK, ReaderRec, SegRec
  <2>2. CASE seg.size = 0
    <3>1. [seen |-> r.seen, size |-> 0, got |-> <<>>] \in RcvdRec
      BY <2>1 DEF RcvdRec
    <3>2. seg.guard /\ UNCHANGED sent /\ Copy(r.seen, 0, 1, <<>>)
      BY <1>4, <2>2 DEF StartGet
    <3> QED
      BY <3>1, <3>2, CopyHistory
  <2>3. CASE seg.size # 0
    <3>1. [seen |-> r.seen, size |-> seg.size, got |-> <<seg.data>>] \in RcvdRec
      BY <2>1 DEF RcvdRec
    <3>2. seg.guard /\ UNCHANGED sent /\ Copy(r.seen, seg.size, NMsgs(seg.size), <<seg.data>>)
      BY <1>4, <2>3 DEF StartGet
    <3> QED
      BY <3>1, <3>2, CopyHistory
  <2> QED
    BY <2>2, <2>3
<1>5. CASE GetChunk
  <2>1. /\ r.seen \in Nat \cup {NoSize} /\ r.size \in Nat /\ seg.data \in Chunk
        /\ r.got \in Seq(Chunk)
    BY DEF IInv, TypeOK, ReaderRec, SegRec
  <2>2. Append(r.got, seg.data) \in Seq(Chunk)
    BY <2>1
  <2>3. [seen |-> r.seen, size |-> r.size, got |-> Append(r.got, seg.data)] \in RcvdRec
    BY <2>1, <2>2 DEF RcvdRec
  <2>4. seg.guard /\ UNCHANGED sent /\ Copy(r.seen, r.size, r.n, Append(r.got, seg.data))
    BY <1>5 DEF GetChunk
  <2> QED
    BY <2>3, <2>4, CopyHistory
<1>6. CASE Done \/ UNCHANGED vars
  BY <1>6 DEF Done, vars
<1> QED
  BY <1>1, <1>2, <1>3, <1>4, <1>5, <1>6 DEF Next, Read

\* What the channel has delivered: under the invariant, what was put.
delivered == [i \in 1 .. Len(rcvd) |-> DeliveredMsg(i)]

-----------------------------------------------------------------------------
(* Theorems *)

\* The invariant, under the two conditions.
LEMMA InvHolds == ASSUME Exact, NoMixing PROVE Spec => []IInv
<1>1. IInv /\ [Next]_vars => IInv'
  BY NextInv
<1> QED
  BY <1>1, InitInv, PTL DEF Spec

\* Type correctness: in particular nmsgs never counts below zero.
THEOREM TypeCorrect == ASSUME Exact, NoMixing PROVE Spec => []TypeOK
<1>1. IInv => TypeOK
  BY DEF IInv
<1> QED
  BY <1>1, InvHolds, PTL

\* For every slot size, every set of writers and any number of messages: get
\* returns the messages in the order of the puts, each one complete, provided
\* nmsgs is computed exactly and multi-chunk messages have one writer.
THEOREM IntactHolds == ASSUME Exact, NoMixing PROVE Spec => []Intact
<1>1. IInv => Intact
  BY DEF IInv, Intact, RcvdInv, ReaderInv, TypeOK, ReaderRec, N
<1> QED
  BY <1>1, InvHolds, PTL

\* Under the same conditions get never writes more bytes than the probe before
\* it announced.
THEOREM NoOverrunHolds == ASSUME Exact, NoMixing PROVE Spec => []NoOverrun
<1>1. IInv => NoOverrun
  BY DEF IInv, NoOverrun, RcvdInv
<1> QED
  BY <1>1, InvHolds, PTL

\* Under the same conditions the buffer implements the channel of whole
\* messages: the first chunk of a put is its Send, the last copy of a get its
\* Deliver, and every other step is invisible.
THEOREM Refinement == ASSUME Exact, NoMixing PROVE Spec => ImplementsChannel
<1>1. Init => Channel!Init
  BY DEF Init, Channel!Init
<1>2. IInv /\ IInv' /\ [Next]_vars => [Channel!Next]_<<sent, delivered>>
  <2> SUFFICES ASSUME IInv, IInv', [Next]_vars
               PROVE  [Channel!Next]_<<sent, delivered>>
    OBVIOUS
  <2>1. /\ sent \in Seq(Nat) /\ Len(sent) \in Nat /\ Len(rcvd) \in Nat
        /\ delivered = [i \in 1 .. Len(rcvd) |-> sent[i]]
        /\ delivered' = [i \in 1 .. Len(rcvd') |-> sent'[i]]
    <3>1. sent \in Seq(Nat) /\ Len(sent) \in Nat /\ Len(rcvd) \in Nat
      BY DEF IInv, TypeOK
    <3>2. delivered = [i \in 1 .. Len(rcvd) |-> sent[i]]
      BY DEF IInv, RcvdInv, delivered, DeliveredMsg
    <3>3. delivered' = [i \in 1 .. Len(rcvd') |-> sent'[i]]
      BY DEF IInv, RcvdInv, delivered, DeliveredMsg
    <3> QED
      BY <3>1, <3>2, <3>3
  <2>2. CASE SendStep
    <3>1. delivered' = delivered
      BY <2>2 DEF SendStep, delivered, DeliveredMsg
    <3>2. Len(delivered) = Len(rcvd)
      BY <2>1
    <3>3. Channel!Send
      BY <2>2, <3>1, <3>2 DEF SendStep, Channel!Send, delivered
    <3> QED
      BY <3>3 DEF Channel!Next
  <2>3. CASE DeliverStep
    <3> DEFINE n == Len(rcvd)
    <3>1. /\ delivered \in Seq(Nat) /\ Len(delivered) = n
          /\ n + 1 = Len(sent) /\ sent' = sent /\ sent[n + 1] \in Nat
          /\ delivered' = [i \in 1 .. n + 1 |-> sent[i]]
      BY <2>1, <2>3 DEF DeliverStep
    <3>2. delivered' = Append(delivered, sent[n + 1])
      <4> DEFINE A == Append(delivered, sent[n + 1])
      <4>1. A \in Seq(Nat) /\ Len(A) = n + 1 /\ A[n + 1] = sent[n + 1]
        BY <2>1, <3>1
      <4>2. \A i \in 1 .. n : A[i] = sent[i]
        <5>1. \A i \in 1 .. n : delivered[i] = sent[i]
          BY <2>1
        <5> QED
          BY <3>1, <5>1
      <4> HIDE DEF A
      <4>3. \A i \in 1 .. n + 1 : A[i] = sent[i]
        BY <2>1, <4>1, <4>2
      <4>4. A = [i \in 1 .. n + 1 |-> A[i]]
        BY <4>1
      <4> QED
        BY <3>1, <4>3, <4>4 DEF A
    <3>3. Channel!Deliver
      BY <2>1, <3>1, <3>2 DEF Channel!Deliver, delivered
    <3> QED
      BY <3>3 DEF Channel!Next
  <2>4. CASE UNCHANGED <<sent, rcvd>>
    BY <2>4 DEF delivered, DeliveredMsg
  <2> QED
    BY <2>2, <2>3, <2>4, HistoryStep
<1>3. [Channel!Next]_<<sent, delivered>> =>
        [Channel!Next]_<<sent, [i \in 1 .. Len(rcvd) |-> DeliveredMsg(i)]>>
  BY DEF delivered
<1> QED
  BY <1>1, <1>2, <1>3, InvHolds, PTL DEF Spec, ImplementsChannel, Channel!Spec

\* The condition on nmsgs holds for every message shorter than 2^Mantissa.
THEOREM ShortIsExact == ASSUME \A s \in Sizes : s < 2^Mantissa PROVE Exact
  BY DEF Exact, NMsgs, Chunks, FloatOf

=============================================================================
