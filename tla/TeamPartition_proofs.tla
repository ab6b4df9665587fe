----------------------- MODULE TeamPartition_proofs -----------------------
(***************************************************************************)
(* Proofs about TeamPartition: for teams, buffers and elements of every    *)
(* size, all the implementations of the collectives cut a buffer the same  *)
(* way, and the parts tile it.                                             *)
(*                                                                         *)
(* The properties are not inductive: CutIsShare needs the value of rcount, *)
(* which the loops count down, and Tiling, at the end of the loop, needs   *)
(* displ in closed form.  LoopInv has both.                                *)
(***************************************************************************)
EXTENDS TeamPartition, TLAPS

Capped(k) == IF k < Rest THEN k ELSE Rest
Part(k) == Base + (IF k < Rest THEN datasize ELSE 0)
Lead(k) == k * Base + Capped(k) * datasize

\* Cutters that compare the index with rcount instead of counting it down.
Comparing == cutter \in {"GatherGeneric", "AllGatherGeneric"}
\* Cutters that fill recvcounts.
Receiving == cutter \in {"AlltoallMPI", "AlltoallUCC"}

\* The loop after i iterations: what is left over, how far it got, the parts
\* made and, for an Alltoall, where the next part received goes.
LoopInv ==
  /\ rcount = IF Comparing THEN Rest ELSE Rest - Capped(i)
  /\ displ = Lead(i)
  /\ \A k \in 0 .. i - 1 : counts[k] = Part(k) /\ displs[k] = Lead(k)
  /\ Receiving => rdispl = i * Part(Entry)

IInv == TypeOK /\ LoopInv

-----------------------------------------------------------------------------
\* The entry of a process is one of the parts.
LEMMA EntryNat == ASSUME TypeOK PROVE Entry \in Nat /\ Entry < nparticipants
  BY SizesAssumption DEF TypeOK, Entry, GroupRank

\* Euclidean division.
LEMMA DivMod ==
  ASSUME NEW a \in Nat, NEW n \in Nat \ {0}
  PROVE  a \div n \in Nat /\ a % n \in 0 .. n - 1 /\ a = (a \div n) * n + (a % n)
  <1>1. a % n \in 0 .. n - 1
    OBVIOUS
  <1>2. a = n * (a \div n) + (a % n)
    OBVIOUS
  <1>3. a \div n \in Nat
    OBVIOUS
  <1> QED BY <1>1, <1>2, <1>3

\* A common factor may be cancelled.
LEMMA TimesCancels ==
  ASSUME NEW a \in Nat, NEW b \in Nat, NEW n \in Nat \ {0}
  PROVE  a * n = b * n <=> a = b
  OBVIOUS

\* The sizes are numbers.
LEMMA Numbers ==
  ASSUME TypeOK
  PROVE  /\ nparticipants \in Nat \ {0} /\ datacount \in Nat /\ datasize \in Nat
         /\ i \in Nat /\ rank \in Nat
  BY SizesAssumption DEF TypeOK

LEMMA Euclid ==
  ASSUME TypeOK
  PROVE  /\ datacount \div nparticipants \in Nat
         /\ Rest \in 0 .. nparticipants - 1 /\ Rest \in Nat
         /\ datacount = (datacount \div nparticipants) * nparticipants + Rest
  <1>1. datacount \in Nat /\ nparticipants \in Nat \ {0}
    BY Numbers
  <1>2. /\ datacount \div nparticipants \in Nat
        /\ datacount % nparticipants \in 0 .. nparticipants - 1
        /\ datacount = (datacount \div nparticipants) * nparticipants
                       + (datacount % nparticipants)
    BY <1>1, DivMod, Zenon
  <1>3. Rest \in 0 .. nparticipants - 1
    BY <1>2 DEF Rest
  <1>4. Rest \in Nat
    BY <1>1, <1>3
  <1> QED BY <1>2, <1>3, <1>4, Zenon DEF Rest

LEMMA BaseNat == ASSUME TypeOK PROVE Base \in Nat
  <1> DEFINE q == datacount \div nparticipants
  <1>1. q \in Nat /\ datasize \in Nat
    BY Euclid, SizesAssumption DEF TypeOK
  <1> HIDE DEF q
  <1>2. q * datasize \in Nat
    BY <1>1
  <1> QED BY <1>2 DEF Base, q

\* A part, in elements and in bytes.
LEMMA PartIsShare ==
  ASSUME TypeOK, NEW k \in Nat
  PROVE  Part(k) = getTeamPartitionSize(nparticipants, k, datacount) * datasize
  <1> DEFINE q == datacount \div nparticipants
  <1>1. q \in Nat /\ datasize \in Nat /\ Rest \in Nat
    BY Euclid, SizesAssumption DEF TypeOK
  <1>2. Base = q * datasize
    BY DEF Base
  <1>3. getTeamPartitionSize(nparticipants, k, datacount) = q + (IF k < Rest THEN 1 ELSE 0)
    BY DEF getTeamPartitionSize, Rest
  <1> HIDE DEF q
  <1>4. (q + 1) * datasize = q * datasize + datasize /\ (q + 0) * datasize = q * datasize + 0
    BY <1>1
  <1>5. CASE k < Rest
    BY <1>2, <1>3, <1>4, <1>5 DEF Part
  <1>6. CASE ~(k < Rest)
    BY <1>2, <1>3, <1>4, <1>6 DEF Part
  <1> QED BY <1>5, <1>6

\* One more part after k of them.
LEMMA LeadStep ==
  ASSUME TypeOK, NEW k \in Nat
  PROVE  /\ Lead(k) \in Nat /\ Part(k) \in Nat
         /\ Lead(k + 1) = Lead(k) + Part(k)
  <1>1. Base \in Nat /\ datasize \in Nat /\ Rest \in Nat
    BY BaseNat, Euclid, Numbers
  <1>2. (k + 1) * Base = k * Base + Base /\ k * Base \in Nat
    BY <1>1
  <1>3. Capped(k) \in Nat /\ Capped(k) * datasize \in Nat
    BY <1>1 DEF Capped
  <1>4. (Capped(k) + 1) * datasize = Capped(k) * datasize + datasize
    BY <1>1, <1>3
  <1>5. CASE k < Rest
    <2>1. Capped(k + 1) = Capped(k) + 1
      BY <1>1, <1>5 DEF Capped
    <2> QED BY <1>1, <1>2, <1>3, <1>4, <1>5, <2>1 DEF Lead, Part
  <1>6. CASE ~(k < Rest)
    <2>1. Capped(k + 1) = Capped(k)
      BY <1>1, <1>6 DEF Capped
    <2> QED BY <1>1, <1>2, <1>3, <1>6, <2>1 DEF Lead, Part
  <1> QED BY <1>5, <1>6

\* All the parts together.
LEMMA LeadEnd ==
  ASSUME TypeOK
  PROVE  Lead(nparticipants) = datacount * datasize
  <1> DEFINE q == datacount \div nparticipants
  <1>1. /\ q \in Nat /\ datasize \in Nat /\ nparticipants \in Nat
        /\ Rest \in 0 .. nparticipants - 1 /\ datacount = q * nparticipants + Rest
    BY Euclid, SizesAssumption DEF TypeOK
  <1>2. Base = q * datasize
    BY DEF Base
  <1> HIDE DEF q
  <1>3. Capped(nparticipants) = Rest
    BY <1>1 DEF Capped
  <1>4. nparticipants * (q * datasize) = (q * nparticipants) * datasize
    BY <1>1
  <1>5. q * nparticipants \in Nat
    BY <1>1
  <1> DEFINE p == q * nparticipants
  <1> HIDE DEF p
  <1>6. (p + Rest) * datasize = p * datasize + Rest * datasize
    BY <1>1, <1>5 DEF p
  <1> QED BY <1>1, <1>2, <1>3, <1>4, <1>6 DEF Lead, p

-----------------------------------------------------------------------------
LEMMA InitInv == Init => IInv
  <1> SUFFICES ASSUME Init PROVE IInv
    OBVIOUS
  <1>1. TypeOK
    <2>1. Rest \in Nat
      BY SizesAssumption DEF Init, Rest
    <2> QED BY <2>1, SizesAssumption DEF Init, TypeOK
  <1>2. Rest \in Nat /\ datasize \in Nat /\ Base \in Nat
    BY <1>1, Euclid, BaseNat, SizesAssumption DEF TypeOK
  <1>3. Capped(0) = 0
    BY <1>2 DEF Capped
  <1>4. Lead(0) = 0
    BY <1>2, <1>3 DEF Lead
  <1>5. Part(Entry) \in Nat
    BY <1>1, EntryNat, LeadStep
  <1>6. 0 * Part(Entry) = 0
    BY <1>5
  <1> QED BY <1>1, <1>2, <1>3, <1>4, <1>6 DEF Init, IInv, LoopInv

\* A step that hands out the part of the next member, whatever the loop.
LEMMA CutPreserves ==
  ASSUME IInv, NEW rest \in Nat, Cut(Part(i), rest),
         rest = IF Comparing THEN Rest ELSE Rest - Capped(i + 1),
         rdispl' \in Nat, rdispls' \in [0 .. i -> Nat],
         Receiving => rdispl' = rdispl + Part(Entry)
  PROVE  IInv'
  <1> USE DEF IInv
  <1>1. /\ i \in Nat /\ nparticipants \in Nat /\ i + 1 <= nparticipants
        /\ Entry \in Nat
    BY SizesAssumption, EntryNat DEF TypeOK, Cut
  <1>2. /\ Lead(i) \in Nat /\ Part(i) \in Nat /\ Part(Entry) \in Nat
        /\ Lead(i + 1) = Lead(i) + Part(i)
    BY <1>1, LeadStep
  <1>3. /\ Rest' = Rest /\ Base' = Base /\ datasize' = datasize
        /\ Comparing' = Comparing /\ Receiving' = Receiving /\ Entry' = Entry
    BY DEF Cut, args, Rest, Base, Comparing, Receiving, Entry, GroupRank
  <1>4. TypeOK'
    <2>1. counts' \in [0 .. i' - 1 -> Nat] /\ displs' \in [0 .. i' - 1 -> Nat]
      <3>1. i' - 1 = i /\ 0 .. i' - 1 = 0 .. i
        BY <1>1 DEF Cut
      <3>2. displ \in Nat /\ counts \in [0 .. i - 1 -> Nat] /\ displs \in [0 .. i - 1 -> Nat]
        BY DEF TypeOK
      <3>3. counts' \in [0 .. i -> Nat]
        <4>1. \A k \in 0 .. i : (IF k = i THEN Part(i) ELSE counts[k]) \in Nat
          BY <1>1, <1>2, <3>2
        <4>2. counts' = [k \in 0 .. i |-> IF k = i THEN Part(i) ELSE counts[k]]
          BY DEF Cut
        <4> QED BY <4>1, <4>2, Zenon
      <3>4. displs' \in [0 .. i -> Nat]
        BY <1>1, <3>2 DEF Cut
      <3> QED BY <3>1, <3>3, <3>4
    <2>2. i' \in 0 .. nparticipants /\ displ' \in Nat /\ rcount' \in Nat /\ i' - 1 = i
      BY <1>1, <1>2 DEF Cut, TypeOK
    <2> QED BY <2>1, <2>2 DEF Cut, TypeOK, args
  <1>5. (displ = Lead(i))'
    BY <1>1, <1>2, <1>3 DEF Cut, LoopInv, Lead, Capped
  <1>6. (\A k \in 0 .. i - 1 : counts[k] = Part(k) /\ displs[k] = Lead(k))'
    <2> SUFFICES ASSUME NEW k \in 0 .. i
                 PROVE  counts'[k] = Part(k) /\ displs'[k] = Lead(k)
      BY <1>1, <1>3 DEF Cut, Part, Lead, Capped
    <2>1. CASE k = i
      BY <1>1, <2>1 DEF Cut, LoopInv
    <2>2. CASE k # i
      BY <1>1, <2>2 DEF Cut, LoopInv
    <2> QED BY <2>1, <2>2
  <1>7. (rcount = IF Comparing THEN Rest ELSE Rest - Capped(i))'
    BY <1>1, <1>3 DEF Cut, Capped
  <1>8. (Receiving => rdispl = i * Part(Entry))'
    <2>1. (i + 1) * Part(Entry) = i * Part(Entry) + Part(Entry)
      BY <1>1, <1>2
    <2>2. Part(Entry)' = Part(Entry)
      BY <1>3 DEF Part
    <2> QED BY <1>3, <2>1, <2>2 DEF Cut, LoopInv
  <1> QED BY <1>4, <1>5, <1>6, <1>7, <1>8 DEF LoopInv

\* The loops that count rcount down.
LEMMA TakeIsCut ==
  ASSUME IInv, ~Comparing, Take
  PROVE  /\ Rest - Capped(i + 1) \in Nat
         /\ Cut(Part(i), Rest - Capped(i + 1))
  <1>1. i \in Nat /\ Rest \in Nat
    BY Euclid DEF IInv, TypeOK
  <1>2. rcount = Rest - Capped(i)
    BY DEF IInv, LoopInv
  <1>3. CASE i < Rest
    <2>1. rcount > 0 /\ rcount - 1 = Rest - Capped(i + 1) /\ rcount - 1 \in Nat
      BY <1>1, <1>2, <1>3 DEF Capped
    <2> QED BY <1>3, <2>1 DEF Take, Part
  <1>4. CASE ~(i < Rest)
    <2>1. ~(rcount > 0) /\ Rest - Capped(i + 1) = 0
      BY <1>1, <1>2, <1>4 DEF Capped
    <2> QED BY <1>4, <2>1 DEF Take, Part
  <1> QED BY <1>3, <1>4

\* The loops that compare the index with rcount.
LEMMA RootChunkIsPart ==
  ASSUME IInv, Comparing
  PROVE  /\ Base + (IF rcount # 0 /\ i < rcount THEN datasize ELSE 0) = Part(i)
         /\ rcount = Rest /\ Rest \in Nat
  <1>1. i \in Nat /\ Rest \in Nat
    BY Euclid DEF IInv, TypeOK
  <1>2. rcount = Rest
    BY DEF IInv, LoopInv
  <1> QED BY <1>1, <1>2 DEF Part

LEMMA NoRecvTyped ==
  ASSUME IInv, NoRecv
  PROVE  rdispl' \in Nat /\ rdispls' \in [0 .. i -> Nat]
  BY DEF IInv, TypeOK, NoRecv

LEMMA RecvTyped ==
  ASSUME IInv, Receiving, Recv(Part(Entry))
  PROVE  /\ rdispl' \in Nat /\ rdispls' \in [0 .. i -> Nat]
         /\ rdispl' = rdispl + Part(Entry)
  <1>1. Part(Entry) \in Nat
    BY EntryNat, LeadStep DEF IInv
  <1> QED BY <1>1 DEF IInv, TypeOK, Recv

\* A step of a loop of the plain kind.
LEMMA PlainTake ==
  ASSUME IInv, ~Comparing, ~Receiving, Take, NoRecv
  PROVE  IInv'
  <1>1. Rest - Capped(i + 1) \in Nat /\ Cut(Part(i), Rest - Capped(i + 1))
    BY TakeIsCut
  <1>2. rdispl' \in Nat /\ rdispls' \in [0 .. i -> Nat]
    BY NoRecvTyped
  <1> QED BY <1>1, <1>2, CutPreserves

\* A step of the loop of an Alltoall of MPI or UCC.
LEMMA ReceivingTake ==
  ASSUME IInv, ~Comparing, Receiving, Take, Recv(Part(Entry))
  PROVE  IInv'
  <1>1. Rest - Capped(i + 1) \in Nat /\ Cut(Part(i), Rest - Capped(i + 1))
    BY TakeIsCut
  <1>2. rdispl' \in Nat /\ rdispls' \in [0 .. i -> Nat] /\ rdispl' = rdispl + Part(Entry)
    BY RecvTyped
  <1> QED BY <1>1, <1>2, CutPreserves

\* A step of the loop of the root of a generic Gather or AllGather.
LEMMA ComparingCut ==
  ASSUME IInv, Comparing, ~Receiving, NoRecv,
         Cut(Base + (IF rcount # 0 /\ i < rcount THEN datasize ELSE 0), rcount)
  PROVE  IInv'
  <1>1. Cut(Part(i), Rest) /\ Rest \in Nat
    BY RootChunkIsPart
  <1>2. rdispl' \in Nat /\ rdispls' \in [0 .. i -> Nat]
    BY NoRecvTyped
  <1> QED BY <1>1, <1>2, CutPreserves

\* What a process computes from a number that stands for its place is the
\* part at that place.
LEMMA ChunkIsPart ==
  ASSUME IInv, NEW k \in Nat
  PROVE  Base + (IF Rest # 0 /\ k < Rest THEN datasize ELSE 0) = Part(k)
  <1>1. Rest \in Nat
    BY Euclid DEF IInv
  <1> QED BY <1>1 DEF Part

\* Two parts are equal when they are on the same side of the boundary.
LEMMA SameSide ==
  ASSUME IInv, NEW k \in Nat, NEW l \in Nat
  PROVE  Part(k) = Part(l) <=> (k < Rest <=> l < Rest)
  <1>1. Base \in Nat /\ datasize \in Nat \ {0}
    BY BaseNat, SizesAssumption DEF IInv, TypeOK
  <1> QED BY <1>1 DEF Part

\* Rank and place of a process are on different sides when it is shifted.
LEMMA ShiftedSides ==
  ASSUME IInv
  PROVE  (rank < Rest <=> GroupRank < Rest) <=> ~Shifted
  <1>1. Rest \in Nat /\ rank \in Nat /\ root \in Nat
    BY Euclid, Numbers, SizesAssumption DEF IInv, TypeOK
  <1> QED BY <1>1 DEF GroupRank, Shifted

LEMMA StepInv == IInv /\ [Next]_vars => IInv'
  <1> SUFFICES ASSUME IInv, [Next]_vars PROVE IInv'
    OBVIOUS
  <1>1. CASE ScatterGeneric
    BY <1>1, PlainTake DEF ScatterGeneric, Comparing, Receiving
  <1>2. CASE GatherGeneric
    BY <1>2, ComparingCut DEF GatherGeneric, GatherRootChunk, Comparing, Receiving
  <1>3. CASE AllGatherGeneric
    BY <1>3, ComparingCut DEF AllGatherGeneric, AllGatherRootChunk, Comparing, Receiving
  <1>4. CASE AlltoallGeneric
    BY <1>4, PlainTake DEF AlltoallGeneric, Comparing, Receiving
  <1>5. CASE ScatterMPI
    BY <1>5, PlainTake DEF ScatterMPI, Comparing, Receiving
  <1>6. CASE GatherMPI
    <2>1. ~Comparing /\ ~Receiving /\ NoRecv
      BY <1>6 DEF GatherMPI, Comparing, Receiving
    <2>2. CASE UsesGather /\ Cut(Base, rcount)
      <3>1. Rest = 0 /\ i \in Nat /\ Base \in Nat
        BY <2>2, BaseNat DEF UsesGather, IInv, TypeOK
      <3>2. rcount = 0
        <4>1. rcount = Rest - Capped(i)
          BY <2>1 DEF IInv, LoopInv
        <4>2. Capped(i) = Rest
          BY <3>1 DEF Capped
        <4> QED BY <3>1, <4>1, <4>2
      <3>3. Take
        BY <2>2, <3>1, <3>2 DEF Take
      <3> QED BY <2>1, <3>3, PlainTake
    <2>3. CASE ~UsesGather /\ Take
      BY <2>1, <2>3, PlainTake
    <2> QED BY <1>6, <2>2, <2>3 DEF GatherMPI
  <1>7. CASE AllGatherMPI
    BY <1>7, PlainTake DEF AllGatherMPI, Comparing, Receiving
  <1>8. CASE AlltoallMPI
    <2>1. Entry = GroupRank /\ Entry \in Nat
      BY <1>8, EntryNat DEF AlltoallMPI, Entry, IInv
    <2>2. recvcountMPI = Part(Entry)
      BY <2>1, ChunkIsPart DEF recvcountMPI
    <2> QED BY <1>8, <2>2, ReceivingTake DEF AlltoallMPI, Comparing, Receiving
  <1>9. CASE ScatterUCC
    BY <1>9, PlainTake DEF ScatterUCC, Comparing, Receiving
  <1>10. CASE GatherUCC
    BY <1>10, PlainTake DEF GatherUCC, Comparing, Receiving
  <1>11. CASE AllGatherUCC
    BY <1>11, PlainTake DEF AllGatherUCC, Comparing, Receiving
  <1>12. CASE AlltoallUCC
    <2>1. Entry = rank /\ Entry \in Nat
      BY <1>12, EntryNat DEF AlltoallUCC, Entry, IInv
    <2>2. recvcountUCC = Part(Entry)
      BY <2>1, ChunkIsPart DEF recvcountUCC
    <2> QED BY <1>12, <2>2, ReceivingTake DEF AlltoallUCC, Comparing, Receiving
  <1>13. CASE UNCHANGED vars
    BY <1>13 DEF IInv, TypeOK, LoopInv, Rest, Base, Part, Lead, Capped, Comparing,
                 Receiving, Entry, GroupRank, vars
  <1> QED BY <1>1, <1>2, <1>3, <1>4, <1>5, <1>6, <1>7, <1>8, <1>9, <1>10, <1>11, <1>12,
             <1>13 DEF Next, Done

LEMMA InvHolds == Spec => []IInv
  BY InitInv, StepInv, PTL DEF Spec

-----------------------------------------------------------------------------
\* Type correctness of the loops, of every implementation.
THEOREM TypeCorrect == Spec => []TypeOK
  <1>1. IInv => TypeOK
    BY DEF IInv
  <1> QED BY <1>1, InvHolds, PTL

\* Every implementation of the collectives gives each member exactly what
\* CollectiveImpl::getTeamPartitionSize announces to it, for every size of
\* the team, of the buffer and of its elements.
THEOREM CutsAreShares == Spec => []CutIsShare
  <1>1. IInv => CutIsShare
    <2> SUFFICES ASSUME IInv, NEW k \in 0 .. i - 1
                 PROVE  counts[k] = getTeamPartitionSize(nparticipants, k, datacount) * datasize
      BY DEF CutIsShare
    <2>1. k \in Nat
      BY DEF IInv, TypeOK
    <2> QED BY <2>1, PartIsShare DEF IInv, LoopInv
  <1> QED BY <1>1, InvHolds, PTL

\* The parts are contiguous and together they are the buffer: no element is
\* lost, sent twice or written over another.
THEOREM PartsTile == Spec => []Tiling
  <1>1. IInv => Tiling
    <2> SUFFICES ASSUME IInv PROVE Tiling
      OBVIOUS
    <2>1. i \in Nat /\ Base \in Nat /\ Rest \in Nat /\ datasize \in Nat
      BY BaseNat, Euclid, SizesAssumption DEF IInv, TypeOK
    <2>2. Lead(0) = 0
      BY <2>1 DEF Lead, Capped
    <2>3. ASSUME NEW k \in 1 .. i PROVE Lead(k) = Lead(k - 1) + Part(k - 1)
      <3>1. k - 1 \in Nat /\ (k - 1) + 1 = k
        BY <2>1
      <3> QED BY <3>1, LeadStep DEF IInv
    <2>4. i = nparticipants => displ = datacount * datasize
      BY LeadEnd DEF IInv, LoopInv
    <2>5. i > 0 => displs[0] = 0 /\ displ = displs[i - 1] + counts[i - 1]
      BY <2>1, <2>2, <2>3 DEF IInv, LoopInv
    <2>6. \A k \in 1 .. i - 1 : displs[k] = displs[k - 1] + counts[k - 1]
      BY <2>1, <2>3 DEF IInv, LoopInv
    <2> QED BY <2>1, <2>2, <2>4, <2>5, <2>6 DEF Tiling, IInv, LoopInv
  <1> QED BY <1>1, InvHolds, PTL

\* For every place of the root in the participants string: the chunk a member
\* sends to a generic Gather or AllGather, and the room a process makes in a
\* generic Alltoall, are what the root cuts for it unless it is one of the two
\* that the root-first order shifts across the boundary, and then they never
\* are; the Alltoall of MPI and UCC fills exactly the room made for it.
THEOREM MembersAgree == Spec => []MemberAgrees
  <1>1. IInv => MemberAgrees
    <2> SUFFICES ASSUME IInv, Entry < i PROVE MemberAgrees
      BY DEF MemberAgrees
    <2>1. /\ Entry \in 0 .. i - 1 /\ nparticipants \in Nat \ {0} /\ rank \in Nat
          /\ i \in Nat
      BY Numbers, EntryNat DEF IInv
    <2>2. Part(Entry) \in Nat /\ Part(rank) \in Nat
      BY <2>1, LeadStep DEF IInv
    <2>3. counts[Entry] = Part(Entry)
      BY <2>1 DEF IInv, LoopInv
    <2>4. Base + (IF Rest # 0 /\ rank < Rest THEN datasize ELSE 0) = Part(rank)
      BY <2>1, ChunkIsPart
    <2>5. Entry = GroupRank => (Part(rank) = Part(Entry) <=> ~Shifted)
      BY <2>1, SameSide, ShiftedSides
    <2>6. cutter \in {"GatherGeneric", "AllGatherGeneric", "AlltoallGeneric"} =>
            (Part(rank) = counts[Entry] <=> ~Shifted)
      BY <2>3, <2>5 DEF Entry
    <2>7. cutter = "GatherGeneric" => (GatherMemberChunk = counts[Entry] <=> ~Shifted)
      BY <2>4, <2>6 DEF GatherMemberChunk
    <2>8. cutter = "AllGatherGeneric" => (AllGatherMemberChunk = counts[Entry] <=> ~Shifted)
      BY <2>4, <2>6 DEF AllGatherMemberChunk
    <2>9. cutter = "AlltoallGeneric" =>
            (selfrecvcount = counts[Entry] * nparticipants <=> ~Shifted)
      <3>1. selfrecvcount = Part(rank) * nparticipants
        BY <2>4 DEF selfrecvcount
      <3>2. Part(rank) * nparticipants = Part(Entry) * nparticipants
              <=> Part(rank) = Part(Entry)
        BY <2>1, <2>2, TimesCancels
      <3> QED BY <2>3, <2>6, <3>1, <3>2
    <2>10. cutter \in {"AlltoallMPI", "AlltoallUCC"} =>
             (i = nparticipants => rdispl = counts[Entry] * nparticipants)
      <3>1. Receiving => rdispl = i * Part(Entry)
        BY DEF IInv, LoopInv
      <3>2. nparticipants * Part(Entry) = Part(Entry) * nparticipants
        BY <2>1, <2>2
      <3> QED BY <2>3, <3>1, <3>2 DEF Receiving
    <2> QED BY <2>7, <2>8, <2>9, <2>10 DEF MemberAgrees
  <1> QED BY <1>1, InvHolds, PTL

=============================================================================
