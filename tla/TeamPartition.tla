--------------------------- MODULE TeamPartition ---------------------------
(***************************************************************************)
(* How a buffer of datacount elements of datasize bytes is cut among the   *)
(* nparticipants members of a team (include/collectives/).  The same       *)
(* arithmetic is written many times over: in getTeamPartitionSize, which   *)
(* tells the application how large its part is; in the loops of the root   *)
(* in the generic Scatter, Gather, AllGather and Alltoall; in the chunk a  *)
(* member of a Gather sends; and in the loops that fill the counts and     *)
(* displs arrays of the MPI and UCC collectives.  They have to agree: a    *)
(* message longer than its receiver expects is refused, and a displacement *)
(* off by one shifts all the data that follow.                             *)
(*                                                                         *)
(* A behaviour is one call of sendrecv: the loop of one implementation,    *)
(* one iteration a step, seen by the process of the given rank, which is   *)
(* its place in the participants string.  Entry k of counts and displs is  *)
(* the k-th part; GroupRank says whose it is: the generic and MPI loops    *)
(* start with the root, wherever it is in the string, the UCC ones go by   *)
(* rank.  The tests of the size of the buffers that precede the loops are  *)
(* in Collectives (Refused).  Sizes stay below 2^31: the int variables of  *)
(* the MPI and UCC versions do not wrap.                                   *)
(***************************************************************************)
EXTENDS Integers

CONSTANTS
  TeamSizes,   \* values of nparticipants
  DataCounts,  \* numbers of elements
  DataSizes,   \* sizes of an element
  GATHER_THRESHOLD_MSG_SIZE

ASSUME SizesAssumption ==
  /\ TeamSizes \subseteq Nat \ {0}
  /\ DataCounts \subseteq Nat
  /\ DataSizes \subseteq Nat \ {0}
  /\ GATHER_THRESHOLD_MSG_SIZE \in Nat

\* The loops that cut a buffer.
Cutters == {"ScatterGeneric", "GatherGeneric", "AllGatherGeneric", "AlltoallGeneric",
            "ScatterMPI", "GatherMPI", "AllGatherMPI", "AlltoallMPI",
            "ScatterUCC", "GatherUCC", "AllGatherUCC", "AlltoallUCC"}

VARIABLES
  cutter, nparticipants, datacount, datasize, rank, \* the call
  root,         \* the rank of the root
  i,            \* iterations done
  rcount,       \* elements left over, as the loop counts them
  displ,        \* bytes handed out
  rdispl,       \* Alltoall: where the next part received goes
  counts, displs, rdispls

args == <<cutter, nparticipants, datacount, datasize, rank, root>>
vars == <<cutter, nparticipants, datacount, datasize, rank, root, i, rcount, displ,
          rdispl, counts, displs, rdispls>>

getTeamPartitionSize(n, k, buffcount) ==
  (buffcount \div n) + (IF k < buffcount % n THEN 1 ELSE 0)

\* The sendcount and recvcount variables: the part of a member, in bytes,
\* without the element left over.
Base == (datacount \div nparticipants) * datasize
Rest == datacount % nparticipants

\* The place of this process in an order that starts with the root and keeps
\* the others as they are in the participants string.
GroupRank == IF rank = root THEN 0 ELSE IF rank < root THEN rank + 1 ELSE rank

\* The entry of counts that is the part of this process.
Entry == IF cutter \in {"ScatterUCC", "GatherUCC", "AllGatherUCC", "AlltoallUCC"}
         THEN rank ELSE GroupRank

TypeOK ==
  /\ cutter \in Cutters /\ nparticipants \in TeamSizes
  /\ datacount \in DataCounts /\ datasize \in DataSizes
  /\ rank \in 0 .. nparticipants - 1 /\ root \in 0 .. nparticipants - 1
  /\ i \in 0 .. nparticipants /\ rcount \in Nat /\ displ \in Nat /\ rdispl \in Nat
  /\ counts \in [0 .. i - 1 -> Nat] /\ displs \in [0 .. i - 1 -> Nat]
  /\ rdispls \in [0 .. i - 1 -> Nat]

Init ==
  /\ cutter \in Cutters /\ nparticipants \in TeamSizes
  /\ datacount \in DataCounts /\ datasize \in DataSizes
  /\ rank \in 0 .. nparticipants - 1 /\ root \in 0 .. nparticipants - 1
  /\ i = 0 /\ rcount = Rest /\ displ = 0 /\ rdispl = 0
  /\ counts = [k \in {} |-> 0] /\ displs = [k \in {} |-> 0] /\ rdispls = [k \in {} |-> 0]

\* One part of size chunk is handed out; rest is what rcount becomes.
Cut(chunk, rest) ==
  /\ i < nparticipants
  /\ i' = i + 1
  /\ rcount' = rest
  /\ counts' = [k \in 0 .. i |-> IF k = i THEN chunk ELSE counts[k]]
  /\ displs' = [k \in 0 .. i |-> IF k = i THEN displ ELSE displs[k]]
  /\ displ' = displ + chunk
  /\ UNCHANGED args

NoRecv == rdispls' = [k \in 0 .. i |-> 0] /\ UNCHANGED rdispl

\* Mutant: rcount is decremented past zero.
TakeBelow == Cut(Base + (IF rcount > 0 THEN datasize ELSE 0), rcount - 1)

\* if (rcount > 0) { chunk += datasize; rcount--; }
Take == Cut(Base + (IF rcount > 0 THEN datasize ELSE 0),
            IF rcount > 0 THEN rcount - 1 ELSE 0)

\* The root keeps the first part and then cuts one for every other member.
ScatterGeneric == cutter = "ScatterGeneric" /\ Take /\ NoRecv

\* Mutant: one part too many is larger by one.
GatherRootChunkNext == Base + (IF rcount # 0 /\ i <= rcount THEN datasize ELSE 0)

\* The root compares the index of the part with an rcount it leaves alone.
GatherRootChunk == Base + (IF rcount # 0 /\ i < rcount THEN datasize ELSE 0)
GatherGeneric == cutter = "GatherGeneric" /\ Cut(GatherRootChunk, rcount) /\ NoRecv

AllGatherRootChunk == Base + (IF rcount # 0 /\ i < rcount THEN datasize ELSE 0)
AllGatherGeneric ==
  cutter = "AllGatherGeneric" /\ Cut(AllGatherRootChunk, rcount) /\ NoRecv

\* The root builds the buffer of a member from its part of all the buffers.
AlltoallGeneric == cutter = "AlltoallGeneric" /\ Take /\ NoRecv

\* Mutant: one member too many sends a part larger by one.
GatherMemberChunkNext == Base + (IF Rest # 0 /\ rank <= Rest THEN datasize ELSE 0)

\* The chunk a member other than the root of a Gather or an AllGather sends,
\* and what a member of an Alltoall receives from each member.
GatherMemberChunk == Base + (IF Rest # 0 /\ rank < Rest THEN datasize ELSE 0)
AllGatherMemberChunk == Base + (IF Rest # 0 /\ rank < Rest THEN datasize ELSE 0)
selfrecvcount == (Base + (IF Rest # 0 /\ rank < Rest THEN datasize ELSE 0)) * nparticipants

ScatterMPI == cutter = "ScatterMPI" /\ Take /\ NoRecv
\* Mutant: equal parts, although something is left over.
UsesGatherAlways == Base >= GATHER_THRESHOLD_MSG_SIZE

\* MPI_Gather places equal parts of recvcount bytes one after the other; it is
\* used when nothing is left over and the parts are large, else MPI_Gatherv.
UsesGather == Rest = 0 /\ Base >= GATHER_THRESHOLD_MSG_SIZE
GatherMPI ==
  /\ cutter = "GatherMPI"
  /\ \/ UsesGather /\ Cut(Base, rcount)
     \/ ~UsesGather /\ Take
  /\ NoRecv
AllGatherMPI == cutter = "AllGatherMPI" /\ Take /\ NoRecv
ScatterUCC == cutter = "ScatterUCC" /\ Take /\ NoRecv
GatherUCC == cutter = "GatherUCC" /\ Take /\ NoRecv
AllGatherUCC == cutter = "AllGatherUCC" /\ Take /\ NoRecv

\* An Alltoall also fills recvcounts, all equal to recvcount, and rdispls.
recvcountMPI == Base + (IF Rest # 0 /\ GroupRank < Rest THEN datasize ELSE 0)
recvcountUCC == Base + (IF Rest # 0 /\ rank < Rest THEN datasize ELSE 0)
Recv(recvcount) ==
  /\ rdispls' = [k \in 0 .. i |-> IF k = i THEN rdispl ELSE rdispls[k]]
  /\ rdispl' = rdispl + recvcount
AlltoallMPI == cutter = "AlltoallMPI" /\ Take /\ Recv(recvcountMPI)
AlltoallUCC == cutter = "AlltoallUCC" /\ Take /\ Recv(recvcountUCC)

\* The loop has ended.
Done == i = nparticipants /\ UNCHANGED vars

Next ==
  \/ ScatterGeneric \/ GatherGeneric \/ AllGatherGeneric \/ AlltoallGeneric
  \/ ScatterMPI \/ GatherMPI \/ AllGatherMPI \/ AlltoallMPI
  \/ ScatterUCC \/ GatherUCC \/ AllGatherUCC \/ AlltoallUCC
  \/ Done

Spec == Init /\ [][Next]_vars

-----------------------------------------------------------------------------
(* Properties. *)

\* Part k, in every implementation, is exactly what getTeamPartitionSize
\* announces for index k: the message fits the buffer of a process that asked
\* for the size of its part and leaves nothing of it unwritten.  The index
\* the application passes is its rank, and k is that rank in the UCC loops, or
\* when the root is first in the participants string.
CutIsShare ==
  \A k \in 0 .. i - 1 :
    counts[k] = getTeamPartitionSize(nparticipants, k, datacount) * datasize

\* The parts lie one after the other, without gap or overlap, and when the
\* loop ends they are the whole buffer.
Tiling ==
  /\ i = 0 => displ = 0
  /\ i > 0 => displs[0] = 0 /\ displ = displs[i - 1] + counts[i - 1]
  /\ \A k \in 1 .. i - 1 : displs[k] = displs[k - 1] + counts[k - 1]
  /\ i = nparticipants => displ = datacount * datasize

\* The processes whose place in the root-first order and whose rank lie on
\* different sides of the boundary between the larger and the smaller parts.
\* There are none when the root is first, or is among those of larger parts.
Shifted == Rest # 0 /\ root >= Rest /\ rank \in {Rest - 1, root}

\* What a process decides about its own part agrees with what the root cuts
\* for it.  In the generic Gather, AllGather and Alltoall it decides by its
\* rank, while the root cuts by the root-first order: the chunk it sends, or
\* the room it makes for its part of every member, is right exactly when
\* Shifted does not hold.  So the implementations agree for every team whose
\* root is first, and with a root such as that of the Gather "App2:App3:App4",
\* "App4" (tests/collectives/test_farm_bcast.cpp:99) for those buffers only in
\* which nothing, or enough for the root, is left over.  In the Alltoall of
\* MPI, which decides by the rank in the group, and of UCC, whose parts go by
\* rank, they agree for every root.
MemberAgrees ==
  Entry < i =>
    /\ cutter = "GatherGeneric" /\ rank # root =>
         (GatherMemberChunk = counts[Entry] <=> ~Shifted)
    /\ cutter = "AllGatherGeneric" /\ rank # root =>
         (AllGatherMemberChunk = counts[Entry] <=> ~Shifted)
    /\ cutter = "AlltoallGeneric" =>
         (selfrecvcount = counts[Entry] * nparticipants <=> ~Shifted)
    /\ cutter \in {"AlltoallMPI", "AlltoallUCC"} =>
         (i = nparticipants => rdispl = counts[Entry] * nparticipants)

=============================================================================
