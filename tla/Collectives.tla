---------------------------- MODULE Collectives ----------------------------
(***************************************************************************)
(* A team at work: CollectiveContext and the generic collectives of        *)
(* include/collectives/collectiveImpl.hpp, and the exchanges over the same *)
(* handles with which the MPI and UCC collectives are created, from the    *)
(* first call to Manager::finalize, over TCP handles.                      *)
(*                                                                         *)
(* Slot 0 is the root; slot k is the process of participants[k - 1] at the *)
(* root.  Each of them has a Handle for the connection between them, with  *)
(* a FIFO of the messages on the way to it.  The data of a message are a   *)
(* sequence of pieces: bytes off .. off + len - 1 of what slot src passed  *)
(* to its call number round.                                               *)
(*                                                                         *)
(* Applications follow the tests of the repository: the root of a          *)
(* Broadcast, Scatter or FanOut, the members of a Gather or FanIn and all  *)
(* the processes of an AllGather or Alltoall make Rounds calls and close;  *)
(* the others call until the end of the stream.  Buffers have the size     *)
(* getTeamPartitionSize announces.                                         *)
(***************************************************************************)
EXTENDS Integers, SequencesExt, FiniteSetsExt

CONSTANTS
  N,             \* nparticipants
  Types,         \* the collectives under study
  RootPositions, \* places of the root in the participants string
  DataCounts,    \* elements of the buffer that is cut
  Rounds,        \* calls each application makes
  Crashes        \* TRUE: members may die

Cutting == {"SCATTER", "GATHER", "ALLGATHER", "ALLTOALL"}
Creations == {"MPI_CREATE", "UCC_OOB"}
AllTypes == Cutting \cup Creations \cup {"BROADCAST", "FANIN", "FANOUT"}

ASSUME TeamAssumption ==
  /\ N \in Nat \ {0, 1} /\ Rounds \in Nat \ {0} /\ Crashes \in BOOLEAN
  /\ Types \subseteq AllTypes
  /\ RootPositions \subseteq 0 .. N - 1 /\ DataCounts \subseteq Nat \ {0}

Slot == 0 .. N - 1
Leaf == 1 .. N - 1
Root == 0
End == Leaf \X {"root", "leaf"}

VARIABLES
  type, pos, datacount, \* the team and the size of its buffer
  proc,                 \* the processes
  hd,                   \* the handles, by connection and side
  ctx,                  \* where the CollectiveContext of a process is
  touched               \* TRUE: a deleted handle was used

vars == <<type, pos, datacount, proc, hd, ctx, touched>>
team == <<type, pos, datacount>>

None == -1
Pc == {"ready", "collect", "reply", "block", "spread", "send", "sendblock", "recv", "result",
       "hold", "got", "received", "away", "stop", "final", "end", "dead"}
Result == {"none", "ok", "zero", "error"}

Peer(e) == <<e[1], IF e[2] = "root" THEN "leaf" ELSE "root">>
EndOf(p, k) == IF p = Root THEN <<k, "root">> ELSE <<p, "leaf">>
EndsOf(p) == IF p = Root THEN {<<k, "root">> : k \in Leaf} ELSE {<<p, "leaf">>}

\* createTeam gives a process the rank of its place in the participants
\* string; the handles of the root are in the same order, without the root.
RankOf(s) == IF s = Root THEN pos ELSE IF s <= pos THEN s - 1 ELSE s

\* Parts of the buffer, in elements (see TeamPartition).
Share(k) == (datacount \div N) + (IF k < datacount % N THEN 1 ELSE 0)
\* Mutant: the parts that are larger by one are forgotten.
OffsetEven(k) == k * (datacount \div N)
Offset(k) == MapThenSumSet(Share, 0 .. k - 1)

Piece(src, r, off, len) == [src |-> src, round |-> r, off |-> off, len |-> len]
Size(data) == MapThenSumSet(LAMBDA j : data[j].len, DOMAIN data)
Msg(data) == [size |-> Size(data), data |-> data]
EOS == Msg(<<>>)

NewHandle == [in |-> <<>>, wr |-> FALSE, rd |-> FALSE, probed |-> None, open |-> TRUE, freed |-> FALSE]

\* canReceive: only these contexts can be yielded to the runtime.
canReceive(p) == (type = "FANIN" /\ p = Root) \/ (type = "FANOUT" /\ p # Root)

FirstPc(t, p) ==
  IF (t = "FANIN" /\ p = Root) \/ (t = "FANOUT" /\ p # Root) THEN "hold" ELSE "ready"

Init ==
  /\ type \in Types /\ pos \in RootPositions /\ datacount \in DataCounts
  /\ proc = [p \in Slot |-> [pc |-> FirstPc(type, p), round |-> 0, idx |-> 1, buf |-> <<>>,
                             out |-> <<>>, res |-> "none", rank |-> None,
                             parts |-> [k \in Leaf |-> k]]]
  /\ hd = [e \in End |-> NewHandle]
  /\ ctx = [p \in Slot |-> "app"]
  /\ touched = FALSE

TypeOK ==
  /\ type \in Types /\ pos \in RootPositions /\ datacount \in DataCounts
  /\ \A p \in Slot :
       /\ proc[p].pc \in Pc /\ proc[p].res \in Result
       /\ proc[p].round \in 0 .. Rounds + 1 /\ proc[p].idx \in 1 .. N
  /\ type = "FANIN" /\ proc[Root].pc \in {"hold", "got"} /\ proc[Root].parts # <<>> =>
       proc[Root].idx \in DOMAIN proc[Root].parts
  /\ \A e \in End :
       /\ hd[e].probed \in {None} \cup Nat
       /\ \A b \in {"wr", "rd", "open", "freed"} : hd[e][b] \in BOOLEAN
  /\ ctx \in [Slot -> {"app", "managed", "queued"}]
  /\ touched \in BOOLEAN

-----------------------------------------------------------------------------
(* Handles. *)

\* Handle::close: the end of the stream once, then, when both directions are
\* closed, the descriptor; nobody counts references to the handles of a team,
\* and the handle deletes itself.
Closed(h, e, close_wr, close_rd) ==
  LET both == (h[e].wr \/ close_wr) /\ (h[e].rd \/ close_rd) IN
  [h EXCEPT ![Peer(e)].in = IF close_wr /\ ~h[e].wr /\ h[Peer(e)].open THEN Append(@, EOS) ELSE @,
            ![e].wr = @ \/ close_wr, ![e].rd = @ \/ close_rd,
            ![e].open = @ /\ ~both, ![e].freed = @ \/ both]

Goto(p, pc) == proc' = [proc EXCEPT ![p].pc = pc]
Return(p, res) ==
  proc' = [proc EXCEPT ![p].res = res,
                       ![p].pc = IF res = "ok" THEN "ready" ELSE "stop"]

Touch(es) == touched' = (touched \/ \E e \in es : hd[e].freed)

\* Handle::send: next when the message is on its way; when the peer is gone
\* the kernel may still take it, or reports the reset.
Send(p, e, data, next) ==
  /\ Touch({e})
  /\ \/ /\ hd[Peer(e)].open
        /\ hd' = [hd EXCEPT ![Peer(e)].in = Append(@, Msg(data))]
        /\ next
     \/ ~hd[Peer(e)].open /\ UNCHANGED hd /\ next
     \/ ~hd[Peer(e)].open /\ UNCHANGED hd /\ Return(p, "error")

\* A blocking probeHandle returns.
Readable(e) == hd[e].rd \/ hd[e].in # <<>> \/ ~hd[Peer(e)].open

\* What receiveFromHandle finds, and how it leaves the handle.
Finds(e, cap) ==
  IF hd[e].rd THEN "closed"
  ELSE IF hd[e].in = <<>> THEN "eof"
  ELSE IF Head(hd[e].in).size = 0 THEN "eos"
  ELSE IF Head(hd[e].in).size > cap THEN "toolong"
  ELSE "data"

Probed(h, e) ==
  CASE h[e].in = <<>> -> Closed(h, e, TRUE, TRUE)
    [] h[e].in # <<>> /\ Head(h[e].in).size = 0 ->
         Closed([h EXCEPT ![e].probed = 0, ![e].in = Tail(@)], e, FALSE, TRUE)
    [] OTHER -> [h EXCEPT ![e].probed = Head(h[e].in).size]

Received(e, cap) ==
  CASE Finds(e, cap) = "closed" -> hd
    [] Finds(e, cap) = "data" -> [hd EXCEPT ![e].in = Tail(@), ![e].probed = None]
    [] OTHER -> Probed(hd, e)

-----------------------------------------------------------------------------
(* sendrecv of the generic collectives.                                    *)

InCall(p, pc) == proc[p].pc = pc
Round(p) == proc[p].round

\* A call begins: the loop of the root starts with its own part, whose size
\* is checked against the buffer it was given.
Begin(p, pc, own) ==
  /\ proc[p].pc = "ready"
  /\ proc[p].round < Rounds \/ (type \in {"BROADCAST", "SCATTER"} /\ p # Root)
                            \/ (type = "GATHER" /\ p = Root)
  /\ proc' = [proc EXCEPT ![p].pc = pc, ![p].idx = 1, ![p].buf = own,
                          ![p].round = IF @ <= Rounds THEN @ + 1 ELSE @]
  /\ UNCHANGED <<team, hd, ctx, touched>>

\* The buffer of the root, which has rank pos, is too small for the first part.
\* Mutant: a buffer that is just large enough is refused.
RefusedStrict == Share(RankOf(Root)) <= Share(0)
Refused == Share(RankOf(Root)) < Share(0)
BeginCut(pc, own) ==
  \/ ~Refused /\ Begin(Root, pc, own)
  \/ /\ Refused /\ proc[Root].pc = "ready" /\ Return(Root, "error")
     /\ UNCHANGED <<team, hd, ctx, touched>>

\* One iteration of a loop of the root that sends: data[k] to slot k, the
\* result of the last one being out.
Spread(data, out) ==
  LET k == proc[Root].idx IN
  /\ InCall(Root, "spread")
  /\ Send(Root, EndOf(Root, k), data[k],
          IF k < N - 1 THEN proc' = [proc EXCEPT ![Root].idx = k + 1]
          ELSE proc' = [proc EXCEPT ![Root].out = out, ![Root].res = "ok", ![Root].pc = "ready"])
  /\ UNCHANGED <<team, ctx>>

\* One iteration of a loop of the root that receives, from slot k at most
\* cap[k]; after the last one the call continues with pc, or returns.
Collect(cap, pc) ==
  LET k == proc[Root].idx
      e == EndOf(Root, k)
      found == Finds(e, cap[k])
      all == Append(proc[Root].buf, Head(Head(hd[e].in).data)) IN
  /\ InCall(Root, "collect") /\ Readable(e)
  /\ Touch({e})
  /\ hd' = Received(e, cap[k])
  /\ CASE found = "data" /\ k < N - 1 ->
            proc' = [proc EXCEPT ![Root].buf = all, ![Root].idx = k + 1]
       [] found = "data" /\ k = N - 1 /\ pc = "spread" ->
            proc' = [proc EXCEPT ![Root].buf = all, ![Root].idx = 1, ![Root].pc = pc]
       [] found = "data" /\ k = N - 1 /\ pc = "return" ->
            proc' = [proc EXCEPT ![Root].out = all, ![Root].res = "ok", ![Root].pc = "ready"]
       [] found = "toolong" -> Return(Root, "error")
       [] OTHER -> Return(Root, "zero")
  /\ UNCHANGED <<team, ctx>>

\* A member sends and goes on to pc, or returns.
LeafSends(p, data, pc) ==
  /\ InCall(p, "send")
  /\ Send(p, EndOf(p, p), data, IF pc = "return" THEN Return(p, "ok") ELSE Goto(p, pc))
  /\ UNCHANGED <<team, ctx>>

\* A member receives at most cap.  At the end of the stream it closes its own
\* direction.  strict: the result of receiveFromHandle is the result of the
\* call; otherwise the call succeeds whatever was received.
LeafReceives(p, cap, strict) ==
  LET e == EndOf(p, p)
      found == Finds(e, cap)
      end == found \in {"closed", "eof", "eos"}
      h == Received(e, cap) IN
  /\ InCall(p, "recv") /\ Readable(e)
  /\ touched' = (touched \/ hd[e].freed \/ (end /\ h[e].freed))
  /\ hd' = IF end THEN Closed(h, e, TRUE, FALSE) ELSE h
  /\ proc' = [proc EXCEPT
       ![p].out = IF found = "data" THEN Head(hd[e].in).data ELSE @,
       ![p].res = IF found = "data" \/ ~strict THEN "ok" ELSE IF end THEN "zero" ELSE "error",
       ![p].pc = IF found = "data" \/ ~strict THEN "ready" ELSE "stop"]
  /\ UNCHANGED <<team, ctx>>

Own(p, off, len) == <<Piece(p, Round(p) + 1, off, len)>>
Mine(p, off, len) == <<Piece(p, Round(p), off, len)>>

BroadcastRoot ==
  /\ type = "BROADCAST"
  /\ \/ Begin(Root, "spread", <<>>)
     \/ LET all == Mine(Root, 0, datacount) IN Spread([k \in Leaf |-> all], all)
BroadcastLeaf(p) ==
  /\ type = "BROADCAST"
  /\ Begin(p, "recv", <<>>) \/ LeafReceives(p, datacount, TRUE)

ScatterRoot ==
  /\ type = "SCATTER"
  /\ \/ BeginCut("spread", <<>>)
     \/ LET part == [k \in Slot |-> Mine(Root, Offset(k), Share(k))] IN Spread(part, part[0])
ScatterLeaf(p) ==
  /\ type = "SCATTER"
  /\ Begin(p, "recv", <<>>) \/ LeafReceives(p, Share(RankOf(p)), TRUE)

GatherRoot ==
  /\ type = "GATHER"
  /\ BeginCut("collect", Own(Root, 0, Share(0))) \/ Collect([k \in Leaf |-> Share(k)], "return")
GatherLeaf(p) ==
  /\ type = "GATHER"
  /\ Begin(p, "send", <<>>) \/ LeafSends(p, Mine(p, 0, Share(RankOf(p))), "return")

AllGatherRoot ==
  /\ type = "ALLGATHER"
  /\ \/ BeginCut("collect", Own(Root, 0, Share(0)))
     \/ Collect([k \in Leaf |-> Share(k)], "spread")
     \/ LET all == proc[Root].buf IN Spread([k \in Leaf |-> all], all)
AllGatherLeaf(p) ==
  /\ type = "ALLGATHER"
  /\ \/ Begin(p, "send", <<>>)
     \/ LeafSends(p, Mine(p, 0, Share(RankOf(p))), "recv")
     \/ LeafReceives(p, datacount, FALSE)

\* The root takes the part of slot k out of all the buffers.
Transposed(k) ==
  [j \in 1 .. N |-> [proc[Root].buf[j] EXCEPT !.off = Offset(k), !.len = Share(k)]]
AlltoallRoot ==
  /\ type = "ALLTOALL"
  /\ \/ Begin(Root, "collect", Own(Root, 0, datacount))
     \/ Collect([k \in Leaf |-> datacount], "spread")
     \/ Spread([k \in Leaf |-> Transposed(k)], Transposed(0))
AlltoallLeaf(p) ==
  /\ type = "ALLTOALL"
  /\ \/ Begin(p, "send", <<>>)
     \/ LeafSends(p, Mine(p, 0, datacount), "recv")
     \/ LeafReceives(p, N * Share(RankOf(p)), FALSE)

Sendrecv(p) ==
  IF p = Root
  THEN BroadcastRoot \/ ScatterRoot \/ GatherRoot \/ AllGatherRoot \/ AlltoallRoot
  ELSE BroadcastLeaf(p) \/ ScatterLeaf(p) \/ GatherLeaf(p) \/ AllGatherLeaf(p) \/ AlltoallLeaf(p)

-----------------------------------------------------------------------------
(* Creation of the MPI and UCC collectives, over the same handles.  The    *)
(* results of the calls are not checked; no process dies meanwhile.        *)

\* MPICollective: the root collects the MPI ranks and sends them all.
MPICreateRoot ==
  /\ type = "MPI_CREATE"
  /\ \/ Begin(Root, "collect", Own(Root, 0, 1))
     \/ Collect([k \in Leaf |-> 1], "spread")
     \/ LET ranks == proc[Root].buf IN Spread([k \in Leaf |-> ranks], ranks)
MPICreateLeaf(p) ==
  /\ type = "MPI_CREATE"
  /\ \/ Begin(p, "send", <<>>)
     \/ LeafSends(p, Mine(p, 0, 1), "recv")
     \/ LeafReceives(p, N, FALSE)

\* A message of one piece is taken from e, whatever its size.
Takes(e) == /\ hd[e].in # <<>> /\ Head(hd[e].in).size > 0
            /\ Touch({e})
            /\ hd' = [hd EXCEPT ![e].in = Tail(@)]
First(e) == Head(Head(hd[e].in).data)

\* UCCCollective::oob_allgather: for each member the root sends its rank,
\* receives the rank of the member and then its block, which it stores at that
\* rank; when it has them all it sends the blocks to everybody.
OobRoot ==
  LET k == proc[Root].idx
      e == EndOf(Root, k) IN
  /\ type = "UCC_OOB"
  /\ \/ Begin(Root, "collect", [j \in Slot |-> Piece(Root, Round(Root) + 1, 0, 1)])
     \/ /\ InCall(Root, "collect")
        /\ Send(Root, e, Mine(Root, RankOf(Root), 1), Goto(Root, "reply"))
        /\ UNCHANGED <<team, ctx>>
     \/ /\ InCall(Root, "reply") /\ Takes(e)
        /\ proc' = [proc EXCEPT ![Root].pc = "block", ![Root].rank = First(e).off]
        /\ UNCHANGED <<team, ctx>>
     \/ /\ InCall(Root, "block") /\ Takes(e)
        /\ proc' = [proc EXCEPT ![Root].buf[proc[Root].rank] = First(e),
                                ![Root].pc = IF k < N - 1 THEN "collect" ELSE "spread",
                                ![Root].idx = IF k < N - 1 THEN k + 1 ELSE 1]
        /\ UNCHANGED <<team, ctx>>
     \/ LET rbuf == [i \in 1 .. N |-> proc[Root].buf[i - 1]] IN Spread([j \in Leaf |-> rbuf], rbuf)
OobLeaf(p) ==
  LET e == EndOf(p, p) IN
  /\ type = "UCC_OOB"
  /\ \/ Begin(p, "result", <<>>)
     \/ /\ InCall(p, "result") /\ Takes(e) /\ Goto(p, "send")
        /\ UNCHANGED <<team, ctx>>
     \/ LeafSends(p, Mine(p, RankOf(p), 1), "sendblock")
     \/ /\ InCall(p, "sendblock")
        /\ Send(p, e, Mine(p, 0, 1), Goto(p, "recv"))
        /\ UNCHANGED <<team, ctx>>
     \/ LeafReceives(p, N, FALSE)

Create(p) ==
  IF p = Root THEN MPICreateRoot \/ OobRoot ELSE MPICreateLeaf(p) \/ OobLeaf(p)

-----------------------------------------------------------------------------
(* FanIn and FanOut: send, probe, receive.                                 *)

\* FanInGeneric::send by a member, and FanOutGeneric::send by the root, which
\* deals its messages to the participants in turn.
\* Mutant: current is incremented before it is used.
TurnNext(p) == IF p = Root THEN ((proc[p].round + 1) % (N - 1)) + 1 ELSE p
Turn(p) == IF p = Root THEN (proc[p].round % (N - 1)) + 1 ELSE p
FanSend(p) ==
  /\ type \in {"FANIN", "FANOUT"} /\ ~canReceive(p)
  /\ proc[p].pc = "ready" /\ proc[p].round < Rounds
  /\ Send(p, EndOf(p, Turn(p)), Own(p, 0, 1),
          proc' = [proc EXCEPT ![p].round = @ + 1])
  /\ UNCHANGED <<team, ctx>>

\* The end of the stream of the team reaches HandleUser::probe.
TeamEnds(p) == proc' = [proc EXCEPT ![p].res = "zero", ![p].pc = "stop"]

\* One iteration of the loop of a blocking FanInGeneric::probe.  An end of
\* stream removes the participant and the loop goes on behind the next one; a
\* connection that broke ends the loop, and for HandleUser the stream.
\* Mutant: the iterator does not go back to the first participant.
AdvanceOver(parts, j) == j + 1
Advance(parts, j) == IF j + 1 > Len(parts) THEN 1 ELSE j + 1
FanInProbe ==
  LET parts == proc[Root].parts
      j == proc[Root].idx
      e == EndOf(Root, parts[j])
      left == RemoveAt(parts, j) IN
  /\ type = "FANIN" /\ proc[Root].pc = "hold"
  /\ IF parts = <<>> THEN TeamEnds(Root) /\ UNCHANGED <<hd, touched>>
     ELSE
     /\ Touch({e})
     /\ \/ /\ hd[e].in = <<>> /\ hd[Peer(e)].open /\ UNCHANGED hd
           /\ proc' = [proc EXCEPT ![Root].idx = Advance(parts, j)]
        \/ hd[e].in = <<>> /\ ~hd[Peer(e)].open /\ TeamEnds(Root) /\ UNCHANGED hd
        \/ /\ hd[e].in # <<>> /\ Head(hd[e].in).size = 0
           /\ hd' = Closed([hd EXCEPT ![e].in = Tail(@)], e, TRUE, TRUE)
           /\ proc' = [proc EXCEPT
                ![Root].parts = left,
                ![Root].idx = IF j > Len(left) THEN 1 ELSE Advance(left, j)]
        \/ /\ hd[e].in # <<>> /\ Head(hd[e].in).size > 0
           /\ hd' = [hd EXCEPT ![e].probed = Head(hd[e].in).size]
           /\ Goto(Root, "got")
  /\ UNCHANGED <<team, ctx>>

\* FanOutGeneric::probe: at the end of the stream the handle is closed, which
\* deletes it, and then written to.
FanOutProbe(p) ==
  LET e == EndOf(p, p) IN
  /\ type = "FANOUT" /\ proc[p].pc = "hold" /\ Readable(e)
  /\ CASE hd[e].in = <<>> -> TeamEnds(p) /\ UNCHANGED hd /\ Touch({e})
       [] hd[e].in # <<>> /\ Head(hd[e].in).size = 0 ->
            /\ hd' = [Closed([hd EXCEPT ![e].in = Tail(@)], e, TRUE, TRUE) EXCEPT ![e].probed = 0]
            /\ touched' = TRUE
            /\ TeamEnds(p)
       [] OTHER ->
            /\ hd' = [hd EXCEPT ![e].probed = Head(hd[e].in).size]
            /\ Goto(p, "got") /\ Touch({e})
  /\ UNCHANGED <<team, ctx>>

\* receive, from the participant that was probed.
FanReceive(p) ==
  LET e == IF p = Root THEN EndOf(Root, proc[Root].parts[proc[Root].idx]) ELSE EndOf(p, p) IN
  /\ proc[p].pc = "got"
  /\ Touch({e})
  /\ hd' = [hd EXCEPT ![e].in = Tail(@), ![e].probed = None]
  /\ proc' = [proc EXCEPT ![p].out = Append(@, First(e)), ![p].pc = "received", ![p].idx = 1]
  /\ UNCHANGED <<team, ctx>>

\* The application keeps the handle for the next message, or yields it:
\* CollectiveContext::yield, Manager::releaseTeam.
Keep(p) == proc[p].pc = "received" /\ Goto(p, "hold") /\ UNCHANGED <<team, hd, ctx, touched>>
YieldTeam(p) ==
  /\ proc[p].pc = "received"
  /\ ctx' = [ctx EXCEPT ![p] = "managed"]
  /\ Goto(p, "away")
  /\ UNCHANGED <<team, hd, touched>>

\* HandleTCP::peek turns the -1 of an empty socket into true and the 0 of the
\* end of file into false.
\* Mutant: a participant's end of stream is nothing to read.
PeekHandleData(e) == hd[e].in # <<>> /\ Head(hd[e].in).size > 0
PeekHandle(e) == hd[e].in # <<>> \/ hd[Peer(e)].open
Peek(p) ==
  IF p = Root
  THEN \E j \in DOMAIN proc[p].parts : PeekHandle(EndOf(p, proc[p].parts[j]))
  ELSE PeekHandle(EndOf(p, p))

\* getReadyBackend: the I/O thread polls the contexts that were yielded.
PollTeam(p) ==
  /\ ctx[p] = "managed"
  /\ ctx' = [ctx EXCEPT ![p] = IF Peek(p) THEN "queued" ELSE @]
  /\ UNCHANGED <<team, proc, hd, touched>>
GetNextTeam(p) ==
  /\ proc[p].pc = "away" /\ ctx[p] = "queued"
  /\ ctx' = [ctx EXCEPT ![p] = "app"]
  /\ Goto(p, "hold")
  /\ UNCHANGED <<team, hd, touched>>

Fan(p) ==
  \/ FanSend(p) \/ (p = Root /\ FanInProbe) \/ (p # Root /\ FanOutProbe(p))
  \/ FanReceive(p) \/ Keep(p) \/ YieldTeam(p) \/ GetNextTeam(p)

-----------------------------------------------------------------------------
(* Closing.                                                                *)

\* After its last call the application closes the team.
Finished(p) ==
  \/ proc[p].pc = "stop"
  \/ /\ proc[p].pc = "ready" /\ proc[p].round >= Rounds
     /\ ~(type \in {"BROADCAST", "SCATTER"} /\ p # Root)
     /\ ~(type = "GATHER" /\ p = Root)

\* Mutant: whoever closes the team closes its ends, also those that are gone.
ClosesAlways(p) == EndsOf(p)

\* The ends a close of the collective closes for writing.
Closes(p) ==
  CASE type \in {"BROADCAST", "SCATTER", "FANOUT"} -> IF p = Root THEN EndsOf(p) ELSE {}
    [] type = "FANIN" -> IF p = Root THEN {} ELSE EndsOf(p)
    [] type \in {"GATHER", "ALLGATHER", "ALLTOALL"} -> EndsOf(p)
    [] OTHER -> {}

ClosedAll(es) == FoldSet(LAMBDA e, h : Closed(h, e, TRUE, FALSE), hd, es)

CloseTeam(p) ==
  /\ Finished(p)
  /\ Touch(Closes(p))
  /\ hd' = ClosedAll(Closes(p))
  /\ proc' = [proc EXCEPT ![p].pc = "final", ![p].idx = 1]
  /\ UNCHANGED <<team, ctx>>

\* finalize(true) visits the connections one by one: the end of the stream is
\* sent, what still comes is discarded until the end of the stream of the
\* peer, and the connection is closed (ConnType::setAsClosed).
FinalizeHandle(p) ==
  LET k == proc[p].idx
      e == EndOf(p, k) IN
  /\ proc[p].pc = "final"
  /\ \/ /\ k = N \/ (p # Root /\ k > 1)
        /\ Goto(p, "end") /\ UNCHANGED hd
     \/ /\ k < N /\ (p # Root => k = 1)
        /\ \/ /\ hd[e].wr /\ hd[e].rd
              /\ proc' = [proc EXCEPT ![p].idx = k + 1] /\ UNCHANGED hd
           \/ /\ ~hd[e].wr /\ hd' = Closed(hd, e, TRUE, FALSE) /\ UNCHANGED proc
           \/ /\ hd[e].wr /\ ~hd[e].rd /\ hd[e].in # <<>>
              /\ hd' = IF Head(hd[e].in).size > 0
                       THEN [hd EXCEPT ![e].in = Tail(@), ![e].probed = None]
                       ELSE Closed([hd EXCEPT ![e].in = Tail(@)], e, FALSE, TRUE)
              /\ UNCHANGED proc
  /\ UNCHANGED <<team, ctx, touched>>

\* A stream that ended without EOS: setAsClosed goes on probing it.
FinalizeSpin(p) ==
  LET e == EndOf(p, proc[p].idx) IN
  /\ proc[p].pc = "final" /\ proc[p].idx < N
  /\ hd[e].wr /\ ~hd[e].rd /\ hd[e].in = <<>> /\ ~hd[Peer(e)].open
  /\ UNCHANGED vars

\* A member of a created team dies: its descriptors are closed by the kernel.
Crash(p) ==
  /\ Crashes /\ p # Root /\ type \notin Creations
  /\ proc[p].pc \notin {"end", "dead"}
  /\ hd' = [hd EXCEPT ![EndOf(p, p)].open = FALSE]
  /\ Goto(p, "dead")
  /\ UNCHANGED <<team, ctx, touched>>

Done == (\A p \in Slot : proc[p].pc \in {"end", "dead"}) /\ UNCHANGED vars

Step(p) == Sendrecv(p) \/ Create(p) \/ Fan(p) \/ CloseTeam(p) \/ FinalizeHandle(p)

Next ==
  \/ \E p \in Slot : Step(p) \/ FinalizeSpin(p) \/ PollTeam(p) \/ Crash(p)
  \/ Done

Spec == Init /\ [][Next]_vars

\* The processes and their I/O threads run.
FairSpec == Spec /\ \A p \in Slot : WF_vars(Step(p)) /\ WF_vars(PollTeam(p))

-----------------------------------------------------------------------------
(* Properties. *)

\* Nobody has died.
Healthy == \A p \in Slot : proc[p].pc # "dead"

SlotOfRank(k) == CHOOSE s \in Slot : RankOf(s) = k

\* Where the part of rank k starts: the first datacount % N are larger by one.
PlaceOf(k) == k * (datacount \div N) + Min({k, datacount % N})

\* What the buffer of process p holds after call r.
Expected(p, r) ==
  CASE type = "BROADCAST" -> <<Piece(Root, r, 0, datacount)>>
    [] type = "SCATTER" -> <<Piece(Root, r, PlaceOf(RankOf(p)), Share(RankOf(p)))>>
    [] type = "GATHER" /\ p # Root -> <<>>
    [] type = "ALLGATHER" \/ (type = "GATHER" /\ p = Root) ->
         [j \in 1 .. N |-> Piece(SlotOfRank(j - 1), r, 0, Share(j - 1))]
    [] type = "ALLTOALL" ->
         [j \in 1 .. N |-> Piece(SlotOfRank(j - 1), r, PlaceOf(RankOf(p)), Share(RankOf(p)))]
    [] type = "MPI_CREATE" -> [j \in 1 .. N |-> Piece(j - 1, r, 0, 1)]
    [] type = "UCC_OOB" -> [j \in 1 .. N |-> Piece(SlotOfRank(j - 1), r, 0, 1)]

\* The ranks are those the collectives cut by: the root is the first of the
\* participants string, or nothing is cut.
InRankOrder == pos = 0 \/ type \notin Cutting

\* When the buffer is cut, everybody has a part of it: an empty part would be a
\* message of size 0, the end of the stream.
EveryPart == type \in Cutting => datacount >= N

\* A call that succeeds has delivered the data of exactly that call of every
\* process it depends on, each at its place: although members run ahead of
\* each other over FIFOs, rounds never mix.  In a Broadcast, Scatter or Gather
\* this holds when members die and when parts are empty, too; a member of an
\* AllGather or Alltoall reports success even when the root has given up, or
\* when it took an empty part for the end of the stream.
RoundIntact ==
  InRankOrder => \A p \in Slot :
    /\ proc[p].res = "ok" /\ proc[p].pc = "ready"
    /\ (Healthy /\ EveryPart) \/ type \notin {"ALLGATHER", "ALLTOALL"}
    => proc[p].out = Expected(p, proc[p].round)

\* When all the processes pass buffers of the announced size and nobody dies,
\* a call is refused only if some part is empty, and the end of the stream is
\* reported to a process only after the one that feeds it has closed, or for
\* an empty part: a message of size 0 is the end of the stream to its receiver
\* (a member of a Scatter, the root of a Gather or AllGather), and no other
\* message of the collective is taken for it.
NoSpuriousEnd ==
  Healthy /\ InRankOrder => \A p \in Slot :
    /\ proc[p].res = "error" => ~EveryPart
    /\ proc[p].res = "zero" /\ type \in {"BROADCAST", "SCATTER"} =>
         \/ proc[Root].pc \in {"final", "end"}
         \/ type = "SCATTER" /\ p # Root /\ Share(RankOf(p)) = 0
    /\ proc[p].res = "zero" /\ type = "GATHER" =>
         \E q \in Leaf : proc[q].pc \in {"final", "end"} \/ Share(RankOf(q)) = 0
    /\ proc[p].res = "zero" /\ type \in {"ALLGATHER", "ALLTOALL"} => ~EveryPart

\* Where the messages of member s are among those the process p received.
From(p, s) == {i \in DOMAIN proc[p].out : proc[p].out[i].src = s}

\* A fan-in delivers the messages of each member once and in order, and, when
\* nobody dies, reports the end of the stream only after the last of them; a
\* fan-out deals its messages in turn, and each member gets all of its own.
TeamEndComplete ==
  /\ type = "FANIN" => \A s \in Leaf : LET from == From(Root, s) IN
       /\ \A i \in from : proc[Root].out[i].round = Cardinality({j \in from : j <= i})
       /\ proc[Root].res = "zero" /\ Healthy => Cardinality(from) = Rounds
  /\ type = "FANOUT" => \A p \in Leaf :
       /\ \A j \in DOMAIN proc[p].out : proc[p].out[j].round = (j - 1) * (N - 1) + p
       /\ proc[p].res = "zero" /\ Healthy =>
            Len(proc[p].out) = Cardinality({r \in 1 .. Rounds : (r - 1) % (N - 1) = p - 1})

\* When nobody dies and the root is first, the processes of a collective other
\* than a fan-out close in any order without using a handle that has deleted
\* itself.  An AllGather or Alltoall with an empty part is the other exception:
\* who takes the part for the end of the stream closes its handle and goes on
\* to use it.
DeletedUnused ==
  touched /\ Healthy /\ InRankOrder =>
    type = "FANOUT" \/ (type \in {"ALLGATHER", "ALLTOALL"} /\ ~EveryPart)

\* Every process gets out of its calls and of finalize(true), which waits for
\* the end of the stream of every peer, unless a peer dies; then all the
\* connections are closed.
AllFinalize ==
  <>(\/ ~Healthy
     \/ /\ \A p \in Slot : proc[p].pc = "end"
        /\ \A e \in End : ~hd[e].open)

=============================================================================
