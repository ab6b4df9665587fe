---------------------- MODULE CollectivesRounds_proofs ----------------------
(***************************************************************************)
(* What a team at work delivers: no round loses or mixes its parts, no     *)
(* call ends a stream that has not ended, the end of a team is complete,   *)
(* and no deleted Handle is used, for any number of processes, any place   *)
(* of the root, any buffer and any number of calls.                        *)
(***************************************************************************)
EXTENDS Collectives_proofs

-----------------------------------------------------------------------------
(* Safety: what a step does not touch *)

\* The team does not change, nor what its messages carry.
LEMMA RanksFix ==
  ASSUME Frame
  PROVE  /\ \A s : RankOf(s)' = RankOf(s)
         /\ \A k : Share(k)' = Share(k)
         /\ \A k : PlaceOf(k)' = PlaceOf(k)
         /\ \A k : SlotOfRank(k)' = SlotOfRank(k)
         /\ InRankOrder' = InRankOrder
<1>1. \A s : RankOf(s)' = RankOf(s)
  BY DEF Frame, RankOf
<1>2. \A k : Share(k)' = Share(k)
  BY DEF Frame, Share
<1>3. \A k : PlaceOf(k)' = PlaceOf(k)
  BY DEF Frame, PlaceOf
<1>4. \A k : SlotOfRank(k)' = SlotOfRank(k)
  <2> SUFFICES ASSUME NEW k PROVE SlotOfRank(k)' = SlotOfRank(k)
    OBVIOUS
  <2>1. \A s : RankOf(s)' = k <=> RankOf(s) = k
    BY <1>1
  <2> QED BY <2>1 DEF SlotOfRank
<1>5. InRankOrder' = InRankOrder
  BY DEF Frame, InRankOrder
<1> QED BY <1>1, <1>2, <1>3, <1>4, <1>5

\* What a buffer is to hold.
LEMMA ExpectedFix ==
  ASSUME Frame, NEW p, NEW r
  PROVE  Expected(p, r)' = Expected(p, r)
  BY RanksFix DEF Expected, Frame

\* What the messages carry.
LEMMA FeedFix ==
  ASSUME Frame, NEW e
  PROVE  Feed(e)' = Feed(e)
<1>1. \A k : UpLen(k)' = UpLen(k)
  BY RanksFix DEF Frame, UpLen
<1>2. \A k, i : ToRoot(k, i)' = ToRoot(k, i)
  BY <1>1, RanksFix DEF Frame, ToRoot
<1>3. \A k, i : ToLeaf(k, i)' = ToLeaf(k, i)
  BY RanksFix, ExpectedFix DEF Frame, ToLeaf
<1>4. \A i : Data(e, i)' = Data(e, i)
  BY <1>2, <1>3 DEF Data
<1> QED BY <1>4 DEF Feed

\* Who closes what.
LEMMA PartyFix ==
  ASSUME Frame, NEW p
  PROVE  (Sender(p)' <=> Sender(p)) /\ Closes(p)' = Closes(p)
<1>1. Sender(p)' <=> Sender(p)
  BY DEF Frame, Sender
<1>2. Closes(p)' = Closes(p)
  BY DEF Frame, Closes
<1> QED BY <1>1, <1>2

\* A step of process p, which lives on.
Moves(p) ==
  /\ Frame /\ Others(p) /\ HdC(p, hd, hd') /\ proc[p].pc # "dead" /\ proc'[p].pc # "dead"
  /\ proc'[p].pc \notin Idle => proc[p].pc \notin Idle
  /\ proc'[p].pc = "stop" => proc[p].pc \notin Idle

\* Nobody comes to life, and who has stopped reading does not start again.
LEMMA MovesIs ==
  ASSUME TInv, NEW p \in Slot, Moves(p)
  PROVE  /\ Healthy' <=> Healthy
         /\ \A q \in Slot : Active(q)' => Active(q)
         /\ \A e \in End : /\ Live(e)' => Live(e)
                           /\ Counted(e)' => Counted(e)
         /\ Sound' <=> Sound
<1>1. /\ \A q \in Slot : q # p => proc'[q] = proc[q]
      /\ proc[p].pc # "dead" /\ proc'[p].pc # "dead"
      /\ proc'[p].pc \notin Idle => proc[p].pc \notin Idle
  BY DEF Moves, Others
<1>2. Healthy' <=> Healthy
  BY <1>1 DEF Healthy
<1>3. ASSUME NEW q \in Slot, Active(q)' PROVE Active(q)
  <2>1. proc'[q].pc \notin Idle /\ proc'[q].pc # "dead"
    BY <1>3 DEF Active
  <2>2. proc[q].pc \notin Idle /\ proc[q].pc # "dead"
    BY <1>1, <2>1
  <2> QED BY <2>2 DEF Active
<1>4. ASSUME NEW e \in End PROVE (Live(e)' => Live(e)) /\ (Counted(e)' => Counted(e))
  <2>1. Owner(e) \in Slot /\ Owner(Peer(e)) \in Slot
    BY PeerOf
  <2>2. hd[e].rd => hd'[e].rd
    BY DEF Moves, HdC, Goes
  <2>3. (Active(Owner(e))' => Active(Owner(e))) /\ (Active(Owner(Peer(e)))' => Active(Owner(Peer(e))))
    BY <1>3, <2>1
  <2>4. Live(e)' => Live(e)
    BY <2>2, <2>3 DEF Live
  <2>5. Counted(e)' => Counted(e)
    BY <1>2, <2>3 DEF Counted
  <2> QED BY <2>4, <2>5
<1>5. Frame
  BY DEF Moves
<1>6. Sound' <=> Sound
  BY <1>2, <1>5, RanksFix DEF Sound, Frame
<1> QED BY <1>2, <1>3, <1>4, <1>6

\* The counts of the other processes do not change.
LEMMA CountsOther ==
  ASSUME Frame, NEW p \in Slot, Others(p), NEW e \in End, Owner(e) # p
  PROVE  Sent(e)' = Sent(e) /\ Got(e)' = Got(e)
<1>1. type' = type /\ \A q \in Slot : q # p => proc'[q] = proc[q]
  BY DEF Frame, Others
<1>2. PICK k \in Leaf : e = REnd(k) \/ e = LEnd(k)
  BY EndsAll
<1>3. CASE e = REnd(k)
  <2>1. e[1] = k /\ e[2] = "root" /\ proc'[Root] = proc[Root]
    BY <1>1, <1>3, EndsAt, Slots
  <2>2. RootSent(k)' = RootSent(k)
    BY <1>1, <2>1 DEF RootSent
  <2>3. From(Root, k)' = From(Root, k)
    BY <2>1 DEF From
  <2>4. RootGot(k)' = RootGot(k)
    BY <1>1, <2>1, <2>3 DEF RootGot
  <2> QED BY <2>1, <2>2, <2>4 DEF Sent, Got
<1>4. CASE e = LEnd(k)
  <2>1. e[1] = k /\ e[2] = "leaf" /\ proc'[k] = proc[k]
    BY <1>1, <1>4, EndsAt, Slots
  <2>2. LeafSent(k)' = LeafSent(k)
    BY <1>1, <2>1 DEF LeafSent
  <2>4. LeafGot(k)' = LeafGot(k)
    BY <1>1, <2>1 DEF LeafGot
  <2> QED BY <2>1, <2>2, <2>4 DEF Sent, Got
<1> QED BY <1>2, <1>3, <1>4

\* The places of a member in what was received are finitely many.
LEMMA FromIs ==
  ASSUME TInv, NEW s
  PROVE  /\ From(Root, s) \subseteq 1 .. Len(proc[Root].out) /\ IsFiniteSet(From(Root, s))
         /\ Cardinality(From(Root, s)) \in Nat /\ Len(proc[Root].out) \in Nat
<1>1. proc[Root].out \in Seq(PieceRec)
  BY Slots, ProcFields DEF TInv
<1>2. Len(proc[Root].out) \in Nat /\ DOMAIN proc[Root].out = 1 .. Len(proc[Root].out)
  BY <1>1
<1>3. From(Root, s) \subseteq 1 .. Len(proc[Root].out)
  BY <1>2 DEF From
<1>4. IsFiniteSet(1 .. Len(proc[Root].out))
  BY <1>2, FS_Interval
<1>5. IsFiniteSet(From(Root, s))
  BY <1>3, <1>4, FS_Subset
<1>6. Cardinality(From(Root, s)) \in Nat
  BY <1>5, FS_CardinalityType
<1> QED BY <1>2, <1>3, <1>5, <1>6

\* Counts are numbers.
LEMMA CountsInt ==
  ASSUME TInv, NEW e \in End
  PROVE  Sent(e) \in Int /\ Got(e) \in Int
<1>1. PICK k \in Leaf : e = REnd(k) \/ e = LEnd(k)
  BY EndsAll
<1>2. k \in Slot /\ Root \in Slot /\ N \in Nat /\ N >= 2 /\ k \in Nat
  BY Slots
<1>3. \A q \in Slot : proc[q].round \in Int
  BY ProcFields, TeamAssumption DEF TInv
<1>4. \A ro \in Int : \A i, c : /\ RSent(type, c, ro, i, k) \in Int /\ LSent(type, c, ro) \in Int
                                /\ RGot(type, c, ro, i, k) \in Int /\ LGot(type, c, ro) \in Int
  <2> SUFFICES ASSUME NEW ro \in Int, NEW i, NEW c
               PROVE  /\ RSent(type, c, ro, i, k) \in Int /\ LSent(type, c, ro) \in Int
                      /\ RGot(type, c, ro, i, k) \in Int /\ LGot(type, c, ro) \in Int
    OBVIOUS
  <2>1. Dealt(k, ro) \in Int
    BY <1>2 DEF Dealt
  <2>2. RSent(type, c, ro, i, k) \in Int
    BY <2>1 DEF RSent
  <2>3. LSent(type, c, ro) \in Int
    BY DEF LSent
  <2>4. RGot(type, c, ro, i, k) \in Int
    BY DEF RGot
  <2>5. LGot(type, c, ro) \in Int
    BY DEF LGot
  <2> QED BY <2>2, <2>3, <2>4, <2>5
<1>5. Cardinality(From(Root, k)) \in Int /\ Len(proc[k].out) \in Int
  <2>1. Cardinality(From(Root, k)) \in Nat
    BY FromIs
  <2>2. proc[k].out \in Seq(PieceRec)
    BY <1>2, ProcFields DEF TInv
  <2> QED BY <2>1, <2>2
<1>6. RootSent(k) \in Int /\ LeafSent(k) \in Int /\ RootGot(k) \in Int /\ LeafGot(k) \in Int
  BY <1>2, <1>3, <1>4, <1>5 DEF RootSent, LeafSent, RootGot, LeafGot
<1>7. e[1] = k /\ e[2] \in {"root", "leaf"}
  BY <1>1, EndsAt
<1> QED BY <1>6, <1>7 DEF Sent, Got

-----------------------------------------------------------------------------
(* Safety: streams *)

\* What a step does to what is on the way to e: nothing; its owner takes the
\* next message; its peer sends the next one, or the end of the stream.
Stays(e) ==
  /\ hd'[e].in = hd[e].in /\ (hd'[Peer(e)].wr <=> hd[Peer(e)].wr)
  /\ Got(e)' = Got(e) /\ (Counted(e)' => Sent(Peer(e))' = Sent(Peer(e)))
Shrinks(e) ==
  /\ hd[e].in # <<>> /\ Head(hd[e].in).size # 0
  /\ hd'[e].in = Tail(hd[e].in) /\ (hd'[Peer(e)].wr <=> hd[Peer(e)].wr)
  /\ Got(e)' = Got(e) + 1 /\ (Counted(e)' => Sent(Peer(e))' = Sent(Peer(e)))
Grows(e) ==
  /\ ~hd[Peer(e)].wr /\ ~hd'[Peer(e)].wr /\ Counted(e)
  /\ hd'[e].in = Append(hd[e].in, Feed(e)[Sent(Peer(e)) + 1])
  /\ type \in Down \cup {"GATHER"} => Sent(Peer(e)) + 1 <= Rounds
  /\ Got(e)' = Got(e) /\ (Counted(e)' => Sent(Peer(e))' = Sent(Peer(e)) + 1)
Finishes(e) ==
  /\ ~hd[Peer(e)].wr /\ hd'[Peer(e)].wr
  /\ hd'[e].in = Append(hd[e].in, EOS)
  /\ Got(e)' = Got(e) /\ (Counted(e)' => Sent(Peer(e))' = Sent(Peer(e)))
Flows(e) == Live(e)' => Stays(e) \/ Shrinks(e) \/ Grows(e) \/ Finishes(e)

\* Streams stay in order.
LEMMA StreamStep ==
  ASSUME TInv, NEW p \in Slot, Moves(p), NEW e \in End, StreamOk(e), Flows(e)
  PROVE  StreamOk(e)'
<1> DEFINE q == hd[e].in
           r == hd'[e].in
           F == Feed(e)
           g == Got(e)
           h == Got(e)'
           s == Sent(Peer(e))
           t == Sent(Peer(e))'
           m == F[s + 1]
<1>1. type' = type /\ Feed(e)' = Feed(e) /\ (Live(e)' => Live(e)) /\ (Counted(e)' => Counted(e))
  BY MovesIs, FeedFix DEF Moves, Frame
<1>2. q \in Seq(MsgRec) /\ Peer(e) \in End
  BY HdFields, PeerOf DEF TInv
<1>3. g \in Int /\ s \in Int /\ Rounds \in Nat
  BY <1>2, CountsInt, TeamAssumption
<1> SUFFICES ASSUME Live(e)'
             PROVE  /\ \A i \in 1 .. Len(r) :
                         \/ /\ r[i] = F[h + i]
                            /\ type \in Down \cup {"GATHER"} => h + i <= Rounds
                         \/ i = Len(r) /\ hd'[Peer(e)].wr
                    /\ hd'[Peer(e)].wr => r # <<>> /\ r[Len(r)] = EOS
                    /\ Counted(e)' => h + Len(r) = IF hd'[Peer(e)].wr THEN t + 1 ELSE t
  BY <1>1 DEF StreamOk
<1>4. /\ \A i \in 1 .. Len(q) :
           \/ /\ q[i] = F[g + i]
              /\ type \in Down \cup {"GATHER"} => g + i <= Rounds
           \/ i = Len(q) /\ hd[Peer(e)].wr
      /\ hd[Peer(e)].wr => q # <<>> /\ q[Len(q)] = EOS
      /\ Counted(e) => g + Len(q) = IF hd[Peer(e)].wr THEN s + 1 ELSE s
  BY <1>1 DEF StreamOk
<1>5. Stays(e) \/ Shrinks(e) \/ Grows(e) \/ Finishes(e)
  BY DEF Flows
<1>6. CASE Stays(e)
  <2>1. r = q /\ (hd'[Peer(e)].wr <=> hd[Peer(e)].wr) /\ h = g /\ (Counted(e)' => t = s)
    BY <1>6 DEF Stays
  <2> HIDE DEF q, r, F, g, h, s, t
  <2> QED BY <1>1, <1>4, <2>1
<1>7. CASE Shrinks(e)
  <2>1. /\ q # <<>> /\ Head(q).size # 0 /\ r = Tail(q)
        /\ (hd'[Peer(e)].wr <=> hd[Peer(e)].wr) /\ h = g + 1 /\ (Counted(e)' => t = s)
    BY <1>7 DEF Shrinks
  <2> HIDE DEF q, r, F, g, h, s, t
  <2>2. /\ Len(q) \in Nat /\ Len(q) >= 1 /\ Head(q) = q[1] /\ r \in Seq(MsgRec) /\ Len(r) = Len(q) - 1
        /\ \A i \in 1 .. Len(r) : r[i] = q[i + 1]
    BY <1>2, <2>1
  <2>3. hd[Peer(e)].wr => Len(q) # 1
    BY Zenon, <1>4, <2>1, <2>2, EosIn
  <2>4. ASSUME NEW i \in 1 .. Len(r)
        PROVE  \/ /\ r[i] = F[h + i]
                  /\ type \in Down \cup {"GATHER"} => h + i <= Rounds
               \/ i = Len(r) /\ hd'[Peer(e)].wr
    <3>0. i \in Int /\ i >= 1 /\ i <= Len(q) - 1 /\ r[i] = q[i + 1] /\ Len(r) = Len(q) - 1
      BY <2>2
    <3>1. i + 1 \in 1 .. Len(q) /\ r[i] = q[i + 1] /\ h + i = g + (i + 1)
          /\ (i + 1 = Len(q) => i = Len(r))
      <4>1. h = g + 1 /\ g \in Int /\ Len(q) \in Nat
        BY <1>3, <2>1, <2>2
      <4> QED BY ONLY <3>0, <4>1
    <3>2. \/ /\ q[i + 1] = F[g + (i + 1)]
             /\ type \in Down \cup {"GATHER"} => g + (i + 1) <= Rounds
          \/ i + 1 = Len(q) /\ hd[Peer(e)].wr
      BY <1>4, <3>1
    <3> QED BY <2>1, <3>1, <3>2
  <2>5. hd'[Peer(e)].wr => r # <<>> /\ r[Len(r)] = EOS
    <3> SUFFICES ASSUME hd'[Peer(e)].wr PROVE r # <<>> /\ r[Len(r)] = EOS
      OBVIOUS
    <3>0. hd[Peer(e)].wr
      BY <2>1
    <3>1. Len(q) >= 2 /\ q[Len(q)] = EOS
      BY <1>4, <2>2, <2>3, <3>0
    <3>2. Len(r) \in 1 .. Len(r) /\ Len(r) + 1 = Len(q)
      BY <2>2, <3>1
    <3> QED BY <2>2, <3>1, <3>2
  <2>6. ASSUME Counted(e)' PROVE h + Len(r) = IF hd'[Peer(e)].wr THEN t + 1 ELSE t
    <3>1. g + Len(q) = IF hd[Peer(e)].wr THEN s + 1 ELSE s
      BY <1>1, <1>4, <2>6
    <3>2. h = g + 1 /\ t = s /\ Len(r) = Len(q) - 1 /\ Len(q) \in Nat
      BY <2>1, <2>2, <2>6
    <3>3. hd'[Peer(e)].wr <=> hd[Peer(e)].wr
      BY <2>1
    <3> QED BY ONLY <1>3, <3>1, <3>2, <3>3
  <2> QED BY <2>4, <2>5, <2>6
<1>8. CASE Grows(e)
  <2>1. /\ ~hd[Peer(e)].wr /\ ~hd'[Peer(e)].wr /\ Counted(e) /\ r = Append(q, m)
        /\ type \in Down \cup {"GATHER"} => s + 1 <= Rounds
        /\ h = g /\ (Counted(e)' => t = s + 1) /\ m = F[s + 1]
    BY <1>8 DEF Grows
  <2> HIDE DEF q, r, F, g, h, s, t, m
  <2>2. g + Len(q) = s /\ Len(q) \in Nat
    BY <1>2, <1>4, <2>1
  <2>3. /\ Len(r) = Len(q) + 1 /\ r[Len(r)] = m
        /\ \A i \in 1 .. Len(q) : r[i] = q[i]
    BY <1>2, <2>1
  <2>4. ASSUME NEW i \in 1 .. Len(r)
        PROVE  \/ /\ r[i] = F[h + i]
                  /\ type \in Down \cup {"GATHER"} => h + i <= Rounds
               \/ i = Len(r) /\ hd'[Peer(e)].wr
    <3>1. CASE i = Len(r)
      <4>1. h + i = s + 1
        BY <1>3, <2>1, <2>2, <2>3, <3>1
      <4> QED BY <2>1, <2>3, <3>1, <4>1
    <3>2. CASE i # Len(r)
      <4>1. i \in 1 .. Len(q)
        BY <2>2, <2>3, <3>2
      <4> QED BY <1>4, <2>1, <2>3, <4>1
    <3> QED BY <3>1, <3>2
  <2>5. Counted(e)' => h + Len(r) = t
    BY <1>3, <2>1, <2>2, <2>3
  <2> QED BY <2>1, <2>4, <2>5
<1>9. CASE Finishes(e)
  <2>1. /\ ~hd[Peer(e)].wr /\ hd'[Peer(e)].wr /\ r = Append(q, EOS)
        /\ h = g /\ (Counted(e)' => t = s)
    BY <1>9 DEF Finishes
  <2> HIDE DEF q, r, F, g, h, s, t, m
  <2>2. /\ Len(q) \in Nat /\ Len(r) = Len(q) + 1 /\ r[Len(r)] = EOS /\ r # <<>>
        /\ \A i \in 1 .. Len(q) : r[i] = q[i]
    BY <1>2, <2>1, EosIn
  <2>4. ASSUME NEW i \in 1 .. Len(r)
        PROVE  \/ /\ r[i] = F[h + i]
                  /\ type \in Down \cup {"GATHER"} => h + i <= Rounds
               \/ i = Len(r) /\ hd'[Peer(e)].wr
    <3>1. CASE i = Len(r)
      BY <2>1, <3>1
    <3>2. CASE i # Len(r)
      <4>1. i \in 1 .. Len(q)
        BY <2>2, <3>2
      <4> QED BY <1>4, <2>1, <2>2, <4>1
    <3> QED BY <3>1, <3>2
  <2>5. Counted(e)' => h + Len(r) = t + 1
    BY <1>1, <1>3, <1>4, <2>1, <2>2
  <2> QED BY <2>1, <2>2, <2>4, <2>5
<1> QED BY <1>5, <1>6, <1>7, <1>8, <1>9

\* An end of stream stays the last message.
LEMMA QuietStep ==
  ASSUME TInv, NEW e \in End, Quiet(e), hd[Peer(e)].wr => hd'[Peer(e)].wr,
         \/ hd'[e].in = hd[e].in
         \/ hd[e].in # <<>> /\ hd'[e].in = Tail(hd[e].in)
         \/ /\ ~hd[Peer(e)].wr
            /\ \E m \in MsgRec : m.size # 0 /\ hd'[e].in = Append(hd[e].in, m)
         \/ ~hd[Peer(e)].wr /\ hd'[Peer(e)].wr /\ hd'[e].in = Append(hd[e].in, EOS)
  PROVE  Quiet(e)'
<1> DEFINE q == hd[e].in
           r == hd'[e].in
<1>1. q \in Seq(MsgRec) /\ DOMAIN q = 1 .. Len(q) /\ Len(q) \in Nat
  BY HdFields DEF TInv
<1>2. \A i \in 1 .. Len(q) : q[i].size = 0 => i = Len(q) /\ hd[Peer(e)].wr
  BY <1>1 DEF Quiet
<1> SUFFICES \A i \in DOMAIN r : r[i].size = 0 => i = Len(r) /\ hd'[Peer(e)].wr
  BY DEF Quiet
<1>3. CASE r = q
  BY <1>1, <1>2, <1>3
<1>4. CASE q # <<>> /\ r = Tail(q)
  <2> HIDE DEF q, r
  <2>1. /\ Len(r) = Len(q) - 1 /\ DOMAIN r = 1 .. Len(r) /\ r \in Seq(MsgRec)
        /\ \A i \in 1 .. Len(r) : r[i] = q[i + 1]
    BY <1>1, <1>4
  <2>2. ASSUME NEW i \in 1 .. Len(r), r[i].size = 0 PROVE i = Len(r) /\ hd'[Peer(e)].wr
    <3>0. /\ i \in Int /\ i >= 1 /\ i <= Len(q) - 1 /\ r[i] = q[i + 1] /\ Len(r) = Len(q) - 1
          /\ Len(q) \in Nat
      BY <1>1, <2>1
    <3>1. i + 1 \in 1 .. Len(q) /\ r[i] = q[i + 1] /\ (i + 1 = Len(q) => i = Len(r))
      BY ONLY <3>0
    <3> QED BY <1>2, <2>2, <3>1
  <2> QED BY <2>1, <2>2
<1>5. ASSUME NEW m \in MsgRec, r = Append(q, m), ~hd[Peer(e)].wr, m.size = 0 => hd'[Peer(e)].wr
      PROVE  \A i \in DOMAIN r : r[i].size = 0 => i = Len(r) /\ hd'[Peer(e)].wr
  <2> HIDE DEF q, r
  <2>1. /\ Len(r) = Len(q) + 1 /\ DOMAIN r = 1 .. Len(r) /\ r[Len(r)] = m
        /\ \A i \in 1 .. Len(q) : r[i] = q[i]
    BY <1>1, <1>5
  <2>2. ASSUME NEW i \in 1 .. Len(r), r[i].size = 0 PROVE i = Len(r) /\ hd'[Peer(e)].wr
    <3>1. CASE i = Len(r)
      BY <1>5, <2>1, <2>2, <3>1
    <3>2. CASE i # Len(r)
      <4>1. i \in 1 .. Len(q)
        BY <1>1, <2>1, <3>2
      <4> QED BY <1>2, <1>5, <2>1, <2>2, <4>1
    <3> QED BY <3>1, <3>2
  <2> QED BY <2>1, <2>2
<1> QED BY <1>3, <1>4, <1>5, EosIn

\* Directions stay closed in order, at the ends of the other processes ...
LEMMA CloseOther ==
  ASSUME TInv, NEW p \in Slot, Moves(p), NEW e \in End, Owner(e) # p, CloseOk(e)
  PROVE  CloseOk(e)'
<1>1. Owner(e) \in Slot /\ Peer(e) \in End
  BY PeerOf
<1>2. /\ Frame /\ proc'[Owner(e)] = proc[Owner(e)] /\ SameFlags(hd'[e], hd[e])
      /\ hd[Peer(e)].wr => hd'[Peer(e)].wr
  BY <1>1 DEF Moves, Others, HdC, Goes
<1>3. (Healthy' <=> Healthy) /\ Closes(Owner(e))' = Closes(Owner(e)) /\ type' = type
  BY <1>2, MovesIs, PartyFix DEF Frame
<1>4. Active(Owner(e))' <=> Active(Owner(e))
  BY <1>2 DEF Active
<1>5. /\ Active(Owner(e))' => /\ hd'[e].wr => hd'[e].rd
                              /\ hd'[e].rd => type' = "FANIN" /\ e[2] = "root"
  BY <1>2, <1>3, <1>4 DEF CloseOk, SameFlags
<1>6. Healthy' => /\ hd'[e].rd => hd'[Peer(e)].wr
                  /\ proc'[Owner(e)].pc = "stop" /\ e \in Closes(Owner(e))' => ~hd'[e].wr
  BY <1>2, <1>3 DEF CloseOk, SameFlags
<1> QED BY <1>5, <1>6 DEF CloseOk

\* ... and at those ends of the process that it leaves alone.
LEMMA CloseSame ==
  ASSUME TInv, NEW p \in Slot, Moves(p), NEW e \in End, Owner(e) = p, CloseOk(e),
         (hd'[e].wr <=> hd[e].wr) /\ (hd'[e].rd <=> hd[e].rd)
  PROVE  CloseOk(e)'
<1>1. Owner(e) \in Slot /\ Peer(e) \in End
  BY PeerOf
<1>2. /\ Frame /\ (hd[Peer(e)].wr => hd'[Peer(e)].wr)
      /\ proc'[p].pc = "stop" => proc[p].pc \notin Idle
  BY <1>1 DEF Moves, HdC, Goes
<1>3. /\ Healthy' <=> Healthy
      /\ Closes(Owner(e))' = Closes(Owner(e)) /\ type' = type /\ (Active(p)' => Active(p))
  BY <1>2, MovesIs, PartyFix DEF Frame
<1>4. Active(p)' => /\ hd'[e].wr => hd'[e].rd
                    /\ hd'[e].rd => type' = "FANIN" /\ e[2] = "root"
  BY <1>3 DEF CloseOk
<1>5. ASSUME proc'[p].pc = "stop", e \in Closes(p)' PROVE ~hd'[e].wr
  <2>1. Active(p) /\ e \in Closes(p)
    BY <1>2, <1>3, <1>5 DEF Active, Moves
  <2>2. ~(type = "FANIN" /\ e[2] = "root")
    <3> SUFFICES ASSUME type = "FANIN" /\ e[2] = "root" PROVE FALSE
      OBVIOUS
    <3>1. p = Root
      BY DEF Owner
    <3> QED BY <2>1, <3>1 DEF Closes
  <2> QED BY <2>1, <2>2 DEF CloseOk
<1>6. Healthy' => (hd'[e].rd => hd'[Peer(e)].wr)
  BY <1>2, <1>3 DEF CloseOk
<1> QED BY <1>4, <1>5, <1>6 DEF CloseOk

\* The counts of process p stay, but for what it has received at X and sent at Y.
CountsStay(p, X, Y) ==
  \A e \in End : Owner(e) = p =>
    /\ e \notin X /\ Live(e)' => Got(e)' = Got(e)
    /\ e \notin Y /\ Counted(Peer(e))' => Sent(e)' = Sent(e)

\* Who reads has an open handle.
LEMMA LiveOpen ==
  ASSUME TInv, NEW e \in End, Live(e)
  PROVE  hd[e].open
  BY DEF Live, TInv, HandleTy, Active

\* A stream nobody reads any more.
LEMMA NotLive ==
  ASSUME NEW e, ~Live(e)'
  PROVE  StreamOk(e)'
  BY DEF StreamOk

\* A connection the step leaves alone.
LEMMA ConnRest ==
  ASSUME TInv, NEW p \in Slot, Moves(p), NEW X, NEW Y, CountsStay(p, X, Y), NEW e \in End,
         Quiet(e), StreamOk(e), CloseOk(e), hd'[e].in = hd[e].in, SameFlags(hd'[e], hd[e]),
         hd'[Peer(e)].wr <=> hd[Peer(e)].wr, (e \notin X /\ Peer(e) \notin Y) \/ ~Live(e)'
  PROVE  Quiet(e)' /\ StreamOk(e)' /\ CloseOk(e)'
<1>1. Peer(e) \in End /\ Owner(e) \in Slot /\ Owner(Peer(e)) \in Slot /\ Peer(Peer(e)) = e
  BY PeerOf
<1>2. Quiet(e)'
  BY QuietStep
<1>3. CloseOk(e)'
  <2>1. CASE Owner(e) = p
    BY <2>1, CloseSame DEF SameFlags
  <2>2. CASE Owner(e) # p
    BY <2>2, CloseOther
  <2> QED BY <2>1, <2>2
<1>4. Frame /\ Others(p)
  BY DEF Moves
<1>5. CASE Live(e)'
  <2>1. Got(e)' = Got(e)
    <3>1. CASE Owner(e) = p
      BY <1>5, <3>1 DEF CountsStay
    <3>2. CASE Owner(e) # p
      BY <1>4, <3>2, CountsOther
    <3> QED BY <3>1, <3>2
  <2>2. Counted(e)' => Sent(Peer(e))' = Sent(Peer(e))
    <3>1. CASE Owner(Peer(e)) = p
      <4>1. Peer(e) \notin Y => (Counted(Peer(Peer(e)))' => Sent(Peer(e))' = Sent(Peer(e)))
        BY <1>1, <3>1 DEF CountsStay
      <4> QED BY <1>1, <1>5, <4>1
    <3>2. CASE Owner(Peer(e)) # p
      BY <1>1, <1>4, <3>2, CountsOther
    <3> QED BY <3>1, <3>2
  <2>3. Stays(e)
    BY <2>1, <2>2 DEF Stays
  <2> QED BY <1>2, <1>3, <2>3, StreamStep DEF Flows
<1>6. CASE ~Live(e)'
  BY <1>2, <1>3, <1>6, NotLive
<1> QED BY <1>5, <1>6

\* Nothing happens to the handles; the peer of e, which p may have sent to, has gone.
LEMMA ConnKeep ==
  ASSUME TInv, NEW p \in Slot, Moves(p), Conns, NEW Y, CountsStay(p, {}, Y),
         \A e \in End : hd'[e].in = hd[e].in /\ SameFlags(hd'[e], hd[e]),
         \A e \in Y : e \in End /\ ~hd[Peer(e)].open
  PROVE  Conns'
<1> SUFFICES ASSUME NEW e \in End PROVE Quiet(e)' /\ StreamOk(e)' /\ CloseOk(e)'
  BY DEF Conns
<1>1. Peer(e) \in End /\ Peer(Peer(e)) = e
  BY PeerOf
<1>2. Peer(e) \in Y => ~Live(e)'
  <2>1. Peer(e) \in Y => ~hd[e].open
    BY <1>1
  <2> QED BY <2>1, LiveOpen, MovesIs
<1>3. /\ Quiet(e) /\ StreamOk(e) /\ CloseOk(e) /\ hd'[e].in = hd[e].in /\ SameFlags(hd'[e], hd[e])
      /\ hd'[Peer(e)].wr <=> hd[Peer(e)].wr
  BY <1>1 DEF Conns, SameFlags
<1> DEFINE X == {}
<1>4. e \notin X /\ CountsStay(p, X, Y)
  OBVIOUS
<1> HIDE DEF X
<1> QED BY <1>2, <1>3, <1>4, ConnRest

\* Process p takes a message.
LEMMA ConnTake ==
  ASSUME TInv, NEW p \in Slot, Moves(p), Conns, NEW e \in End, Owner(e) = p,
         hd[e].in # <<>>, Head(hd[e].in).size # 0, TookAt(e, hd, hd'),
         Live(e)' => Got(e)' = Got(e) + 1, CountsStay(p, {e}, {})
  PROVE  Conns'
<1>1. /\ \A x \in End : x # e => hd'[x] = hd[x]
      /\ SameFlags(hd'[e], hd[e]) /\ hd'[e].in = Tail(hd[e].in)
  BY DEF TookAt, Only
<1>2. \A x \in End : SameFlags(hd'[x], hd[x])
  BY <1>1 DEF SameFlags
<1> SUFFICES ASSUME NEW x \in End PROVE Quiet(x)' /\ StreamOk(x)' /\ CloseOk(x)'
  BY DEF Conns
<1>3. Peer(x) \in End /\ (hd'[Peer(x)].wr <=> hd[Peer(x)].wr) /\ Owner(Peer(x)) # Owner(x)
  BY <1>2, PeerOf DEF SameFlags
<1>4. Quiet(x) /\ StreamOk(x) /\ CloseOk(x)
  BY DEF Conns
<1> DEFINE X == {e}
           Y == {}
<1>5. CountsStay(p, X, Y) /\ (x # e => x \notin X) /\ Peer(x) \notin Y
  OBVIOUS
<1> HIDE DEF X, Y
<1>6. CASE x # e
  BY <1>1, <1>2, <1>3, <1>4, <1>5, <1>6, ConnRest
<1>7. CASE x = e
  <2>1. Quiet(x)'
    BY <1>1, <1>3, <1>4, <1>7, QuietStep
  <2>2. CloseOk(x)'
    BY <1>1, <1>4, <1>7, CloseSame DEF SameFlags
  <2>3. Sent(Peer(x))' = Sent(Peer(x))
    BY <1>3, <1>7, CountsOther DEF Moves
  <2>4. Live(x)' => Shrinks(x)
    BY <1>1, <1>3, <1>7, <2>3 DEF Shrinks
  <2> QED BY <1>4, <2>1, <2>2, <2>4, StreamStep DEF Flows
<1> QED BY <1>6, <1>7

\* Process p sends a message.
LEMMA ConnPut ==
  ASSUME TInv, NEW p \in Slot, Moves(p), Conns, NEW e \in End, Owner(e) = p, Active(p),
         ~hd[e].wr, NEW m \in MsgRec, m.size # 0, PutAt(Peer(e), m, hd, hd'),
         m = Feed(Peer(e))[Sent(e) + 1], type \in Down \cup {"GATHER"} => Sent(e) + 1 <= Rounds,
         Counted(Peer(e))' => Sent(e)' = Sent(e) + 1, CountsStay(p, {}, {e})
  PROVE  Conns'
<1> DEFINE f == Peer(e)
<1>0. f \in End /\ Peer(f) = e /\ f # e /\ Owner(f) # p
  BY PeerOf
<1>1. /\ \A x \in End : x # f => hd'[x] = hd[x]
      /\ SameFlags(hd'[f], hd[f]) /\ hd'[f].in = Append(hd[f].in, m)
  BY DEF PutAt, Only
<1> HIDE DEF f
<1>2. \A x \in End : SameFlags(hd'[x], hd[x])
  BY <1>1 DEF SameFlags
<1> SUFFICES ASSUME NEW x \in End PROVE Quiet(x)' /\ StreamOk(x)' /\ CloseOk(x)'
  BY DEF Conns
<1>3. /\ Peer(x) \in End /\ Peer(Peer(x)) = x /\ (hd'[Peer(x)].wr <=> hd[Peer(x)].wr)
  BY <1>2, PeerOf DEF SameFlags
<1>4. Quiet(x) /\ StreamOk(x) /\ CloseOk(x)
  BY DEF Conns
<1> DEFINE X == {}
           Y == {e}
<1>5. CountsStay(p, X, Y) /\ x \notin X /\ (Peer(x) # e => Peer(x) \notin Y)
  OBVIOUS
<1> HIDE DEF X, Y
<1>6. CASE x # f
  <2>1. Peer(x) # e
    BY <1>0, <1>3, <1>6 DEF f
  <2> QED BY <1>1, <1>2, <1>3, <1>4, <1>5, <1>6, <2>1, ConnRest
<1>7. CASE x = f
  <2>1. Quiet(x)'
    BY <1>0, <1>1, <1>3, <1>4, <1>7, QuietStep
  <2>2. CloseOk(x)'
    BY <1>0, <1>4, <1>7, CloseOther
  <2>3. Got(x)' = Got(x)
    BY <1>0, <1>7, CountsOther DEF Moves
  <2>4. Counted(x)
    BY <1>0, <1>7 DEF Counted
  <2>5. Grows(x)
    BY <1>0, <1>1, <1>2, <1>7, <2>3, <2>4 DEF Grows, SameFlags, f
  <2> QED BY <1>4, <2>1, <2>2, <2>5, StreamStep DEF Flows
<1> QED BY <1>6, <1>7

\* The peer of an end that is closed for writing.
LEMMA ConnTold ==
  ASSUME TInv, NEW p \in Slot, Moves(p), NEW e \in End, Owner(e) = p, NEW f, f = Peer(e),
         Quiet(f), StreamOk(f), CloseOk(f), CountsStay(p, {}, {}), hd'[e].wr,
         SameFlags(hd'[f], hd[f]),
         ~hd[e].wr /\ hd[f].open => hd'[f].in = Append(hd[f].in, EOS),
         hd[e].wr \/ ~hd[f].open => hd'[f].in = hd[f].in
  PROVE  Quiet(f)' /\ StreamOk(f)' /\ CloseOk(f)'
<1>0. f \in End /\ Peer(f) = e /\ f # e /\ Owner(f) # p
  BY PeerOf
<1>1. CloseOk(f)'
  BY <1>0, CloseOther
<1>2. Quiet(f)'
  BY <1>0, QuietStep
<1>3. Got(f)' = Got(f)
  BY <1>0, CountsOther DEF Moves
<1>4. Counted(f)' => Sent(e)' = Sent(e)
  BY DEF CountsStay
<1>5. Live(f)' => hd[f].open
  BY <1>0, LiveOpen, MovesIs
<1>6. Live(f)' => Stays(f) \/ Finishes(f)
  BY <1>0, <1>3, <1>4, <1>5 DEF Stays, Finishes
<1> QED BY <1>0, <1>1, <1>2, <1>6, StreamStep DEF Flows

\* Process p closes the ends es, or takes an end of stream from them.
LEMMA ConnEnds ==
  ASSUME TInv, NEW p \in Slot, Moves(p), Conns, NEW es \in SUBSET End, CountsStay(p, {}, {}),
         \A x \in es : /\ Owner(x) = p /\ ~Live(x)' /\ CloseOk(x)'
                       /\ \/ hd'[x].in = hd[x].in
                          \/ hd[x].in # <<>> /\ hd'[x].in = Tail(hd[x].in),
         \A x \in es : \/ hd'[Peer(x)] = hd[Peer(x)] /\ (hd'[x].wr <=> hd[x].wr)
                       \/ hd'[x].wr /\ Told(x, hd, hd'),
         \A x \in End : x \notin es /\ Peer(x) \notin es => hd'[x] = hd[x]
  PROVE  Conns'
<1> SUFFICES ASSUME NEW x \in End PROVE Quiet(x)' /\ StreamOk(x)' /\ CloseOk(x)'
  BY DEF Conns
<1> DEFINE f == Peer(x)
<1>0. f \in End /\ Peer(f) = x /\ f # x /\ Owner(f) # Owner(x)
  BY PeerOf
<1>1. Quiet(x) /\ StreamOk(x) /\ CloseOk(x)
  BY DEF Conns
<1>2. hd[f].wr => hd'[f].wr
  BY <1>0 DEF Moves, HdC, Goes
<1> DEFINE Z == {}
<1>3. CountsStay(p, Z, Z) /\ x \notin Z /\ f \notin Z
  OBVIOUS
<1> HIDE DEF Z
<1>4. CASE x \in es
  <2>1. Quiet(x)'
    BY <1>1, <1>2, <1>4, QuietStep
  <2> QED BY <1>4, <2>1, NotLive
<1>5. CASE f \in es
  <2>1. Owner(f) = p
    BY <1>5
  <2>2. CASE hd'[x] = hd[x] /\ (hd'[f].wr <=> hd[f].wr)
    <3>1. SameFlags(hd'[x], hd[x]) /\ hd'[x].in = hd[x].in
      BY <2>2 DEF SameFlags
    <3> QED BY <1>1, <1>3, <2>2, <3>1, ConnRest
  <2>3. CASE hd'[f].wr /\ Told(f, hd, hd')
    <3>1. /\ SameFlags(hd'[x], hd[x])
          /\ ~hd[f].wr /\ hd[x].open => hd'[x].in = Append(hd[x].in, EOS)
          /\ hd[f].wr \/ ~hd[x].open => hd'[x].in = hd[x].in
      BY <1>0, <2>3 DEF Told
    <3> HIDE DEF f
    <3>2. f \in End /\ x = Peer(f)
      BY <1>0
    <3> QED BY <1>1, <2>1, <2>3, <3>1, <3>2, ConnTold
  <2>4. \/ hd'[Peer(f)] = hd[Peer(f)] /\ (hd'[f].wr <=> hd[f].wr)
        \/ hd'[f].wr /\ Told(f, hd, hd')
    BY <1>5
  <2> QED BY <1>0, <2>2, <2>3, <2>4
<1>6. CASE x \notin es /\ f \notin es
  <2>1. hd'[x] = hd[x]
    BY <1>6
  <2>2. hd'[f] = hd[f]
    BY <1>0, <1>6
  <2>3. SameFlags(hd'[x], hd[x]) /\ hd'[x].in = hd[x].in /\ (hd'[f].wr <=> hd[f].wr)
    BY <2>1, <2>2 DEF SameFlags
  <2> QED BY <1>1, <1>3, <2>3, ConnRest
<1> QED BY <1>4, <1>5, <1>6

\* ... one of them.
LEMMA ConnEnd ==
  ASSUME TInv, NEW p \in Slot, Moves(p), Conns, NEW e \in End, CountsStay(p, {}, {}),
         Owner(e) = p, ~Live(e)', CloseOk(e)',
         \/ hd[e].in # <<>> /\ (EosAt(e, hd, hd') \/ EosBothAt(e, hd, hd'))
         \/ BothAt(e, hd, hd') \/ WrAt(e, hd, hd')
  PROVE  Conns'
<1> DEFINE es == {e}
<1>0. Peer(e) \in End /\ Peer(e) # e
  BY PeerOf
<1>1. /\ \/ hd'[e].in = hd[e].in
         \/ hd[e].in # <<>> /\ hd'[e].in = Tail(hd[e].in)
      /\ \/ hd'[Peer(e)] = hd[Peer(e)] /\ (hd'[e].wr <=> hd[e].wr)
         \/ hd'[e].wr /\ Told(e, hd, hd')
      /\ \A x \in End : x # e /\ x # Peer(e) => hd'[x] = hd[x]
  BY <1>0 DEF EosAt, EosBothAt, BothAt, WrAt, Only
<1>2. es \in SUBSET End /\ \A x \in es : x = e
  OBVIOUS
<1>3. \A x \in End : x \notin es /\ Peer(x) \notin es => hd'[x] = hd[x]
  <2> SUFFICES ASSUME NEW x \in End, x \notin es, Peer(x) \notin es PROVE hd'[x] = hd[x]
    OBVIOUS
  <2>1. x # e /\ Peer(x) # e /\ Peer(Peer(e)) = e
    BY PeerOf
  <2> QED BY <1>1, <2>1
<1> HIDE DEF es
<1> QED BY <1>1, <1>2, <1>3, ConnEnds

\* An end that is closed.
LEMMA CloseEnd ==
  ASSUME TInv, NEW p \in Slot, Moves(p), NEW e \in End, Owner(e) = p, CloseOk(e), Quiet(e),
         \/ hd'[e].rd <=> hd[e].rd
         \/ hd[e].in # <<>> /\ Head(hd[e].in).size = 0
         \/ ~Healthy,
         Active(p)' => type = "FANIN" /\ e[2] = "root" /\ hd'[e].rd,
         proc'[p].pc = "stop" /\ Healthy /\ e \in Closes(p) => ~hd'[e].wr
  PROVE  CloseOk(e)'
<1>1. Peer(e) \in End
  BY PeerOf
<1>2. /\ Frame /\ (hd[Peer(e)].wr => hd'[Peer(e)].wr)
  BY <1>1 DEF Moves, HdC, Goes
<1>3. /\ Healthy' <=> Healthy
      /\ Closes(p)' = Closes(p) /\ type' = type
  BY <1>2, MovesIs, PartyFix DEF Frame
<1>4. Healthy' => (hd'[e].rd => hd'[Peer(e)].wr)
  <2>1. CASE hd'[e].rd <=> hd[e].rd
    BY <1>2, <1>3, <2>1 DEF CloseOk
  <2>2. CASE hd[e].in # <<>> /\ Head(hd[e].in).size = 0
    <3>1. hd[e].in \in Seq(MsgRec)
      BY HdFields DEF TInv
    <3>2. 1 \in DOMAIN hd[e].in /\ hd[e].in[1] = Head(hd[e].in)
      BY <2>2, <3>1
    <3>3. hd[Peer(e)].wr
      BY <2>2, <3>2 DEF Quiet
    <3> QED BY <1>2, <3>3
  <2> QED BY <1>3, <2>1, <2>2
<1>5. Active(p)' => /\ hd'[e].wr => hd'[e].rd
                    /\ hd'[e].rd => type' = "FANIN" /\ e[2] = "root"
  BY <1>3
<1>6. Healthy' => (proc'[p].pc = "stop" /\ e \in Closes(p)' => ~hd'[e].wr)
  BY <1>3
<1> QED BY <1>4, <1>5, <1>6 DEF CloseOk

-----------------------------------------------------------------------------
(* Safety: processes *)

\* What is said of the other processes stays.
LEMMA ProcOther ==
  ASSUME TInv, NEW p \in Slot, Moves(p), NEW q \in Slot, q # p, ProcOk(q)
  PROVE  ProcOk(q)'
<1>1. Frame /\ proc'[q] = proc[q] /\ (Healthy' <=> Healthy)
  BY MovesIs DEF Moves, Others
<1>2. /\ type' = type /\ (Sender(q)' <=> Sender(q))
  BY <1>1, PartyFix DEF Frame
<1>3. Expected(q, proc[q].round)' = Expected(q, proc[q].round)
  BY <1>1, RanksFix DEF Expected, Frame
<1>4. /\ proc'[q].res = "ok" /\ proc'[q].pc = "ready" =>
           proc'[q].out = Expected(q, proc[q].round)'
      /\ proc'[q].res = "ok" => type' \notin {"FANIN", "FANOUT"}
      /\ proc'[q].pc = "ready" \/ Sender(q)' => proc'[q].round <= Rounds
      /\ type' = "GATHER" /\ q # Root => proc'[q].out = <<>>
  BY <1>1, <1>2, <1>3 DEF ProcOk
<1>5. Healthy' => /\ proc'[q].res # "error"
                  /\ Sender(q)' => proc'[q].pc # "stop" /\ proc'[q].res # "zero"
                  /\ Sender(q)' /\ proc'[q].pc \in {"final", "end"} => proc'[q].round = Rounds
  BY <1>1, <1>2 DEF ProcOk
<1> QED BY <1>4, <1>5 DEF ProcOk

\* The buffer of the root, when another process moves or the root is in no call.
LEMMA BufRest ==
  ASSUME TInv, NEW p \in Slot, Moves(p), BufOk,
         p # Root \/ proc'[Root].pc \notin {"collect", "reply", "block", "spread"}
  PROVE  BufOk'
<1>1. CASE proc'[Root].pc \notin {"collect", "reply", "block", "spread"}
  BY <1>1 DEF BufOk
<1>2. CASE p # Root
  <2>1. Frame /\ type' = type /\ proc'[Root] = proc[Root]
    BY <1>2, Slots DEF Moves, Others, Frame
  <2>0. \A k : RankOf(k)' = RankOf(k)
    BY <2>1, RanksFix
  <2>2. \A k : UpLen(k)' = UpLen(k)
    BY <2>1, RanksFix DEF Frame, UpLen
  <2>3. RankOf(proc[Root].idx)' = RankOf(proc[Root].idx)
    BY <2>1 DEF RankOf, Frame
  <2>4. type' \in Sym \cup {"GATHER"} /\ proc'[Root].pc \in {"collect", "spread"} =>
          \A j \in DOMAIN proc'[Root].buf :
             proc'[Root].buf[j] = Piece(j - 1, proc'[Root].round, 0, UpLen(j - 1)')
    BY <2>1, <2>2 DEF BufOk
  <2>5. type' = "UCC_OOB" /\ proc'[Root].pc \in {"collect", "reply", "block", "spread"} =>
          \A k \in Slot : k < proc'[Root].idx \/ proc'[Root].pc = "spread" =>
            proc'[Root].buf[RankOf(k)'] = Piece(k, proc'[Root].round, 0, 1)
    BY <2>0, <2>1 DEF BufOk
  <2>6. type' = "UCC_OOB" /\ proc'[Root].pc = "block" =>
          proc'[Root].rank = RankOf(proc[Root].idx)'
    BY <2>1, <2>3 DEF BufOk
  <2> QED BY <2>4, <2>5, <2>6 DEF BufOk
<1> QED BY <1>1, <1>2

\* The participants of a fan-in are the concern of its root.
LEMMA PartsRest ==
  ASSUME TInv, NEW p \in Slot, Moves(p), PartsOk, p # Root \/ type # "FANIN"
  PROVE  PartsOk'
<1>1. CASE type # "FANIN"
  BY <1>1 DEF PartsOk, Moves, Frame
<1>2. CASE p # Root
  <2>1. /\ type' = type /\ proc'[Root] = proc[Root] /\ (Active(Root)' => Active(Root))
        /\ \A e \in End : Owner(e) # p => SameFlags(hd'[e], hd[e])
    BY <1>2, Slots, MovesIs DEF Moves, Others, Frame, HdC
  <2>2. \A k \in Leaf : hd'[<<k, "root">>].rd <=> hd[<<k, "root">>].rd
    <3> SUFFICES ASSUME NEW k \in Leaf PROVE hd'[<<k, "root">>].rd <=> hd[<<k, "root">>].rd
      BY Zenon
    <3>1. REnd(k) \in End /\ Owner(REnd(k)) = Root
      BY EndsAt
    <3>2. hd'[REnd(k)].rd <=> hd[REnd(k)].rd
      BY <1>2, <2>1, <3>1 DEF SameFlags
    <3> QED BY <3>2 DEF REnd
  <2> QED BY <2>1, <2>2 DEF PartsOk
<1> QED BY <1>1, <1>2

\* A step of a process keeps the invariant when it keeps what concerns it.
LEMMA SafeMove ==
  ASSUME TInv, SBody, NEW p \in Slot, Moves(p), Conns', ProcOk(p)', BufOk', PartsOk', FanOk', EndOk',
         touched' /\ Healthy => type = "FANOUT"
  PROVE  SBody'
<1>1. ASSUME NEW q \in Slot PROVE ProcOk(q)'
  <2>1. CASE q = p
    BY <2>1
  <2>2. CASE q # p
    <3>1. ProcOk(q)
      BY DEF SBody
    <3> QED BY <2>2, <3>1, ProcOther
  <2> QED BY <2>1, <2>2
<1>2. type' = type /\ (Healthy' <=> Healthy)
  BY MovesIs DEF Moves, Frame
<1> QED BY <1>1, <1>2 DEF SBody

\* A process that reports an end knows of it.
Knows(p) ==
  /\ type \in Down => hd'[LEnd(p)].rd
  /\ type = "GATHER" => \E k \in Leaf : hd'[REnd(k)].rd

\* The ends that were reported stay.
LEMMA EndRest ==
  ASSUME TInv, SBody, NEW p \in Slot, Moves(p),
         proc'[p].res = "zero" /\ Healthy => proc[p].res = "zero" \/ Knows(p)
  PROVE  EndOk'
<1>0. /\ type' = type /\ (Healthy' <=> Healthy) /\ \A q \in Slot : q # p => proc'[q] = proc[q]
  BY MovesIs DEF Moves, Frame, Others
<1> SUFFICES ASSUME Healthy, NEW q \in Slot, proc'[q].res = "zero"
             PROVE  /\ type \in Down => hd'[<<q, "leaf">>].rd
                    /\ type = "GATHER" => \E k \in Leaf : hd'[<<k, "root">>].rd
  BY <1>0 DEF EndOk
<1>1. \A e \in End : hd[e].rd => hd'[e].rd
  BY DEF Moves, HdC, Goes
<1>2. CASE proc[q].res = "zero"
  <2>1. /\ type \in Down => hd[<<q, "leaf">>].rd
        /\ type = "GATHER" => \E k \in Leaf : hd[<<k, "root">>].rd
    BY <1>2 DEF SBody, EndOk
  <2>2. \A k \in Leaf : <<k, "root">> \in End /\ <<k, "leaf">> \in End
    BY DEF End
  <2>3. type \in Down => q \in Leaf
    <3> SUFFICES ASSUME type \in Down, q = Root PROVE FALSE
      BY Slots
    <3>1. ProcOk(Root)
      BY Slots DEF SBody
    <3>2. Sender(Root)
      BY DEF Sender, Down
    <3> QED BY <1>2, <3>1, <3>2 DEF ProcOk
  <2> QED BY <1>1, <2>1, <2>2, <2>3
<1>3. CASE proc[q].res # "zero"
  <2>1. q = p
    BY <1>0, <1>3
  <2> QED BY <1>3, <2>1 DEF Knows, REnd, LEnd
<1> QED BY <1>2, <1>3

\* A step of a process of a collective other than a fan-in or fan-out.
LEMMA SafeCall ==
  ASSUME TInv, SBody, NEW p \in Slot, Moves(p), type \notin {"FANIN", "FANOUT"}, Conns', ProcOk(p)',
         p = Root => BufOk', proc'[p].res = "zero" /\ Healthy => proc[p].res = "zero" \/ Knows(p),
         touched' /\ Healthy => touched
  PROVE  SBody'
<1>1. BufOk /\ PartsOk /\ (touched /\ Healthy => type = "FANOUT")
  BY DEF SBody
<1>2. BufOk'
  BY <1>1, BufRest
<1>3. PartsOk'
  BY <1>1, PartsRest
<1>4. FanOk'
  BY DEF FanOk, FanSide, Moves, Frame
<1>5. EndOk'
  BY EndRest
<1> QED BY <1>1, <1>2, <1>3, <1>4, <1>5, SafeMove

\* A process that is in a call, and its handles.
LEMMA InCallIs ==
  ASSUME TInv, SBody, NEW p \in Slot, Active(p), NEW e \in End, Owner(e) = p,
         type # "FANIN" \/ p # Root
  PROVE  /\ ~hd[e].wr /\ ~hd[e].rd /\ ~hd[e].freed /\ hd[e].open /\ Live(e)
         /\ Healthy => hd[Peer(e)].open
<1>1. CloseOk(e) /\ CloseOk(Peer(e)) /\ Peer(e) \in End /\ Peer(Peer(e)) = e /\ Owner(Peer(e)) \in Slot
  BY PeerOf DEF SBody, Conns
<1>2. ~(type = "FANIN" /\ e[2] = "root")
  BY DEF Owner
<1>3. ~hd[e].wr /\ ~hd[e].rd
  BY <1>1, <1>2 DEF CloseOk
<1>4. ~hd[e].freed /\ hd[e].open
  BY <1>3 DEF TInv, HandleTy, Active
<1>5. Healthy => hd[Peer(e)].open
  <2> SUFFICES ASSUME Healthy, ~hd[Peer(e)].open PROVE FALSE
    BY HdFields, <1>1 DEF TInv
  <2>1. hd[Peer(e)].rd
    BY <1>1 DEF TInv, HandleTy, Healthy
  <2> QED BY <1>1, <1>3, <2>1 DEF CloseOk
<1> QED BY <1>3, <1>4, <1>5 DEF Live

-----------------------------------------------------------------------------
(* Safety: what the messages carry *)

\* Pieces and messages.
LEMMA PieceIs ==
  ASSUME NEW s, NEW r, NEW o, NEW l
  PROVE  /\ Piece(s, r, o, l).src = s /\ Piece(s, r, o, l).round = r
         /\ Piece(s, r, o, l).off = o /\ Piece(s, r, o, l).len = l
         /\ l \in Nat => Size(<<Piece(s, r, o, l)>>) = l
<1> DEFINE x == Piece(s, r, o, l)
<1>1. x.src = s /\ x.round = r /\ x.off = o /\ x.len = l
  BY DEF Piece
<1> HIDE DEF x
<1>2. l \in Nat => Size(<<x>>) = l
  BY <1>1, SizeOne
<1> QED BY <1>1, <1>2 DEF x

\* A message of the feed of an end.
LEMMA FeedIs ==
  ASSUME NEW e, NEW i \in Int
  PROVE  /\ Feed(e)[i] = Msg(Data(e, i)) /\ Feed(e)[i].size = Size(Data(e, i))
         /\ Feed(e)[i].data = Data(e, i)
<1>1. Feed(e)[i] = Msg(Data(e, i))
  BY DEF Feed
<1> QED BY <1>1 DEF Msg

\* What it carries, at the two ends of a connection.
LEMMA DataIs ==
  ASSUME NEW k \in Leaf, NEW i
  PROVE  Data(REnd(k), i) = ToRoot(k, i) /\ Data(LEnd(k), i) = ToLeaf(k, i)
  BY EndsAt DEF Data

\* Ranks, when the root is the first: those of the slots.
LEMMA RankFirst ==
  ASSUME pos = 0
  PROVE  (\A s \in Slot : RankOf(s) = s) /\ \A k \in Slot : SlotOfRank(k) = k
<1>1. \A s \in Slot : RankOf(s) = s
  BY Slots DEF RankOf, Root
<1>2. ASSUME NEW k \in Slot PROVE SlotOfRank(k) = k
  <2>1. \E s \in Slot : RankOf(s) = k
    BY <1>1
  <2>2. SlotOfRank(k) \in Slot /\ RankOf(SlotOfRank(k)) = k
    BY <2>1 DEF SlotOfRank
  <2> QED BY <1>1, <2>2
<1> QED BY <1>1, <1>2

\* Ranks are different.
LEMMA RankOne ==
  ASSUME TInv, NEW s \in Slot, NEW t \in Slot, RankOf(s) = RankOf(t)
  PROVE  s = t
<1>1. pos \in Slot /\ pos \in Int /\ s \in Int /\ t \in Int /\ s >= 0 /\ t >= 0
  BY RankIn, Slots DEF Slot
<1> QED BY <1>1 DEF RankOf, Root

\* Every rank is the rank of a slot.
LEMMA RankAll ==
  ASSUME TInv, NEW k \in Slot
  PROVE  SlotOfRank(k) \in Slot /\ RankOf(SlotOfRank(k)) = k
<1>1. /\ pos \in Slot /\ N \in Int /\ pos >= 0 /\ pos <= N - 1 /\ pos \in Int
      /\ k \in Int /\ k >= 0 /\ k <= N - 1
  BY RankIn, Slots DEF Slot
<1>2. \E s \in Slot : RankOf(s) = k
  <2>1. CASE k = pos
    <3>1. RankOf(Root) = k
      BY <2>1 DEF RankOf
    <3> QED BY <3>1, Slots
  <2>2. CASE k < pos
    <3>1. k + 1 \in Slot
      BY <1>1, <2>2 DEF Slot
    <3>2. RankOf(k + 1) = k
      BY <1>1, <2>2 DEF RankOf, Root
    <3> QED BY <3>1, <3>2
  <2>3. CASE k > pos
    <3>1. RankOf(k) = k
      BY <1>1, <2>3 DEF RankOf, Root
    <3> QED BY <3>1
  <2> QED BY <1>1, <2>1, <2>2, <2>3
<1> QED BY <1>2 DEF SlotOfRank

\* What a member sends has the size that is announced, which is not zero.
LEMMA UpIs ==
  ASSUME TInv, EveryPart, NEW k \in Slot
  PROVE  /\ UpLen(k) \in Nat /\ UpLen(k) >= 1
         /\ \A i \in Int : Size(ToRoot(k, i)) = UpLen(k)
         /\ type # "UCC_OOB" => \A i \in Int : ToRoot(k, i) = <<Piece(k, i, 0, UpLen(k))>>
<1>1. /\ datacount \in Nat /\ datacount >= 1 /\ N \in Nat /\ N >= 2
      /\ type \in {"GATHER", "ALLGATHER"} => datacount >= N
  BY TeamAssumption, Slots DEF EveryPart, TInv, Cutting
<1>2. Share(k) \in Nat /\ (type \in {"GATHER", "ALLGATHER"} => Share(k) >= 1)
  BY <1>1, ShareIs
<1>3. UpLen(k) \in Nat /\ UpLen(k) >= 1
  BY <1>1, <1>2 DEF UpLen
<1>4. type # "UCC_OOB" => \A i \in Int : ToRoot(k, i) = <<Piece(k, i, 0, UpLen(k))>>
  BY DEF ToRoot
<1>5. ASSUME NEW i \in Int PROVE Size(ToRoot(k, i)) = UpLen(k)
  <2>1. CASE type # "UCC_OOB"
    <3> DEFINE l == UpLen(k)
    <3>1. l \in Nat /\ ToRoot(k, i) = <<Piece(k, i, 0, l)>>
      BY <1>3, <1>4, <2>1
    <3> HIDE DEF l
    <3>2. Size(<<Piece(k, i, 0, l)>>) = l
      BY <3>1, PieceIs
    <3> QED BY <3>1, <3>2 DEF l
  <2>2. CASE type = "UCC_OOB"
    <3> DEFINE r == (i + 1) \div 2
               o == IF i % 2 = 1 THEN RankOf(k) ELSE 0
               l == 1
    <3>1. l \in Nat /\ ToRoot(k, i) = <<Piece(k, r, o, l)>>
      BY <2>2 DEF ToRoot
    <3>2. UpLen(k) = l
      BY <2>2 DEF UpLen
    <3> HIDE DEF l, o, r
    <3>3. Size(<<Piece(k, r, o, l)>>) = l
      BY <3>1, PieceIs
    <3> QED BY <3>1, <3>2, <3>3
  <2> QED BY <2>1, <2>2
<1> QED BY <1>3, <1>4, <1>5

\* The buffer a member receives into.
LeafCap(p) ==
  CASE type \in {"BROADCAST", "ALLGATHER"} -> datacount
    [] type = "SCATTER" -> Share(RankOf(p))
    [] type = "ALLTOALL" -> N * Share(RankOf(p))
    [] OTHER -> N

\* What a member is to receive fits, and is not empty.
LEMMA DownIs ==
  ASSUME TInv, EveryPart, NEW k \in Slot, NEW r
  PROVE  /\ type \in Down \cup Sym \cup {"UCC_OOB"} =>
              Size(Expected(k, r)) = LeafCap(k)
         /\ LeafCap(k) \in Nat /\ LeafCap(k) >= 1
<1>1. /\ datacount \in Nat /\ datacount >= 1 /\ N \in Nat /\ N >= 2 /\ RankOf(k) \in Nat
      /\ type \in {"SCATTER", "ALLTOALL"} => datacount >= N
  BY TeamAssumption, RankIn, Slots DEF EveryPart, TInv, Cutting
<1>2. Share(RankOf(k)) \in Nat /\ (type \in {"SCATTER", "ALLTOALL"} => Share(RankOf(k)) >= 1)
  BY <1>1, ShareIs
<1>3. LeafCap(k) \in Nat /\ LeafCap(k) >= 1
  <2> DEFINE s == Share(RankOf(k))
  <2>1. s \in Nat /\ (type \in {"SCATTER", "ALLTOALL"} => s >= 1)
    BY <1>2
  <2> HIDE DEF s
  <2>2. N * s \in Nat /\ (s >= 1 => N * s >= 1)
    BY <1>1, <2>1
  <2> QED BY <1>1, <2>1, <2>2 DEF LeafCap, s
<1>4. CASE type = "BROADCAST"
  <2>1. Expected(k, r) = <<Piece(Root, r, 0, datacount)>> /\ LeafCap(k) = datacount
    BY <1>4 DEF Expected, LeafCap
  <2> QED BY <1>1, <2>1, <1>3, PieceIs
<1>5. CASE type = "SCATTER"
  <2> DEFINE o == PlaceOf(RankOf(k))
             s == Share(RankOf(k))
  <2>1. Expected(k, r) = <<Piece(Root, r, o, s)>> /\ LeafCap(k) = s /\ s \in Nat
    BY <1>2, <1>5 DEF Expected, LeafCap
  <2> HIDE DEF o, s
  <2> QED BY <2>1, <1>3, PieceIs
<1>6. CASE type = "ALLGATHER"
  <2> DEFINE data == [j \in 1 .. N |-> Piece(SlotOfRank(j - 1), r, 0, Share(j - 1))]
             a == datacount \div N
             b == datacount % N
  <2>1. Expected(k, r) = data /\ LeafCap(k) = datacount
    BY <1>6 DEF Expected, LeafCap
  <2>2. a \in Nat /\ b \in 0 .. N - 1 /\ datacount = a * N + b
    BY <1>1, Division
  <2>3. \A j \in 1 .. N : data[j].len = Share(j - 1)
    BY DEF Piece
  <2>4. \A x : Share(x) = IF x < b THEN a + 1 ELSE a
    BY <1>1, ShareIs
  <2>5. DOMAIN data = 1 .. N
    OBVIOUS
  <2> HIDE DEF data, a, b
  <2>6. \A j \in 1 .. N : data[j].len = IF j <= b THEN a + 1 ELSE a
    <3> SUFFICES ASSUME NEW j \in 1 .. N PROVE data[j].len = IF j <= b THEN a + 1 ELSE a
      OBVIOUS
    <3>1. (j - 1 < b) <=> (j <= b)
      BY <1>1, <2>2
    <3> QED BY <2>3, <2>4, <3>1
  <2>7. b \in 0 .. N
    BY <1>1, <2>2
  <2>8. Size(data) = a * N + b
    BY <1>1, <2>2, <2>5, <2>6, <2>7, SizeIs
  <2> QED BY <1>3, <2>1, <2>2, <2>8
<1>7. ASSUME NEW data, NEW a \in Nat, DOMAIN data = 1 .. N, \A j \in 1 .. N : data[j].len = a
      PROVE  Size(data) = N * a
  <2> DEFINE b == 0
  <2>1. b \in 0 .. N /\ \A j \in 1 .. N : data[j].len = IF j <= b THEN a + 1 ELSE a
    BY <1>1, <1>7
  <2>2. b = 0
    OBVIOUS
  <2> HIDE DEF b
  <2>3. Size(data) = a * N + b
    BY <1>1, <1>7, <2>1, SizeIs
  <2> QED BY <1>1, <1>7, <2>2, <2>3
<1>8. CASE type = "ALLTOALL"
  <2> DEFINE s == Share(RankOf(k))
             o == PlaceOf(RankOf(k))
             data == [j \in 1 .. N |-> Piece(SlotOfRank(j - 1), r, o, s)]
  <2>1. Expected(k, r) = data /\ LeafCap(k) = N * s /\ s \in Nat
    BY <1>2, <1>8 DEF Expected, LeafCap
  <2> HIDE DEF s, o
  <2>2. DOMAIN data = 1 .. N /\ \A j \in 1 .. N : data[j].len = s
    BY DEF Piece
  <2> HIDE DEF data
  <2> QED BY <1>3, <1>7, <2>1, <2>2
<1>9. CASE type \in {"MPI_CREATE", "UCC_OOB"}
  <2> DEFINE data == Expected(k, r)
             one == 1
  <2>1. DOMAIN data = 1 .. N /\ \A j \in 1 .. N : data[j].len = one
    <3>1. CASE type = "MPI_CREATE"
      BY <3>1 DEF Expected, Piece
    <3>2. CASE type = "UCC_OOB"
      BY <3>2 DEF Expected, Piece
    <3> QED BY <1>9, <3>1, <3>2
  <2>2. LeafCap(k) = N /\ one \in Nat /\ one = 1
    BY <1>9 DEF LeafCap
  <2> HIDE DEF one
  <2>3. Size(data) = N * one
    <3> HIDE DEF data
    <3> QED BY <1>7, <2>1, <2>2
  <2> QED BY <1>1, <1>3, <2>2, <2>3
<1> QED BY <1>3, <1>4, <1>5, <1>6, <1>8, <1>9 DEF Down, Sym

\* Who is sound is healthy, when all the processes depend on each other.
LEMMA SymHealthy ==
  ASSUME TInv, Sound, type \in Sym \cup {"UCC_OOB"}
  PROVE  Healthy
<1>1. CASE type \in {"ALLGATHER", "ALLTOALL"}
  BY <1>1 DEF Sound
<1>2. CASE type \in Creations
  BY <1>2 DEF TInv, ProcTy, PcTy, Healthy
<1> QED BY <1>1, <1>2 DEF Sym, Creations

\* What the root has collected is what a call is to deliver.
LEMMA Collected ==
  ASSUME TInv, InRankOrder, type \in Sym \cup {"GATHER"}, NEW s \in Seq(PieceRec), Len(s) = N, NEW r,
         \A j \in DOMAIN s : s[j] = Piece(j - 1, r, 0, UpLen(j - 1))
  PROVE  /\ type = "GATHER" => s = Expected(Root, r)
         /\ type \in {"ALLGATHER", "MPI_CREATE"} => \A k \in Slot : s = Expected(k, r)
<1>1. DOMAIN s = 1 .. N /\ N \in Nat /\ \A j \in 1 .. N : j - 1 \in Slot
  BY Slots DEF Slot
<1>2. CASE type \in {"GATHER", "ALLGATHER"}
  <2>1. pos = 0
    BY <1>2 DEF InRankOrder, Cutting
  <2>2. \A k \in Slot : SlotOfRank(k) = k
    BY <2>1, RankFirst
  <2>3. \A j \in 1 .. N : s[j] = Piece(SlotOfRank(j - 1), r, 0, Share(j - 1))
    <3> SUFFICES ASSUME NEW j \in 1 .. N PROVE s[j] = Piece(SlotOfRank(j - 1), r, 0, Share(j - 1))
      OBVIOUS
    <3>1. UpLen(j - 1) = Share(j - 1)
      BY <1>2 DEF UpLen
    <3>2. SlotOfRank(j - 1) = j - 1
      BY <1>1, <2>2
    <3>3. s[j] = Piece(j - 1, r, 0, UpLen(j - 1))
      BY <1>1
    <3> QED BY <3>1, <3>2, <3>3
  <2>4. s = [j \in 1 .. N |-> Piece(SlotOfRank(j - 1), r, 0, Share(j - 1))]
    BY <1>1, <2>3
  <2> QED BY <1>2, <2>4 DEF Expected
<1>3. CASE type = "MPI_CREATE"
  <2>1. \A j \in 1 .. N : s[j] = Piece(j - 1, r, 0, 1)
    <3> SUFFICES ASSUME NEW j \in 1 .. N PROVE s[j] = Piece(j - 1, r, 0, 1)
      OBVIOUS
    <3>1. UpLen(j - 1) = 1
      BY <1>3 DEF UpLen
    <3>3. s[j] = Piece(j - 1, r, 0, UpLen(j - 1))
      BY <1>1
    <3> QED BY <3>1, <3>3
  <2>2. s = [j \in 1 .. N |-> Piece(j - 1, r, 0, 1)]
    BY <1>1, <2>1
  <2> QED BY <1>3, <2>2 DEF Expected
<1>4. CASE type = "ALLTOALL"
  BY <1>4
<1> QED BY <1>2, <1>3, <1>4 DEF Sym

\* What the root sends in its loop is what the members are to receive.
LEMMA SpreadSends ==
  ASSUME TInv, BufOk, InRankOrder, proc[Root].pc = "spread", NEW r, r = proc[Root].round
  PROVE  /\ type = "BROADCAST" => \A k \in Slot : Mine(Root, 0, datacount) = Expected(k, r)
         /\ type = "SCATTER" => \A k \in Slot : Mine(Root, Offset(k), Share(k)) = Expected(k, r)
         /\ type \in {"ALLGATHER", "MPI_CREATE"} => \A k \in Slot : proc[Root].buf = Expected(k, r)
         /\ type = "ALLTOALL" => \A k \in Slot : Transposed(k) = Expected(k, r)
         /\ type = "UCC_OOB" =>
              \A k \in Slot : [i \in 1 .. N |-> proc[Root].buf[i - 1]] = Expected(k, r)
<1>0. Round(Root) = r /\ N \in Nat /\ datacount \in Nat /\ \A j \in 1 .. N : j - 1 \in Slot
  BY Slots, RankIn DEF Round, Slot
<1>1. ASSUME type = "BROADCAST", NEW k \in Slot PROVE Mine(Root, 0, datacount) = Expected(k, r)
  BY <1>0, <1>1 DEF Mine, Expected
<1>2. ASSUME type = "SCATTER", NEW k \in Slot
      PROVE  Mine(Root, Offset(k), Share(k)) = Expected(k, r)
  <2>1. pos = 0
    BY <1>2 DEF InRankOrder, Cutting
  <2>2. RankOf(k) = k
    BY <2>1, RankFirst
  <2>3. Offset(k) = PlaceOf(k)
    BY <1>0, OffsetIs
  <2>4. Expected(k, r) = <<Piece(Root, r, PlaceOf(RankOf(k)), Share(RankOf(k)))>>
    BY <1>2 DEF Expected
  <2>5. Mine(Root, Offset(k), Share(k)) = <<Piece(Root, r, Offset(k), Share(k))>>
    BY <1>0 DEF Mine
  <2> QED BY <2>2, <2>3, <2>4, <2>5
<1> DEFINE s == proc[Root].buf
<1>3. ASSUME type \in Sym
      PROVE  /\ s \in Seq(PieceRec) /\ Len(s) = N
             /\ \A j \in DOMAIN s : s[j] = Piece(j - 1, r, 0, UpLen(j - 1))
  BY <1>3 DEF TInv, BufTy, BufOk
<1>4. ASSUME type \in {"ALLGATHER", "MPI_CREATE"}, NEW k \in Slot PROVE s = Expected(k, r)
  <2>1. type \in Sym
    BY <1>4 DEF Sym
  <2> HIDE DEF s
  <2> QED BY <1>3, <1>4, <2>1, Collected
<1>5. ASSUME type = "ALLTOALL", NEW k \in Slot PROVE Transposed(k) = Expected(k, r)
  <2>1. pos = 0
    BY <1>5 DEF InRankOrder, Cutting
  <2>2. RankOf(k) = k /\ \A j \in Slot : SlotOfRank(j) = j
    BY <2>1, RankFirst
  <2>3. Offset(k) = PlaceOf(k)
    BY <1>0, OffsetIs
  <2>4. type \in Sym
    BY <1>5 DEF Sym
  <2>5. \A j \in 1 .. N : s[j] = Piece(j - 1, r, 0, UpLen(j - 1))
    BY <1>0, <1>3, <2>4
  <2>6. Transposed(k) = [j \in 1 .. N |-> [s[j] EXCEPT !.off = Offset(k), !.len = Share(k)]]
    BY DEF Transposed
  <2> HIDE DEF s
  <2>7. ASSUME NEW j \in 1 .. N
        PROVE  [s[j] EXCEPT !.off = Offset(k), !.len = Share(k)]
                 = Piece(SlotOfRank(j - 1), r, PlaceOf(RankOf(k)), Share(RankOf(k)))
    <3>1. s[j] = Piece(j - 1, r, 0, UpLen(j - 1)) /\ SlotOfRank(j - 1) = j - 1
      BY <1>0, <2>2, <2>5
    <3>2. [s[j] EXCEPT !.off = Offset(k), !.len = Share(k)] = Piece(j - 1, r, Offset(k), Share(k))
      <4> DEFINE a == j - 1
                 l == UpLen(j - 1)
                 o == Offset(k)
                 m == Share(k)
                 n == 0
                 R == [src : {a}, round : {r}, off : {n, o}, len : {l, m}]
                 z == Piece(a, r, o, m)
                 x == s[j]
                 y == [x EXCEPT !.off = o, !.len = m]
      <4>1. x = Piece(a, r, n, l)
        BY <3>1
      <4> HIDE DEF a, l, o, m, n, x
      <4>2. /\ x \in R /\ x.src = a /\ x.round = r
            /\ z \in R /\ z.src = a /\ z.round = r /\ z.off = o /\ z.len = m
        BY <4>1 DEF Piece
      <4> HIDE DEF z
      <4>3. y \in R /\ y.src = a /\ y.round = r /\ y.off = o /\ y.len = m
        BY <4>2
      <4> HIDE DEF y
      <4>4. y = z
        BY <4>2, <4>3
      <4> QED BY <4>4 DEF a, o, m, x, y, z
    <3> QED BY <2>2, <2>3, <3>1, <3>2
  <2>8. Expected(k, r) =
          [j \in 1 .. N |-> Piece(SlotOfRank(j - 1), r, PlaceOf(RankOf(k)), Share(RankOf(k)))]
    BY <1>5 DEF Expected
  <2> QED BY Zenon, <2>6, <2>7, <2>8
<1>6. ASSUME type = "UCC_OOB", NEW k \in Slot
      PROVE  [i \in 1 .. N |-> s[i - 1]] = Expected(k, r)
  <2>1. \A j \in Slot : s[RankOf(j)] = Piece(j, r, 0, 1)
    BY <1>6 DEF BufOk
  <2> HIDE DEF s
  <2>2. ASSUME NEW i \in 1 .. N PROVE s[i - 1] = Piece(SlotOfRank(i - 1), r, 0, 1)
    <3>0. i - 1 \in Slot
      BY <1>0
    <3>1. SlotOfRank(i - 1) \in Slot /\ RankOf(SlotOfRank(i - 1)) = i - 1
      BY <3>0, RankAll
    <3> QED BY <2>1, <3>1
  <2>3. Expected(k, r) = [j \in 1 .. N |-> Piece(SlotOfRank(j - 1), r, 0, 1)]
    BY <1>6 DEF Expected
  <2> QED BY <2>2, <2>3
<1> QED BY <1>1, <1>2, <1>4, <1>5, <1>6

-----------------------------------------------------------------------------
(* Safety: what a process finds *)

\* The message at the head of a stream: the next one, or the end.
LEMMA HeadIs ==
  ASSUME TInv, SBody, NEW e \in End, Live(e), hd[e].in # <<>>
  PROVE  /\ Head(hd[e].in).size # 0 =>
              /\ Head(hd[e].in) = Feed(e)[Got(e) + 1]
              /\ type \in Down \cup {"GATHER"} => Got(e) + 1 <= Rounds
         /\ Head(hd[e].in).size = 0 =>
              hd[Peer(e)].wr /\ (Counted(e) => Got(e) = Sent(Peer(e)))
<1> DEFINE q == hd[e].in
<1>1. q \in Seq(MsgRec) /\ Got(e) \in Int /\ Sent(Peer(e)) \in Int
  BY HdFields, CountsInt, PeerOf DEF TInv
<1>2. q # <<>> /\ Len(q) \in Nat /\ Len(q) >= 1 /\ 1 \in 1 .. Len(q) /\ DOMAIN q = 1 .. Len(q)
      /\ Head(q) = q[1]
  BY <1>1
<1>3. StreamOk(e) /\ Quiet(e)
  BY DEF SBody, Conns
<1>4. /\ \/ /\ q[1] = Feed(e)[Got(e) + 1]
            /\ type \in Down \cup {"GATHER"} => Got(e) + 1 <= Rounds
         \/ 1 = Len(q) /\ hd[Peer(e)].wr
      /\ hd[Peer(e)].wr => q[Len(q)] = EOS
      /\ Counted(e) => Got(e) + Len(q) = IF hd[Peer(e)].wr THEN Sent(Peer(e)) + 1 ELSE Sent(Peer(e))
  BY <1>2, <1>3 DEF StreamOk
<1>5. q[1].size = 0 => 1 = Len(q) /\ hd[Peer(e)].wr
  BY <1>2, <1>3 DEF Quiet
<1>6. ASSUME q[1].size # 0
      PROVE  q[1] = Feed(e)[Got(e) + 1] /\ (type \in Down \cup {"GATHER"} => Got(e) + 1 <= Rounds)
  BY <1>4, <1>6, EosIn
<1>7. ASSUME q[1].size = 0 PROVE hd[Peer(e)].wr /\ (Counted(e) => Got(e) = Sent(Peer(e)))
  BY <1>1, <1>4, <1>5, <1>7
<1> QED BY <1>2, <1>6, <1>7

\* Who has closed a stream has sent all of it, when nobody has died.
LEMMA ClosedLast ==
  ASSUME TInv, SBody, Healthy, NEW e \in End, hd[e].wr, Sender(Owner(e)), ~(type = "FANIN" /\ e[2] = "root")
  PROVE  proc[Owner(e)].pc \in {"final", "end"} /\ proc[Owner(e)].round = Rounds
<1>1. Owner(e) \in Slot /\ CloseOk(e)
  BY PeerOf DEF SBody, Conns
<1>2. ProcOk(Owner(e))
  BY <1>1 DEF SBody
<1>3. ~Active(Owner(e))
  BY <1>1 DEF CloseOk
<1>4. proc[Owner(e)].pc \in Idle /\ proc[Owner(e)].pc # "stop"
  BY <1>1, <1>2, <1>3 DEF Active, Healthy, ProcOk
<1> QED BY <1>2, <1>4 DEF ProcOk, Idle

\* The stream of the root does not break.
LEMMA RootStays ==
  ASSUME TInv, SBody, NEW k \in Leaf, Live(LEnd(k)), hd[LEnd(k)].in = <<>>
  PROVE  hd[REnd(k)].open /\ ~hd[REnd(k)].wr
<1>1. LEnd(k) \in End /\ REnd(k) \in End /\ Peer(LEnd(k)) = REnd(k) /\ Owner(REnd(k)) = Root
  BY EndsAt
<1>2. StreamOk(LEnd(k))
  BY <1>1 DEF SBody, Conns
<1>3. ~hd[REnd(k)].wr
  BY <1>1, <1>2 DEF StreamOk
<1>4. proc[Root].pc # "dead"
  BY Slots DEF TInv, ProcTy, PcTy
<1>5. hd[REnd(k)].open
  BY <1>1, <1>3, <1>4 DEF TInv, HandleTy
<1> QED BY <1>3, <1>5

-----------------------------------------------------------------------------
(* Safety: counts *)

\* The step of a process that is in a call and stays alive.
LEMMA MovesSet ==
  ASSUME TInv, NEW p \in Slot, Frame, HdC(p, hd, hd'), NEW c, NEW ro, NEW i, NEW b, NEW o, NEW re,
         NEW ra, NEW pa, Sets(p, c, ro, i, b, o, re, ra, pa), c # "dead", Active(p)
  PROVE  /\ Moves(p) /\ proc'[p].pc = c /\ proc'[p].round = ro /\ proc'[p].idx = i
         /\ proc'[p].buf = b /\ proc'[p].out = o /\ proc'[p].res = re /\ proc'[p].rank = ra
         /\ proc'[p].parts = pa
  BY DEF Sets, Moves, Others, Active

\* The counts of the root ...
LEMMA RootCounts ==
  ASSUME NEW k \in Leaf
  PROVE  /\ Sent(REnd(k)) = RSent(type, proc[Root].pc, proc[Root].round, proc[Root].idx, k)
         /\ Sent(REnd(k))' = RSent(type', proc'[Root].pc, proc'[Root].round, proc'[Root].idx, k)
         /\ type # "FANIN" =>
              Got(REnd(k)) = RGot(type, proc[Root].pc, proc[Root].round, proc[Root].idx, k)
         /\ type' # "FANIN" =>
              Got(REnd(k))' = RGot(type', proc'[Root].pc, proc'[Root].round, proc'[Root].idx, k)
<1>1. REnd(k)[1] = k /\ REnd(k)[2] = "root"
  BY EndsAt
<1>2. /\ Sent(REnd(k)) = RootSent(k) /\ Sent(REnd(k))' = RootSent(k)'
      /\ Got(REnd(k)) = RootGot(k) /\ Got(REnd(k))' = RootGot(k)'
  BY <1>1 DEF Sent, Got
<1> QED BY <1>2 DEF RootSent, RootGot

\* ... and of a member.
LEMMA LeafCounts ==
  ASSUME NEW k \in Leaf
  PROVE  /\ Sent(LEnd(k)) = LSent(type, proc[k].pc, proc[k].round)
         /\ Sent(LEnd(k))' = LSent(type', proc'[k].pc, proc'[k].round)
         /\ type # "FANOUT" => Got(LEnd(k)) = LGot(type, proc[k].pc, proc[k].round)
         /\ type' # "FANOUT" => Got(LEnd(k))' = LGot(type', proc'[k].pc, proc'[k].round)
<1>1. LEnd(k)[1] = k /\ LEnd(k)[2] = "leaf"
  BY EndsAt
<1>2. /\ Sent(LEnd(k)) = LeafSent(k) /\ Sent(LEnd(k))' = LeafSent(k)'
      /\ Got(LEnd(k)) = LeafGot(k) /\ Got(LEnd(k))' = LeafGot(k)'
  BY <1>1 DEF Sent, Got
<1> QED BY <1>2 DEF LeafSent, LeafGot

\* The counts of the root stay.
LEMMA StayRoot ==
  ASSUME type' = type, type # "FANIN", NEW X, NEW Y,
         \A j \in Leaf :
           /\ REnd(j) \notin X =>
                RGot(type, proc'[Root].pc, proc'[Root].round, proc'[Root].idx, j)
                  = RGot(type, proc[Root].pc, proc[Root].round, proc[Root].idx, j)
           /\ REnd(j) \notin Y =>
                RSent(type, proc'[Root].pc, proc'[Root].round, proc'[Root].idx, j)
                  = RSent(type, proc[Root].pc, proc[Root].round, proc[Root].idx, j)
  PROVE  CountsStay(Root, X, Y)
<1> SUFFICES ASSUME NEW e \in End, Owner(e) = Root
             PROVE  (e \notin X => Got(e)' = Got(e)) /\ (e \notin Y => Sent(e)' = Sent(e))
  BY DEF CountsStay
<1>1. PICK k \in Leaf : e = REnd(k) \/ e = LEnd(k)
  BY EndsAll
<1>2. e = REnd(k)
  BY <1>1, EndsAt, Slots
<1> QED BY <1>2, RootCounts

\* The counts of a member stay.
LEMMA StayLeaf ==
  ASSUME type' = type, type # "FANOUT", NEW p \in Leaf, NEW X, NEW Y,
         LEnd(p) \notin X =>
           LGot(type, proc'[p].pc, proc'[p].round) = LGot(type, proc[p].pc, proc[p].round),
         LEnd(p) \notin Y =>
           LSent(type, proc'[p].pc, proc'[p].round) = LSent(type, proc[p].pc, proc[p].round)
  PROVE  CountsStay(p, X, Y)
<1> SUFFICES ASSUME NEW e \in End, Owner(e) = p
             PROVE  (e \notin X => Got(e)' = Got(e)) /\ (e \notin Y => Sent(e)' = Sent(e))
  BY DEF CountsStay
<1>1. PICK k \in Leaf : e = REnd(k) \/ e = LEnd(k)
  BY EndsAll
<1>2. e = LEnd(p)
  BY <1>1, EndsAt, Slots
<1> QED BY <1>2, LeafCounts

\* Nothing is counted when a process gives up and another has died.
LEMMA StayStop ==
  ASSUME TInv, NEW p \in Slot, Moves(p), proc'[p].pc \in Idle, ~Healthy, NEW X, NEW Y
  PROVE  CountsStay(p, X, Y)
<1>1. ~Healthy'
  BY MovesIs
<1>2. ~Active(p)'
  BY DEF Active
<1>3. ASSUME NEW e \in End, Owner(e) = p PROVE ~Live(e)' /\ ~Counted(Peer(e))'
  <2>1. Peer(Peer(e)) = e
    BY PeerOf
  <2> QED BY <1>1, <1>2, <1>3, <2>1 DEF Live, Counted
<1> QED BY <1>3 DEF CountsStay

\* A process gives up because the peer it sent to has gone.
LEMMA SafeError ==
  ASSUME TInv, SBody, NEW p \in Slot, Moves(p), Active(p), NEW e \in End, Owner(e) = p,
         type # "FANIN" \/ p # Root, ~hd[Peer(e)].open, hd' = hd, proc'[p].pc = "stop",
         proc'[p].round = proc[p].round, proc'[p].out = proc[p].out, proc'[p].res = "error"
  PROVE  ~Healthy /\ Conns' /\ ProcOk(p)' /\ BufOk' /\ EndOk' /\ PartsOk'
<1>1. ~Healthy
  BY InCallIs
<1>2. ~Healthy' /\ Frame
  BY <1>1, MovesIs DEF Moves
<1> DEFINE Z == {}
<1>3. CountsStay(p, Z, Z)
  BY <1>1, StayStop DEF Idle
<1>4. Conns
  BY DEF SBody
<1>5. \A x \in End : hd'[x].in = hd[x].in /\ SameFlags(hd'[x], hd[x])
  BY DEF SameFlags
<1>6. Conns'
  BY <1>3, <1>4, <1>5, ConnKeep
<1>7. ProcOk(p)'
  <2>1. ProcOk(p)
    BY DEF SBody
  <2>2. (Sender(p)' <=> Sender(p)) /\ type' = type
    BY <1>2, PartyFix DEF Frame
  <2>3. /\ proc'[p].res = "ok" => type \notin {"FANIN", "FANOUT"}
        /\ Sender(p) => proc'[p].round <= Rounds
        /\ type = "GATHER" /\ p # Root => proc'[p].out = <<>>
    BY <2>1 DEF ProcOk
  <2> QED BY <1>2, <2>2, <2>3 DEF ProcOk
<1>8. BufOk'
  <2>1. BufOk
    BY DEF SBody
  <2>2. p = Root => proc'[Root].pc \notin {"collect", "reply", "block", "spread"}
    OBVIOUS
  <2> QED BY <2>1, <2>2, BufRest
<1>9. EndOk'
  BY <1>2 DEF EndOk
<1>10. PartsOk'
  BY PartsRest DEF SBody
<1> QED BY <1>1, <1>6, <1>7, <1>8, <1>9, <1>10

-----------------------------------------------------------------------------
(* Safety: the calls of the generic collectives *)

\* Where a call begins.
FirstIn(p, c) ==
  \/ p = Root /\ type \in Down /\ c = "spread"
  \/ p = Root /\ type \in Sym \cup {"GATHER", "UCC_OOB"} /\ c = "collect"
  \/ p # Root /\ type \in Down /\ c = "recv"
  \/ p # Root /\ type \in Sym \cup {"GATHER"} /\ c = "send"
  \/ p # Root /\ type = "UCC_OOB" /\ c = "result"

\* The names of the collectives and of the places are different.
LEMMA Names ==
  /\ Down = {"BROADCAST", "SCATTER"} /\ Sym = {"ALLGATHER", "ALLTOALL", "MPI_CREATE"}
  /\ Idle = {"stop", "final", "end"}
  BY DEF Down, Sym, Idle

\* A call that begins sends and receives nothing.
LEMMA BeginCounts ==
  ASSUME NEW c, NEW r \in Int, NEW k \in Int, k >= 1
  PROVE  /\ FirstIn(Root, c) =>
              /\ RGot(type, c, r + 1, 1, k) = RGot(type, "ready", r, 1, k)
              /\ RSent(type, c, r + 1, 1, k) = RSent(type, "ready", r, 1, k)
         /\ \A p : p # Root /\ FirstIn(p, c) =>
              /\ LGot(type, c, r + 1) = LGot(type, "ready", r)
              /\ LSent(type, c, r + 1) = LSent(type, "ready", r)
<1>1. ASSUME FirstIn(Root, c)
      PROVE  /\ RGot(type, c, r + 1, 1, k) = RGot(type, "ready", r, 1, k)
             /\ RSent(type, c, r + 1, 1, k) = RSent(type, "ready", r, 1, k)
  BY <1>1 DEF FirstIn, RGot, RSent, Down, Sym
<1>2. ASSUME NEW p, p # Root, FirstIn(p, c)
      PROVE  /\ LGot(type, c, r + 1) = LGot(type, "ready", r)
             /\ LSent(type, c, r + 1) = LSent(type, "ready", r)
  BY <1>2 DEF FirstIn, LGot, LSent, Down, Sym
<1> QED BY <1>1, <1>2

\* In a place where it does not loop the index of the root is of no account.
LEMMA ReadyCounts ==
  ASSUME NEW i, NEW j, NEW r, NEW k
  PROVE  /\ RGot(type, "ready", r, i, k) = RGot(type, "ready", r, j, k)
         /\ RSent(type, "ready", r, i, k) = RSent(type, "ready", r, j, k)
  BY DEF RGot, RSent

\* A call begins.
LEMMA SafeBegin ==
  ASSUME TInv, SBody, NEW p \in Slot, NEW c \in Pc, NEW own \in [Slot -> PieceRec] \cup Seq(PieceRec),
         Begin(p, c, own), FirstIn(p, c),
         p = Root /\ type \in Sym \cup {"GATHER"} =>
           own = <<Piece(0, proc[Root].round + 1, 0, UpLen(0))>>,
         p = Root /\ type = "UCC_OOB" => own = [j \in Slot |-> Piece(Root, proc[Root].round + 1, 0, 1)]
  PROVE  SBody'
<1>1. /\ proc[p].pc = "ready" /\ Frame /\ touched' = touched /\ hd' = hd /\ HdC(p, hd, hd')
      /\ proc[p].round < Rounds \/ (type \in Down /\ p # Root) \/ (type = "GATHER" /\ p = Root)
      /\ Sets(p, c, IF proc[p].round <= Rounds THEN proc[p].round + 1 ELSE proc[p].round, 1, own,
              proc[p].out, proc[p].res, proc[p].rank, proc[p].parts)
  BY BeginIs
<1>2. ProcOk(p) /\ Conns
  BY DEF SBody
<1>3. proc[p].round <= Rounds /\ proc[p].round \in Int /\ Rounds \in Int
  BY <1>1, <1>2, ProcFields, TeamAssumption DEF ProcOk, TInv
<1>4. /\ proc'[p].pc = c /\ proc'[p].round = proc[p].round + 1 /\ proc'[p].idx = 1 /\ proc'[p].buf = own
      /\ proc'[p].out = proc[p].out /\ proc'[p].res = proc[p].res
  BY <1>1, <1>3 DEF Sets
<1>5. Others(p)
  BY <1>1 DEF Sets, Others
<1>6. c \notin Idle \cup {"dead", "ready"}
  BY DEF FirstIn, Idle
<1>7. Moves(p) /\ Active(p)
  BY <1>1, <1>4, <1>5, <1>6 DEF Moves, Active, Idle
<1>8. type' = type /\ (Sender(p)' <=> Sender(p)) /\ type \notin {"FANIN", "FANOUT"}
  BY <1>1, PartyFix DEF Frame, FirstIn, Down, Sym
<1>9. ProcOk(p)'
  <2>1. Sender(p) => proc[p].round < Rounds
    BY <1>1 DEF Sender, Down
  <2>2. Sender(p) => proc[p].round + 1 <= Rounds
    BY <1>3, <2>1
  <2>3. Healthy' <=> Healthy
    BY <1>7, MovesIs
  <2>4. /\ type = "GATHER" /\ p # Root => proc[p].out = <<>>
        /\ Healthy => /\ proc[p].res # "error"
                      /\ Sender(p) => proc[p].res # "zero"
    BY <1>2 DEF ProcOk
  <2> QED BY <1>4, <1>6, <1>8, <2>2, <2>3, <2>4 DEF ProcOk, Idle
<1> DEFINE Z == {}
           r == proc[p].round
<1>10. CountsStay(p, Z, Z)
  <2>1. CASE p = Root
    <3>1. ASSUME NEW j \in Leaf
          PROVE  /\ RGot(type, proc'[Root].pc, proc'[Root].round, proc'[Root].idx, j)
                      = RGot(type, proc[Root].pc, proc[Root].round, proc[Root].idx, j)
                 /\ RSent(type, proc'[Root].pc, proc'[Root].round, proc'[Root].idx, j)
                      = RSent(type, proc[Root].pc, proc[Root].round, proc[Root].idx, j)
      <4>1. j \in Int /\ j >= 1
        BY Slots
      <4>2. r \in Int /\ FirstIn(Root, c)
        BY <1>3, <2>1
      <4> HIDE DEF r
      <4>3. /\ RGot(type, c, r + 1, 1, j) = RGot(type, "ready", r, 1, j)
            /\ RSent(type, c, r + 1, 1, j) = RSent(type, "ready", r, 1, j)
        BY <4>1, <4>2, BeginCounts
      <4>4. /\ RGot(type, "ready", r, proc[Root].idx, j) = RGot(type, "ready", r, 1, j)
            /\ RSent(type, "ready", r, proc[Root].idx, j) = RSent(type, "ready", r, 1, j)
        BY ReadyCounts
      <4> QED BY <1>1, <1>4, <2>1, <4>3, <4>4 DEF r
    <3> QED BY <1>8, <2>1, <3>1, StayRoot
  <2>2. CASE p # Root
    <3>0. p \in Leaf /\ 1 \in Int /\ r \in Int
      BY <1>3, <2>2, Slots
    <3> DEFINE k == 1
    <3>2. k \in Int /\ k >= 1
      OBVIOUS
    <3> HIDE DEF r, k
    <3>3. LGot(type, c, r + 1) = LGot(type, "ready", r) /\ LSent(type, c, r + 1) = LSent(type, "ready", r)
      BY <2>2, <3>0, <3>2, BeginCounts
    <3>4. /\ LGot(type, proc'[p].pc, proc'[p].round) = LGot(type, proc[p].pc, proc[p].round)
          /\ LSent(type, proc'[p].pc, proc'[p].round) = LSent(type, proc[p].pc, proc[p].round)
      BY <1>1, <1>4, <3>3 DEF r
    <3> QED BY <1>8, <3>0, <3>4, StayLeaf
  <2> QED BY <2>1, <2>2
<1>11. \A x \in End : hd'[x].in = hd[x].in /\ SameFlags(hd'[x], hd[x])
  BY <1>1 DEF SameFlags
<1>12. Conns'
  BY <1>2, <1>7, <1>10, <1>11, ConnKeep
<1>13. p = Root => BufOk'
  <2> SUFFICES ASSUME p = Root PROVE BufOk'
    OBVIOUS
  <2>0. Root \in Slot /\ Slot \subseteq Int /\ \A k \in Slot : k >= 0
    BY Slots
  <2>1. type \in Sym \cup {"GATHER"} =>
          \A j \in DOMAIN own : own[j] = Piece(j - 1, r + 1, 0, UpLen(j - 1))
    BY DEF Root
  <2>2. \A k \in Slot : k < 1 => k = Root
    BY <2>0 DEF Root
  <2>3. RankOf(Root) \in Slot
    BY <2>0, RankIn
  <2>4. type = "UCC_OOB" => own[RankOf(Root)] = Piece(Root, r + 1, 0, 1)
    BY <2>3
  <2>5. /\ \A k : RankOf(k)' = RankOf(k)
        /\ \A k : UpLen(k)' = UpLen(k)
    <3>1. \A k : RankOf(k)' = RankOf(k)
      BY <1>1, RanksFix
    <3>2. \A k : UpLen(k)' = UpLen(k)
      BY <1>1, RanksFix DEF Frame, UpLen
    <3> QED BY <3>1, <3>2
  <2>6. type' \in Sym \cup {"GATHER"} =>
          \A j \in DOMAIN proc'[Root].buf :
             proc'[Root].buf[j] = Piece(j - 1, proc'[Root].round, 0, UpLen(j - 1)')
    BY <1>4, <1>8, <2>1, <2>5
  <2>7. type' = "UCC_OOB" => c = "collect" /\
          \A k \in Slot : k < 1 => proc'[Root].buf[RankOf(k)'] = Piece(k, proc'[Root].round, 0, 1)
    BY <1>4, <1>8, <2>2, <2>4, <2>5 DEF FirstIn, Down, Sym
  <2> QED BY <1>4, <2>6, <2>7 DEF BufOk
<1> QED BY <1>1, <1>4, <1>7, <1>8, <1>9, <1>12, <1>13, SafeCall

\* The end at the root, while it is in its loop.
LEMMA AtLoop ==
  ASSUME TInv, SBody, proc[Root].pc \in {"collect", "reply", "block", "spread"}, NEW k, k = proc[Root].idx
  PROVE  /\ Root \in Slot /\ k \in Leaf /\ Active(Root) /\ type \notin {"FANIN", "FANOUT"}
         /\ REnd(k) \in End /\ LEnd(k) \in End /\ Owner(REnd(k)) = Root /\ Peer(REnd(k)) = LEnd(k)
         /\ ~hd[REnd(k)].wr /\ ~hd[REnd(k)].rd /\ ~hd[REnd(k)].freed /\ Live(REnd(k))
         /\ Healthy => hd[LEnd(k)].open
<1>1. Root \in Slot /\ k \in Leaf /\ type \notin {"FANIN", "FANOUT"}
  BY Slots DEF TInv, ProcTy, PcTy, Down, Sym
<1>2. Active(Root)
  BY DEF Active, Idle
<1>3. REnd(k) \in End /\ LEnd(k) \in End /\ Owner(REnd(k)) = Root /\ Peer(REnd(k)) = LEnd(k)
  BY <1>1, EndsAt
<1> QED BY <1>1, <1>2, <1>3, InCallIs

\* The counts of the root in the loop in which it sends.
LEMMA SpreadCounts ==
  ASSUME type \in Down \cup Sym \cup {"UCC_OOB"}, NEW k \in Int, NEW r \in Int, NEW j \in Int, 1 <= j, j <= N - 1,
         N \in Int
  PROVE  /\ j # k => RSent(type, "spread", r, k + 1, j) = RSent(type, "spread", r, k, j)
         /\ j < k => RSent(type, "ready", r, k, j) = RSent(type, "spread", r, k, j)
         /\ RSent(type, "spread", r, k + 1, k) = RSent(type, "spread", r, k, k) + 1
         /\ RSent(type, "ready", r, k, k) = RSent(type, "spread", r, k, k) + 1
         /\ RGot(type, "spread", r, k + 1, j) = RGot(type, "spread", r, k, j)
         /\ RGot(type, "ready", r, k, j) = RGot(type, "spread", r, k, j)
         /\ type # "UCC_OOB" => RSent(type, "spread", r, k, k) = r - 1
         /\ type = "UCC_OOB" => RSent(type, "spread", r, k, k) = 2 * r - 1
<1>1. CASE type \in Down \cup Sym
  <2>1. type \notin {"UCC_OOB", "FANOUT"}
    BY <1>1 DEF Down, Sym
  <2>2. \A c : \A i, m \in Int :
          RSent(type, c, r, i, m) = IF c = "collect" \/ (c = "spread" /\ i <= m) THEN r - 1 ELSE r
    BY <1>1, <2>1 DEF RSent
  <2>3. \A i : RGot(type, "spread", r, i, j) = RGot(type, "ready", r, k, j)
    BY <2>1 DEF RGot
  <2> QED BY <2>1, <2>2, <2>3
<1>2. CASE type = "UCC_OOB"
  <2>1. \A i, m : /\ RSent(type, "spread", r, i, m) = IF i <= m THEN 2 * r - 1 ELSE 2 * r
                  /\ RSent(type, "ready", r, i, m) = 2 * r
    BY <1>2 DEF RSent, Down, Sym
  <2>3. \A i : RGot(type, "spread", r, i, j) = RGot(type, "ready", r, k, j)
    BY <1>2 DEF RGot, Sym
  <2> QED BY <1>2, <2>1, <2>3
<1> QED BY <1>1, <1>2

\* The message the root sends in round r of its loop is the next one of the stream.
LEMMA SpreadNext ==
  ASSUME TInv, EveryPart, type \in Down \cup Sym \cup {"UCC_OOB"}, NEW k \in Leaf, NEW r \in Int, NEW s,
         type # "UCC_OOB" => s = r - 1, type = "UCC_OOB" => s = 2 * r - 1
  PROVE  /\ Feed(LEnd(k))[s + 1] = Msg(Expected(k, r)) /\ Msg(Expected(k, r)).size # 0
         /\ Msg(Expected(k, r)).data = Expected(k, r)
<1>1. s + 1 \in Int /\ k \in Slot
  BY Slots
<1>2. Feed(LEnd(k))[s + 1] = Msg(ToLeaf(k, s + 1))
  BY <1>1, FeedIs, DataIs
<1>3. ToLeaf(k, s + 1) = Expected(k, r)
  <2>1. CASE type \in Down \cup Sym
    <3>1. s + 1 = r /\ type # "UCC_OOB" /\ type # "FANOUT"
      BY <2>1 DEF Down, Sym
    <3> QED BY <2>1, <3>1 DEF ToLeaf
  <2>2. CASE type = "UCC_OOB"
    <3>1. s + 1 = 2 * r
      BY <2>2
    <3>2. (s + 1) % 2 # 1 /\ (s + 1) \div 2 = r
      BY <3>1
    <3> QED BY <2>2, <3>2 DEF ToLeaf, Down, Sym
  <2> QED BY <2>1, <2>2
<1>4. Size(Expected(k, r)) \in Nat /\ Size(Expected(k, r)) >= 1
  BY <1>1, DownIs
<1>5. Msg(Expected(k, r)).size = Size(Expected(k, r)) /\ Msg(Expected(k, r)).data = Expected(k, r)
  BY DEF Msg
<1> QED BY <1>2, <1>3, <1>4, <1>5

\* The root sends in a loop.
LEMMA SafeSpread ==
  ASSUME TInv, SBody, Sound, EveryPart, type \in Down \cup Sym \cup {"UCC_OOB"},
         NEW data, NEW out \in Seq(PieceRec), Spread(data, out),
         NEW k, k = proc[Root].idx, data[k] \in Seq(PieceRec),
         data[k] = Expected(k, proc[Root].round), out = Expected(Root, proc[Root].round)
  PROVE  SBody'
<1> DEFINE e == REnd(k)
           r == proc[Root].round
           m == Msg(data[k])
<1>1. /\ proc[Root].pc = "spread" /\ k \in Leaf /\ Frame
      /\ touched' = (touched \/ hd[REnd(k)].freed) /\ HdC(Root, hd, hd')
      /\ \/ /\ Sets(Root, "stop", proc[Root].round, k, proc[Root].buf, proc[Root].out, "error",
                    proc[Root].rank, proc[Root].parts)
            /\ ~hd[LEnd(k)].open /\ hd' = hd
         \/ /\ \/ hd[LEnd(k)].open /\ PutAt(LEnd(k), Msg(data[k]), hd, hd')
               \/ ~hd[LEnd(k)].open /\ hd' = hd
            /\ k < N - 1 =>
                 Sets(Root, "spread", proc[Root].round, k + 1, proc[Root].buf, proc[Root].out,
                      proc[Root].res, proc[Root].rank, proc[Root].parts)
            /\ k = N - 1 =>
                 Sets(Root, "ready", proc[Root].round, k, proc[Root].buf, out, "ok",
                      proc[Root].rank, proc[Root].parts)
  BY SpreadIs
<1>2. /\ Root \in Slot /\ Active(Root) /\ type \notin {"FANIN", "FANOUT"}
      /\ e \in End /\ Owner(e) = Root /\ Peer(e) = LEnd(k)
      /\ ~hd[e].wr /\ ~hd[e].rd /\ ~hd[e].freed
  BY <1>1, AtLoop
<1>3. touched' = touched
  BY <1>1, <1>2 DEF TInv
<1>4. /\ ProcOk(Root) /\ Conns /\ BufOk
  BY <1>2 DEF SBody
<1>5. Sender(Root)
  BY DEF Sender, Down, Sym
<1>6. r <= Rounds /\ r \in Int /\ Rounds \in Int /\ k \in Int /\ 1 <= k /\ k <= N - 1 /\ N \in Int
  BY <1>1, <1>2, <1>4, <1>5, ProcFields, TeamAssumption, Slots DEF ProcOk, TInv
<1>7. CASE /\ Sets(Root, "stop", proc[Root].round, k, proc[Root].buf, proc[Root].out, "error",
                    proc[Root].rank, proc[Root].parts)
           /\ ~hd[LEnd(k)].open /\ hd' = hd
  <2> DEFINE c == "stop"
             re == "error"
  <2>1. /\ Moves(Root) /\ proc'[Root].pc = "stop" /\ proc'[Root].round = proc[Root].round
        /\ proc'[Root].out = proc[Root].out /\ proc'[Root].res = "error"
    <3>1. Sets(Root, c, proc[Root].round, k, proc[Root].buf, proc[Root].out, re,
                    proc[Root].rank, proc[Root].parts) /\ c # "dead"
      BY <1>7
    <3> HIDE DEF c, re
    <3>2. /\ Moves(Root) /\ proc'[Root].pc = c /\ proc'[Root].round = proc[Root].round
          /\ proc'[Root].out = proc[Root].out /\ proc'[Root].res = re
      BY <1>1, <1>2, <3>1, MovesSet
    <3> QED BY <3>2 DEF c, re
  <2>2. ~Healthy /\ Conns' /\ ProcOk(Root)' /\ BufOk'
    BY <1>2, <1>7, <2>1, SafeError
  <2> QED BY <1>2, <2>1, <2>2, SafeCall
<1>8. ASSUME NEW c, NEW i, NEW o, NEW re, c \in {"spread", "ready"},
             Sets(Root, c, r, i, proc[Root].buf, o, re, proc[Root].rank, proc[Root].parts),
             (hd[LEnd(k)].open /\ PutAt(LEnd(k), Msg(data[k]), hd, hd')) \/ (~hd[LEnd(k)].open /\ hd' = hd),
             \/ c = "spread" /\ i = k + 1 /\ o = proc[Root].out /\ re = proc[Root].res
             \/ k = N - 1 /\ c = "ready" /\ i = k /\ o = out /\ re = "ok"
      PROVE  SBody'
  <2>1. /\ Moves(Root) /\ proc'[Root].pc = c /\ proc'[Root].round = r /\ proc'[Root].idx = i
        /\ proc'[Root].buf = proc[Root].buf /\ proc'[Root].out = o /\ proc'[Root].res = re
        /\ proc'[Root].rank = proc[Root].rank
    BY <1>1, <1>2, <1>8, MovesSet
  <2>2. type' = type /\ (Healthy' <=> Healthy) /\ (Sender(Root)' <=> Sender(Root))
    BY <1>1, <1>2, <2>1, MovesIs, PartyFix DEF Frame
  <2>3. /\ Sent(e) = RSent(type, "spread", r, k, k) /\ Sent(e)' = RSent(type, c, r, i, k)
    BY <1>1, <2>1, <2>2, RootCounts
  <2>4. /\ Sent(e)' = Sent(e) + 1
        /\ type # "UCC_OOB" => Sent(e) = r - 1
        /\ type = "UCC_OOB" => Sent(e) = 2 * r - 1
    <3> HIDE DEF r, e
    <3>1. /\ RSent(type, "spread", r, k + 1, k) = RSent(type, "spread", r, k, k) + 1
          /\ RSent(type, "ready", r, k, k) = RSent(type, "spread", r, k, k) + 1
          /\ type # "UCC_OOB" => RSent(type, "spread", r, k, k) = r - 1
          /\ type = "UCC_OOB" => RSent(type, "spread", r, k, k) = 2 * r - 1
      BY <1>6, SpreadCounts
    <3> QED BY <1>8, <2>3, <3>1
  <2>5. /\ m = Feed(Peer(e))[Sent(e) + 1] /\ m.size # 0
    BY <1>1, <1>2, <1>6, <2>4, SpreadNext
  <2>6. m \in MsgRec
    BY MsgIn
  <2> DEFINE X == {}
             Y == {e}
  <2>7. CountsStay(Root, X, Y)
    <3>1. ASSUME NEW j \in Leaf
          PROVE  /\ RGot(type, proc'[Root].pc, proc'[Root].round, proc'[Root].idx, j)
                      = RGot(type, proc[Root].pc, proc[Root].round, proc[Root].idx, j)
                 /\ REnd(j) \notin Y =>
                      RSent(type, proc'[Root].pc, proc'[Root].round, proc'[Root].idx, j)
                        = RSent(type, proc[Root].pc, proc[Root].round, proc[Root].idx, j)
      <4>0. j \in Int /\ 1 <= j /\ j <= N - 1
        BY Slots
      <4>1. REnd(j) \notin Y => j # k
        OBVIOUS
      <4> HIDE DEF r, Y
      <4>2. /\ j # k => RSent(type, "spread", r, k + 1, j) = RSent(type, "spread", r, k, j)
            /\ j < k => RSent(type, "ready", r, k, j) = RSent(type, "spread", r, k, j)
            /\ RGot(type, "spread", r, k + 1, j) = RGot(type, "spread", r, k, j)
            /\ RGot(type, "ready", r, k, j) = RGot(type, "spread", r, k, j)
        <5>1. N \in Int /\ k \in Int /\ r \in Int
          BY <1>6
        <5> HIDE DEF m
        <5> QED BY ONLY Zenon, type \in Down \cup Sym \cup {"UCC_OOB"}, <4>0, <5>1, SpreadCounts
      <4>3. RGot(type, c, r, i, j) = RGot(type, "spread", r, k, j)
        BY <1>8, <4>2
      <4>4. k = N - 1 /\ j # k => j < k
        BY <1>6, <4>0
      <4>5. j # k => RSent(type, c, r, i, j) = RSent(type, "spread", r, k, j)
        BY <1>8, <4>2, <4>4
      <4> QED BY <1>1, <2>1, <4>1, <4>3, <4>5 DEF r
    <3> HIDE DEF Y
    <3> QED BY <1>2, <2>2, <3>1, StayRoot
  <2>8. Conns'
    <3>1. CASE hd[LEnd(k)].open /\ PutAt(LEnd(k), Msg(data[k]), hd, hd')
      <4>1. PutAt(Peer(e), m, hd, hd') /\ (type \in Down \cup {"GATHER"} => Sent(e) + 1 <= Rounds)
        BY <1>2, <1>6, <2>4, <3>1 DEF Down, Sym
      <4> HIDE DEF m, e
      <4> QED BY <1>2, <1>4, <2>1, <2>4, <2>5, <2>6, <2>7, <4>1, ConnPut
    <3>2. CASE ~hd[LEnd(k)].open /\ hd' = hd
      <4>1. \A x \in End : hd'[x].in = hd[x].in /\ SameFlags(hd'[x], hd[x])
        BY <3>2 DEF SameFlags
      <4>2. \A x \in Y : x \in End /\ ~hd[Peer(x)].open
        BY <1>2, <3>2
      <4> HIDE DEF Y
      <4> QED BY <1>2, <1>4, <2>1, <2>7, <4>1, <4>2, ConnKeep
    <3> QED BY <1>8, <3>1, <3>2
  <2>9. ProcOk(Root)'
    <3>1. Expected(Root, r)' = Expected(Root, proc[Root].round)
      BY <1>1, <2>1, RanksFix DEF Expected, Frame
    <3>2. Expected(Root, proc[Root].round)' = Expected(Root, proc[Root].round)
      BY <1>1, <2>1, RanksFix DEF Expected, Frame
    <3>3. c = "ready" => o = Expected(Root, proc[Root].round)
      BY <1>8
    <3>4. Healthy => re # "error" /\ re # "zero"
      BY <1>4, <1>5, <1>8 DEF ProcOk
    <3> QED BY <1>2, <1>6, <1>8, <2>1, <2>2, <3>2, <3>3, <3>4 DEF ProcOk
  <2>10. BufOk'
    <3>1. CASE c = "ready"
      BY <1>2, <1>4, <2>1, <3>1, BufRest
    <3>2. CASE c = "spread"
      <4>1. \A j : RankOf(j)' = RankOf(j)
        BY <1>1, RanksFix
      <4>2. \A j : UpLen(j)' = UpLen(j)
        BY <1>1, RanksFix DEF Frame, UpLen
      <4>3. type' \in Sym \cup {"GATHER"} =>
              \A j \in DOMAIN proc'[Root].buf :
                 proc'[Root].buf[j] = Piece(j - 1, proc'[Root].round, 0, UpLen(j - 1)')
        BY <1>1, <1>4, <2>1, <2>2, <4>2 DEF BufOk
      <4>4. type' = "UCC_OOB" =>
              \A j \in Slot : proc'[Root].buf[RankOf(j)'] = Piece(j, proc'[Root].round, 0, 1)
        BY <1>1, <1>4, <2>1, <2>2, <4>1 DEF BufOk
      <4> QED BY <2>1, <3>2, <4>3, <4>4 DEF BufOk
    <3> QED BY <1>8, <3>1, <3>2
  <2>11. proc'[Root].res = "zero" /\ Healthy => proc[Root].res = "zero"
    BY <1>8, <2>1
  <2> QED BY <1>2, <1>3, <2>1, <2>8, <2>9, <2>10, <2>11, SafeCall
<1>9. k < N - 1 \/ k = N - 1
  BY <1>6
<1> DEFINE cs == "spread"
           cr == "ready"
           ok == "ok"
<1>10. ASSUME k < N - 1, Sets(Root, cs, r, k + 1, proc[Root].buf, proc[Root].out, proc[Root].res,
                               proc[Root].rank, proc[Root].parts),
              (hd[LEnd(k)].open /\ PutAt(LEnd(k), Msg(data[k]), hd, hd')) \/ (~hd[LEnd(k)].open /\ hd' = hd)
       PROVE  SBody'
  <2> DEFINE i == k + 1
             o == proc[Root].out
             re == proc[Root].res
  <2>1. /\ Sets(Root, cs, r, i, proc[Root].buf, o, re, proc[Root].rank, proc[Root].parts)
        /\ cs = "spread" /\ i = k + 1 /\ o = proc[Root].out /\ re = proc[Root].res
    BY <1>10
  <2> HIDE DEF cs, i, o, re, r
  <2> QED BY <1>8, <1>10, <2>1
<1>11. ASSUME k = N - 1, Sets(Root, cr, r, k, proc[Root].buf, out, ok, proc[Root].rank, proc[Root].parts),
              (hd[LEnd(k)].open /\ PutAt(LEnd(k), Msg(data[k]), hd, hd')) \/ (~hd[LEnd(k)].open /\ hd' = hd)
       PROVE  SBody'
  <2>1. cr = "ready" /\ ok = "ok"
    OBVIOUS
  <2> HIDE DEF cr, ok, r
  <2> QED BY <1>8, <1>11, <2>1
<1>12. CASE /\ \/ hd[LEnd(k)].open /\ PutAt(LEnd(k), Msg(data[k]), hd, hd')
               \/ ~hd[LEnd(k)].open /\ hd' = hd
            /\ k < N - 1 =>
                 Sets(Root, "spread", proc[Root].round, k + 1, proc[Root].buf, proc[Root].out,
                      proc[Root].res, proc[Root].rank, proc[Root].parts)
            /\ k = N - 1 =>
                 Sets(Root, "ready", proc[Root].round, k, proc[Root].buf, out, "ok",
                      proc[Root].rank, proc[Root].parts)
  <2>0. (hd[LEnd(k)].open /\ PutAt(LEnd(k), Msg(data[k]), hd, hd')) \/ (~hd[LEnd(k)].open /\ hd' = hd)
    BY <1>12
  <2>1. CASE k < N - 1
    <3>1. Sets(Root, cs, r, k + 1, proc[Root].buf, proc[Root].out, proc[Root].res,
               proc[Root].rank, proc[Root].parts)
      BY <1>12, <2>1
    <3> HIDE DEF cs, r
    <3> QED BY <1>10, <2>0, <2>1, <3>1
  <2>2. CASE k = N - 1
    <3>1. Sets(Root, cr, r, k, proc[Root].buf, out, ok, proc[Root].rank, proc[Root].parts)
      BY <1>12, <2>2
    <3> HIDE DEF cr, ok, r
    <3> QED BY <1>11, <2>0, <2>2, <3>1
  <2> QED BY <1>9, <2>1, <2>2
<1> QED BY <1>1, <1>7, <1>12

\* The counts of the root in the loop in which it receives.
LEMMA CollectCounts ==
  ASSUME type \in Sym \cup {"GATHER"}, NEW k \in Int, NEW r \in Int, NEW j \in Int, 1 <= j
  PROVE  /\ j # k => RGot(type, "collect", r, k + 1, j) = RGot(type, "collect", r, k, j)
         /\ j < k => RGot(type, "spread", r, 1, j) = RGot(type, "collect", r, k, j)
         /\ j < k => RGot(type, "ready", r, k, j) = RGot(type, "collect", r, k, j)
         /\ RSent(type, "collect", r, k + 1, j) = RSent(type, "collect", r, k, j)
         /\ type \in Sym => RSent(type, "spread", r, 1, j) = RSent(type, "collect", r, k, j)
         /\ type = "GATHER" => \A c, i : RSent(type, c, r, i, j) = RSent(type, "collect", r, k, j)
<1>1. /\ RGot(type, "collect", r, k + 1, j) = IF k + 1 <= j THEN r - 1 ELSE r
      /\ RGot(type, "collect", r, k, j) = IF k <= j THEN r - 1 ELSE r
      /\ RGot(type, "spread", r, 1, j) = r /\ RGot(type, "ready", r, k, j) = r
  BY DEF RGot, Sym
<1>2. type \in Sym => /\ RSent(type, "collect", r, k + 1, j) = r - 1
                      /\ RSent(type, "collect", r, k, j) = r - 1
                      /\ RSent(type, "spread", r, 1, j) = r - 1
  BY DEF RSent, Sym, Down
<1>3. type = "GATHER" => \A c, i : RSent(type, c, r, i, j) = 0
  BY DEF RSent, Down, Sym
<1> QED BY <1>1, <1>2, <1>3

\* At the end of its place in the loop.
LEMMA CollectSelf ==
  ASSUME type \in Sym \cup {"GATHER"}, NEW k \in Int, NEW r \in Int, 1 <= k
  PROVE  /\ RGot(type, "collect", r, k, k) = r - 1
         /\ RGot(type, "collect", r, k + 1, k) = r
         /\ RGot(type, "spread", r, 1, k) = r /\ RGot(type, "ready", r, k, k) = r
  BY DEF RGot, Sym

\* The next message to the root.
LEMMA UpNext ==
  ASSUME TInv, EveryPart, NEW k \in Leaf, NEW i \in Int
  PROVE  /\ Feed(REnd(k))[i] = Msg(ToRoot(k, i)) /\ Feed(REnd(k))[i].size = UpLen(k)
         /\ Feed(REnd(k))[i].data = ToRoot(k, i) /\ UpLen(k) \in Nat /\ UpLen(k) >= 1
<1>1. Feed(REnd(k))[i] = Msg(Data(REnd(k), i)) /\ Feed(REnd(k))[i].size = Size(Data(REnd(k), i))
      /\ Feed(REnd(k))[i].data = Data(REnd(k), i)
  BY FeedIs
<1>2. Data(REnd(k), i) = ToRoot(k, i)
  BY DataIs
<1>3. Size(ToRoot(k, i)) = UpLen(k) /\ UpLen(k) \in Nat /\ UpLen(k) >= 1
  BY UpIs, Slots
<1> QED BY <1>1, <1>2, <1>3

\* What the root finds when it receives in its loop: the message of the round
\* or, in a gather, the end of the stream.
LEMMA CollectFinds ==
  ASSUME TInv, SBody, Sound, EveryPart, type \in Sym \cup {"GATHER"}, proc[Root].pc = "collect",
         NEW k, k = proc[Root].idx, Readable(REnd(k))
  PROVE  /\ Finds(REnd(k), UpLen(k)) \in {"data", "eos", "eof"}
         /\ Finds(REnd(k), UpLen(k)) = "data" =>
              Head(Head(hd[REnd(k)].in).data) = Piece(k, proc[Root].round, 0, UpLen(k))
         /\ Finds(REnd(k), UpLen(k)) = "data" /\ type = "GATHER" => proc[Root].round <= Rounds
         /\ Finds(REnd(k), UpLen(k)) = "eof" => ~Healthy
         /\ Finds(REnd(k), UpLen(k)) # "data" => type = "GATHER"
<1> DEFINE e == REnd(k)
           f == LEnd(k)
           cap == UpLen(k)
           r == proc[Root].round
           found == Finds(e, cap)
<1>1. /\ Root \in Slot /\ k \in Leaf /\ Active(Root) /\ e \in End /\ f \in End /\ Owner(e) = Root
      /\ Peer(e) = f /\ ~hd[e].rd /\ Live(e) /\ (Healthy => hd[f].open)
  BY AtLoop
<1>2. /\ Finds(e, cap) \in {"closed", "eof", "eos", "toolong", "data"}
      /\ Finds(e, cap) = "closed" => hd[e].rd
      /\ Finds(e, cap) = "eof" => hd[e].in = <<>>
      /\ Finds(e, cap) \in {"eos", "toolong", "data"} => hd[e].in # <<>>
      /\ Finds(e, cap) = "eos" => Head(hd[e].in).size = 0
      /\ Finds(e, cap) \in {"toolong", "data"} => Head(hd[e].in).size # 0
      /\ Finds(e, cap) = "toolong" => Head(hd[e].in).size > cap
  BY <1>1, ReceivedIs
<1>3. r \in Int /\ k \in Int /\ 1 <= k /\ Rounds \in Int
  BY <1>1, Slots, ProcFields, TeamAssumption DEF TInv
<1>4. Got(e) = r - 1
  <2>1. Got(e) = RGot(type, "collect", r, k, k)
    BY <1>1, RootCounts DEF Sym
  <2> HIDE DEF r, e
  <2>2. RGot(type, "collect", r, k, k) = r - 1
    BY <1>3, CollectSelf
  <2> QED BY <2>1, <2>2
<1>5. hd[e].in # <<>> /\ Head(hd[e].in).size # 0 =>
        Head(hd[e].in).size = cap /\ cap \in Nat /\ Head(hd[e].in).data = <<Piece(k, r, 0, cap)>>
  <2> SUFFICES ASSUME hd[e].in # <<>>, Head(hd[e].in).size # 0
               PROVE  Head(hd[e].in).size = cap /\ cap \in Nat /\ Head(hd[e].in).data = <<Piece(k, r, 0, cap)>>
    OBVIOUS
  <2>1. Head(hd[e].in) = Feed(e)[Got(e) + 1]
    BY <1>1, HeadIs
  <2>2. Got(e) + 1 = r
    BY <1>3, <1>4
  <2>3. Feed(e)[r].size = cap /\ cap \in Nat /\ Feed(e)[r].data = ToRoot(k, r)
    BY <1>1, <1>3, UpNext
  <2>4. ToRoot(k, r) = <<Piece(k, r, 0, cap)>>
    BY DEF ToRoot, Sym
  <2> QED BY <2>1, <2>2, <2>3, <2>4
<1>6. found # "closed" /\ found # "toolong"
  BY <1>1, <1>2, <1>5
<1>7. found = "data" => Head(Head(hd[e].in).data) = Piece(k, r, 0, cap)
  BY <1>2, <1>5
<1>8. found = "eof" => ~Healthy
  BY <1>1, <1>2 DEF Readable
<1>9. ASSUME found # "data", type \in Sym PROVE FALSE
  <2>1. Healthy
    BY <1>9, SymHealthy
  <2>2. found = "eos"
    BY <1>2, <1>6, <1>8, <1>9, <2>1
  <2>3. hd[f].wr /\ (Counted(e) => Got(e) = Sent(f))
    BY <1>1, <1>2, <2>2, HeadIs
  <2>4. Got(e) = Sent(f)
    BY <2>1, <2>3 DEF Counted
  <2>5. Owner(f) = k /\ f[2] = "leaf"
    BY <1>1, EndsAt
  <2>6. Sender(Owner(f)) /\ Sender(Root)
    BY <1>9 DEF Sender, Sym, Down
  <2>7. proc[k].pc \in {"final", "end"} /\ proc[k].round = Rounds
    BY <1>1, <2>1, <2>3, <2>5, <2>6, ClosedLast
  <2>8. Sent(f) = LSent(type, proc[k].pc, proc[k].round)
    BY <1>1, LeafCounts
  <2>9. Sent(f) = Rounds
    BY <1>9, <2>7, <2>8 DEF LSent, Sym
  <2>10. r <= Rounds
    BY <1>1, <2>6 DEF SBody, ProcOk
  <2> QED BY <1>3, <1>4, <2>4, <2>9, <2>10
<1>10. found = "data" /\ type = "GATHER" => r <= Rounds
  <2> SUFFICES ASSUME found = "data", type = "GATHER" PROVE r <= Rounds
    OBVIOUS
  <2>1. hd[e].in # <<>> /\ Head(hd[e].in).size # 0
    BY <1>2
  <2>2. Got(e) + 1 <= Rounds
    BY <1>1, <2>1, HeadIs
  <2> QED BY <1>3, <1>4, <2>2
<1> QED BY <1>2, <1>6, <1>7, <1>8, <1>9, <1>10

\* A buffer of the pieces of round r.
Pieces(b, r) == \A j \in DOMAIN b : b[j] = Piece(j - 1, r, 0, UpLen(j - 1))

\* The root takes the message of a member in its loop, and goes on.
LEMMA SafeTaken ==
  ASSUME TInv, SBody, type \in Sym \cup {"GATHER"}, proc[Root].pc = "collect", Frame,
         NEW k, k = proc[Root].idx, HdC(Root, hd, hd'), TookAt(REnd(k), hd, hd'),
         hd[REnd(k)].in # <<>>, Head(hd[REnd(k)].in).size # 0, touched' = (touched \/ hd[REnd(k)].freed),
         NEW c, NEW i, NEW b, NEW o, NEW re,
         Sets(Root, c, proc[Root].round, i, b, o, re, proc[Root].rank, proc[Root].parts),
         \/ c = "collect" /\ i = k + 1 /\ re = proc[Root].res
         \/ k = N - 1 /\ type \in Sym /\ c = "spread" /\ i = 1 /\ re = proc[Root].res
         \/ k = N - 1 /\ type = "GATHER" /\ c = "ready" /\ i = k /\ re = "ok",
         c = "ready" => o = Expected(Root, proc[Root].round) /\ proc[Root].round <= Rounds,
         c # "ready" => Pieces(b, proc[Root].round)
  PROVE  SBody'
<1> DEFINE e == REnd(k)
           r == proc[Root].round
<1>1. /\ Root \in Slot /\ k \in Leaf /\ Active(Root) /\ type \notin {"FANIN", "FANOUT"}
      /\ e \in End /\ Owner(e) = Root /\ ~hd[e].freed
  BY AtLoop
<1>2. touched' = touched
  BY <1>1 DEF TInv
<1>3. c # "dead"
  OBVIOUS
<1>4. /\ Moves(Root) /\ proc'[Root].pc = c /\ proc'[Root].round = r /\ proc'[Root].idx = i
      /\ proc'[Root].buf = b /\ proc'[Root].out = o /\ proc'[Root].res = re
  BY <1>1, <1>3, MovesSet
<1>5. type' = type /\ (Healthy' <=> Healthy) /\ (Sender(Root)' <=> Sender(Root))
  BY <1>1, <1>4, MovesIs, PartyFix DEF Frame
<1>6. r \in Int /\ k \in Int /\ 1 <= k /\ k <= N - 1 /\ N \in Int
  BY <1>1, Slots, ProcFields, TeamAssumption DEF TInv
<1>7. Got(e) = RGot(type, "collect", r, k, k) /\ Got(e)' = RGot(type, c, r, i, k)
  BY <1>1, <1>4, <1>5, RootCounts
<1>8. Got(e)' = Got(e) + 1
  <2> HIDE DEF r, e
  <2>1. /\ RGot(type, "collect", r, k, k) = r - 1
        /\ RGot(type, "collect", r, k + 1, k) = r
        /\ RGot(type, "spread", r, 1, k) = r /\ RGot(type, "ready", r, k, k) = r
    BY <1>6, CollectSelf
  <2>2. RGot(type, c, r, i, k) = r
    BY <2>1
  <2> QED BY <1>6, <1>7, <2>1, <2>2
<1> DEFINE X == {e}
           Y == {}
<1>9. CountsStay(Root, X, Y)
  <2>1. ASSUME NEW j \in Leaf
        PROVE  /\ REnd(j) \notin X =>
                    RGot(type, proc'[Root].pc, proc'[Root].round, proc'[Root].idx, j)
                      = RGot(type, proc[Root].pc, proc[Root].round, proc[Root].idx, j)
               /\ RSent(type, proc'[Root].pc, proc'[Root].round, proc'[Root].idx, j)
                    = RSent(type, proc[Root].pc, proc[Root].round, proc[Root].idx, j)
    <3>0. j \in Int /\ 1 <= j /\ j <= N - 1
      BY Slots
    <3>1. REnd(j) \notin X => j # k
      OBVIOUS
    <3> HIDE DEF r, X, e
    <3>2. /\ j # k => RGot(type, "collect", r, k + 1, j) = RGot(type, "collect", r, k, j)
          /\ j < k => RGot(type, "spread", r, 1, j) = RGot(type, "collect", r, k, j)
          /\ j < k => RGot(type, "ready", r, k, j) = RGot(type, "collect", r, k, j)
          /\ RSent(type, "collect", r, k + 1, j) = RSent(type, "collect", r, k, j)
          /\ type \in Sym => RSent(type, "spread", r, 1, j) = RSent(type, "collect", r, k, j)
          /\ type = "GATHER" => RSent(type, "ready", r, k, j) = RSent(type, "collect", r, k, j)
      <4>1. k \in Int /\ r \in Int
        BY <1>6
      <4> QED BY ONLY type \in Sym \cup {"GATHER"}, <3>0, <4>1, CollectCounts
    <3>3. k = N - 1 /\ j # k => j < k
      BY <1>6, <3>0
    <3>4. RSent(type, c, r, i, j) = RSent(type, "collect", r, k, j)
      BY <3>2
    <3>5. j # k => RGot(type, c, r, i, j) = RGot(type, "collect", r, k, j)
      BY <3>2, <3>3
    <3> QED BY <1>4, <3>1, <3>4, <3>5 DEF r
  <2> HIDE DEF X
  <2> QED BY <1>1, <1>5, <2>1, StayRoot
<1>10. ProcOk(Root) /\ Conns /\ BufOk
  BY <1>1 DEF SBody
<1>11. Conns'
  <2> HIDE DEF e
  <2>1. TookAt(e, hd, hd') /\ hd[e].in # <<>> /\ Head(hd[e].in).size # 0
    BY DEF e
  <2> QED BY <1>1, <1>4, <1>8, <1>9, <1>10, <2>1, ConnTake
<1>12. ProcOk(Root)'
  <2>1. Expected(Root, proc[Root].round)' = Expected(Root, proc[Root].round)
    BY <1>4, RanksFix DEF Expected, Frame
  <2>2. Sender(Root) => r <= Rounds
    BY <1>10 DEF ProcOk
  <2>3. Healthy => re # "error" /\ (Sender(Root) => re # "zero")
    BY <1>10 DEF ProcOk
  <2> QED BY <1>1, <1>4, <1>5, <2>1, <2>2, <2>3 DEF ProcOk
<1>13. BufOk'
  <2>1. CASE c = "ready"
    BY <1>1, <1>4, <1>10, <2>1, BufRest
  <2>2. CASE c # "ready"
    <3>1. \A j : UpLen(j)' = UpLen(j)
      BY RanksFix DEF Frame, UpLen
    <3>2. \A j \in DOMAIN proc'[Root].buf :
            proc'[Root].buf[j] = Piece(j - 1, proc'[Root].round, 0, UpLen(j - 1)')
      BY <1>4, <2>2, <3>1 DEF Pieces
    <3>3. type' # "UCC_OOB"
      BY <1>5 DEF Sym
    <3> QED BY <3>2, <3>3 DEF BufOk
  <2> QED BY <2>1, <2>2
<1>14. proc'[Root].res = "zero" /\ Healthy => proc[Root].res = "zero"
  BY <1>4
<1> QED BY <1>1, <1>2, <1>4, <1>11, <1>12, <1>13, <1>14, SafeCall

\* The root of a gather finds the end of a stream, or a connection that broke.
LEMMA SafeGatherEnd ==
  ASSUME TInv, SBody, type = "GATHER", proc[Root].pc = "collect", Frame,
         NEW k, k = proc[Root].idx, HdC(Root, hd, hd'), touched' = (touched \/ hd[REnd(k)].freed),
         NEW re, re # "error", re # "ok",
         Sets(Root, "stop", proc[Root].round, k, proc[Root].buf, proc[Root].out, re,
              proc[Root].rank, proc[Root].parts),
         \/ /\ hd[REnd(k)].in # <<>> /\ Head(hd[REnd(k)].in).size = 0
            /\ EosAt(REnd(k), hd, hd')
         \/ ~Healthy /\ BothAt(REnd(k), hd, hd')
  PROVE  SBody'
<1> DEFINE e == REnd(k)
           c == "stop"
<1>1. /\ Root \in Slot /\ k \in Leaf /\ Active(Root) /\ type \notin {"FANIN", "FANOUT"}
      /\ e \in End /\ Owner(e) = Root /\ ~hd[e].freed /\ ~hd[e].wr
  BY AtLoop
<1>2. touched' = touched
  BY <1>1 DEF TInv
<1>3. c = "stop" /\ c # "dead" /\ Sets(Root, c, proc[Root].round, k, proc[Root].buf, proc[Root].out, re,
              proc[Root].rank, proc[Root].parts)
  OBVIOUS
<1> HIDE DEF c
<1>4. /\ Moves(Root) /\ proc'[Root].pc = c /\ proc'[Root].round = proc[Root].round
      /\ proc'[Root].out = proc[Root].out /\ proc'[Root].res = re
  BY <1>1, <1>3, MovesSet
<1>5. type' = type /\ (Healthy' <=> Healthy) /\ (Sender(Root)' <=> Sender(Root)) /\ ~Sender(Root)
  <2>1. ~Sender(Root)
    BY DEF Sender, Down
  <2> QED BY <1>1, <1>4, <2>1, MovesIs, PartyFix DEF Frame
<1>6. ~Active(Root)' /\ ~Live(e)'
  <2>1. ~Active(Root)'
    BY <1>3, <1>4 DEF Active, Idle
  <2> QED BY <1>1, <2>1 DEF Live
<1>7. ProcOk(Root) /\ Conns /\ BufOk
  BY <1>1 DEF SBody
<1>8. CloseOk(e) /\ Quiet(e)
  BY <1>1, <1>7 DEF Conns
<1>9. hd'[e].rd
  BY DEF EosAt, BothAt
<1>10. CloseOk(e)'
  <2>1. \/ hd[e].in # <<>> /\ Head(hd[e].in).size = 0
        \/ ~Healthy
    OBVIOUS
  <2>2. Healthy => ~hd'[e].wr
    BY <1>1 DEF EosAt
  <2> HIDE DEF e
  <2> QED BY <1>1, <1>4, <1>6, <1>8, <2>1, <2>2, CloseEnd
<1> DEFINE Z == {}
<1>11. CountsStay(Root, Z, Z)
  <2>1. ASSUME NEW x \in End, Owner(x) = Root PROVE ~Live(x)' /\ Sent(x)' = Sent(x)
    <3>1. ~Live(x)'
      BY <1>6, <2>1 DEF Live
    <3>2. PICK j \in Leaf : x = REnd(j) \/ x = LEnd(j)
      BY EndsAll
    <3>3. x = REnd(j)
      BY <2>1, <3>2, EndsAt, Slots
    <3>4. \A d, ro, i : RSent(type, d, ro, i, j) = 0
      BY DEF RSent, Down, Sym
    <3>5. Sent(x)' = Sent(x)
      BY <1>5, <3>3, <3>4, RootCounts
    <3> QED BY <3>1, <3>5
  <2> QED BY <2>1 DEF CountsStay
<1>12. Conns'
  <2>1. \/ hd[e].in # <<>> /\ (EosAt(e, hd, hd') \/ EosBothAt(e, hd, hd'))
        \/ BothAt(e, hd, hd') \/ WrAt(e, hd, hd')
    OBVIOUS
  <2> HIDE DEF e
  <2> QED BY <1>1, <1>4, <1>6, <1>7, <1>10, <1>11, <2>1, ConnEnd
<1>13. ProcOk(Root)'
  BY <1>1, <1>3, <1>4, <1>5 DEF ProcOk
<1>14. BufOk'
  BY <1>1, <1>3, <1>4, <1>7, BufRest
<1>15. Knows(Root)
  BY <1>1, <1>9 DEF Knows, Down
<1> QED BY <1>1, <1>2, <1>4, <1>12, <1>13, <1>14, <1>15, SafeCall

\* The root receives in a loop.
LEMMA SafeCollect ==
  ASSUME TInv, SBody, Sound, EveryPart, type \in Sym \cup {"GATHER"}, NEW cap, NEW pc, Collect(cap, pc),
         \A k \in Leaf : cap[k] = UpLen(k), (pc = "spread" /\ type \in Sym) \/ (pc = "return" /\ type = "GATHER")
  PROVE  SBody'
<1> DEFINE k == proc[Root].idx
           all == Append(proc[Root].buf, Head(Head(hd[REnd(k)].in).data))
           r == proc[Root].round
<1>1. k = proc[Root].idx /\ all = Append(proc[Root].buf, Head(Head(hd[REnd(k)].in).data))
      /\ type # "UCC_OOB" /\ pc \in {"spread", "return"}
  BY DEF Sym
<1> HIDE DEF k, all
<1>2. CollectDoes(cap, pc, k, all)
  BY <1>1, CollectIs
<1> DEFINE e == REnd(k)
           found == Finds(e, UpLen(k))
<1>3. /\ proc[Root].pc = "collect" /\ k \in Leaf /\ Readable(REnd(k)) /\ Frame
      /\ touched' = (touched \/ hd[REnd(k)].freed) /\ HdC(Root, hd, hd')
      /\ proc[Root].buf \in Seq(PieceRec) /\ Len(proc[Root].buf) = k
  BY <1>2 DEF CollectDoes
<1>4. cap[k] = UpLen(k)
  BY <1>3
<1>5. hd' = Received(e, UpLen(k))
  BY <1>2, <1>4 DEF CollectDoes
<1>6. /\ found = "data" => all \in Seq(PieceRec)
      /\ found = "data" /\ k < N - 1 =>
           Sets(Root, "collect", r, k + 1, all, proc[Root].out, proc[Root].res,
                proc[Root].rank, proc[Root].parts)
      /\ found = "data" /\ k = N - 1 /\ pc = "spread" =>
           Sets(Root, "spread", r, 1, all, proc[Root].out, proc[Root].res,
                proc[Root].rank, proc[Root].parts)
      /\ found = "data" /\ k = N - 1 /\ pc = "return" =>
           Sets(Root, "ready", r, k, proc[Root].buf, all, "ok",
                proc[Root].rank, proc[Root].parts)
      /\ found # "data" =>
           Sets(Root, "stop", r, k, proc[Root].buf, proc[Root].out,
                IF found = "toolong" THEN "error" ELSE "zero",
                proc[Root].rank, proc[Root].parts)
  BY <1>2, <1>4 DEF CollectDoes
<1>7. /\ found \in {"data", "eos", "eof"}
      /\ found = "data" => Head(Head(hd[e].in).data) = Piece(k, r, 0, UpLen(k))
      /\ found = "data" /\ type = "GATHER" => r <= Rounds
      /\ found = "eof" => ~Healthy
      /\ found # "data" => type = "GATHER"
  BY <1>1, <1>3, CollectFinds
<1>8. e \in End /\ Owner(e) = Root
  BY <1>3, EndsAt
<1>9. /\ found = "eof" => BothAt(e, hd, hd')
      /\ found \in {"eos", "data"} => hd[e].in # <<>>
      /\ found = "eos" => Head(hd[e].in).size = 0 /\ EosAt(e, hd, hd')
      /\ found = "data" => Head(hd[e].in).size # 0 /\ TookAt(e, hd, hd')
  BY <1>5, <1>8, ReceivedIs
<1>10. CASE found = "data"
  <2>1. /\ all = Append(proc[Root].buf, Piece(k, r, 0, UpLen(k))) /\ all \in Seq(PieceRec)
    <3>1. all \in Seq(PieceRec)
      BY Zenon, <1>6, <1>10
    <3>2. Head(Head(hd[e].in).data) = Piece(k, r, 0, UpLen(k))
      BY Zenon, <1>7, <1>10
    <3> QED BY Zenon, <1>1, <3>1, <3>2
  <2>2. BufOk /\ k \in Nat /\ k <= N - 1 /\ N \in Nat
    BY <1>3, Slots DEF SBody
  <2>3. \A j \in DOMAIN proc[Root].buf : proc[Root].buf[j] = Piece(j - 1, r, 0, UpLen(j - 1))
    BY <1>3, <2>2 DEF BufOk
  <2>4. Len(all) = k + 1 /\ DOMAIN all = 1 .. k + 1 /\ all[k + 1] = Piece(k, r, 0, UpLen(k))
        /\ \A j \in 1 .. k : all[j] = proc[Root].buf[j]
    <3> DEFINE z == Piece(k, r, 0, UpLen(k))
    <3>1. all = Append(proc[Root].buf, z)
      BY <2>1
    <3> HIDE DEF z
    <3>2. Len(all) = k + 1 /\ DOMAIN all = 1 .. k + 1 /\ all[k + 1] = z
          /\ \A j \in 1 .. k : all[j] = proc[Root].buf[j]
      BY <1>3, <2>1, <2>2, <3>1
    <3> QED BY <3>2 DEF z
  <2>5. \A j \in DOMAIN all : all[j] = Piece(j - 1, r, 0, UpLen(j - 1))
    <3> SUFFICES ASSUME NEW j \in 1 .. k + 1 PROVE all[j] = Piece(j - 1, r, 0, UpLen(j - 1))
      BY <2>4
    <3>1. CASE j = k + 1
      <4>1. j - 1 = k
        BY <2>2, <3>1
      <4> QED BY <2>4, <3>1, <4>1
    <3>2. CASE j # k + 1
      <4>1. j \in 1 .. k /\ j \in DOMAIN proc[Root].buf
        BY <1>3, <2>2, <3>2
      <4> QED BY <2>3, <2>4, <4>1
    <3> QED BY <3>1, <3>2
  <2>6. k = N - 1 /\ type = "GATHER" => all = Expected(Root, r)
    <3> SUFFICES ASSUME k = N - 1, type = "GATHER" PROVE all = Expected(Root, r)
      OBVIOUS
    <3>1. Len(all) = N /\ InRankOrder
      BY <2>2, <2>4 DEF Sound
    <3> HIDE DEF r
    <3> QED BY <2>1, <2>5, <3>1, Collected
  <2>11. Pieces(all, proc[Root].round)
    BY <2>5 DEF Pieces
  <2> DEFINE cc == "collect"
             cs == "spread"
             cr == "ready"
             ok == "ok"
             one == 1
             kk == k + 1
             out == proc[Root].out
             res == proc[Root].res
             buf == proc[Root].buf
  <2>7. TookAt(REnd(k), hd, hd') /\ hd[REnd(k)].in # <<>> /\ Head(hd[REnd(k)].in).size # 0
    BY <1>9, <1>10
  <2>8. CASE k < N - 1
    <3>1. /\ Sets(Root, cc, proc[Root].round, kk, all, out, res, proc[Root].rank, proc[Root].parts)
          /\ cc = "collect" /\ kk = k + 1 /\ res = proc[Root].res
      BY <1>6, <1>10, <2>8
    <3> HIDE DEF cc, kk, out, res
    <3> QED BY Zenon, <1>1, <1>3, <2>7, <2>11, <3>1, SafeTaken
  <2>9. CASE k = N - 1 /\ pc = "spread"
    <3>1. /\ Sets(Root, cs, proc[Root].round, one, all, out, res, proc[Root].rank, proc[Root].parts)
          /\ cs = "spread" /\ one = 1 /\ res = proc[Root].res /\ type \in Sym
      BY <1>6, <1>10, <2>9
    <3> HIDE DEF cs, one, out, res
    <3> QED BY <1>1, <1>3, <2>7, <2>9, <2>11, <3>1, SafeTaken
  <2>10. CASE k = N - 1 /\ pc = "return"
    <3>1. /\ Sets(Root, cr, proc[Root].round, k, buf, all, ok, proc[Root].rank, proc[Root].parts)
          /\ cr = "ready" /\ ok = "ok" /\ type = "GATHER" /\ all = Expected(Root, proc[Root].round)
          /\ proc[Root].round <= Rounds
      BY <1>6, <1>7, <1>10, <2>6, <2>10
    <3> HIDE DEF cr, ok, buf
    <3> QED BY <1>1, <1>3, <2>7, <2>10, <3>1, SafeTaken
  <2> QED BY <2>2, <2>8, <2>9, <2>10
<1>11. CASE found # "data"
  <2> DEFINE re == "zero"
             c == "stop"
  <2>1. /\ Sets(Root, "stop", proc[Root].round, k, proc[Root].buf, proc[Root].out, re,
                proc[Root].rank, proc[Root].parts)
        /\ re # "error" /\ re # "ok" /\ type = "GATHER"
    BY <1>6, <1>7, <1>11
  <2>2. \/ /\ hd[REnd(k)].in # <<>> /\ Head(hd[REnd(k)].in).size = 0
           /\ EosAt(REnd(k), hd, hd')
        \/ ~Healthy /\ BothAt(REnd(k), hd, hd')
    BY <1>7, <1>9, <1>11
  <2> HIDE DEF re
  <2> QED BY <1>1, <1>3, <2>1, <2>2, SafeGatherEnd
<1> QED BY <1>10, <1>11

\* The end of a member that is in a call.
LEMMA AtLeaf ==
  ASSUME TInv, SBody, NEW p \in Leaf, Active(p)
  PROVE  /\ p \in Slot /\ p # Root
         /\ REnd(p) \in End /\ LEnd(p) \in End /\ Owner(LEnd(p)) = p /\ Peer(LEnd(p)) = REnd(p)
         /\ ~hd[LEnd(p)].wr /\ ~hd[LEnd(p)].rd /\ ~hd[LEnd(p)].freed /\ Live(LEnd(p))
         /\ Healthy => hd[REnd(p)].open
<1>1. p \in Slot /\ p # Root
  BY Slots
<1>2. REnd(p) \in End /\ LEnd(p) \in End /\ Owner(LEnd(p)) = p /\ Peer(LEnd(p)) = REnd(p)
  BY EndsAt
<1> QED BY <1>1, <1>2, InCallIs

\* A member sends the next message of its stream, or to a root that has gone.
LEMMA SafeLeafSend ==
  ASSUME TInv, SBody, NEW p \in Leaf, Active(p), type \in Sym \cup {"GATHER", "UCC_OOB"}, Frame,
         HdC(p, hd, hd'), touched' = (touched \/ hd[LEnd(p)].freed), NEW m \in MsgRec, m.size # 0,
         m = Feed(REnd(p))[Sent(LEnd(p)) + 1], type = "GATHER" => Sent(LEnd(p)) + 1 <= Rounds,
         (hd[REnd(p)].open /\ PutAt(REnd(p), m, hd, hd')) \/ (~hd[REnd(p)].open /\ hd' = hd),
         NEW c, NEW re,
         Sets(p, c, proc[p].round, proc[p].idx, proc[p].buf, proc[p].out, re, proc[p].rank, proc[p].parts),
         c \notin Idle, c # "dead", c = "ready" => type = "GATHER", re = proc[p].res \/ re = "ok",
         LSent(type, c, proc[p].round) = LSent(type, proc[p].pc, proc[p].round) + 1,
         LGot(type, c, proc[p].round) = LGot(type, proc[p].pc, proc[p].round)
  PROVE  SBody'
<1> DEFINE e == LEnd(p)
<1>1. /\ p \in Slot /\ p # Root /\ e \in End /\ Owner(e) = p /\ Peer(e) = REnd(p)
      /\ ~hd[e].wr /\ ~hd[e].freed
  BY AtLeaf
<1>2. touched' = touched
  BY <1>1 DEF TInv
<1>3. /\ Moves(p) /\ proc'[p].pc = c /\ proc'[p].round = proc[p].round
      /\ proc'[p].out = proc[p].out /\ proc'[p].res = re
  BY <1>1, MovesSet
<1>4. /\ type' = type /\ (Healthy' <=> Healthy) /\ (Sender(p)' <=> Sender(p))
      /\ type \notin {"FANIN", "FANOUT"}
  BY <1>1, <1>3, MovesIs, PartyFix DEF Frame, Sym
<1>5. Sent(e)' = Sent(e) + 1 /\ (type \in Down \cup {"GATHER"} => Sent(e) + 1 <= Rounds)
  BY <1>3, <1>4, LeafCounts DEF Down, Sym
<1> DEFINE X == {}
           Y == {e}
<1>6. CountsStay(p, X, Y)
  <2>1. LEnd(p) \in Y
    OBVIOUS
  <2>2. LGot(type, proc'[p].pc, proc'[p].round) = LGot(type, proc[p].pc, proc[p].round)
    BY <1>3
  <2> HIDE DEF Y
  <2> QED BY <1>4, <2>1, <2>2, StayLeaf
<1>7. ProcOk(p) /\ Conns
  BY <1>1 DEF SBody
<1>8. Conns'
  <2>1. CASE hd[REnd(p)].open /\ PutAt(REnd(p), m, hd, hd')
    <3>1. PutAt(Peer(e), m, hd, hd') /\ m = Feed(Peer(e))[Sent(e) + 1]
      BY <1>1, <2>1
    <3> HIDE DEF e
    <3> QED BY <1>1, <1>3, <1>5, <1>6, <1>7, <3>1, ConnPut
  <2>2. CASE ~hd[REnd(p)].open /\ hd' = hd
    <3>1. \A x \in End : hd'[x].in = hd[x].in /\ SameFlags(hd'[x], hd[x])
      BY <2>2 DEF SameFlags
    <3>2. \A x \in Y : x \in End /\ ~hd[Peer(x)].open
      BY <1>1, <2>2
    <3> HIDE DEF Y
    <3> QED BY <1>1, <1>3, <1>6, <1>7, <3>1, <3>2, ConnKeep
  <2> QED BY <2>1, <2>2
<1>9. ProcOk(p)'
  <2>1. Sender(p)
    BY <1>1 DEF Sender, Down, Sym
  <2>2. c = "ready" => proc[p].out = Expected(p, proc[p].round)'
    <3> SUFFICES ASSUME c = "ready" PROVE proc[p].out = Expected(p, proc[p].round)'
      OBVIOUS
    <3>1. type = "GATHER" /\ proc[p].out = <<>>
      BY <1>1, <1>7 DEF ProcOk
    <3>2. Expected(p, proc[p].round) = <<>>
      BY <1>1, <3>1 DEF Expected
    <3>3. Expected(p, proc[p].round)' = Expected(p, proc[p].round)
      BY <1>3, RanksFix DEF Expected, Frame
    <3> QED BY <3>1, <3>2, <3>3
  <2>3. proc[p].round <= Rounds /\ (type = "GATHER" => proc[p].out = <<>>)
    BY <1>1, <1>7, <2>1 DEF ProcOk
  <2>4. Healthy => re # "error" /\ re # "zero"
    BY <1>7, <2>1 DEF ProcOk
  <2> QED BY <1>3, <1>4, <2>2, <2>3, <2>4 DEF ProcOk, Idle
<1>10. proc'[p].res = "zero" => proc[p].res = "zero"
  BY <1>3
<1> QED BY <1>1, <1>2, <1>3, <1>4, <1>8, <1>9, <1>10, SafeCall

\* ... or finds that it has gone.
LEMMA SafeLeafError ==
  ASSUME TInv, SBody, NEW p \in Leaf, Active(p), type \notin {"FANIN", "FANOUT"}, Frame,
         HdC(p, hd, hd'), ~hd[REnd(p)].open, hd' = hd,
         Sets(p, "stop", proc[p].round, proc[p].idx, proc[p].buf, proc[p].out, "error",
              proc[p].rank, proc[p].parts)
  PROVE  SBody'
<1> DEFINE c == "stop"
           re == "error"
           e == LEnd(p)
<1>1. /\ p \in Slot /\ p # Root /\ e \in End /\ Owner(e) = p /\ Peer(e) = REnd(p)
  BY AtLeaf
<1>2. /\ Sets(p, c, proc[p].round, proc[p].idx, proc[p].buf, proc[p].out, re, proc[p].rank, proc[p].parts)
      /\ c = "stop" /\ re = "error"
  OBVIOUS
<1> HIDE DEF c, re
<1>3. /\ Moves(p) /\ proc'[p].pc = c /\ proc'[p].round = proc[p].round
      /\ proc'[p].out = proc[p].out /\ proc'[p].res = re
  BY <1>1, <1>2, MovesSet
<1>4. ~Healthy /\ Conns' /\ ProcOk(p)' /\ BufOk'
  <2> HIDE DEF e
  <2>1. ~hd[Peer(e)].open
    BY <1>1
  <2> QED BY <1>1, <1>2, <1>3, <2>1, SafeError
<1> QED BY <1>1, <1>3, <1>4, SafeCall

\* What a member sends is the next message of its stream.
LEMMA UpSends ==
  ASSUME TInv, EveryPart, InRankOrder, NEW p \in Leaf, NEW r, r = proc[p].round, r \in Int
  PROVE  /\ type \in {"GATHER", "ALLGATHER"} => Mine(p, 0, Share(RankOf(p))) = ToRoot(p, r)
         /\ type = "ALLTOALL" => Mine(p, 0, datacount) = ToRoot(p, r)
         /\ type = "MPI_CREATE" => Mine(p, 0, 1) = ToRoot(p, r)
         /\ type = "UCC_OOB" => /\ Mine(p, RankOf(p), 1) = ToRoot(p, 2 * r - 1)
                                /\ Mine(p, 0, 1) = ToRoot(p, 2 * r)
<1>1. Round(p) = r /\ p \in Slot
  BY Slots DEF Round
<1>2. \A o, l : Mine(p, o, l) = <<Piece(p, r, o, l)>>
  BY <1>1 DEF Mine
<1>3. ASSUME type \in {"GATHER", "ALLGATHER"} PROVE Mine(p, 0, Share(RankOf(p))) = ToRoot(p, r)
  <2>1. pos = 0
    BY <1>3 DEF InRankOrder, Cutting
  <2>2. RankOf(p) = p
    BY <1>1, <2>1, RankFirst
  <2>3. ToRoot(p, r) = <<Piece(p, r, 0, Share(p))>>
    BY <1>3 DEF ToRoot, UpLen
  <2> QED BY <1>2, <2>2, <2>3
<1>4. ASSUME type = "ALLTOALL" PROVE Mine(p, 0, datacount) = ToRoot(p, r)
  BY <1>2, <1>4 DEF ToRoot, UpLen
<1>5. ASSUME type = "MPI_CREATE" PROVE Mine(p, 0, 1) = ToRoot(p, r)
  BY <1>2, <1>5 DEF ToRoot, UpLen
<1>6. ASSUME type = "UCC_OOB" PROVE /\ Mine(p, RankOf(p), 1) = ToRoot(p, 2 * r - 1)
                                    /\ Mine(p, 0, 1) = ToRoot(p, 2 * r)
  <2>1. (2 * r - 1 + 1) \div 2 = r /\ (2 * r - 1) % 2 = 1 /\ (2 * r + 1) \div 2 = r /\ (2 * r) % 2 # 1
    OBVIOUS
  <2>2. ToRoot(p, 2 * r - 1) = <<Piece(p, r, RankOf(p), 1)>>
    BY <1>6, <2>1 DEF ToRoot
  <2>3. ToRoot(p, 2 * r) = <<Piece(p, r, 0, 1)>>
    BY <1>6, <2>1 DEF ToRoot
  <2> QED BY <1>2, <2>2, <2>3
<1> QED BY <1>3, <1>4, <1>5, <1>6

\* A member sends data, the next message of its stream.
LEMMA SafeLeafPuts ==
  ASSUME TInv, SBody, EveryPart, NEW p \in Leaf, Active(p), type \in Sym \cup {"GATHER", "UCC_OOB"}, Frame,
         HdC(p, hd, hd'), touched' = (touched \/ hd[LEnd(p)].freed), NEW data \in Seq(PieceRec),
         NEW i \in Int, i = LSent(type, proc[p].pc, proc[p].round) + 1, data = ToRoot(p, i),
         type = "GATHER" => i <= Rounds,
         (hd[REnd(p)].open /\ PutAt(REnd(p), Msg(data), hd, hd')) \/ (~hd[REnd(p)].open /\ hd' = hd),
         NEW c, NEW re,
         Sets(p, c, proc[p].round, proc[p].idx, proc[p].buf, proc[p].out, re, proc[p].rank, proc[p].parts),
         c \notin Idle, c # "dead", c = "ready" => type = "GATHER", re = proc[p].res \/ re = "ok",
         LSent(type, c, proc[p].round) = LSent(type, proc[p].pc, proc[p].round) + 1,
         LGot(type, c, proc[p].round) = LGot(type, proc[p].pc, proc[p].round)
  PROVE  SBody'
<1> DEFINE m == Msg(data)
<1>1. Sent(LEnd(p)) = LSent(type, proc[p].pc, proc[p].round)
  BY LeafCounts
<1>2. i = Sent(LEnd(p)) + 1
  BY <1>1
<1>3. Feed(REnd(p))[i] = Msg(ToRoot(p, i)) /\ Feed(REnd(p))[i].size = UpLen(p) /\ UpLen(p) \in Nat /\ UpLen(p) >= 1
  BY UpNext
<1>4. m = Feed(REnd(p))[Sent(LEnd(p)) + 1] /\ m.size # 0
  BY <1>2, <1>3
<1>5. m \in MsgRec
  BY MsgIn
<1>6. type = "GATHER" => Sent(LEnd(p)) + 1 <= Rounds
  BY <1>2
<1>7. (hd[REnd(p)].open /\ PutAt(REnd(p), m, hd, hd')) \/ (~hd[REnd(p)].open /\ hd' = hd)
  OBVIOUS
<1> HIDE DEF m
<1> QED BY <1>4, <1>5, <1>6, <1>7, SafeLeafSend

\* How many messages a member has sent and received, around the places where it sends.
LEMMA UpCounts ==
  ASSUME type \in Sym \cup {"GATHER", "UCC_OOB"}, NEW r \in Int
  PROVE  /\ type \in Sym \cup {"GATHER"} => LSent(type, "send", r) = r - 1
         /\ type = "UCC_OOB" => LSent(type, "send", r) = 2 * r - 2 /\ LSent(type, "sendblock", r) = 2 * r - 1
         /\ type = "GATHER" => /\ LSent(type, "ready", r) = LSent(type, "send", r) + 1
                               /\ LGot(type, "ready", r) = LGot(type, "send", r)
         /\ type \in Sym => /\ LSent(type, "recv", r) = LSent(type, "send", r) + 1
                            /\ LGot(type, "recv", r) = LGot(type, "send", r)
         /\ type = "UCC_OOB" => /\ LSent(type, "sendblock", r) = LSent(type, "send", r) + 1
                                /\ LGot(type, "sendblock", r) = LGot(type, "send", r)
                                /\ LSent(type, "recv", r) = LSent(type, "sendblock", r) + 1
                                /\ LGot(type, "recv", r) = LGot(type, "sendblock", r)
<1>1. type \in Sym \cup {"GATHER"} =>
        /\ LSent(type, "send", r) = r - 1 /\ LSent(type, "ready", r) = r /\ LSent(type, "recv", r) = r
  BY DEF LSent, Sym
<1>2. type = "UCC_OOB" => /\ LSent(type, "send", r) = 2 * r - 2 /\ LSent(type, "sendblock", r) = 2 * r - 1
                          /\ LSent(type, "recv", r) = 2 * r
  BY DEF LSent, Sym
<1>3. type = "GATHER" => LGot(type, "ready", r) = LGot(type, "send", r)
  BY DEF LGot, Sym, Down
<1>4. type \in Sym => LGot(type, "recv", r) = LGot(type, "send", r)
  BY DEF LGot, Sym, Down
<1>5. type = "UCC_OOB" => /\ LGot(type, "sendblock", r) = LGot(type, "send", r)
                          /\ LGot(type, "recv", r) = LGot(type, "sendblock", r)
  BY DEF LGot, Sym, Down
<1> QED BY <1>1, <1>2, <1>3, <1>4, <1>5 DEF Sym

\* LeafSends.
LEMMA SafeLeafSends ==
  ASSUME TInv, SBody, EveryPart, NEW p \in Leaf, NEW data \in Seq(PieceRec), NEW pc, LeafSends(p, data, pc),
         \/ type = "GATHER" /\ pc = "return"
         \/ type \in Sym /\ pc = "recv"
         \/ type = "UCC_OOB" /\ pc = "sendblock",
         type # "UCC_OOB" => data = ToRoot(p, proc[p].round),
         type = "UCC_OOB" => data = ToRoot(p, 2 * proc[p].round - 1)
  PROVE  SBody'
<1> DEFINE r == proc[p].round
           c == IF pc = "return" THEN "ready" ELSE pc
           re == IF pc = "return" THEN "ok" ELSE proc[p].res
           i == IF type = "UCC_OOB" THEN 2 * r - 1 ELSE r
<1>1. pc \in {"return", "recv", "sendblock"} /\ type \in Sym \cup {"GATHER", "UCC_OOB"} /\ type \notin {"FANIN", "FANOUT"}
  BY DEF Sym
<1>2. /\ proc[p].pc = "send" /\ Frame
      /\ touched' = (touched \/ hd[LEnd(p)].freed) /\ HdC(p, hd, hd')
      /\ \/ /\ hd[REnd(p)].open /\ PutAt(REnd(p), Msg(data), hd, hd')
            /\ IF pc = "return" THEN Return(p, "ok") ELSE Goto(p, pc)
         \/ /\ ~hd[REnd(p)].open /\ hd' = hd
            /\ IF pc = "return" THEN Return(p, "ok") ELSE Goto(p, pc)
         \/ ~hd[REnd(p)].open /\ hd' = hd /\ Return(p, "error")
  BY <1>1, LeafSendsIs
<1>3. Active(p) /\ p \in Slot /\ p # Root /\ r \in Int
  BY <1>2, Slots, ProcFields, TeamAssumption DEF Active, Idle, TInv
<1>4. CASE ~hd[REnd(p)].open /\ hd' = hd /\ Return(p, "error")
  <2>1. Sets(p, "stop", proc[p].round, proc[p].idx, proc[p].buf, proc[p].out, "error",
             proc[p].rank, proc[p].parts)
    BY <1>3, <1>4, ErrorIs
  <2> QED BY <1>1, <1>2, <1>3, <1>4, <2>1, SafeLeafError
<1>5. CASE /\ (hd[REnd(p)].open /\ PutAt(REnd(p), Msg(data), hd, hd')) \/ (~hd[REnd(p)].open /\ hd' = hd)
           /\ IF pc = "return" THEN Return(p, "ok") ELSE Goto(p, pc)
  <2>1. Sets(p, c, proc[p].round, proc[p].idx, proc[p].buf, proc[p].out, re, proc[p].rank, proc[p].parts)
    <3>1. CASE pc = "return"
      BY <1>3, <1>5, <3>1, OkIs
    <3>2. CASE pc # "return"
      <4>1. pc \in Pc
        BY <1>1, <3>2 DEF Pc
      <4> QED BY <1>3, <1>5, <3>2, <4>1, GotoIs
    <3> QED BY <3>1, <3>2
  <2>2. c \notin Idle /\ c # "dead" /\ (c = "ready" => type = "GATHER") /\ (re = proc[p].res \/ re = "ok")
    BY <1>1 DEF Idle, Sym
  <2>3. Sender(p) /\ ProcOk(p)
    BY <1>1, <1>3 DEF Sender, Down, Sym, SBody
  <2>4. r <= Rounds
    BY <2>3 DEF ProcOk
  <2>5. \/ type = "GATHER" /\ c = "ready"
        \/ type \in Sym /\ c = "recv"
        \/ type = "UCC_OOB" /\ c = "sendblock"
    OBVIOUS
  <2>6. /\ i \in Int /\ data = ToRoot(p, i) /\ (type = "GATHER" => i <= Rounds)
        /\ (type = "UCC_OOB" => i = 2 * r - 1) /\ (type # "UCC_OOB" => i = r)
    BY <1>3, <2>4
  <2> HIDE DEF c, re, i, r
  <2>7. /\ i = LSent(type, "send", r) + 1
        /\ LSent(type, c, r) = LSent(type, "send", r) + 1
        /\ LGot(type, c, r) = LGot(type, "send", r)
    <3>1. CASE type = "GATHER" /\ c = "ready"
      BY <1>3, <2>6, <3>1, UpCounts
    <3>2. CASE type \in Sym /\ c = "recv"
      <4>1. type # "UCC_OOB"
        BY <3>2 DEF Sym
      <4> QED BY <1>3, <2>6, <3>2, <4>1, UpCounts
    <3>3. CASE type = "UCC_OOB" /\ c = "sendblock"
      BY <1>3, <2>6, <3>3, UpCounts
    <3> QED BY <2>5, <3>1, <3>2, <3>3
  <2>8. /\ i = LSent(type, proc[p].pc, proc[p].round) + 1
        /\ LSent(type, c, proc[p].round) = LSent(type, proc[p].pc, proc[p].round) + 1
        /\ LGot(type, c, proc[p].round) = LGot(type, proc[p].pc, proc[p].round)
    BY <1>2, <2>7 DEF r
  <2> QED BY <1>1, <1>2, <1>3, <1>5, <2>1, <2>2, <2>6, <2>8, SafeLeafPuts
<1> QED BY <1>2, <1>4, <1>5

\* The member sends its block.
LEMMA SafeSendBlock ==
  ASSUME TInv, SBody, EveryPart, InRankOrder, NEW p \in Leaf, OobSendBlock(p)
  PROVE  SBody'
<1> DEFINE r == proc[p].round
           data == Mine(p, 0, 1)
           c == "recv"
           re == proc[p].res
           i == 2 * r
<1>1. type = "UCC_OOB" /\ proc[p].pc = "sendblock" /\ Frame
  BY DEF OobSendBlock
<1>2. Active(p) /\ p \in Slot /\ p # Root /\ r \in Int
  BY <1>1, Slots, ProcFields, TeamAssumption DEF Active, Idle, TInv
<1>3. /\ touched' = (touched \/ hd[LEnd(p)].freed) /\ HdC(p, hd, hd')
      /\ \/ /\ Sets(p, "stop", proc[p].round, proc[p].idx, proc[p].buf, proc[p].out, "error",
                    proc[p].rank, proc[p].parts)
            /\ ~hd[REnd(p)].open /\ hd' = hd
         \/ /\ \/ hd[REnd(p)].open /\ PutAt(REnd(p), Msg(data), hd, hd')
               \/ ~hd[REnd(p)].open /\ hd' = hd
            /\ Sets(p, c, proc[p].round, proc[p].idx, proc[p].buf, proc[p].out,
                    re, proc[p].rank, proc[p].parts)
  BY OobSendBlockIs
<1>4. data \in Seq(PieceRec)
  <2> DEFINE zero == 0
             one == 1
  <2>1. zero \in Nat /\ one \in Nat
    OBVIOUS
  <2> HIDE DEF zero, one
  <2>2. Mine(p, zero, one) \in Seq(PieceRec)
    BY <1>2, <2>1, MineIn
  <2> QED BY <2>2 DEF zero, one
<1>5. data = ToRoot(p, i)
  <2> HIDE DEF data
  <2>1. r = proc[p].round
    OBVIOUS
  <2> HIDE DEF r
  <2>2. Mine(p, 0, 1) = ToRoot(p, 2 * r)
    BY <1>1, <1>2, <2>1, UpSends
  <2> QED BY <2>2 DEF data
<1>6. /\ i \in Int /\ i = LSent(type, "sendblock", r) + 1 /\ c = "recv"
      /\ LSent(type, "recv", r) = LSent(type, "sendblock", r) + 1
      /\ LGot(type, "recv", r) = LGot(type, "sendblock", r)
  <2> HIDE DEF r
  <2> QED BY <1>1, <1>2, UpCounts
<1>7. /\ i = LSent(type, proc[p].pc, proc[p].round) + 1
      /\ LSent(type, c, proc[p].round) = LSent(type, proc[p].pc, proc[p].round) + 1
      /\ LGot(type, c, proc[p].round) = LGot(type, proc[p].pc, proc[p].round)
      /\ c \notin Idle /\ c # "dead" /\ c # "ready" /\ re = proc[p].res
  BY <1>1, <1>6 DEF Idle
<1> HIDE DEF r, data, c, re, i
<1>8. CASE Sets(p, "stop", proc[p].round, proc[p].idx, proc[p].buf, proc[p].out, "error",
                    proc[p].rank, proc[p].parts) /\ ~hd[REnd(p)].open /\ hd' = hd
  BY <1>1, <1>2, <1>3, <1>8, SafeLeafError
<1>9. CASE /\ \/ hd[REnd(p)].open /\ PutAt(REnd(p), Msg(data), hd, hd')
              \/ ~hd[REnd(p)].open /\ hd' = hd
           /\ Sets(p, c, proc[p].round, proc[p].idx, proc[p].buf, proc[p].out,
                    re, proc[p].rank, proc[p].parts)
  BY <1>1, <1>2, <1>3, <1>4, <1>5, <1>6, <1>7, <1>9, SafeLeafPuts
<1> QED BY <1>3, <1>8, <1>9

\* How many messages a member has sent and received, around the place where it receives.
LEMMA DownCounts ==
  ASSUME type \in Down \cup Sym \cup {"UCC_OOB"}, NEW r \in Int
  PROVE  /\ type # "UCC_OOB" => LGot(type, "recv", r) = r - 1
         /\ type = "UCC_OOB" => LGot(type, "recv", r) = 2 * r - 1
         /\ LGot(type, "ready", r) = LGot(type, "recv", r) + 1
         /\ LSent(type, "ready", r) = LSent(type, "recv", r)
         /\ type \in Down => \A c : LSent(type, c, r) = 0
<1>1. type \in Down \cup Sym => LGot(type, "recv", r) = r - 1 /\ LGot(type, "ready", r) = r
  BY DEF LGot, Down, Sym
<1>2. type = "UCC_OOB" => LGot(type, "recv", r) = 2 * r - 1 /\ LGot(type, "ready", r) = 2 * r
  BY DEF LGot, Down, Sym
<1>3. LSent(type, "ready", r) = LSent(type, "recv", r)
  BY DEF LSent, Down, Sym
<1>4. type \in Down => \A c : LSent(type, c, r) = 0
  BY DEF LSent, Down, Sym
<1> QED BY <1>1, <1>2, <1>3, <1>4

\* What a member finds: its message, or the end of the stream of the root of a
\* broadcast or scatter.
LEMMA LeafFinds ==
  ASSUME TInv, SBody, Sound, EveryPart, NEW p \in Leaf, type \in Down \cup Sym \cup {"UCC_OOB"},
         proc[p].pc = "recv", Readable(LEnd(p)), NEW r, r = proc[p].round
  PROVE  /\ Finds(LEnd(p), LeafCap(p)) \in {"data", "eos"}
         /\ Finds(LEnd(p), LeafCap(p)) = "data" =>
              Head(hd[LEnd(p)].in).data = Expected(p, r) /\ r <= Rounds
         /\ Finds(LEnd(p), LeafCap(p)) = "eos" => type \in Down
<1> DEFINE e == LEnd(p)
           cap == LeafCap(p)
           found == Finds(e, cap)
<1>1. Active(p) /\ p \in Slot /\ r \in Int /\ Root \in Slot /\ Rounds \in Int
  BY Slots, ProcFields, TeamAssumption DEF Active, Idle, TInv
<1>2. /\ p # Root /\ REnd(p) \in End /\ e \in End /\ Owner(e) = p /\ Peer(e) = REnd(p)
      /\ ~hd[e].rd /\ Live(e)
  BY <1>1, AtLeaf
<1>3. /\ found \in {"closed", "eof", "eos", "toolong", "data"}
      /\ found = "closed" => hd[e].rd
      /\ found = "eof" => hd[e].in = <<>>
      /\ found \in {"eos", "toolong", "data"} => hd[e].in # <<>>
      /\ found = "eos" => Head(hd[e].in).size = 0
      /\ found \in {"toolong", "data"} => Head(hd[e].in).size # 0
      /\ found = "toolong" => Head(hd[e].in).size > cap
  <2> HIDE DEF cap
  <2> QED BY <1>2, ReceivedIs
<1>4. found # "eof"
  <2> SUFFICES ASSUME found = "eof" PROVE FALSE
    OBVIOUS
  <2>1. hd[e].in = <<>> /\ ~hd[REnd(p)].open
    BY <1>2, <1>3 DEF Readable
  <2> QED BY <1>2, <2>1, RootStays
<1> DEFINE s == Got(e)
<1>5. s = LGot(type, "recv", r)
  <2>1. type # "FANOUT"
    BY DEF Down, Sym
  <2> QED BY <2>1, LeafCounts
<1>6. (type # "UCC_OOB" => s = r - 1) /\ (type = "UCC_OOB" => s = 2 * r - 1)
  BY <1>1, <1>5, DownCounts
<1> HIDE DEF s
<1>7. /\ Feed(e)[s + 1] = Msg(Expected(p, r)) /\ Msg(Expected(p, r)).data = Expected(p, r)
  BY <1>1, <1>6, SpreadNext
<1>8. Msg(Expected(p, r)).size = cap /\ cap \in Nat
  <2>1. Size(Expected(p, r)) = LeafCap(p) /\ LeafCap(p) \in Nat
    BY <1>1, DownIs
  <2> QED BY <2>1 DEF Msg
<1>9. hd[e].in # <<>> /\ Head(hd[e].in).size # 0 =>
        /\ Head(hd[e].in) = Msg(Expected(p, r))
        /\ type \in Down => s + 1 <= Rounds
  BY <1>2, <1>7, HeadIs DEF s
<1>10. ProcOk(p) /\ (type \notin Down => Sender(p))
  BY <1>1 DEF SBody, Sender, Down, Sym
<1>11. type \notin Down => r <= Rounds
  BY <1>10 DEF ProcOk
<1>12. type \in Down => type # "UCC_OOB"
  BY DEF Down
<1>13. found = "data" => Head(hd[e].in).data = Expected(p, r) /\ r <= Rounds
  BY <1>1, <1>3, <1>6, <1>7, <1>9, <1>11, <1>12
<1>14. found # "toolong"
  BY <1>3, <1>8, <1>9
<1>15. found = "eos" => type \in Down
  <2> SUFFICES ASSUME found = "eos", type \notin Down PROVE FALSE
    OBVIOUS
  <2>1. Healthy /\ type \in Sym \cup {"UCC_OOB"}
    BY SymHealthy
  <2>2. hd[REnd(p)].wr /\ s = Sent(REnd(p))
    BY <1>2, <1>3, <2>1, HeadIs DEF s, Counted
  <2>3. Owner(REnd(p)) = Root /\ Sender(Root) /\ type # "FANIN"
    BY <1>2, <2>1, EndsAt DEF Sender, Down, Sym
  <2>4. proc[Root].pc \in {"final", "end"} /\ proc[Root].round = Rounds
    BY <1>2, <2>1, <2>2, <2>3, ClosedLast
  <2>5. s = RSent(type, proc[Root].pc, proc[Root].round, proc[Root].idx, p)
    BY <2>2, RootCounts
  <2>6. (type # "UCC_OOB" => s = Rounds) /\ (type = "UCC_OOB" => s = 2 * Rounds)
    BY <2>1, <2>4, <2>5 DEF RSent, Down, Sym
  <2> QED BY <1>1, <1>6, <1>11, <2>6
<1> QED BY <1>2, <1>3, <1>4, <1>13, <1>14, <1>15

\* A member takes its message and returns.
LEMMA SafeLeafTaken ==
  ASSUME TInv, SBody, NEW p \in Leaf, type \in Down \cup Sym \cup {"UCC_OOB"}, proc[p].pc = "recv", Frame,
         HdC(p, hd, hd'), TookAt(LEnd(p), hd, hd'), hd[LEnd(p)].in # <<>>, Head(hd[LEnd(p)].in).size # 0,
         touched' = (touched \/ hd[LEnd(p)].freed), NEW o, o = Expected(p, proc[p].round),
         proc[p].round <= Rounds,
         Sets(p, "ready", proc[p].round, proc[p].idx, proc[p].buf, o, "ok", proc[p].rank, proc[p].parts)
  PROVE  SBody'
<1> DEFINE e == LEnd(p)
           c == "ready"
           re == "ok"
<1>1. Active(p) /\ p \in Slot /\ proc[p].round \in Int
  BY Slots, ProcFields, TeamAssumption DEF Active, Idle, TInv
<1>2. /\ p # Root /\ e \in End /\ Owner(e) = p /\ ~hd[e].freed
  BY <1>1, AtLeaf
<1>3. touched' = touched
  BY <1>2 DEF TInv
<1>4. /\ Sets(p, c, proc[p].round, proc[p].idx, proc[p].buf, o, re, proc[p].rank, proc[p].parts)
      /\ c = "ready" /\ re = "ok" /\ c # "dead"
  OBVIOUS
<1> HIDE DEF c, re
<1>5. /\ Moves(p) /\ proc'[p].pc = c /\ proc'[p].round = proc[p].round
      /\ proc'[p].out = o /\ proc'[p].res = re
  BY <1>1, <1>4, MovesSet
<1>6. /\ type' = type /\ (Healthy' <=> Healthy) /\ (Sender(p)' <=> Sender(p))
      /\ type \notin {"FANIN", "FANOUT"} /\ type # "GATHER"
  BY <1>1, <1>5, MovesIs, PartyFix DEF Frame, Sym, Down
<1>7. /\ LGot(type, proc'[p].pc, proc'[p].round) = LGot(type, proc[p].pc, proc[p].round) + 1
      /\ LSent(type, proc'[p].pc, proc'[p].round) = LSent(type, proc[p].pc, proc[p].round)
  BY <1>1, <1>4, <1>5, DownCounts
<1>8. Got(e)' = Got(e) + 1
  BY <1>6, <1>7, LeafCounts
<1> DEFINE X == {e}
           Y == {}
<1>9. CountsStay(p, X, Y)
  <2>1. LEnd(p) \in X
    OBVIOUS
  <2> HIDE DEF X, Y
  <2> QED BY <1>6, <1>7, <2>1, StayLeaf
<1>10. ProcOk(p) /\ Conns
  BY <1>1 DEF SBody
<1>11. Conns'
  <2>1. TookAt(e, hd, hd') /\ hd[e].in # <<>> /\ Head(hd[e].in).size # 0
    OBVIOUS
  <2> HIDE DEF e
  <2> QED BY <1>1, <1>2, <1>5, <1>8, <1>9, <1>10, <2>1, ConnTake
<1>12. Expected(p, proc[p].round)' = Expected(p, proc[p].round)
  BY <1>5, RanksFix DEF Expected, Frame
<1>13. ProcOk(p)'
  <2>1. proc'[p].out = Expected(p, proc[p].round)'
    BY <1>5, <1>12
  <2> QED BY <1>4, <1>5, <1>6, <2>1 DEF ProcOk
<1>14. proc'[p].res # "zero"
  BY <1>4, <1>5
<1> QED BY <1>1, <1>2, <1>3, <1>5, <1>6, <1>11, <1>13, <1>14, SafeCall

\* A member finds the end of the stream.
LEMMA SafeLeafEnd ==
  ASSUME TInv, SBody, NEW p \in Leaf, type \in Down, proc[p].pc = "recv", Frame, HdC(p, hd, hd'),
         hd[LEnd(p)].in # <<>>, Head(hd[LEnd(p)].in).size = 0, EosBothAt(LEnd(p), hd, hd'),
         touched' = (touched \/ hd[LEnd(p)].freed \/ hd[LEnd(p)].wr), NEW re, re = "zero",
         Sets(p, "stop", proc[p].round, proc[p].idx, proc[p].buf, proc[p].out, re, proc[p].rank, proc[p].parts)
  PROVE  SBody'
<1> DEFINE e == LEnd(p)
           c == "stop"
<1>1. Active(p) /\ p \in Slot /\ proc[p].round \in Int
  BY Slots, ProcFields, TeamAssumption DEF Active, Idle, TInv
<1>2. /\ p # Root /\ e \in End /\ Owner(e) = p /\ ~hd[e].freed /\ ~hd[e].wr
  BY <1>1, AtLeaf
<1>3. touched' = touched
  BY <1>2 DEF TInv
<1>4. /\ Sets(p, c, proc[p].round, proc[p].idx, proc[p].buf, proc[p].out, re, proc[p].rank, proc[p].parts)
      /\ c = "stop" /\ c # "dead"
  OBVIOUS
<1> HIDE DEF c
<1>5. /\ Moves(p) /\ proc'[p].pc = c /\ proc'[p].round = proc[p].round
      /\ proc'[p].out = proc[p].out /\ proc'[p].res = re
  BY <1>1, <1>4, MovesSet
<1>6. /\ type' = type /\ (Healthy' <=> Healthy) /\ (Sender(p)' <=> Sender(p)) /\ ~Sender(p)
      /\ type \notin {"FANIN", "FANOUT"} /\ type # "GATHER" /\ e \notin Closes(p)
  <2>1. ~Sender(p)
    BY <1>2 DEF Sender, Down
  <2>2. Closes(p) = {}
    BY <1>2 DEF Closes, Down
  <2> QED BY <1>1, <1>5, <2>1, <2>2, MovesIs, PartyFix DEF Frame, Down
<1>7. ~Active(p)' /\ ~Live(e)'
  <2>1. ~Active(p)'
    BY <1>4, <1>5 DEF Active, Idle
  <2> QED BY <1>2, <2>1 DEF Live
<1>8. ProcOk(p) /\ Conns
  BY <1>1 DEF SBody
<1>9. CloseOk(e)'
  <2>1. CloseOk(e) /\ Quiet(e)
    BY <1>2, <1>8 DEF Conns
  <2>2. hd[e].in # <<>> /\ Head(hd[e].in).size = 0
    OBVIOUS
  <2> HIDE DEF e
  <2> QED BY <1>1, <1>2, <1>5, <1>6, <1>7, <2>1, <2>2, CloseEnd
<1> DEFINE Z == {}
<1>10. CountsStay(p, Z, Z)
  <2>1. ASSUME NEW x \in End, Owner(x) = p PROVE ~Live(x)' /\ Sent(x)' = Sent(x)
    <3>1. ~Live(x)'
      BY <1>7, <2>1 DEF Live
    <3>2. PICK j \in Leaf : x = REnd(j) \/ x = LEnd(j)
      BY EndsAll
    <3>3. x = LEnd(p)
      BY <1>2, <2>1, <3>2, EndsAt
    <3>4. \A d : LSent(type, d, proc[p].round) = 0
      BY <1>1, DownCounts
    <3>5. Sent(x)' = Sent(x)
      BY <1>5, <1>6, <3>3, <3>4, LeafCounts
    <3> QED BY <3>1, <3>5
  <2> QED BY <2>1 DEF CountsStay
<1>11. Conns'
  <2>1. hd[e].in # <<>> /\ EosBothAt(e, hd, hd')
    OBVIOUS
  <2> HIDE DEF e
  <2> QED BY <1>1, <1>2, <1>5, <1>7, <1>8, <1>9, <1>10, <2>1, ConnEnd
<1>12. ProcOk(p)'
  BY <1>4, <1>5, <1>6 DEF ProcOk
<1>13. Knows(p)
  BY <1>6 DEF Knows, EosBothAt
<1> QED BY <1>1, <1>2, <1>3, <1>5, <1>6, <1>11, <1>12, <1>13, SafeCall

\* LeafReceives.
LEMMA SafeLeafReceives ==
  ASSUME TInv, SBody, Sound, EveryPart, NEW p \in Leaf, type \in Down \cup Sym \cup {"UCC_OOB"},
         NEW strict \in BOOLEAN, strict <=> type \in Down, NEW cap, cap = LeafCap(p), LeafReceives(p, cap, strict)
  PROVE  SBody'
<1> DEFINE found == Finds(LEnd(p), cap)
           re == IF found = "toolong" THEN "error" ELSE "zero"
           o == Head(hd[LEnd(p)].in).data
<1>1. /\ proc[p].pc = "recv" /\ Readable(LEnd(p)) /\ Frame /\ HdC(p, hd, hd')
      /\ found = "data" =>
           /\ TookAt(LEnd(p), hd, hd') /\ touched' = (touched \/ hd[LEnd(p)].freed)
           /\ Sets(p, "ready", proc[p].round, proc[p].idx, proc[p].buf, o, "ok", proc[p].rank, proc[p].parts)
      /\ found = "eos" =>
           /\ EosBothAt(LEnd(p), hd, hd')
           /\ touched' = (touched \/ hd[LEnd(p)].freed \/ hd[LEnd(p)].wr)
      /\ found # "data" /\ strict =>
           Sets(p, "stop", proc[p].round, proc[p].idx, proc[p].buf, proc[p].out, re,
                proc[p].rank, proc[p].parts)
  BY LeafReceivesIs
<1>2. /\ found \in {"data", "eos"}
      /\ found = "data" => o = Expected(p, proc[p].round) /\ proc[p].round <= Rounds
      /\ found = "eos" => type \in Down
  BY <1>1, LeafFinds
<1>3. /\ found \in {"eos", "data"} => hd[LEnd(p)].in # <<>>
      /\ found = "eos" => Head(hd[LEnd(p)].in).size = 0
      /\ found = "data" => Head(hd[LEnd(p)].in).size # 0
  BY EndsAt, ReceivedIs
<1>4. CASE found = "data"
  <2>1. Sets(p, "ready", proc[p].round, proc[p].idx, proc[p].buf, o, "ok", proc[p].rank, proc[p].parts)
    BY <1>1, <1>4
  <2> HIDE DEF o
  <2> QED BY <1>1, <1>2, <1>3, <1>4, <2>1, SafeLeafTaken
<1>5. CASE found = "eos"
  <2>1. re = "zero" /\ Sets(p, "stop", proc[p].round, proc[p].idx, proc[p].buf, proc[p].out, re,
                proc[p].rank, proc[p].parts)
    BY <1>1, <1>2, <1>5
  <2> HIDE DEF re
  <2> QED BY <1>1, <1>2, <1>3, <1>5, <2>1, SafeLeafEnd
<1> QED BY <1>2, <1>4, <1>5

-----------------------------------------------------------------------------
(* Safety: the exchange of the UCC blocks *)

\* The messages of a round of the exchange.
LEMMA OobData ==
  ASSUME type = "UCC_OOB", NEW k, NEW r \in Int
  PROVE  /\ ToRoot(k, 2 * r - 1) = <<Piece(k, r, RankOf(k), 1)>>
         /\ ToRoot(k, 2 * r) = <<Piece(k, r, 0, 1)>>
         /\ ToLeaf(k, 2 * r - 1) = <<Piece(Root, r, RankOf(Root), 1)>>
<1>1. (2 * r - 1 + 1) \div 2 = r /\ (2 * r - 1) % 2 = 1 /\ (2 * r + 1) \div 2 = r /\ (2 * r) % 2 # 1
  OBVIOUS
<1>2. ToRoot(k, 2 * r - 1) = <<Piece(k, r, RankOf(k), 1)>>
  BY <1>1 DEF ToRoot
<1>3. ToRoot(k, 2 * r) = <<Piece(k, r, 0, 1)>>
  BY <1>1 DEF ToRoot
<1>4. ToLeaf(k, 2 * r - 1) = <<Piece(Root, r, RankOf(Root), 1)>>
  BY <1>1 DEF ToLeaf, Down, Sym
<1> QED BY <1>2, <1>3, <1>4

\* The counts of the root in a round of the exchange, with the member it is at ...
LEMMA OobSelf ==
  ASSUME type = "UCC_OOB", NEW k \in Int, NEW r \in Int, 1 <= k
  PROVE  /\ RSent(type, "collect", r, k, k) = 2 * r - 2 /\ RSent(type, "reply", r, k, k) = 2 * r - 1
         /\ RGot(type, "reply", r, k, k) = 2 * r - 2 /\ RGot(type, "block", r, k, k) = 2 * r - 1
         /\ RGot(type, "collect", r, k + 1, k) = 2 * r /\ RGot(type, "spread", r, 1, k) = 2 * r
<1>1. RSent(type, "collect", r, k, k) = 2 * r - 2 /\ RSent(type, "reply", r, k, k) = 2 * r - 1
  BY DEF RSent, Down, Sym
<1>2. /\ RGot(type, "reply", r, k, k) = 2 * r - 2 /\ RGot(type, "block", r, k, k) = 2 * r - 1
      /\ RGot(type, "collect", r, k + 1, k) = 2 * r /\ RGot(type, "spread", r, 1, k) = 2 * r
  BY DEF RGot, Sym
<1> QED BY <1>1, <1>2

\* ... and with the others.
LEMMA OobCounts ==
  ASSUME type = "UCC_OOB", NEW k \in Int, NEW r \in Int, NEW j \in Int, 1 <= j
  PROVE  /\ j # k => RSent(type, "reply", r, k, j) = RSent(type, "collect", r, k, j)
         /\ RSent(type, "block", r, k, j) = RSent(type, "reply", r, k, j)
         /\ RSent(type, "collect", r, k + 1, j) = RSent(type, "block", r, k, j)
         /\ j <= k => RSent(type, "spread", r, 1, j) = RSent(type, "block", r, k, j)
         /\ RGot(type, "reply", r, k, j) = RGot(type, "collect", r, k, j)
         /\ j # k => RGot(type, "block", r, k, j) = RGot(type, "reply", r, k, j)
         /\ j # k => RGot(type, "collect", r, k + 1, j) = RGot(type, "block", r, k, j)
         /\ j < k => RGot(type, "spread", r, 1, j) = RGot(type, "block", r, k, j)
<1>1. /\ \A i : \A c \in {"collect", "reply", "block"} :
           RSent(type, c, r, i, j) =
             IF j < i \/ (j = i /\ c # "collect") THEN 2 * r - 1 ELSE 2 * r - 2
      /\ RSent(type, "spread", r, 1, j) = 2 * r - 1
  BY DEF RSent, Down, Sym
<1>2. /\ \A i : \A c \in {"collect", "reply", "block"} :
           RGot(type, c, r, i, j) =
             IF i <= j THEN IF c = "block" /\ i = j THEN 2 * r - 1 ELSE 2 * r - 2 ELSE 2 * r
      /\ RGot(type, "spread", r, 1, j) = 2 * r
  BY DEF RGot, Sym
<1>3. /\ j # k => RSent(type, "reply", r, k, j) = RSent(type, "collect", r, k, j)
      /\ RSent(type, "block", r, k, j) = RSent(type, "reply", r, k, j)
  BY <1>1
<1>4. RSent(type, "collect", r, k + 1, j) = RSent(type, "block", r, k, j)
  BY <1>1
<1>5. j <= k => RSent(type, "spread", r, 1, j) = RSent(type, "block", r, k, j)
  BY <1>1
<1>6. /\ RGot(type, "reply", r, k, j) = RGot(type, "collect", r, k, j)
      /\ j # k => RGot(type, "block", r, k, j) = RGot(type, "reply", r, k, j)
  BY <1>2
<1>7. /\ j # k => RGot(type, "collect", r, k + 1, j) = RGot(type, "block", r, k, j)
      /\ j < k => RGot(type, "spread", r, 1, j) = RGot(type, "block", r, k, j)
  BY <1>2
<1> QED BY <1>3, <1>4, <1>5, <1>6, <1>7

\* The blocks of the processes before the one of slot n are in the buffer, or all of them.
Blocks(b, r, c, n) == \A j \in Slot : j < n \/ c = "spread" => b[RankOf(j)] = Piece(j, r, 0, 1)

\* A step of the root in a round of the exchange.
LEMMA SafeOob ==
  ASSUME TInv, SBody, type = "UCC_OOB", Frame, Active(Root), NEW c, NEW i, NEW b, NEW ra, NEW e \in End,
         Sets(Root, c, proc[Root].round, i, b, proc[Root].out, proc[Root].res, ra, proc[Root].parts),
         c \in {"collect", "reply", "block", "spread"}, HdC(Root, hd, hd'), ~hd[e].freed,
         touched' = (touched \/ hd[e].freed), Blocks(b, proc[Root].round, c, i),
         c = "block" => ra = RankOf(i), Conns'
  PROVE  SBody'
<1>1. Root \in Slot /\ c # "dead"
  BY Slots
<1>2. touched' = touched
  BY DEF TInv
<1>3. /\ Moves(Root) /\ proc'[Root].pc = c /\ proc'[Root].round = proc[Root].round /\ proc'[Root].idx = i
      /\ proc'[Root].buf = b /\ proc'[Root].out = proc[Root].out /\ proc'[Root].res = proc[Root].res
      /\ proc'[Root].rank = ra
  BY <1>1, MovesSet
<1>4. type' = type /\ (Healthy' <=> Healthy) /\ (Sender(Root)' <=> Sender(Root)) /\ Sender(Root)
  <2>1. Sender(Root)
    BY DEF Sender, Down
  <2> QED BY <1>1, <1>3, <2>1, MovesIs, PartyFix DEF Frame
<1>5. ProcOk(Root)
  BY <1>1 DEF SBody
<1>6. ProcOk(Root)'
  <2>1. proc[Root].round <= Rounds /\ (Healthy => proc[Root].res # "error" /\ proc[Root].res # "zero")
    BY <1>4, <1>5 DEF ProcOk
  <2> QED BY <1>3, <1>4, <2>1 DEF ProcOk
<1>7. BufOk'
  <2>1. \A j : RankOf(j)' = RankOf(j)
    BY RanksFix
  <2>2. \A j \in Slot : j < proc'[Root].idx \/ proc'[Root].pc = "spread" =>
          proc'[Root].buf[RankOf(j)'] = Piece(j, proc'[Root].round, 0, 1)
    BY <1>3, <2>1 DEF Blocks
  <2>3. proc'[Root].pc = "block" => proc'[Root].rank = RankOf(proc[Root].idx)'
    <3>1. RankOf(i)' = RankOf(i)
      BY <2>1
    <3>2. RankOf(proc[Root].idx)' = RankOf(i)'
      BY <1>3 DEF RankOf
    <3> QED BY <1>3, <3>1, <3>2
  <2>4. type' \notin Sym \cup {"GATHER"}
    BY <1>4 DEF Sym
  <2> QED BY <2>2, <2>3, <2>4 DEF BufOk
<1>8. proc'[Root].res = "zero" => proc[Root].res = "zero"
  BY <1>3
<1> QED BY <1>1, <1>2, <1>3, <1>4, <1>6, <1>7, <1>8, SafeCall

\* The root sends its rank.
LEMMA SafeOobAsks ==
  ASSUME TInv, SBody, Sound, EveryPart, NEW k, OobAsks(k)
  PROVE  SBody'
<1> DEFINE e == REnd(k)
           r == proc[Root].round
           data == Mine(Root, RankOf(Root), 1)
           m == Msg(data)
           c == "reply"
<1>1. type = "UCC_OOB" /\ proc[Root].pc = "collect" /\ k = proc[Root].idx /\ Frame
  BY DEF OobAsks
<1>2. /\ Root \in Slot /\ k \in Leaf /\ Active(Root) /\ e \in End /\ Owner(e) = Root /\ Peer(e) = LEnd(k)
      /\ ~hd[e].wr /\ ~hd[e].freed /\ (Healthy => hd[LEnd(k)].open)
  BY <1>1, AtLoop
<1>3. hd[LEnd(k)].open
  BY <1>1, <1>2, SymHealthy
<1>4. /\ touched' = (touched \/ hd[e].freed) /\ HdC(Root, hd, hd')
      /\ PutAt(LEnd(k), m, hd, hd')
      /\ Sets(Root, c, proc[Root].round, k, proc[Root].buf, proc[Root].out,
              proc[Root].res, proc[Root].rank, proc[Root].parts)
  BY <1>3, OobAsksIs
<1>5. r \in Int /\ k \in Int /\ c = "reply" /\ c # "dead"
  BY <1>2, Slots, ProcFields, TeamAssumption DEF TInv
<1> DEFINE ra == RankOf(Root)
           one == 1
<1>6. data \in Seq(PieceRec) /\ data = <<Piece(Root, r, ra, 1)>>
  <2>1. ra \in Nat /\ one \in Nat /\ one = 1
    BY <1>2, RankIn
  <2> HIDE DEF one, ra
  <2>2. Mine(Root, ra, one) \in Seq(PieceRec) /\ Mine(Root, ra, one) = <<Piece(Root, proc[Root].round, ra, one)>>
    BY <1>2, <2>1, MineIn
  <2> QED BY <2>2 DEF one, ra
<1>7. m = Feed(LEnd(k))[2 * r - 1] /\ m \in MsgRec /\ m.size # 0
  <2>1. 2 * r - 1 \in Int
    BY <1>5
  <2>2. ToLeaf(k, 2 * r - 1) = data
    <3> HIDE DEF r, data
    <3>1. ToLeaf(k, 2 * r - 1) = <<Piece(Root, r, RankOf(Root), 1)>>
      BY <1>1, <1>5, OobData
    <3> QED BY <1>6, <3>1
  <2>3. Feed(LEnd(k))[2 * r - 1] = Msg(ToLeaf(k, 2 * r - 1))
    <3> DEFINE i == 2 * r - 1
    <3> HIDE DEF i
    <3>1. i \in Int
      BY <2>1 DEF i
    <3>2. Feed(LEnd(k))[i] = Msg(ToLeaf(k, i))
      BY <1>2, <3>1, FeedIs, DataIs
    <3> QED BY <3>2 DEF i
  <2>4. Size(data) = 1
    BY <1>6, PieceIs
  <2>5. m \in MsgRec /\ m.size = 1
    BY <1>6, <2>4, MsgIn
  <2> QED BY <2>2, <2>3, <2>5
<1> HIDE DEF c, data, m
<1>8. /\ Moves(Root) /\ proc'[Root].pc = c /\ proc'[Root].round = r /\ proc'[Root].idx = k
  BY <1>1, <1>2, <1>4, <1>5, MovesSet
<1>9. type' = type /\ Conns
  BY <1>1 DEF Frame, SBody
<1>10. Sent(e) = 2 * r - 2 /\ Sent(e)' = 2 * r - 1
  <2>1. Sent(e) = RSent(type, "collect", r, k, k) /\ Sent(e)' = RSent(type, "reply", r, k, k)
    BY <1>1, <1>2, <1>5, <1>8, <1>9, RootCounts
  <2> HIDE DEF e, r
  <2>2. 1 <= k
    BY <1>2, Slots
  <2> QED BY <1>1, <1>5, <2>1, <2>2, OobSelf
<1> DEFINE X == {}
           Y == {e}
<1>11. CountsStay(Root, X, Y)
  <2>1. ASSUME NEW j \in Leaf
        PROVE  /\ RGot(type, proc'[Root].pc, proc'[Root].round, proc'[Root].idx, j)
                    = RGot(type, proc[Root].pc, proc[Root].round, proc[Root].idx, j)
               /\ REnd(j) \notin Y =>
                    RSent(type, proc'[Root].pc, proc'[Root].round, proc'[Root].idx, j)
                      = RSent(type, proc[Root].pc, proc[Root].round, proc[Root].idx, j)
    <3>0. j \in Int /\ 1 <= j
      BY Slots
    <3>1. REnd(j) \notin Y => j # k
      OBVIOUS
    <3> HIDE DEF r, Y, e
    <3>2. /\ j # k => RSent(type, "reply", r, k, j) = RSent(type, "collect", r, k, j)
          /\ RGot(type, "reply", r, k, j) = RGot(type, "collect", r, k, j)
      <4>1. type = "UCC_OOB" /\ k \in Int /\ r \in Int
        BY <1>1, <1>5
      <4> QED BY ONLY <3>0, <4>1, OobCounts
    <3> QED BY <1>1, <1>5, <1>8, <3>1, <3>2 DEF r
  <2> HIDE DEF Y
  <2> QED BY <1>1, <1>9, <2>1, StayRoot
<1>12. Conns'
  <2>1. Sent(e) + 1 = 2 * r - 1 /\ type \notin Down \cup {"GATHER"} /\ Sent(e)' = Sent(e) + 1
    BY <1>1, <1>5, <1>10 DEF Down
  <2>2. PutAt(Peer(e), m, hd, hd') /\ m = Feed(Peer(e))[Sent(e) + 1]
    BY <1>2, <1>4, <1>7, <2>1
  <2> HIDE DEF e
  <2> QED BY <1>2, <1>7, <1>8, <1>9, <1>11, <2>1, <2>2, ConnPut
<1>13. Blocks(proc[Root].buf, proc[Root].round, c, k)
  <2>1. BufOk
    BY DEF SBody
  <2> QED BY <1>1, <1>5, <2>1 DEF BufOk, Blocks
<1> DEFINE b == proc[Root].buf
           rr == proc[Root].rank
<1> HIDE DEF e
<1>14. /\ Sets(Root, c, proc[Root].round, k, b, proc[Root].out, proc[Root].res, rr, proc[Root].parts)
       /\ Blocks(b, proc[Root].round, c, k) /\ c # "block"
  BY <1>4, <1>5, <1>13
<1> HIDE DEF b, rr
<1> QED BY <1>1, <1>2, <1>4, <1>5, <1>12, <1>14, SafeOob

\* What the root takes from a member in a round of the exchange.
LEMMA OobTakes ==
  ASSUME TInv, SBody, EveryPart, NEW k, type = "UCC_OOB", proc[Root].pc \in {"reply", "block"},
         k = proc[Root].idx, Takes(REnd(k)), NEW r, r = proc[Root].round
  PROVE  /\ proc[Root].pc = "reply" => Got(REnd(k)) = 2 * r - 2 /\ First(REnd(k)) = Piece(k, r, RankOf(k), 1)
         /\ proc[Root].pc = "block" => Got(REnd(k)) = 2 * r - 1 /\ First(REnd(k)) = Piece(k, r, 0, 1)
         /\ HdC(Root, hd, hd') /\ TookAt(REnd(k), hd, hd') /\ hd[REnd(k)].in # <<>>
         /\ Head(hd[REnd(k)].in).size # 0 /\ touched' = (touched \/ hd[REnd(k)].freed)
<1> DEFINE e == REnd(k)
<1>1. Root \in Slot /\ k \in Leaf /\ e \in End /\ Owner(e) = Root /\ Live(e)
  BY AtLoop
<1>2. /\ hd[e].in # <<>> /\ Head(hd[e].in).size > 0 /\ TookAt(e, hd, hd') /\ HdC(Root, hd, hd')
      /\ touched' = (touched \/ hd[e].freed) /\ First(e) = Head(Head(hd[e].in).data)
  BY <1>1, TakesIs
<1>3. Head(hd[e].in) = Feed(e)[Got(e) + 1]
  BY <1>1, <1>2, HeadIs
<1>4. r \in Int /\ k \in Int /\ 1 <= k
  BY <1>1, Slots, ProcFields, TeamAssumption DEF TInv
<1>5. Got(e) = RGot(type, proc[Root].pc, r, k, k)
  BY <1>1, RootCounts
<1>6. RGot(type, "reply", r, k, k) = 2 * r - 2 /\ RGot(type, "block", r, k, k) = 2 * r - 1
  BY <1>4, OobSelf
<1>7. ASSUME NEW i \in Int, Got(e) + 1 = i, NEW x, ToRoot(k, i) = <<x>> PROVE First(e) = x
  <2>1. Feed(e)[i].data = ToRoot(k, i)
    BY <1>1, UpNext
  <2> QED BY <1>2, <1>3, <1>7, <2>1
<1>8. ToRoot(k, 2 * r - 1) = <<Piece(k, r, RankOf(k), 1)>> /\ ToRoot(k, 2 * r) = <<Piece(k, r, 0, 1)>>
  BY <1>4, OobData
<1>9. ASSUME proc[Root].pc = "reply"
      PROVE  Got(e) = 2 * r - 2 /\ First(e) = Piece(k, r, RankOf(k), 1)
  <2>1. Got(e) = 2 * r - 2 /\ Got(e) + 1 = 2 * r - 1 /\ 2 * r - 1 \in Int
    BY <1>4, <1>5, <1>6, <1>9
  <2> HIDE DEF e
  <2> QED BY <1>7, <1>8, <2>1
<1>10. ASSUME proc[Root].pc = "block"
      PROVE  Got(e) = 2 * r - 1 /\ First(e) = Piece(k, r, 0, 1)
  <2>1. Got(e) = 2 * r - 1 /\ Got(e) + 1 = 2 * r /\ 2 * r \in Int
    BY <1>4, <1>5, <1>6, <1>10
  <2> HIDE DEF e
  <2> QED BY <1>7, <1>8, <2>1
<1> QED BY <1>2, <1>9, <1>10

\* The root takes a message and goes on to c, at i.
LEMMA SafeOobTaken ==
  ASSUME TInv, SBody, EveryPart, NEW k, type = "UCC_OOB", proc[Root].pc \in {"reply", "block"}, Frame,
         k = proc[Root].idx, Takes(REnd(k)), NEW c, NEW i, NEW b, NEW ra,
         Sets(Root, c, proc[Root].round, i, b, proc[Root].out, proc[Root].res, ra, proc[Root].parts),
         \/ proc[Root].pc = "reply" /\ c = "block" /\ i = k
         \/ proc[Root].pc = "block" /\ c = "collect" /\ i = k + 1
         \/ proc[Root].pc = "block" /\ c = "spread" /\ i = 1 /\ k = N - 1,
         Blocks(b, proc[Root].round, c, i), c = "block" => ra = RankOf(i)
  PROVE  SBody'
<1> DEFINE e == REnd(k)
           r == proc[Root].round
<1>1. Root \in Slot /\ k \in Leaf /\ Active(Root) /\ e \in End /\ Owner(e) = Root /\ ~hd[e].freed
  BY AtLoop
<1>2. /\ HdC(Root, hd, hd') /\ TookAt(e, hd, hd') /\ hd[e].in # <<>>
      /\ Head(hd[e].in).size # 0 /\ touched' = (touched \/ hd[e].freed)
  BY OobTakes
<1>3. r \in Int /\ k \in Int /\ 1 <= k /\ N \in Int /\ c \in {"collect", "reply", "block", "spread"} /\ c # "dead"
  BY <1>1, Slots, ProcFields, TeamAssumption DEF TInv
<1>4. /\ Moves(Root) /\ proc'[Root].pc = c /\ proc'[Root].round = r /\ proc'[Root].idx = i
  BY <1>1, <1>2, <1>3, MovesSet
<1>5. type' = type /\ Conns
  BY DEF Frame, SBody
<1>6. Got(e)' = Got(e) + 1
  <2>1. Got(e) = RGot(type, proc[Root].pc, r, k, k) /\ Got(e)' = RGot(type, c, r, i, k)
    BY <1>1, <1>4, <1>5, RootCounts
  <2> HIDE DEF e, r
  <2>2. /\ RGot(type, "reply", r, k, k) = 2 * r - 2 /\ RGot(type, "block", r, k, k) = 2 * r - 1
        /\ RGot(type, "collect", r, k + 1, k) = 2 * r /\ RGot(type, "spread", r, 1, k) = 2 * r
    BY ONLY type = "UCC_OOB", <1>3, OobSelf
  <2> QED BY <1>3, <2>1, <2>2
<1> DEFINE X == {e}
           Y == {}
<1>7. CountsStay(Root, X, Y)
  <2>1. ASSUME NEW j \in Leaf
        PROVE  /\ REnd(j) \notin X =>
                    RGot(type, proc'[Root].pc, proc'[Root].round, proc'[Root].idx, j)
                      = RGot(type, proc[Root].pc, proc[Root].round, proc[Root].idx, j)
               /\ RSent(type, proc'[Root].pc, proc'[Root].round, proc'[Root].idx, j)
                    = RSent(type, proc[Root].pc, proc[Root].round, proc[Root].idx, j)
    <3>0. j \in Int /\ 1 <= j /\ j <= N - 1
      BY Slots
    <3>1. REnd(j) \notin X => j # k
      OBVIOUS
    <3> HIDE DEF r, X, e
    <3>2. /\ RSent(type, "block", r, k, j) = RSent(type, "reply", r, k, j)
          /\ RSent(type, "collect", r, k + 1, j) = RSent(type, "block", r, k, j)
          /\ j <= k => RSent(type, "spread", r, 1, j) = RSent(type, "block", r, k, j)
          /\ j # k => RGot(type, "block", r, k, j) = RGot(type, "reply", r, k, j)
          /\ j # k => RGot(type, "collect", r, k + 1, j) = RGot(type, "block", r, k, j)
          /\ j < k => RGot(type, "spread", r, 1, j) = RGot(type, "block", r, k, j)
      <4>1. type = "UCC_OOB" /\ k \in Int /\ r \in Int
        BY <1>3
      <4> QED BY ONLY <3>0, <4>1, OobCounts
    <3>3. k = N - 1 => j <= k /\ (j # k => j < k)
      BY <1>3, <3>0
    <3>4. RSent(type, c, r, i, j) = RSent(type, proc[Root].pc, r, k, j)
      BY <3>2, <3>3
    <3>5. j # k => RGot(type, c, r, i, j) = RGot(type, proc[Root].pc, r, k, j)
      BY <3>2, <3>3
    <3> QED BY <1>4, <3>1, <3>4, <3>5 DEF r
  <2> HIDE DEF X
  <2> QED BY <1>5, <2>1, StayRoot
<1>8. Conns'
  <2> HIDE DEF e
  <2> QED BY <1>1, <1>2, <1>4, <1>5, <1>6, <1>7, ConnTake
<1> HIDE DEF e
<1> QED BY <1>1, <1>2, <1>3, <1>8, SafeOob

\* The root takes the rank of a member, then its block.
LEMMA SafeOobRoot ==
  ASSUME TInv, SBody, Sound, EveryPart, NEW k, OobAsks(k) \/ OobReply(k) \/ OobBlock(k)
  PROVE  SBody'
<1>1. CASE OobAsks(k)
  BY <1>1, SafeOobAsks
<1>2. CASE OobReply(k)
  <2> DEFINE c == "block"
             b == proc[Root].buf
             ra == First(REnd(k)).off
  <2>1. type = "UCC_OOB" /\ proc[Root].pc = "reply" /\ k = proc[Root].idx /\ Takes(REnd(k)) /\ Frame
    BY <1>2 DEF OobReply
  <2>2. Sets(Root, c, proc[Root].round, k, b, proc[Root].out, proc[Root].res, ra, proc[Root].parts)
    BY <1>2, OobReplyIs
  <2>3. First(REnd(k)) = Piece(k, proc[Root].round, RankOf(k), 1)
    BY <2>1, OobTakes
  <2>4. ra = RankOf(k) /\ c = "block"
    BY <2>3 DEF Piece
  <2>5. Blocks(b, proc[Root].round, c, k)
    <3>1. BufOk
      BY DEF SBody
    <3> QED BY <2>1, <3>1 DEF BufOk, Blocks
  <2> HIDE DEF c, b, ra
  <2> QED BY <2>1, <2>2, <2>4, <2>5, SafeOobTaken
<1>3. CASE OobBlock(k)
  <2> DEFINE c == IF k < N - 1 THEN "collect" ELSE "spread"
             i == IF k < N - 1 THEN k + 1 ELSE 1
             b == [proc[Root].buf EXCEPT ![proc[Root].rank] = First(REnd(k))]
             ra == proc[Root].rank
  <2>1. type = "UCC_OOB" /\ proc[Root].pc = "block" /\ k = proc[Root].idx /\ Takes(REnd(k)) /\ Frame
    BY <1>3 DEF OobBlock
  <2>2. /\ k \in Leaf /\ proc[Root].buf \in [Slot -> PieceRec]
        /\ Sets(Root, c, proc[Root].round, i, b, proc[Root].out, proc[Root].res, ra, proc[Root].parts)
    BY <1>3, OobBlockIs
  <2>3. First(REnd(k)) = Piece(k, proc[Root].round, 0, 1)
    BY <2>1, OobTakes
  <2>4. k \in Int /\ k <= N - 1 /\ N \in Int /\ k \in Slot /\ Slot \subseteq Nat
    BY <2>2, Slots
  <2>5. ra = RankOf(k) /\ RankOf(k) \in Slot
    <3>1. BufOk
      BY DEF SBody
    <3> QED BY <2>1, <2>4, <3>1, RankIn DEF BufOk
  <2>6. ASSUME NEW j \in Slot, j <= k PROVE b[RankOf(j)] = Piece(j, proc[Root].round, 0, 1)
    <3>1. CASE j = k
      BY <2>2, <2>3, <2>5, <3>1
    <3>2. CASE j # k
      <4>1. j < k
        BY <2>4, <2>6, <3>2
      <4>2. BufOk
        BY DEF SBody
      <4>3. proc[Root].buf[RankOf(j)] = Piece(j, proc[Root].round, 0, 1)
        BY <2>1, <4>1, <4>2 DEF BufOk
      <4>4. RankOf(j) # RankOf(k) /\ RankOf(j) \in Slot
        BY <2>4, <3>2, RankOne, RankIn
      <4> QED BY <2>2, <2>5, <4>3, <4>4
    <3> QED BY <3>1, <3>2
  <2>7. \A j \in Slot : j < i \/ c = "spread" => j <= k
    <3>1. \A j \in Slot : j \in Int /\ j <= N - 1
      BY <2>4 DEF Slot
    <3>2. CASE k < N - 1
      BY <2>4, <3>1, <3>2
    <3>3. CASE k = N - 1
      BY <2>4, <3>1, <3>3
    <3> QED BY <2>4, <3>2, <3>3
  <2>8. \/ c = "collect" /\ i = k + 1
        \/ c = "spread" /\ i = 1 /\ k = N - 1
    BY <2>4
  <2> HIDE DEF c, i, b, ra
  <2>9. Blocks(b, proc[Root].round, c, i)
    BY <2>6, <2>7 DEF Blocks
  <2> QED BY <2>1, <2>2, <2>8, <2>9, SafeOobTaken
<1> QED BY <1>1, <1>2, <1>3

\* A member takes the rank of the root.
LEMMA SafeOobResult ==
  ASSUME TInv, SBody, NEW p \in Leaf, OobResult(p)
  PROVE  SBody'
<1> DEFINE e == LEnd(p)
           c == "send"
<1>1. type = "UCC_OOB" /\ proc[p].pc = "result" /\ Takes(LEnd(p)) /\ Goto(p, c) /\ Frame
  BY DEF OobResult
<1>2. Active(p) /\ p \in Slot /\ proc[p].round \in Int
  BY <1>1, Slots, ProcFields, TeamAssumption DEF Active, Idle, TInv
<1>3. /\ p # Root /\ e \in End /\ Owner(e) = p /\ ~hd[e].freed
  BY <1>2, AtLeaf
<1>4. /\ hd[e].in # <<>> /\ Head(hd[e].in).size > 0 /\ TookAt(e, hd, hd') /\ HdC(p, hd, hd')
      /\ touched' = (touched \/ hd[e].freed)
  BY <1>1, <1>3, TakesIs
<1>5. c \in Pc /\ c = "send" /\ c # "dead"
  BY DEF Pc
<1> HIDE DEF c
<1>6. touched' = touched
  BY <1>3, <1>4 DEF TInv
<1>7. Sets(p, c, proc[p].round, proc[p].idx, proc[p].buf, proc[p].out, proc[p].res, proc[p].rank, proc[p].parts)
  BY <1>1, <1>2, <1>5, GotoIs
<1>8. /\ Moves(p) /\ proc'[p].pc = c /\ proc'[p].round = proc[p].round
      /\ proc'[p].out = proc[p].out /\ proc'[p].res = proc[p].res
  BY <1>1, <1>2, <1>4, <1>5, <1>7, MovesSet
<1>9. /\ type' = type /\ (Healthy' <=> Healthy) /\ (Sender(p)' <=> Sender(p)) /\ Sender(p)
  <2>1. Sender(p)
    BY <1>1 DEF Sender, Down
  <2> QED BY <1>1, <1>2, <1>8, <2>1, MovesIs, PartyFix DEF Frame
<1>10. /\ LGot(type, proc'[p].pc, proc'[p].round) = LGot(type, proc[p].pc, proc[p].round) + 1
       /\ LSent(type, proc'[p].pc, proc'[p].round) = LSent(type, proc[p].pc, proc[p].round)
  <2>1. \A r \in Int : /\ LGot(type, "send", r) = LGot(type, "result", r) + 1
                       /\ LSent(type, "send", r) = LSent(type, "result", r)
    BY <1>1 DEF LGot, LSent, Down, Sym
  <2> QED BY <1>1, <1>2, <1>5, <1>8, <2>1
<1>11. Got(e)' = Got(e) + 1
  BY <1>1, <1>9, <1>10, LeafCounts
<1> DEFINE X == {e}
           Y == {}
<1>12. CountsStay(p, X, Y)
  <2>1. LEnd(p) \in X
    OBVIOUS
  <2> HIDE DEF X, Y
  <2> QED BY <1>1, <1>9, <1>10, <2>1, StayLeaf
<1>13. ProcOk(p) /\ Conns
  BY <1>2 DEF SBody
<1>14. Conns'
  <2>1. Head(hd[e].in).size # 0
    BY <1>4
  <2> HIDE DEF e
  <2> QED BY <1>2, <1>3, <1>4, <1>8, <1>11, <1>12, <1>13, <2>1, ConnTake
<1>15. ProcOk(p)'
  BY <1>1, <1>5, <1>8, <1>9, <1>13 DEF ProcOk
<1> QED BY <1>1, <1>2, <1>3, <1>6, <1>8, <1>14, <1>15, SafeCall

-----------------------------------------------------------------------------
(* Safety: all the calls *)

\* The parts fit the buffers of a team in rank order, and no call is refused.
LEMMA NeverRefused ==
  ASSUME TInv, InRankOrder, type \in Cutting
  PROVE  ~Refused
<1>1. pos = 0
  BY DEF InRankOrder
<1>2. RankOf(Root) = 0
  BY <1>1 DEF RankOf
<1>3. datacount \in Nat
  BY Slots, RankIn
<1>4. Share(0) \in Nat
  BY <1>3, ShareIs
<1> QED BY <1>2, <1>4 DEF Refused

\* A call of the root begins with its own part.
LEMMA SafeBeginRoot ==
  ASSUME TInv, SBody, InRankOrder, NEW c \in {"collect", "spread"}, NEW own,
         Begin(Root, c, own) \/ (type \in Cutting /\ BeginCut(c, own)),
         \/ type \in Down /\ own = <<>> /\ c = "spread"
         \/ type = "UCC_OOB" /\ c = "collect" /\ own = [j \in Slot |-> Piece(Root, proc[Root].round + 1, 0, 1)]
         \/ type \in Sym \cup {"GATHER"} /\ c = "collect" /\ own = Own(Root, 0, UpLen(0))
  PROVE  SBody'
<1>1. Root \in Slot /\ c \in Pc /\ Root = 0
  BY Slots DEF Pc, Root
<1>2. Begin(Root, c, own)
  BY NeverRefused DEF BeginCut
<1>3. FirstIn(Root, c)
  BY DEF FirstIn
<1>4. Own(Root, 0, UpLen(0)) = <<Piece(0, proc[Root].round + 1, 0, UpLen(0))>>
  BY <1>1 DEF Own, Round
<1>5. proc[Root].round \in Nat /\ datacount \in Nat
  BY <1>1, ProcFields, RankIn, TeamAssumption DEF TInv
<1>6. UpLen(0) \in Nat
  BY <1>5, ShareIs DEF UpLen
<1>7. own \in [Slot -> PieceRec] \cup Seq(PieceRec)
  <2>1. CASE own = <<>>
    <3>1. <<>> \in Seq(PieceRec)
      OBVIOUS
    <3> QED BY <2>1, <3>1
  <2>2. CASE own = [j \in Slot |-> Piece(Root, proc[Root].round + 1, 0, 1)]
    <3>1. [j \in Slot |-> Piece(Root, proc[Root].round + 1, 0, 1)] \in [Slot -> PieceRec]
      BY OwnIn DEF Round
    <3> QED BY <2>2, <3>1
  <2>3. CASE own = Own(Root, 0, UpLen(0))
    <3> DEFINE z == 0
               l == UpLen(0)
    <3>1. z \in Nat /\ l \in Nat
      BY <1>6
    <3> HIDE DEF z, l
    <3>2. Own(Root, z, l) \in Seq(PieceRec)
      BY <1>1, <3>1, MineIn
    <3> QED BY <2>3, <3>2 DEF z, l
  <2> QED BY <2>1, <2>2, <2>3
<1>8. /\ type \in Sym \cup {"GATHER"} => own = <<Piece(0, proc[Root].round + 1, 0, UpLen(0))>>
      /\ type = "UCC_OOB" => own = [j \in Slot |-> Piece(Root, proc[Root].round + 1, 0, 1)]
  BY <1>4 DEF Down, Sym
<1> QED BY <1>1, <1>2, <1>3, <1>7, <1>8, SafeBegin

\* The root sends to its members.
LEMMA SafeSpreads ==
  ASSUME TInv, SBody, Sound, EveryPart, type \in Down \cup Sym \cup {"UCC_OOB"}, NEW d, NEW y, Spread(d, y),
         \/ type = "BROADCAST" /\ y = Mine(Root, 0, datacount) /\ \A k \in Leaf : d[k] = y
         \/ /\ type = "SCATTER" /\ y = Mine(Root, Offset(0), Share(0))
            /\ \A k \in Leaf : d[k] = Mine(Root, Offset(k), Share(k))
         \/ type \in {"ALLGATHER", "MPI_CREATE"} /\ y = proc[Root].buf /\ \A k \in Leaf : d[k] = y
         \/ type = "ALLTOALL" /\ y = Transposed(0) /\ \A k \in Leaf : d[k] = Transposed(k)
         \/ type = "UCC_OOB" /\ y = [i \in 1 .. N |-> proc[Root].buf[i - 1]] /\ \A k \in Leaf : d[k] = y
  PROVE  SBody'
<1> DEFINE k == proc[Root].idx
<1>1. proc[Root].pc = "spread" /\ k = proc[Root].idx /\ Root = 0
  BY DEF Spread, InCall, Root
<1> HIDE DEF k
<1>2. /\ k \in Leaf /\ k \in Slot /\ Root \in Slot
      /\ Mine(Root, 0, datacount) \in Seq(PieceRec)
      /\ \A j \in Slot : Mine(Root, Offset(j), Share(j)) \in Seq(PieceRec)
      /\ type \in Sym => proc[Root].buf \in Seq(PieceRec)
      /\ type = "UCC_OOB" => [i \in 1 .. N |-> proc[Root].buf[i - 1]] \in Seq(PieceRec)
  BY <1>1, SpreadData
<1>3. type \in Sym => \A j \in Slot : Transposed(j) \in Seq(PieceRec)
  BY <1>1, TransposedIn
<1>4. BufOk /\ InRankOrder
  BY DEF SBody, Sound
<1>5. LET r == proc[Root].round IN
      /\ type = "BROADCAST" => \A j \in Slot : Mine(Root, 0, datacount) = Expected(j, r)
      /\ type = "SCATTER" => \A j \in Slot : Mine(Root, Offset(j), Share(j)) = Expected(j, r)
      /\ type \in {"ALLGATHER", "MPI_CREATE"} => \A j \in Slot : proc[Root].buf = Expected(j, r)
      /\ type = "ALLTOALL" => \A j \in Slot : Transposed(j) = Expected(j, r)
      /\ type = "UCC_OOB" =>
           \A j \in Slot : [i \in 1 .. N |-> proc[Root].buf[i - 1]] = Expected(j, r)
  BY <1>1, <1>4, SpreadSends
<1>6. /\ d[k] \in Seq(PieceRec) /\ y \in Seq(PieceRec)
      /\ d[k] = Expected(k, proc[Root].round) /\ y = Expected(Root, proc[Root].round)
  <2>1. CASE type = "BROADCAST"
    BY <1>2, <1>5, <2>1
  <2>2. CASE type = "SCATTER"
    BY <1>1, <1>2, <1>5, <2>2
  <2>3. CASE type \in {"ALLGATHER", "MPI_CREATE"}
    BY <1>2, <1>5, <2>3 DEF Sym
  <2>4. CASE type = "ALLTOALL"
    BY <1>1, <1>2, <1>3, <1>5, <2>4 DEF Sym
  <2>5. CASE type = "UCC_OOB"
    <3> DEFINE rb == [i \in 1 .. N |-> proc[Root].buf[i - 1]]
    <3>1. y = rb /\ d[k] = rb
      BY <1>2, <2>5
    <3>2. rb \in Seq(PieceRec) /\ rb = Expected(k, proc[Root].round) /\ rb = Expected(Root, proc[Root].round)
      BY <1>2, <1>5, <2>5
    <3> HIDE DEF rb
    <3> QED BY <3>1, <3>2
  <2> QED BY <2>1, <2>2, <2>3, <2>4, <2>5
<1> QED BY <1>1, <1>6, SafeSpread

\* The calls of the root.
LEMMA SafeRoot ==
  ASSUME TInv, SBody, Sound, EveryPart, Sendrecv(Root) \/ Create(Root)
  PROVE  SBody'
<1>0. InRankOrder /\ Root = 0
  BY DEF Sound, Root
<1>1. ASSUME type = "BROADCAST", BroadcastRoot PROVE SBody'
  <2> DEFINE y == Mine(Root, 0, datacount)
             d == [k \in Leaf |-> y]
             c == "spread"
             own == <<>>
  <2>1. /\ c \in {"collect", "spread"} /\ c = "spread" /\ own = <<>> /\ type \in Down
        /\ type \in Down \cup Sym \cup {"UCC_OOB"} /\ (Begin(Root, c, own) \/ Spread(d, y))
        /\ y = Mine(Root, 0, datacount) /\ \A k \in Leaf : d[k] = y
    BY <1>1 DEF BroadcastRoot, Down
  <2> HIDE DEF c, own, y, d
  <2> QED BY <1>0, <1>1, <2>1, SafeBeginRoot, SafeSpreads
<1>2. ASSUME type = "SCATTER", ScatterRoot PROVE SBody'
  <2> DEFINE d == [k \in Slot |-> Mine(Root, Offset(k), Share(k))]
             y == d[0]
             c == "spread"
             own == <<>>
  <2>1. /\ c \in {"collect", "spread"} /\ c = "spread" /\ own = <<>> /\ type \in Down /\ type \in Cutting
        /\ type \in Down \cup Sym \cup {"UCC_OOB"} /\ (BeginCut(c, own) \/ Spread(d, y))
        /\ y = Mine(Root, Offset(0), Share(0)) /\ \A k \in Leaf : d[k] = Mine(Root, Offset(k), Share(k))
    BY <1>0, <1>2, Slots DEF ScatterRoot, Down, Cutting
  <2> HIDE DEF c, own, y, d
  <2> QED BY <1>0, <1>2, <2>1, SafeBeginRoot, SafeSpreads
<1>3. ASSUME type = "GATHER", GatherRoot PROVE SBody'
  <2> DEFINE own == Own(Root, 0, Share(0))
             cap == [k \in Leaf |-> Share(k)]
             c == "collect"
             pc == "return"
  <2>1. /\ c \in {"collect", "spread"} /\ c = "collect" /\ own = Own(Root, 0, UpLen(0)) /\ type \in Cutting
        /\ type \in Sym \cup {"GATHER"} /\ pc = "return" /\ (BeginCut(c, own) \/ Collect(cap, pc))
        /\ \A k \in Leaf : cap[k] = UpLen(k)
    BY <1>3 DEF GatherRoot, Cutting, UpLen
  <2> HIDE DEF c, own, cap, pc
  <2> QED BY <1>0, <1>3, <2>1, SafeBeginRoot, SafeCollect
<1>4. ASSUME type = "ALLGATHER", AllGatherRoot PROVE SBody'
  <2> DEFINE own == Own(Root, 0, Share(0))
             cap == [k \in Leaf |-> Share(k)]
             c == "collect"
             pc == "spread"
             y == proc[Root].buf
             d == [k \in Leaf |-> y]
  <2>1. /\ c \in {"collect", "spread"} /\ c = "collect" /\ own = Own(Root, 0, UpLen(0)) /\ type \in Cutting
        /\ type \in Sym \cup {"GATHER"} /\ type \in Sym /\ pc = "spread" /\ type \in Down \cup Sym \cup {"UCC_OOB"}
        /\ (BeginCut(c, own) \/ Collect(cap, pc) \/ Spread(d, y))
        /\ \A k \in Leaf : cap[k] = UpLen(k)
        /\ y = proc[Root].buf /\ \A k \in Leaf : d[k] = y
    BY <1>4 DEF AllGatherRoot, Cutting, UpLen, Sym
  <2> HIDE DEF c, own, cap, pc, y, d
  <2>2. CASE BeginCut(c, own)
    BY <1>0, <2>1, <2>2, SafeBeginRoot
  <2>3. CASE Collect(cap, pc)
    BY <2>1, <2>3, SafeCollect
  <2>4. CASE Spread(d, y)
    BY <1>4, <2>1, <2>4, SafeSpreads
  <2> QED BY <2>1, <2>2, <2>3, <2>4
<1>5. ASSUME type = "ALLTOALL", AlltoallRoot PROVE SBody'
  <2> DEFINE own == Own(Root, 0, datacount)
             cap == [k \in Leaf |-> datacount]
             c == "collect"
             pc == "spread"
             y == Transposed(0)
             d == [k \in Leaf |-> Transposed(k)]
  <2>1. /\ c \in {"collect", "spread"} /\ c = "collect" /\ own = Own(Root, 0, UpLen(0))
        /\ type \in Sym \cup {"GATHER"} /\ type \in Sym /\ pc = "spread" /\ type \in Down \cup Sym \cup {"UCC_OOB"}
        /\ (Begin(Root, c, own) \/ Collect(cap, pc) \/ Spread(d, y))
        /\ \A k \in Leaf : cap[k] = UpLen(k)
        /\ y = Transposed(0) /\ \A k \in Leaf : d[k] = Transposed(k)
    BY <1>5 DEF AlltoallRoot, UpLen, Sym
  <2> HIDE DEF c, own, cap, pc, y, d
  <2>2. CASE Begin(Root, c, own)
    BY <1>0, <2>1, <2>2, SafeBeginRoot
  <2>3. CASE Collect(cap, pc)
    BY <2>1, <2>3, SafeCollect
  <2>4. CASE Spread(d, y)
    BY <1>5, <2>1, <2>4, SafeSpreads
  <2> QED BY <2>1, <2>2, <2>3, <2>4
<1>6. ASSUME type = "MPI_CREATE", MPICreateRoot PROVE SBody'
  <2> DEFINE own == Own(Root, 0, 1)
             cap == [k \in Leaf |-> 1]
             c == "collect"
             pc == "spread"
             y == proc[Root].buf
             d == [k \in Leaf |-> y]
  <2>1. /\ c \in {"collect", "spread"} /\ c = "collect" /\ own = Own(Root, 0, UpLen(0))
        /\ type \in Sym \cup {"GATHER"} /\ type \in Sym /\ pc = "spread" /\ type \in Down \cup Sym \cup {"UCC_OOB"}
        /\ (Begin(Root, c, own) \/ Collect(cap, pc) \/ Spread(d, y))
        /\ \A k \in Leaf : cap[k] = UpLen(k)
        /\ y = proc[Root].buf /\ \A k \in Leaf : d[k] = y
    BY <1>6 DEF MPICreateRoot, UpLen, Sym
  <2> HIDE DEF c, own, cap, pc, y, d
  <2>2. CASE Begin(Root, c, own)
    BY <1>0, <2>1, <2>2, SafeBeginRoot
  <2>3. CASE Collect(cap, pc)
    BY <2>1, <2>3, SafeCollect
  <2>4. CASE Spread(d, y)
    BY <1>6, <2>1, <2>4, SafeSpreads
  <2> QED BY <2>1, <2>2, <2>3, <2>4
<1>7. ASSUME type = "UCC_OOB", OobRoot PROVE SBody'
  <2> DEFINE own == [j \in Slot |-> Piece(Root, proc[Root].round + 1, 0, 1)]
             y == [i \in 1 .. N |-> proc[Root].buf[i - 1]]
             d == [j \in Leaf |-> y]
             c == "collect"
  <2>1. Begin(Root, c, own) \/ (\E k : OobAsks(k) \/ OobReply(k) \/ OobBlock(k)) \/ Spread(d, y)
    BY <1>7, OobSteps DEF Round
  <2>2. /\ c \in {"collect", "spread"} /\ c = "collect"
        /\ own = [j \in Slot |-> Piece(Root, proc[Root].round + 1, 0, 1)]
        /\ type \in Down \cup Sym \cup {"UCC_OOB"}
    BY <1>7
  <2>3. y = [i \in 1 .. N |-> proc[Root].buf[i - 1]] /\ \A k \in Leaf : d[k] = y
    <3>1. y = [i \in 1 .. N |-> proc[Root].buf[i - 1]]
      OBVIOUS
    <3> HIDE DEF y
    <3> QED BY <3>1
  <2> HIDE DEF c, own, y, d
  <2>4. CASE Begin(Root, c, own)
    BY <1>0, <1>7, <2>2, <2>4, SafeBeginRoot
  <2>5. CASE \E k : OobAsks(k) \/ OobReply(k) \/ OobBlock(k)
    BY <2>5, SafeOobRoot
  <2>6. CASE Spread(d, y)
    BY <1>7, <2>2, <2>3, <2>6, SafeSpreads
  <2> QED BY <2>1, <2>4, <2>5, <2>6
<1>8. \/ BroadcastRoot \/ ScatterRoot \/ GatherRoot \/ AllGatherRoot \/ AlltoallRoot
      \/ MPICreateRoot \/ OobRoot
  BY DEF Sendrecv, Create
<1>9. /\ (BroadcastRoot => type = "BROADCAST") /\ (ScatterRoot => type = "SCATTER")
      /\ (GatherRoot => type = "GATHER") /\ (AllGatherRoot => type = "ALLGATHER")
      /\ (AlltoallRoot => type = "ALLTOALL") /\ (MPICreateRoot => type = "MPI_CREATE")
      /\ (OobRoot => type = "UCC_OOB")
  BY DEF BroadcastRoot, ScatterRoot, GatherRoot, AllGatherRoot, AlltoallRoot, MPICreateRoot, OobRoot
<1> QED BY <1>1, <1>2, <1>3, <1>4, <1>5, <1>6, <1>7, <1>8, <1>9

\* The calls of a member.
LEMMA SafeLeaf ==
  ASSUME TInv, SBody, Sound, EveryPart, NEW p \in Leaf, Sendrecv(p) \/ Create(p)
  PROVE  SBody'
<1>1. p \in Slot /\ p # Root /\ datacount \in Nat /\ RankOf(p) \in Nat /\ InRankOrder
      /\ proc[p].round \in Int
  BY Slots, RankIn, ProcFields, TeamAssumption DEF Sound, TInv
<1>2. ASSUME NEW c, NEW own, Begin(p, c, own), own = <<>>, FirstIn(p, c) PROVE SBody'
  <2>1. c \in Pc /\ <<>> \in Seq(PieceRec)
    BY <1>2 DEF FirstIn, Pc
  <2>2. own \in [Slot -> PieceRec] \cup Seq(PieceRec)
    BY <1>2, <2>1
  <2> QED BY <1>1, <1>2, <2>1, <2>2, SafeBegin
<1>3. ASSUME NEW x, x \in Nat, NEW y, y \in Nat, NEW pc, LeafSends(p, Mine(p, x, y), pc),
             \/ type = "GATHER" /\ pc = "return"
             \/ type \in Sym /\ pc = "recv"
             \/ type = "UCC_OOB" /\ pc = "sendblock",
             type # "UCC_OOB" => Mine(p, x, y) = ToRoot(p, proc[p].round),
             type = "UCC_OOB" => Mine(p, x, y) = ToRoot(p, 2 * proc[p].round - 1)
      PROVE  SBody'
  <2> DEFINE data == Mine(p, x, y)
  <2>1. data \in Seq(PieceRec)
    BY <1>1, <1>3, MineIn
  <2>2. /\ LeafSends(p, data, pc) /\ (type # "UCC_OOB" => data = ToRoot(p, proc[p].round))
        /\ (type = "UCC_OOB" => data = ToRoot(p, 2 * proc[p].round - 1))
    BY <1>3
  <2> HIDE DEF data
  <2> QED BY <1>3, <2>1, <2>2, SafeLeafSends
<1>4. /\ type \in {"GATHER", "ALLGATHER"} => Mine(p, 0, Share(RankOf(p))) = ToRoot(p, proc[p].round)
      /\ type = "ALLTOALL" => Mine(p, 0, datacount) = ToRoot(p, proc[p].round)
      /\ type = "MPI_CREATE" => Mine(p, 0, 1) = ToRoot(p, proc[p].round)
      /\ type = "UCC_OOB" => Mine(p, RankOf(p), 1) = ToRoot(p, 2 * proc[p].round - 1)
  <2> DEFINE r == proc[p].round
  <2>1. r = proc[p].round /\ r \in Int
    BY <1>1
  <2> HIDE DEF r
  <2>2. /\ type \in {"GATHER", "ALLGATHER"} => Mine(p, 0, Share(RankOf(p))) = ToRoot(p, r)
        /\ type = "ALLTOALL" => Mine(p, 0, datacount) = ToRoot(p, r)
        /\ type = "MPI_CREATE" => Mine(p, 0, 1) = ToRoot(p, r)
        /\ type = "UCC_OOB" => Mine(p, RankOf(p), 1) = ToRoot(p, 2 * r - 1)
    BY <1>1, <2>1, UpSends
  <2> QED BY <2>1, <2>2
<1>5. ASSUME NEW cap, NEW strict, strict \in BOOLEAN, LeafReceives(p, cap, strict), strict <=> type \in Down,
             type \in Down \cup Sym \cup {"UCC_OOB"}, cap = LeafCap(p)
      PROVE  SBody'
  BY <1>5, SafeLeafReceives
<1>6. Share(RankOf(p)) \in Nat /\ N \in Nat
  BY <1>1, ShareIs, Slots
<1> DEFINE zero == 0
           one == 1
           share == Share(RankOf(p))
           yes == TRUE
           no == FALSE
           own == <<>>
           cs == "send"
           cr == "recv"
           ct == "result"
           cb == "sendblock"
           cf == "return"
           wide == N * Share(RankOf(p))
           cap == N
           rank == RankOf(p)
<1>7. /\ zero \in Nat /\ one \in Nat /\ share \in Nat /\ yes \in BOOLEAN /\ no \in BOOLEAN /\ yes /\ ~no
      /\ own = <<>> /\ cs = "send" /\ cr = "recv" /\ ct = "result" /\ cb = "sendblock" /\ cf = "return"
      /\ rank \in Nat
  BY <1>1, <1>6
<1>8. /\ type \in {"BROADCAST", "ALLGATHER"} => datacount = LeafCap(p)
      /\ type = "SCATTER" => share = LeafCap(p)
      /\ type = "ALLTOALL" => wide = LeafCap(p)
      /\ type \in {"MPI_CREATE", "UCC_OOB"} => cap = LeafCap(p)
  BY DEF LeafCap
<1>9. /\ type \in {"GATHER", "ALLGATHER"} => Mine(p, zero, share) = ToRoot(p, proc[p].round)
      /\ type = "ALLTOALL" => Mine(p, zero, datacount) = ToRoot(p, proc[p].round)
      /\ type = "MPI_CREATE" => Mine(p, zero, one) = ToRoot(p, proc[p].round)
      /\ type = "UCC_OOB" => Mine(p, rank, one) = ToRoot(p, 2 * proc[p].round - 1)
  BY <1>4
<1>10. CASE BroadcastLeaf(p) \/ ScatterLeaf(p)
  <2>1. /\ type \in Down /\ type \in Down \cup Sym \cup {"UCC_OOB"} /\ FirstIn(p, cr)
        /\ \/ Begin(p, cr, own)
           \/ type = "BROADCAST" /\ LeafReceives(p, datacount, yes)
           \/ type = "SCATTER" /\ LeafReceives(p, share, yes)
    BY <1>1, <1>10 DEF BroadcastLeaf, ScatterLeaf, Down, FirstIn
  <2> HIDE DEF zero, one, share, yes, no, own, cs, cr, ct, cb, cf, wide, cap, rank
  <2>2. CASE Begin(p, cr, own)
    BY <1>2, <1>7, <2>1, <2>2
  <2>3. CASE type = "BROADCAST" /\ LeafReceives(p, datacount, yes)
    BY <1>5, <1>7, <1>8, <2>1, <2>3
  <2>4. CASE type = "SCATTER" /\ LeafReceives(p, share, yes)
    BY <1>5, <1>7, <1>8, <2>1, <2>4
  <2> QED BY <2>1, <2>2, <2>3, <2>4
<1>11. CASE GatherLeaf(p)
  <2>1. /\ type = "GATHER" /\ FirstIn(p, cs)
        /\ Begin(p, cs, own) \/ LeafSends(p, Mine(p, zero, share), cf)
    BY <1>1, <1>11 DEF GatherLeaf, FirstIn
  <2> HIDE DEF zero, one, share, yes, no, own, cs, cr, ct, cb, cf, wide, cap, rank
  <2>2. CASE Begin(p, cs, own)
    BY <1>2, <1>7, <2>1, <2>2
  <2>3. CASE LeafSends(p, Mine(p, zero, share), cf)
    BY <1>3, <1>7, <1>9, <2>1, <2>3
  <2> QED BY <2>1, <2>2, <2>3
<1>12. CASE AllGatherLeaf(p) \/ AlltoallLeaf(p) \/ MPICreateLeaf(p)
  <2>1. /\ type \in Sym /\ type \in Down \cup Sym \cup {"UCC_OOB"} /\ type \notin Down /\ FirstIn(p, cs)
        /\ type # "UCC_OOB"
        /\ \/ Begin(p, cs, own)
           \/ type = "ALLGATHER" /\ LeafSends(p, Mine(p, zero, share), cr)
           \/ type = "ALLTOALL" /\ LeafSends(p, Mine(p, zero, datacount), cr)
           \/ type = "MPI_CREATE" /\ LeafSends(p, Mine(p, zero, one), cr)
           \/ type = "ALLGATHER" /\ LeafReceives(p, datacount, no)
           \/ type = "ALLTOALL" /\ LeafReceives(p, wide, no)
           \/ type = "MPI_CREATE" /\ LeafReceives(p, cap, no)
    BY <1>1, <1>12 DEF AllGatherLeaf, AlltoallLeaf, MPICreateLeaf, Down, Sym, FirstIn
  <2> HIDE DEF zero, one, share, yes, no, own, cs, cr, ct, cb, cf, wide, cap, rank
  <2>2. CASE Begin(p, cs, own)
    BY <1>2, <1>7, <2>1, <2>2
  <2>3. CASE type = "ALLGATHER" /\ LeafSends(p, Mine(p, zero, share), cr)
    BY <1>3, <1>7, <1>9, <2>1, <2>3
  <2>4. CASE type = "ALLTOALL" /\ LeafSends(p, Mine(p, zero, datacount), cr)
    BY <1>1, <1>3, <1>7, <1>9, <2>1, <2>4
  <2>5. CASE type = "MPI_CREATE" /\ LeafSends(p, Mine(p, zero, one), cr)
    BY <1>3, <1>7, <1>9, <2>1, <2>5
  <2>6. CASE type = "ALLGATHER" /\ LeafReceives(p, datacount, no)
    BY <1>5, <1>7, <1>8, <2>1, <2>6
  <2>7. CASE type = "ALLTOALL" /\ LeafReceives(p, wide, no)
    BY <1>5, <1>7, <1>8, <2>1, <2>7
  <2>8. CASE type = "MPI_CREATE" /\ LeafReceives(p, cap, no)
    BY <1>5, <1>7, <1>8, <2>1, <2>8
  <2> QED BY <2>1, <2>2, <2>3, <2>4, <2>5, <2>6, <2>7, <2>8
<1>13. CASE OobLeaf(p)
  <2>1. type = "UCC_OOB" /\ type \in Down \cup Sym \cup {"UCC_OOB"} /\ type \notin Down /\ FirstIn(p, ct)
    BY <1>1, <1>13 DEF OobLeaf, Down, FirstIn
  <2>2. \/ Begin(p, ct, own) \/ OobResult(p) \/ LeafSends(p, Mine(p, rank, one), cb)
        \/ OobSendBlock(p) \/ LeafReceives(p, cap, no)
    BY <1>13, OobSteps
  <2> HIDE DEF zero, one, share, yes, no, own, cs, cr, ct, cb, cf, wide, cap, rank
  <2>3. CASE Begin(p, ct, own)
    BY <1>2, <1>7, <2>1, <2>3
  <2>4. CASE OobResult(p)
    BY <2>4, SafeOobResult
  <2>5. CASE LeafSends(p, Mine(p, rank, one), cb)
    BY <1>3, <1>7, <1>9, <2>1, <2>5
  <2>6. CASE OobSendBlock(p)
    BY <1>1, <2>6, SafeSendBlock
  <2>7. CASE LeafReceives(p, cap, no)
    BY <1>5, <1>7, <1>8, <2>1, <2>7
  <2> QED BY <2>2, <2>3, <2>4, <2>5, <2>6, <2>7
<1> QED BY <1>1, <1>10, <1>11, <1>12, <1>13 DEF Sendrecv, Create

-----------------------------------------------------------------------------
(* Safety: fan-in and fan-out *)

\* How many messages the processes of a fan-in and of a fan-out have sent and received.
LEMMA FanCounts ==
  ASSUME NEW k \in Leaf
  PROVE  /\ type = "FANIN" => /\ Sent(REnd(k)) = 0 /\ Got(REnd(k)) = Cardinality(From(Root, k))
                              /\ Sent(LEnd(k)) = proc[k].round /\ Got(LEnd(k)) = 0
         /\ type' = "FANIN" => /\ Sent(REnd(k))' = 0 /\ Got(REnd(k))' = Cardinality(From(Root, k)')
                               /\ Sent(LEnd(k))' = proc'[k].round /\ Got(LEnd(k))' = 0
         /\ type = "FANOUT" => /\ Sent(REnd(k)) = Dealt(k, proc[Root].round) /\ Got(REnd(k)) = 0
                               /\ Sent(LEnd(k)) = 0 /\ Got(LEnd(k)) = Len(proc[k].out)
         /\ type' = "FANOUT" => /\ Sent(REnd(k))' = Dealt(k, proc'[Root].round) /\ Got(REnd(k))' = 0
                                /\ Sent(LEnd(k))' = 0 /\ Got(LEnd(k))' = Len(proc'[k].out)
<1>1. \A c, ro, i : /\ RSent("FANIN", c, ro, i, k) = 0 /\ LSent("FANIN", c, ro) = ro /\ LGot("FANIN", c, ro) = 0
                    /\ RSent("FANOUT", c, ro, i, k) = Dealt(k, ro) /\ RGot("FANOUT", c, ro, i, k) = 0
                    /\ LSent("FANOUT", c, ro) = 0
  BY DEF RSent, RGot, LSent, LGot, Down, Sym
<1>2. /\ type = "FANIN" => Got(REnd(k)) = Cardinality(From(Root, k))
      /\ type' = "FANIN" => Got(REnd(k))' = Cardinality(From(Root, k)')
      /\ type = "FANOUT" => Got(LEnd(k)) = Len(proc[k].out)
      /\ type' = "FANOUT" => Got(LEnd(k))' = Len(proc'[k].out)
  BY EndsAt DEF Got, RootGot, LeafGot
<1> QED BY <1>1, <1>2, RootCounts, LeafCounts

\* They stay while nothing is sent or received.
LEMMA FanStay ==
  ASSUME type' = type, type \in {"FANIN", "FANOUT"}, NEW p \in Slot, NEW X, NEW Y,
         proc'[p].out = proc[p].out, proc'[p].round = proc[p].round
  PROVE  CountsStay(p, X, Y)
<1>1. ASSUME NEW e \in End, Owner(e) = p PROVE Sent(e)' = Sent(e) /\ Got(e)' = Got(e)
  <2>1. PICK k \in Leaf : e = REnd(k) \/ e = LEnd(k)
    BY EndsAll
  <2>2. CASE e = REnd(k)
    <3>1. p = Root
      BY <1>1, <2>2, EndsAt
    <3>2. From(Root, k)' = From(Root, k)
      BY <3>1 DEF From
    <3> QED BY <2>2, <3>1, <3>2, FanCounts
  <2>3. CASE e = LEnd(k)
    <3>1. p = k
      BY <1>1, <2>3, EndsAt
    <3> QED BY <2>3, <3>1, FanCounts
  <2> QED BY <2>1, <2>2, <2>3
<1> QED BY <1>1 DEF CountsStay

\* A process that has reported the end of its streams has received all the messages.
AllIn(p) ==
  /\ FanSide(type, p) /\ proc'[p].pc \notin Idle => proc'[p].res # "zero"
  /\ type = "FANIN" /\ p = Root => \A s \in Leaf :
       Healthy /\ (proc'[Root].res = "zero" \/ (proc'[Root].pc \notin Idle /\ hd'[REnd(s)].rd)) =>
         Cardinality(From(Root, s)) = Rounds
  /\ type = "FANOUT" /\ p # Root =>
       (proc'[p].res = "zero" /\ Healthy => Len(proc[p].out) = Dealt(p, Rounds))

\* What was received stays while nothing is received.
LEMMA FanRest ==
  ASSUME TInv, SBody, NEW p \in Slot, Moves(p), type \in {"FANIN", "FANOUT"},
         proc'[p].out = proc[p].out, AllIn(p)
  PROVE  FanOk'
<1>1. /\ Frame /\ type' = type /\ (Healthy' <=> Healthy) /\ FanOk /\ Root \in Slot
      /\ proc'[p].pc # "dead" /\ \A q \in Slot : q # p => proc'[q] = proc[q]
  BY MovesIs, Slots DEF Moves, Others, Frame, SBody
<1>2. \A q \in Slot : proc'[q].out = proc[q].out
  BY <1>1
<1>3. \A s : From(Root, s)' = From(Root, s)
  BY <1>1, <1>2 DEF From
<1>6. ASSUME NEW q \in Slot PROVE FanSide(type, q) /\ Active(q)' => proc'[q].res # "zero"
  <2>1. FanSide(type, q) /\ Active(q) => proc[q].res # "zero"
    BY <1>1 DEF FanOk
  <2>2. CASE q = p
    BY <2>2 DEF AllIn, Active
  <2>3. CASE q # p
    BY <1>1, <2>1, <2>3 DEF Active
  <2> QED BY <2>2, <2>3
<1>4. CASE type = "FANIN"
  <2>1. ASSUME NEW s \in Leaf
        PROVE  Healthy' /\ (proc'[Root].res = "zero" \/ (Active(Root)' /\ hd'[<<s, "root">>].rd)) =>
                 Cardinality(From(Root, s)) = Rounds
    <3>1. CASE p = Root
      BY <1>1, <1>4, <3>1 DEF AllIn, Active, REnd
    <3>2. CASE p # Root
      <4>1. proc'[Root] = proc[Root]
        BY <1>1, <3>2
      <4>2. hd'[REnd(s)].rd <=> hd[REnd(s)].rd
        BY <3>2, EndsAt DEF Moves, HdC, SameFlags
      <4>3. Active(Root)' <=> Active(Root)
        BY <4>1 DEF Active
      <4>4. Healthy /\ (proc[Root].res = "zero" \/ (Active(Root) /\ hd[<<s, "root">>].rd)) =>
              Cardinality(From(Root, s)) = Rounds
        BY <1>1, <1>4 DEF FanOk
      <4> QED BY <1>1, <4>1, <4>2, <4>3, <4>4 DEF REnd
    <3> QED BY <3>1, <3>2
  <2>2. \A s \in Leaf : \A i \in From(Root, s) :
          proc[Root].out[i].round = Cardinality({j \in From(Root, s) : j <= i})
    BY <1>1, <1>4 DEF FanOk
  <2> QED BY <1>1, <1>2, <1>3, <1>4, <1>6, <2>1, <2>2 DEF FanOk
<1>5. CASE type = "FANOUT"
  <2>1. ASSUME NEW q \in Leaf
        PROVE  /\ \A j \in DOMAIN proc[q].out : proc[q].out[j].round = (j - 1) * (N - 1) + q
               /\ proc'[q].res = "zero" /\ Healthy => Len(proc[q].out) = Dealt(q, Rounds)
    <3>1. /\ \A j \in DOMAIN proc[q].out : proc[q].out[j].round = (j - 1) * (N - 1) + q
          /\ proc[q].res = "zero" /\ Healthy => Len(proc[q].out) = Dealt(q, Rounds)
      BY <1>1, <1>5 DEF FanOk
    <3>2. q \in Slot /\ q # Root
      BY Slots
    <3>3. CASE q = p
      BY <1>5, <3>1, <3>2, <3>3 DEF AllIn
    <3>4. CASE q # p
      BY <1>1, <3>1, <3>2, <3>4
    <3> QED BY <3>3, <3>4
  <2>2. \A q \in Leaf : q \in Slot
    BY Slots
  <2> QED BY <1>1, <1>2, <1>5, <1>6, <2>1, <2>2 DEF FanOk
<1> QED BY <1>4, <1>5

\* A step of a fan-in or fan-out.
LEMMA SafeFan ==
  ASSUME TInv, SBody, NEW p \in Slot, Moves(p), type \in {"FANIN", "FANOUT"}, Conns', FanOk', PartsOk',
         proc'[p].pc \notin {"collect", "reply", "block", "spread"},
         \/ ~FanSide(type, p) /\ proc'[p].pc = "ready" /\ proc'[p].res = proc[p].res /\ proc'[p].round <= Rounds
         \/ FanSide(type, p) /\ proc'[p].pc # "ready" /\ proc'[p].res \in {proc[p].res, "zero"},
         touched' /\ Healthy => touched \/ type = "FANOUT"
  PROVE  SBody'
<1>1. /\ type' = type /\ (Healthy' <=> Healthy) /\ (Sender(p)' <=> Sender(p)) /\ ProcOk(p) /\ BufOk
      /\ touched /\ Healthy => type = "FANOUT"
  BY MovesIs, PartyFix DEF Moves, Frame, SBody
<1>2. Sender(p) <=> ~FanSide(type, p)
  BY DEF Sender, FanSide, Down
<1>3. proc[p].res # "ok" /\ (Healthy => proc[p].res # "error") /\ (Healthy /\ Sender(p) => proc[p].res # "zero")
  BY <1>1 DEF ProcOk
<1>4. ProcOk(p)'
  BY <1>1, <1>2, <1>3 DEF ProcOk
<1>5. BufOk'
  BY <1>1, BufRest
<1>6. EndOk'
  BY <1>1 DEF EndOk, Down
<1> QED BY <1>1, <1>4, <1>5, <1>6, SafeMove

\* A product grows by a factor at a time.
LEMMA Factor ==
  ASSUME NEW d \in Nat, NEW a \in Nat, NEW b \in Nat, a < b
  PROVE  d * a + d <= d * b /\ d * a \in Nat /\ d * b \in Nat
<1> DEFINE t == b - (a + 1)
<1>1. t \in Nat /\ b = a + 1 + t
  OBVIOUS
<1> HIDE DEF t
<1>2. d * t \in Nat /\ d * a \in Nat
  BY <1>1
<1>3. d * b = d * a + d + d * t
  BY <1>1
<1> QED BY <1>2, <1>3

\* Quotient and remainder are determined.
LEMMA DivIs ==
  ASSUME NEW x \in Nat, NEW d \in Nat \ {0}, NEW q \in Nat, NEW m \in 0 .. d - 1, x = d * q + m
  PROVE  x \div d = q /\ x % d = m
<1> DEFINE a == x \div d
           b == x % d
<1>1. a \in Nat /\ b \in 0 .. d - 1 /\ x = d * a + b
  BY DivMod
<1> HIDE DEF a, b
<1>2. ~(a < q)
  <2> SUFFICES ASSUME a < q PROVE FALSE
    OBVIOUS
  <2>1. d * a + d <= d * q /\ d * a \in Nat /\ d * q \in Nat
    BY <1>1, Factor
  <2> QED BY <1>1, <2>1
<1>3. ~(q < a)
  <2> SUFFICES ASSUME q < a PROVE FALSE
    OBVIOUS
  <2>1. d * q + d <= d * a /\ d * a \in Nat /\ d * q \in Nat
    BY <1>1, Factor
  <2> QED BY <1>1, <2>1
<1>4. a = q
  BY <1>1, <1>2, <1>3
<1>5. d * q \in Nat
  OBVIOUS
<1>6. b = m
  BY <1>1, <1>4, <1>5
<1> QED BY <1>4, <1>6 DEF a, b

\* How many of r messages are dealt to slot k.
LEMMA DealtIs ==
  ASSUME NEW k \in Leaf, NEW r \in Nat
  PROVE  Dealt(k, r) = (r \div (N - 1)) + IF k <= r % (N - 1) THEN 1 ELSE 0
<1> DEFINE d == N - 1
           q == r \div d
           m == r % d
           x == r + d - k
<1>1. d \in Nat \ {0} /\ k \in Nat /\ 1 <= k /\ k <= d
  BY Slots
<1> HIDE DEF d
<1>2. q \in Nat /\ m \in 0 .. d - 1 /\ r = d * q + m /\ d * q \in Nat
  <2>1. q \in Nat /\ m \in 0 .. d - 1 /\ r = d * q + m
    BY <1>1, DivMod
  <2> HIDE DEF q, m
  <2> QED BY <1>1, <2>1
<1>3. Dealt(k, r) = x \div d
  BY DEF Dealt, d
<1> HIDE DEF q, m
<1>4. x \in Nat
  BY <1>1
<1>5. CASE k <= m
  <2> DEFINE n == q + 1
             l == m - k
  <2>1. n \in Nat /\ l \in 0 .. d - 1
    BY <1>1, <1>2, <1>5
  <2>2. d * n = d * q + d
    BY <1>1, <1>2
  <2>3. x = d * n + l
    BY <1>1, <1>2, <2>2
  <2> HIDE DEF n, l, x
  <2>4. x \div d = n
    BY <1>1, <1>4, <2>1, <2>3, DivIs
  <2> QED BY <1>3, <1>5, <2>4 DEF n, q, m, d
<1>6. CASE ~(k <= m)
  <2> DEFINE l == m + d - k
  <2>1. l \in 0 .. d - 1
    BY <1>1, <1>2, <1>6
  <2>3. x = d * q + l
    BY <1>1, <1>2
  <2> HIDE DEF l, x
  <2>4. x \div d = q
    BY <1>1, <1>2, <1>4, <2>1, <2>3, DivIs
  <2> QED BY <1>2, <1>3, <1>6, <2>4 DEF q, m, d
<1> QED BY <1>5, <1>6

\* The next message is dealt to one slot, and carries the number of the round.
LEMMA DealtNext ==
  ASSUME NEW k \in Leaf, NEW r \in Nat
  PROVE  /\ Dealt(k, r) \in Nat
         /\ k = (r % (N - 1)) + 1 => /\ Dealt(k, r + 1) = Dealt(k, r) + 1
                                     /\ Dealt(k, r) * (N - 1) + k = r + 1
         /\ k # (r % (N - 1)) + 1 => Dealt(k, r + 1) = Dealt(k, r)
<1> DEFINE d == N - 1
           q == r \div d
           m == r % d
           y == r + 1
<1>1. d \in Nat \ {0} /\ k \in Nat /\ 1 <= k /\ k <= d
  BY Slots
<1> HIDE DEF d
<1>2. q \in Nat /\ m \in 0 .. d - 1 /\ r = d * q + m /\ d * q \in Nat
  <2>1. q \in Nat /\ m \in 0 .. d - 1 /\ r = d * q + m
    BY <1>1, DivMod
  <2> HIDE DEF q, m
  <2> QED BY <1>1, <2>1
<1>3. Dealt(k, r) = q + IF k <= m THEN 1 ELSE 0
  BY DealtIs DEF q, m, d
<1>4. y \in Nat
  OBVIOUS
<1>5. Dealt(k, y) = (y \div d) + IF k <= y % d THEN 1 ELSE 0
  <2> HIDE DEF y
  <2> QED BY <1>4, DealtIs DEF d
<1> HIDE DEF q, m
<1>6. Dealt(k, y) = q + IF k <= m + 1 THEN 1 ELSE 0
  <2>1. CASE m + 1 < d
    <3> DEFINE l == m + 1
    <3>1. l \in 0 .. d - 1 /\ y = d * q + l
      BY <1>1, <1>2, <2>1
    <3> HIDE DEF l, y
    <3>2. y \div d = q /\ y % d = l
      BY <1>1, <1>2, <1>4, <3>1, DivIs
    <3> QED BY <1>5, <3>2 DEF l
  <2>2. CASE m + 1 = d
    <3> DEFINE n == q + 1
               l == 0
    <3>1. n \in Nat /\ l \in 0 .. d - 1 /\ d * n = d * q + d
      BY <1>1, <1>2
    <3>2. y = d * n + l
      BY <1>1, <1>2, <2>2, <3>1
    <3> HIDE DEF n, l, y
    <3>3. y \div d = n /\ y % d = l
      BY <1>1, <1>4, <3>1, <3>2, DivIs
    <3>4. ~(k <= l) /\ k <= m + 1
      BY <1>1, <2>2 DEF l
    <3> QED BY <1>2, <1>5, <3>3, <3>4 DEF n
  <2> QED BY <1>1, <1>2, <2>1, <2>2
<1>7. Dealt(k, r) \in Nat
  BY <1>2, <1>3
<1>8. k = m + 1 => Dealt(k, y) = Dealt(k, r) + 1 /\ Dealt(k, r) * d + k = y
  <2> SUFFICES ASSUME k = m + 1 PROVE Dealt(k, y) = Dealt(k, r) + 1 /\ Dealt(k, r) * d + k = y
    OBVIOUS
  <2>1. Dealt(k, r) = q /\ Dealt(k, y) = q + 1
    BY <1>2, <1>3, <1>6
  <2>2. q * d = d * q
    BY <1>1, <1>2
  <2> QED BY <1>2, <2>1, <2>2
<1>9. k # m + 1 => Dealt(k, y) = Dealt(k, r)
  BY <1>1, <1>2, <1>3, <1>6
<1> QED BY <1>7, <1>8, <1>9 DEF y, m, d

\* The message a member of a fan-in or the root of a fan-out sends is the next one.
LEMMA FanNext ==
  ASSUME TInv, NEW p \in Slot, type \in {"FANIN", "FANOUT"}, ~FanSide(type, p), NEW e, e = EndOf(p, Turn(p)),
         type' = type, Others(p), proc'[p].round = proc[p].round + 1, proc'[p].out = proc[p].out
  PROVE  /\ Msg(Own(p, 0, 1)) = Feed(Peer(e))[Sent(e) + 1]
         /\ Msg(Own(p, 0, 1)) \in MsgRec /\ Msg(Own(p, 0, 1)).size # 0
         /\ Sent(e)' = Sent(e) + 1 /\ CountsStay(p, {}, {e})
<1> DEFINE r == proc[p].round
           n == r + 1
           data == <<Piece(p, n, 0, 1)>>
<1>7. PICK k \in Leaf : k = Turn(p)
  BY TurnIs
<1>1. k \in Leaf /\ r \in Nat /\ Root \in Slot /\ Root \notin Leaf
  BY TurnIs, Slots
<1>2. Own(p, 0, 1) = data
  BY DEF Own, Round
<1>3. Size(data) = 1 /\ data \in Seq(PieceRec)
  <2>1. Size(data) = 1
    <3> DEFINE one == 1
    <3>1. one \in Nat
      OBVIOUS
    <3> HIDE DEF one
    <3>2. Size(<<Piece(p, n, 0, one)>>) = one
      BY <3>1, PieceIs
    <3> QED BY <3>2 DEF one
  <2> DEFINE zero == 0
             one == 1
  <2>2. zero \in Nat /\ one \in Nat
    OBVIOUS
  <2> HIDE DEF zero, one
  <2>3. Own(p, zero, one) \in Seq(PieceRec)
    BY <2>2, MineIn
  <2> QED BY <1>2, <2>1, <2>3 DEF zero, one
<1>4. Msg(data) \in MsgRec /\ Msg(data).size # 0
  <2> HIDE DEF data
  <2> QED BY <1>3, MsgIn
<1>5. CASE type = "FANIN"
  <2>1. p # Root /\ p \in Leaf /\ k = p
    BY <1>5, <1>7, Slots DEF FanSide, Turn
  <2>2. e = LEnd(p) /\ Peer(e) = REnd(p) /\ e \in End
    BY <1>7, <2>1, EndsAt
  <2>3. Sent(e) = r /\ Sent(e)' = n /\ Got(e) = 0 /\ Got(e)' = 0
    BY <1>5, <2>1, <2>2, FanCounts
  <2>4. Feed(REnd(p))[n] = Msg(ToRoot(p, n))
    BY <1>1, <2>1, FeedIs, DataIs
  <2>5. ToRoot(p, n) = data
    BY <1>5 DEF ToRoot, UpLen
  <2>6. ASSUME NEW x \in End, Owner(x) = p PROVE x = e
    BY <2>1, <2>2, <2>6, EndsAll, EndsAt, Slots
  <2>7. CountsStay(p, {}, {e})
    BY <2>3, <2>6 DEF CountsStay
  <2> QED BY <1>1, <1>2, <1>4, <2>2, <2>3, <2>4, <2>5, <2>7
<1>6. CASE type = "FANOUT"
  <2>1. p = Root
    BY <1>6 DEF FanSide
  <2>2. e = REnd(k) /\ Peer(e) = LEnd(k) /\ e \in End
    BY <1>1, <1>7, <2>1, TurnIs, EndsAt
  <2>3. k = (r % (N - 1)) + 1
    BY <1>7, <2>1 DEF Turn
  <2> DEFINE s == Dealt(k, r)
             i == s + 1
  <2> HIDE DEF r
  <2>4. s \in Nat /\ Dealt(k, n) = i /\ s * (N - 1) + k = n
    BY <1>1, <2>3, DealtNext
  <2>5. Sent(e) = s /\ Sent(e)' = i
    <3>1. Sent(REnd(k)) = Dealt(k, proc[Root].round) /\ Sent(REnd(k))' = Dealt(k, proc'[Root].round)
      BY <1>1, <1>6, FanCounts
    <3>2. Sent(e)' = Sent(REnd(k))'
      BY <2>2
    <3> QED BY <2>1, <2>2, <2>4, <3>1, <3>2 DEF r
  <2>6. Feed(LEnd(k))[i] = Msg(ToLeaf(k, i))
    <3>1. i \in Int
      BY <2>4
    <3> HIDE DEF i
    <3> QED BY <1>1, <3>1, FeedIs, DataIs
  <2>7. ToLeaf(k, i) = <<Piece(Root, (i - 1) * (N - 1) + k, 0, 1)>>
    BY <1>6 DEF ToLeaf, Down, Sym
  <2>8. i - 1 = s
    BY <2>4
  <2>9. ToLeaf(k, i) = data
    BY <2>1, <2>4, <2>7, <2>8
  <2>10. ASSUME NEW x \in End, Owner(x) = p
         PROVE  Got(x)' = Got(x) /\ (x # e => Sent(x)' = Sent(x))
    <3>1. PICK j \in Leaf : x = REnd(j)
      BY <1>1, <2>1, <2>10, EndsAll, EndsAt
    <3>2. /\ Got(REnd(j))' = 0 /\ Got(REnd(j)) = 0 /\ Sent(REnd(j)) = Dealt(j, r) /\ Sent(REnd(j))' = Dealt(j, n)
      BY <1>6, <2>1, FanCounts DEF r
    <3>3. Got(x)' = Got(REnd(j))' /\ Sent(x)' = Sent(REnd(j))'
      BY <3>1
    <3>4. j # k => Dealt(j, n) = Dealt(j, r)
      BY <1>1, <2>3, DealtNext
    <3> QED BY <2>2, <3>1, <3>2, <3>3, <3>4
  <2>11. CountsStay(p, {}, {e})
    BY <2>10 DEF CountsStay
  <2> QED BY <1>2, <1>4, <2>2, <2>4, <2>5, <2>6, <2>9, <2>11
<1> QED BY <1>5, <1>6

\* FanSend.
LEMMA SafeFanSend ==
  ASSUME TInv, SBody, NEW p \in Slot, FanSend(p)
  PROVE  SBody'
<1>10. PICK e, m : e = EndOf(p, Turn(p)) /\ m = Msg(Own(p, 0, 1))
  OBVIOUS
<1>1. /\ type \in {"FANIN", "FANOUT"} /\ ~FanSide(type, p) /\ proc[p].pc = "ready"
      /\ proc[p].round < Rounds /\ e \in End /\ Owner(e) = p /\ Frame
      /\ touched' = (touched \/ hd[e].freed) /\ HdC(p, hd, hd')
      /\ \/ /\ Sets(p, "stop", proc[p].round, proc[p].idx, proc[p].buf, proc[p].out, "error",
                    proc[p].rank, proc[p].parts)
            /\ ~hd[Peer(e)].open /\ hd' = hd
         \/ /\ \/ hd[Peer(e)].open /\ PutAt(Peer(e), m, hd, hd')
               \/ ~hd[Peer(e)].open /\ hd' = hd
            /\ Sets(p, "ready", proc[p].round + 1, proc[p].idx, proc[p].buf, proc[p].out,
                    proc[p].res, proc[p].rank, proc[p].parts)
  BY <1>10, FanSendIs
<1>2. Active(p) /\ (type # "FANIN" \/ p # Root) /\ proc[p].round \in Nat /\ type' = type
  BY <1>1, TurnIs DEF Active, Idle, FanSide, Frame
<1>3. ~hd[e].wr /\ ~hd[e].freed
  BY <1>1, <1>2, InCallIs
<1>4. touched' = touched
  BY <1>1, <1>3 DEF TInv
<1>5. AllIn(p)
  BY <1>1 DEF AllIn, FanSide
<1>6. Conns /\ PartsOk
  BY DEF SBody
<1>7. CASE /\ Sets(p, "stop", proc[p].round, proc[p].idx, proc[p].buf, proc[p].out, "error",
                   proc[p].rank, proc[p].parts)
           /\ ~hd[Peer(e)].open /\ hd' = hd
  <2> DEFINE c == "stop"
             re == "error"
  <2>1. /\ c = "stop" /\ c # "dead" /\ re = "error"
        /\ Sets(p, c, proc[p].round, proc[p].idx, proc[p].buf, proc[p].out, re, proc[p].rank, proc[p].parts)
    BY <1>7
  <2> HIDE DEF c, re
  <2>2. /\ Moves(p) /\ proc'[p].pc = c /\ proc'[p].round = proc[p].round
        /\ proc'[p].out = proc[p].out /\ proc'[p].res = re
    BY <1>1, <1>2, <2>1, MovesSet
  <2>3. ~Healthy /\ Conns' /\ ProcOk(p)' /\ BufOk' /\ EndOk' /\ PartsOk'
    BY <1>1, <1>2, <1>7, <2>1, <2>2, SafeError
  <2>4. FanOk'
    BY <1>1, <1>5, <2>2, FanRest
  <2> QED BY <2>2, <2>3, <2>4, SafeMove
<1>8. CASE /\ \/ hd[Peer(e)].open /\ PutAt(Peer(e), m, hd, hd')
              \/ ~hd[Peer(e)].open /\ hd' = hd
           /\ Sets(p, "ready", proc[p].round + 1, proc[p].idx, proc[p].buf, proc[p].out,
                   proc[p].res, proc[p].rank, proc[p].parts)
  <2> DEFINE c == "ready"
             n == proc[p].round + 1
  <2>1. /\ c = "ready" /\ c # "dead" /\ n = proc[p].round + 1
        /\ Sets(p, c, n, proc[p].idx, proc[p].buf, proc[p].out, proc[p].res, proc[p].rank, proc[p].parts)
    BY <1>8
  <2> HIDE DEF c, n
  <2>2. /\ Moves(p) /\ proc'[p].pc = c /\ proc'[p].round = n
        /\ proc'[p].out = proc[p].out /\ proc'[p].res = proc[p].res
    BY <1>1, <1>2, <2>1, MovesSet
  <2> DEFINE X == {}
             Y == {e}
  <2>3. /\ m = Feed(Peer(e))[Sent(e) + 1] /\ m \in MsgRec /\ m.size # 0
        /\ Sent(e)' = Sent(e) + 1 /\ CountsStay(p, X, Y)
    <3>1. Others(p) /\ proc'[p].round = proc[p].round + 1
      BY <2>1, <2>2 DEF Moves
    <3>2. /\ Msg(Own(p, 0, 1)) = Feed(Peer(e))[Sent(e) + 1]
          /\ Msg(Own(p, 0, 1)) \in MsgRec /\ Msg(Own(p, 0, 1)).size # 0
          /\ Sent(e)' = Sent(e) + 1 /\ CountsStay(p, {}, {e})
      BY <1>1, <1>2, <1>10, <2>2, <3>1, FanNext
    <3> QED BY <1>10, <3>2
  <2>4. Conns'
    <3>1. CASE hd[Peer(e)].open /\ PutAt(Peer(e), m, hd, hd')
      <4>1. type \notin Down \cup {"GATHER"}
        BY <1>1 DEF Down
      <4> QED BY <1>1, <1>2, <1>3, <1>6, <2>2, <2>3, <3>1, <4>1, ConnPut
    <3>2. CASE ~hd[Peer(e)].open /\ hd' = hd
      <4>1. \A x \in End : hd'[x].in = hd[x].in /\ SameFlags(hd'[x], hd[x])
        BY <3>2 DEF SameFlags
      <4>2. \A x \in Y : x \in End /\ ~hd[Peer(x)].open
        BY <1>1, <3>2
      <4> HIDE DEF Y
      <4> QED BY <1>1, <1>6, <2>2, <2>3, <4>1, <4>2, ConnKeep
    <3> QED BY <1>8, <3>1, <3>2
  <2>5. FanOk'
    BY <1>1, <1>5, <2>2, FanRest
  <2>6. PartsOk'
    BY <1>2, <1>6, <2>2, PartsRest
  <2>7. proc'[p].round <= Rounds /\ proc'[p].pc = "ready"
    BY <1>1, <1>2, <2>1, <2>2, TeamAssumption
  <2> QED BY <1>1, <1>4, <2>2, <2>4, <2>5, <2>6, <2>7, SafeFan
<1> QED BY <1>1, <1>7, <1>8

\* A participant of a fan-in that has not ended.
LEMMA PartLive ==
  ASSUME TInv, SBody, type = "FANIN", Active(Root), NEW j \in DOMAIN proc[Root].parts, NEW k \in Leaf,
         k = proc[Root].parts[j]
  PROVE  /\ ~hd[REnd(k)].rd /\ ~hd[REnd(k)].wr /\ ~hd[REnd(k)].freed /\ Live(REnd(k))
         /\ Healthy => hd[LEnd(k)].open
<1>1. /\ REnd(k) \in End /\ LEnd(k) \in End /\ Owner(REnd(k)) = Root /\ Owner(LEnd(k)) = k
      /\ Peer(LEnd(k)) = REnd(k) /\ k \in Slot
  BY EndsAt, Slots
<1>2. ~hd[REnd(k)].rd
  BY DEF SBody, PartsOk, REnd
<1>3. CloseOk(REnd(k)) /\ CloseOk(LEnd(k)) /\ HandleTy(REnd(k)) /\ HandleTy(LEnd(k))
  BY <1>1 DEF SBody, Conns, TInv
<1>4. ~hd[REnd(k)].wr
  BY <1>1, <1>2, <1>3 DEF CloseOk
<1>5. ~hd[REnd(k)].freed
  BY <1>1, <1>2, <1>3 DEF HandleTy, Active
<1>6. Healthy => hd[LEnd(k)].open
  BY <1>1, <1>3, <1>4 DEF HandleTy, CloseOk, Healthy
<1> QED BY <1>1, <1>2, <1>4, <1>5, <1>6 DEF Live

\* A receiving process of a fan-in or fan-out moves on, and the handles stay.
LEMMA SafeHold ==
  ASSUME TInv, SBody, NEW p \in Slot, Moves(p), Active(p), type \in {"FANIN", "FANOUT"}, FanSide(type, p),
         proc'[p].out = proc[p].out, proc'[p].round = proc[p].round, proc'[p].parts = proc[p].parts,
         \A e \in End : hd'[e].in = hd[e].in /\ SameFlags(hd'[e], hd[e]), AllIn(p),
         proc'[p].pc \notin {"ready", "collect", "reply", "block", "spread"},
         proc'[p].res \in {proc[p].res, "zero"}, touched' /\ Healthy => touched \/ type = "FANOUT"
  PROVE  SBody'
<1> DEFINE Z == {}
<1>1. type' = type /\ Conns /\ PartsOk
  BY DEF Moves, Frame, SBody
<1>2. CountsStay(p, Z, Z)
  BY <1>1, FanStay
<1>3. Conns'
  BY <1>1, <1>2, ConnKeep
<1>4. FanOk'
  BY FanRest
<1>5. PartsOk'
  <2>1. CASE p # Root \/ type # "FANIN"
    BY <1>1, <2>1, PartsRest
  <2>2. CASE p = Root
    <3>1. \A k \in Leaf : hd'[<<k, "root">>].rd <=> hd[<<k, "root">>].rd
      BY Zenon, EndsAt DEF SameFlags, REnd
    <3> QED BY <1>1, <2>2, <3>1 DEF PartsOk
  <2> QED BY <2>1, <2>2
<1> QED BY <1>3, <1>4, <1>5, SafeFan

\* The root of a fan-in that goes on has received all of those that have ended.
LEMMA AllStay ==
  ASSUME TInv, SBody, NEW p \in Slot, Active(p), proc'[p].res = proc[p].res,
         \A k \in Leaf : hd'[REnd(k)].rd => hd[REnd(k)].rd
  PROVE  AllIn(p)
<1>1. FanOk
  BY DEF SBody
<1>2. CASE p = Root
  BY <1>1, <1>2 DEF FanOk, AllIn, REnd
<1>3. CASE p # Root
  <2>1. p \in Leaf
    BY <1>3, Slots
  <2> QED BY <1>1, <1>3, <2>1 DEF FanOk, AllIn
<1> QED BY <1>2, <1>3

\* No participant is listed twice.
Once(s) == \A a, b \in DOMAIN s : s[a] = s[b] => a = b
Listed(s, k) == \E i \in DOMAIN s : s[i] = k

\* A participant is taken off the list.
LEMMA PartsLess ==
  ASSUME NEW s \in Seq(Leaf), NEW j \in DOMAIN s, Once(s), NEW t, t = RemoveAt(s, j)
  PROVE  /\ Once(t)
         /\ ~Listed(t, s[j])
         /\ \A k : k # s[j] => (Listed(s, k) <=> Listed(t, k))
<1>1. /\ t \in Seq(Leaf) /\ Len(t) = Len(s) - 1 /\ Len(s) \in Nat /\ j \in 1 .. Len(s) /\ DOMAIN s = 1 .. Len(s)
      /\ \A i \in 1 .. Len(s) - 1 : t[i] = IF i < j THEN s[i] ELSE s[i + 1]
  <2>1. Len(s) \in Nat /\ j \in 1 .. Len(s) /\ DOMAIN s = 1 .. Len(s)
    OBVIOUS
  <2>2. /\ t \in Seq(Leaf) /\ Len(t) = Len(s) - 1
        /\ \A i \in 1 .. Len(s) - 1 : t[i] = IF i < j THEN s[i] ELSE s[i + 1]
    BY ONLY Zenon, s \in Seq(Leaf), t = RemoveAt(s, j), <2>1, Removed
  <2> QED BY <2>1, <2>2
<1>2. DOMAIN t = 1 .. Len(s) - 1
  BY <1>1
<1> DEFINE at(i) == IF i < j THEN i ELSE i + 1
<1>7. \A i \in DOMAIN t : at(i) \in DOMAIN s /\ at(i) # j /\ t[i] = s[at(i)]
  BY <1>1, <1>2
<1>8. \A a, b \in DOMAIN t : at(a) = at(b) => a = b
  BY <1>1, <1>2
<1> HIDE DEF at
<1>3. ASSUME NEW a \in DOMAIN t, NEW b \in DOMAIN t, t[a] = t[b] PROVE a = b
  <2>1. s[at(a)] = s[at(b)] /\ at(a) \in DOMAIN s /\ at(b) \in DOMAIN s
    BY <1>3, <1>7
  <2>2. at(a) = at(b)
    BY <2>1 DEF Once
  <2> QED BY <1>8, <2>2
<1>4. ASSUME NEW i \in DOMAIN t PROVE t[i] # s[j]
  <2>1. t[i] = s[at(i)] /\ at(i) \in DOMAIN s /\ at(i) # j
    BY <1>7
  <2> QED BY <2>1 DEF Once
<1>5. ASSUME NEW k, k # s[j], NEW i \in DOMAIN s, s[i] = k PROVE \E a \in DOMAIN t : t[a] = k
  <2>1. CASE i < j
    <3>1. i \in DOMAIN t /\ t[i] = k
      BY <1>1, <1>2, <1>5, <2>1
    <3> QED BY <3>1
  <2>2. CASE i > j
    <3>1. i - 1 \in DOMAIN t /\ t[i - 1] = k
      BY <1>1, <1>2, <1>5, <2>2
    <3> QED BY <3>1
  <2>3. i # j
    BY <1>5
  <2> QED BY <1>1, <1>5, <2>1, <2>2, <2>3
<1>6. ASSUME NEW k, NEW i \in DOMAIN t, t[i] = k PROVE \E a \in DOMAIN s : s[a] = k
  <2>1. i \in DOMAIN s /\ i + 1 \in DOMAIN s /\ (t[i] = s[i] \/ t[i] = s[i + 1])
    BY <1>1, <1>2
  <2> QED BY <1>6, <2>1
<1> QED BY <1>3, <1>4, <1>5, <1>6 DEF Once, Listed

\* A participant of a fan-in ends.
LEMMA SafePartEnds ==
  ASSUME TInv, SBody, type = "FANIN", proc[Root].pc = "hold", Frame, HdC(Root, hd, hd'),
         NEW j \in DOMAIN proc[Root].parts, NEW k \in Leaf, k = proc[Root].parts[j],
         hd[REnd(k)].in # <<>>, Head(hd[REnd(k)].in).size = 0, EosBothAt(REnd(k), hd, hd'),
         touched' = (touched \/ hd[REnd(k)].freed), NEW i,
         Sets(Root, "hold", proc[Root].round, i, proc[Root].buf, proc[Root].out, proc[Root].res,
              proc[Root].rank, RemoveAt(proc[Root].parts, j))
  PROVE  SBody'
<1> DEFINE e == REnd(k)
           c == "hold"
           Z == {}
<1>1. /\ Root \in Slot /\ Active(Root) /\ e \in End /\ LEnd(k) \in End /\ Owner(e) = Root /\ Peer(e) = LEnd(k)
      /\ e[2] = "root" /\ LEnd(k)[2] = "leaf" /\ Owner(LEnd(k)) = k /\ k \in Slot /\ k # Root
  BY EndsAt, Slots DEF Active, Idle
<1>2. /\ ~hd[e].rd /\ ~hd[e].wr /\ ~hd[e].freed /\ Live(e)
  BY <1>1, PartLive
<1>3. touched' = touched
  BY <1>2 DEF TInv
<1>4. c = "hold" /\ c # "dead" /\ Sets(Root, c, proc[Root].round, i, proc[Root].buf, proc[Root].out,
           proc[Root].res, proc[Root].rank, RemoveAt(proc[Root].parts, j))
  OBVIOUS
<1> HIDE DEF c
<1>5. /\ Moves(Root) /\ proc'[Root].pc = c /\ proc'[Root].round = proc[Root].round
      /\ proc'[Root].out = proc[Root].out /\ proc'[Root].res = proc[Root].res
      /\ proc'[Root].parts = RemoveAt(proc[Root].parts, j)
  BY <1>1, <1>4, MovesSet
<1>6. type' = type /\ Conns /\ PartsOk /\ FanOk
  BY DEF Frame, SBody
<1>7. CountsStay(Root, Z, Z)
  BY <1>1, <1>5, <1>6, FanStay
<1>8. hd'[e].rd /\ hd'[e].wr /\ ~Live(e)'
  BY DEF EosBothAt, Live
<1>9. CloseOk(e)'
  <2>1. CloseOk(e) /\ Quiet(e)
    BY <1>1, <1>6 DEF Conns
  <2>2. ~(proc'[Root].pc = "stop")
    BY <1>4, <1>5
  <2>3. hd[e].in # <<>> /\ Head(hd[e].in).size = 0
    OBVIOUS
  <2> HIDE DEF e
  <2> QED BY <1>1, <1>5, <1>8, <2>1, <2>2, <2>3, CloseEnd
<1>10. Conns'
  <2>1. hd[e].in # <<>> /\ EosBothAt(e, hd, hd')
    OBVIOUS
  <2> HIDE DEF e
  <2> QED BY <1>1, <1>5, <1>6, <1>7, <1>8, <1>9, <2>1, ConnEnd
<1>11. Healthy => Cardinality(From(Root, k)) = Rounds
  <2> SUFFICES ASSUME Healthy PROVE Cardinality(From(Root, k)) = Rounds
    OBVIOUS
  <2>1. hd[LEnd(k)].wr /\ Got(e) = Sent(LEnd(k))
    <3>1. Counted(e)
      BY DEF Counted
    <3>2. hd[e].in # <<>> /\ Head(hd[e].in).size = 0
      OBVIOUS
    <3> HIDE DEF e
    <3> QED BY <1>1, <1>2, <3>1, <3>2, HeadIs
  <2>2. Sender(k)
    BY <1>1 DEF Sender, Down
  <2>3. proc[k].round = Rounds
    <3> DEFINE f == LEnd(k)
    <3>1. f \in End /\ hd[f].wr /\ Sender(Owner(f)) /\ ~(type = "FANIN" /\ f[2] = "root") /\ Owner(f) = k
      BY <1>1, <2>1, <2>2
    <3> HIDE DEF f
    <3>2. proc[Owner(f)].round = Rounds
      BY <3>1, ClosedLast
    <3> QED BY <3>1, <3>2
  <2> QED BY <2>1, <2>3, FanCounts
<1>12. \A s \in Leaf : s # k => (hd'[REnd(s)].rd <=> hd[REnd(s)].rd)
  <2> SUFFICES ASSUME NEW s \in Leaf, s # k PROVE hd'[REnd(s)].rd <=> hd[REnd(s)].rd
    OBVIOUS
  <2>1. REnd(s) \in End /\ REnd(s) # e /\ REnd(s) # Peer(e)
    BY <1>1, EndsAt
  <2> QED BY <2>1 DEF EosBothAt
<1>13. AllIn(Root)
  <2>1. ASSUME NEW s \in Leaf, Healthy, proc'[Root].res = "zero" \/ hd'[REnd(s)].rd
        PROVE  Cardinality(From(Root, s)) = Rounds
    <3>1. CASE s = k
      BY <1>11, <2>1, <3>1
    <3>2. CASE s # k
      BY <1>1, <1>5, <1>6, <1>12, <2>1, <3>2 DEF FanOk, REnd
    <3> QED BY <3>1, <3>2
  <2>2. proc'[Root].res # "zero"
    BY <1>1, <1>5, <1>6 DEF FanOk, FanSide
  <2> QED BY <1>1, <2>1, <2>2 DEF AllIn
<1>14. FanOk'
  BY <1>1, <1>5, <1>13, FanRest
<1>15. PartsOk'
  <2> DEFINE s == proc[Root].parts
             t == RemoveAt(s, j)
  <2>1. s \in Seq(Leaf)
    BY <1>1, ProcFields DEF TInv
  <2>2. /\ Once(s)
        /\ \A q \in Leaf : hd[<<q, "root">>].rd <=> \A a \in DOMAIN s : s[a] # q
    BY <1>1, <1>6 DEF PartsOk, Once
  <2>3. s[j] = k /\ j \in DOMAIN s /\ proc'[Root].parts = t /\ t = RemoveAt(s, j)
    BY <1>5
  <2> HIDE DEF s, t
  <2>4. /\ Once(t)
        /\ \A a \in DOMAIN t : t[a] # k
        /\ \A q : q # k => ((\A a \in DOMAIN s : s[a] # q) <=> (\A a \in DOMAIN t : t[a] # q))
    <3>1. Once(s) /\ t = RemoveAt(s, j) /\ j \in DOMAIN s /\ s \in Seq(Leaf)
      BY <2>1, <2>2, <2>3
    <3>2. /\ Once(t)
          /\ ~Listed(t, s[j])
          /\ \A q : q # s[j] => (Listed(s, q) <=> Listed(t, q))
      BY ONLY <3>1, PartsLess
    <3> QED BY <2>3, <3>2 DEF Listed
  <2>5. \A q \in Leaf : hd'[<<q, "root">>].rd <=> \A a \in DOMAIN t : t[a] # q
    <3> SUFFICES ASSUME NEW q \in Leaf PROVE hd'[<<q, "root">>].rd <=> \A a \in DOMAIN t : t[a] # q
      BY Zenon
    <3>1. CASE q = k
      BY <1>8, <2>4, <3>1 DEF REnd
    <3>2. CASE q # k
      <4>1. hd'[<<q, "root">>].rd <=> hd[<<q, "root">>].rd
        BY <1>12, <3>2 DEF REnd
      <4> QED BY <2>2, <2>4, <3>2, <4>1
    <3> QED BY <3>1, <3>2
  <2> QED BY <2>3, <2>4, <2>5 DEF PartsOk, Once
<1>16. FanSide(type, Root)
  BY DEF FanSide
<1> QED BY <1>1, <1>3, <1>4, <1>5, <1>10, <1>14, <1>15, <1>16, SafeFan

\* FanInProbe.
LEMMA SafeFanInProbe ==
  ASSUME TInv, SBody, FanInProbe
  PROVE  SBody'
<1>1. PICK j, parts : j = proc[Root].idx /\ parts = proc[Root].parts
  OBVIOUS
<1>2. PICK k : k = parts[j]
  OBVIOUS
<1>3. /\ type = "FANIN" /\ proc[Root].pc = "hold" /\ Frame
      /\ parts = <<>> => touched' = touched
      /\ parts # <<>> => touched' = (touched \/ hd[REnd(k)].freed)
      /\ HdC(Root, hd, hd') /\ FanInProbeDoes(j, k, parts)
  BY <1>1, <1>2, FanInProbeIs
<1>4. Root \in Slot /\ Active(Root) /\ FanSide(type, Root) /\ PartsOk /\ FanOk
  BY <1>3, Slots DEF Active, Idle, FanSide, SBody
<1>5. parts # <<>> => j \in DOMAIN parts
  BY <1>1, <1>3 DEF TInv, FanTy
<1>6. parts # <<>> /\ k \in Leaf =>
        /\ touched' = touched /\ (Healthy => hd[LEnd(k)].open)
  <2> SUFFICES ASSUME parts # <<>>, k \in Leaf
               PROVE  touched' = touched /\ (Healthy => hd[LEnd(k)].open)
    OBVIOUS
  <2>1. ~hd[REnd(k)].freed /\ (Healthy => hd[LEnd(k)].open)
    BY <1>1, <1>2, <1>3, <1>4, <1>5, PartLive
  <2> QED BY <1>3, <2>1 DEF TInv
<1> DEFINE cs == "stop"
           ch == "hold"
           cg == "got"
           z == "zero"
           i == Advance(parts, j)
<1>7. CASE /\ parts = <<>> \/ (hd[REnd(k)].in = <<>> /\ ~hd[LEnd(k)].open)
           /\ parts # <<>> => k \in Leaf
           /\ hd' = hd
           /\ Sets(Root, cs, proc[Root].round, j, proc[Root].buf, proc[Root].out, z,
                   proc[Root].rank, parts)
  <2>1. cs = "stop" /\ cs # "dead" /\ z = "zero"
    OBVIOUS
  <2> HIDE DEF cs, z
  <2>2. /\ Moves(Root) /\ proc'[Root].pc = cs /\ proc'[Root].round = proc[Root].round
        /\ proc'[Root].out = proc[Root].out /\ proc'[Root].res = z /\ proc'[Root].parts = parts
    BY <1>3, <1>4, <1>7, <2>1, MovesSet
  <2>3. \A e \in End : hd'[e].in = hd[e].in /\ SameFlags(hd'[e], hd[e])
    BY <1>7 DEF SameFlags
  <2>4. AllIn(Root)
    <3>1. ASSUME NEW s \in Leaf, Healthy PROVE Cardinality(From(Root, s)) = Rounds
      <4>1. parts = <<>>
        BY <1>6, <1>7, <3>1
      <4>2. hd[<<s, "root">>].rd
        BY <1>1, <1>3, <1>4, <4>1 DEF PartsOk
      <4> QED BY <1>3, <1>4, <3>1, <4>2 DEF FanOk
    <3> QED BY <1>3, <2>1, <2>2, <3>1 DEF AllIn, Idle
  <2>5. touched' = touched
    BY <1>3, <1>6, <1>7
  <2> QED BY <1>1, <1>3, <1>4, <2>1, <2>2, <2>3, <2>4, <2>5, SafeHold
<1>8. CASE /\ parts # <<>> /\ k \in Leaf /\ j \in DOMAIN parts
           /\ hd' = hd
           /\ Sets(Root, ch, proc[Root].round, i, proc[Root].buf, proc[Root].out,
                   proc[Root].res, proc[Root].rank, parts)
  <2>1. ch = "hold" /\ ch # "dead"
    OBVIOUS
  <2> HIDE DEF ch, i
  <2>2. /\ Moves(Root) /\ proc'[Root].pc = ch /\ proc'[Root].round = proc[Root].round
        /\ proc'[Root].out = proc[Root].out /\ proc'[Root].res = proc[Root].res /\ proc'[Root].parts = parts
    BY <1>3, <1>4, <1>8, <2>1, MovesSet
  <2>3. \A e \in End : hd'[e].in = hd[e].in /\ SameFlags(hd'[e], hd[e])
    BY <1>8 DEF SameFlags
  <2>4. AllIn(Root)
    BY <1>4, <1>8, <2>2, AllStay
  <2> QED BY <1>1, <1>3, <1>4, <1>6, <1>8, <2>1, <2>2, <2>3, <2>4, SafeHold
<1>9. CASE /\ parts # <<>> /\ k \in Leaf /\ j \in DOMAIN parts
           /\ hd[REnd(k)].in # <<>> /\ Head(hd[REnd(k)].in).size = 0
           /\ EosBothAt(REnd(k), hd, hd')
           /\ \E n : Sets(Root, "hold", proc[Root].round, n,
                          proc[Root].buf, proc[Root].out, proc[Root].res, proc[Root].rank, RemoveAt(parts, j))
  <2>1. PICK n : Sets(Root, "hold", proc[Root].round, n,
                      proc[Root].buf, proc[Root].out, proc[Root].res, proc[Root].rank, RemoveAt(parts, j))
    BY <1>9
  <2>2. touched' = (touched \/ hd[REnd(k)].freed)
    BY <1>3, <1>9
  <2> QED BY Zenon, <1>1, <1>2, <1>3, <1>9, <2>1, <2>2, SafePartEnds
<1>10. CASE /\ parts # <<>> /\ k \in Leaf /\ j \in DOMAIN parts
            /\ ProbedAt(REnd(k), hd, hd')
            /\ Sets(Root, cg, proc[Root].round, j, proc[Root].buf, proc[Root].out,
                    proc[Root].res, proc[Root].rank, parts)
  <2>1. cg = "got" /\ cg # "dead"
    OBVIOUS
  <2> HIDE DEF cg
  <2>2. /\ Moves(Root) /\ proc'[Root].pc = cg /\ proc'[Root].round = proc[Root].round
        /\ proc'[Root].out = proc[Root].out /\ proc'[Root].res = proc[Root].res /\ proc'[Root].parts = parts
    BY <1>3, <1>4, <1>10, <2>1, MovesSet
  <2>3. \A e \in End : hd'[e].in = hd[e].in /\ SameFlags(hd'[e], hd[e])
    BY <1>10 DEF ProbedAt, Only, SameFlags
  <2>4. \A s \in Leaf : hd'[REnd(s)].rd => hd[REnd(s)].rd
    BY <2>3, EndsAt DEF SameFlags
  <2>5. AllIn(Root)
    BY <1>4, <2>2, <2>4, AllStay
  <2> QED BY <1>1, <1>3, <1>4, <1>6, <1>10, <2>1, <2>2, <2>3, <2>5, SafeHold
<1> HIDE DEF i
<1> QED BY <1>3, <1>7, <1>8, <1>9, <1>10 DEF FanInProbeDoes, cs, ch, cg, z, i

\* FanOutProbe.
LEMMA SafeFanOutProbe ==
  ASSUME TInv, SBody, NEW p \in Leaf, FanOutProbe(p)
  PROVE  SBody'
<1> DEFINE e == LEnd(p)
           cs == "stop"
           cg == "got"
           z == "zero"
           Z == {}
<1>1. /\ type = "FANOUT" /\ proc[p].pc = "hold" /\ Readable(e) /\ Frame
      /\ HdC(p, hd, hd')
      /\ \/ /\ hd[e].in = <<>> /\ hd' = hd
            /\ Sets(p, "stop", proc[p].round, proc[p].idx, proc[p].buf, proc[p].out, "zero",
                    proc[p].rank, proc[p].parts)
         \/ /\ hd[e].in # <<>> /\ Head(hd[e].in).size = 0
            /\ EosBothAt(e, hd, hd')
            /\ Sets(p, cs, proc[p].round, proc[p].idx, proc[p].buf, proc[p].out, z,
                    proc[p].rank, proc[p].parts)
         \/ /\ hd[e].in # <<>> /\ Head(hd[e].in).size > 0
            /\ ProbedAt(e, hd, hd')
            /\ Sets(p, cg, proc[p].round, proc[p].idx, proc[p].buf, proc[p].out,
                    proc[p].res, proc[p].rank, proc[p].parts)
  BY FanOutProbeIs
<1>2. /\ p \in Slot /\ p # Root /\ e \in End /\ REnd(p) \in End /\ Owner(e) = p /\ Peer(e) = REnd(p)
      /\ Owner(REnd(p)) = Root /\ e[2] = "leaf" /\ Root \in Slot
      /\ Active(p) /\ FanSide(type, p) /\ type' = type /\ PartsOk /\ Conns
  BY <1>1, EndsAt, Slots DEF Active, Idle, FanSide, Frame, SBody
<1>3. ~hd[e].rd /\ Live(e)
  <2> HIDE DEF e
  <2> QED BY <1>1, <1>2, InCallIs
<1>4. hd[e].in # <<>>
  <2> SUFFICES ASSUME hd[e].in = <<>> PROVE FALSE
    OBVIOUS
  <2>1. hd[REnd(p)].open
    BY <1>3, RootStays
  <2> QED BY <1>1, <1>2, <1>3, <2>1 DEF Readable
<1>5. CASE /\ Head(hd[e].in).size = 0
           /\ EosBothAt(e, hd, hd')
           /\ Sets(p, cs, proc[p].round, proc[p].idx, proc[p].buf, proc[p].out, z,
                   proc[p].rank, proc[p].parts)
  <2>1. cs = "stop" /\ cs # "dead" /\ z = "zero"
    OBVIOUS
  <2> HIDE DEF cs, z
  <2>2. /\ Moves(p) /\ proc'[p].pc = cs /\ proc'[p].round = proc[p].round
        /\ proc'[p].out = proc[p].out /\ proc'[p].res = z
    BY <1>1, <1>2, <1>5, <2>1, MovesSet
  <2>3. CountsStay(p, Z, Z)
    BY <1>1, <1>2, <2>2, FanStay
  <2>4. ~Active(p)' /\ ~Live(e)'
    <3>1. ~Active(p)'
      BY <2>1, <2>2 DEF Active, Idle
    <3> QED BY <1>2, <3>1 DEF Live
  <2>5. CloseOk(e)'
    <3>1. CloseOk(e) /\ Quiet(e)
      BY <1>2 DEF Conns
    <3>2. e \notin Closes(p)
      BY <1>1, <1>2 DEF Closes
    <3> HIDE DEF e
    <3> QED BY <1>2, <1>4, <1>5, <2>2, <2>4, <3>1, <3>2, CloseEnd
  <2>6. Conns'
    <3> HIDE DEF e
    <3> QED BY <1>2, <1>4, <1>5, <2>2, <2>3, <2>4, <2>5, ConnEnd
  <2>7. Healthy => Len(proc[p].out) = Dealt(p, Rounds)
    <3> SUFFICES ASSUME Healthy PROVE Len(proc[p].out) = Dealt(p, Rounds)
      OBVIOUS
    <3>1. hd[REnd(p)].wr /\ Got(e) = Sent(REnd(p))
      <4>1. Counted(e)
        BY DEF Counted
      <4> HIDE DEF e
      <4> QED BY <1>2, <1>3, <1>4, <1>5, <4>1, HeadIs
    <3>2. proc[Root].round = Rounds
      <4> DEFINE f == REnd(p)
      <4>1. f \in End /\ hd[f].wr /\ Sender(Owner(f)) /\ type # "FANIN" /\ Owner(f) = Root
        BY <1>1, <1>2, <3>1 DEF Sender, Down
      <4> HIDE DEF f
      <4>2. proc[Owner(f)].round = Rounds
        BY <4>1, ClosedLast
      <4> QED BY <4>1, <4>2
    <3> QED BY <1>1, <3>1, <3>2, FanCounts
  <2>8. AllIn(p)
    BY <1>1, <1>2, <2>1, <2>2, <2>7 DEF AllIn, Idle
  <2>9. FanOk'
    BY <1>1, <1>2, <2>2, <2>8, FanRest
  <2>10. PartsOk'
    BY <1>2, <2>2, PartsRest
  <2> QED BY <1>1, <1>2, <2>1, <2>2, <2>6, <2>9, <2>10, SafeFan
<1>6. CASE /\ ProbedAt(e, hd, hd')
           /\ Sets(p, cg, proc[p].round, proc[p].idx, proc[p].buf, proc[p].out,
                   proc[p].res, proc[p].rank, proc[p].parts)
  <2>1. cg = "got" /\ cg # "dead"
    OBVIOUS
  <2> HIDE DEF cg
  <2>2. /\ Moves(p) /\ proc'[p].pc = cg /\ proc'[p].round = proc[p].round
        /\ proc'[p].out = proc[p].out /\ proc'[p].res = proc[p].res /\ proc'[p].parts = proc[p].parts
    BY <1>1, <1>2, <1>6, <2>1, MovesSet
  <2>3. \A x \in End : hd'[x].in = hd[x].in /\ SameFlags(hd'[x], hd[x])
    BY <1>6 DEF ProbedAt, Only, SameFlags
  <2>4. \A s \in Leaf : hd'[REnd(s)].rd => hd[REnd(s)].rd
    BY <2>3, EndsAt DEF SameFlags
  <2>5. AllIn(p)
    BY <1>2, <2>2, <2>4, AllStay
  <2> QED BY <1>1, <1>2, <2>1, <2>2, <2>3, <2>5, SafeHold
<1> QED BY <1>1, <1>4, <1>5, <1>6

\* Keep, YieldTeam, GetNextTeam.
LEMMA SafeHandOver ==
  ASSUME TInv, SBody, NEW p \in Slot, Keep(p) \/ YieldTeam(p) \/ GetNextTeam(p)
  PROVE  SBody'
<1>1. /\ proc[p].pc \in {"received", "away"} /\ FanSide(type, p) /\ Frame /\ touched' = touched
      /\ hd' = hd /\ HdC(p, hd, hd')
      /\ \E c \in {"hold", "away"} :
           Sets(p, c, proc[p].round, proc[p].idx, proc[p].buf, proc[p].out,
                proc[p].res, proc[p].rank, proc[p].parts)
  BY HandOverIs
<1>2. PICK c \in {"hold", "away"} :
           Sets(p, c, proc[p].round, proc[p].idx, proc[p].buf, proc[p].out,
                proc[p].res, proc[p].rank, proc[p].parts)
  BY <1>1
<1>3. Active(p) /\ type \in {"FANIN", "FANOUT"} /\ c # "dead"
  BY <1>1 DEF Active, Idle, FanSide
<1>4. /\ Moves(p) /\ proc'[p].pc = c /\ proc'[p].round = proc[p].round
      /\ proc'[p].out = proc[p].out /\ proc'[p].res = proc[p].res /\ proc'[p].parts = proc[p].parts
  BY <1>1, <1>2, <1>3, MovesSet
<1>5. \A x \in End : hd'[x].in = hd[x].in /\ SameFlags(hd'[x], hd[x])
  BY <1>1 DEF SameFlags
<1>6. AllIn(p)
  BY <1>1, <1>3, <1>4, AllStay
<1> QED BY <1>1, <1>3, <1>4, <1>5, <1>6, SafeHold

\* One more element.
LEMMA OneMore ==
  ASSUME NEW S, NEW o \in Seq(S), NEW x \in S, NEW q, q = Append(o, x), NEW n, n = Len(o) + 1
  PROVE  /\ Len(o) \in Nat /\ Len(q) = n /\ n \in Nat /\ n \notin DOMAIN o /\ DOMAIN q = DOMAIN o \cup {n} /\ q[n] = x
         /\ \A i \in DOMAIN o : q[i] = o[i] /\ i \in Nat /\ i < n
  OBVIOUS

\* Those of the other members stay, and so do those received before.
OthersFrom(k) == \A s : s # k => From(Root, s)' = From(Root, s)
Earlier(n) ==
  \A s : \A i \in From(Root, s) : proc'[Root].out[i] = proc[Root].out[i] /\ i \in Nat /\ i < n

\* A message that the root of a fan-in receives is counted for its sender.
LEMMA FromNext ==
  ASSUME TInv, NEW x \in PieceRec, NEW k, x.src = k, proc'[Root].out = Append(proc[Root].out, x),
         NEW n, n = Len(proc[Root].out) + 1
  PROVE  /\ From(Root, k)' = From(Root, k) \cup {n} /\ n \notin From(Root, k)
         /\ Cardinality(From(Root, k)') = Cardinality(From(Root, k)) + 1
         /\ OthersFrom(k) /\ Earlier(n)
         /\ n \in Nat /\ proc'[Root].out[n] = x
<1> DEFINE o == proc[Root].out
           q == proc'[Root].out
<1>1. o \in Seq(PieceRec) /\ q = Append(o, x) /\ n = Len(o) + 1
  BY Slots, ProcFields DEF TInv
<1>2. \A s : From(Root, s) = {i \in DOMAIN o : o[i].src = s}
  BY DEF From
<1>3. \A s : From(Root, s)' = {i \in DOMAIN q : q[i].src = s}
  BY DEF From
<1> HIDE DEF o, q
<1>4. /\ n \in Nat /\ n \notin DOMAIN o /\ DOMAIN q = DOMAIN o \cup {n} /\ q[n] = x
      /\ \A i \in DOMAIN o : q[i] = o[i] /\ i \in Nat /\ i < n
  BY ONLY <1>1, x \in PieceRec, OneMore
<1>5. From(Root, k)' = From(Root, k) \cup {n} /\ n \notin From(Root, k)
  BY <1>2, <1>3, <1>4
<1>6. \A s : s # k => From(Root, s)' = From(Root, s)
  <2> SUFFICES ASSUME NEW s, s # k PROVE From(Root, s)' = From(Root, s)
    OBVIOUS
  <2>1. q[n].src # s
    BY <1>4
  <2>2. {i \in DOMAIN q : q[i].src = s} = {i \in DOMAIN o : o[i].src = s}
    BY <1>4, <2>1
  <2> QED BY <1>2, <1>3, <2>2
<1>7. Cardinality(From(Root, k)') = Cardinality(From(Root, k)) + 1
  <2>1. IsFiniteSet(From(Root, k))
    BY FromIs
  <2> DEFINE F == From(Root, k)
  <2>2. IsFiniteSet(F) /\ n \notin F /\ From(Root, k)' = F \cup {n}
    BY <1>5, <2>1
  <2> HIDE DEF F
  <2>3. Cardinality(F \cup {n}) = Cardinality(F) + 1
    BY <2>2, FS_AddElement
  <2> QED BY <2>2, <2>3 DEF F
<1>8. \A s : \A i \in From(Root, s) : q[i] = o[i] /\ i \in Nat /\ i < n
  BY <1>2, <1>4
<1> QED BY <1>4, <1>5, <1>6, <1>7, <1>8 DEF o, q, OthersFrom, Earlier

\* The root of a fan-in receives.
LEMMA SafeRootReceive ==
  ASSUME TInv, SBody, FanReceive(Root)
  PROVE  SBody'
<1>1. PICK e : e = Probing(Root)
  OBVIOUS
<1>2. /\ proc[Root].pc = "got" /\ Root \in Slot
  BY Zenon, Slots DEF FanReceive
<1>3. PICK k \in Leaf : k = proc[Root].parts[proc[Root].idx] /\ proc[Root].idx \in DOMAIN proc[Root].parts
  BY <1>2, ProbingRoot
<1>4. type = "FANIN" /\ e = REnd(k) /\ FanSide(type, Root) /\ Active(Root)
  BY <1>1, <1>2, <1>3, ProbingRoot DEF FanSide, Active, Idle
<1>20. PICK x, q : x = First(e) /\ q = Append(proc[Root].out, x)
  OBVIOUS
<1> DEFINE c == "received"
           one == 1
<1>5. /\ e \in End /\ Owner(e) = Root /\ Frame /\ touched' = (touched \/ hd[e].freed)
      /\ HdC(Root, hd, hd') /\ TookAt(e, hd, hd') /\ hd[e].in # <<>> /\ Head(hd[e].in).size > 0
      /\ x \in PieceRec
      /\ Sets(Root, c, proc[Root].round, one, proc[Root].buf, q,
              proc[Root].res, proc[Root].rank, proc[Root].parts)
  BY <1>1, <1>2, <1>20, FanReceiveIs
<1>6. ~hd[e].rd /\ ~hd[e].freed /\ Live(e)
  BY <1>3, <1>4, PartLive
<1>7. touched' = touched
  BY <1>5, <1>6 DEF TInv
<1>8. c = "received" /\ c # "dead" /\ q = Append(proc[Root].out, x)
  BY <1>20
<1> HIDE DEF c, one
<1>9. /\ Moves(Root) /\ proc'[Root].pc = c /\ proc'[Root].round = proc[Root].round
      /\ proc'[Root].out = q /\ proc'[Root].res = proc[Root].res
      /\ proc'[Root].parts = proc[Root].parts
  <2>1. /\ Root \in Slot /\ Frame /\ HdC(Root, hd, hd') /\ c # "dead" /\ Active(Root)
        /\ Sets(Root, c, proc[Root].round, one, proc[Root].buf, q, proc[Root].res, proc[Root].rank, proc[Root].parts)
    BY <1>2, <1>4, <1>5, <1>8
  <2> QED BY ONLY TInv, <2>1, MovesSet
<1>10. /\ type' = type /\ (Healthy' <=> Healthy) /\ Conns /\ PartsOk /\ FanOk
  BY <1>2, <1>9, MovesIs DEF Moves, Frame, SBody
<1>11. Got(e) = Cardinality(From(Root, k)) /\ Got(e) \in Nat /\ Got(e)' = Cardinality(From(Root, k)')
  BY <1>4, <1>10, FanCounts, FromIs
<1>12. x.src = k /\ x.round = Got(e) + 1
  <2> DEFINE n == Got(e) + 1
  <2>1. Head(hd[e].in) = Feed(e)[n]
    BY <1>5, <1>6, HeadIs
  <2>2. n \in Int
    BY <1>11
  <2> HIDE DEF n
  <2>3. Head(hd[e].in).data = ToRoot(k, n)
    BY <1>4, <2>1, <2>2, FeedIs, DataIs
  <2>4. ToRoot(k, n) = <<Piece(k, n, 0, UpLen(k))>>
    BY <1>4 DEF ToRoot
  <2>5. x = Piece(k, n, 0, UpLen(k))
    BY <1>20, <2>3, <2>4 DEF First
  <2>6. x.src = k /\ x.round = n
    BY <2>5 DEF Piece
  <2> QED BY <2>6 DEF n
<1>13. PICK n : n = Len(proc[Root].out) + 1
  OBVIOUS
<1>14. /\ From(Root, k)' = From(Root, k) \cup {n} /\ n \notin From(Root, k)
       /\ Cardinality(From(Root, k)') = Cardinality(From(Root, k)) + 1
       /\ \A s : s # k => From(Root, s)' = From(Root, s)
       /\ n \in Nat /\ proc'[Root].out[n] = x
       /\ \A s : \A i \in From(Root, s) : proc'[Root].out[i] = proc[Root].out[i] /\ i \in Nat /\ i < n
  <2>1. x \in PieceRec /\ x.src = k /\ proc'[Root].out = Append(proc[Root].out, x)
    BY <1>5, <1>8, <1>9, <1>12
  <2>2. /\ From(Root, k)' = From(Root, k) \cup {n} /\ n \notin From(Root, k)
        /\ Cardinality(From(Root, k)') = Cardinality(From(Root, k)) + 1
        /\ OthersFrom(k) /\ Earlier(n) /\ n \in Nat /\ proc'[Root].out[n] = x
    BY ONLY TInv, <1>13, <2>1, FromNext
  <2> QED BY <2>2 DEF OthersFrom, Earlier
<1> DEFINE X == {e}
           Y == {}
<1>15. CountsStay(Root, X, Y)
  <2>1. ASSUME NEW y \in End, Owner(y) = Root
        PROVE  Sent(y)' = Sent(y) /\ (y # e => Got(y)' = Got(y))
    <3>1. PICK j \in Leaf : y = REnd(j)
      BY <2>1, EndsAll, EndsAt, Slots
    <3>2. Sent(y)' = 0 /\ Sent(y) = 0 /\ Got(y) = Cardinality(From(Root, j)) /\ Got(y)' = Cardinality(From(Root, j)')
      BY <1>4, <1>10, <3>1, FanCounts
    <3>3. y # e => j # k
      BY <1>4, <3>1
    <3> QED BY <1>14, <3>2, <3>3
  <2> QED BY <2>1 DEF CountsStay
<1>16. Conns'
  <2>1. Got(e)' = Got(e) + 1 /\ Head(hd[e].in).size # 0
    BY <1>5, <1>11, <1>14
  <2> QED BY <1>2, <1>5, <1>9, <1>10, <1>15, <2>1, ConnTake
<1>17. PartsOk'
  <2>1. \A s \in Leaf : hd'[<<s, "root">>].rd <=> hd[<<s, "root">>].rd
    <3> SUFFICES ASSUME NEW s \in Leaf PROVE hd'[REnd(s)].rd <=> hd[REnd(s)].rd
      BY Zenon DEF REnd
    <3>1. REnd(s) \in End
      BY EndsAt
    <3> QED BY <1>5, <3>1 DEF TookAt, Only, SameFlags
  <2> QED BY <1>4, <1>9, <1>10, <2>1 DEF PartsOk
<1>18. FanOk'
  <2>1. Active(Root) /\ proc[Root].res # "zero"
    BY <1>2, <1>4, <1>10 DEF FanOk
  <2>2. ASSUME NEW s \in Leaf, NEW i \in From(Root, s)'
        PROVE  proc'[Root].out[i].round = Cardinality({j \in From(Root, s)' : j <= i})
    <3>1. \A a \in From(Root, s) : proc[Root].out[a].round = Cardinality({j \in From(Root, s) : j <= a})
      BY <1>4, <1>10 DEF FanOk
    <3>2. CASE s # k
      BY <1>14, <2>2, <3>1, <3>2
    <3>3. CASE s = k /\ i # n
      <4>1. i \in From(Root, k)
        BY <1>14, <2>2, <3>3
      <4>2. i < n /\ i \in Nat /\ proc'[Root].out[i] = proc[Root].out[i]
        BY <1>14, <4>1
      <4>3. {j \in From(Root, s)' : j <= i} = {j \in From(Root, s) : j <= i}
        BY <1>14, <3>3, <4>2
      <4> QED BY <3>1, <3>3, <4>1, <4>2, <4>3
    <3>4. CASE s = k /\ i = n
      <4>1. {j \in From(Root, s)' : j <= i} = From(Root, k)'
        BY <1>14, <3>4
      <4> QED BY <1>11, <1>12, <1>14, <3>4, <4>1
    <3> QED BY <3>2, <3>3, <3>4
  <2>3. ASSUME NEW s \in Leaf, Healthy', proc'[Root].res = "zero" \/ (Active(Root)' /\ hd'[<<s, "root">>].rd)
        PROVE  Cardinality(From(Root, s)') = Rounds
    <3>1. hd'[REnd(s)].rd
      BY <1>9, <2>1, <2>3 DEF REnd
    <3>2. REnd(s) \in End
      BY EndsAt
    <3>3. hd[REnd(s)].rd
      BY <1>5, <3>1, <3>2 DEF TookAt, Only, SameFlags
    <3>4. s # k
      BY <1>4, <1>6, <3>3
    <3>5. Cardinality(From(Root, s)) = Rounds
      BY <1>4, <1>10, <2>1, <2>3, <3>3 DEF FanOk, REnd
    <3> QED BY <1>14, <3>4, <3>5
  <2>4. ASSUME NEW p \in Slot, FanSide(type, p) PROVE proc'[p].res # "zero"
    <3>1. p = Root
      BY <1>4, <2>4 DEF FanSide
    <3> QED BY <1>9, <2>1, <3>1
  <2> QED BY <1>4, <1>10, <2>2, <2>3, <2>4 DEF FanOk
<1> QED BY <1>2, <1>4, <1>7, <1>8, <1>9, <1>16, <1>17, <1>18, SafeFan

\* A member of a fan-out receives.
LEMMA SafeLeafReceive ==
  ASSUME TInv, SBody, NEW p \in Leaf, FanReceive(p)
  PROVE  SBody'
<1>1. PICK e : e = Probing(p)
  OBVIOUS
<1>2. /\ p \in Slot /\ p # Root /\ e = LEnd(p) /\ e \in End /\ Owner(e) = p
  BY <1>1, Slots, ProbingLeaf
<1>3. PICK x, q : x = First(e) /\ q = Append(proc[p].out, x)
  OBVIOUS
<1> DEFINE c == "received"
           one == 1
<1>4. /\ proc[p].pc = "got" /\ FanSide(type, p) /\ Frame /\ touched' = (touched \/ hd[e].freed)
      /\ HdC(p, hd, hd') /\ TookAt(e, hd, hd') /\ hd[e].in # <<>> /\ Head(hd[e].in).size > 0
      /\ x \in PieceRec
      /\ Sets(p, c, proc[p].round, one, proc[p].buf, q, proc[p].res, proc[p].rank, proc[p].parts)
  BY <1>1, <1>2, <1>3, FanReceiveIs
<1>5. type = "FANOUT" /\ Active(p)
  BY <1>2, <1>4 DEF FanSide, Active, Idle
<1>6. ~hd[e].freed /\ Live(e)
  BY <1>2, <1>5, InCallIs
<1>7. touched' = touched
  BY <1>4, <1>6 DEF TInv
<1>8. c = "received" /\ c # "dead"
  OBVIOUS
<1> HIDE DEF c, one
<1>9. /\ Moves(p) /\ proc'[p].pc = c /\ proc'[p].round = proc[p].round
      /\ proc'[p].out = q /\ proc'[p].res = proc[p].res /\ proc'[p].parts = proc[p].parts
  <2>1. /\ p \in Slot /\ Frame /\ HdC(p, hd, hd') /\ c # "dead" /\ Active(p)
        /\ Sets(p, c, proc[p].round, one, proc[p].buf, q, proc[p].res, proc[p].rank, proc[p].parts)
    BY <1>2, <1>4, <1>5, <1>8
  <2> QED BY ONLY TInv, <2>1, MovesSet
<1>10. /\ type' = type /\ (Healthy' <=> Healthy) /\ Conns /\ PartsOk /\ FanOk
       /\ \A y \in Slot : y # p => proc'[y] = proc[y]
  BY <1>2, <1>9, MovesIs DEF Moves, Frame, Others, SBody
<1>11. Got(e) = Len(proc[p].out) /\ Got(e)' = Len(proc'[p].out) /\ Sent(e) = 0 /\ Sent(e)' = 0
  BY <1>2, <1>5, <1>10, FanCounts
<1>12. PICK n : n = Len(proc[p].out) + 1
  OBVIOUS
<1>13. /\ Len(proc[p].out) \in Nat /\ Len(q) = n /\ n \in Nat /\ DOMAIN q = DOMAIN proc[p].out \cup {n} /\ q[n] = x
       /\ \A i \in DOMAIN proc[p].out : q[i] = proc[p].out[i]
  <2> DEFINE o == proc[p].out
  <2>1. o \in Seq(PieceRec)
    BY <1>2, ProcFields DEF TInv
  <2>2. q = Append(o, x) /\ n = Len(o) + 1
    BY <1>3, <1>12
  <2> HIDE DEF o
  <2>3. /\ Len(o) \in Nat /\ Len(q) = n /\ n \in Nat /\ DOMAIN q = DOMAIN o \cup {n} /\ q[n] = x
        /\ \A i \in DOMAIN o : q[i] = o[i]
    BY <1>4, <2>1, <2>2, OneMore
  <2> QED BY <2>3 DEF o
<1>14. x.round = (n - 1) * (N - 1) + p
  <2>1. Head(hd[e].in) = Feed(e)[n]
    BY <1>2, <1>4, <1>6, <1>11, <1>12, HeadIs
  <2>2. Head(hd[e].in).data = ToLeaf(p, n)
    BY <1>2, <1>13, <2>1, FeedIs, DataIs
  <2>3. ToLeaf(p, n) = <<Piece(Root, (n - 1) * (N - 1) + p, 0, 1)>>
    BY <1>5 DEF ToLeaf, Down, Sym
  <2>4. x = Piece(Root, (n - 1) * (N - 1) + p, 0, 1)
    BY <1>3, <2>2, <2>3 DEF First
  <2> QED BY <2>4 DEF Piece
<1> DEFINE X == {e}
           Y == {}
<1>15. CountsStay(p, X, Y)
  <2>1. ASSUME NEW y \in End, Owner(y) = p PROVE y = e
    BY <1>2, <2>1, EndsAll, EndsAt, Slots
  <2> QED BY <1>11, <2>1 DEF CountsStay
<1>16. Conns'
  <2>1. Got(e)' = Got(e) + 1 /\ Head(hd[e].in).size # 0
    BY <1>4, <1>9, <1>11, <1>12, <1>13
  <2> QED BY <1>2, <1>4, <1>9, <1>10, <1>15, <2>1, ConnTake
<1>17. PartsOk'
  BY <1>2, <1>9, <1>10, PartsRest
<1>18. FanOk'
  <2>1. \A y \in Slot : FanSide(type, y) /\ Active(y) => proc[y].res # "zero"
    BY <1>10 DEF FanOk
  <2>2. proc'[p].res # "zero"
    BY <1>2, <1>4, <1>5, <1>9, <2>1
  <2>3. ASSUME NEW y \in Leaf
        PROVE  /\ \A j \in DOMAIN proc'[y].out : proc'[y].out[j].round = (j - 1) * (N - 1) + y
               /\ proc'[y].res = "zero" /\ Healthy' => Len(proc'[y].out) = Dealt(y, Rounds)
    <3>1. /\ \A j \in DOMAIN proc[y].out : proc[y].out[j].round = (j - 1) * (N - 1) + y
          /\ proc[y].res = "zero" /\ Healthy => Len(proc[y].out) = Dealt(y, Rounds)
      BY <1>5, <1>10 DEF FanOk
    <3>2. CASE y = p
      <4>1. ASSUME NEW j \in DOMAIN proc'[p].out PROVE proc'[p].out[j].round = (j - 1) * (N - 1) + p
        <5>1. j \in DOMAIN proc[p].out \/ j = n
          BY <1>9, <1>13, <4>1
        <5>2. CASE j \in DOMAIN proc[p].out
          BY <1>9, <1>13, <3>1, <3>2, <5>2
        <5>3. CASE j = n
          BY <1>9, <1>13, <1>14, <5>3
        <5> QED BY <5>1, <5>2, <5>3
      <4> QED BY <2>2, <3>2, <4>1
    <3>3. CASE y # p
      <4>1. y \in Slot
        BY Slots
      <4> QED BY <1>10, <3>1, <3>3, <4>1
    <3> QED BY <3>2, <3>3
  <2>4. ASSUME NEW y \in Slot, FanSide(type, y), Active(y)' PROVE proc'[y].res # "zero"
    <3>1. CASE y = p
      BY <2>2, <3>1
    <3>2. CASE y # p
      BY <1>10, <2>1, <2>4, <3>2 DEF Active
    <3> QED BY <3>1, <3>2
  <2> QED BY <1>5, <1>10, <2>3, <2>4 DEF FanOk
<1> QED BY <1>2, <1>4, <1>5, <1>7, <1>8, <1>9, <1>16, <1>17, <1>18, SafeFan

\* The steps of fan-in and fan-out keep the invariant.
LEMMA SafeFans ==
  ASSUME TInv, SBody, NEW p \in Slot, Fan(p)
  PROVE  SBody'
<1>1. p # Root => p \in Leaf
  BY Slots
<1>2. CASE FanSend(p)
  BY <1>2, SafeFanSend
<1>3. CASE p = Root /\ FanInProbe
  BY <1>3, SafeFanInProbe
<1>4. CASE p # Root /\ FanOutProbe(p)
  BY <1>1, <1>4, SafeFanOutProbe
<1>5. CASE FanReceive(p)
  <2>1. CASE p = Root
    BY <1>5, <2>1, SafeRootReceive
  <2>2. CASE p # Root
    BY <1>1, <1>5, <2>2, SafeLeafReceive
  <2> QED BY <2>1, <2>2
<1>6. CASE Keep(p) \/ YieldTeam(p) \/ GetNextTeam(p)
  BY <1>6, SafeHandOver
<1> QED BY <1>2, <1>3, <1>4, <1>5, <1>6 DEF Fan

-----------------------------------------------------------------------------
(* Safety: closing *)

\* Closing sends and receives no message of the collective.
LEMMA ClosingCounts ==
  ASSUME TInv, NEW p \in Slot, Moves(p), proc[p].pc \in {"ready", "stop", "final"},
         proc'[p].pc \in {"final", "end"}, proc'[p].round = proc[p].round, proc'[p].out = proc[p].out,
         NEW X, NEW Y
  PROVE  CountsStay(p, X, Y)
<1>1. type' = type
  BY DEF Moves, Frame
<1>2. ~Active(p)'
  BY DEF Active, Idle
<1>3. ASSUME NEW e \in End, Owner(e) = p PROVE ~Live(e)' /\ Sent(e)' = Sent(e)
  <2>1. ~Live(e)'
    BY <1>2, <1>3 DEF Live
  <2>2. PICK k \in Leaf : e = REnd(k) \/ e = LEnd(k)
    BY EndsAll
  <2> DEFINE t == type
             c == proc[p].pc
             d == proc'[p].pc
             r == proc[p].round
  <2>3. c \in {"ready", "stop", "final", "end"} /\ d \in {"ready", "stop", "final", "end"}
    OBVIOUS
  <2> HIDE DEF t, c, d, r
  <2>4. CASE e = REnd(k)
    <3>1. p = Root
      BY <1>3, <2>4, EndsAt
    <3>2. \A i, j : RSent(t, c, r, i, k) = RSent(t, d, r, j, k)
      BY <2>3 DEF RSent
    <3>3. Sent(e) = RSent(t, c, r, proc[Root].idx, k) /\ Sent(e)' = RSent(t, d, r, proc'[Root].idx, k)
      BY <1>1, <2>4, <3>1, RootCounts DEF t, c, d, r
    <3> QED BY <2>1, <3>2, <3>3
  <2>5. CASE e = LEnd(k)
    <3>1. p = k
      BY <1>3, <2>5, EndsAt
    <3>2. LSent(t, c, r) = LSent(t, d, r)
      BY <2>3 DEF LSent
    <3>3. Sent(e) = LSent(t, c, r) /\ Sent(e)' = LSent(t, d, r)
      BY <1>1, <2>5, <3>1, LeafCounts DEF t, c, d, r
    <3> QED BY <2>1, <3>2, <3>3
  <2> QED BY <2>2, <2>4, <2>5
<1> QED BY <1>3 DEF CountsStay

\* A process that closes.
LEMMA SafeClosing ==
  ASSUME TInv, SBody, NEW p \in Slot, Moves(p), proc'[p].pc \in {"final", "end"},
         proc'[p].round = proc[p].round, proc'[p].out = proc[p].out, proc'[p].res = proc[p].res, Conns',
         Healthy /\ Sender(p) => proc[p].round = Rounds, touched' /\ Healthy => touched \/ type = "FANOUT"
  PROVE  SBody'
<1>1. /\ type' = type /\ (Healthy' <=> Healthy) /\ (Sender(p)' <=> Sender(p)) /\ ProcOk(p) /\ BufOk
      /\ PartsOk /\ FanOk /\ (touched /\ Healthy => type = "FANOUT") /\ ~Active(p)'
  BY MovesIs, PartyFix DEF Moves, Frame, SBody, Active, Idle
<1>2. ProcOk(p)'
  BY <1>1 DEF ProcOk
<1>3. BufOk'
  BY <1>1, BufRest
<1>4. PartsOk'
  <2>1. CASE p # Root \/ type # "FANIN"
    BY <1>1, <2>1, PartsRest
  <2>2. CASE p = Root
    BY <1>1, <2>2 DEF PartsOk
  <2> QED BY <2>1, <2>2
<1>5. FanOk'
  <2>1. CASE type \in {"FANIN", "FANOUT"}
    <3>1. AllIn(p)
      <4>1. CASE p = Root
        BY <1>1, <4>1 DEF FanOk, AllIn, Idle
      <4>2. CASE p # Root
        <5>1. p \in Leaf
          BY <4>2, Slots
        <5> QED BY <1>1, <4>2, <5>1 DEF FanOk, AllIn, Idle
      <4> QED BY <4>1, <4>2
    <3> QED BY <2>1, <3>1, FanRest
  <2>2. CASE type \notin {"FANIN", "FANOUT"}
    BY <1>1, <2>2 DEF FanOk, FanSide
  <2> QED BY <2>1, <2>2
<1>6. EndOk'
  BY EndRest
<1> QED BY <1>1, <1>2, <1>3, <1>4, <1>5, <1>6, SafeMove

\* CloseTeam.
LEMMA SafeCloseTeam ==
  ASSUME TInv, SBody, NEW p \in Slot, CloseTeam(p)
  PROVE  SBody'
<1>1. PICK es : es = Closes(p)
  OBVIOUS
<1>2. /\ Finished(p) /\ Frame
      /\ touched' = (touched \/ \E e \in es : hd[e].freed)
      /\ AllWrAt(es, hd, hd') /\ HdC(p, hd, hd')
      /\ Sets(p, "final", proc[p].round, 1, proc[p].buf, proc[p].out,
              proc[p].res, proc[p].rank, proc[p].parts)
  BY <1>1, CloseTeamIs
<1>3. proc[p].pc = "stop" \/ (proc[p].pc = "ready" /\ proc[p].round >= Rounds)
  BY <1>2 DEF Finished
<1>4. /\ Moves(p) /\ proc'[p].pc = "final" /\ proc'[p].round = proc[p].round
      /\ proc'[p].out = proc[p].out /\ proc'[p].res = proc[p].res
  <2>1. Others(p) /\ proc'[p].pc = "final" /\ proc'[p].round = proc[p].round
        /\ proc'[p].out = proc[p].out /\ proc'[p].res = proc[p].res
    BY <1>2 DEF Sets, Others
  <2> QED BY <1>2, <1>3, <2>1 DEF Moves, Idle
<1>5. /\ es \in SUBSET End /\ (\A e \in es : Owner(e) = p /\ Peer(e) \notin es) /\ ~Active(p)'
  BY <1>1, <1>4, ClosesAre DEF Active, Idle
<1>6. Conns /\ ProcOk(p)
  BY DEF SBody
<1> DEFINE Z == {}
<1>7. CountsStay(p, Z, Z)
  BY <1>3, <1>4, ClosingCounts
<1>8. ASSUME NEW x \in es
      PROVE  /\ Owner(x) = p /\ ~Live(x)' /\ CloseOk(x)' /\ hd'[x].in = hd[x].in
             /\ hd'[x].wr /\ Told(x, hd, hd')
  <2>1. x \in End /\ Owner(x) = p /\ Peer(x) \in End /\ Peer(Peer(x)) = x
    BY <1>5, PeerOf
  <2>2. ~Live(x)'
    BY <1>5, <2>1 DEF Live
  <2>3. hd'[x].in = hd[x].in /\ hd'[x].wr /\ (hd'[x].rd <=> hd[x].rd)
    BY <1>2, <2>1 DEF AllWrAt
  <2>4. Told(x, hd, hd')
    BY <1>2, <2>1 DEF AllWrAt, Told
  <2>5. CloseOk(x)'
    <3>1. CloseOk(x) /\ Quiet(x)
      BY <1>6, <2>1 DEF Conns
    <3>2. proc'[p].pc # "stop"
      BY <1>4
    <3> QED BY <1>4, <1>5, <2>1, <2>3, <3>1, <3>2, CloseEnd
  <2> QED BY <2>1, <2>2, <2>3, <2>4, <2>5
<1>9. \A x \in End : x \notin es /\ Peer(x) \notin es => hd'[x] = hd[x]
  BY <1>2 DEF AllWrAt
<1>10. Conns'
  BY <1>4, <1>5, <1>6, <1>7, <1>8, <1>9, ConnEnds
<1>11. Healthy /\ Sender(p) => proc[p].round = Rounds
  <2> SUFFICES ASSUME Healthy, Sender(p) PROVE proc[p].round = Rounds
    OBVIOUS
  <2>1. proc[p].pc # "stop" /\ proc[p].round <= Rounds
    BY <1>6 DEF ProcOk
  <2>2. proc[p].round \in Nat
    BY TurnIs
  <2> QED BY <1>3, <2>1, <2>2, TeamAssumption
<1>12. touched' /\ Healthy => touched
  <2> SUFFICES ASSUME Healthy, NEW x \in es, hd[x].freed PROVE FALSE
    BY <1>2 DEF TInv
  <2>1. x \in End /\ Owner(x) = p
    BY <1>5
  <2>2. ~hd[x].wr
    <3>1. CASE proc[p].pc = "stop"
      BY <1>1, <1>6, <2>1, <3>1 DEF Conns, CloseOk
    <3>2. CASE proc[p].pc = "ready"
      <4>1. Active(p) /\ (type # "FANIN" \/ p # Root)
        BY <3>2 DEF Active, Idle, TInv, ProcTy, PcTy, FanSide
      <4> QED BY <2>1, <4>1, InCallIs
    <3> QED BY <1>3, <3>1, <3>2
  <2>3. HandleTy(x) /\ proc[p].pc # "dead"
    BY <1>3, <2>1 DEF TInv
  <2> QED BY <2>1, <2>2, <2>3 DEF HandleTy
<1> QED BY <1>4, <1>10, <1>11, <1>12, SafeClosing

\* FinalizeHandle.
LEMMA SafeFinalize ==
  ASSUME TInv, SBody, NEW p \in Slot, FinalizeHandle(p)
  PROVE  SBody'
<1>1. PICK k, e : k = proc[p].idx /\ e = EndOf(p, k)
  OBVIOUS
<1>2. /\ proc[p].pc = "final" /\ Frame /\ touched' = touched /\ HdC(p, hd, hd')
      /\ FinalizeDoes(p, k, e)
  BY <1>1, FinalizeIs
<1>3. /\ Others(p) /\ proc'[p].pc \in {"final", "end"} /\ proc'[p].round = proc[p].round
      /\ proc'[p].out = proc[p].out /\ proc'[p].res = proc[p].res
  <2>1. CASE \E c \in {"final", "end"} : \E i : Sets(p, c, proc[p].round, i, proc[p].buf, proc[p].out,
             proc[p].res, proc[p].rank, proc[p].parts)
    BY <2>1 DEF Sets, Others
  <2>2. CASE proc' = proc
    BY <1>2, <2>2 DEF Others, TInv
  <2> QED BY <1>2, <2>1, <2>2 DEF FinalizeDoes
<1>4. Moves(p) /\ ~Active(p)' /\ ~Active(p)
  BY <1>2, <1>3 DEF Moves, Active, Idle
<1>5. Conns /\ ProcOk(p)
  BY DEF SBody
<1> DEFINE Z == {}
<1>6. CountsStay(p, Z, Z)
  BY <1>2, <1>3, <1>4, ClosingCounts
<1>7. Conns'
  <2>1. CASE hd' = hd
    <3>1. \A x \in End : hd'[x].in = hd[x].in /\ SameFlags(hd'[x], hd[x])
      BY <2>1 DEF SameFlags
    <3> QED BY <1>4, <1>5, <1>6, <3>1, ConnKeep
  <2>2. CASE e \in End /\ Owner(e) = p /\ hd' # hd
    <3>1. CloseOk(e) /\ Quiet(e) /\ ~Live(e)' /\ proc'[p].pc # "stop" /\ Peer(e) \in End /\ Peer(e) # e
      BY <1>3, <1>4, <1>5, <2>2, PeerOf DEF Conns, Live
    <3>2. CASE WrAt(e, hd, hd')
      <4>1. hd'[e].rd <=> hd[e].rd
        BY <3>2 DEF WrAt
      <4>2. CloseOk(e)'
        BY <1>4, <2>2, <3>1, <4>1, CloseEnd
      <4> QED BY <1>4, <1>5, <1>6, <2>2, <3>1, <3>2, <4>2, ConnEnd
    <3>3. CASE hd[e].in # <<>> /\ Head(hd[e].in).size = 0 /\ EosAt(e, hd, hd')
      <4>1. CloseOk(e)'
        BY <1>4, <2>2, <3>1, <3>3, CloseEnd
      <4> QED BY <1>4, <1>5, <1>6, <2>2, <3>1, <3>3, <4>1, ConnEnd
    <3>4. CASE hd[e].in # <<>> /\ TookAt(e, hd, hd')
      <4>1. /\ hd'[e].rd <=> hd[e].rd
            /\ hd'[e].wr <=> hd[e].wr
            /\ hd'[e].in = Tail(hd[e].in) /\ \A x \in End : x # e => hd'[x] = hd[x]
        BY <3>4 DEF TookAt, Only, SameFlags
      <4>2. CloseOk(e)'
        BY <1>4, <2>2, <3>1, <4>1, CloseEnd
      <4> DEFINE es == {e}
      <4>3. /\ es \in SUBSET End
            /\ \A x \in es : /\ Owner(x) = p /\ ~Live(x)' /\ CloseOk(x)'
                             /\ \/ hd'[x].in = hd[x].in
                                \/ hd[x].in # <<>> /\ hd'[x].in = Tail(hd[x].in)
            /\ \A x \in es : hd'[Peer(x)] = hd[Peer(x)] /\ (hd'[x].wr <=> hd[x].wr)
            /\ \A x \in End : x \notin es /\ Peer(x) \notin es => hd'[x] = hd[x]
        BY <2>2, <3>1, <3>4, <4>1, <4>2
      <4> HIDE DEF es
      <4> QED BY <1>4, <1>5, <1>6, <4>3, ConnEnds
    <3> QED BY <1>2, <2>2, <3>2, <3>3, <3>4 DEF FinalizeDoes
  <2> QED BY <1>2, <2>1, <2>2 DEF FinalizeDoes
<1>8. Healthy /\ Sender(p) => proc[p].round = Rounds
  BY <1>2, <1>5 DEF ProcOk
<1> QED BY <1>2, <1>3, <1>4, <1>7, <1>8, SafeClosing

-----------------------------------------------------------------------------
(* Safety: the death of a member, and steps that touch no process *)

\* A process stays as it is, or dies.
Rests(q) ==
  \/ proc'[q] = proc[q]
  \/ /\ proc'[q].pc = "dead" /\ proc'[q].round = proc[q].round /\ proc'[q].out = proc[q].out
     /\ proc'[q].res = proc[q].res
Untouched(e) ==
  hd'[e].in = hd[e].in /\ (hd'[e].wr <=> hd[e].wr) /\ (hd'[e].rd <=> hd[e].rd)

\* The handles stay, and the root lives.
LEMMA SafeRest ==
  ASSUME TInv, SBody, Frame, proc'[Root] = proc[Root], touched' = touched,
         \A e \in End : Untouched(e), \A q \in Slot : Rests(q)
  PROVE  SBody'
<1>1. type' = type /\ Conns /\ BufOk /\ PartsOk /\ FanOk /\ EndOk /\ (touched /\ Healthy => type = "FANOUT")
  BY DEF Frame, SBody
<1>2. ASSUME NEW q \in Slot, proc'[q].pc # "dead" PROVE proc'[q] = proc[q]
  BY <1>2 DEF Rests
<1>3. Healthy' => Healthy /\ \A q \in Slot : proc'[q] = proc[q]
  BY <1>2 DEF Healthy
<1>4. ASSUME NEW q \in Slot, Active(q)' PROVE proc'[q] = proc[q] /\ Active(q)
  <2>1. proc'[q] = proc[q]
    BY <1>2, <1>4 DEF Active
  <2> QED BY <1>4, <2>1 DEF Active
<1>5. ASSUME NEW e \in End, proc'[Owner(e)] = proc[Owner(e)]
      PROVE  Sent(e)' = Sent(e) /\ Got(e)' = Got(e)
  <2>1. PICK k \in Leaf : e = REnd(k) \/ e = LEnd(k)
    BY EndsAll
  <2>2. CASE e = REnd(k)
    <3>1. From(Root, k)' = From(Root, k)
      BY DEF From
    <3> QED BY <1>1, <2>2, <3>1, EndsAt DEF Sent, Got, RootSent, RootGot
  <2>3. CASE e = LEnd(k)
    <3>1. proc'[k] = proc[k]
      BY <1>5, <2>3, EndsAt
    <3> QED BY <1>1, <2>3, <3>1, EndsAt DEF Sent, Got, LeafSent, LeafGot
  <2> QED BY <2>1, <2>2, <2>3
<1>6. ASSUME NEW e \in End PROVE Quiet(e)' /\ StreamOk(e)' /\ CloseOk(e)'
  <2>1. /\ Quiet(e) /\ StreamOk(e) /\ CloseOk(e) /\ Peer(e) \in End /\ Peer(Peer(e)) = e
        /\ Owner(e) \in Slot /\ Owner(Peer(e)) \in Slot
    BY <1>1, PeerOf DEF Conns
  <2>2. Untouched(e) /\ Untouched(Peer(e))
    BY <2>1
  <2>3. Quiet(e)'
    BY <2>1, <2>2 DEF Quiet, Untouched
  <2>4. Live(e)' => Live(e) /\ Got(e)' = Got(e)
    BY <1>4, <1>5, <2>1, <2>2 DEF Live, Untouched
  <2>5. Counted(e)' => Counted(e) /\ Sent(Peer(e))' = Sent(Peer(e))
    <3> SUFFICES ASSUME Counted(e)' PROVE Counted(e) /\ Sent(Peer(e))' = Sent(Peer(e))
      OBVIOUS
    <3>1. proc'[Owner(Peer(e))] = proc[Owner(Peer(e))] /\ Counted(e)
      BY <1>3, <1>4, <2>1 DEF Counted
    <3> QED BY <1>5, <2>1, <3>1
  <2>6. Feed(e)' = Feed(e)
    BY FeedFix
  <2>7. StreamOk(e)'
    BY <1>1, <2>1, <2>2, <2>4, <2>5, <2>6 DEF StreamOk, Untouched
  <2>8. Closes(Owner(e))' = Closes(Owner(e))
    BY PartyFix
  <2>9. CloseOk(e)'
    BY <1>1, <1>3, <1>4, <2>1, <2>2, <2>8 DEF CloseOk, Untouched
  <2> QED BY <2>3, <2>7, <2>9
<1>7. ASSUME NEW q \in Slot PROVE ProcOk(q)'
  <2>1. ProcOk(q) /\ Rests(q) /\ (Sender(q)' <=> Sender(q))
    BY PartyFix DEF SBody
  <2>2. CASE proc'[q] = proc[q]
    <3>1. Expected(q, proc[q].round)' = Expected(q, proc[q].round)
      BY <1>1, <2>2, RanksFix DEF Expected, Frame
    <3> QED BY <1>1, <1>3, <2>1, <2>2, <3>1 DEF ProcOk
  <2>3. CASE proc'[q] # proc[q]
    <3>1. ~Healthy'
      BY <1>3, <2>3
    <3>2. proc'[q].pc = "dead" /\ proc'[q].round = proc[q].round /\ proc'[q].out = proc[q].out
          /\ proc'[q].res = proc[q].res
      BY <2>1, <2>3 DEF Rests
    <3> QED BY <1>1, <2>1, <3>1, <3>2 DEF ProcOk
  <2> QED BY <2>2, <2>3
<1>8. BufOk'
  <2>0. \A k : RankOf(k)' = RankOf(k)
    BY RanksFix
  <2>2. \A k : UpLen(k)' = UpLen(k)
    BY RanksFix DEF Frame, UpLen
  <2>3. RankOf(proc[Root].idx)' = RankOf(proc[Root].idx)
    BY DEF RankOf, Frame
  <2>4. type' \in Sym \cup {"GATHER"} /\ proc'[Root].pc \in {"collect", "spread"} =>
          \A j \in DOMAIN proc'[Root].buf :
             proc'[Root].buf[j] = Piece(j - 1, proc'[Root].round, 0, UpLen(j - 1)')
    BY <1>1, <2>2 DEF BufOk
  <2>5. type' = "UCC_OOB" /\ proc'[Root].pc \in {"collect", "reply", "block", "spread"} =>
          \A k \in Slot : k < proc'[Root].idx \/ proc'[Root].pc = "spread" =>
            proc'[Root].buf[RankOf(k)'] = Piece(k, proc'[Root].round, 0, 1)
    BY <1>1, <2>0 DEF BufOk
  <2>6. type' = "UCC_OOB" /\ proc'[Root].pc = "block" =>
          proc'[Root].rank = RankOf(proc[Root].idx)'
    BY <1>1, <2>3 DEF BufOk
  <2> QED BY <2>4, <2>5, <2>6 DEF BufOk
<1>9. \A k \in Leaf : /\ hd'[<<k, "root">>].rd <=> hd[<<k, "root">>].rd
                      /\ hd'[<<k, "leaf">>].rd <=> hd[<<k, "leaf">>].rd
  <2> SUFFICES ASSUME NEW k \in Leaf PROVE (hd'[REnd(k)].rd <=> hd[REnd(k)].rd) /\ (hd'[LEnd(k)].rd <=> hd[LEnd(k)].rd)
    BY Zenon DEF REnd, LEnd
  <2>1. REnd(k) \in End /\ LEnd(k) \in End
    BY EndsAt
  <2> QED BY <2>1 DEF Untouched
<1>10. Active(Root)' <=> Active(Root)
  BY DEF Active
<1>11. PartsOk'
  BY <1>1, <1>9, <1>10 DEF PartsOk
<1>12. FanOk'
  <2>1. \A s : From(Root, s)' = From(Root, s)
    BY DEF From
  <2>2. CASE type = "FANIN"
    <3>1. \A s \in Leaf : \A i \in From(Root, s) :
            proc[Root].out[i].round = Cardinality({j \in From(Root, s) : j <= i})
      BY <1>1, <2>2 DEF FanOk
    <3>2. \A s \in Leaf :
            Healthy /\ (proc[Root].res = "zero" \/ (Active(Root) /\ hd[<<s, "root">>].rd)) =>
              Cardinality(From(Root, s)) = Rounds
      BY <1>1, <2>2 DEF FanOk
    <3>3. ASSUME NEW q \in Slot, FanSide(type, q), Active(q)' PROVE proc'[q].res # "zero"
      BY <1>1, <1>4, <3>3 DEF FanOk
    <3> QED BY Zenon, <1>1, <1>3, <1>9, <1>10, <2>1, <2>2, <3>1, <3>2, <3>3 DEF FanOk
  <2>3. CASE type = "FANOUT"
    <3>1. ASSUME NEW q \in Leaf
          PROVE  /\ \A j \in DOMAIN proc'[q].out : proc'[q].out[j].round = (j - 1) * (N - 1) + q
                 /\ proc'[q].res = "zero" /\ Healthy' => Len(proc'[q].out) = Dealt(q, Rounds)
      <4>1. q \in Slot
        BY Slots
      <4>2. proc'[q].out = proc[q].out /\ proc'[q].res = proc[q].res
        BY <4>1 DEF Rests
      <4>3. /\ \A j \in DOMAIN proc[q].out : proc[q].out[j].round = (j - 1) * (N - 1) + q
            /\ proc[q].res = "zero" /\ Healthy => Len(proc[q].out) = Dealt(q, Rounds)
        BY <1>1, <2>3 DEF FanOk
      <4> QED BY <1>3, <4>2, <4>3
    <3>2. ASSUME NEW q \in Slot, FanSide(type, q), Active(q)' PROVE proc'[q].res # "zero"
      BY <1>1, <1>4, <3>2 DEF FanOk
    <3> QED BY <1>1, <2>3, <3>1, <3>2 DEF FanOk
  <2>4. CASE type \notin {"FANIN", "FANOUT"}
    BY <1>1, <2>4 DEF FanOk, FanSide
  <2> QED BY <2>2, <2>3, <2>4
<1>13. EndOk'
  <2> SUFFICES ASSUME Healthy', NEW q \in Slot, proc'[q].res = "zero"
               PROVE  /\ type' \in Down => hd'[<<q, "leaf">>].rd
                      /\ type' = "GATHER" => \E k \in Leaf : hd'[<<k, "root">>].rd
    BY DEF EndOk
  <2>1. Healthy /\ proc[q].res = "zero" /\ ProcOk(q)
    BY <1>3 DEF SBody
  <2>2. /\ type \in Down => hd[<<q, "leaf">>].rd
        /\ type = "GATHER" => \E k \in Leaf : hd[<<k, "root">>].rd
    BY <1>1, <2>1 DEF EndOk
  <2>3. type \in Down => q \in Leaf
    <3> SUFFICES ASSUME type \in Down, q = Root PROVE FALSE
      BY Slots
    <3>1. Sender(Root)
      BY DEF Sender, Down
    <3> QED BY <2>1, <3>1 DEF ProcOk
  <2> QED BY <1>1, <1>9, <2>2, <2>3
<1>14. Conns' /\ \A q \in Slot : ProcOk(q)'
  BY <1>6, <1>7 DEF Conns
<1>15. touched' /\ Healthy' => type' = "FANOUT"
  BY <1>1, <1>3
<1> QED BY <1>8, <1>11, <1>12, <1>13, <1>14, <1>15 DEF SBody

\* Crash.
LEMMA SafeCrash ==
  ASSUME TInv, SBody, NEW p \in Slot, Crash(p)
  PROVE  SBody'
<1>1. /\ p \in Leaf /\ p # Root /\ Frame /\ touched' = touched /\ Root \in Slot
      /\ Goto(p, "dead") /\ EndOf(p, p) = LEnd(p)
  BY Slots, EndsAt DEF Crash, Frame, team
<1> DEFINE e == LEnd(p)
           c == "dead"
<1>2. e \in End /\ hd' = [hd EXCEPT ![e].open = FALSE] /\ hd \in [End -> HdRec]
  BY <1>1, EndsAt DEF Crash, TInv
<1>3. c \in Pc /\ c = "dead" /\ Goto(p, c)
  BY <1>1 DEF Pc
<1> HIDE DEF c, e
<1>4. Sets(p, c, proc[p].round, proc[p].idx, proc[p].buf, proc[p].out,
              proc[p].res, proc[p].rank, proc[p].parts)
  BY <1>3, GotoIs
<1>5. \A q \in Slot : Rests(q)
  BY <1>3, <1>4 DEF Sets, Rests
<1>6. proc'[Root] = proc[Root]
  BY <1>1, <1>4 DEF Sets
<1>7. \A x \in End : Untouched(x)
  <2> DEFINE r == [hd[e] EXCEPT !.open = FALSE]
  <2>1. hd[e] \in HdRec
    BY <1>2
  <2>2. r.in = hd[e].in /\ (r.wr <=> hd[e].wr) /\ (r.rd <=> hd[e].rd)
    BY <2>1 DEF HdRec
  <2>3. hd' = [hd EXCEPT ![e] = r]
    BY <1>2
  <2> HIDE DEF r
  <2>4. hd'[e] = r /\ \A x \in End : x # e => hd'[x] = hd[x]
    BY <1>2, <2>3
  <2> QED BY <2>2, <2>4 DEF Untouched
<1> QED BY <1>1, <1>5, <1>6, <1>7, SafeRest

\* PollTeam, FinalizeSpin and stuttering.
LEMMA SafeCtx ==
  ASSUME TInv, SBody, Frame, proc' = proc, hd' = hd, touched' = touched
  PROVE  SBody'
<1>1. (\A q \in Slot : Rests(q)) /\ (\A e \in End : Untouched(e)) /\ proc'[Root] = proc[Root]
  BY DEF Rests, Untouched
<1> QED BY <1>1, SafeRest

\* Process p, which is alive, is the only one that changes.
Acts(p) == Frame /\ proc[p].pc # "dead" /\ \A q \in Slot : q # p => proc'[q] = proc[q]

\* What a step assigns to a process leaves the others alone.
LEMMA ActsCalls ==
  ASSUME TInv, NEW p \in Slot
  PROVE  /\ \A pc : Goto(p, pc) => \A q \in Slot : q # p => proc'[q] = proc[q]
         /\ \A re : Return(p, re) => \A q \in Slot : q # p => proc'[q] = proc[q]
         /\ \A pc, own : Begin(p, pc, own) => Acts(p)
<1>1. proc \in [Slot -> ProcRec]
  BY DEF TInv
<1>2. \A pc : Goto(p, pc) => \A q \in Slot : q # p => proc'[q] = proc[q]
  BY <1>1 DEF Goto
<1>3. \A re : Return(p, re) => \A q \in Slot : q # p => proc'[q] = proc[q]
  BY <1>1 DEF Return
<1>4. ASSUME NEW pc, NEW own, Begin(p, pc, own)
      PROVE  Acts(p)
  <2>1. \A q \in Slot : q # p => proc'[q] = proc[q]
    BY <1>1, <1>4 DEF Begin
  <2> QED BY <1>4, <2>1 DEF Begin, Acts, Frame, team
<1> QED BY <1>2, <1>3, <1>4

\* The root begins a call that cuts, sends and receives.
LEMMA ActsRoot ==
  ASSUME TInv
  PROVE  /\ \A pc, own : BeginCut(pc, own) => Acts(Root)
         /\ \A data, out : Spread(data, out) => Acts(Root)
         /\ \A cap, pc : Collect(cap, pc) => Acts(Root)
<1>1. proc \in [Slot -> ProcRec] /\ Root \in Slot
  BY TeamAssumption DEF TInv, Slot, Root
<1>2. ASSUME NEW pc, NEW own, BeginCut(pc, own)
      PROVE  Acts(Root)
  <2>1. CASE Begin(Root, pc, own)
    BY <1>1, <2>1, ActsCalls
  <2>2. CASE proc[Root].pc = "ready" /\ Return(Root, "error") /\ UNCHANGED <<team, hd, ctx, touched>>
    BY <1>1, <2>2, ActsCalls DEF Acts, Frame, team
  <2> QED BY <1>2, <2>1, <2>2 DEF BeginCut
<1>3. ASSUME NEW data, NEW out, Spread(data, out)
      PROVE  Acts(Root)
  <2>1. proc[Root].pc = "spread" /\ Frame
    BY <1>3 DEF Spread, InCall, Frame, team
  <2>2. \/ \E i : proc' = [proc EXCEPT ![Root].idx = i]
        \/ \E o, re, c : proc' = [proc EXCEPT ![Root].out = o, ![Root].res = re, ![Root].pc = c]
        \/ Return(Root, "error")
    BY Zenon, <1>3 DEF Spread, Send
  <2>3. \A q \in Slot : q # Root => proc'[q] = proc[q]
    BY Zenon, <1>1, <2>2, ActsCalls
  <2> QED BY <2>1, <2>3 DEF Acts
<1>4. ASSUME NEW cap, NEW pc, Collect(cap, pc)
      PROVE  Acts(Root)
  <2>1. proc[Root].pc = "collect" /\ Frame
    BY Zenon, <1>4 DEF Collect, InCall, Frame, team
  <2> QED
    <3>1. PICK k, all : /\ k = proc[Root].idx
                  /\ CASE Finds(EndOf(Root, k), cap[k]) = "data" /\ k < N - 1 ->
                            proc' = [proc EXCEPT ![Root].buf = all, ![Root].idx = k + 1]
                       [] Finds(EndOf(Root, k), cap[k]) = "data" /\ k = N - 1 /\ pc = "spread" ->
                            proc' = [proc EXCEPT ![Root].buf = all, ![Root].idx = 1, ![Root].pc = pc]
                       [] Finds(EndOf(Root, k), cap[k]) = "data" /\ k = N - 1 /\ pc = "return" ->
                            proc' = [proc EXCEPT ![Root].out = all, ![Root].res = "ok", ![Root].pc = "ready"]
                       [] Finds(EndOf(Root, k), cap[k]) = "toolong" -> Return(Root, "error")
                       [] OTHER -> Return(Root, "zero")
      BY Zenon, <1>4 DEF Collect
    <3>2. \A q \in Slot : q # Root => proc'[q] = proc[q]
      BY <1>1, <3>1, ActsCalls
    <3> QED BY <2>1, <3>2 DEF Acts
<1> QED BY <1>2, <1>3, <1>4

\* A member sends and receives.
LEMMA ActsLeaf ==
  ASSUME TInv, NEW p \in Slot
  PROVE  /\ \A data, pc : LeafSends(p, data, pc) => Acts(p)
         /\ \A cap, strict : LeafReceives(p, cap, strict) => Acts(p)
<1>1. proc \in [Slot -> ProcRec]
  BY DEF TInv
<1>2. ASSUME NEW data, NEW pc, LeafSends(p, data, pc)
      PROVE  Acts(p)
  <2>1. proc[p].pc = "send" /\ Frame
    BY <1>2 DEF LeafSends, InCall, Frame, team
  <2>2. Return(p, "ok") \/ Goto(p, pc) \/ Return(p, "error")
    BY <1>2 DEF LeafSends, Send
  <2>3. \A q \in Slot : q # p => proc'[q] = proc[q]
    BY <2>2, ActsCalls
  <2> QED BY <2>1, <2>3 DEF Acts
<1>3. ASSUME NEW cap, NEW strict, LeafReceives(p, cap, strict)
      PROVE  Acts(p)
  <2>1. proc[p].pc = "recv" /\ Frame
    BY <1>3 DEF LeafReceives, InCall, Frame, team
  <2>2. \E o, re, c : proc' = [proc EXCEPT ![p].out = o, ![p].res = re, ![p].pc = c]
    BY Zenon, <1>3 DEF LeafReceives
  <2>3. \A q \in Slot : q # p => proc'[q] = proc[q]
    BY <1>1, <2>2
  <2> QED BY <2>1, <2>3 DEF Acts
<1> QED BY <1>2, <1>3

\* Calls and creations.
LEMMA ActsCall ==
  ASSUME TInv, NEW p \in Slot, Sendrecv(p) \/ Create(p)
  PROVE  Acts(p)
<1>1. proc \in [Slot -> ProcRec] /\ Root \in Slot
  BY TeamAssumption DEF TInv, Slot, Root
<1>2. CASE p = Root /\ Sendrecv(p)
  <2>1. BroadcastRoot \/ ScatterRoot \/ GatherRoot \/ AllGatherRoot \/ AlltoallRoot
    BY <1>2 DEF Sendrecv
  <2>2. \/ \E pc, own : Begin(Root, pc, own)
        \/ \E pc, own : BeginCut(pc, own)
        \/ \E data, out : Spread(data, out)
        \/ \E cap, pc : Collect(cap, pc)
    BY <2>1 DEF BroadcastRoot, ScatterRoot, GatherRoot, AllGatherRoot, AlltoallRoot
  <2> QED BY <1>1, <1>2, <2>2, ActsCalls, ActsRoot
<1>3. CASE p # Root /\ Sendrecv(p)
  <2>1. \/ BroadcastLeaf(p) \/ ScatterLeaf(p) \/ GatherLeaf(p) \/ AllGatherLeaf(p)
        \/ AlltoallLeaf(p)
    BY <1>3 DEF Sendrecv
  <2>2. \/ \E pc, own : Begin(p, pc, own)
        \/ \E data, pc : LeafSends(p, data, pc)
        \/ \E cap, strict : LeafReceives(p, cap, strict)
    BY <2>1 DEF BroadcastLeaf, ScatterLeaf, GatherLeaf, AllGatherLeaf, AlltoallLeaf
  <2> QED BY <2>2, ActsCalls, ActsLeaf
<1>4. CASE p = Root /\ Create(p)
  <2>1. MPICreateRoot \/ OobRoot
    BY <1>4 DEF Create
  <2>2. \/ \E pc, own : Begin(Root, pc, own)
        \/ \E data, out : Spread(data, out)
        \/ \E cap, pc : Collect(cap, pc)
        \/ /\ proc[Root].pc \in {"collect", "reply", "block"} /\ Frame
           /\ \/ Goto(Root, "reply") \/ Return(Root, "error")
              \/ \E c, ra : proc' = [proc EXCEPT ![Root].pc = c, ![Root].rank = ra]
              \/ \E j, b, c, i : proc' = [proc EXCEPT ![Root].buf[j] = b, ![Root].pc = c, ![Root].idx = i]
    <3>1. CASE MPICreateRoot
      BY Zenon, <3>1 DEF MPICreateRoot
    <3>2. CASE OobRoot
      <4> DEFINE k == proc[Root].idx
                 e == EndOf(Root, k)
                 blocks == [j \in Slot |-> Piece(Root, Round(Root) + 1, 0, 1)]
                 rank == Mine(Root, RankOf(Root), 1)
                 off == First(e).off
                 c == IF k < N - 1 THEN "collect" ELSE "spread"
                 i == IF k < N - 1 THEN k + 1 ELSE 1
                 all == [j \in 1 .. N |-> proc[Root].buf[j - 1]]
                 alls == [j \in Leaf |-> all]
      <4>1. \/ Begin(Root, "collect", blocks)
            \/ /\ InCall(Root, "collect") /\ Send(Root, e, rank, Goto(Root, "reply"))
               /\ UNCHANGED <<team, ctx>>
            \/ /\ InCall(Root, "reply")
               /\ proc' = [proc EXCEPT ![Root].pc = "block", ![Root].rank = off]
               /\ UNCHANGED <<team, ctx>>
            \/ /\ InCall(Root, "block")
               /\ proc' = [proc EXCEPT ![Root].buf[proc[Root].rank] = First(e), ![Root].pc = c,
                                       ![Root].idx = i]
               /\ UNCHANGED <<team, ctx>>
            \/ Spread(alls, all)
        BY <3>2 DEF OobRoot
      <4> HIDE DEF e, k, blocks, rank, off, c, i, all, alls
      <4>2. CASE /\ InCall(Root, "collect") /\ Send(Root, e, rank, Goto(Root, "reply"))
                 /\ UNCHANGED <<team, ctx>>
        BY Zenon, <4>2 DEF InCall, Send, Frame, team
      <4>3. CASE /\ InCall(Root, "reply")
                 /\ proc' = [proc EXCEPT ![Root].pc = "block", ![Root].rank = off]
                 /\ UNCHANGED <<team, ctx>>
        BY Zenon, <4>3 DEF InCall, Frame, team
      <4>4. CASE /\ InCall(Root, "block")
                 /\ proc' = [proc EXCEPT ![Root].buf[proc[Root].rank] = First(e), ![Root].pc = c,
                                         ![Root].idx = i]
                 /\ UNCHANGED <<team, ctx>>
        BY Zenon, <4>4 DEF InCall, Frame, team
      <4> QED BY Zenon, <4>1, <4>2, <4>3, <4>4
    <3> QED BY Zenon, <2>1, <3>1, <3>2
  <2>3. CASE /\ proc[Root].pc \in {"collect", "reply", "block"} /\ Frame
             /\ \/ Goto(Root, "reply") \/ Return(Root, "error")
                \/ \E c, ra : proc' = [proc EXCEPT ![Root].pc = c, ![Root].rank = ra]
                \/ \E j, b, c, i : proc' = [proc EXCEPT ![Root].buf[j] = b, ![Root].pc = c, ![Root].idx = i]
    <3>1. \A q \in Slot : q # Root => proc'[q] = proc[q]
      BY Zenon, <1>1, <2>3, ActsCalls
    <3> QED BY Zenon, <1>4, <2>3, <3>1 DEF Acts
  <2> QED BY Zenon, <1>1, <1>4, <2>2, <2>3, ActsCalls, ActsRoot
<1>5. CASE p # Root /\ Create(p)
  <2>1. MPICreateLeaf(p) \/ OobLeaf(p)
    BY <1>5 DEF Create
  <2>2. \/ \E pc, own : Begin(p, pc, own)
        \/ \E data, pc : LeafSends(p, data, pc)
        \/ \E cap, strict : LeafReceives(p, cap, strict)
        \/ /\ proc[p].pc \in {"result", "sendblock"} /\ Frame
           /\ Goto(p, "send") \/ Goto(p, "recv") \/ Return(p, "error")
    <3>1. CASE MPICreateLeaf(p)
      BY <3>1 DEF MPICreateLeaf
    <3>2. CASE OobLeaf(p)
      BY <3>2 DEF OobLeaf, InCall, Send, Frame, team
    <3> QED BY <2>1, <3>1, <3>2
  <2>3. CASE /\ proc[p].pc \in {"result", "sendblock"} /\ Frame
             /\ Goto(p, "send") \/ Goto(p, "recv") \/ Return(p, "error")
    BY <2>3, ActsCalls DEF Acts
  <2> QED BY <2>2, <2>3, ActsCalls, ActsLeaf
<1> QED BY <1>2, <1>3, <1>4, <1>5

\* Fans and closing.
LEMMA ActsRest ==
  ASSUME TInv, NEW p \in Slot, Fan(p) \/ CloseTeam(p) \/ FinalizeHandle(p)
  PROVE  Acts(p)
<1>1. proc \in [Slot -> ProcRec] /\ Root \in Slot
  BY TeamAssumption DEF TInv, Slot, Root
<1>2. CASE FanSend(p)
  <2>1. proc[p].pc = "ready" /\ Frame
    BY <1>2 DEF FanSend, Frame, team
  <2>2. proc' = [proc EXCEPT ![p].round = @ + 1] \/ Return(p, "error")
    BY <1>2 DEF FanSend, Send
  <2>3. \A q \in Slot : q # p => proc'[q] = proc[q]
    BY <1>1, <2>2, ActsCalls
  <2> QED BY <2>1, <2>3 DEF Acts
<1>3. CASE p = Root /\ FanInProbe
  <2>1. proc[p].pc = "hold" /\ Frame
    BY Zenon, <1>3 DEF FanInProbe, Frame, team
  <2>2. \/ TeamEnds(p) \/ Goto(p, "got")
        \/ \E i : proc' = [proc EXCEPT ![p].idx = i]
        \/ \E pa, i : proc' = [proc EXCEPT ![p].parts = pa, ![p].idx = i]
    BY Zenon, <1>3 DEF FanInProbe
  <2>3. \A q \in Slot : q # p => proc'[q] = proc[q]
    BY <1>1, <2>2, ActsCalls DEF TeamEnds
  <2> QED BY <2>1, <2>3 DEF Acts
<1>4. CASE p # Root /\ FanOutProbe(p)
  <2>1. proc[p].pc = "hold" /\ Frame
    BY <1>4 DEF FanOutProbe, Frame, team
  <2>2. TeamEnds(p) \/ Goto(p, "got")
    BY <1>4 DEF FanOutProbe
  <2>3. \A q \in Slot : q # p => proc'[q] = proc[q]
    BY <1>1, <2>2, ActsCalls DEF TeamEnds
  <2> QED BY <2>1, <2>3 DEF Acts
<1>5. CASE FanReceive(p)
  <2>1. proc[p].pc = "got" /\ Frame
    BY Zenon, <1>5 DEF FanReceive, Frame, team
  <2>2. \E o, c, i : proc' = [proc EXCEPT ![p].out = o, ![p].pc = c, ![p].idx = i]
    BY Zenon, <1>5 DEF FanReceive
  <2>3. \A q \in Slot : q # p => proc'[q] = proc[q]
    BY <1>1, <2>2
  <2> QED BY <2>1, <2>3 DEF Acts
<1>6. CASE Keep(p) \/ YieldTeam(p) \/ GetNextTeam(p)
  <2>1. proc[p].pc \in {"received", "away"} /\ Frame /\ (Goto(p, "hold") \/ Goto(p, "away"))
    BY <1>6 DEF Keep, YieldTeam, GetNextTeam, Frame, team
  <2> QED BY <2>1, ActsCalls DEF Acts
<1>7. CASE CloseTeam(p)
  <2>1. proc[p].pc # "dead" /\ Frame
    BY <1>7 DEF CloseTeam, Finished, Frame, team
  <2>2. \E c, i : proc' = [proc EXCEPT ![p].pc = c, ![p].idx = i]
    BY <1>7 DEF CloseTeam
  <2>3. \A q \in Slot : q # p => proc'[q] = proc[q]
    BY <1>1, <2>2
  <2> QED BY <2>1, <2>3 DEF Acts
<1>8. CASE FinalizeHandle(p)
  <2>1. proc[p].pc = "final" /\ Frame
    BY <1>8 DEF FinalizeHandle, Frame, team
  <2>2. Goto(p, "end") \/ proc' = proc \/ \E i : proc' = [proc EXCEPT ![p].idx = i]
    BY Zenon, <1>8 DEF FinalizeHandle
  <2>3. \A q \in Slot : q # p => proc'[q] = proc[q]
    BY <1>1, <2>2, ActsCalls
  <2> QED BY <2>1, <2>3 DEF Acts
<1> QED BY <1>2, <1>3, <1>4, <1>5, <1>6, <1>7, <1>8 DEF Fan

\* A step of a process leaves the team sound only if it was.
LEMMA ActsSound ==
  ASSUME NEW p \in Slot, Acts(p), Sound'
  PROVE  Sound
<1>1. InRankOrder' = InRankOrder /\ type' = type
  BY RanksFix DEF Acts, Frame
<1>2. Healthy' => Healthy
  BY DEF Acts, Healthy
<1> QED BY <1>1, <1>2 DEF Sound

\* Every step keeps the invariant of the messages.
LEMMA SafeNext ==
  ASSUME TInv, SInv, [Next]_vars
  PROVE  SInv'
<1> SUFFICES ASSUME Sound', EveryPart' PROVE SBody'
  BY DEF SInv
<1>0. Frame => EveryPart
  BY DEF Frame, EveryPart
<1>1. ASSUME Frame, proc' = proc, hd' = hd, touched' = touched
      PROVE  SBody'
  <2>1. InRankOrder' = InRankOrder /\ (Healthy' <=> Healthy) /\ type' = type
    BY <1>1, RanksFix DEF Frame, Healthy
  <2>2. SBody
    BY <1>0, <1>1, <2>1 DEF Sound, SInv
  <2> QED BY <1>1, <2>2, SafeCtx
<1>2. CASE UNCHANGED vars
  BY <1>1, <1>2 DEF vars, Frame
<1>3. ASSUME NEW p \in Slot, Step(p) PROVE SBody'
  <2>1. Acts(p)
    BY <1>3, ActsCall, ActsRest DEF Step
  <2>2. Sound /\ EveryPart
    BY <1>0, <2>1, ActsSound DEF Acts
  <2>3. SBody
    BY <2>2 DEF SInv
  <2>4. CASE Sendrecv(p) \/ Create(p)
    <3>1. CASE p = Root
      BY <2>2, <2>3, <2>4, <3>1, SafeRoot
    <3>2. CASE p # Root
      <4>1. p \in Leaf
        BY <3>2, Slots
      <4> QED BY <2>2, <2>3, <2>4, <4>1, SafeLeaf
    <3> QED BY <3>1, <3>2
  <2>5. CASE Fan(p)
    BY <2>3, <2>5, SafeFans
  <2>6. CASE CloseTeam(p)
    BY <2>3, <2>6, SafeCloseTeam
  <2>7. CASE FinalizeHandle(p)
    BY <2>3, <2>7, SafeFinalize
  <2> QED BY <1>3, <2>4, <2>5, <2>6, <2>7 DEF Step
<1>4. ASSUME NEW p \in Slot, FinalizeSpin(p) PROVE SBody'
  BY <1>2, <1>4 DEF FinalizeSpin
<1>5. ASSUME NEW p \in Slot, PollTeam(p) PROVE SBody'
  BY <1>1, <1>5 DEF PollTeam, team, Frame
<1>6. ASSUME NEW p \in Slot, Crash(p) PROVE SBody'
  <2>1. Frame /\ proc'[p].pc = "dead"
    <3>1. proc \in [Slot -> ProcRec]
      BY DEF TInv
    <3> QED BY <1>6, <3>1 DEF Crash, Goto, Frame, team, ProcRec
  <2>2. ~Healthy' /\ InRankOrder' = InRankOrder /\ type' = type
    BY <2>1, RanksFix DEF Healthy, Frame
  <2>3. SBody
    BY <1>0, <2>1, <2>2 DEF Sound, SInv
  <2> QED BY <1>6, <2>3, SafeCrash
<1>7. CASE Done
  BY <1>2, <1>7 DEF Done
<1> QED BY <1>2, <1>3, <1>4, <1>5, <1>6, <1>7 DEF Next

\* Nothing has been sent or received at first.
LEMMA InitCounts ==
  ASSUME NEW e \in End,
         \A p \in Slot : /\ proc[p].pc \in {"hold", "ready"} /\ proc[p].round = 0 /\ proc[p].out = <<>>
  PROVE  Sent(e) = 0 /\ Got(e) = 0
<1>1. /\ e[1] \in Leaf /\ e[1] \in Slot /\ Root \in Slot /\ e[2] \in {"root", "leaf"}
      /\ N - 1 \in Nat \ {0} /\ Leaf = 1 .. N - 1
  BY Slots, TeamAssumption DEF End, Slot, Leaf, Root
<1> DEFINE k == e[1]
<1>2. Dealt(k, 0) = 0
  <2>1. 0 \div (N - 1) = 0 /\ 0 % (N - 1) = 0
    BY <1>1, DivIs
  <2>2. k \in Leaf /\ 0 \in Nat
    BY <1>1
  <2> QED BY <1>1, <2>1, <2>2, DealtIs
<1>3. From(Root, k) = {} /\ Cardinality(From(Root, k)) = 0
  <2>1. From(Root, k) = {}
    BY <1>1 DEF From
  <2> QED BY <2>1, FS_EmptySet
<1> HIDE DEF k
<1>4. RootSent(k) = 0
  BY <1>1, <1>2 DEF RootSent, RSent, Down, Sym
<1>5. LeafSent(e[1]) = 0
  BY <1>1 DEF LeafSent, LSent, Sym
<1>6. RootGot(k) = 0
  BY <1>1, <1>3 DEF RootGot, RGot, Sym
<1>7. LeafGot(e[1]) = 0
  BY <1>1 DEF LeafGot, LGot, Down, Sym
<1> QED BY <1>4, <1>5, <1>6, <1>7 DEF Sent, Got, k

\* The invariant of the messages holds at first.
LEMMA SafeInit ==
  ASSUME Init
  PROVE  SBody
<1> DEFINE z == <<>>
           ps == [k \in Leaf |-> k]
           first(p) == [pc |-> FirstPc(type, p), round |-> 0, idx |-> 1, buf |-> z,
                        out |-> z, res |-> "none", rank |-> None, parts |-> ps]
<1>1. /\ proc = [p \in Slot |-> first(p)] /\ hd = [e \in End |-> NewHandle] /\ touched = FALSE
  BY DEF Init
<1>2. ASSUME NEW p \in Slot
      PROVE  /\ proc[p].pc \in {"hold", "ready"} /\ proc[p].round = 0 /\ proc[p].out = z
             /\ proc[p].res = "none" /\ proc[p].parts = ps
  <2> HIDE DEF z, ps
  <2>1. proc[p] = first(p)
    BY <1>1
  <2>2. FirstPc(type, p) \in {"hold", "ready"}
    BY DEF FirstPc
  <2> QED BY <2>1, <2>2
<1>3. ASSUME NEW e \in End
      PROVE  hd[e].in = z /\ hd[e].wr = FALSE /\ hd[e].rd = FALSE
  BY <1>1 DEF NewHandle
<1>4. ASSUME NEW e \in End
      PROVE  Sent(e) = 0 /\ Got(e) = 0 /\ Peer(e) \in End
  BY <1>2, InitCounts, PeerOf
<1>5. Root \in Slot /\ \A k \in Leaf : k \in Slot /\ REnd(k) \in End
  BY Slots, EndsAt
<1>12. DOMAIN z = {} /\ z = <<>>
  OBVIOUS
<1> HIDE DEF z
<1>6. Conns
  <2> SUFFICES ASSUME NEW e \in End PROVE Quiet(e) /\ StreamOk(e) /\ CloseOk(e)
    BY DEF Conns
  <2>1. Quiet(e)
    BY <1>3, <1>12 DEF Quiet
  <2>2. StreamOk(e)
    <3>1. hd[e].in = z /\ Len(z) = 0 /\ hd[Peer(e)].wr = FALSE /\ Got(e) = 0 /\ Sent(Peer(e)) = 0
      BY <1>3, <1>4, <1>12
    <3> QED BY <3>1 DEF StreamOk
  <2>3. CloseOk(e)
    BY <1>3 DEF CloseOk
  <2> QED BY <2>1, <2>2, <2>3
<1>7. ASSUME NEW p \in Slot PROVE ProcOk(p)
  <2>1. /\ proc[p].pc \in {"hold", "ready"} /\ proc[p].round = 0 /\ proc[p].out = z
        /\ proc[p].res = "none"
    BY <1>2, <1>7
  <2>2. proc[p].round <= Rounds
    BY <2>1, TeamAssumption
  <2>3. proc[p].out = <<>> /\ proc[p].pc # "stop" /\ proc[p].pc \notin {"final", "end"}
    BY <2>1, <1>12
  <2> QED BY ONLY <2>1, <2>2, <2>3 DEF ProcOk
<1>8. BufOk
  BY <1>2, <1>5 DEF BufOk
<1>9. PartsOk
  <2>1. DOMAIN ps = Leaf /\ \A k \in Leaf : ps[k] = k
    OBVIOUS
  <2> HIDE DEF ps
  <2>2. proc[Root].parts = ps
    BY <1>2, <1>5
  <2>3. \A i, j \in DOMAIN ps : ps[i] = ps[j] => i = j
    BY <2>1
  <2>4. \A k \in Leaf : hd[<<k, "root">>].rd = FALSE
    BY Zenon, <1>3, <1>5 DEF REnd
  <2>5. \A k \in Leaf : ~ \A i \in DOMAIN ps : ps[i] # k
    BY <2>1
  <2> QED BY <2>2, <2>3, <2>4, <2>5 DEF PartsOk
<1>10. FanOk
  <2>1. \A s \in Leaf : From(Root, s) = {} /\ hd[<<s, "root">>].rd = FALSE
    BY Zenon, <1>2, <1>3, <1>5, <1>12 DEF From, REnd
  <2>2. \A p \in Slot : proc[p].res # "zero" /\ DOMAIN proc[p].out = {}
    BY <1>2, <1>12
  <2> QED BY <1>5, <2>1, <2>2 DEF FanOk
<1>11. EndOk
  BY <1>2 DEF EndOk
<1> QED BY <1>1, <1>6, <1>7, <1>8, <1>9, <1>10, <1>11 DEF SBody

\* The calls, of the first r, whose message is dealt to member k.
Turns(k, r) == {x \in 1 .. r : (x - 1) % (N - 1) = k - 1}
CountsTurns(k, r) == IsFiniteSet(Turns(k, r)) /\ Cardinality(Turns(k, r)) = Dealt(k, r)

\* No call deals nothing.
LEMMA NoTurns ==
  ASSUME NEW k \in Leaf
  PROVE  CountsTurns(k, 0)
<1>1. N - 1 \in Nat \ {0} /\ k \in 1 .. N - 1
  BY Slots DEF Leaf
<1>2. 0 \div (N - 1) = 0 /\ 0 % (N - 1) = 0
  BY <1>1, DivIs
<1>3. Dealt(k, 0) = 0
  <2>1. k \in Leaf /\ 0 \in Nat
    OBVIOUS
  <2> QED BY <1>1, <1>2, <2>1, DealtIs
<1>4. Turns(k, 0) = {}
  BY DEF Turns
<1> QED BY <1>3, <1>4, FS_EmptySet DEF CountsTurns

\* One more call deals to one member.
LEMMA OneTurn ==
  ASSUME NEW k \in Leaf, NEW r \in Nat, CountsTurns(k, r)
  PROVE  CountsTurns(k, r + 1)
<1>1. N - 1 \in Nat \ {0} /\ k \in Nat /\ r % (N - 1) \in Nat
  BY Slots, DivMod
<1>2. /\ Dealt(k, r) \in Nat
      /\ k = (r % (N - 1)) + 1 => Dealt(k, r + 1) = Dealt(k, r) + 1
      /\ k # (r % (N - 1)) + 1 => Dealt(k, r + 1) = Dealt(k, r)
  BY DealtNext
<1>3. (r + 1) - 1 = r /\ r + 1 \notin Turns(k, r) /\ (k = (r % (N - 1)) + 1 <=> r % (N - 1) = k - 1)
  BY <1>1 DEF Turns
<1>4. 1 .. r + 1 = (1 .. r) \cup {r + 1}
  OBVIOUS
<1>5. CASE r % (N - 1) = k - 1
  <2>1. Turns(k, r + 1) = Turns(k, r) \cup {r + 1}
    BY <1>3, <1>4, <1>5 DEF Turns
  <2> QED BY <1>2, <1>3, <1>5, <2>1, FS_AddElement DEF CountsTurns
<1>6. CASE r % (N - 1) # k - 1
  <2>1. Turns(k, r + 1) = Turns(k, r)
    BY <1>3, <1>4, <1>6 DEF Turns
  <2> QED BY <1>2, <1>3, <1>6, <2>1 DEF CountsTurns
<1> QED BY <1>5, <1>6

\* Dealt counts the messages a fan-out deals to member k.
LEMMA DealtTurns ==
  ASSUME NEW k \in Leaf, NEW r \in Nat
  PROVE  Cardinality(Turns(k, r)) = Dealt(k, r)
<1> DEFINE T == {n \in Nat : ~CountsTurns(k, n)}
<1>1. T = {}
  <2> SUFFICES ASSUME T # {} PROVE FALSE
    OBVIOUS
  <2>1. T \subseteq Nat
    OBVIOUS
  <2>2. \A n : n \in T <=> n \in Nat /\ ~CountsTurns(k, n)
    OBVIOUS
  <2> HIDE DEF T
  <2>3. PICK n \in T : \A m \in T : n <= m
    BY <2>1, Least
  <2>4. n \in Nat /\ ~CountsTurns(k, n)
    BY <2>2
  <2>5. n # 0
    BY <2>4, NoTurns
  <2>6. n - 1 \in Nat /\ (n - 1) + 1 = n /\ n - 1 \notin T
    BY <2>1, <2>3, <2>4, <2>5, Before
  <2>7. CountsTurns(k, n - 1)
    BY <2>2, <2>6
  <2>8. CountsTurns(k, (n - 1) + 1)
    BY <2>6, <2>7, OneTurn
  <2> QED BY <2>4, <2>6, <2>8
<1> QED BY <1>1 DEF CountsTurns

\* What the invariant says of the calls, the end of the streams, the fans and
\* the deleted handles.
LEMMA SafeIs ==
  ASSUME TInv, SInv
  PROVE  (EveryPart => RoundIntact /\ NoSpuriousEnd /\ DeletedUnused) /\ TeamEndComplete
<1>1. ASSUME EveryPart PROVE RoundIntact
  <2> SUFFICES ASSUME InRankOrder, NEW p \in Slot, proc[p].res = "ok", proc[p].pc = "ready",
                      (Healthy /\ EveryPart) \/ type \notin {"ALLGATHER", "ALLTOALL"}
               PROVE  proc[p].out = Expected(p, proc[p].round)
    BY DEF RoundIntact
  <2>1. ProcOk(p)
    BY <1>1 DEF Sound, SInv, SBody
  <2> QED BY <2>1 DEF ProcOk
<1>2. ASSUME EveryPart PROVE NoSpuriousEnd
  <2> SUFFICES ASSUME Healthy, InRankOrder, NEW p \in Slot
               PROVE  /\ proc[p].res # "error"
                      /\ proc[p].res = "zero" /\ type \in {"BROADCAST", "SCATTER"} =>
                           proc[Root].pc \in {"final", "end"}
                      /\ proc[p].res = "zero" /\ type = "GATHER" =>
                           \E q \in Leaf : proc[q].pc \in {"final", "end"}
                      /\ type \in {"ALLGATHER", "ALLTOALL"} => proc[p].res # "zero"
    BY DEF NoSpuriousEnd
  <2>1. SBody
    BY <1>2 DEF Sound, SInv
  <2>2. ProcOk(p) /\ ProcOk(Root) /\ EndOk /\ \A e \in End : CloseOk(e)
    BY <2>1, Slots DEF SBody, Conns
  <2>3. proc[p].res # "error"
    BY <2>2 DEF ProcOk
  <2>4. CASE proc[p].res = "zero" /\ type \in {"BROADCAST", "SCATTER"}
    <3>1. Sender(Root) /\ (p = Root => FALSE)
      BY <2>2, <2>4 DEF Sender, Down, Sym, ProcOk
    <3>2. p \in Leaf
      BY <3>1, Slots
    <3>3. hd[LEnd(p)].rd
      BY <2>2, <2>4 DEF EndOk, Down, LEnd
    <3>4. hd[REnd(p)].wr /\ REnd(p) \in End /\ Owner(REnd(p)) = Root
      BY <2>2, <3>2, <3>3, EndsAt DEF CloseOk
    <3>5. proc[Owner(REnd(p))].pc \in {"final", "end"}
      BY <2>1, <2>4, <3>1, <3>4, ClosedLast
    <3> QED BY <2>3, <2>4, <3>4, <3>5
  <2>5. CASE proc[p].res = "zero" /\ type = "GATHER"
    <3>1. PICK k \in Leaf : hd[REnd(k)].rd
      BY <2>2, <2>5 DEF EndOk, REnd
    <3>2. hd[LEnd(k)].wr /\ LEnd(k) \in End /\ Owner(LEnd(k)) = k /\ k # Root
      BY <2>2, <3>1, EndsAt, Slots DEF CloseOk
    <3>3. Sender(k)
      BY <2>5, <3>2 DEF Sender, Down
    <3>4. proc[Owner(LEnd(k))].pc \in {"final", "end"}
      BY <2>1, <2>5, <3>2, <3>3, ClosedLast
    <3> QED BY <2>3, <2>5, <3>2, <3>4
  <2>6. CASE proc[p].res = "zero" /\ type \in {"ALLGATHER", "ALLTOALL"}
    <3>1. Sender(p)
      BY <2>6 DEF Sender, Down
    <3> QED BY <2>2, <2>6, <3>1 DEF ProcOk
  <2> QED BY <2>3, <2>4, <2>5, <2>6
<1>3. TeamEndComplete
  <2>1. CASE type \notin {"FANIN", "FANOUT"}
    BY <2>1 DEF TeamEndComplete
  <2>2. CASE type \in {"FANIN", "FANOUT"}
    <3>1. FanOk
      BY <2>2 DEF Sound, EveryPart, InRankOrder, Cutting, SInv, SBody
    <3>2. Rounds \in Nat
      BY TeamAssumption
    <3>3. ASSUME NEW p \in Leaf
          PROVE  Cardinality({r \in 1 .. Rounds : (r - 1) % (N - 1) = p - 1}) = Dealt(p, Rounds)
      BY <3>2, DealtTurns DEF Turns
    <3>4. type = "FANIN" => \A s \in Leaf : LET from == From(Root, s) IN
            /\ \A i \in from : proc[Root].out[i].round = Cardinality({j \in from : j <= i})
            /\ proc[Root].res = "zero" /\ Healthy => Cardinality(from) = Rounds
      BY <3>1 DEF FanOk
    <3>5. type = "FANOUT" => \A p \in Leaf :
            /\ \A j \in DOMAIN proc[p].out : proc[p].out[j].round = (j - 1) * (N - 1) + p
            /\ proc[p].res = "zero" /\ Healthy =>
                 Len(proc[p].out) = Cardinality({r \in 1 .. Rounds : (r - 1) % (N - 1) = p - 1})
      BY <3>1, <3>3 DEF FanOk
    <3> QED BY <3>4, <3>5 DEF TeamEndComplete
  <2> QED BY <2>1, <2>2
<1>4. ASSUME EveryPart PROVE DeletedUnused
  BY <1>4 DEF DeletedUnused, Sound, SInv, SBody
<1> QED BY <1>1, <1>2, <1>3, <1>4

\* The inductive invariant of the types and of the messages on the way holds in
\* every reachable state.
THEOREM CollectivesInvariant == Spec => []CInv
<1>1. Init => CInv
  BY TypeInit, SafeInit DEF CInv, SInv
<1>2. CInv /\ [Next]_vars => CInv'
  BY TypeNext, SafeNext DEF CInv
<1> QED BY <1>1, <1>2, PTL DEF Spec

\* A call that succeeds has delivered the data of exactly that call of every
\* process it depends on, each at its place, for any number of processes and
\* calls, although the members run ahead of each other; a buffer that is cut has
\* an element for everybody.
THEOREM CollectivesRoundIntact == Spec => [](EveryPart => RoundIntact)
<1>1. CInv => (EveryPart => RoundIntact)
  BY SafeIs DEF CInv
<1> QED BY <1>1, CollectivesInvariant, PTL

\* When nobody dies and a buffer that is cut has an element for everybody, no
\* call is refused, and the end of the stream reaches a process only after the
\* one that feeds it has closed.  What happens with empty parts is left to the
\* model checker.
THEOREM CollectivesNoSpuriousEnd == Spec => [](EveryPart => NoSpuriousEnd)
<1>1. CInv => (EveryPart => NoSpuriousEnd)
  BY SafeIs DEF CInv
<1> QED BY <1>1, CollectivesInvariant, PTL

\* A fan-in delivers the messages of each member once and in order, a fan-out
\* deals its messages in turn, and, when nobody dies, both report the end of
\* the stream only after the last of them.
THEOREM CollectivesTeamEndComplete == Spec => []TeamEndComplete
<1>1. CInv => TeamEndComplete
  BY SafeIs DEF CInv
<1> QED BY <1>1, CollectivesInvariant, PTL

\* When nobody dies and a buffer that is cut has an element for everybody, the
\* processes of a collective other than a fan-out use no handle that has deleted
\* itself, in whatever order they close.
THEOREM CollectivesDeletedUnused == Spec => [](EveryPart => DeletedUnused)
<1>1. CInv => (EveryPart => DeletedUnused)
  BY SafeIs DEF CInv
<1> QED BY <1>1, CollectivesInvariant, PTL

=============================================================================
