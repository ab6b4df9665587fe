------------------------- MODULE Connectors_proofs -------------------------
(***************************************************************************)
(* The connectors SHM, MPI, MQTT and UCX for any number of connections and *)
(* messages: who has a handle, and what is read of a stream.               *)
(***************************************************************************)
EXTENDS Connectors, FiniteSetTheorems, TLAPS

-----------------------------------------------------------------------------
(* The inductive invariant *)

Items == {"header", "payload", "message", "eos"}
Found == {"no", "data", "eos", "garbage"}
HandleRec == [wr : BOOLEAN, rd : BOOLEAN, probed : Found, header : Found,
              is_probed : BOOLEAN, ep : BOOLEAN, eos : {"no", "sent", "late"}]
PeerRec == [sent : 0 .. MaxMsgs + 1, mid : BOOLEAN, closed : BOOLEAN,
            subscribed : BOOLEAN, ack : BOOLEAN, lost : BOOLEAN]
IoPc == {"idle", "ack", "shake", "scan", "polled"}
IoRec == [pc : IoPc, h : H \cup {NoH}, todo : SUBSET H]
AppRec == [pc : {"run", "yield", "closing", "draining", "end"}, h : H \cup {NoH},
           todo : SUBSET H, block : BOOLEAN]

\* The types, of the parts TypeOK leaves out too.
TInv ==
  /\ transport \in AllTransports /\ listening \in BOOLEAN
  /\ conn \in [H -> {"free", "asked", "accepting", "open"}]
  /\ in \in [H -> Seq(Items)] /\ peer \in [H -> PeerRec]
  /\ tbl \in [H -> {"absent", "kept", "managed"}] /\ hd \in [H -> HandleRec]
  /\ users \in [H -> Nat] /\ q \in Seq(H \X BOOLEAN)
  /\ io \in IoRec /\ lock \in {"free", "io"} /\ app \in AppRec /\ ev \subseteq H

\* A handle the application is giving back to UCX.
Yielding(h) == app.pc = "yield" /\ app.h = h

\* Before the handshake nobody has the handle; until its read side is closed it
\* is in the table, and with one owner.
Unused(h) == /\ Copies(h) = 0 /\ users[h] = 0
             /\ ~hd[h].rd /\ ~hd[h].is_probed /\ hd[h].probed = "no" /\ hd[h].header = "no"
Owners(h) == Copies(h) + users[h] + (IF tbl[h] = "managed" \/ Yielding(h) THEN 1 ELSE 0)
PlaceOk(h) ==
  /\ conn[h] \in {"free", "asked"} => tbl[h] = "absent"
  /\ conn[h] = "accepting" => tbl[h] = "kept"
  /\ conn[h] # "open" => Unused(h)
  /\ hd[h].rd => tbl[h] = "absent"
  /\ conn[h] = "open" /\ ~hd[h].rd =>
       tbl[h] # "absent" /\ (transport # "SHM" => Owners(h) = 1)
  /\ Yielding(h) => /\ transport = "UCX" /\ conn[h] = "open"
                    /\ ~hd[h].rd /\ tbl[h] = "kept"

\* A stream alternates headers and payloads.  It begins with a payload when the
\* reader has the header before it, and ends with a header when the peer has yet
\* to send the payload.
Awaited(x) == IF "data" \in {x.probed, x.header} THEN "payload" ELSE "header"
Owed(p) == IF p.mid THEN "payload" ELSE "header"
Aligned(s, first, next) ==
  /\ \A i \in 1 .. Len(s) : s[i] # "message"
  /\ \A i \in 1 .. Len(s) : s[i] = "payload" <=> IF i = 1 THEN first = "payload" ELSE s[i - 1] = "header"
  /\ next = "payload" <=> IF s = <<>> THEN first = "payload" ELSE s[Len(s)] = "header"
  /\ \A i \in 1 .. Len(s) : s[i] = "eos" => i = Len(s)
HasEos(s) == \E i \in 1 .. Len(s) : s[i] = "eos"

\* What a handle x open for reading remembers of what was read ahead, and, with
\* its stream s and its peer p, what is still to come.
HeaderOk(x) ==
  /\ transport \in {"SHM", "MPI"} => x.header = "no"
  /\ transport = "MQTT" =>
       /\ x.is_probed <=> (x.header # "no" \/ x.probed # "no")
       /\ x.header = "no" \/ x.probed = "no"
  /\ transport = "UCX" => x.probed \in {"no", x.header}
ReadOk(x, s, p) ==
  /\ HeaderOk(x)
  /\ transport = "SHM" =>
       /\ s \in {<<>>, <<"message">>, <<"eos">>}
       /\ x.probed = "data" => s = <<"message">>
  /\ transport # "SHM" =>
       /\ Aligned(s, Awaited(x), Owed(p))
       /\ HasEos(s) => p.closed
StreamOk(h) ==
  /\ ~peer[h].lost /\ "garbage" \notin {hd[h].probed, hd[h].header}
  /\ peer[h].mid => ~peer[h].closed /\ transport # "SHM"
  /\ transport = "MQTT" /\ (peer[h].ack \/ peer[h].mid) => peer[h].subscribed
  /\ transport = "MQTT" /\ tbl[h] = "managed" /\ app.pc = "run" => ~hd[h].is_probed
  /\ ~hd[h].rd => ReadOk(hd[h], in[h], peer[h])

\* The I/O thread, and the handle it is about to hand over.
Shaking(h) == io.pc = "shake" /\ io.h = h
IoOk ==
  /\ io.pc = "ack" => /\ transport = "MQTT" /\ io.h \in Accepts
                      /\ conn[io.h] = "asked" /\ peer[io.h].subscribed
  /\ io.pc = "shake" => io.h \in Accepts /\ conn[io.h] = "accepting"
  /\ io.pc = "polled" => transport = "UCX"
ShakeOk == \A h \in H : conn[h] = "accepting" => Shaking(h)
EndOk ==
  /\ app.pc \in {"closing", "draining"} => \A h \in app.todo : conn[h] = "open"
  /\ app.pc = "draining" => app.h \in app.todo
  /\ app.pc = "yield" => app.h \in H /\ transport = "UCX"

\* ConnUCX closes an endpoint with the read side.
EpOk == \A h \in H : hd[h].ep \/ hd[h].rd

CInv == /\ TInv /\ IoOk /\ ShakeOk /\ EndOk /\ EpOk
        /\ \A h \in H : PlaceOk(h) /\ StreamOk(h)

-----------------------------------------------------------------------------
(* The ready queue *)

\* Positions of a handle in a queue.
At(s, h) == {j \in DOMAIN s : s[j][1] = h}

LEMMA AtFinite ==
  ASSUME NEW s \in Seq(H \X BOOLEAN), NEW h
  PROVE  IsFiniteSet(At(s, h)) /\ Cardinality(At(s, h)) \in Nat
<1>1. At(s, h) \in SUBSET (1 .. Len(s)) /\ Len(s) \in Nat
  BY DEF At
<1>2. IsFiniteSet(1 .. Len(s))
  BY <1>1, FS_Interval
<1>3. IsFiniteSet(At(s, h))
  BY <1>1, <1>2, FS_Subset
<1> QED BY <1>3, FS_CardinalityType

\* Appending a handle adds one position of it, and none of another.
LEMMA AtAppend ==
  ASSUME NEW s \in Seq(H \X BOOLEAN), NEW r, NEW g, NEW h, DOMAIN r = 1 .. Len(s) + 1,
         r[Len(s) + 1][1] = g, \A j \in 1 .. Len(s) : r[j] = s[j]
  PROVE  Cardinality(At(r, h)) = Cardinality(At(s, h)) + (IF h = g THEN 1 ELSE 0)
<1>1. Len(s) \in Nat /\ DOMAIN s = 1 .. Len(s)
  OBVIOUS
<1>2. CASE h = g
  <2>1. At(r, h) = At(s, h) \cup {Len(s) + 1} /\ Len(s) + 1 \notin At(s, h)
    BY <1>1, <1>2 DEF At
  <2>2. Cardinality(At(r, h)) = Cardinality(At(s, h)) + 1
    BY <2>1, AtFinite, FS_AddElement
  <2> QED BY <1>2, <2>2
<1>3. CASE h # g
  <2>1. At(r, h) = At(s, h)
    BY <1>1, <1>3 DEF At
  <2>2. Cardinality(At(s, h)) \in Nat
    BY AtFinite
  <2>3. Cardinality(At(r, h)) = Cardinality(At(s, h)) + 0
    BY <2>1, <2>2
  <2> QED BY <1>3, <2>3
<1> QED BY <1>2, <1>3

\* getNext takes one position of the handle at the head.
LEMMA AtTail ==
  ASSUME NEW s \in Seq(H \X BOOLEAN), s # <<>>, NEW h
  PROVE  /\ Tail(s) \in Seq(H \X BOOLEAN) /\ Head(s)[1] \in H
         /\ Cardinality(At(s, h)) =
              Cardinality(At(Tail(s), h)) + (IF h = Head(s)[1] THEN 1 ELSE 0)
<1> DEFINE r == Tail(s)
           Q == At(s, h) \ {1}
           b == [i \in Q |-> i - 1]
<1>1. /\ r \in Seq(H \X BOOLEAN) /\ Len(s) \in Nat /\ Len(s) # 0 /\ DOMAIN s = 1 .. Len(s)
      /\ DOMAIN r = 1 .. Len(s) - 1 /\ Head(s) = s[1] /\ s[1] \in H \X BOOLEAN
      /\ \A j \in 1 .. Len(s) - 1 : r[j] = s[j + 1]
  OBVIOUS
<1>2. At(r, h) = {i \in 1 .. Len(s) - 1 : s[i + 1][1] = h}
  BY <1>1 DEF At
<1>3. Q = {i \in 2 .. Len(s) : s[i][1] = h}
  BY <1>1 DEF At
<1>4. b \in [Q -> At(r, h)]
  BY <1>1, <1>2, <1>3
<1>5. \A i, j \in Q : b[i] = b[j] => i = j
  BY <1>3
<1>6. \A j \in At(r, h) : \E i \in Q : b[i] = j
  <2> TAKE j \in At(r, h)
  <2>1. j \in 1 .. Len(s) - 1 /\ s[j + 1][1] = h
    BY <1>2
  <2>2. j \in Nat /\ j + 1 \in 2 .. Len(s) /\ (j + 1) - 1 = j
    BY <1>1, <2>1
  <2>3. j + 1 \in Q
    BY <1>3, <2>1, <2>2
  <2>4. b[j + 1] = j
    BY <2>2, <2>3
  <2> QED BY <2>3, <2>4
<1> HIDE DEF b, Q, r
<1>7. b \in Bijection(Q, At(r, h))
  BY <1>4, <1>5, <1>6, Zenon DEF Bijection, Injection, Surjection, IsInjective
<1>8. IsFiniteSet(At(s, h)) /\ Cardinality(At(s, h)) \in Nat
  BY AtFinite
<1>9. Cardinality(At(r, h)) = Cardinality(Q)
  <2>1. IsFiniteSet(Q)
    BY <1>8, FS_RemoveElement DEF Q
  <2>2. ExistsBijection(Q, At(r, h))
    BY <1>7 DEF ExistsBijection
  <2> QED BY <2>1, <2>2, FS_Bijection
<1>10. 1 \in At(s, h) <=> Head(s)[1] = h
  BY <1>1 DEF At
<1>11. Cardinality(Q) = IF 1 \in At(s, h) THEN Cardinality(At(s, h)) - 1
                                          ELSE Cardinality(At(s, h))
  BY <1>8, FS_RemoveElement DEF Q
<1>12. Cardinality(At(s, h)) = Cardinality(At(r, h)) + (IF h = Head(s)[1] THEN 1 ELSE 0)
  BY <1>8, <1>9, <1>10, <1>11
<1> QED BY <1>1, <1>12 DEF r

\* The connectors queue the handles of a set in some order, each of them once.
LEMMA InSomeOrder ==
  ASSUME NEW S \in SUBSET (H \X BOOLEAN)
  PROVE  /\ SetToSeq(S) \in Seq(H \X BOOLEAN) /\ Len(SetToSeq(S)) = Cardinality(S)
         /\ \A i, j \in 1 .. Len(SetToSeq(S)) : SetToSeq(S)[i] = SetToSeq(S)[j] => i = j
         /\ \A x \in S : \E i \in 1 .. Len(SetToSeq(S)) : SetToSeq(S)[i] = x
         /\ \A i \in 1 .. Len(SetToSeq(S)) : SetToSeq(S)[i] \in S
<1> DEFINE n == Cardinality(S)
           f == SetToSeq(S)
<1>1. IsFiniteSet(S) /\ n \in Nat
  <2>1. IsFiniteSet(H) /\ IsFiniteSet(BOOLEAN)
    <3>1. IsFiniteSet(H)
      BY ConnectorAssumption DEF H
    <3>2. IsFiniteSet({TRUE} \cup {FALSE})
      BY FS_Singleton, FS_Union
    <3>3. BOOLEAN = {TRUE} \cup {FALSE}
      OBVIOUS
    <3> QED BY <3>1, <3>2, <3>3
  <2>2. IsFiniteSet(H \X BOOLEAN)
    BY <2>1, FS_Product
  <2> QED BY <2>2, FS_Subset, FS_CardinalityType
<1>2. \E e \in [1 .. n -> S] : IsInjective(e)
  <2>1. PICK e : e \in Bijection(1 .. n, S)
    BY <1>1, FS_CardinalityType DEF ExistsBijection
  <2> QED BY <2>1 DEF Bijection, Injection
<1>3. f \in [1 .. n -> S] /\ IsInjective(f)
  BY <1>2 DEF SetToSeq
<1>4. f \in Surjection(1 .. n, S)
  <2>1. f \in Injection(1 .. n, S)
    BY <1>3 DEF Injection
  <2>2. IsFiniteSet(1 .. n) /\ Cardinality(1 .. n) = n
    <3>1. n >= 0 /\ n \in Int /\ 1 \in Int
      BY <1>1
    <3>2. IsFiniteSet(1 .. n) /\ Cardinality(1 .. n) = IF 1 > n THEN 0 ELSE n - 1 + 1
      BY <3>1, FS_Interval
    <3> QED BY <3>1, <3>2
  <2> QED BY <1>1, <2>1, <2>2, FS_Injection
<1> HIDE DEF f, n
<1>5. f \in Seq(H \X BOOLEAN) /\ Len(f) = n
  BY <1>1, <1>3
<1>6. \A x \in S : \E i \in 1 .. n : f[i] = x
  BY <1>4 DEF Surjection
<1>7. \A i, j \in 1 .. n : f[i] = f[j] => i = j
  BY <1>3 DEF IsInjective
<1>8. \A i \in 1 .. n : f[i] \in S
  BY <1>3
<1> QED BY <1>5, <1>6, <1>7, <1>8 DEF f, n

\* addinQ adds one position of each.
LEMMA AtQueue ==
  ASSUME q \in Seq(H \X BOOLEAN), NEW hs \in SUBSET H, NEW h \in H
  PROVE  /\ addinQ(hs) \in Seq(H \X BOOLEAN)
         /\ Cardinality(At(addinQ(hs), h)) =
              Cardinality(At(q, h)) + (IF h \in hs THEN 1 ELSE 0)
<1> DEFINE S == hs \X {FALSE}
           r == SetToSeq(S)
           s == q \o r
<1>1. S \in SUBSET (H \X BOOLEAN)
  OBVIOUS
<1>2. /\ r \in Seq(H \X BOOLEAN)
      /\ \A i, j \in 1 .. Len(r) : r[i] = r[j] => i = j
      /\ \A x \in S : \E i \in 1 .. Len(r) : r[i] = x
      /\ \A i \in 1 .. Len(r) : r[i] \in S
  BY <1>1, InSomeOrder
<1> HIDE DEF r
<1>3. /\ s \in Seq(H \X BOOLEAN) /\ Len(q) \in Nat /\ Len(r) \in Nat
      /\ DOMAIN q = 1 .. Len(q) /\ DOMAIN s = 1 .. Len(q) + Len(r)
      /\ \A j \in 1 .. Len(q) : s[j] = q[j]
      /\ \A j \in Len(q) + 1 .. Len(q) + Len(r) : s[j] = r[j - Len(q)] /\ j - Len(q) \in 1 .. Len(r)
  BY <1>2
<1>4. addinQ(hs) = s
  BY DEF addinQ, r
<1>5. IsFiniteSet(At(q, h)) /\ Cardinality(At(q, h)) \in Nat
  BY AtFinite
<1>6. ASSUME NEW i \in 1 .. Len(r)
      PROVE  r[i][1] \in hs /\ r[i] = <<r[i][1], FALSE>>
  <2>1. r[i] \in hs \X {FALSE}
    BY <1>2
  <2>2. ASSUME NEW B, r[i] \in hs \X B
        PROVE  r[i][1] \in hs /\ r[i][2] \in B /\ r[i] = <<r[i][1], r[i][2]>>
    BY <2>2
  <2>3. r[i][1] \in hs /\ r[i][2] \in {FALSE} /\ r[i] = <<r[i][1], r[i][2]>>
    BY <2>1, <2>2, Zenon
  <2> QED BY <2>3, Zenon
<1> HIDE DEF s
<1>7. CASE h \notin hs
  <2>1. At(s, h) = At(q, h)
    <3>1. ASSUME NEW j \in At(s, h) PROVE j \in At(q, h)
      <4>1. j \in 1 .. Len(q) + Len(r) /\ s[j][1] = h
        BY <1>3, <3>1 DEF At
      <4>2. CASE j \in Len(q) + 1 .. Len(q) + Len(r)
        <5>1. s[j] = r[j - Len(q)] /\ j - Len(q) \in 1 .. Len(r)
          BY <1>3, <4>2
        <5> QED BY <1>6, <1>7, <4>1, <5>1
      <4>3. CASE j \in 1 .. Len(q)
        BY <1>3, <4>1, <4>3 DEF At
      <4> QED BY <1>3, <4>1, <4>2, <4>3
    <3>2. ASSUME NEW j \in At(q, h) PROVE j \in At(s, h)
      BY <1>3, <3>2 DEF At
    <3> QED BY <3>1, <3>2
  <2>2. Cardinality(At(s, h)) = Cardinality(At(q, h)) + 0
    BY <1>5, <2>1
  <2> QED BY <1>3, <1>4, <1>7, <2>2
<1>8. CASE h \in hs
  <2>1. PICK k \in 1 .. Len(r) : r[k] = <<h, FALSE>>
    BY <1>2, <1>8
  <2>2. r[k][1] = h /\ \A i \in 1 .. Len(r) : r[i][1] = h => i = k
    <3>1. r[k][1] = h
      BY <2>1
    <3>2. ASSUME NEW i \in 1 .. Len(r), r[i][1] = h PROVE i = k
      <4>1. r[i] = r[k]
        BY <1>6, <2>1, <3>2
      <4> QED BY <1>2, <4>1
    <3> QED BY <3>1, <3>2
  <2>3. k \in Nat /\ Len(q) + k \in Len(q) + 1 .. Len(q) + Len(r) /\ s[Len(q) + k] = r[k]
    <3>1. k \in Nat /\ Len(q) + k \in Len(q) + 1 .. Len(q) + Len(r) /\ (Len(q) + k) - Len(q) = k
      BY <1>3
    <3> QED BY <1>3, <3>1
  <2>4. At(s, h) = At(q, h) \cup {Len(q) + k}
    <3>1. ASSUME NEW j \in At(s, h) PROVE j \in At(q, h) \cup {Len(q) + k}
      <4>1. j \in 1 .. Len(q) + Len(r) /\ s[j][1] = h
        BY <1>3, <3>1 DEF At
      <4>2. CASE j \in 1 .. Len(q)
        BY <1>3, <4>1, <4>2 DEF At
      <4>3. CASE j \in Len(q) + 1 .. Len(q) + Len(r)
        <5>1. j - Len(q) = k
          BY <1>3, <2>2, <4>1, <4>3
        <5> QED BY <1>3, <2>3, <4>3, <5>1
      <4> QED BY <1>3, <4>1, <4>2, <4>3
    <3>2. ASSUME NEW j \in At(q, h) PROVE j \in At(s, h)
      BY <1>3, <3>2 DEF At
    <3>3. Len(q) + k \in At(s, h)
      BY <1>3, <2>2, <2>3 DEF At
    <3> QED BY <3>1, <3>2, <3>3
  <2>5. Len(q) + k \notin At(q, h)
    BY <1>3, <2>3 DEF At
  <2>6. Cardinality(At(s, h)) = Cardinality(At(q, h)) + 1
    BY <1>5, <2>4, <2>5, FS_AddElement
  <2> QED BY <1>3, <1>4, <1>8, <2>6
<1> QED BY <1>7, <1>8

-----------------------------------------------------------------------------
(* Streams *)

LEMMA EmptyStream ==
  ASSUME NEW s \in Seq(Items)
  PROVE  s = <<>> <=> Len(s) = 0
  OBVIOUS

\* Reading an item.
LEMMA AlignedTail ==
  ASSUME NEW s \in Seq(Items), NEW a, NEW b, NEW m, s # <<>>, Aligned(s, a, m),
         b = "payload" <=> Head(s) = "header"
  PROVE  /\ Aligned(Tail(s), b, m)
         /\ HasEos(Tail(s)) => HasEos(s)
         /\ Tail(s) \in Seq(Items) /\ Head(s) \in {"header", "payload", "eos"}
         /\ Head(s) = "payload" <=> a = "payload"
         /\ Head(s) = "eos" => Tail(s) = <<>> /\ HasEos(s)
<1>1. /\ Tail(s) \in Seq(Items) /\ Len(s) \in Nat /\ Len(s) # 0 /\ Head(s) = s[1]
      /\ Len(Tail(s)) = Len(s) - 1 /\ s[1] \in Items
      /\ \A i \in 1 .. Len(s) - 1 : Tail(s)[i] = s[i + 1]
  OBVIOUS
<1>2. Tail(s) = <<>> <=> Len(s) = 1
  <2>1. Tail(s) = <<>> <=> Len(Tail(s)) = 0
    <3>1. Tail(s) \in Seq(Items)
      BY <1>1
    <3> QED BY <3>1, EmptyStream
  <2>2. Len(s) - 1 = 0 <=> Len(s) = 1
    BY <1>1
  <2> QED BY <1>1, <2>1, <2>2
<1>3. \A i \in 1 .. Len(s) - 1 : i + 1 \in 1 .. Len(s)
  BY <1>1
<1>4. \A i \in 1 .. Len(s) - 1 : Tail(s)[i] # "message"
  BY <1>1, <1>3 DEF Aligned
<1>5. ASSUME NEW i \in 1 .. Len(s) - 1
      PROVE  Tail(s)[i] = "payload" <=> IF i = 1 THEN b = "payload" ELSE Tail(s)[i - 1] = "header"
  <2>1. i + 1 \in 1 .. Len(s) /\ i + 1 # 1 /\ (i + 1) - 1 = i
    BY <1>1
  <2>2. s[i + 1] = "payload" <=> s[i] = "header"
    BY <2>1 DEF Aligned
  <2>3. i # 1 => Tail(s)[i - 1] = s[i]
    <3>1. i # 1 => i - 1 \in 1 .. Len(s) - 1 /\ (i - 1) + 1 = i
      BY <1>1
    <3> QED BY <1>1, <3>1
  <2> QED BY <1>1, <2>2, <2>3
<1>6. m = "payload" <=> IF Tail(s) = <<>> THEN b = "payload" ELSE Tail(s)[Len(Tail(s))] = "header"
  <2>1. m = "payload" <=> s[Len(s)] = "header"
    BY <1>1 DEF Aligned
  <2>2. Len(s) # 1 => Tail(s)[Len(s) - 1] = s[Len(s)]
    <3>1. Len(s) # 1 => Len(s) - 1 \in 1 .. Len(s) - 1 /\ (Len(s) - 1) + 1 = Len(s)
      BY <1>1
    <3> QED BY <1>1, <3>1
  <2> QED BY <1>1, <1>2, <2>1, <2>2
<1>7. ASSUME NEW i \in 1 .. Len(s) - 1, Tail(s)[i] = "eos" PROVE i = Len(s) - 1 /\ HasEos(s)
  <2>1. i + 1 \in 1 .. Len(s) /\ s[i + 1] = "eos"
    BY <1>1, <1>3, <1>7
  <2>2. i + 1 = Len(s)
    BY <2>1 DEF Aligned
  <2>3. i = Len(s) - 1
    <3>1. Len(s) \in Nat
      BY <1>1
    <3> QED BY <2>2, <3>1
  <2> QED BY <2>1, <2>3 DEF HasEos
<1>8. /\ s[1] # "message" /\ (s[1] = "payload" <=> a = "payload")
      /\ s[1] = "eos" => Len(s) = 1 /\ HasEos(s)
  <2>1. 1 \in 1 .. Len(s)
    BY <1>1
  <2> QED BY <2>1 DEF Aligned, HasEos
<1>9. Aligned(Tail(s), b, m)
  BY <1>1, <1>4, <1>5, <1>6, <1>7 DEF Aligned
<1>10. HasEos(Tail(s)) => HasEos(s)
  BY <1>1, <1>7 DEF HasEos
<1> QED BY <1>1, <1>2, <1>8, <1>9, <1>10 DEF Items

\* An item arrives.
LEMMA AlignedAppend ==
  ASSUME NEW s \in Seq(Items), NEW a, NEW m, NEW n, NEW x \in {"header", "payload", "eos"},
         Aligned(s, a, m), ~HasEos(s), x = "payload" <=> m = "payload",
         n = "payload" <=> x = "header"
  PROVE  /\ s \o <<x>> \in Seq(Items) /\ Aligned(s \o <<x>>, a, n)
         /\ HasEos(s \o <<x>>) => x = "eos"
<1> DEFINE r == s \o <<x>>
<1>1. /\ r \in Seq(Items) /\ Len(s) \in Nat /\ Len(r) = Len(s) + 1
      /\ r[Len(s) + 1] = x /\ r # <<>>
      /\ \A i \in 1 .. Len(s) : r[i] = s[i]
  <2>1. <<x>> \in Seq(Items) /\ Len(<<x>>) = 1 /\ <<x>>[1] = x
    BY DEF Items
  <2>2. r \in Seq(Items) /\ Len(r) = Len(s) + 1 /\ Len(s) \in Nat
    BY <2>1
  <2>3. r[Len(s) + 1] = x
    BY <2>1, <2>2
  <2>4. \A i \in 1 .. Len(s) : r[i] = s[i]
    BY <2>1, <2>2
  <2> QED BY <2>2, <2>3, <2>4
<1> HIDE DEF r
<1>2. s = <<>> <=> Len(s) = 0
  OBVIOUS
<1>3. \A i \in 1 .. Len(r) : r[i] # "message"
  BY <1>1 DEF Aligned
<1>4. ASSUME NEW i \in 1 .. Len(r)
      PROVE  r[i] = "payload" <=> IF i = 1 THEN a = "payload" ELSE r[i - 1] = "header"
  <2>1. CASE i = Len(s) + 1
    <3>1. Len(s) = 0 => (m = "payload" <=> a = "payload")
      BY <1>2 DEF Aligned
    <3>2. Len(s) # 0 => (m = "payload" <=> s[Len(s)] = "header") /\ r[Len(s)] = s[Len(s)]
      BY <1>1, <1>2 DEF Aligned
    <3>3. i - 1 = Len(s) /\ (i = 1 <=> Len(s) = 0)
      BY <1>1, <2>1
    <3> QED BY <1>1, <2>1, <3>1, <3>2, <3>3
  <2>2. CASE i \in 1 .. Len(s)
    <3>1. i # 1 => i - 1 \in 1 .. Len(s)
      BY <1>1, <2>2
    <3>2. r[i] = s[i] /\ (i # 1 => r[i - 1] = s[i - 1])
      BY <1>1, <2>2, <3>1
    <3> QED BY <2>2, <3>2 DEF Aligned
  <2> QED BY <1>1, <2>1, <2>2
<1>5. ASSUME NEW i \in 1 .. Len(r), r[i] = "eos" PROVE i = Len(r) /\ x = "eos"
  <2>1. CASE i \in 1 .. Len(s)
    BY <1>1, <1>5, <2>1 DEF HasEos
  <2>2. CASE i = Len(s) + 1
    BY <1>1, <1>5, <2>2
  <2> QED BY <1>1, <2>1, <2>2
<1>6. Aligned(r, a, n)
  BY <1>1, <1>3, <1>4, <1>5 DEF Aligned
<1>7. HasEos(r) => x = "eos"
  BY <1>5 DEF HasEos
<1> QED BY <1>1, <1>6, <1>7 DEF r

-----------------------------------------------------------------------------
(* What a step leaves alone *)

LEMMA CopiesNat ==
  ASSUME TInv, NEW h \in H
  PROVE  Copies(h) \in Nat
<1>1. q \in Seq(H \X BOOLEAN)
  BY DEF TInv
<1> QED BY <1>1, AtFinite DEF Copies, At

LEMMA CopiesGrow ==
  ASSUME q \in Seq(H \X BOOLEAN), NEW h, DOMAIN q' = 1 .. Len(q) + 1,
         q'[Len(q) + 1][1] = h, \A j \in 1 .. Len(q) : q'[j] = q[j]
  PROVE  \A g \in H : Copies(g)' = Copies(g) + (IF g = h THEN 1 ELSE 0)
<1> SUFFICES ASSUME NEW g \in H PROVE Copies(g)' = Copies(g) + (IF g = h THEN 1 ELSE 0)
  OBVIOUS
<1>1. Cardinality(At(q', g)) = Cardinality(At(q, g)) + (IF g = h THEN 1 ELSE 0)
  BY AtAppend
<1> QED BY <1>1 DEF Copies, At

LEMMA CopiesAppend ==
  ASSUME TInv, NEW h \in H, NEW b \in BOOLEAN, q' = Append(q, <<h, b>>)
  PROVE  /\ q' \in Seq(H \X BOOLEAN)
         /\ \A g \in H : Copies(g)' = Copies(g) + (IF g = h THEN 1 ELSE 0)
<1>1. q \in Seq(H \X BOOLEAN)
  BY DEF TInv
<1>2. <<h, b>> \in H \X BOOLEAN
  BY Zenon
<1>3. /\ q' \in Seq(H \X BOOLEAN) /\ DOMAIN q' = 1 .. Len(q) + 1
      /\ q'[Len(q) + 1] = <<h, b>> /\ \A j \in 1 .. Len(q) : q'[j] = q[j]
  BY <1>1, <1>2
<1>4. /\ DOMAIN q' = 1 .. Len(q) + 1 /\ q'[Len(q) + 1][1] = h
      /\ \A j \in 1 .. Len(q) : q'[j] = q[j]
  BY <1>3
<1> QED BY <1>1, <1>3, <1>4, CopiesGrow

LEMMA CopiesTail ==
  ASSUME TInv, q # <<>>, q' = Tail(q)
  PROVE  /\ q' \in Seq(H \X BOOLEAN) /\ Head(q)[1] \in H
         /\ \A g \in H : Copies(g) = Copies(g)' + (IF g = Head(q)[1] THEN 1 ELSE 0)
         /\ \A g \in H : Copies(g)' \in Nat
<1>1. q \in Seq(H \X BOOLEAN)
  BY DEF TInv
<1>2. q' \in Seq(H \X BOOLEAN) /\ Head(q)[1] \in H
  BY <1>1, AtTail
<1>3. ASSUME NEW g \in H
      PROVE  Copies(g) = Copies(g)' + (IF g = Head(q)[1] THEN 1 ELSE 0) /\ Copies(g)' \in Nat
  <2>1. Cardinality(At(q, g)) = Cardinality(At(Tail(q), g)) + (IF g = Head(q)[1] THEN 1 ELSE 0)
    BY <1>1, AtTail
  <2>2. Cardinality(At(q', g)) \in Nat
    BY <1>2, AtFinite
  <2> QED BY <2>1, <2>2 DEF Copies, At
<1> QED BY <1>2, <1>3

LEMMA CopiesQueue ==
  ASSUME TInv, NEW hs \in SUBSET H, q' = addinQ(hs)
  PROVE  /\ q' \in Seq(H \X BOOLEAN)
         /\ \A g \in H : Copies(g)' = Copies(g) + (IF g \in hs THEN 1 ELSE 0)
<1>1. q \in Seq(H \X BOOLEAN)
  BY DEF TInv
<1>2. ASSUME NEW g \in H PROVE Copies(g)' = Copies(g) + (IF g \in hs THEN 1 ELSE 0)
  <2>1. Cardinality(At(addinQ(hs), g)) = Cardinality(At(q, g)) + (IF g \in hs THEN 1 ELSE 0)
    BY <1>1, AtQueue
  <2>2. Cardinality(At(q', g)) = Cardinality(At(q, g)) + (IF g \in hs THEN 1 ELSE 0)
    BY <2>1
  <2> QED BY <2>2 DEF Copies, At
<1>3. q' \in Seq(H \X BOOLEAN)
  <2>1. hs \X {FALSE} \in SUBSET (H \X BOOLEAN)
    OBVIOUS
  <2>2. SetToSeq(hs \X {FALSE}) \in Seq(H \X BOOLEAN)
    BY <2>1, InSomeOrder
  <2> QED BY <1>1, <2>2 DEF addinQ
<1> QED BY <1>2, <1>3

\* A handle that a step does not touch.
SameHd(g) == /\ hd'[g].rd = hd[g].rd /\ hd'[g].probed = hd[g].probed
             /\ hd'[g].header = hd[g].header /\ hd'[g].is_probed = hd[g].is_probed
Same(g) == /\ conn'[g] = conn[g] /\ tbl'[g] = tbl[g] /\ users'[g] = users[g]
           /\ Copies(g)' = Copies(g) /\ peer'[g] = peer[g] /\ in'[g] = in[g] /\ SameHd(g)
           /\ Yielding(g)' <=> Yielding(g)

LEMMA Kept ==
  ASSUME NEW g \in H, PlaceOk(g), StreamOk(g), transport' = transport, Same(g),
         transport = "MQTT" /\ app'.pc = "run" => app.pc = "run"
  PROVE  PlaceOk(g)' /\ StreamOk(g)'
<1>1. PlaceOk(g)'
  BY DEF Same, SameHd, PlaceOk, Unused, Owners
<1>2. Awaited(hd'[g]) = Awaited(hd[g])
  BY DEF Same, SameHd, Awaited
<1>3. ReadOk(hd[g], in[g], peer[g]) => ReadOk(hd[g], in[g], peer[g])'
  BY <1>2 DEF Same, SameHd, ReadOk, HeaderOk
<1>4. StreamOk(g)'
  BY <1>3 DEF Same, SameHd, StreamOk
<1> QED BY <1>1, <1>4

\* A step that changes no connection, and no flag of a handle.
LEMMA GlobalKept ==
  ASSUME CInv, UNCHANGED <<transport, conn>>,
         io.pc = "shake" => io'.pc = "shake" /\ io'.h = io.h,
         \A g \in H : hd'[g].rd = hd[g].rd /\ hd'[g].ep = hd[g].ep
  PROVE  ShakeOk' /\ EpOk'
<1>2. ShakeOk'
  BY DEF CInv, ShakeOk, Shaking
<1>6. EpOk'
  BY DEF CInv, EpOk
<1> QED BY <1>2, <1>6

-----------------------------------------------------------------------------
(* The peers *)

LEMMA ArriveInv ==
  ASSUME CInv, NEW h \in H, NEW items \in Seq(Items), NEW p \in PeerRec, Arrive(h, items, p),
         ~p.lost, p.subscribed = peer[h].subscribed, p.ack = peer[h].ack,
         p.mid => ~p.closed /\ transport # "SHM",
         transport = "MQTT" => peer[h].subscribed,
         transport = "SHM" => items \in {<<"message">>, <<"eos">>},
         ~hd[h].rd /\ transport # "SHM" =>
           /\ Aligned(in[h] \o items, Awaited(hd[h]), Owed(p))
           /\ HasEos(in[h] \o items) => p.closed
  PROVE  CInv'
<1>1. /\ UNCHANGED <<transport, listening, conn, hd, users, tbl, q, io, lock, app>>
      /\ ev' \in {ev, ev \cup {h}}
  BY DEF Arrive, local
<1>2. in \in [H -> Seq(Items)] /\ peer \in [H -> PeerRec] /\ ev \subseteq H
  BY DEF CInv, TInv
<1>3. /\ in' = [in EXCEPT ![h] = in[h] \o items]
      /\ transport = "SHM" => in[h] = <<>>
  BY DEF Arrive, Slot
<1>4. peer' = [peer EXCEPT ![h] = p]
  <2>1. transport # "MQTT" \/ peer[h].subscribed
    OBVIOUS
  <2>2. peer' = [peer EXCEPT ![h] = [p EXCEPT !.lost = @ \/ ~(transport # "MQTT" \/ peer[h].subscribed)]]
    BY DEF Arrive
  <2>3. p.lost = FALSE
    BY DEF PeerRec
  <2>4. [p EXCEPT !.lost = @ \/ ~(transport # "MQTT" \/ peer[h].subscribed)] = [p EXCEPT !.lost = FALSE]
    BY <2>1, <2>3
  <2>5. [p EXCEPT !.lost = FALSE] = p
    BY <2>3 DEF PeerRec
  <2> QED BY <2>2, <2>4, <2>5
<1>5. in[h] \o items \in Seq(Items)
  BY <1>2
<1>6. /\ in' \in [H -> Seq(Items)] /\ peer' \in [H -> PeerRec] /\ in'[h] = in[h] \o items
      /\ peer'[h] = p /\ \A g \in H : g # h => in'[g] = in[g] /\ peer'[g] = peer[g]
  BY <1>2, <1>3, <1>4, <1>5
<1>7. ev' \subseteq H
  BY <1>1, <1>2
<1>8. TInv'
  BY <1>1, <1>6, <1>7 DEF CInv, TInv
<1>9. \A g \in H : peer'[g].subscribed = peer[g].subscribed
  BY <1>6
<1>10. IoOk' /\ EndOk'
  <2>1. Accepts \subseteq H
    BY DEF H
  <2> QED BY <1>1, <1>9, <2>1 DEF CInv, IoOk, EndOk
<1>11. ShakeOk' /\ EpOk'
  BY <1>1, <1>10, GlobalKept
<1>12. ASSUME NEW g \in H PROVE PlaceOk(g)'
  <2>1. PlaceOk(g)
    BY DEF CInv
  <2> QED BY <1>1, <2>1 DEF PlaceOk, Unused, Owners, Copies, Yielding
<1>13. ASSUME NEW g \in H, g # h PROVE StreamOk(g)'
  <2>1. Same(g)
    BY <1>1, <1>6, <1>13 DEF Same, SameHd, Copies, Yielding
  <2> QED BY <1>1, <2>1, Kept DEF CInv
<1>14. StreamOk(h)'
  <2>1. StreamOk(h)
    BY DEF CInv
  <2>2. ASSUME ~hd[h].rd
        PROVE  ReadOk(hd[h], in[h] \o items, p)
    <3>1. ReadOk(hd[h], in[h], peer[h])
      BY <2>1, <2>2 DEF StreamOk
    <3>2. CASE transport # "SHM"
      BY <2>2, <3>1, <3>2 DEF ReadOk, HeaderOk
    <3>3. CASE transport = "SHM"
      <4>1. in[h] = <<>> /\ Len(in[h]) = 0 /\ Len(<<"message">>) = 1
        BY <1>3, <3>3
      <4>2. hd[h].probed # "data"
        BY <3>1, <3>3, <4>1 DEF ReadOk, HeaderOk
      <4>3. in[h] \o items = items
        BY <4>1
      <4> QED BY <3>1, <3>3, <4>2, <4>3 DEF ReadOk, HeaderOk
    <3> QED BY <3>2, <3>3
  <2>3. ~hd[h].rd => ReadOk(hd[h], in[h], peer[h])'
    BY <1>1, <1>6, <2>2 DEF ReadOk, HeaderOk
  <2>4. /\ ~peer'[h].lost /\ "garbage" \notin {hd[h].probed, hd[h].header}
        /\ peer'[h].mid => ~peer'[h].closed /\ transport # "SHM"
        /\ transport = "MQTT" /\ (peer'[h].ack \/ peer'[h].mid) => peer'[h].subscribed
    BY <1>6, <2>1 DEF StreamOk
  <2> QED BY <1>1, <2>1, <2>3, <2>4 DEF StreamOk
<1> QED BY <1>8, <1>10, <1>11, <1>12, <1>13, <1>14 DEF CInv

\* A peer sends a message: all of it, or its header.
LEMMA PeerSendInv ==
  ASSUME CInv, NEW h \in H, PeerSend(h)
  PROVE  CInv'
<1> DEFINE m == transport \in {"MPI", "MQTT"}
           p == [peer[h] EXCEPT !.sent = @ + 1, !.mid = m]
<1>1. /\ Joined(h) /\ ~peer[h].mid /\ ~peer[h].closed /\ Arrive(h, SendData, p)
      /\ peer[h].sent < MaxMsgs + (IF h \in Connects THEN 0 ELSE 1)
  BY DEF PeerSend
<1>2. peer[h] \in PeerRec /\ in[h] \in Seq(Items) /\ transport \in AllTransports /\ StreamOk(h)
  BY DEF CInv, TInv
<1>3. p \in PeerRec
  <2>1. peer[h].sent + 1 \in 0 .. MaxMsgs + 1
    BY <1>1, <1>2, ConnectorAssumption DEF PeerRec
  <2>2. m \in BOOLEAN
    OBVIOUS
  <2> HIDE DEF m
  <2> QED BY <1>2, <2>1, <2>2 DEF PeerRec
<1>4. /\ ~p.lost /\ p.subscribed = peer[h].subscribed /\ p.ack = peer[h].ack
      /\ ~p.closed /\ (p.mid <=> m)
  <2>1. ~peer[h].lost
    BY <1>2 DEF StreamOk
  <2> HIDE DEF m
  <2> QED BY <1>1, <1>2, <2>1 DEF PeerRec
<1>5. transport = "MQTT" => peer[h].subscribed
  BY <1>1, <1>2 DEF Joined, StreamOk
<1>6. Owed(peer[h]) = "header" /\ Owed(p) = IF m THEN "payload" ELSE "header"
  <2> HIDE DEF m, p
  <2> QED BY <1>1, <1>4 DEF Owed
<1>7. ASSUME ~hd[h].rd, transport # "SHM", NEW n, n = "payload"
      PROVE  /\ in[h] \o <<"header">> \in Seq(Items)
             /\ Aligned(in[h] \o <<"header">>, Awaited(hd[h]), n)
             /\ ~HasEos(in[h] \o <<"header">>)
  <2>1. Aligned(in[h], Awaited(hd[h]), Owed(peer[h])) /\ ~HasEos(in[h])
    BY <1>1, <1>2, <1>7 DEF StreamOk, ReadOk, HeaderOk
  <2> QED BY <1>2, <1>6, <1>7, <2>1, AlignedAppend
<1>8. CASE transport = "SHM"
  <2>1. SendData = <<"message">> /\ <<"message">> \in Seq(Items)
    BY <1>8 DEF SendData, SendSHM, Items
  <2> HIDE DEF p
  <2> QED BY <1>1, <1>3, <1>4, <1>5, <1>8, <2>1, ArriveInv
<1>9. CASE m
  <2>1. SendData = <<"header">> /\ <<"header">> \in Seq(Items) /\ transport # "SHM"
    BY <1>9 DEF SendData, SendMPI, SendMQTT, Items
  <2>2. ~hd[h].rd => /\ Aligned(in[h] \o <<"header">>, Awaited(hd[h]), Owed(p))
                     /\ ~HasEos(in[h] \o <<"header">>)
    BY <1>6, <1>7, <1>9, <2>1
  <2> HIDE DEF p
  <2> QED BY <1>1, <1>3, <1>4, <1>5, <1>9, <2>1, <2>2, ArriveInv
<1>10. CASE transport = "UCX"
  <2>1. SendData = <<"header", "payload">> /\ <<"header", "payload">> \in Seq(Items) /\ ~m
    BY <1>10 DEF SendData, SendUCX, Items
  <2>2. ASSUME ~hd[h].rd
        PROVE  /\ Aligned(in[h] \o <<"header", "payload">>, Awaited(hd[h]), Owed(p))
               /\ ~HasEos(in[h] \o <<"header", "payload">>)
    <3>1. /\ Aligned(in[h] \o <<"header">>, Awaited(hd[h]), "payload")
          /\ in[h] \o <<"header">> \in Seq(Items) /\ ~HasEos(in[h] \o <<"header">>)
      BY <1>7, <1>10, <2>2
    <3>2. Owed(p) = "header"
      BY <1>6, <2>1
    <3>3. /\ Aligned((in[h] \o <<"header">>) \o <<"payload">>, Awaited(hd[h]), "header")
          /\ ~HasEos((in[h] \o <<"header">>) \o <<"payload">>)
      BY <3>1, AlignedAppend
    <3>4. (in[h] \o <<"header">>) \o <<"payload">> = in[h] \o <<"header", "payload">>
      BY <1>2 DEF Items
    <3> QED BY <3>2, <3>3, <3>4
  <2> HIDE DEF p
  <2> QED BY <1>1, <1>3, <1>4, <1>5, <1>10, <2>1, <2>2, ArriveInv
<1> QED BY <1>2, <1>8, <1>9, <1>10 DEF AllTransports

\* The payload after a header.
LEMMA PeerPayloadInv ==
  ASSUME CInv, NEW h \in H, PeerPayload(h)
  PROVE  CInv'
<1> DEFINE p == [peer[h] EXCEPT !.mid = FALSE]
<1>1. peer[h].mid /\ Arrive(h, <<"payload">>, p)
  BY DEF PeerPayload
<1>2. peer[h] \in PeerRec /\ in[h] \in Seq(Items) /\ StreamOk(h)
  BY DEF CInv, TInv
<1>3. ~peer[h].lost /\ ~peer[h].closed /\ transport # "SHM"
  BY <1>1, <1>2 DEF StreamOk
<1>4. p \in PeerRec /\ p.subscribed = peer[h].subscribed /\ p.ack = peer[h].ack
  BY <1>2 DEF PeerRec
<1>5. ~p.lost /\ ~p.mid /\ ~p.closed /\ <<"payload">> \in Seq(Items)
  BY <1>2, <1>3 DEF PeerRec, Items
<1>6. transport = "MQTT" => peer[h].subscribed
  BY <1>1, <1>2 DEF StreamOk
<1> HIDE DEF p
<1>7. ASSUME ~hd[h].rd
      PROVE  /\ Aligned(in[h] \o <<"payload">>, Awaited(hd[h]), Owed(p))
             /\ ~HasEos(in[h] \o <<"payload">>)
  <2>1. Aligned(in[h], Awaited(hd[h]), Owed(peer[h])) /\ ~HasEos(in[h])
    BY <1>2, <1>3, <1>7 DEF StreamOk, ReadOk, HeaderOk
  <2>2. Owed(peer[h]) = "payload" /\ Owed(p) = "header"
    BY <1>1, <1>5 DEF Owed
  <2> QED BY <1>2, <2>1, <2>2, AlignedAppend
<1> QED BY <1>1, <1>3, <1>4, <1>5, <1>6, <1>7, ArriveInv

\* The end of a stream.
LEMMA PeerCloseInv ==
  ASSUME CInv, NEW h \in H, PeerClose(h)
  PROVE  CInv'
<1> DEFINE p == [peer[h] EXCEPT !.closed = TRUE]
<1>1. Joined(h) /\ ~peer[h].mid /\ ~peer[h].closed /\ Arrive(h, <<"eos">>, p)
  BY DEF PeerClose
<1>2. peer[h] \in PeerRec /\ in[h] \in Seq(Items) /\ StreamOk(h)
  BY DEF CInv, TInv
<1>3. ~peer[h].lost
  BY <1>2 DEF StreamOk
<1>4. p \in PeerRec /\ p.subscribed = peer[h].subscribed /\ p.ack = peer[h].ack
  BY <1>2 DEF PeerRec
<1>5. ~p.lost /\ ~p.mid /\ p.closed /\ <<"eos">> \in Seq(Items)
  BY <1>1, <1>2, <1>3 DEF PeerRec, Items
<1>6. transport = "MQTT" => peer[h].subscribed
  BY <1>1, <1>2 DEF Joined, StreamOk
<1> HIDE DEF p
<1>7. ASSUME ~hd[h].rd, transport # "SHM"
      PROVE  Aligned(in[h] \o <<"eos">>, Awaited(hd[h]), Owed(p))
  <2>1. Aligned(in[h], Awaited(hd[h]), Owed(peer[h])) /\ ~HasEos(in[h])
    BY <1>1, <1>2, <1>7 DEF StreamOk, ReadOk, HeaderOk
  <2>2. Owed(peer[h]) = "header" /\ Owed(p) = "header"
    BY <1>1, <1>5 DEF Owed
  <2> QED BY <1>2, <2>1, <2>2, AlignedAppend
<1> QED BY <1>1, <1>4, <1>5, <1>6, <1>7, ArriveInv

-----------------------------------------------------------------------------
(* listen, and the connections of peers *)

LEMMA Sides == Accepts \subseteq H /\ Connects \subseteq H /\ Accepts \cap Connects = {}
  BY ConnectorAssumption DEF H

\* A step of the handles and threads that leaves every handle where it is.
LEMMA AllKept ==
  ASSUME CInv, UNCHANGED <<transport, conn, in, peer, tbl, hd, users, q>>,
         IoOk', EndOk', TInv',
         io.pc = "shake" => io'.pc = "shake" /\ io'.h = io.h,
         \A g \in H : Yielding(g)' <=> Yielding(g),
         app'.pc = "run" => app.pc = "run"
  PROVE  CInv'
<1>1. ShakeOk' /\ EpOk'
  BY GlobalKept
<1>2. ASSUME NEW g \in H PROVE PlaceOk(g)' /\ StreamOk(g)'
  <2>1. Same(g)
    BY DEF Same, SameHd, Copies
  <2> QED BY <2>1, Kept DEF CInv
<1> QED BY <1>1, <1>2 DEF CInv

LEMMA ListenInv ==
  ASSUME CInv, Listen
  PROVE  CInv'
<1>1. UNCHANGED <<transport, conn, in, peer, tbl, hd, users, q, io, lock, app, ev>> /\ listening' = TRUE
  BY DEF Listen, local
<1>2. TInv'
  BY <1>1 DEF CInv, TInv
<1>3. IoOk' /\ EndOk' /\ \A g \in H : Yielding(g)' <=> Yielding(g)
  BY <1>1 DEF CInv, IoOk, EndOk, Yielding
<1> QED BY <1>1, <1>2, <1>3, AllKept

\* A connection is asked for.
LEMMA PeerConnectInv ==
  ASSUME CInv, NEW h \in H, PeerConnect(h)
  PROVE  CInv'
<1>1. /\ UNCHANGED <<transport, listening, in, peer, tbl, hd, users, q, io, lock, app, ev>>
      /\ h \in Accepts /\ conn[h] = "free"
      /\ conn' = [conn EXCEPT ![h] = "asked"]
  BY DEF PeerConnect, local
<1>4. conn \in [H -> {"free", "asked", "accepting", "open"}]
  BY DEF CInv, TInv
<1>5. /\ conn' \in [H -> {"free", "asked", "accepting", "open"}]
      /\ \A g \in H : /\ conn[g] # "free" => conn'[g] = conn[g]
                      /\ conn[g] = "free" => conn'[g] \in {"free", "asked"}
  BY <1>1, <1>4, Sides
<1>6. TInv'
  BY <1>1, <1>5 DEF CInv, TInv
<1>7. IoOk'
  BY <1>1, <1>5, Sides DEF CInv, IoOk
<1>9. ShakeOk'
  BY <1>1, <1>5 DEF CInv, ShakeOk, Shaking
<1>10. EndOk'
  <2>1. app \in AppRec
    BY DEF CInv, TInv
  <2> QED BY <1>1, <1>5, <2>1 DEF CInv, EndOk, AppRec
<1>11. EpOk'
  BY <1>1 DEF CInv, EpOk
<1>13. ASSUME NEW g \in H PROVE PlaceOk(g)'
  <2>1. PlaceOk(g)
    BY DEF CInv
  <2>2. Unused(g)' <=> Unused(g)
    BY <1>1 DEF Unused, Copies
  <2>3. (Yielding(g)' <=> Yielding(g)) /\ Owners(g)' = Owners(g)
    BY <1>1 DEF Owners, Copies, Yielding
  <2>4. CASE conn[g] = "free"
    <3>1. tbl[g] = "absent" /\ Unused(g) /\ ~Yielding(g) /\ ~hd[g].rd
      BY <2>1, <2>4 DEF PlaceOk, Unused
    <3> QED BY <1>1, <1>5, <2>2, <2>3, <2>4, <3>1 DEF PlaceOk
  <2>5. CASE conn[g] # "free"
    <3>1. conn'[g] = conn[g]
      BY <1>5, <2>5
    <3> QED BY <1>1, <2>1, <2>2, <2>3, <3>1 DEF PlaceOk
  <2> QED BY <2>4, <2>5
<1>14. ASSUME NEW g \in H PROVE StreamOk(g)'
  <2>1. StreamOk(g)
    BY DEF CInv
  <2> QED BY <1>1, <2>1 DEF StreamOk, ReadOk, HeaderOk
<1> QED BY <1>6, <1>7, <1>9, <1>10, <1>11, <1>13, <1>14 DEF CInv

\* The I/O thread goes on to the handshake of a handle that was asked for.
LEMMA ShakeInv ==
  ASSUME CInv, NEW h \in Accepts, NEW l \in {"free", "io"}, conn[h] = "asked", Shake(h, l),
         peer' \in [H -> PeerRec], io.pc # "shake",
         \A g \in H : /\ peer'[g].lost = peer[g].lost /\ peer'[g].mid = peer[g].mid
                      /\ peer'[g].closed = peer[g].closed
                      /\ peer'[g].subscribed = peer[g].subscribed,
         \A g \in H : (peer'[g].ack <=> peer[g].ack) \/ peer[g].subscribed
  PROVE  CInv'
<1>1. /\ UNCHANGED <<transport, listening, in, hd, users, q, app, ev>> /\ lock' = l
      /\ tbl' = [tbl EXCEPT ![h] = "kept"] /\ conn' = [conn EXCEPT ![h] = "accepting"]
      /\ io' = [io EXCEPT !.pc = "shake", !.h = h]
  BY DEF Shake
<1>2. h \in H
  BY Sides
<1>3. /\ conn \in [H -> {"free", "asked", "accepting", "open"}]
      /\ tbl \in [H -> {"absent", "kept", "managed"}]
      /\ io \in IoRec
  BY DEF CInv, TInv
<1>4. /\ conn' \in [H -> {"free", "asked", "accepting", "open"}]
      /\ tbl' \in [H -> {"absent", "kept", "managed"}]
      /\ conn'[h] = "accepting" /\ tbl'[h] = "kept"
      /\ \A g \in H : g # h => conn'[g] = conn[g] /\ tbl'[g] = tbl[g]
  BY <1>1, <1>2, <1>3
<1>5. io' \in IoRec /\ io'.pc = "shake" /\ io'.h = h
  BY <1>1, <1>2, <1>3 DEF IoRec, IoPc
<1>6. TInv'
  BY <1>1, <1>4, <1>5 DEF CInv, TInv
<1>7. IoOk'
  BY <1>4, <1>5 DEF IoOk
<1>9. ShakeOk'
  <2>1. \A g \in H : conn[g] # "accepting"
    BY DEF CInv, ShakeOk, Shaking
  <2> QED BY <1>4, <1>5, <2>1 DEF ShakeOk, Shaking
<1>10. EndOk'
  <2>1. app \in AppRec
    BY DEF CInv, TInv
  <2> QED BY <1>1, <1>4, <2>1 DEF CInv, EndOk, AppRec
<1>11. EpOk'
  BY <1>1 DEF CInv, EpOk
<1>13. ASSUME NEW g \in H PROVE PlaceOk(g)'
  <2>1. PlaceOk(g)
    BY DEF CInv
  <2>2. Unused(g)' <=> Unused(g)
    BY <1>1 DEF Unused, Copies
  <2>3. Yielding(g)' <=> Yielding(g)
    BY <1>1 DEF Yielding
  <2>4. CASE g = h
    <3>1. Unused(g) /\ ~Yielding(g) /\ ~hd[g].rd
      BY <2>1, <2>4 DEF PlaceOk, Unused
    <3> QED BY <1>1, <1>4, <2>2, <2>3, <2>4, <3>1 DEF PlaceOk
  <2>5. CASE g # h
    <3>1. conn'[g] = conn[g] /\ tbl'[g] = tbl[g]
      BY <1>4, <2>5
    <3>2. Owners(g)' = Owners(g)
      BY <1>1, <2>3, <3>1 DEF Owners, Copies
    <3> QED BY <1>1, <2>1, <2>2, <2>3, <3>1, <3>2 DEF PlaceOk
  <2> QED BY <2>4, <2>5
<1>14. ASSUME NEW g \in H PROVE StreamOk(g)'
  <2>1. StreamOk(g)
    BY DEF CInv
  <2>2. Owed(peer'[g]) = Owed(peer[g])
    BY DEF Owed
  <2>3. ReadOk(hd[g], in[g], peer[g]) => ReadOk(hd[g], in[g], peer[g])'
    BY <1>1, <2>2 DEF ReadOk, HeaderOk
  <2>4. tbl'[g] = "managed" => tbl[g] = "managed"
    BY <1>4
  <2> QED BY <1>1, <2>1, <2>3, <2>4 DEF StreamOk
<1> QED BY <1>6, <1>7, <1>9, <1>10, <1>11, <1>13, <1>14 DEF CInv

\* The connectors whose update accepts.
LEMMA AcceptInv ==
  ASSUME CInv, NEW h \in H, AcceptSHM(h) \/ AcceptMPI(h) \/ AcceptUCX(h)
  PROVE  CInv'
<1>1. /\ io.pc = "idle" /\ h \in Accepts /\ conn[h] = "asked"
      /\ peer' = peer
      /\ Shake(h, "free") \/ Shake(h, "io")
  BY DEF AcceptSHM, AcceptMPI, AcceptUCX, Acceptable
<1>2. peer' \in [H -> PeerRec]
  BY <1>1 DEF CInv, TInv
<1> QED BY <1>1, <1>2, ShakeInv

LEMMA AckMQTTInv ==
  ASSUME CInv, AckMQTT
  PROVE  CInv'
<1> DEFINE h == io.h
<1>1. /\ io.pc = "ack" /\ peer' = [peer EXCEPT ![h].ack = TRUE]
      /\ Shake(h, "io")
  BY DEF AckMQTT
<1>2. transport = "MQTT" /\ h \in Accepts /\ conn[h] = "asked" /\ peer[h].subscribed
  BY <1>1 DEF CInv, IoOk
<1>3. peer \in [H -> PeerRec] /\ h \in H
  BY <1>2, Sides DEF CInv, TInv
<1> HIDE DEF h
<1>4. /\ peer' \in [H -> PeerRec] /\ peer'[h] = [peer[h] EXCEPT !.ack = TRUE]
      /\ \A g \in H : g # h => peer'[g] = peer[g]
  <2>1. [peer[h] EXCEPT !.ack = TRUE] \in PeerRec
    BY <1>3 DEF PeerRec
  <2>2. peer' = [peer EXCEPT ![h] = [peer[h] EXCEPT !.ack = TRUE]]
    BY <1>1, <1>3
  <2> QED BY <1>3, <2>1, <2>2
<1>5. \A g \in H : /\ peer'[g].lost = peer[g].lost /\ peer'[g].mid = peer[g].mid
                   /\ peer'[g].closed = peer[g].closed
                   /\ peer'[g].subscribed = peer[g].subscribed
  BY <1>3, <1>4 DEF PeerRec
<1>6. \A g \in H : (peer'[g].ack <=> peer[g].ack) \/ peer[g].subscribed
  BY <1>2, <1>4
<1> QED BY <1>1, <1>2, <1>4, <1>5, <1>6, ShakeInv

\* The topic of a peer is subscribed to before the peer learns of it.
LEMMA AcceptMQTTInv ==
  ASSUME CInv, NEW h \in H, AcceptMQTT(h)
  PROVE  CInv'
<1>1. /\ UNCHANGED <<transport, listening, conn, in, hd, users, tbl, q, lock, app, ev>>
      /\ transport = "MQTT" /\ io.pc = "idle" /\ h \in Accepts /\ conn[h] = "asked"
      /\ peer' = [peer EXCEPT ![h].subscribed = TRUE]
      /\ io' = [io EXCEPT !.pc = "ack", !.h = h]
  BY DEF AcceptMQTT, Acceptable, local
<1>2. peer \in [H -> PeerRec] /\ io \in IoRec
  BY DEF CInv, TInv
<1>3. /\ peer' \in [H -> PeerRec] /\ peer'[h] = [peer[h] EXCEPT !.subscribed = TRUE]
      /\ \A g \in H : g # h => peer'[g] = peer[g]
  <2>1. [peer[h] EXCEPT !.subscribed = TRUE] \in PeerRec
    BY <1>2 DEF PeerRec
  <2>2. peer' = [peer EXCEPT ![h] = [peer[h] EXCEPT !.subscribed = TRUE]]
    BY <1>1, <1>2
  <2> QED BY <1>2, <2>1, <2>2
<1>4. /\ io' \in IoRec /\ io'.pc = "ack" /\ io'.h = h
  <2>1. [io EXCEPT !.pc = "ack", !.h = h] \in IoRec
    BY <1>2 DEF IoRec, IoPc
  <2> QED BY <1>1, <1>2, <2>1 DEF IoRec
<1>5. TInv'
  BY <1>1, <1>3, <1>4 DEF CInv, TInv
<1>6. \A g \in H : /\ peer'[g].lost = peer[g].lost /\ peer'[g].mid = peer[g].mid
                   /\ peer'[g].closed = peer[g].closed /\ peer'[g].ack = peer[g].ack
                   /\ peer[g].subscribed => peer'[g].subscribed
  BY <1>2, <1>3 DEF PeerRec
<1>7. peer'[h].subscribed
  BY <1>2, <1>3 DEF PeerRec
<1>8. IoOk' /\ EndOk'
  BY <1>1, <1>4, <1>7 DEF CInv, IoOk, EndOk, IoPc
<1>9. ShakeOk' /\ EpOk'
  BY <1>1, <1>4, <1>8, GlobalKept
<1>10. ASSUME NEW g \in H PROVE PlaceOk(g)'
  BY <1>1 DEF CInv, PlaceOk, Unused, Owners, Copies, Yielding
<1>11. ASSUME NEW g \in H PROVE StreamOk(g)'
  <2>1. StreamOk(g)
    BY DEF CInv
  <2>2. Owed(peer'[g]) = Owed(peer[g])
    BY <1>6 DEF Owed
  <2>3. ReadOk(hd[g], in[g], peer[g]) => ReadOk(hd[g], in[g], peer[g])'
    BY <1>1, <1>6, <2>2 DEF ReadOk, HeaderOk
  <2> QED BY <1>1, <1>6, <2>1, <2>3 DEF StreamOk
<1> QED BY <1>5, <1>8, <1>9, <1>10, <1>11 DEF CInv

\* A header and its payload are read.
LEMMA DropTwo ==
  ASSUME NEW s \in Seq(Items), Len(s) >= 2
  PROVE  /\ Tail(s) \in Seq(Items) /\ Tail(s) # <<>> /\ Head(Tail(s)) = Tail(s)[1]
         /\ 1 \in 1 .. Len(Tail(s)) /\ SubSeq(s, 3, Len(s)) = Tail(Tail(s))
<1> DEFINE r == SubSeq(s, 3, Len(s))
           u == Tail(Tail(s))
           m == Len(s) - 2
<1>1. Len(s) \in Nat /\ s # <<>> /\ m \in Nat /\ (Len(s) - 1) - 1 = m
  OBVIOUS
<1>2. /\ Tail(s) \in Seq(Items) /\ Len(Tail(s)) = Len(s) - 1
      /\ \A i \in 1 .. Len(s) - 1 : Tail(s)[i] = s[i + 1]
  BY <1>1
<1>3. Len(s) - 1 # 0 /\ 1 \in 1 .. Len(s) - 1
  BY <1>1
<1>4. Tail(s) # <<>>
  BY <1>2, <1>3, EmptyStream
<1>5. /\ u \in Seq(Items) /\ Len(u) = (Len(s) - 1) - 1
      /\ \A i \in 1 .. (Len(s) - 1) - 1 : u[i] = Tail(s)[i + 1]
  BY <1>2, <1>4
<1>6. \A i \in 1 .. m : i + 1 \in 1 .. Len(s) - 1 /\ (i + 1) + 1 = i + 2
  BY <1>1
<1>7. \A i \in 1 .. m : u[i] = s[i + 2]
  BY <1>1, <1>2, <1>5, <1>6
<1>8. r \in Seq(Items) /\ Len(r) = m /\ \A i \in 1 .. m : r[i] = s[i + 2]
  <2>1. ASSUME NEW i \in 3 .. Len(s) PROVE s[i] \in Items
    BY <1>1
  <2>2. r = [i \in 1 .. Len(s) - 3 + 1 |-> s[i + 3 - 1]]
    BY <1>1
  <2>3. Len(s) - 3 + 1 = m /\ \A i \in 1 .. m : i + 3 - 1 = i + 2 /\ i + 2 \in 1 .. Len(s)
    BY <1>1
  <2>4. r = [i \in 1 .. m |-> s[i + 2]]
    BY <2>2, <2>3
  <2>5. \A i \in 1 .. m : s[i + 2] \in Items
    BY <1>1, <2>3
  <2> HIDE DEF r, m
  <2> QED BY <1>1, <2>4, <2>5
<1> HIDE DEF r, u, m
<1>9. r = u
  <2>1. r \in [1 .. m -> Items] /\ u \in [1 .. m -> Items]
    BY <1>1, <1>5, <1>8
  <2> QED BY <1>7, <1>8, <2>1
<1> QED BY <1>2, <1>3, <1>4, <1>9 DEF r, u

LEMMA AlignedDropTwo ==
  ASSUME NEW s \in Seq(Items), Len(s) >= 2, NEW a, a = "header", NEW m, Aligned(s, a, m)
  PROVE  /\ SubSeq(s, 3, Len(s)) \in Seq(Items) /\ Aligned(SubSeq(s, 3, Len(s)), a, m)
         /\ HasEos(SubSeq(s, 3, Len(s))) => HasEos(s)
<1>1. Len(s) \in Nat /\ s # <<>> /\ 1 \in 1 .. Len(s) /\ Head(s) = s[1] /\ Head(s) \in Items
  OBVIOUS
<1>2. Head(s) = "header"
  <2>1. s[1] # "message" /\ s[1] # "payload"
    BY <1>1 DEF Aligned
  <2>2. s[1] # "eos"
    BY <1>1 DEF Aligned
  <2> QED BY <1>1, <2>1, <2>2 DEF Items
<1>3. /\ Tail(s) \in Seq(Items) /\ Aligned(Tail(s), "payload", m)
      /\ HasEos(Tail(s)) => HasEos(s)
  BY <1>1, <1>2, AlignedTail
<1>4. Tail(s) # <<>> /\ Head(Tail(s)) = "payload"
  BY <1>3, DropTwo DEF Aligned
<1>5. /\ Tail(Tail(s)) \in Seq(Items) /\ Aligned(Tail(Tail(s)), a, m)
      /\ HasEos(Tail(Tail(s))) => HasEos(Tail(s))
  BY <1>3, <1>4, AlignedTail
<1> QED BY <1>3, <1>5, DropTwo

\* The message of the handshake is the first one, whole.
LEMMA FirstMessage ==
  ASSUME CInv, NEW h \in H, conn[h] # "open", NEW n, n = IF Slot THEN 1 ELSE 2, Len(in[h]) >= n
  PROVE  /\ SubSeq(in[h], n + 1, Len(in[h])) \in Seq(Items)
         /\ ReadOk(hd[h], SubSeq(in[h], n + 1, Len(in[h])), peer[h])
<1>1. in[h] \in Seq(Items) /\ Len(in[h]) \in Nat
  BY DEF CInv, TInv
<1>2. /\ ~hd[h].rd /\ hd[h].probed = "no" /\ hd[h].header = "no" /\ StreamOk(h)
  BY DEF CInv, PlaceOk, Unused
<1>3. ReadOk(hd[h], in[h], peer[h])
  BY <1>2 DEF StreamOk
<1>4. CASE transport = "SHM"
  <2>1. n = 1 /\ in[h] \in {<<>>, <<"message">>, <<"eos">>}
    BY <1>3, <1>4 DEF Slot, ReadOk, HeaderOk
  <2>2. Len(in[h]) = 1
    BY <2>1
  <2>3. SubSeq(in[h], n + 1, Len(in[h])) = <<>> /\ <<>> \in Seq(Items)
    BY <1>1, <2>1, <2>2
  <2> QED BY <1>2, <1>3, <1>4, <2>3 DEF ReadOk, HeaderOk
<1>5. CASE transport # "SHM"
  <2>1. n + 1 = 3 /\ Len(in[h]) >= 2
    BY <1>5 DEF Slot
  <2>2. Aligned(in[h], Awaited(hd[h]), Owed(peer[h])) /\ (HasEos(in[h]) => peer[h].closed)
    BY <1>3, <1>5 DEF ReadOk, HeaderOk
  <2>3. Awaited(hd[h]) = "header"
    BY <1>2 DEF Awaited
  <2>4. /\ SubSeq(in[h], 3, Len(in[h])) \in Seq(Items)
        /\ Aligned(SubSeq(in[h], 3, Len(in[h])), Awaited(hd[h]), Owed(peer[h]))
        /\ HasEos(SubSeq(in[h], 3, Len(in[h]))) => peer[h].closed
    BY <1>1, <2>1, <2>2, <2>3, AlignedDropTwo
  <2> DEFINE r == SubSeq(in[h], 3, Len(in[h]))
  <2>5. r \in Seq(Items) /\ Aligned(r, Awaited(hd[h]), Owed(peer[h])) /\ (HasEos(r) => peer[h].closed)
    BY <2>4
  <2> HIDE DEF r
  <2>6. ReadOk(hd[h], r, peer[h])
    BY <1>3, <1>5, <2>5 DEF ReadOk, HeaderOk
  <2> QED BY <2>1, <2>5, <2>6 DEF r
<1> QED BY <1>4, <1>5

\* The handle goes to the application by way of the queue.
LEMMA HandshakeInv ==
  ASSUME CInv, Handshake
  PROVE  CInv'
<1> DEFINE n == IF Slot THEN 1 ELSE 2
           s == SubSeq(in[io.h], n + 1, Len(in[io.h]))
<1>1. /\ UNCHANGED <<transport, listening, peer, hd, users, tbl, app>>
      /\ io.pc = "shake" /\ Len(in[io.h]) >= n
      /\ in' = [in EXCEPT ![io.h] = s] /\ conn' = [conn EXCEPT ![io.h] = "open"]
      /\ q' = Append(q, <<io.h, TRUE>>)
      /\ io' = [io EXCEPT !.pc = "scan", !.h = NoH]
      /\ lock' = "free" /\ ev' \in {ev, ev \ {io.h}}
  BY DEF Handshake, Consumed, local
<1>2. conn[io.h] = "accepting" /\ io.h \in Accepts
  BY <1>1 DEF CInv, IoOk
<1>3. PICK h \in H : h = io.h
  BY <1>2, Sides
<1>4. /\ in \in [H -> Seq(Items)] /\ conn \in [H -> {"free", "asked", "accepting", "open"}]
      /\ io \in IoRec /\ q \in Seq(H \X BOOLEAN)
      /\ ev \subseteq H
  BY DEF CInv, TInv
<1>5. s \in Seq(Items) /\ ReadOk(hd[h], s, peer[h])
  BY <1>1, <1>2, <1>3, FirstMessage
<1> HIDE DEF s
<1>6. /\ in' \in [H -> Seq(Items)] /\ in'[h] = s
      /\ conn' \in [H -> {"free", "asked", "accepting", "open"}] /\ conn'[h] = "open"
      /\ \A g \in H : g # h => in'[g] = in[g] /\ conn'[g] = conn[g]
  BY <1>1, <1>3, <1>4, <1>5
<1>7. /\ q' \in Seq(H \X BOOLEAN)
      /\ \A g \in H : Copies(g)' = Copies(g) + (IF g = h THEN 1 ELSE 0)
  <2>1. q' = Append(q, <<h, TRUE>>)
    BY <1>1, <1>3
  <2>2. TRUE \in BOOLEAN /\ TInv
    BY DEF CInv
  <2> QED BY <2>1, <2>2, CopiesAppend, Zenon
<1>8. io' \in IoRec /\ io'.pc = "scan"
  BY <1>1, <1>4 DEF IoRec, IoPc
<1> HIDE DEF n
<1>9. TInv'
  <2>1. lock' \in {"free", "io"} /\ ev' \subseteq H
    BY <1>1, <1>4
  <2> QED BY <1>1, <1>6, <1>7, <1>8, <2>1 DEF CInv, TInv
<1>10. IoOk'
  BY <1>8 DEF IoOk
<1>12. ShakeOk'
  <2>1. \A g \in H : conn[g] = "accepting" => g = h
    BY <1>3 DEF CInv, ShakeOk, Shaking
  <2> QED BY <1>6, <2>1 DEF ShakeOk
<1>13. EndOk'
  <2>1. app \in AppRec
    BY DEF CInv, TInv
  <2> QED BY <1>1, <1>6, <2>1 DEF CInv, EndOk, AppRec
<1>14. EpOk'
  BY <1>1 DEF CInv, EpOk
<1>16. ASSUME NEW g \in H, g # h PROVE PlaceOk(g)' /\ StreamOk(g)'
  <2>1. Copies(g)' = Copies(g)
    BY <1>7, <1>9, <1>16, CopiesNat DEF CInv
  <2>2. Same(g)
    BY <1>1, <1>6, <1>16, <2>1 DEF Same, SameHd, Yielding
  <2> QED BY <1>1, <2>2, Kept DEF CInv
<1>17. PlaceOk(h)'
  <2>1. PlaceOk(h) /\ conn[h] = "accepting"
    BY <1>2, <1>3 DEF CInv
  <2>2. Copies(h) = 0 /\ users[h] = 0 /\ ~hd[h].rd /\ tbl[h] = "kept" /\ ~Yielding(h)
    BY <2>1 DEF PlaceOk, Unused
  <2>3. Copies(h)' = 1
    BY <1>7, <2>2
  <2>4. ~Yielding(h)'
    BY <1>1, <2>2 DEF Yielding
  <2>5. Owners(h)' = 1
    BY <1>1, <2>2, <2>3, <2>4 DEF Owners
  <2> QED BY <1>1, <1>6, <2>2, <2>4, <2>5 DEF PlaceOk
<1>18. StreamOk(h)'
  <2>1. StreamOk(h)
    BY DEF CInv
  <2>2. ReadOk(hd[h], in[h], peer[h])'
    BY <1>1, <1>5, <1>6 DEF ReadOk, HeaderOk
  <2> QED BY <1>1, <2>1, <2>2 DEF StreamOk
<1> QED BY <1>9, <1>10, <1>12, <1>13, <1>14, <1>16, <1>17, <1>18 DEF CInv

-----------------------------------------------------------------------------
(* The loop of update *)

\* The I/O thread takes up another step, without a handle.
LEMMA IoStep ==
  ASSUME CInv, NEW x \in {"idle", "polled"}, NEW S \in SUBSET H, x = "polled" => transport' = "UCX",
         \/ io' = [io EXCEPT !.pc = x]
         \/ io' = [io EXCEPT !.pc = x, !.todo = S]
  PROVE  io' \in IoRec /\ io'.pc = x /\ IoOk'
<1>1. io \in IoRec
  BY DEF CInv, TInv
<1>2. /\ [io EXCEPT !.pc = x] \in IoRec
      /\ [io EXCEPT !.pc = x, !.todo = S] \in IoRec
  BY <1>1 DEF IoRec, IoPc
<1>4. io' \in IoRec /\ io'.pc = x
  BY <1>1, <1>2 DEF IoRec
<1>5. IoOk'
  BY <1>4 DEF IoOk
<1> QED BY <1>4, <1>5

\* A managed handle is open, and nobody else has it.
LEMMA ManagedAlone ==
  ASSUME CInv, NEW h \in H, tbl[h] = "managed"
  PROVE  /\ conn[h] = "open" /\ ~hd[h].rd /\ ~Yielding(h)
         /\ transport # "SHM" => Copies(h) = 0 /\ users[h] = 0
<1>1. PlaceOk(h) /\ conn[h] \in {"free", "asked", "accepting", "open"} /\ users[h] \in Nat
  BY DEF CInv, TInv
<1>2. conn[h] = "open" /\ ~hd[h].rd /\ ~Yielding(h)
  BY <1>1 DEF PlaceOk
<1>3. ASSUME transport # "SHM" PROVE Copies(h) = 0 /\ users[h] = 0
  <2>1. Owners(h) = 1
    BY <1>1, <1>2, <1>3 DEF PlaceOk
  <2>2. Copies(h) \in Nat
    BY CopiesNat DEF CInv
  <2>3. Copies(h) + users[h] + 1 = 1
    BY <2>1 DEF Owners
  <2> QED BY <1>1, <2>2, <2>3
<1> QED BY <1>2, <1>3

\* Handles the runtime managed go to the queue.
LEMMA QueuedPlace ==
  ASSUME CInv, NEW hs \in SUBSET H, hs \subseteq Managed, q' = addinQ(hs),
         UNCHANGED <<transport, conn, users, app>>,
         \A g \in H : /\ hd'[g].rd = hd[g].rd
                      /\ g \notin hs => tbl'[g] = tbl[g] /\ hd'[g] = hd[g]
                      /\ g \in hs => IF transport = "SHM" THEN tbl'[g] = "managed" ELSE tbl'[g] = "kept"
  PROVE  \A g \in H : PlaceOk(g)'
<1> SUFFICES ASSUME NEW g \in H PROVE PlaceOk(g)'
  OBVIOUS
<1>1. PlaceOk(g) /\ Copies(g) \in Nat
  BY CopiesNat DEF CInv
<1>2. Copies(g)' = Copies(g) + (IF g \in hs THEN 1 ELSE 0)
  BY CopiesQueue DEF CInv
<1>3. Yielding(g)' <=> Yielding(g)
  BY DEF Yielding
<1>4. CASE g \notin hs
  <2>1. Copies(g)' = Copies(g) /\ tbl'[g] = tbl[g] /\ hd'[g] = hd[g] /\ conn'[g] = conn[g] /\ users'[g] = users[g]
    BY <1>1, <1>2, <1>4
  <2>2. (Unused(g)' <=> Unused(g)) /\ Owners(g)' = Owners(g)
    BY <1>3, <2>1 DEF Unused, Owners
  <2> QED BY <1>1, <1>3, <2>1, <2>2 DEF PlaceOk
<1>5. CASE g \in hs
  <2>1. /\ conn[g] = "open" /\ ~hd[g].rd /\ ~Yielding(g)
        /\ transport # "SHM" => Copies(g) = 0 /\ users[g] = 0
    BY <1>5, ManagedAlone DEF Managed
  <2>2. tbl'[g] \in {"kept", "managed"} /\ conn'[g] = "open" /\ ~hd'[g].rd /\ ~Yielding(g)'
    BY <1>3, <1>5, <2>1
  <2>3. transport # "SHM" => Owners(g)' = 1
    BY <1>2, <1>5, <2>1, <2>2 DEF Owners
  <2> QED BY <2>2, <2>3 DEF PlaceOk
<1> QED BY <1>4, <1>5

\* The connectors that only look whether there is something to read.
LEMMA LookInv ==
  ASSUME CInv, ScanSHM \/ ScanMPI \/ ScanUCX
  PROVE  CInv'
<1>1. PICK hs \in SUBSET H :
        /\ hs \subseteq Managed /\ q' = addinQ(hs)
        /\ tbl' = IF transport = "SHM" THEN tbl ELSE [h \in H |-> IF h \in hs THEN "kept" ELSE tbl[h]]
        /\ io.pc # "shake"
        /\ \/ io' = [io EXCEPT !.pc = "idle"]
           \/ io' = [io EXCEPT !.pc = "idle", !.todo = {}]
        /\ UNCHANGED <<transport, listening, conn, in, peer, hd, users, lock, app, ev>>
  <2>1. CASE ScanSHM
    <3> DEFINE hs == {h \in Managed : Copies(h) < MaxReady}
    <3>1. hs \in SUBSET H /\ hs \subseteq Managed
      BY DEF Managed
    <3>2. /\ q' = addinQ(hs) /\ tbl' = tbl /\ transport = "SHM" /\ io.pc # "shake"
          /\ io' = [io EXCEPT !.pc = "idle"]
          /\ UNCHANGED <<transport, listening, conn, in, peer, hd, users, lock, app, ev>>
      BY <2>1 DEF ScanSHM, Scanning, Queue, local
    <3> HIDE DEF hs
    <3> QED BY <3>1, <3>2
  <2>2. CASE ScanMPI
    <3> DEFINE hs == {h \in Managed : in[h] # <<>>}
    <3>1. hs \in SUBSET H /\ hs \subseteq Managed
      BY DEF Managed
    <3>2. /\ q' = addinQ(hs) /\ transport # "SHM" /\ io.pc # "shake"
          /\ tbl' = [h \in H |-> IF h \in hs THEN "kept" ELSE tbl[h]]
          /\ io' = [io EXCEPT !.pc = "idle"]
          /\ UNCHANGED <<transport, listening, conn, in, peer, hd, users, lock, app, ev>>
      BY <2>2 DEF ScanMPI, Scanning, Queue
    <3> HIDE DEF hs
    <3> QED BY <3>1, <3>2
  <2>3. CASE ScanUCX
    <3> DEFINE hs == io.todo \cap Managed
    <3>1. hs \in SUBSET H /\ hs \subseteq Managed
      BY DEF Managed
    <3>2. /\ q' = addinQ(hs) /\ io.pc = "polled"
          /\ tbl' = [h \in H |-> IF h \in hs THEN "kept" ELSE tbl[h]]
          /\ io' = [io EXCEPT !.pc = "idle", !.todo = {}]
          /\ UNCHANGED <<transport, listening, conn, in, peer, hd, users, lock, app, ev>>
      BY <2>3 DEF ScanUCX
    <3>3. transport # "SHM"
      BY <3>2 DEF CInv, IoOk
    <3> HIDE DEF hs
    <3> QED BY <3>1, <3>2, <3>3
  <2> QED BY <2>1, <2>2, <2>3
<1>2. tbl \in [H -> {"absent", "kept", "managed"}]
  BY DEF CInv, TInv
<1>3. /\ tbl' \in [H -> {"absent", "kept", "managed"}]
      /\ \A g \in H : /\ g \notin hs => tbl'[g] = tbl[g]
                      /\ g \in hs => IF transport = "SHM" THEN tbl'[g] = "managed" ELSE tbl'[g] = "kept"
  BY <1>1, <1>2 DEF Managed
<1>4. q' \in Seq(H \X BOOLEAN)
  BY <1>1, CopiesQueue DEF CInv
<1>5. io' \in IoRec /\ IoOk'
  <2>1. {} \in SUBSET H /\ "idle" \in {"idle", "polled"}
    OBVIOUS
  <2> QED BY <1>1, <2>1, IoStep
<1>6. TInv'
  BY <1>1, <1>3, <1>4, <1>5 DEF CInv, TInv
<1>7. EndOk'
  BY <1>1 DEF CInv, EndOk
<1>8. ShakeOk' /\ EpOk'
  BY <1>1, <1>5, <1>7, GlobalKept
<1>9. \A g \in H : PlaceOk(g)'
  BY <1>1, <1>3, QueuedPlace
<1>10. ASSUME NEW g \in H PROVE StreamOk(g)'
  <2>1. StreamOk(g) /\ (tbl'[g] = "managed" => tbl[g] = "managed")
    BY <1>1, <1>3 DEF CInv, Managed
  <2> QED BY <1>1, <2>1 DEF StreamOk, ReadOk, HeaderOk
<1> QED BY <1>5, <1>6, <1>7, <1>8, <1>9, <1>10 DEF CInv

LEMMA PollUCXInv ==
  ASSUME CInv, PollUCX
  PROVE  CInv'
<1>1. /\ UNCHANGED <<transport, listening, conn, in, peer, hd, users, tbl, q, lock, app>>
      /\ transport = "UCX" /\ io.pc # "shake" /\ ev' = {}
      /\ io' = [io EXCEPT !.pc = "polled", !.todo = ev]
  BY DEF PollUCX, local
<1>2. ev \in SUBSET H /\ "polled" \in {"idle", "polled"}
  BY DEF CInv, TInv
<1>3. io' \in IoRec /\ IoOk'
  BY <1>1, <1>2, IoStep
<1>4. TInv'
  BY <1>1, <1>3 DEF CInv, TInv
<1>5. EndOk' /\ \A g \in H : Yielding(g)' <=> Yielding(g)
  BY <1>1 DEF CInv, EndOk, Yielding
<1> QED BY <1>1, <1>3, <1>4, <1>5, AllKept

-----------------------------------------------------------------------------
(* Reading *)

\* An item is taken as a header: it is one, or the end of the stream.
LEMMA TakeHeader ==
  ASSUME NEW x, NEW y, NEW p, NEW s \in Seq(Items), s # <<>>, transport # "SHM",
         ReadOk(x, s, p), "data" \notin {x.probed, x.header}, HeaderOk(y),
         Kind(Head(s)) = "data" <=> "data" \in {y.probed, y.header}
  PROVE  /\ ReadOk(y, Tail(s), p) /\ Tail(s) \in Seq(Items)
         /\ Kind(Head(s)) \in {"data", "eos"}
<1>1. Aligned(s, Awaited(x), Owed(p)) /\ (HasEos(s) => p.closed)
  BY DEF ReadOk
<1>2. Awaited(x) = "header"
  BY DEF Awaited
<1>3. 1 \in 1 .. Len(s) /\ Head(s) = s[1] /\ Head(s) \in Items
  OBVIOUS
<1>4. Head(s) \in {"header", "eos"}
  BY <1>1, <1>2, <1>3 DEF Aligned, Items
<1>5. Kind(Head(s)) \in {"data", "eos"} /\ (Kind(Head(s)) = "data" <=> Head(s) = "header")
  BY <1>4 DEF Kind
<1>6. Awaited(y) = "payload" <=> Head(s) = "header"
  BY <1>5 DEF Awaited
<1>7. Aligned(Tail(s), Awaited(y), Owed(p)) /\ Tail(s) \in Seq(Items) /\ (HasEos(Tail(s)) => HasEos(s))
  BY <1>1, <1>6, AlignedTail
<1> QED BY <1>1, <1>5, <1>7 DEF ReadOk

\* An item is taken as a payload.
LEMMA TakePayload ==
  ASSUME NEW x, NEW y, NEW p, NEW s \in Seq(Items), s # <<>>, transport # "SHM",
         ReadOk(x, s, p), x.probed = "data", HeaderOk(y), "data" \notin {y.probed, y.header}
  PROVE  ReadOk(y, Tail(s), p) /\ Tail(s) \in Seq(Items) /\ Head(s) = "payload"
<1>1. Aligned(s, Awaited(x), Owed(p)) /\ (HasEos(s) => p.closed)
  BY DEF ReadOk
<1>2. Awaited(x) = "payload" /\ Awaited(y) = "header"
  BY DEF Awaited
<1>3. 1 \in 1 .. Len(s) /\ Head(s) = s[1]
  OBVIOUS
<1>4. Head(s) = "payload"
  BY <1>1, <1>2, <1>3 DEF Aligned
<1>5. Aligned(Tail(s), Awaited(y), Owed(p)) /\ Tail(s) \in Seq(Items) /\ (HasEos(Tail(s)) => HasEos(s))
  BY <1>1, <1>2, <1>4, AlignedTail
<1> QED BY <1>1, <1>4, <1>5 DEF ReadOk

\* update of MQTT keeps the headers it has found.
LEMMA ScanMQTTInv ==
  ASSUME CInv, ScanMQTT
  PROVE  CInv'
<1> DEFINE ready == {h \in Managed : in[h] # <<>>}
           y(h) == [hd[h] EXCEPT !.is_probed = TRUE, !.header = Kind(Head(in[h]))]
<1>1. /\ transport = "MQTT" /\ app.pc \in {"run", "yield"} /\ io.pc # "shake"
      /\ q' = addinQ(ready)
      /\ tbl' = [h \in H |-> IF h \in ready THEN "kept" ELSE tbl[h]]
      /\ hd' = [h \in H |-> IF h \in ready THEN y(h) ELSE hd[h]]
      /\ in' = [h \in H |-> IF h \in ready THEN Tail(in[h]) ELSE in[h]]
      /\ io' = [io EXCEPT !.pc = "idle"]
      /\ UNCHANGED <<transport, listening, conn, peer, users, lock, app, ev>>
  BY DEF ScanMQTT, Scanning, Running, Queue
<1>2. ready \in SUBSET H /\ ready \subseteq Managed /\ \A h \in ready : in[h] # <<>> /\ tbl[h] = "managed"
  BY DEF Managed
<1>3. /\ tbl \in [H -> {"absent", "kept", "managed"}] /\ hd \in [H -> HandleRec]
      /\ in \in [H -> Seq(Items)]
  BY DEF CInv, TInv
<1> HIDE DEF ready
<1>4. app.pc = "run"
  BY <1>1 DEF CInv, EndOk
<1>5. ASSUME NEW h \in ready
      PROVE  /\ y(h) \in HandleRec /\ y(h).rd = hd[h].rd /\ y(h).ep = hd[h].ep
             /\ ReadOk(y(h), Tail(in[h]), peer[h]) /\ Tail(in[h]) \in Seq(Items)
             /\ "garbage" \notin {y(h).probed, y(h).header}
  <2>1. h \in H /\ tbl[h] = "managed" /\ in[h] # <<>> /\ hd[h] \in HandleRec /\ in[h] \in Seq(Items)
    BY <1>2, <1>3
  <2>2. StreamOk(h) /\ ~hd[h].rd
    BY <2>1, ManagedAlone DEF CInv
  <2>3. ReadOk(hd[h], in[h], peer[h]) /\ ~hd[h].is_probed /\ hd[h].probed # "garbage"
    BY <1>1, <1>4, <2>1, <2>2 DEF StreamOk
  <2>4. hd[h].header = "no" /\ hd[h].probed = "no"
    BY <1>1, <2>3 DEF ReadOk, HeaderOk
  <2>5. Kind(Head(in[h])) \in {"data", "eos", "garbage"}
    BY DEF Kind
  <2>6. /\ y(h) \in HandleRec /\ y(h).rd = hd[h].rd /\ y(h).ep = hd[h].ep /\ y(h).is_probed
        /\ y(h).probed = "no" /\ y(h).header = Kind(Head(in[h]))
    BY <2>1, <2>4, <2>5 DEF HandleRec, Found
  <2> HIDE DEF y
  <2>7. HeaderOk(y(h))
    BY <1>1, <2>5, <2>6 DEF HeaderOk
  <2>8. /\ ReadOk(y(h), Tail(in[h]), peer[h]) /\ Tail(in[h]) \in Seq(Items)
        /\ Kind(Head(in[h])) \in {"data", "eos"}
    BY <1>1, <2>1, <2>3, <2>4, <2>6, <2>7, TakeHeader
  <2> QED BY <2>6, <2>8
<1> HIDE DEF y
<1>6. /\ tbl' \in [H -> {"absent", "kept", "managed"}] /\ hd' \in [H -> HandleRec]
      /\ in' \in [H -> Seq(Items)]
      /\ \A h \in ready : tbl'[h] = "kept" /\ hd'[h] = y(h) /\ in'[h] = Tail(in[h])
      /\ \A h \in H \ ready : tbl'[h] = tbl[h] /\ hd'[h] = hd[h] /\ in'[h] = in[h]
  BY <1>1, <1>2, <1>3, <1>5
<1>7. \A g \in H : hd'[g].rd = hd[g].rd /\ hd'[g].ep = hd[g].ep
  BY <1>5, <1>6
<1>8. q' \in Seq(H \X BOOLEAN)
  BY <1>1, <1>2, CopiesQueue DEF CInv
<1>9. io' \in IoRec /\ IoOk'
  <2>1. {} \in SUBSET H /\ "idle" \in {"idle", "polled"}
    OBVIOUS
  <2> QED BY <1>1, <2>1, IoStep
<1>10. TInv'
  BY <1>1, <1>6, <1>8, <1>9 DEF CInv, TInv
<1>11. EndOk'
  BY <1>1 DEF CInv, EndOk
<1>12. ShakeOk' /\ EpOk'
  BY <1>1, <1>7, <1>9, <1>11, GlobalKept
<1>13. \A g \in H : PlaceOk(g)'
  BY <1>1, <1>2, <1>6, <1>7, QueuedPlace
<1>14. ASSUME NEW g \in H PROVE StreamOk(g)'
  <2>1. StreamOk(g)
    BY DEF CInv
  <2>2. CASE g \in ready
    <3>1. ReadOk(hd[g], in[g], peer[g])' /\ tbl'[g] = "kept" /\ "garbage" \notin {hd'[g].probed, hd'[g].header}
      BY <1>1, <1>5, <1>6, <2>2 DEF ReadOk, HeaderOk
    <3> QED BY <1>1, <2>1, <3>1 DEF StreamOk
  <2>3. CASE g \notin ready
    <3>1. ReadOk(hd[g], in[g], peer[g]) => ReadOk(hd[g], in[g], peer[g])'
      BY <1>1, <1>6, <2>3 DEF ReadOk, HeaderOk
    <3> QED BY <1>1, <1>6, <2>1, <2>3, <3>1 DEF StreamOk
  <2> QED BY <2>2, <2>3
<1> QED BY <1>9, <1>10, <1>11, <1>12, <1>13, <1>14 DEF CInv

\* A handle somebody uses, or finalize closes, is open.
LEMMA UsedOpen ==
  ASSUME CInv, NEW h \in H, Runs(h) \/ (app.pc = "draining" /\ app.h = h)
  PROVE  /\ conn[h] = "open" /\ ~Yielding(h)
         /\ app.pc = "run" /\ ~hd[h].rd /\ transport # "SHM" =>
              Copies(h) = 0 /\ users[h] = 1 /\ tbl[h] = "kept"
<1>1. /\ PlaceOk(h) /\ conn[h] \in {"free", "asked", "accepting", "open"} /\ users[h] \in Nat
      /\ tbl[h] \in {"absent", "kept", "managed"} /\ Copies(h) \in Nat
  BY CopiesNat DEF CInv, TInv
<1>2. CASE Runs(h)
  <2>1. conn[h] = "open" /\ ~Yielding(h) /\ users[h] > 0
    BY <1>1, <1>2 DEF Runs, PlaceOk, Unused, Yielding
  <2>2. ASSUME ~hd[h].rd, transport # "SHM"
        PROVE  Copies(h) = 0 /\ users[h] = 1 /\ tbl[h] = "kept"
    <3>1. Owners(h) = 1 /\ tbl[h] # "absent"
      BY <1>1, <2>1, <2>2 DEF PlaceOk
    <3>2. Copies(h) + users[h] + (IF tbl[h] = "managed" THEN 1 ELSE 0) = 1
      BY <2>1, <3>1 DEF Owners
    <3> QED BY <1>1, <2>1, <3>1, <3>2
  <2> QED BY <2>1, <2>2
<1>3. CASE app.pc = "draining" /\ app.h = h
  BY <1>3 DEF CInv, EndOk, Yielding
<1> QED BY <1>2, <1>3

\* What probe finds, and how it leaves the handle.
LEMMA ProbeEffect ==
  ASSUME CInv, NEW h \in H, ~hd[h].rd, hd[h].probed = "no", Readable(h),
         NEW y, y = [ProbeHandle(h).hd EXCEPT !.probed = ProbeHandle(h).found]
  PROVE  /\ y \in HandleRec /\ y.rd = hd[h].rd /\ y.ep = hd[h].ep
         /\ ProbeHandle(h).in \in Seq(Items) /\ ReadOk(y, ProbeHandle(h).in, peer[h])
         /\ ProbeHandle(h).found \in {"data", "eos"}
         /\ "garbage" \notin {y.probed, y.header}
<1>1. hd[h] \in HandleRec /\ in[h] \in Seq(Items) /\ StreamOk(h) /\ transport \in AllTransports
  BY DEF CInv, TInv
<1>2. ReadOk(hd[h], in[h], peer[h]) /\ HeaderOk(hd[h]) /\ hd[h].header # "garbage"
  BY <1>1 DEF StreamOk, ReadOk
<1>3. ASSUME NEW x \in HandleRec, NEW k \in Found
      PROVE  /\ [x EXCEPT !.probed = k] \in HandleRec /\ [x EXCEPT !.probed = k].probed = k
             /\ [x EXCEPT !.probed = k].header = x.header /\ [x EXCEPT !.probed = k].rd = x.rd
             /\ [x EXCEPT !.probed = k].ep = x.ep /\ [x EXCEPT !.probed = k].is_probed = x.is_probed
  BY DEF HandleRec
<1>4. Kind(Head(in[h])) \in Found /\ Kind(Head(in[h])) # "no"
  BY DEF Kind, Found
<1>5. CASE transport = "SHM"
  <2>1. /\ ProbeHandle(h).found = Kind(Head(in[h])) /\ ProbeHandle(h).in = in[h]
        /\ ProbeHandle(h).hd = hd[h]
    BY <1>5 DEF ProbeHandle, ProbeSHM
  <2>2. hd[h].header = "no" /\ in[h] # <<>> /\ in[h] \in {<<>>, <<"message">>, <<"eos">>}
    BY <1>2, <1>5 DEF ReadOk, HeaderOk, Readable
  <2>3. /\ Kind(Head(in[h])) \in {"data", "eos"}
        /\ Kind(Head(in[h])) = "data" => in[h] = <<"message">>
    <3>1. CASE in[h] = <<"message">>
      <4>1. Head(in[h]) = "message"
        BY <3>1
      <4> QED BY <3>1, <4>1 DEF Kind
    <3>2. CASE in[h] = <<"eos">>
      <4>1. Head(in[h]) = "eos"
        BY <3>2
      <4> QED BY <4>1 DEF Kind
    <3> QED BY <2>2, <3>1, <3>2
  <2>4. /\ y \in HandleRec /\ y.rd = hd[h].rd /\ y.ep = hd[h].ep /\ y.header = "no"
        /\ y.probed = Kind(Head(in[h]))
    BY <1>1, <1>3, <1>4, <2>1, <2>2
  <2> QED BY <1>1, <1>5, <2>1, <2>2, <2>3, <2>4 DEF ReadOk, HeaderOk
<1>6. CASE transport = "MPI"
  <2>1. /\ ProbeHandle(h).found = Kind(Head(in[h])) /\ ProbeHandle(h).in = Tail(in[h])
        /\ ProbeHandle(h).hd = hd[h]
    BY <1>6 DEF ProbeHandle, ProbeMPI, Taken
  <2>2. hd[h].header = "no" /\ in[h] # <<>>
    BY <1>2, <1>6 DEF HeaderOk, Readable
  <2>3. /\ y \in HandleRec /\ y.rd = hd[h].rd /\ y.ep = hd[h].ep /\ y.header = "no"
        /\ y.probed = Kind(Head(in[h]))
    BY <1>1, <1>3, <1>4, <2>1, <2>2
  <2>4. HeaderOk(y)
    BY <1>6, <2>3 DEF HeaderOk
  <2>5. /\ ReadOk(y, Tail(in[h]), peer[h]) /\ Tail(in[h]) \in Seq(Items)
        /\ Kind(Head(in[h])) \in {"data", "eos"}
    BY <1>1, <1>2, <1>6, <2>2, <2>3, <2>4, TakeHeader
  <2> QED BY <2>1, <2>3, <2>5
<1>7. CASE transport = "MQTT"
  <2>1. CASE hd[h].is_probed
    <3> DEFINE x == [hd[h] EXCEPT !.header = "no"]
    <3>1. ProbeHandle(h).found = hd[h].header /\ ProbeHandle(h).in = in[h] /\ ProbeHandle(h).hd = x
      BY <1>7, <2>1 DEF ProbeHandle, ProbeMQTT
    <3>2. /\ x \in HandleRec /\ x.header = "no" /\ x.rd = hd[h].rd /\ x.ep = hd[h].ep
          /\ x.is_probed /\ hd[h].header \in Found
      BY <1>1, <2>1 DEF HandleRec, Found
    <3>3. hd[h].header # "no"
      BY <1>2, <1>7, <2>1 DEF HeaderOk
    <3>4. hd[h].header \in {"data", "eos"}
      BY <1>2, <3>2, <3>3 DEF Found
    <3> HIDE DEF x
    <3>5. /\ y \in HandleRec /\ y.rd = hd[h].rd /\ y.ep = hd[h].ep /\ y.header = "no"
          /\ y.probed = hd[h].header /\ y.is_probed
      BY <1>3, <3>1, <3>2
    <3>6. HeaderOk(y)
      BY <1>7, <3>3, <3>5 DEF HeaderOk
    <3>7. Awaited(y) = Awaited(hd[h])
      BY <3>5 DEF Awaited
    <3>8. ReadOk(y, in[h], peer[h])
      BY <1>2, <1>7, <3>6, <3>7 DEF ReadOk
    <3> QED BY <1>1, <3>1, <3>4, <3>5, <3>8
  <2>2. CASE ~hd[h].is_probed
    <3> DEFINE x == [hd[h] EXCEPT !.is_probed = TRUE]
    <3>1. /\ ProbeHandle(h).found = Kind(Head(in[h])) /\ ProbeHandle(h).in = Tail(in[h])
          /\ ProbeHandle(h).hd = x
      BY <1>7, <2>2 DEF ProbeHandle, ProbeMQTT, Taken
    <3>2. hd[h].header = "no" /\ in[h] # <<>>
      BY <1>2, <1>7, <2>2 DEF HeaderOk, Readable
    <3>3. /\ x \in HandleRec /\ x.header = "no" /\ x.rd = hd[h].rd /\ x.ep = hd[h].ep
          /\ x.is_probed
      BY <1>1, <3>2 DEF HandleRec
    <3> HIDE DEF x
    <3>4. /\ y \in HandleRec /\ y.rd = hd[h].rd /\ y.ep = hd[h].ep /\ y.header = "no"
          /\ y.probed = Kind(Head(in[h])) /\ y.is_probed
      BY <1>3, <1>4, <3>1, <3>3
    <3>5. HeaderOk(y)
      BY <1>4, <1>7, <3>4 DEF HeaderOk
    <3>6. /\ ReadOk(y, Tail(in[h]), peer[h]) /\ Tail(in[h]) \in Seq(Items)
          /\ Kind(Head(in[h])) \in {"data", "eos"}
      BY <1>1, <1>2, <1>7, <3>2, <3>4, <3>5, TakeHeader
    <3> QED BY <3>1, <3>4, <3>6
  <2> QED BY <2>1, <2>2
<1>8. CASE transport = "UCX"
  <2>1. CASE hd[h].header # "no"
    <3>1. ProbeHandle(h).found = hd[h].header /\ ProbeHandle(h).in = in[h] /\ ProbeHandle(h).hd = hd[h]
      BY <1>8, <2>1 DEF ProbeHandle, ProbeUCX
    <3>2. hd[h].header \in Found /\ hd[h].header \in {"data", "eos"}
      BY <1>1, <1>2, <2>1 DEF HandleRec, Found
    <3>3. /\ y \in HandleRec /\ y.rd = hd[h].rd /\ y.ep = hd[h].ep /\ y.header = hd[h].header
          /\ y.probed = hd[h].header
      BY <1>1, <1>3, <3>1, <3>2
    <3>4. HeaderOk(y)
      BY <1>8, <3>3 DEF HeaderOk
    <3>5. Awaited(y) = Awaited(hd[h])
      BY <3>3 DEF Awaited
    <3>6. ReadOk(y, in[h], peer[h])
      BY <1>2, <1>8, <3>4, <3>5 DEF ReadOk
    <3> QED BY <1>1, <3>1, <3>2, <3>3, <3>6
  <2>2. CASE hd[h].header = "no"
    <3> DEFINE x == [hd[h] EXCEPT !.header = Kind(Head(in[h]))]
    <3>1. /\ ProbeHandle(h).found = Kind(Head(in[h])) /\ ProbeHandle(h).in = Tail(in[h])
          /\ ProbeHandle(h).hd = x
      BY <1>8, <2>2 DEF ProbeHandle, ProbeUCX, Taken
    <3>2. in[h] # <<>>
      BY <2>2 DEF Readable
    <3>3. x \in HandleRec /\ x.header = Kind(Head(in[h])) /\ x.rd = hd[h].rd /\ x.ep = hd[h].ep
      BY <1>1, <1>4 DEF HandleRec
    <3> HIDE DEF x
    <3>4. /\ y \in HandleRec /\ y.rd = hd[h].rd /\ y.ep = hd[h].ep
          /\ y.header = Kind(Head(in[h])) /\ y.probed = Kind(Head(in[h]))
      BY <1>3, <1>4, <3>1, <3>3
    <3>5. HeaderOk(y)
      BY <1>8, <3>4 DEF HeaderOk
    <3>6. /\ ReadOk(y, Tail(in[h]), peer[h]) /\ Tail(in[h]) \in Seq(Items)
          /\ Kind(Head(in[h])) \in {"data", "eos"}
      BY <1>1, <1>2, <1>8, <2>2, <3>2, <3>4, <3>5, TakeHeader
    <3> QED BY <3>1, <3>4, <3>6
  <2> QED BY <2>1, <2>2
<1> QED BY <1>1, <1>5, <1>6, <1>7, <1>8 DEF AllTransports

\* A step that reads from one connection.
LEMMA ReadInv ==
  ASSUME CInv, NEW h \in H, NEW y \in HandleRec, NEW s \in Seq(Items), ev' \subseteq H,
         UNCHANGED <<transport, listening, conn, peer, users, tbl, q, io, lock, app>>,
         in' = [in EXCEPT ![h] = s], hd' = [hd EXCEPT ![h] = y], conn[h] = "open", ~hd[h].rd,
         y.rd = hd[h].rd, y.ep = hd[h].ep, ReadOk(y, s, peer[h]),
         "garbage" \notin {y.probed, y.header},
         transport = "MQTT" /\ app.pc = "run" => tbl[h] # "managed"
  PROVE  CInv'
<1>1. in \in [H -> Seq(Items)] /\ hd \in [H -> HandleRec]
  BY DEF CInv, TInv
<1>2. /\ in' \in [H -> Seq(Items)] /\ hd' \in [H -> HandleRec] /\ in'[h] = s /\ hd'[h] = y
      /\ \A g \in H : g # h => in'[g] = in[g] /\ hd'[g] = hd[g]
  BY <1>1
<1>3. \A g \in H : hd'[g].rd = hd[g].rd /\ hd'[g].ep = hd[g].ep
  BY <1>2
<1>4. TInv'
  BY <1>2 DEF CInv, TInv
<1>5. IoOk' /\ EndOk'
  BY DEF CInv, IoOk, EndOk
<1>6. ShakeOk' /\ EpOk'
  BY <1>3, <1>5, GlobalKept
<1>7. ASSUME NEW g \in H, g # h PROVE PlaceOk(g)' /\ StreamOk(g)'
  <2>1. Same(g)
    BY <1>2, <1>7 DEF Same, SameHd, Copies, Yielding
  <2> QED BY <2>1, Kept DEF CInv
<1>8. PlaceOk(h)'
  <2>1. PlaceOk(h)
    BY DEF CInv
  <2>2. Owners(h)' = Owners(h) /\ (Yielding(h)' <=> Yielding(h)) /\ ~hd'[h].rd
    BY <1>2 DEF Owners, Copies, Yielding
  <2> QED BY <2>1, <2>2 DEF PlaceOk
<1>9. StreamOk(h)'
  <2>1. StreamOk(h)
    BY DEF CInv
  <2>2. ReadOk(hd[h], in[h], peer[h])'
    BY <1>2 DEF ReadOk, HeaderOk
  <2>3. "garbage" \notin {hd'[h].probed, hd'[h].header}
    BY <1>2
  <2> QED BY <2>1, <2>2, <2>3 DEF StreamOk
<1> QED BY <1>4, <1>5, <1>6, <1>7, <1>8, <1>9 DEF CInv

LEMMA ReceiveInv ==
  ASSUME CInv, NEW h \in H, Receive(h)
  PROVE  CInv'
<1> DEFINE k == IF Head(in[h]) \in {"payload", "message"} THEN "no" ELSE "garbage"
           y == [ReceiveHandle(h) EXCEPT !.probed = k]
<1>1. /\ UNCHANGED <<transport, listening, conn, peer, users, tbl, q, io, lock, app>>
      /\ Runs(h) \/ (app.pc = "draining" /\ app.h = h)
      /\ ~hd[h].rd /\ hd[h].probed = "data" /\ in[h] # <<>>
      /\ in' = [in EXCEPT ![h] = Tail(in[h])] /\ hd' = [hd EXCEPT ![h] = y]
      /\ ev' \in {ev, ev \ {h}}
  BY DEF Receive, Consumed
<1>2. /\ hd[h] \in HandleRec /\ in[h] \in Seq(Items) /\ StreamOk(h) /\ transport \in AllTransports
      /\ ev \subseteq H
  BY DEF CInv, TInv
<1>3. ReadOk(hd[h], in[h], peer[h]) /\ HeaderOk(hd[h]) /\ hd[h].header # "garbage"
  BY <1>1, <1>2 DEF StreamOk, ReadOk
<1>4. /\ conn[h] = "open"
      /\ app.pc = "run" /\ transport # "SHM" => tbl[h] = "kept"
  BY <1>1, UsedOpen
<1>5. /\ y \in HandleRec /\ y.probed = k /\ y.rd = hd[h].rd /\ y.ep = hd[h].ep
      /\ y.header = (IF transport = "UCX" THEN "no" ELSE hd[h].header)
      /\ transport = "MQTT" => ~y.is_probed
  <2>1. /\ ReceiveHandle(h) \in HandleRec /\ ReceiveHandle(h).rd = hd[h].rd
        /\ ReceiveHandle(h).ep = hd[h].ep
        /\ ReceiveHandle(h).header = (IF transport = "UCX" THEN "no" ELSE hd[h].header)
        /\ transport = "MQTT" => ~ReceiveHandle(h).is_probed
    <3>1. CASE transport = "MQTT"
      BY <1>2, <3>1 DEF ReceiveHandle, ReceiveMQTT, HandleRec
    <3>2. CASE transport = "UCX"
      BY <1>2, <3>2 DEF ReceiveHandle, ReceiveUCX, HandleRec, Found
    <3>3. CASE transport \notin {"MQTT", "UCX"}
      BY <1>2, <3>3 DEF ReceiveHandle
    <3> QED BY <3>1, <3>2, <3>3
  <2>2. k \in Found
    BY DEF Found
  <2> HIDE DEF k
  <2> QED BY <2>1, <2>2 DEF HandleRec
<1>6. y.header = "no"
  BY <1>1, <1>2, <1>3, <1>5 DEF HeaderOk, AllTransports
<1>7. ReadOk(y, Tail(in[h]), peer[h]) /\ Tail(in[h]) \in Seq(Items) /\ k = "no"
  <2>1. CASE transport = "SHM"
    <3>1. in[h] = <<"message">>
      BY <1>1, <1>3, <2>1 DEF ReadOk
    <3>2. Head(in[h]) = "message" /\ Tail(in[h]) = <<>> /\ <<>> \in Seq(Items)
      BY <3>1
    <3>3. k = "no"
      BY <3>2
    <3> HIDE DEF k, y
    <3>4. y.probed = "no"
      BY <1>5, <3>3
    <3> QED BY <1>6, <2>1, <3>2, <3>3, <3>4 DEF ReadOk, HeaderOk
  <2>2. CASE transport # "SHM"
    <3>1. Head(in[h]) = "payload"
      <4>1. Aligned(in[h], Awaited(hd[h]), Owed(peer[h]))
        BY <1>3, <2>2 DEF ReadOk
      <4>2. Awaited(hd[h]) = "payload"
        BY <1>1 DEF Awaited
      <4>3. 1 \in 1 .. Len(in[h]) /\ Head(in[h]) = in[h][1]
        BY <1>1, <1>2
      <4> QED BY <4>1, <4>2, <4>3 DEF Aligned
    <3>2. k = "no"
      BY <3>1
    <3> HIDE DEF k, y
    <3>3. y.probed = "no" /\ HeaderOk(y)
      BY <1>5, <1>6, <3>2 DEF HeaderOk
    <3> QED BY <1>1, <1>2, <1>3, <1>6, <2>2, <3>2, <3>3, TakePayload
  <2> QED BY <2>1, <2>2
<1>8. "garbage" \notin {y.probed, y.header} /\ ev' \subseteq H
  BY <1>1, <1>2, <1>5, <1>6, <1>7
<1> HIDE DEF y, k
<1> QED BY <1>1, <1>4, <1>5, <1>7, <1>8, ReadInv

-----------------------------------------------------------------------------
(* Closing *)

\* notify_close, on handles whose flags are those of e.
Closes(h, e) == /\ tbl' = NotifyClose(h, e).tbl /\ hd' = NotifyClose(h, e).hd

\* What is left of a handle that is closed, in one direction or both.
LEMMA CloseEffect ==
  ASSUME CInv, NEW h \in H, NEW e \in [H -> HandleRec], conn[h] = "open", Closes(h, e),
         UNCHANGED <<transport, conn, io>>, \A g \in H : g # h => e[g] = hd[g],
         hd[h].rd => e[h].rd, e[h].ep = hd[h].ep
  PROVE  /\ tbl' \in [H -> {"absent", "kept", "managed"}] /\ hd' \in [H -> HandleRec]
         /\ EpOk'
         /\ \A g \in H : /\ hd'[g].rd = e[g].rd /\ hd'[g].probed = e[g].probed
                         /\ hd'[g].header = e[g].header /\ hd'[g].is_probed = e[g].is_probed
         /\ \A g \in H : g # h => tbl'[g] = tbl[g]
         /\ tbl'[h] = IF e[h].rd THEN "absent" ELSE tbl[h]
<1>1. /\ tbl \in [H -> {"absent", "kept", "managed"}] /\ hd \in [H -> HandleRec]
      /\ transport \in AllTransports /\ PlaceOk(h)
  BY DEF CInv, TInv
<1>2. /\ [tbl EXCEPT ![h] = "absent"] \in [H -> {"absent", "kept", "managed"}]
      /\ [tbl EXCEPT ![h] = "absent"][h] = "absent"
      /\ \A g \in H : g # h => [tbl EXCEPT ![h] = "absent"][g] = tbl[g]
  BY <1>1
<1>3. hd[h].rd => tbl[h] = "absent"
  BY <1>1 DEF PlaceOk
<1>5. ASSUME transport # "UCX", \A g \in H : hd'[g].rd = e[g].rd /\ hd'[g].ep = e[g].ep
      PROVE  EpOk'
  <2>1. \A g \in H : hd'[g].ep = hd[g].ep /\ (hd[g].rd => hd'[g].rd)
    BY <1>5
  <2> QED BY <1>5, <2>1, Sides DEF CInv, EpOk
<1>6. CASE transport \in {"SHM", "MPI", "MQTT"}
  <2>1. /\ tbl' = IF e[h].rd THEN [tbl EXCEPT ![h] = "absent"] ELSE tbl
        /\ hd' = e
    BY <1>6 DEF Closes, NotifyClose, NotifyCloseSHM, NotifyCloseMPI, NotifyCloseMQTT, Out
  <2>2. EpOk'
    BY <1>5, <1>6, <2>1
  <2>3. /\ tbl' \in [H -> {"absent", "kept", "managed"}] /\ \A g \in H : g # h => tbl'[g] = tbl[g]
        /\ tbl'[h] = IF e[h].rd THEN "absent" ELSE tbl[h]
    BY <1>1, <1>2, <2>1
  <2> QED BY <1>1, <2>1, <2>2, <2>3
<1>7. CASE transport = "UCX"
  <2>1. CASE ~e[h].ep
    <3>1. tbl' = tbl /\ hd' = e
      BY <1>7, <2>1 DEF Closes, NotifyClose, NotifyCloseUCX
    <3>2. hd[h].rd
      BY <1>7, <2>1 DEF CInv, EpOk
    <3>3. tbl[h] = "absent" /\ e[h].rd
      BY <1>3, <3>2
    <3>5. EpOk'
      BY <1>7, <3>1, <3>3 DEF CInv, EpOk
    <3> QED BY <1>1, <3>1, <3>3, <3>5
  <2>2. CASE e[h].ep
    <3> DEFINE x == [e[h] EXCEPT !.ep = ~e[h].rd]
               d == [e EXCEPT ![h] = x]
    <3>1. /\ x \in HandleRec /\ x.rd = e[h].rd /\ x.probed = e[h].probed /\ x.header = e[h].header
          /\ x.is_probed = e[h].is_probed /\ (x.ep <=> ~e[h].rd)
      <4>1. (~e[h].rd) \in BOOLEAN /\ e[h] \in HandleRec
        OBVIOUS
      <4>2. x.ep = ~e[h].rd
        BY <4>1 DEF HandleRec
      <4> QED BY <4>1, <4>2 DEF HandleRec
    <3>2. NotifyClose(h, e) = Out(h, d)
      BY <1>7, <2>2 DEF NotifyClose, NotifyCloseUCX
    <3> HIDE DEF x
    <3>3. d \in [H -> HandleRec] /\ d[h] = x /\ \A g \in H : g # h => d[g] = e[g]
      BY <3>1
    <3> HIDE DEF d
    <3>4. /\ tbl' = IF d[h].rd THEN [tbl EXCEPT ![h] = "absent"] ELSE tbl
          /\ hd' = d
      BY <3>2 DEF Closes, Out
    <3>5. \A g \in H : /\ hd'[g].rd = e[g].rd /\ hd'[g].probed = e[g].probed
                       /\ hd'[g].header = e[g].header /\ hd'[g].is_probed = e[g].is_probed
      BY <3>1, <3>3, <3>4
    <3>7. EpOk'
      BY <1>7, <3>1, <3>3, <3>4 DEF CInv, EpOk
    <3>8. /\ tbl' \in [H -> {"absent", "kept", "managed"}] /\ \A g \in H : g # h => tbl'[g] = tbl[g]
          /\ tbl'[h] = IF e[h].rd THEN "absent" ELSE tbl[h]
      BY <1>1, <1>2, <3>1, <3>3, <3>4
    <3> QED BY <1>1, <3>3, <3>4, <3>5, <3>7, <3>8
  <2> QED BY <2>1, <2>2
<1> QED BY <1>1, <1>6, <1>7 DEF AllTransports

\* A step that closes a handle.
LEMMA CloseInv ==
  ASSUME CInv, NEW h \in H, NEW e \in [H -> HandleRec], conn[h] = "open", Closes(h, e),
         UNCHANGED <<transport, listening, conn, peer, users, q, io, lock>>,
         \A g \in H : g # h => e[g] = hd[g], hd[h].rd => e[h].rd, e[h].ep = hd[h].ep,
         "garbage" \notin {e[h].probed, e[h].header},
         NEW s \in Seq(Items), in' = [in EXCEPT ![h] = s], ev' \subseteq H,
         e[h].rd \/ (s = in[h] /\ e[h].probed = hd[h].probed /\ e[h].header = hd[h].header
                     /\ e[h].is_probed = hd[h].is_probed),
         app' \in AppRec, app.pc # "yield", app'.pc # "yield", app'.pc = "run" => app.pc = "run", EndOk'
  PROVE  CInv'
<1>1. /\ tbl' \in [H -> {"absent", "kept", "managed"}] /\ hd' \in [H -> HandleRec]
      /\ EpOk'
      /\ \A g \in H : /\ hd'[g].rd = e[g].rd /\ hd'[g].probed = e[g].probed
                      /\ hd'[g].header = e[g].header /\ hd'[g].is_probed = e[g].is_probed
      /\ \A g \in H : g # h => tbl'[g] = tbl[g]
      /\ tbl'[h] = IF e[h].rd THEN "absent" ELSE tbl[h]
  BY CloseEffect
<1>2. in \in [H -> Seq(Items)]
  BY DEF CInv, TInv
<1>3. in' \in [H -> Seq(Items)] /\ in'[h] = s /\ \A g \in H : g # h => in'[g] = in[g]
  BY <1>2
<1>4. TInv'
  BY <1>1, <1>3 DEF CInv, TInv
<1>5. IoOk' /\ ShakeOk'
  BY DEF CInv, IoOk, ShakeOk, Shaking
<1>6. \A g \in H : ~Yielding(g) /\ ~Yielding(g)' /\ Copies(g)' = Copies(g)
  BY DEF Yielding, Copies
<1>7. ASSUME NEW g \in H, g # h \/ ~e[h].rd PROVE PlaceOk(g)' /\ StreamOk(g)'
  <2>1. SameHd(g) /\ tbl'[g] = tbl[g] /\ in'[g] = in[g]
    <3>1. CASE g # h
      BY <1>1, <1>3, <3>1 DEF SameHd
    <3>2. CASE g = h
      <4>1. ~e[h].rd /\ hd[h] \in HandleRec /\ e[h] \in HandleRec
        BY <1>7, <3>2 DEF CInv, TInv
      <4>2. e[h].rd = hd[h].rd
        BY <4>1 DEF HandleRec
      <4> QED BY <1>1, <1>3, <3>2, <4>1, <4>2 DEF SameHd
    <3> QED BY <3>1, <3>2
  <2>2. Same(g)
    BY <1>6, <2>1 DEF Same
  <2> QED BY <2>2, Kept DEF CInv
<1>8. ASSUME e[h].rd PROVE PlaceOk(h)' /\ StreamOk(h)'
  <2>1. hd'[h].rd /\ tbl'[h] = "absent" /\ conn'[h] = "open"
    BY <1>1, <1>8
  <2>2. PlaceOk(h)'
    BY <1>6, <2>1 DEF PlaceOk
  <2>3. StreamOk(h) /\ "garbage" \notin {hd'[h].probed, hd'[h].header}
    BY <1>1 DEF CInv
  <2>4. StreamOk(h)'
    BY <2>1, <2>3 DEF StreamOk
  <2> QED BY <2>2, <2>4
<1> QED BY <1>1, <1>4, <1>5, <1>7, <1>8 DEF CInv

\* Handle::close of the read side.
LEMMA CloseRead ==
  ASSUME CInv, NEW h \in H, NEW d \in [H -> HandleRec], conn[h] = "open", CloseHandle(h, d, FALSE, TRUE),
         UNCHANGED <<transport, listening, conn, peer, users, q, io, lock>>,
         \A g \in H : g # h => d[g] = hd[g], d[h].ep = hd[h].ep,
         "garbage" \notin {d[h].probed, d[h].header},
         NEW s \in Seq(Items), in' = [in EXCEPT ![h] = s], ev' \subseteq H,
         app' \in AppRec, app.pc # "yield", app'.pc # "yield", app'.pc = "run" => app.pc = "run", EndOk'
  PROVE  CInv'
<1> DEFINE x == [d[h] EXCEPT !.rd = TRUE]
           e == [d EXCEPT ![h] = x]
<1>1. Closes(h, e)
  <2>1. d[h] \in HandleRec
    OBVIOUS
  <2>2. [[[d[h] EXCEPT !.wr = @ \/ FALSE] EXCEPT !.rd = @ \/ TRUE] EXCEPT
           !.eos = IF FALSE /\ ~d[h].wr THEN SendEOS(d[h]) ELSE @] = x
    BY <2>1 DEF HandleRec
  <2>3. [d EXCEPT ![h].wr = @ \/ FALSE, ![h].rd = @ \/ TRUE,
                  ![h].eos = IF FALSE /\ ~d[h].wr THEN SendEOS(d[h]) ELSE @] = e
    BY <2>2
  <2> QED BY <2>3 DEF CloseHandle, Closes
<1>2. /\ x \in HandleRec /\ x.ep = d[h].ep /\ x.probed = d[h].probed /\ x.header = d[h].header
      /\ x.rd
  <2>1. d[h] \in HandleRec
    OBVIOUS
  <2> QED BY <2>1 DEF HandleRec
<1> HIDE DEF x
<1>3. e \in [H -> HandleRec] /\ e[h] = x /\ \A g \in H : g # h => e[g] = hd[g]
  BY <1>2
<1> HIDE DEF e
<1>4. e[h].rd /\ e[h].ep = hd[h].ep /\ "garbage" \notin {e[h].probed, e[h].header}
  BY <1>2, <1>3
<1> QED BY <1>1, <1>3, <1>4, CloseInv

\* Handle::close of the write side.
LEMMA CloseWrite ==
  ASSUME CInv, NEW h \in H, conn[h] = "open", CloseHandle(h, hd, TRUE, FALSE),
         UNCHANGED <<transport, listening, conn, in, peer, users, q, io, lock, ev>>,
         app' \in AppRec, app.pc # "yield", app'.pc # "yield", app'.pc = "run" => app.pc = "run", EndOk'
  PROVE  CInv'
<1> DEFINE end == IF ~hd[h].wr THEN SendEOS(hd[h]) ELSE hd[h].eos
           x == [hd[h] EXCEPT !.wr = TRUE, !.eos = end]
           e == [hd EXCEPT ![h] = x]
<1>1. hd \in [H -> HandleRec] /\ in \in [H -> Seq(Items)] /\ ev \subseteq H /\ StreamOk(h)
  BY DEF CInv, TInv
<1>2. Closes(h, e)
  <2>1. hd[h] \in HandleRec
    BY <1>1
  <2>2. [[[hd[h] EXCEPT !.wr = @ \/ TRUE] EXCEPT !.rd = @ \/ FALSE] EXCEPT
           !.eos = IF TRUE /\ ~hd[h].wr THEN SendEOS(hd[h]) ELSE @] = x
    BY <2>1 DEF HandleRec
  <2>3. [hd EXCEPT ![h].wr = @ \/ TRUE, ![h].rd = @ \/ FALSE,
                   ![h].eos = IF TRUE /\ ~hd[h].wr THEN SendEOS(hd[h]) ELSE @] = e
    <3>1. PICK y : y = x
      OBVIOUS
    <3>2. PICK d \in [H -> HandleRec] : d = hd
      BY <1>1
    <3> HIDE DEF x
    <3>3. [d EXCEPT ![h].wr = @ \/ TRUE, ![h].rd = @ \/ FALSE,
                    ![h].eos = IF TRUE /\ ~d[h].wr THEN SendEOS(d[h]) ELSE @] = [d EXCEPT ![h] = y]
      <4> DEFINE a == [d EXCEPT ![h].wr = @ \/ TRUE]
                 b == [a EXCEPT ![h].rd = @ \/ FALSE]
                 c == IF TRUE /\ ~d[h].wr THEN SendEOS(d[h]) ELSE b[h].eos
                 z == [[[d[h] EXCEPT !.wr = @ \/ TRUE] EXCEPT !.rd = @ \/ FALSE] EXCEPT
                         !.eos = IF TRUE /\ ~d[h].wr THEN SendEOS(d[h]) ELSE @]
      <4>1. a[h] = [d[h] EXCEPT !.wr = @ \/ TRUE] /\ DOMAIN a = H /\ \A g \in H : g # h => a[g] = d[g]
        OBVIOUS
      <4>2. b[h] = [a[h] EXCEPT !.rd = @ \/ FALSE] /\ DOMAIN b = H /\ \A g \in H : g # h => b[g] = d[g]
        BY <4>1
      <4>3. [b EXCEPT ![h].eos = c] = [d EXCEPT ![h] = [b[h] EXCEPT !.eos = c]]
        <5> HIDE DEF c, b
        <5> QED BY <4>2
      <4>4. [b[h] EXCEPT !.eos = c] = z
        BY <4>1, <4>2
      <4>5. z = y
        BY <2>2, <3>1, <3>2
      <4>6. [d EXCEPT ![h].wr = @ \/ TRUE, ![h].rd = @ \/ FALSE,
                      ![h].eos = IF TRUE /\ ~d[h].wr THEN SendEOS(d[h]) ELSE @] = [b EXCEPT ![h].eos = c]
        OBVIOUS
      <4> HIDE DEF a, b, c, z
      <4> QED BY <4>3, <4>4, <4>5, <4>6
    <3> QED BY <3>1, <3>2, <3>3
  <2> QED BY <2>3 DEF CloseHandle, Closes
<1>3. /\ x \in HandleRec /\ x.ep = hd[h].ep /\ x.probed = hd[h].probed /\ x.header = hd[h].header
      /\ x.rd = hd[h].rd /\ x.is_probed = hd[h].is_probed
  <2>1. hd[h] \in HandleRec
    BY <1>1
  <2>2. end \in {"no", "sent", "late"}
    BY <2>1 DEF SendEOS, HandleRec
  <2> HIDE DEF end
  <2> QED BY <2>1, <2>2 DEF HandleRec
<1> HIDE DEF x
<1>4. e \in [H -> HandleRec] /\ e[h] = x /\ \A g \in H : g # h => e[g] = hd[g]
  BY <1>1, <1>3
<1> HIDE DEF e
<1>5. /\ hd[h].rd => e[h].rd
      /\ e[h].ep = hd[h].ep /\ e[h].probed = hd[h].probed
      /\ e[h].header = hd[h].header /\ e[h].is_probed = hd[h].is_probed
      /\ "garbage" \notin {e[h].probed, e[h].header}
  BY <1>1, <1>3, <1>4 DEF StreamOk
<1>6. in[h] \in Seq(Items) /\ in' = [in EXCEPT ![h] = in[h]] /\ ev' \subseteq H
  BY <1>1
<1> QED BY <1>2, <1>4, <1>5, <1>6, CloseInv

LEMMA ProbeInv ==
  ASSUME CInv, NEW h \in H, Probe(h)
  PROVE  CInv'
<1> DEFINE r == ProbeHandle(h)
           y == [r.hd EXCEPT !.probed = r.found]
           d == [hd EXCEPT ![h] = y]
<1>1. /\ UNCHANGED <<transport, listening, conn, peer, users, q, io, lock, app>>
      /\ Runs(h) \/ (app.pc = "draining" /\ app.h = h)
      /\ ~hd[h].rd /\ hd[h].probed = "no" /\ Readable(h)
      /\ in' = [in EXCEPT ![h] = r.in]
      /\ IF r.found = "eos" /\ app.pc = "run" THEN CloseHandle(h, d, FALSE, TRUE)
         ELSE hd' = d /\ UNCHANGED tbl
      /\ ev' \in {ev, ev \ {h}}
  BY DEF Probe, Consumed
<1>2. /\ y \in HandleRec /\ y.rd = hd[h].rd /\ y.ep = hd[h].ep
      /\ r.in \in Seq(Items) /\ ReadOk(y, r.in, peer[h])
      /\ "garbage" \notin {y.probed, y.header}
  BY <1>1, ProbeEffect
<1>3. /\ conn[h] = "open" /\ app.pc \in {"run", "draining"}
      /\ app.pc = "run" /\ transport # "SHM" => tbl[h] = "kept"
  BY <1>1, UsedOpen DEF Runs
<1>4. ev' \subseteq H /\ hd \in [H -> HandleRec] /\ app \in AppRec /\ EndOk
  BY <1>1 DEF CInv, TInv
<1> DEFINE s == r.in
<1>5. s \in Seq(Items) /\ in' = [in EXCEPT ![h] = s] /\ ReadOk(y, s, peer[h])
  BY <1>1, <1>2
<1> HIDE DEF s, y, r
<1>6. CASE hd' = d /\ UNCHANGED tbl
  BY <1>1, <1>2, <1>3, <1>4, <1>5, <1>6, ReadInv
<1>7. CASE CloseHandle(h, d, FALSE, TRUE)
  <2>1. d \in [H -> HandleRec] /\ d[h] = y /\ \A g \in H : g # h => d[g] = hd[g]
    BY <1>2, <1>4
  <2> HIDE DEF d
  <2>2. EndOk' /\ app' \in AppRec
    BY <1>1, <1>4 DEF EndOk
  <2> QED BY <1>1, <1>2, <1>3, <1>4, <1>5, <1>7, <2>1, <2>2, CloseRead
<1> QED BY <1>1, <1>6, <1>7

\* HandleUser::close.
LEMMA UserCloseInv ==
  ASSUME CInv, NEW h \in H, Close(h)
  PROVE  CInv'
<1>1. /\ Runs(h) /\ CloseHandle(h, hd, TRUE, FALSE)
      /\ UNCHANGED <<transport, listening, conn, in, peer, users, q, io, lock, app, ev>>
  BY DEF Close
<1>2. conn[h] = "open" /\ app.pc = "run"
  BY <1>1, UsedOpen DEF Runs
<1>3. app' \in AppRec /\ EndOk'
  BY <1>1 DEF CInv, TInv, EndOk
<1> QED BY <1>1, <1>2, <1>3, CloseWrite

\* The two halves of setAsClosed.
LEMMA SetAsClosedInv ==
  ASSUME CInv, NEW h \in H, SetAsClosed(h)
  PROVE  CInv'
<1>1. /\ app.pc = "closing" /\ h \in app.todo /\ CloseHandle(h, hd, TRUE, FALSE)
      /\ app' = [app EXCEPT !.pc = "draining", !.h = h]
      /\ UNCHANGED <<transport, listening, conn, in, peer, users, q, io, lock, ev>>
  BY DEF SetAsClosed
<1>2. app \in AppRec /\ EndOk
  BY DEF CInv, TInv
<1>3. app' \in AppRec /\ app'.pc = "draining" /\ app'.h = h /\ app'.todo = app.todo
  BY <1>1, <1>2 DEF AppRec
<1>4. conn[h] = "open" /\ EndOk'
  BY <1>1, <1>2, <1>3 DEF EndOk
<1> QED BY <1>1, <1>3, <1>4, CloseWrite

LEMMA DrainedInv ==
  ASSUME CInv, Drained
  PROVE  CInv'
<1>1. /\ app.pc = "draining" /\ CloseHandle(app.h, hd, FALSE, TRUE)
      /\ app' = [app EXCEPT !.pc = "closing", !.h = NoH, !.todo = app.todo \ {app.h}]
      /\ UNCHANGED <<transport, listening, conn, in, peer, users, q, io, lock, ev>>
  BY DEF Drained
<1>2. /\ app \in AppRec /\ EndOk /\ hd \in [H -> HandleRec] /\ in \in [H -> Seq(Items)]
      /\ ev \subseteq H
  BY DEF CInv, TInv
<1>3. app.h \in app.todo /\ app.todo \subseteq H
  BY <1>1, <1>2 DEF EndOk, AppRec
<1>4. PICK h \in H : h = app.h
  BY <1>3
<1>5. app' \in AppRec /\ app'.pc = "closing" /\ app'.todo = app.todo \ {h}
  BY <1>1, <1>2, <1>4 DEF AppRec
<1>6. conn[h] = "open" /\ EndOk'
  BY <1>1, <1>2, <1>3, <1>4, <1>5 DEF EndOk
<1>7. StreamOk(h) /\ in[h] \in Seq(Items) /\ in' = [in EXCEPT ![h] = in[h]] /\ ev' \subseteq H
  BY <1>1, <1>2 DEF CInv
<1>8. "garbage" \notin {hd[h].probed, hd[h].header}
  BY <1>7 DEF StreamOk
<1> QED BY <1>1, <1>2, <1>4, <1>5, <1>6, <1>7, <1>8, CloseRead

-----------------------------------------------------------------------------
(* The application *)

\* A step that is about one handle.
LEMMA OneHandle ==
  ASSUME CInv, NEW h \in H, TInv', EndOk', UNCHANGED <<transport, conn, peer, io>>,
         \A g \in H : hd'[g].rd = hd[g].rd /\ hd'[g].ep = hd[g].ep,
         \A g \in H : g # h => Same(g), PlaceOk(h)', StreamOk(h)',
         transport = "MQTT" /\ app'.pc = "run" => app.pc = "run"
  PROVE  CInv'
<1>1. IoOk'
  BY DEF CInv, IoOk
<1>2. ShakeOk' /\ EpOk'
  BY <1>1, GlobalKept
<1>3. ASSUME NEW g \in H PROVE PlaceOk(g)' /\ StreamOk(g)'
  <2>1. CASE g = h
    BY <2>1
  <2>2. CASE g # h
    <3>1. Same(g)
      BY <2>2
    <3> QED BY <3>1, Kept DEF CInv
  <2> QED BY <2>1, <2>2
<1> QED BY <1>1, <1>2, <1>3 DEF CInv

\* A step that changes who has a handle, and nothing of its stream.
LEMMA OwnerInv ==
  ASSUME CInv, NEW h \in H, UNCHANGED <<transport, listening, conn, in, peer, hd, io, lock, ev>>,
         q' \in Seq(H \X BOOLEAN), users' \in [H -> Nat], app' \in AppRec, EndOk',
         tbl' \in [H -> {"absent", "kept", "managed"}],
         \A g \in H : g # h => /\ tbl'[g] = tbl[g] /\ users'[g] = users[g] /\ Copies(g)' = Copies(g)
                               /\ Yielding(g)' <=> Yielding(g),
         PlaceOk(h)', transport = "MQTT" /\ app'.pc = "run" => app.pc = "run",
         transport = "MQTT" /\ tbl'[h] = "managed" => tbl[h] = "managed" \/ ~hd[h].is_probed
  PROVE  CInv'
<1>1. TInv'
  BY DEF CInv, TInv
<1>2. \A g \in H : g # h => Same(g)
  BY DEF Same, SameHd
<1>3. StreamOk(h)'
  <2>1. StreamOk(h)
    BY DEF CInv
  <2>2. ReadOk(hd[h], in[h], peer[h]) => ReadOk(hd[h], in[h], peer[h])'
    BY DEF ReadOk, HeaderOk
  <2> QED BY <2>1, <2>2 DEF StreamOk
<1> QED BY <1>1, <1>2, <1>3, OneHandle

LEMMA GetNextInv ==
  ASSUME CInv, GetNext
  PROVE  CInv'
<1>1. /\ UNCHANGED <<transport, listening, conn, in, peer, hd, tbl, io, lock, app, ev>>
      /\ q # <<>> /\ q' = Tail(q) /\ users' = [users EXCEPT ![Head(q)[1]] = @ + 1]
  BY DEF GetNext
<1>2. /\ q' \in Seq(H \X BOOLEAN) /\ Head(q)[1] \in H
      /\ \A g \in H : Copies(g) = Copies(g)' + (IF g = Head(q)[1] THEN 1 ELSE 0)
      /\ \A g \in H : Copies(g)' \in Nat
  BY <1>1, CopiesTail DEF CInv
<1>3. PICK h \in H : h = Head(q)[1]
  BY <1>2
<1>4. users \in [H -> Nat] /\ app \in AppRec /\ EndOk /\ PlaceOk(h) /\ tbl \in [H -> {"absent", "kept", "managed"}]
  BY DEF CInv, TInv
<1>5. users' \in [H -> Nat] /\ users'[h] = users[h] + 1 /\ \A g \in H : g # h => users'[g] = users[g]
  BY <1>1, <1>3, <1>4
<1>6. Copies(h) = Copies(h)' + 1 /\ Copies(h)' \in Nat /\ \A g \in H : g # h => Copies(g)' = Copies(g)
  BY <1>2, <1>3
<1>7. \A g \in H : Yielding(g)' <=> Yielding(g)
  BY <1>1 DEF Yielding
<1>8. PlaceOk(h)'
  <2>1. conn[h] = "open"
    <3>1. Copies(h) # 0 /\ conn[h] \in {"free", "asked", "accepting", "open"}
      BY <1>6 DEF CInv, TInv
    <3> QED BY <1>4, <3>1 DEF PlaceOk, Unused
  <2>2. Owners(h)' = Owners(h)
    <3>1. Copies(h)' + users'[h] = Copies(h) + users[h]
      BY <1>4, <1>5, <1>6
    <3>2. tbl'[h] = tbl[h] /\ (Yielding(h)' <=> Yielding(h))
      BY <1>1, <1>7
    <3> QED BY <3>1, <3>2 DEF Owners
  <2> QED BY <1>1, <1>4, <1>7, <2>1, <2>2 DEF PlaceOk
<1>9. EndOk'
  BY <1>1, <1>4 DEF EndOk
<1> QED BY <1>1, <1>2, <1>4, <1>5, <1>6, <1>7, <1>8, <1>9, OwnerInv

\* A HandleUser ends.
LEMMA OneUserLess ==
  ASSUME CInv, NEW h \in H, Runs(h), users' = [users EXCEPT ![h] = @ - 1]
  PROVE  /\ users' \in [H -> Nat] /\ users'[h] = users[h] - 1 /\ users[h] \in Nat /\ users[h] > 0
         /\ \A g \in H : g # h => users'[g] = users[g]
  BY DEF CInv, TInv, Runs

LEMMA DropInv ==
  ASSUME CInv, NEW h \in H, Drop(h)
  PROVE  CInv'
<1>1. /\ UNCHANGED <<transport, listening, conn, in, peer, hd, tbl, q, io, lock, app, ev>>
      /\ Runs(h) /\ hd[h].rd /\ users' = [users EXCEPT ![h] = @ - 1]
  BY DEF Drop
<1>2. users' \in [H -> Nat] /\ \A g \in H : g # h => users'[g] = users[g]
  BY <1>1, OneUserLess
<1>3. /\ app \in AppRec /\ EndOk /\ PlaceOk(h) /\ tbl \in [H -> {"absent", "kept", "managed"}]
      /\ q \in Seq(H \X BOOLEAN)
  BY DEF CInv, TInv
<1>4. conn[h] = "open"
  BY <1>1, UsedOpen
<1>5. \A g \in H : (Yielding(g)' <=> Yielding(g)) /\ Copies(g)' = Copies(g)
  BY <1>1 DEF Yielding, Copies
<1>6. PlaceOk(h)' /\ EndOk'
  BY <1>1, <1>3, <1>4, <1>5 DEF PlaceOk, EndOk
<1> QED BY <1>1, <1>2, <1>3, <1>5, <1>6, OwnerInv

\* notify_yield sets the flag.
LEMMA ManageInv ==
  ASSUME CInv, NEW h \in H, Yields(h), Manage(h),
         UNCHANGED <<transport, listening, conn, in, peer, hd, q, io, lock, app, ev>>,
         transport = "MQTT" => ~hd[h].is_probed
  PROVE  CInv'
<1>1. Runs(h) /\ ~hd[h].rd /\ users' = [users EXCEPT ![h] = @ - 1]
  BY DEF Yields
<1>2. /\ users' \in [H -> Nat] /\ users'[h] = users[h] - 1 /\ users[h] \in Nat /\ users[h] > 0
      /\ \A g \in H : g # h => users'[g] = users[g]
  BY <1>1, OneUserLess
<1>3. /\ app \in AppRec /\ EndOk /\ PlaceOk(h) /\ tbl \in [H -> {"absent", "kept", "managed"}]
      /\ q \in Seq(H \X BOOLEAN)
  BY DEF CInv, TInv
<1>4. /\ conn[h] = "open" /\ ~Yielding(h)
      /\ transport # "SHM" => Copies(h) = 0 /\ users[h] = 1
  BY <1>1, UsedOpen DEF Runs
<1>5. tbl[h] # "absent"
  BY <1>1, <1>3, <1>4 DEF PlaceOk
<1>6. /\ tbl' \in [H -> {"absent", "kept", "managed"}] /\ tbl'[h] = "managed"
      /\ \A g \in H : g # h => tbl'[g] = tbl[g]
  BY <1>3, <1>5 DEF Manage
<1>7. \A g \in H : (Yielding(g)' <=> Yielding(g)) /\ Copies(g)' = Copies(g)
  BY DEF Yielding, Copies
<1>8. transport # "SHM" => Owners(h)' = 1
  BY <1>2, <1>4, <1>6, <1>7 DEF Owners
<1>9. PlaceOk(h)' /\ EndOk'
  BY <1>1, <1>3, <1>4, <1>6, <1>7, <1>8 DEF PlaceOk, EndOk
<1> QED BY <1>2, <1>3, <1>6, <1>7, <1>9, OwnerInv

LEMMA YieldInv ==
  ASSUME CInv, NEW h \in H, YieldSHM(h) \/ YieldMPI(h)
  PROVE  CInv'
<1>1. /\ Yields(h) /\ Manage(h) /\ transport # "MQTT"
      /\ UNCHANGED <<transport, listening, conn, in, peer, hd, q, io, lock, app, ev>>
  BY DEF YieldSHM, YieldMPI
<1> QED BY <1>1, ManageInv

\* A handle goes back to the queue when something was read ahead.
LEMMA YieldMQTTInv ==
  ASSUME CInv, NEW h \in H, YieldMQTT(h)
  PROVE  CInv'
<1>1. /\ Yields(h) /\ transport = "MQTT"
      /\ UNCHANGED <<transport, listening, conn, in, peer, hd, io, lock, app, ev>>
      /\ \/ hd[h].is_probed /\ q' = addinQ({h}) /\ tbl' = tbl
         \/ ~hd[h].is_probed /\ Manage(h) /\ q' = q
  BY DEF YieldMQTT
<1>2. CASE ~hd[h].is_probed /\ Manage(h) /\ q' = q
  BY <1>1, <1>2, ManageInv
<1>3. CASE hd[h].is_probed /\ q' = addinQ({h}) /\ tbl' = tbl
  <2>1. Runs(h) /\ ~hd[h].rd /\ users' = [users EXCEPT ![h] = @ - 1]
    BY <1>1 DEF Yields
  <2>2. /\ users' \in [H -> Nat] /\ users'[h] = users[h] - 1
        /\ \A g \in H : g # h => users'[g] = users[g]
    BY <2>1, OneUserLess
  <2>3. /\ app \in AppRec /\ EndOk /\ PlaceOk(h) /\ tbl \in [H -> {"absent", "kept", "managed"}]
    BY DEF CInv, TInv
  <2>4. /\ conn[h] = "open" /\ ~Yielding(h) /\ Copies(h) = 0 /\ users[h] = 1 /\ tbl[h] = "kept"
    BY <1>1, <2>1, UsedOpen DEF Runs
  <2>5. q' \in Seq(H \X BOOLEAN) /\ \A g \in H : Copies(g)' = Copies(g) + (IF g \in {h} THEN 1 ELSE 0)
    <3>1. {h} \in SUBSET H
      OBVIOUS
    <3> QED BY <1>3, <3>1, CopiesQueue DEF CInv
  <2>6. Copies(h)' = 1 /\ \A g \in H : g # h => Copies(g)' = Copies(g)
    BY <2>4, <2>5, CopiesNat DEF CInv
  <2>7. \A g \in H : Yielding(g)' <=> Yielding(g)
    BY <1>1 DEF Yielding
  <2>8. Owners(h)' = 1
    BY <1>3, <2>2, <2>4, <2>6, <2>7 DEF Owners
  <2>9. PlaceOk(h)' /\ EndOk'
    BY <1>1, <1>3, <2>1, <2>3, <2>4, <2>7, <2>8 DEF PlaceOk, EndOk
  <2> QED BY <1>1, <1>3, <2>2, <2>3, <2>5, <2>6, <2>7, <2>9, OwnerInv
<1> QED BY <1>1, <1>2, <1>3

\* A yield of UCX, first half: a header that has come is kept, and the handle
\* queued; otherwise the handle is on its way to the runtime.
LEMMA YieldUCXInv ==
  ASSUME CInv, NEW h \in H, YieldUCX(h)
  PROVE  CInv'
<1>1. /\ transport = "UCX" /\ Runs(h) /\ ~hd[h].rd /\ users' = [users EXCEPT ![h] = @ - 1]
      /\ UNCHANGED <<transport, listening, conn, peer, tbl, io, lock>>
      /\ ev' \in {ev, ev \ {h}}
      /\ \/ /\ Readable(h) /\ q' = addinQ({h}) /\ app' = app
            /\ in' = [in EXCEPT ![h] = ProbeUCX(h).in]
            /\ hd' = [hd EXCEPT ![h] = ProbeUCX(h).hd]
         \/ /\ app' = [app EXCEPT !.pc = "yield", !.h = h]
            /\ q' = q /\ in' = in /\ hd' = hd
  BY DEF YieldUCX, Yields, Consumed
<1>2. /\ users' \in [H -> Nat] /\ users'[h] = users[h] - 1
      /\ \A g \in H : g # h => users'[g] = users[g]
  BY <1>1, OneUserLess
<1>3. /\ app \in AppRec /\ EndOk /\ PlaceOk(h) /\ StreamOk(h) /\ ev' \subseteq H
      /\ tbl \in [H -> {"absent", "kept", "managed"}] /\ in \in [H -> Seq(Items)]
      /\ hd \in [H -> HandleRec] /\ q \in Seq(H \X BOOLEAN)
  BY <1>1 DEF CInv, TInv
<1>4. /\ conn[h] = "open" /\ ~Yielding(h) /\ Copies(h) = 0 /\ users[h] = 1 /\ tbl[h] = "kept"
      /\ app.pc = "run"
  BY <1>1, UsedOpen DEF Runs
<1>5. CASE /\ Readable(h) /\ q' = addinQ({h}) /\ app' = app
           /\ in' = [in EXCEPT ![h] = ProbeUCX(h).in]
           /\ hd' = [hd EXCEPT ![h] = ProbeUCX(h).hd]
  <2> DEFINE y == ProbeUCX(h).hd
             s == ProbeUCX(h).in
  <2>1. /\ y \in HandleRec /\ y.rd = hd[h].rd /\ y.ep = hd[h].ep /\ s \in Seq(Items)
        /\ ReadOk(y, s, peer[h]) /\ "garbage" \notin {y.probed, y.header}
    <3>1. ReadOk(hd[h], in[h], peer[h]) /\ HeaderOk(hd[h]) /\ "garbage" \notin {hd[h].probed, hd[h].header}
      BY <1>1, <1>3 DEF StreamOk, ReadOk
    <3>2. CASE hd[h].header # "no"
      <4>1. y = hd[h] /\ s = in[h]
        BY <3>2 DEF ProbeUCX
      <4> QED BY <1>3, <3>1, <4>1
    <3>3. CASE hd[h].header = "no"
      <4>1. y = [hd[h] EXCEPT !.header = Kind(Head(in[h]))] /\ s = Tail(in[h])
        BY <3>3 DEF ProbeUCX, Taken
      <4>2. in[h] # <<>> /\ hd[h].probed = "no"
        BY <1>1, <1>5, <3>1, <3>3 DEF Readable, HeaderOk
      <4>3. Kind(Head(in[h])) \in Found
        BY DEF Kind, Found
      <4>4. /\ y \in HandleRec /\ y.rd = hd[h].rd /\ y.ep = hd[h].ep /\ y.probed = "no"
            /\ y.header = Kind(Head(in[h]))
        <5>1. hd[h] \in HandleRec
          BY <1>3
        <5>2. PICK k \in Found : k = Kind(Head(in[h]))
          BY <4>3
        <5>3. y = [hd[h] EXCEPT !.header = k]
          BY <4>1, <5>2
        <5> HIDE DEF y
        <5> QED BY <4>2, <5>1, <5>2, <5>3 DEF HandleRec
      <4> HIDE DEF y, s
      <4>5. HeaderOk(y)
        BY <1>1, <4>4 DEF HeaderOk
      <4>6. in[h] \in Seq(Items)
        BY <1>3
      <4>7. /\ ReadOk(y, Tail(in[h]), peer[h]) /\ Tail(in[h]) \in Seq(Items)
            /\ Kind(Head(in[h])) \in {"data", "eos"}
        BY <1>1, <3>1, <3>3, <4>2, <4>4, <4>5, <4>6, TakeHeader
      <4> QED BY <4>1, <4>4, <4>7
    <3> QED BY <3>2, <3>3
  <2> HIDE DEF y, s
  <2>2. /\ in' \in [H -> Seq(Items)] /\ hd' \in [H -> HandleRec] /\ in'[h] = s /\ hd'[h] = y
        /\ \A g \in H : g # h => in'[g] = in[g] /\ hd'[g] = hd[g]
    BY <1>3, <1>5, <2>1 DEF y, s
  <2>3. q' \in Seq(H \X BOOLEAN) /\ \A g \in H : Copies(g)' = Copies(g) + (IF g \in {h} THEN 1 ELSE 0)
    <3>1. {h} \in SUBSET H
      OBVIOUS
    <3> QED BY <1>5, <3>1, CopiesQueue DEF CInv
  <2>4. Copies(h)' = 1 /\ \A g \in H : g # h => Copies(g)' = Copies(g)
    BY <1>4, <2>3, CopiesNat DEF CInv
  <2>5. \A g \in H : Yielding(g)' <=> Yielding(g)
    BY <1>5 DEF Yielding
  <2>6. TInv' /\ EndOk'
    <3>1. EndOk'
      BY <1>1, <1>3, <1>5 DEF EndOk
    <3>2. TInv'
      BY <1>1, <1>2, <1>3, <1>5, <2>2, <2>3 DEF CInv, TInv
    <3> QED BY <3>1, <3>2
  <2>7. \A g \in H : hd'[g].rd = hd[g].rd /\ hd'[g].ep = hd[g].ep
    BY <2>1, <2>2
  <2>8. \A g \in H : g # h => Same(g)
    BY <1>1, <1>2, <2>2, <2>4, <2>5 DEF Same, SameHd
  <2>9. PlaceOk(h)'
    <3>1. Owners(h)' = 1 /\ ~hd'[h].rd /\ ~Yielding(h)'
      BY <1>1, <1>2, <1>4, <2>4, <2>5, <2>7 DEF Owners
    <3> QED BY <1>1, <1>4, <3>1 DEF PlaceOk
  <2>10. StreamOk(h)'
    <3>1. ReadOk(hd[h], in[h], peer[h])' /\ "garbage" \notin {hd'[h].probed, hd'[h].header}
      BY <1>1, <2>1, <2>2 DEF ReadOk, HeaderOk
    <3> QED BY <1>1, <1>3, <3>1 DEF StreamOk
  <2> QED BY <1>1, <2>6, <2>7, <2>8, <2>9, <2>10, OneHandle
<1>6. CASE /\ app' = [app EXCEPT !.pc = "yield", !.h = h]
           /\ q' = q /\ in' = in /\ hd' = hd
  <2>1. app' \in AppRec /\ app'.pc = "yield" /\ app'.h = h
    BY <1>3, <1>6 DEF AppRec
  <2>2. \A g \in H : Copies(g)' = Copies(g) /\ (g # h => ~Yielding(g) /\ ~Yielding(g)')
    BY <1>4, <1>6, <2>1 DEF Copies, Yielding
  <2>3. TInv' /\ EndOk'
    <3>1. EndOk'
      BY <1>1, <2>1 DEF EndOk
    <3>2. TInv'
      BY <1>1, <1>2, <1>3, <1>6, <2>1 DEF CInv, TInv
    <3> QED BY <3>1, <3>2
  <2>4. \A g \in H : g # h => Same(g)
    BY <1>1, <1>2, <1>6, <2>2 DEF Same, SameHd
  <2>5. PlaceOk(h)'
    <3>1. Yielding(h)'
      BY <2>1 DEF Yielding
    <3>2. Owners(h)' = 1
      BY <1>2, <1>4, <2>2, <3>1 DEF Owners
    <3> QED BY <1>1, <1>4, <1>6, <3>1, <3>2 DEF PlaceOk
  <2>6. StreamOk(h)'
    <3>1. ReadOk(hd[h], in[h], peer[h]) => ReadOk(hd[h], in[h], peer[h])'
      BY <1>1, <1>6 DEF ReadOk, HeaderOk
    <3> QED BY <1>1, <1>3, <1>6, <3>1 DEF StreamOk
  <2> QED BY <1>1, <1>6, <2>3, <2>4, <2>5, <2>6, OneHandle
<1> QED BY <1>1, <1>5, <1>6

\* Second half: the runtime manages the handle.
LEMMA YieldUCXEndInv ==
  ASSUME CInv, YieldUCXEnd
  PROVE  CInv'
<1>1. /\ app.pc = "yield" /\ Manage(app.h) /\ app' = [app EXCEPT !.pc = "run", !.h = NoH]
      /\ UNCHANGED <<transport, listening, conn, in, peer, hd, users, q, io, lock, ev>>
  BY DEF YieldUCXEnd
<1>2. /\ app \in AppRec /\ EndOk /\ tbl \in [H -> {"absent", "kept", "managed"}]
      /\ q \in Seq(H \X BOOLEAN) /\ users \in [H -> Nat]
  BY DEF CInv, TInv
<1>3. PICK h \in H : h = app.h
  BY <1>1, <1>2 DEF EndOk
<1>4. transport = "UCX" /\ PlaceOk(h) /\ Yielding(h)
  BY <1>1, <1>2, <1>3 DEF CInv, EndOk, Yielding
<1>5. conn[h] = "open" /\ ~hd[h].rd /\ tbl[h] = "kept" /\ Owners(h) = 1
  BY <1>4 DEF PlaceOk
<1>6. /\ tbl' \in [H -> {"absent", "kept", "managed"}] /\ tbl'[h] = "managed"
      /\ \A g \in H : g # h => tbl'[g] = tbl[g]
  BY <1>1, <1>2, <1>3, <1>5 DEF Manage
<1>7. app' \in AppRec /\ app'.pc = "run"
  BY <1>1, <1>2 DEF AppRec
<1>8. \A g \in H : Copies(g)' = Copies(g) /\ ~Yielding(g)' /\ (g # h => ~Yielding(g))
  BY <1>1, <1>3, <1>7 DEF Copies, Yielding
<1>9. Owners(h)' = 1
  BY <1>1, <1>4, <1>5, <1>6, <1>8 DEF Owners
<1>10. PlaceOk(h)'
  BY <1>1, <1>4, <1>5, <1>6, <1>8, <1>9 DEF PlaceOk
<1>11. EndOk'
  BY <1>7 DEF EndOk
<1> QED BY <1>1, <1>2, <1>4, <1>6, <1>7, <1>8, <1>10, <1>11, OwnerInv

\* connect.
LEMMA ConnectInv ==
  ASSUME CInv, NEW h \in H, ConnectSHM(h) \/ ConnectMPI(h) \/ ConnectUCX(h) \/ ConnectMQTT(h)
  PROVE  CInv'
<1>1. /\ app.pc = "run" /\ h \in Connects /\ conn[h] = "free"
      /\ conn' = [conn EXCEPT ![h] = "open"] /\ tbl' = [tbl EXCEPT ![h] = "kept"]
      /\ users' = [users EXCEPT ![h] = 1]
      /\ UNCHANGED <<transport, listening, in, hd, q, io, lock, app, ev>>
      /\ \/ peer' = peer
         \/ peer' = [peer EXCEPT ![h].subscribed = TRUE, ![h].ack = TRUE]
  BY DEF ConnectSHM, ConnectMPI, ConnectUCX, ConnectMQTT, Connected
<1>2. /\ conn \in [H -> {"free", "asked", "accepting", "open"}]
      /\ tbl \in [H -> {"absent", "kept", "managed"}] /\ users \in [H -> Nat] /\ peer \in [H -> PeerRec]
  BY DEF CInv, TInv
<1>3. /\ conn' \in [H -> {"free", "asked", "accepting", "open"}] /\ conn'[h] = "open"
      /\ tbl' \in [H -> {"absent", "kept", "managed"}] /\ tbl'[h] = "kept"
      /\ users' \in [H -> Nat] /\ users'[h] = 1
      /\ \A g \in H : g # h => conn'[g] = conn[g] /\ tbl'[g] = tbl[g] /\ users'[g] = users[g]
  BY <1>1, <1>2
<1>4. /\ peer' \in [H -> PeerRec] /\ \A g \in H : g # h => peer'[g] = peer[g]
      /\ peer'[h].lost = peer[h].lost /\ peer'[h].mid = peer[h].mid /\ peer'[h].closed = peer[h].closed
      /\ (peer'[h].ack /\ ~peer[h].ack) => peer'[h].subscribed
      /\ peer[h].subscribed => peer'[h].subscribed
  <2>1. CASE peer' = peer
    BY <1>2, <2>1
  <2>2. CASE peer' = [peer EXCEPT ![h].subscribed = TRUE, ![h].ack = TRUE]
    <3> DEFINE x == [peer[h] EXCEPT !.subscribed = TRUE, !.ack = TRUE]
    <3>1. /\ x \in PeerRec /\ x.lost = peer[h].lost /\ x.mid = peer[h].mid
          /\ x.closed = peer[h].closed /\ x.subscribed
      BY <1>2 DEF PeerRec
    <3>2. peer' = [peer EXCEPT ![h] = x]
      BY <1>2, <2>2
    <3> HIDE DEF x
    <3>3. peer' \in [H -> PeerRec] /\ peer'[h] = x /\ \A g \in H : g # h => peer'[g] = peer[g]
      BY <1>2, <3>1, <3>2
    <3> QED BY <3>1, <3>3
  <2> QED BY <1>1, <2>1, <2>2
<1>5. TInv'
  BY <1>1, <1>3, <1>4 DEF CInv, TInv
<1>6. IoOk'
  <2>1. IoOk
    BY DEF CInv
  <2>2. io.pc \in {"ack", "shake"} => io.h \in H /\ io.h # h
    BY <1>1, <2>1, Sides DEF IoOk
  <2> QED BY <1>1, <1>3, <1>4, <2>1, <2>2 DEF IoOk
<1>8. ShakeOk'
  <2>1. \A g \in H : conn'[g] = "accepting" => conn[g] = "accepting"
    BY <1>3
  <2> QED BY <1>1, <2>1 DEF CInv, ShakeOk, Shaking
<1>9. EndOk' /\ EpOk'
  BY <1>1, <1>3 DEF CInv, TInv, AppRec, EndOk, EpOk
<1>10. \A g \in H : (Yielding(g)' <=> Yielding(g)) /\ Copies(g)' = Copies(g)
  BY <1>1 DEF Yielding, Copies
<1>11. ASSUME NEW g \in H, g # h PROVE PlaceOk(g)' /\ StreamOk(g)'
  <2>1. Same(g)
    BY <1>1, <1>3, <1>4, <1>10, <1>11 DEF Same, SameHd
  <2> QED BY <1>1, <2>1, Kept DEF CInv
<1>12. PlaceOk(h)'
  <2>1. Copies(h) = 0 /\ ~hd[h].rd /\ ~Yielding(h)
    BY <1>1 DEF CInv, PlaceOk, Unused
  <2>2. Owners(h)' = 1
    BY <1>3, <1>10, <2>1 DEF Owners
  <2> QED BY <1>1, <1>3, <1>10, <2>1, <2>2 DEF PlaceOk
<1>13. StreamOk(h)'
  <2>1. StreamOk(h)
    BY DEF CInv
  <2>2. Owed(peer'[h]) = Owed(peer[h])
    BY <1>4 DEF Owed
  <2>3. ReadOk(hd[h], in[h], peer[h]) => ReadOk(hd[h], in[h], peer[h])'
    BY <1>1, <1>4, <2>2 DEF ReadOk, HeaderOk
  <2> QED BY <1>1, <1>3, <1>4, <2>1, <2>3 DEF StreamOk
<1> QED BY <1>5, <1>6, <1>8, <1>9, <1>11, <1>12, <1>13 DEF CInv

\* finalize takes the handles the connector closes: all of them are open.
LEMMA FinalizeInv ==
  ASSUME CInv, NEW b \in BOOLEAN, Finalize(b)
  PROVE  CInv'
<1>1. /\ UNCHANGED <<transport, listening, conn, in, peer, hd, users, tbl, q, io, lock, ev>>
      /\ app.pc = "run" /\ io.pc = "idle"
      /\ app' = [pc |-> "closing", h |-> NoH, todo |-> End,
                 block |-> b \/ transport = "MPI"]
  BY DEF Finalize, local
<1>2. transport \in AllTransports /\ conn \in [H -> {"free", "asked", "accepting", "open"}]
  BY DEF CInv, TInv
<1>3. End \subseteq H /\ \A h \in End : conn[h] = "open"
  <2>1. End \subseteq Present
    BY <1>2 DEF End, EndSHM, EndMPI, EndMQTT, EndUCX, Managed, Present, AllTransports
  <2>2. \A h \in H : conn[h] # "accepting"
    BY <1>1 DEF CInv, ShakeOk, Shaking
  <2>3. \A h \in Present : h \in H /\ conn[h] = "open"
    BY <1>2, <2>2 DEF CInv, Present, PlaceOk
  <2> QED BY <2>1, <2>3
<1>4. app' \in AppRec /\ app'.pc = "closing" /\ app'.todo = End
  <2> DEFINE c == b \/ transport = "MPI"
  <2>1. c \in BOOLEAN /\ End \in SUBSET H
    BY <1>3
  <2>2. app' = [pc |-> "closing", h |-> NoH, todo |-> End, block |-> c]
    BY <1>1
  <2> HIDE DEF c
  <2> QED BY <2>1, <2>2 DEF AppRec
<1>5. TInv'
  BY <1>1, <1>4 DEF CInv, TInv
<1>6. IoOk' /\ EndOk'
  BY <1>1, <1>3, <1>4 DEF CInv, IoOk, EndOk
<1>7. \A g \in H : Yielding(g)' <=> Yielding(g)
  BY <1>1, <1>4 DEF Yielding
<1> QED BY <1>1, <1>4, <1>5, <1>6, <1>7, AllKept

LEMMA EndDoneInv ==
  ASSUME CInv, EndDone
  PROVE  CInv'
<1>1. /\ UNCHANGED <<transport, listening, conn, in, peer, hd, users, tbl, q, io, lock, ev>>
      /\ app.pc = "closing" /\ app' = [app EXCEPT !.pc = "end"]
  BY DEF EndDone, local
<1>2. app' \in AppRec /\ app'.pc = "end"
  BY <1>1 DEF CInv, TInv, AppRec
<1>3. TInv'
  BY <1>1, <1>2 DEF CInv, TInv
<1>4. IoOk' /\ EndOk'
  BY <1>1, <1>2 DEF CInv, IoOk, EndOk
<1>5. \A g \in H : Yielding(g)' <=> Yielding(g)
  BY <1>1, <1>2 DEF Yielding
<1> QED BY <1>1, <1>2, <1>3, <1>4, <1>5, AllKept

LEMMA SameInv ==
  ASSUME CInv, UNCHANGED vars
  PROVE  CInv'
<1>1. UNCHANGED <<transport, listening, conn, in, peer, tbl, hd, users, q, io, lock, app, ev>>
  BY DEF vars
<1>2. TInv'
  BY <1>1 DEF CInv, TInv
<1>3. IoOk' /\ EndOk' /\ \A g \in H : Yielding(g)' <=> Yielding(g)
  BY <1>1 DEF CInv, IoOk, EndOk, Yielding
<1> QED BY <1>1, <1>2, <1>3, AllKept

-----------------------------------------------------------------------------
(* The invariant of the specification *)

LEMMA InitInv == Init => CInv
<1> SUFFICES ASSUME Init PROVE CInv
  OBVIOUS
<1>1. /\ transport \in AllTransports /\ listening = FALSE /\ q = <<>>
      /\ lock = "free" /\ ev = {}
      /\ io = [pc |-> "idle", h |-> NoH, todo |-> {}]
      /\ app = [pc |-> "run", h |-> NoH, todo |-> {}, block |-> FALSE]
  BY ConnectorAssumption DEF Init
<1>2. /\ conn = [h \in H |-> "free"] /\ in = [h \in H |-> <<>>]
      /\ tbl = [h \in H |-> "absent"] /\ hd = [h \in H |-> NewHandle]
      /\ users = [h \in H |-> 0]
      /\ peer = [h \in H |-> [sent |-> 0, mid |-> FALSE, closed |-> FALSE,
                              subscribed |-> FALSE, ack |-> FALSE, lost |-> FALSE]]
  BY DEF Init
<1>3. TInv
  <2>1. NewHandle \in HandleRec
    BY DEF NewHandle, HandleRec, Found
  <2>2. [sent |-> 0, mid |-> FALSE, closed |-> FALSE,
         subscribed |-> FALSE, ack |-> FALSE, lost |-> FALSE] \in PeerRec
    BY ConnectorAssumption DEF PeerRec
  <2>3. io \in IoRec
    BY <1>1 DEF IoRec, IoPc
  <2>4. app \in AppRec
    BY <1>1 DEF AppRec
  <2>6. hd \in [H -> HandleRec] /\ peer \in [H -> PeerRec]
    BY <1>2, <2>1, <2>2
  <2>7. in \in [H -> Seq(Items)] /\ q \in Seq(H \X BOOLEAN)
    BY <1>1, <1>2
  <2>8. /\ conn \in [H -> {"free", "asked", "accepting", "open"}]
        /\ tbl \in [H -> {"absent", "kept", "managed"}] /\ users \in [H -> Nat]
    BY <1>2
  <2> QED BY <1>1, <2>3, <2>4, <2>6, <2>7, <2>8 DEF TInv
<1>4. /\ io.pc = "idle" /\ app.pc = "run"
      /\ \A h \in H : conn[h] = "free"
  BY <1>1, <1>2
<1>5. IoOk /\ ShakeOk /\ EndOk
  BY <1>4 DEF IoOk, ShakeOk, EndOk
<1>7. ASSUME NEW h \in H
      PROVE  PlaceOk(h) /\ StreamOk(h) /\ hd[h].ep /\ ~hd[h].rd
  <2>1. /\ hd[h].rd = FALSE /\ hd[h].ep = TRUE /\ hd[h].is_probed = FALSE
        /\ hd[h].probed = "no" /\ hd[h].header = "no"
    BY <1>2 DEF NewHandle
  <2>2. /\ peer[h].lost = FALSE /\ peer[h].mid = FALSE /\ peer[h].closed = FALSE
        /\ peer[h].ack = FALSE
    BY <1>2
  <2>3. in[h] = <<>> /\ tbl[h] = "absent" /\ users[h] = 0 /\ conn[h] = "free"
    BY <1>2
  <2>4. Copies(h) = 0
    <3>1. {j \in DOMAIN q : q[j][1] = h} = {}
      BY <1>1
    <3> QED BY <3>1, FS_EmptySet DEF Copies
  <2>5. Unused(h)
    BY <2>1, <2>3, <2>4 DEF Unused
  <2>6. PlaceOk(h)
    BY <1>4, <2>1, <2>3, <2>5 DEF PlaceOk, Yielding
  <2>7. Aligned(in[h], Awaited(hd[h]), Owed(peer[h]))
    <3>1. Awaited(hd[h]) = "header" /\ Owed(peer[h]) = "header"
      BY <2>1, <2>2 DEF Awaited, Owed
    <3> QED BY <2>3, <3>1 DEF Aligned
  <2>8. HeaderOk(hd[h])
    BY <2>1 DEF HeaderOk
  <2>9. ~HasEos(in[h])
    BY <2>3 DEF HasEos
  <2>10. ReadOk(hd[h], in[h], peer[h])
    BY <2>1, <2>3, <2>7, <2>8, <2>9 DEF ReadOk
  <2>11. StreamOk(h)
    BY <2>1, <2>2, <2>3, <2>10 DEF StreamOk
  <2> QED BY <2>1, <2>6, <2>11
<1>8. EpOk
  BY <1>7 DEF EpOk
<1> QED BY <1>3, <1>5, <1>7, <1>8 DEF CInv

LEMMA NextInv == CInv /\ [Next]_vars => CInv'
<1> SUFFICES ASSUME CInv, [Next]_vars PROVE CInv'
  OBVIOUS
<1>1. CASE Io
  <2>1. ASSUME NEW h \in H, AcceptSHM(h) \/ AcceptMPI(h) \/ AcceptUCX(h) PROVE CInv'
    BY <2>1, AcceptInv
  <2>2. ASSUME NEW h \in H, AcceptMQTT(h) PROVE CInv'
    BY <2>2, AcceptMQTTInv
  <2>3. CASE AckMQTT BY <2>3, AckMQTTInv
  <2>4. CASE Handshake BY <2>4, HandshakeInv
  <2>5. CASE ScanSHM \/ ScanMPI \/ ScanUCX BY <2>5, LookInv
  <2>6. CASE ScanMQTT BY <2>6, ScanMQTTInv
  <2>7. CASE PollUCX BY <2>7, PollUCXInv
  <2> QED BY <1>1, <2>1, <2>2, <2>3, <2>4, <2>5, <2>6, <2>7, Zenon DEF Io
<1>3. CASE Application
  <2>1. CASE Listen BY <2>1, ListenInv
  <2>2. CASE GetNext BY <2>2, GetNextInv
  <2>3. ASSUME NEW h \in H, ConnectSHM(h) \/ ConnectMPI(h) \/ ConnectMQTT(h) \/ ConnectUCX(h)
        PROVE  CInv'
    BY <2>3, ConnectInv
  <2>4. ASSUME NEW h \in H, Probe(h) PROVE CInv'
    BY <2>4, ProbeInv
  <2>5. ASSUME NEW h \in H, Receive(h) PROVE CInv'
    BY <2>5, ReceiveInv
  <2>6. ASSUME NEW h \in H, Close(h) PROVE CInv'
    BY <2>6, UserCloseInv
  <2>7. ASSUME NEW h \in H, Drop(h) PROVE CInv'
    BY <2>7, DropInv
  <2>8. ASSUME NEW h \in H, YieldSHM(h) \/ YieldMPI(h) PROVE CInv'
    BY <2>8, YieldInv
  <2>9. ASSUME NEW h \in H, YieldMQTT(h) PROVE CInv'
    BY <2>9, YieldMQTTInv
  <2>10. ASSUME NEW h \in H, YieldUCX(h) PROVE CInv'
    BY <2>10, YieldUCXInv
  <2>11. ASSUME NEW h \in H, SetAsClosed(h) PROVE CInv'
    BY <2>11, SetAsClosedInv
  <2>12. CASE YieldUCXEnd BY <2>12, YieldUCXEndInv
  <2>13. ASSUME NEW b \in BOOLEAN, Finalize(b) PROVE CInv'
    BY <2>13, FinalizeInv, Zenon
  <2>14. CASE Drained BY <2>14, DrainedInv
  <2>15. CASE EndDone BY <2>15, EndDoneInv
  <2> QED BY <1>3, <2>1, <2>2, <2>3, <2>4, <2>5, <2>6, <2>7, <2>8, <2>9, <2>10,
             <2>11, <2>12, <2>13, <2>14, <2>15, Zenon DEF Application
<1>4. CASE Peers
  <2>1. ASSUME NEW h \in H, PeerConnect(h) PROVE CInv'
    BY <2>1, PeerConnectInv
  <2>2. ASSUME NEW h \in H, PeerSend(h) PROVE CInv'
    BY <2>2, PeerSendInv
  <2>3. ASSUME NEW h \in H, PeerPayload(h) PROVE CInv'
    BY <2>3, PeerPayloadInv
  <2>4. ASSUME NEW h \in H, PeerClose(h) PROVE CInv'
    BY <2>4, PeerCloseInv
  <2> QED BY <1>4, <2>1, <2>2, <2>3, <2>4, Zenon DEF Peers
<1>5. CASE Done \/ UNCHANGED vars
  <2>1. UNCHANGED vars BY <1>5 DEF Done
  <2> QED BY <2>1, SameInv
<1> QED BY <1>1, <1>3, <1>4, <1>5 DEF Next

LEMMA InvTypes == CInv => TypeOK
<1> SUFFICES ASSUME CInv PROVE TypeOK
  OBVIOUS
<1>1. TInv
  BY DEF CInv
<1>2. ASSUME NEW h \in H
      PROVE  /\ {hd[h].probed, hd[h].header} \subseteq {"no", "data", "eos", "garbage"}
             /\ hd[h].eos \in {"no", "sent", "late"}
             /\ users[h] \in Nat /\ peer[h].sent \in 0 .. MaxMsgs + 1
             /\ Range(in[h]) \subseteq {"header", "payload", "message", "eos"}
  <2>1. hd[h].probed \in Found /\ hd[h].header \in Found /\ hd[h].eos \in {"no", "sent", "late"}
    BY <1>1 DEF TInv, HandleRec
  <2>2. users[h] \in Nat /\ peer[h].sent \in 0 .. MaxMsgs + 1
    BY <1>1 DEF TInv, PeerRec
  <2>3. in[h] \in Seq(Items)
    BY <1>1 DEF TInv
  <2>4. Range(in[h]) \subseteq Items
    BY <2>3 DEF Range
  <2> QED BY <2>1, <2>2, <2>4 DEF Found, Items
<1>3. Range(q) \subseteq H \X BOOLEAN
  <2>1. q \in Seq(H \X BOOLEAN)
    BY <1>1 DEF TInv
  <2> QED BY <2>1 DEF Range
<1>4. app.pc \in {"run", "yield", "closing", "draining", "end"}
  BY <1>1 DEF TInv, AppRec
<1>5. /\ conn \in [H -> {"free", "asked", "accepting", "open"}]
      /\ tbl \in [H -> {"absent", "kept", "managed"}]
      /\ lock \in {"free", "io"}
  BY <1>1 DEF TInv
<1> QED BY <1>2, <1>3, <1>4, <1>5 DEF TypeOK

-----------------------------------------------------------------------------
(* The theorems *)

\* The steps of the I/O thread, the application and the peers keep the invariant:
\* the table and the queue of every connector agree on who has a handle, and what
\* a handle remembers of its stream agrees with what is still to be read.
THEOREM ConnectorsSafe == Spec => []CInv
<1> QED BY InitInv, NextInv, PTL DEF Spec

\* The tables, the streams, the handles and the ready queue of the connectors have
\* their types; in particular the count of HandleUser objects never falls below
\* zero, whoever drops, yields or closes a handle.
THEOREM ConnectorsTypeCorrect == Spec => []TypeOK
<1> QED BY ConnectorsSafe, InvTypes, PTL

\* In ConnMPI, ConnMQTT and ConnUCX the flag to_manage, addinQ and notify_yield
\* hand a handle that is open for reading back and forth so that
\* exactly one of the runtime, the ready queue and the application has it.
THEOREM OneOwner == Spec => []SingleOwner
<1>1. CInv => SingleOwner
  BY DEF CInv, PlaceOk, Owners, Yielding, SingleOwner
<1> QED BY <1>1, ConnectorsSafe, PTL

\* What update, the probe of a yield and HandleUser::probe have read ahead is
\* accounted for: no payload is taken for a header, no header for a payload, and
\* no message is published to a topic before it is subscribed to.
THEOREM StreamsIntact == Spec => []StreamIntact
<1>1. CInv => StreamIntact
  BY DEF CInv, StreamOk, StreamIntact
<1> QED BY <1>1, ConnectorsSafe, PTL

=============================================================================
