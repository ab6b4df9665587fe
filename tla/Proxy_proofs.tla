---------------------------- MODULE Proxy_proofs ----------------------------
(***************************************************************************)
(* The proxies for any number of clients, components and messages: the     *)
(* maps of a proxy agree with each other and with those of the other one.  *)
(***************************************************************************)
EXTENDS Proxy, FiniteSetTheorems, TLAPS

-----------------------------------------------------------------------------
(* The inductive invariant *)

Whats == {"p2p", "team", "dest", "app", "teamID", "data", "eos"}
ItemRec == [k : Clients, what : Whats, n : Nat]
HandleRec == [end : Ends, in : Seq(ItemRec), new : BOOLEAN, rd : BOOLEAN, wr : BOOLEAN]
\* Labels of destinations, and none.
Dests == STRING \cup {""}
Ids == [dest : Dests, pool : Pools, addr : Nat]
Opening == {"CONN", "CONN_COLL"}
CmdRec == [cmd : {"PRX", "CONN", "CONN_COLL", "FWD", "EOS"}, id : Ids \cup {NoId},
           items : Seq(ItemRec)]
SentRec == [data : Nat, open : BOOLEAN, closed : BOOLEAN]

\* The types.
TInv ==
  /\ link \in [Pools -> Seq(CmdRec)]
  /\ \A p \in Pools : proxies[p] \subseteq {Other(p)}
  /\ DOMAIN proxies = Pools /\ DOMAIN hnd = Pools /\ DOMAIN id2handle = Pools
  /\ DOMAIN loc2connID = Pools /\ DOMAIN connID2loc = Pools
  /\ DOMAIN connid2proxy = Pools /\ DOMAIN proc2proc = Pools
  /\ top \in [Pools -> Nat] /\ sent \in [Ends -> SentRec]
  /\ req \in [Clients -> [style : {"p2p", "team", "none"}, via : Pools, dest : Dests]]

\* What a command is about: the other proxy opens the connections of this one.
LinkOk(p) ==
  \A i \in 1 .. Len(link[p]) :
    /\ link[p][i].id = NoId <=> link[p][i].cmd = "PRX"
    /\ link[p][i].cmd \in Opening =>
         link[p][i].id.pool = Other(p) /\ link[p][i].items # <<>>

\* The handshake of a client is there as a whole.
Greeted(in) == Len(in) >= 2 /\ (in[2].what = "team" => Len(in) >= 3)

\* A Handle x of a proxy, C being the ends that have closed: the messages are those
\* of its end, and the end of the stream is the last one and comes once.
Clean(x, C) ==
  /\ x \in HandleRec
  /\ \A i \in 1 .. Len(x.in) : /\ x.in[i].k = x.end[2]
                               /\ x.in[i].what = "eos" => i = Len(x.in) /\ x.end \in C
  /\ x.rd => x.in = <<>> /\ x.end \in C
  /\ x.new => ~x.rd /\ ~x.wr /\ x.end[1] = "client" /\ Greeted(x.in)

\* The tables of the proxy of pool p: h, kept, loc, ids, prx and pp stand for hnd,
\* id2handle, loc2connID, connID2loc, connid2proxy and proc2proc, n for top.  A new
\* handle is in no map.
Handles(h, kept, n, C) ==
  /\ DOMAIN h \subseteq 1 .. n /\ kept \subseteq DOMAIN h
  /\ \A a \in DOMAIN h : Clean(h[a], C) /\ (h[a].new => a \notin kept)
\* The two maps of two-hop connections are inverses, and none is closed.
Remote(p, h, kept, loc, ids, prx) ==
  /\ \A a \in DOMAIN loc : /\ a \in kept /\ ~Closed(h[a])
                           /\ loc[a] \in DOMAIN ids \cap prx /\ ids[loc[a]] = a
  /\ \A id \in DOMAIN ids : /\ id \in Ids /\ ids[id] \in DOMAIN loc /\ loc[ids[id]] = id
                            /\ id.pool = p => ids[id] = id.addr
\* One-hop connections: the two handles name each other until one has ended.
Paired(h, kept, loc, pp) ==
  \A a \in DOMAIN pp :
    /\ a \in kept /\ a \notin DOMAIN loc
    /\ ~h[a].rd => /\ pp[a] \in DOMAIN pp /\ pp[a] # a /\ pp[pp[a]] = a
                   /\ h[pp[a]].end[2] = h[a].end[2]
Local(p, h, kept, loc, ids, prx, pp, n, C) ==
  Handles(h, kept, n, C) /\ Remote(p, h, kept, loc, ids, prx) /\ Paired(h, kept, loc, pp)
Shut == {e \in Ends : sent[e].closed}
LocalOk(p) == Local(p, hnd[p], id2handle[p], loc2connID[p], connID2loc[p], connid2proxy[p],
                    proc2proc[p], top[p], Shut)

\* What a proxy knows of a connection between the proxies.
SideOf(h, ids, id) ==
  IF id \notin DOMAIN ids THEN "none"
  ELSE IF h[ids[id]].rd THEN "rd" ELSE IF h[ids[id]].wr THEN "wr" ELSE "open"
Side(p, id) == SideOf(hnd[p], connID2loc[p], id)

\* Commands about id on a link.
OpensAt(s, id, i) == i \in 1 .. Len(s) /\ s[i].cmd \in Opening /\ s[i].id = id
EndsAt(s, id, i) == i \in 1 .. Len(s) /\ s[i].cmd = "EOS" /\ s[i].id = id

\* A connection between proxies: x and y are its sides at the proxy the client
\* entered by and at the other one, out and back the links from and to the first.
\* An identifier is used again only behind the end of the stream that makes the
\* other proxy forget its old meaning.
CrossOk(id, x, y, out, back) ==
  /\ \A i, j : OpensAt(out, id, i) /\ OpensAt(out, id, j) => i = j
  /\ \A i : OpensAt(out, id, i) =>
       /\ x \in {"open", "rd"} /\ y \in {"none", "rd"} /\ ~\E j : EndsAt(back, id, j)
       /\ x = "rd" => \E j : j > i /\ EndsAt(out, id, j)
       /\ y = "rd" => \E j : j < i /\ EndsAt(out, id, j)
  /\ x = "rd" /\ y \in {"open", "rd"} => \E j : EndsAt(out, id, j)
  /\ x = "none" => y \in {"none", "rd"}
  /\ x = "none" /\ y = "rd" => \E j : EndsAt(out, id, j)
  /\ x = "wr" => y \in {"none", "rd"}
  /\ \A i : EndsAt(back, id, i) => x \in {"open", "rd"} /\ y \in {"none", "rd"}
  /\ \A i, j : EndsAt(back, id, i) /\ EndsAt(back, id, j) => i = j
Cross(id) ==
  LET p == id.pool IN
  CrossOk(id, Side(p, id), Side(Other(p), id), link[Other(p)], link[p])

\* A client is new at one proxy, or its connection is on the way to the other one,
\* or it was opened, or none of these.
NewAt(k, p, a) == a \in DOMAIN hnd[p] /\ hnd[p][a].new /\ hnd[p][a].end = <<"client", k>>
AskedAt(k, p, i) == /\ i \in 1 .. Len(link[p]) /\ link[p][i].cmd \in Opening
                    /\ link[p][i].items[1].k = k
StageOk(k) ==
  /\ \A p, r \in Pools : \A a, b : NewAt(k, p, a) /\ NewAt(k, r, b) => p = r /\ a = b
  /\ \A p, r \in Pools : \A i, j : AskedAt(k, p, i) /\ AskedAt(k, r, j) => p = r /\ i = j
  /\ \A p, r \in Pools : \A a, i : ~(NewAt(k, p, a) /\ AskedAt(k, r, i))
  /\ (\E p \in Pools : \E a : NewAt(k, p, a) \/ AskedAt(k, p, a)) =>
       req[k] # NoReq /\ ~Served(k)
  /\ sent[<<"client", k>>].open \/ Served(k) => req[k] # NoReq

\* Addresses are counted by the connections that were opened.
Opened == {e \in Ends : sent[e].open}
CountOk == /\ top["A"] + top["B"] <= Cardinality(Opened)
           /\ \A e \in Ends : sent[e].data <= MaxData[e]

PInv == /\ TInv /\ CountOk
        /\ \A p \in Pools : LinkOk(p) /\ LocalOk(p)
        /\ \A id \in Ids : Cross(id)
        /\ \A k \in Clients : StageOk(k)

-----------------------------------------------------------------------------
(* Commands on a link *)

\* What is on a link once a command is written to it.
LEMMA AppendAt ==
  ASSUME NEW s \in Seq(CmdRec), NEW m \in CmdRec, NEW id, NEW i
  PROVE  /\ Append(s, m) \in Seq(CmdRec)
         /\ OpensAt(Append(s, m), id, i) <=>
              OpensAt(s, id, i) \/ (i = Len(s) + 1 /\ m.cmd \in Opening /\ m.id = id)
         /\ EndsAt(Append(s, m), id, i) <=>
              EndsAt(s, id, i) \/ (i = Len(s) + 1 /\ m.cmd = "EOS" /\ m.id = id)
<1> DEFINE r == Append(s, m)
<1>1. /\ r \in Seq(CmdRec) /\ Len(s) \in Nat /\ Len(r) = Len(s) + 1 /\ r[Len(s) + 1] = m
      /\ \A j \in 1 .. Len(s) : r[j] = s[j]
  OBVIOUS
<1> HIDE DEF r
<1>2. i \in 1 .. Len(r) <=> i \in 1 .. Len(s) \/ i = Len(s) + 1
  BY <1>1
<1>3. i \in 1 .. Len(s) => i # Len(s) + 1 /\ r[i] = s[i]
  BY <1>1
<1>4. OpensAt(r, id, i) <=>
        OpensAt(s, id, i) \/ (i = Len(s) + 1 /\ m.cmd \in Opening /\ m.id = id)
  BY <1>1, <1>2, <1>3 DEF OpensAt
<1>5. EndsAt(r, id, i) <=>
        EndsAt(s, id, i) \/ (i = Len(s) + 1 /\ m.cmd = "EOS" /\ m.id = id)
  BY <1>1, <1>2, <1>3 DEF EndsAt
<1> QED BY <1>1, <1>4, <1>5 DEF r

\* What is left on a link once its first command is read.
LEMMA TailAt ==
  ASSUME NEW s \in Seq(CmdRec), s # <<>>, NEW id, NEW i
  PROVE  /\ Tail(s) \in Seq(CmdRec)
         /\ OpensAt(Tail(s), id, i) => i \in Nat /\ OpensAt(s, id, i + 1)
         /\ EndsAt(Tail(s), id, i) => i \in Nat /\ EndsAt(s, id, i + 1)
         /\ EndsAt(s, id, i) =>
              /\ i \in Nat /\ (i = 1 \/ EndsAt(Tail(s), id, i - 1))
              /\ i = 1 => Head(s).cmd = "EOS" /\ Head(s).id = id
<1> DEFINE r == Tail(s)
<1>1. /\ r \in Seq(CmdRec) /\ Len(s) \in Nat /\ Len(r) = Len(s) - 1 /\ Head(s) = s[1]
      /\ \A j \in 1 .. Len(s) - 1 : r[j] = s[j + 1]
  OBVIOUS
<1> HIDE DEF r
<1>2. i \in 1 .. Len(r) => i \in Nat /\ i + 1 \in 1 .. Len(s) /\ r[i] = s[i + 1]
  BY <1>1
<1>3. i \in 1 .. Len(s) /\ i # 1 =>
        i \in Nat /\ i - 1 \in 1 .. Len(r) /\ i - 1 \in 1 .. Len(s) - 1 /\ (i - 1) + 1 = i
  BY <1>1
<1>4. i \in 1 .. Len(s) /\ i # 1 => r[i - 1] = s[i]
  BY <1>1, <1>3
<1>5. i \in 1 .. Len(s) => i \in Nat
  BY <1>1
<1>6. OpensAt(r, id, i) => i \in Nat /\ OpensAt(s, id, i + 1)
  BY <1>2 DEF OpensAt
<1>7. EndsAt(r, id, i) => i \in Nat /\ EndsAt(s, id, i + 1)
  BY <1>2 DEF EndsAt
<1>8. EndsAt(s, id, i) => /\ i \in Nat /\ (i = 1 \/ EndsAt(r, id, i - 1))
                          /\ i = 1 => Head(s).cmd = "EOS" /\ Head(s).id = id
  BY <1>1, <1>3, <1>4, <1>5 DEF EndsAt
<1> QED BY <1>1, <1>6, <1>7, <1>8 DEF r

\* A place on a link is one of its positions.
LEMMA AtNat ==
  ASSUME NEW s \in Seq(CmdRec), NEW id, NEW i
  PROVE  /\ OpensAt(s, id, i) => i \in Nat /\ i <= Len(s)
         /\ EndsAt(s, id, i) => i \in Nat /\ i <= Len(s)
BY DEF OpensAt, EndsAt

\* What is not about id changes nothing.
LEMMA CrossOut ==
  ASSUME NEW out \in Seq(CmdRec), NEW back, NEW id, NEW x, NEW y, NEW m \in CmdRec,
         CrossOk(id, x, y, out, back),
         ~(m.id = id /\ m.cmd \in Opening \cup {"EOS"})
  PROVE  CrossOk(id, x, y, Append(out, m), back)
<1>1. \A i : OpensAt(Append(out, m), id, i) <=> OpensAt(out, id, i)
  BY AppendAt
<1>2. \A i : EndsAt(Append(out, m), id, i) <=> EndsAt(out, id, i)
  BY AppendAt
<1> QED BY <1>1, <1>2 DEF CrossOk

\* A command written back that does not end the connection.
LEMMA CrossBack ==
  ASSUME NEW out, NEW back \in Seq(CmdRec), NEW id, NEW x, NEW y, NEW m \in CmdRec,
         CrossOk(id, x, y, out, back),
         ~(m.id = id /\ m.cmd = "EOS")
  PROVE  CrossOk(id, x, y, out, Append(back, m))
<1>1. \A i : EndsAt(Append(back, m), id, i) <=> EndsAt(back, id, i)
  BY AppendAt
<1> QED BY <1>1 DEF CrossOk

\* The other proxy reads a command that does not end the connection.
LEMMA CrossOutTail ==
  ASSUME NEW out \in Seq(CmdRec), out # <<>>, NEW back, NEW id, NEW x, NEW y,
         CrossOk(id, x, y, out, back),
         ~(Head(out).id = id /\ Head(out).cmd = "EOS")
  PROVE  CrossOk(id, x, y, Tail(out), back)
<1> DEFINE r == Tail(out)
<1>1. \A i : OpensAt(r, id, i) => i \in Nat /\ OpensAt(out, id, i + 1)
  BY TailAt
<1>2. \A i : EndsAt(out, id, i) => i \in Nat /\ EndsAt(r, id, i - 1)
  BY TailAt
<1> HIDE DEF r
<1>3. \A i, j : OpensAt(r, id, i) /\ OpensAt(r, id, j) => i = j
  <2> SUFFICES ASSUME NEW i, NEW j, OpensAt(r, id, i), OpensAt(r, id, j) PROVE i = j
    OBVIOUS
  <2>1. i \in Nat /\ j \in Nat /\ i + 1 = j + 1
    BY <1>1 DEF CrossOk
  <2> QED BY <2>1
<1>4. ASSUME NEW i, OpensAt(r, id, i)
      PROVE  /\ x \in {"open", "rd"} /\ y \in {"none", "rd"} /\ ~\E j : EndsAt(back, id, j)
             /\ x = "rd" => \E j : j > i /\ EndsAt(r, id, j)
             /\ y = "rd" => \E j : j < i /\ EndsAt(r, id, j)
  <2>1. i \in Nat /\ OpensAt(out, id, i + 1)
    BY <1>1, <1>4
  <2>2. /\ x \in {"open", "rd"} /\ y \in {"none", "rd"} /\ ~\E j : EndsAt(back, id, j)
        /\ x = "rd" => \E j : j > i + 1 /\ EndsAt(out, id, j)
        /\ y = "rd" => \E j : j < i + 1 /\ EndsAt(out, id, j)
    BY <2>1 DEF CrossOk
  <2>3. \A j : EndsAt(out, id, j) => /\ j \in Nat /\ EndsAt(r, id, j - 1)
                                     /\ j > i + 1 => j - 1 > i
                                     /\ j < i + 1 => j - 1 < i
    BY <1>2, <2>1
  <2> QED BY <2>2, <2>3
<1>5. (\E j : EndsAt(out, id, j)) => \E j : EndsAt(r, id, j)
  BY <1>2
<1>6. /\ x = "rd" /\ y \in {"open", "rd"} => \E j : EndsAt(r, id, j)
      /\ x = "none" => y \in {"none", "rd"}
      /\ x = "none" /\ y = "rd" => \E j : EndsAt(r, id, j)
      /\ x = "wr" => y \in {"none", "rd"}
      /\ \A i : EndsAt(back, id, i) => x \in {"open", "rd"} /\ y \in {"none", "rd"}
      /\ \A i, j : EndsAt(back, id, i) /\ EndsAt(back, id, j) => i = j
  BY <1>5 DEF CrossOk
<1>7. CrossOk(id, x, y, r, back)
  BY <1>3, <1>4, <1>6 DEF CrossOk
<1> QED BY <1>7 DEF r

\* The proxy of the client reads a command.
LEMMA CrossBackTail ==
  ASSUME NEW out, NEW back \in Seq(CmdRec), back # <<>>, NEW id, NEW x, NEW y,
         CrossOk(id, x, y, out, back)
  PROVE  CrossOk(id, x, y, out, Tail(back))
<1> DEFINE r == Tail(back)
<1>1. \A i : EndsAt(r, id, i) => i \in Nat /\ EndsAt(back, id, i + 1)
  BY TailAt
<1> HIDE DEF r
<1>2. \A i, j : EndsAt(r, id, i) /\ EndsAt(r, id, j) => i = j
  <2> SUFFICES ASSUME NEW i, NEW j, EndsAt(r, id, i), EndsAt(r, id, j) PROVE i = j
    OBVIOUS
  <2>1. i \in Nat /\ j \in Nat /\ i + 1 = j + 1
    BY <1>1 DEF CrossOk
  <2> QED BY <2>1
<1>3. \A i : EndsAt(r, id, i) => \E j : EndsAt(back, id, j)
  BY <1>1
<1>4. CrossOk(id, x, y, out, r)
  BY <1>2, <1>3 DEF CrossOk
<1> QED BY <1>4 DEF r

\* The client's proxy asks for the connection.
LEMMA CrossAsk ==
  ASSUME NEW out \in Seq(CmdRec), NEW back, NEW id, NEW y, NEW m \in CmdRec,
         CrossOk(id, "none", y, out, back), m.cmd \in Opening, m.id = id
  PROVE  CrossOk(id, "open", y, Append(out, m), back)
<1> DEFINE r == Append(out, m)
<1>1. \A i : ~OpensAt(out, id, i) /\ ~EndsAt(back, id, i)
  BY DEF CrossOk
<1>2. \A i : OpensAt(r, id, i) => i = Len(out) + 1
  BY <1>1, AppendAt
<1>3. \A i : EndsAt(out, id, i) => EndsAt(r, id, i) /\ i < Len(out) + 1
  BY AppendAt, AtNat
<1> HIDE DEF r
<1>4. y \in {"none", "rd"} /\ (y = "rd" => \E j : EndsAt(out, id, j))
  BY DEF CrossOk
<1>5. CrossOk(id, "open", y, r, back)
  BY <1>1, <1>2, <1>3, <1>4 DEF CrossOk
<1> QED BY <1>5 DEF r

\* The other one does not know it before it is asked, and then opens it.
LEMMA CrossFresh ==
  ASSUME NEW out \in Seq(CmdRec), out # <<>>, NEW back, NEW id, NEW x, NEW y,
         CrossOk(id, x, y, out, back), Head(out).cmd \in Opening, Head(out).id = id
  PROVE  y = "none"
<1>1. OpensAt(out, id, 1)
  <2>1. 1 \in 1 .. Len(out) /\ out[1] = Head(out)
    OBVIOUS
  <2> QED BY <2>1 DEF OpensAt
<1>2. y \in {"none", "rd"} /\ (y = "rd" => \E j : j < 1 /\ EndsAt(out, id, j))
  BY <1>1 DEF CrossOk
<1>3. \A j : EndsAt(out, id, j) => ~(j < 1)
  BY DEF EndsAt
<1> QED BY <1>2, <1>3

\* The other proxy opens the connection it was asked for.
LEMMA CrossOpen ==
  ASSUME NEW out \in Seq(CmdRec), out # <<>>, NEW back, NEW id, NEW x, NEW y,
         CrossOk(id, x, y, out, back), Head(out).cmd \in Opening, Head(out).id = id
  PROVE  CrossOk(id, x, "open", Tail(out), back)
<1> DEFINE r == Tail(out)
<1>1. OpensAt(out, id, 1)
  <2>1. 1 \in 1 .. Len(out) /\ out[1] = Head(out)
    OBVIOUS
  <2> QED BY <2>1 DEF OpensAt
<1>2. /\ x \in {"open", "rd"} /\ y \in {"none", "rd"} /\ ~\E j : EndsAt(back, id, j)
      /\ x = "rd" => \E j : j > 1 /\ EndsAt(out, id, j)
      /\ y = "rd" => \E j : j < 1 /\ EndsAt(out, id, j)
  BY <1>1 DEF CrossOk
<1>4. \A i : ~OpensAt(r, id, i)
  <2> SUFFICES ASSUME NEW i, OpensAt(r, id, i) PROVE FALSE
    OBVIOUS
  <2>1. i \in Nat /\ OpensAt(out, id, i + 1) /\ i \in 1 .. Len(r) /\ Len(r) \in Nat
    BY TailAt DEF OpensAt
  <2>2. i + 1 = 1
    BY <1>1, <2>1 DEF CrossOk
  <2> QED BY <2>1, <2>2
<1>5. x = "rd" => \E j : EndsAt(r, id, j)
  <2>1. Head(out).cmd # "EOS"
    BY DEF Opening
  <2>2. \A j : EndsAt(out, id, j) => EndsAt(r, id, j - 1)
    BY <2>1, TailAt
  <2> QED BY <1>2, <2>2
<1> HIDE DEF r
<1>6. CrossOk(id, x, "open", r, back)
  BY <1>2, <1>4, <1>5 DEF CrossOk
<1> QED BY <1>6 DEF r

\* The end of the stream of the client, at its proxy.
LEMMA CrossEnd ==
  ASSUME NEW out \in Seq(CmdRec), NEW back, NEW id, NEW x \in {"open", "wr"}, NEW y,
         NEW m \in CmdRec, CrossOk(id, x, y, out, back), m.cmd = "EOS", m.id = id
  PROVE  CrossOk(id, IF x = "wr" THEN "none" ELSE "rd", y, Append(out, m), back)
<1> DEFINE r == Append(out, m)
           z == IF x = "wr" THEN "none" ELSE "rd"
<1>1. \A i : OpensAt(r, id, i) <=> OpensAt(out, id, i)
  BY AppendAt DEF Opening
<1>2. \A i : EndsAt(out, id, i) => EndsAt(r, id, i)
  BY AppendAt
<1>3. EndsAt(r, id, Len(out) + 1)
  BY AppendAt
<1>4. \A i : OpensAt(out, id, i) => Len(out) + 1 > i
  BY AtNat
<1> HIDE DEF r
<1>5. CASE x = "wr"
  <2>1. /\ \A i : ~OpensAt(out, id, i) /\ ~EndsAt(back, id, i)
        /\ y \in {"none", "rd"}
    BY <1>5 DEF CrossOk
  <2>2. CrossOk(id, "none", y, r, back)
    BY <1>1, <1>3, <2>1 DEF CrossOk
  <2> QED BY <1>5, <2>2 DEF r
<1>6. CASE x = "open"
  <2>1. /\ \A i : OpensAt(out, id, i) =>
             /\ y \in {"none", "rd"} /\ ~\E j : EndsAt(back, id, j)
             /\ y = "rd" => \E j : j < i /\ EndsAt(out, id, j)
        /\ \A i, j : OpensAt(out, id, i) /\ OpensAt(out, id, j) => i = j
        /\ \A i : EndsAt(back, id, i) => y \in {"none", "rd"}
        /\ \A i, j : EndsAt(back, id, i) /\ EndsAt(back, id, j) => i = j
    BY <1>6 DEF CrossOk
  <2>2. CrossOk(id, "rd", y, r, back)
    BY <1>1, <1>2, <1>3, <1>4, <2>1 DEF CrossOk
  <2> QED BY <1>6, <2>2 DEF r
<1> QED BY <1>5, <1>6

\* It reaches the other proxy.
LEMMA CrossEnded ==
  ASSUME NEW out \in Seq(CmdRec), out # <<>>, NEW back, NEW id, NEW x,
         NEW y \in {"none", "open", "rd", "wr"},
         CrossOk(id, x, y, out, back), Head(out).cmd = "EOS", Head(out).id = id
  PROVE  CrossOk(id, x, IF y \in {"none", "rd"} THEN "none" ELSE "wr", Tail(out), back)
<1> DEFINE r == Tail(out)
           z == IF y \in {"none", "rd"} THEN "none" ELSE "wr"
<1>1. \A i : OpensAt(r, id, i) => i \in Nat /\ OpensAt(out, id, i + 1)
  BY TailAt
<1>2. \A i : EndsAt(out, id, i) => i \in Nat /\ (i = 1 \/ EndsAt(r, id, i - 1))
  BY TailAt
<1> HIDE DEF r
<1>3. \A i, j : OpensAt(r, id, i) /\ OpensAt(r, id, j) => i = j
  <2> SUFFICES ASSUME NEW i, NEW j, OpensAt(r, id, i), OpensAt(r, id, j) PROVE i = j
    OBVIOUS
  <2>1. i \in Nat /\ j \in Nat /\ i + 1 = j + 1
    BY <1>1 DEF CrossOk
  <2> QED BY <2>1
<1>4. ASSUME NEW i, OpensAt(r, id, i)
      PROVE  /\ x \in {"open", "rd"} /\ z = "none" /\ ~\E j : EndsAt(back, id, j)
             /\ x = "rd" => \E j : j > i /\ EndsAt(r, id, j)
  <2>1. i \in Nat /\ OpensAt(out, id, i + 1)
    BY <1>1, <1>4
  <2>2. /\ x \in {"open", "rd"} /\ y \in {"none", "rd"} /\ ~\E j : EndsAt(back, id, j)
        /\ x = "rd" => \E j : j > i + 1 /\ EndsAt(out, id, j)
    BY <2>1 DEF CrossOk
  <2>3. \A j : EndsAt(out, id, j) /\ j > i + 1 => j - 1 > i /\ EndsAt(r, id, j - 1)
    BY <1>2, <2>1
  <2> QED BY <2>2, <2>3
<1>5. /\ x \in {"none", "wr"} => z = "none"
      /\ \A i : EndsAt(back, id, i) => x \in {"open", "rd"} /\ z = "none"
      /\ \A i, j : EndsAt(back, id, i) /\ EndsAt(back, id, j) => i = j
      /\ z \in {"none", "wr"}
  BY DEF CrossOk
<1> HIDE DEF z
<1>6. CrossOk(id, x, z, r, back)
  BY <1>3, <1>4, <1>5 DEF CrossOk
<1> QED BY <1>6 DEF r, z

\* The end of the stream of the component, at its proxy.
LEMMA CrossAnswer ==
  ASSUME NEW out, NEW back \in Seq(CmdRec), NEW id, NEW x \in {"none", "open", "rd", "wr"},
         NEW y \in {"open", "wr"},
         NEW m \in CmdRec, CrossOk(id, x, y, out, back), m.cmd = "EOS", m.id = id
  PROVE  CrossOk(id, x, IF y = "wr" THEN "none" ELSE "rd", out, Append(back, m))
<1> DEFINE r == Append(back, m)
           z == IF y = "wr" THEN "none" ELSE "rd"
<1>1. \A i : EndsAt(r, id, i) => EndsAt(back, id, i) \/ i = Len(back) + 1
  BY AppendAt
<1>2. \A i : ~OpensAt(out, id, i) /\ ~EndsAt(back, id, i)
  BY DEF CrossOk
<1>3. x \in {"open", "rd"} /\ (x = "rd" /\ y = "open" => \E j : EndsAt(out, id, j))
  BY DEF CrossOk
<1>4. z \in {"none", "rd"} /\ (z = "rd" => y = "open")
  OBVIOUS
<1> HIDE DEF r, z
<1>5. CrossOk(id, x, z, out, r)
  BY <1>1, <1>2, <1>3, <1>4 DEF CrossOk
<1> QED BY <1>5 DEF r, z

\* It reaches the client's proxy.
LEMMA CrossAnswered ==
  ASSUME NEW out, NEW back \in Seq(CmdRec), back # <<>>, NEW id, NEW x, NEW y,
         CrossOk(id, x, y, out, back), Head(back).cmd = "EOS", Head(back).id = id
  PROVE  /\ x = "open" \/ x = "rd"
         /\ x = "open" => CrossOk(id, "wr", y, out, Tail(back))
         /\ x = "rd" => CrossOk(id, "none", y, out, Tail(back))
<1> DEFINE r == Tail(back)
<1>1. EndsAt(back, id, 1)
  <2>1. 1 \in 1 .. Len(back) /\ back[1] = Head(back)
    OBVIOUS
  <2> QED BY <2>1 DEF EndsAt
<1>2. x \in {"open", "rd"} /\ y \in {"none", "rd"} /\ \A i : ~OpensAt(out, id, i)
  BY <1>1 DEF CrossOk
<1>3. \A i : ~EndsAt(r, id, i)
  <2> SUFFICES ASSUME NEW i, EndsAt(r, id, i) PROVE FALSE
    OBVIOUS
  <2>1. i \in Nat /\ EndsAt(back, id, i + 1) /\ i \in 1 .. Len(r) /\ Len(r) \in Nat
    BY TailAt DEF EndsAt
  <2>2. i + 1 = 1
    BY <1>1, <2>1 DEF CrossOk
  <2> QED BY <2>1, <2>2
<1>4. x = "rd" /\ y = "rd" => \E j : EndsAt(out, id, j)
  BY DEF CrossOk
<1> HIDE DEF r
<1>5. x = "open" => CrossOk(id, "wr", y, out, r)
  BY <1>2, <1>3 DEF CrossOk
<1>6. x = "rd" => CrossOk(id, "none", y, out, r)
  BY <1>2, <1>3, <1>4 DEF CrossOk
<1> QED BY <1>2, <1>5, <1>6 DEF r

-----------------------------------------------------------------------------
(* A Handle *)

\* There are two pools.
LEMMA OtherPool ==
  ASSUME NEW p \in Pools
  PROVE  /\ Other(p) \in Pools /\ Other(p) # p /\ Other(Other(p)) = p
         /\ \A r \in Pools : r = p \/ r = Other(p)
<1>1. \A r \in Pools : Other(r) \in Pools /\ Other(r) # r
  <2> TAKE r \in Pools
  <2>1. \E o \in Pools : o # r
    BY DEF Pools
  <2> QED BY <2>1 DEF Other
<1> QED BY <1>1 DEF Pools

\* What is left of the messages of a Handle after n of them.
LEMMA RestOf ==
  ASSUME NEW s \in Seq(ItemRec), NEW n \in Nat
  PROVE  LET r == SubSeq(s, n + 1, Len(s)) IN
         /\ r \in Seq(ItemRec)
         /\ \A i \in 1 .. Len(r) : i + n \in 1 .. Len(s) /\ r[i] = s[i + n]
                                   /\ (i + n = Len(s) => i = Len(r))
         /\ n >= Len(s) => r = <<>>
<1> DEFINE r == SubSeq(s, n + 1, Len(s))
<1>1. Len(s) \in Nat
  OBVIOUS
<1>2. CASE n >= Len(s)
  <2>1. r = <<>>
    BY <1>1, <1>2
  <2> QED BY <1>1, <1>2, <2>1
<1>3. CASE n < Len(s)
  <2>1. /\ r \in Seq(ItemRec) /\ Len(r) = Len(s) - n
        /\ \A i \in 1 .. Len(s) - n : r[i] = s[n + 1 + i - 1]
    BY <1>1, <1>3
  <2>2. \A i \in 1 .. Len(s) - n : n + 1 + i - 1 = i + n /\ i + n \in 1 .. Len(s)
                                   /\ (i + n = Len(s) => i = Len(s) - n)
    BY <1>1, <1>3
  <2> QED BY <1>1, <1>3, <2>1, <2>2
<1> QED BY <1>1, <1>2, <1>3

\* Nothing is left of one message.
LEMMA RestNone ==
  ASSUME NEW s \in Seq(ItemRec), Len(s) = 1
  PROVE  SubSeq(s, 1 + 1, Len(s)) = <<>>
<1>1. Len(s) < 1 + 1
  OBVIOUS
<1> QED BY <1>1

\* Messages are read from a Handle.
LEMMA CleanTake ==
  ASSUME NEW x, NEW C, Clean(x, C), ~x.rd, NEW n \in Nat
  PROVE  Clean([x EXCEPT !.in = SubSeq(@, n + 1, Len(@)), !.new = FALSE], C)
<1> DEFINE r == SubSeq(x.in, n + 1, Len(x.in))
           z == [x EXCEPT !.in = r, !.new = FALSE]
<1>1. x \in HandleRec /\ x.in \in Seq(ItemRec)
  BY DEF Clean, HandleRec
<1>2. /\ r \in Seq(ItemRec)
      /\ \A i \in 1 .. Len(r) : i + n \in 1 .. Len(x.in) /\ r[i] = x.in[i + n]
                                /\ (i + n = Len(x.in) => i = Len(r))
  BY <1>1, RestOf
<1>3. \A i \in 1 .. Len(r) : /\ r[i].k = x.end[2]
                             /\ r[i].what = "eos" => i = Len(r) /\ x.end \in C
  BY <1>2 DEF Clean
<1> HIDE DEF r
<1>4. /\ z \in HandleRec /\ z.in = r /\ z.end = x.end /\ z.rd = x.rd /\ z.new = FALSE
  BY <1>1, <1>2 DEF HandleRec
<1> HIDE DEF z
<1>5. Clean(z, C)
  BY <1>3, <1>4 DEF Clean
<1> QED BY <1>5 DEF r, z

\* The end of the stream is taken.
LEMMA CleanEnd ==
  ASSUME NEW x, NEW C, Clean(x, C), x.in # <<>>, Head(x.in).what = "eos"
  PROVE  Clean([[x EXCEPT !.in = SubSeq(@, 1 + 1, Len(@)), !.new = FALSE] EXCEPT !.rd = TRUE], C)
<1> DEFINE r == SubSeq(x.in, 1 + 1, Len(x.in))
           z == [[x EXCEPT !.in = r, !.new = FALSE] EXCEPT !.rd = TRUE]
<1>1. x \in HandleRec /\ x.in \in Seq(ItemRec)
  BY DEF Clean, HandleRec
<1>2. 1 \in 1 .. Len(x.in) /\ x.in[1] = Head(x.in)
  BY <1>1
<1>3. 1 = Len(x.in) /\ x.end \in C
  BY <1>2 DEF Clean
<1>4. r = <<>> /\ r \in Seq(ItemRec)
  <2>1. Len(x.in) = 1
    BY <1>3
  <2>2. r = <<>>
    BY <1>1, <2>1, RestNone
  <2>3. ASSUME NEW z0, z0 = <<>> PROVE z0 \in Seq(ItemRec)
    BY <2>3
  <2> HIDE DEF r
  <2> QED BY <2>2, <2>3
<1> HIDE DEF r
<1>5. /\ z \in HandleRec /\ z.in = <<>> /\ z.end = x.end /\ z.new = FALSE
  BY <1>1, <1>4 DEF HandleRec
<1> HIDE DEF z
<1>6. Clean(z, C)
  BY <1>3, <1>5 DEF Clean
<1> QED BY <1>6 DEF r, z

\* A proxy closes its side of a connection.
LEMMA CleanClose ==
  ASSUME NEW x, NEW C, Clean(x, C), ~x.new
  PROVE  Clean([x EXCEPT !.wr = TRUE], C)
<1> DEFINE z == [x EXCEPT !.wr = TRUE]
<1>1. x \in HandleRec
  BY DEF Clean
<1>2. /\ z \in HandleRec /\ z.in = x.in /\ z.end = x.end /\ z.new = x.new /\ z.rd = x.rd
  BY <1>1 DEF HandleRec
<1> HIDE DEF z
<1>3. Clean(z, C)
  BY <1>2 DEF Clean
<1> QED BY <1>3 DEF z

\* A message arrives, and the end that sends it may close with it.
LEMMA CleanArrive ==
  ASSUME NEW x, NEW C, Clean(x, C), x.end \notin C, NEW m \in ItemRec, m.k = x.end[2], NEW D,
         C \subseteq D, m.what = "eos" => x.end \in D
  PROVE  Clean([x EXCEPT !.in = Append(@, m)], D)
<1> DEFINE r == Append(x.in, m)
           z == [x EXCEPT !.in = r]
<1>1. x \in HandleRec /\ x.in \in Seq(ItemRec) /\ Len(x.in) \in Nat
  BY DEF Clean, HandleRec
<1>2. /\ r \in Seq(ItemRec) /\ Len(r) = Len(x.in) + 1 /\ r[Len(x.in) + 1] = m
      /\ \A i \in 1 .. Len(x.in) : r[i] = x.in[i]
  BY <1>1
<1> HIDE DEF r
<1>3. \A i \in 1 .. Len(r) : i \in 1 .. Len(x.in) \/ i = Len(r)
  BY <1>1, <1>2
<1>4. \A i \in 1 .. Len(x.in) : x.in[i].k = x.end[2] /\ x.in[i].what # "eos"
  BY DEF Clean
<1>5. \A i \in 1 .. Len(r) : /\ r[i].k = x.end[2]
                             /\ r[i].what = "eos" => i = Len(r) /\ x.end \in D
  BY <1>2, <1>3, <1>4
<1>6. z \in HandleRec /\ z.in = r /\ z.end = x.end /\ z.new = x.new /\ z.rd = x.rd /\ z.wr = x.wr
  BY <1>1, <1>2 DEF HandleRec
<1> HIDE DEF z
<1>8. Greeted(x.in) => Greeted(r)
  BY <1>1, <1>2 DEF Greeted
<1>7. Clean(z, D)
  BY <1>5, <1>6, <1>8 DEF Clean
<1> QED BY <1>7 DEF r, z

-----------------------------------------------------------------------------
(* The tables of a proxy *)

\* insert of std::map.
LEMMA InsertFacts ==
  ASSUME NEW f, NEW a, NEW v
  PROVE  /\ DOMAIN Insert(f, a, v) = DOMAIN f \cup {a}
         /\ \A x \in DOMAIN f : Insert(f, a, v)[x] = f[x]
         /\ a \notin DOMAIN f => Insert(f, a, v)[a] = v
BY DEF Insert

\* erase of std::map.
LEMMA EraseFacts ==
  ASSUME NEW f, NEW a
  PROVE  /\ DOMAIN Erase(f, a) = DOMAIN f \ {a}
         /\ \A x \in DOMAIN f \ {a} : Erase(f, a)[x] = f[x]
BY DEF Erase, Restrict

\* More addresses, more ends that have closed.
LEMMA LocalGrow ==
  ASSUME NEW p, NEW h, NEW kept, NEW loc, NEW ids, NEW prx, NEW pp, NEW n \in Nat, NEW C,
         Local(p, h, kept, loc, ids, prx, pp, n, C), NEW m \in Nat, m >= n, NEW D, C \subseteq D
  PROVE  Local(p, h, kept, loc, ids, prx, pp, m, D)
<1>1. Handles(h, kept, m, D)
  BY DEF Local, Handles, Clean
<1> QED BY <1>1 DEF Local

\* The Handle at an address changes.
LEMMA LocalChange ==
  ASSUME NEW p, NEW h, NEW kept, NEW loc, NEW ids, NEW prx, NEW pp, NEW n, NEW C,
         Local(p, h, kept, loc, ids, prx, pp, n, C), NEW a \in DOMAIN h, NEW x,
         Clean(x, C), x.end = h[a].end, h[a].rd => x.rd, x.new => h[a].new,
         a \in DOMAIN loc => ~Closed(x)
  PROVE  Local(p, [h EXCEPT ![a] = x], kept, loc, ids, prx, pp, n, C)
<1> DEFINE g == [h EXCEPT ![a] = x]
<1>1. DOMAIN g = DOMAIN h /\ g[a] = x /\ \A b \in DOMAIN h : b # a => g[b] = h[b]
  OBVIOUS
<1> HIDE DEF g
<1>2. Handles(g, kept, n, C)
  BY <1>1 DEF Local, Handles
<1>3. Remote(p, g, kept, loc, ids, prx)
  <2>1. \A b \in DOMAIN loc : b \in DOMAIN h
    BY DEF Local, Handles, Remote
  <2>2. \A b \in DOMAIN loc : ~Closed(g[b])
    BY <1>1, <2>1 DEF Local, Remote
  <2> QED BY <2>2 DEF Local, Remote
<1>4. Paired(g, kept, loc, pp)
  <2>1. \A b \in DOMAIN pp : b \in DOMAIN h
    BY DEF Local, Handles, Paired
  <2>2. \A b \in DOMAIN pp : (~g[b].rd => ~h[b].rd) /\ g[b].end = h[b].end
    BY <1>1, <2>1
  <2>3. ASSUME NEW b \in DOMAIN pp, ~g[b].rd
        PROVE  /\ pp[b] \in DOMAIN pp /\ pp[b] # b /\ pp[pp[b]] = b
               /\ g[pp[b]].end[2] = g[b].end[2]
    <3>1. /\ pp[b] \in DOMAIN pp /\ pp[b] # b /\ pp[pp[b]] = b
          /\ h[pp[b]].end[2] = h[b].end[2]
      BY <2>2, <2>3 DEF Local, Paired
    <3> QED BY <2>2, <3>1
  <2> QED BY <2>3 DEF Local, Paired
<1>5. Local(p, g, kept, loc, ids, prx, pp, n, C)
  BY <1>2, <1>3, <1>4 DEF Local
<1> QED BY <1>5 DEF g

\* A Handle for a new connection.
LEMMA LocalAdd ==
  ASSUME NEW p, NEW h, NEW kept, NEW loc, NEW ids, NEW prx, NEW pp, NEW n, NEW C,
         Local(p, h, kept, loc, ids, prx, pp, n, C), NEW a \in 1 .. n, a \notin DOMAIN h,
         NEW x, Clean(x, C)
  PROVE  Local(p, Insert(h, a, x), kept, loc, ids, prx, pp, n, C)
<1> DEFINE g == Insert(h, a, x)
<1>1. DOMAIN g = DOMAIN h \cup {a} /\ g[a] = x /\ \A b \in DOMAIN h : g[b] = h[b]
  BY InsertFacts
<1> HIDE DEF g
<1>2. Handles(g, kept, n, C)
  BY <1>1 DEF Local, Handles
<1>3. \A b \in kept : g[b] = h[b]
  BY <1>1 DEF Local, Handles
<1>4. Remote(p, g, kept, loc, ids, prx)
  BY <1>3 DEF Local, Remote
<1>5. Paired(g, kept, loc, pp)
  <2>1. \A b \in DOMAIN pp : g[b] = h[b]
    BY <1>3 DEF Local, Paired
  <2> QED BY <2>1 DEF Local, Paired
<1>6. Local(p, g, kept, loc, ids, prx, pp, n, C)
  BY <1>2, <1>4, <1>5 DEF Local
<1> QED BY <1>6 DEF g

\* A two-hop connection is recorded.
LEMMA LocalJoin ==
  ASSUME NEW p, NEW h, NEW kept, NEW loc, NEW ids, NEW prx, NEW pp, NEW n, NEW C,
         Local(p, h, kept, loc, ids, prx, pp, n, C), NEW a \in DOMAIN h, a \notin kept,
         ~h[a].new, ~Closed(h[a]), NEW id \in Ids, id \notin DOMAIN ids,
         id.pool = p => id.addr = a
  PROVE  Local(p, h, kept \cup {a}, Insert(loc, a, id), Insert(ids, id, a), prx \cup {id},
               pp, n, C)
<1> DEFINE l == Insert(loc, a, id)
           i == Insert(ids, id, a)
<1>1. a \notin DOMAIN loc /\ a \notin DOMAIN pp
  BY DEF Local, Remote, Paired
<1>2. DOMAIN l = DOMAIN loc \cup {a} /\ l[a] = id /\ \A b \in DOMAIN loc : l[b] = loc[b]
  BY <1>1 DEF Insert
<1>3. DOMAIN i = DOMAIN ids \cup {id} /\ i[id] = a /\ \A d \in DOMAIN ids : i[d] = ids[d]
  BY DEF Insert
<1> HIDE DEF l, i
<1>4. Handles(h, kept \cup {a}, n, C)
  BY DEF Local, Handles
<1>5. Remote(p, h, kept \cup {a}, l, i, prx \cup {id})
  BY <1>1, <1>2, <1>3 DEF Local, Remote
<1>6. Paired(h, kept \cup {a}, l, pp)
  BY <1>1, <1>2 DEF Local, Paired
<1>7. Local(p, h, kept \cup {a}, l, i, prx \cup {id}, pp, n, C)
  BY <1>4, <1>5, <1>6 DEF Local
<1> QED BY <1>7 DEF l, i

\* And forgotten.
LEMMA LocalForget ==
  ASSUME NEW p, NEW h, NEW kept, NEW loc, NEW ids, NEW prx, NEW pp, NEW n, NEW C,
         Local(p, h, kept, loc, ids, prx, pp, n, C), NEW a \in DOMAIN loc, NEW rest,
         \A d \in prx : d # loc[a] => d \in rest
  PROVE  Local(p, h, kept \ {a}, Erase(loc, a), Erase(ids, loc[a]), rest, pp, n, C)
<1> DEFINE l == Erase(loc, a)
           i == Erase(ids, loc[a])
<1>1. DOMAIN l = DOMAIN loc \ {a} /\ \A b \in DOMAIN l : l[b] = loc[b]
  BY EraseFacts
<1>2. DOMAIN i = DOMAIN ids \ {loc[a]} /\ \A d \in DOMAIN i : i[d] = ids[d]
  BY EraseFacts
<1> HIDE DEF l, i
<1>3. Handles(h, kept \ {a}, n, C)
  BY DEF Local, Handles
<1>4. ids[loc[a]] = a
  BY DEF Local, Remote
<1>5. \A b \in DOMAIN l : /\ b \in kept \ {a} /\ ~Closed(h[b])
                          /\ l[b] \in DOMAIN i \cap rest /\ i[l[b]] = b
  <2> TAKE b \in DOMAIN l
  <2>1. b \in DOMAIN loc /\ b # a /\ l[b] = loc[b]
    BY <1>1
  <2>2. b \in kept /\ ~Closed(h[b]) /\ loc[b] \in DOMAIN ids /\ loc[b] \in prx /\ ids[loc[b]] = b
    BY <2>1 DEF Local, Remote
  <2>3. loc[b] # loc[a]
    BY <1>4, <2>1, <2>2
  <2> QED BY <1>2, <2>1, <2>2, <2>3
<1>6. \A d \in DOMAIN i : /\ d \in Ids /\ i[d] \in DOMAIN l /\ l[i[d]] = d
                          /\ d.pool = p => i[d] = d.addr
  <2> TAKE d \in DOMAIN i
  <2>1. d \in DOMAIN ids /\ d # loc[a] /\ i[d] = ids[d]
    BY <1>2
  <2>2. d \in Ids /\ ids[d] \in DOMAIN loc /\ loc[ids[d]] = d /\ (d.pool = p => ids[d] = d.addr)
    BY <2>1 DEF Local, Remote
  <2>3. ids[d] # a
    BY <2>1, <2>2
  <2> QED BY <1>1, <2>1, <2>2, <2>3
<1>7. Remote(p, h, kept \ {a}, l, i, rest)
  BY <1>5, <1>6 DEF Remote
<1>8. Paired(h, kept \ {a}, l, pp)
  BY <1>1 DEF Local, Paired
<1>9. Local(p, h, kept \ {a}, l, i, rest, pp, n, C)
  BY <1>3, <1>7, <1>8 DEF Local
<1> QED BY <1>9 DEF l, i

\* Two handles of the proxy are joined.
LEMMA LocalPair ==
  ASSUME NEW p, NEW h, NEW kept, NEW loc, NEW ids, NEW prx, NEW pp, NEW n, NEW C,
         Local(p, h, kept, loc, ids, prx, pp, n, C), NEW a \in DOMAIN h, NEW b \in DOMAIN h,
         a # b, a \notin kept, b \notin kept, ~h[a].new, ~h[b].new, h[a].end[2] = h[b].end[2]
  PROVE  Local(p, h, kept \cup {a, b}, loc, ids, prx, Insert(Insert(pp, a, b), b, a), n, C)
<1> DEFINE q1 == Insert(pp, a, b)
           q2 == Insert(q1, b, a)
<1>1. {a, b} \cap DOMAIN loc = {} /\ {a, b} \cap DOMAIN pp = {}
  BY DEF Local, Remote, Paired
<1>2. DOMAIN q1 = DOMAIN pp \cup {a} /\ q1[a] = b /\ \A c \in DOMAIN pp : q1[c] = pp[c]
  BY <1>1 DEF Insert
<1> HIDE DEF q1
<1>3. DOMAIN q2 = DOMAIN q1 \cup {b} /\ q2[b] = a /\ \A c \in DOMAIN q1 : q2[c] = q1[c]
  BY <1>1, <1>2 DEF Insert
<1> HIDE DEF q2
<1>4. DOMAIN q2 = DOMAIN pp \cup {a, b} /\ q2[a] = b /\ q2[b] = a /\ \A c \in DOMAIN pp : q2[c] = pp[c]
  BY <1>2, <1>3
<1>5. Handles(h, kept \cup {a, b}, n, C)
  BY DEF Local, Handles
<1>6. Remote(p, h, kept \cup {a, b}, loc, ids, prx)
  BY DEF Local, Remote
<1>7. Paired(h, kept \cup {a, b}, loc, q2)
  <2> SUFFICES ASSUME NEW c \in DOMAIN q2
               PROVE  /\ c \in kept \cup {a, b} /\ c \notin DOMAIN loc
                      /\ ~h[c].rd => /\ q2[c] \in DOMAIN q2 /\ q2[c] # c /\ q2[q2[c]] = c
                                     /\ h[q2[c]].end[2] = h[c].end[2]
    BY DEF Paired
  <2>1. CASE c \in {a, b}
    BY <1>1, <1>4, <2>1
  <2>2. CASE c \notin {a, b}
    <3>1. c \in DOMAIN pp /\ q2[c] = pp[c]
      BY <1>4, <2>2
    <3>2. /\ c \in kept /\ c \notin DOMAIN loc
          /\ ~h[c].rd => /\ pp[c] \in DOMAIN pp /\ pp[c] # c /\ pp[pp[c]] = c
                         /\ h[pp[c]].end[2] = h[c].end[2]
      BY <3>1 DEF Local, Paired
    <3> QED BY <1>4, <3>1, <3>2
  <2> QED BY <2>1, <2>2
<1>8. Local(p, h, kept \cup {a, b}, loc, ids, prx, q2, n, C)
  BY <1>5, <1>6, <1>7 DEF Local
<1> QED BY <1>8 DEF q1, q2

\* The second of two joined handles has ended.
LEMMA LocalPart ==
  ASSUME NEW p, NEW h, NEW kept, NEW loc, NEW ids, NEW prx, NEW pp, NEW n, NEW C,
         Local(p, h, kept, loc, ids, prx, pp, n, C), NEW b \in DOMAIN pp, h[b].rd, h[pp[b]].rd
  PROVE  Local(p, h, kept \ {b}, loc, ids, prx, Erase(pp, b), n, C)
<1> DEFINE r == Erase(pp, b)
<1>1. DOMAIN r = DOMAIN pp \ {b} /\ \A c \in DOMAIN r : r[c] = pp[c]
  BY EraseFacts
<1> HIDE DEF r
<1>2. Handles(h, kept \ {b}, n, C)
  BY DEF Local, Handles
<1>3. b \notin DOMAIN loc
  BY DEF Local, Paired
<1>4. Remote(p, h, kept \ {b}, loc, ids, prx)
  BY <1>3 DEF Local, Remote
<1>5. Paired(h, kept \ {b}, loc, r)
  <2> SUFFICES ASSUME NEW c \in DOMAIN r
               PROVE  /\ c \in kept \ {b} /\ c \notin DOMAIN loc
                      /\ ~h[c].rd => /\ r[c] \in DOMAIN r /\ r[c] # c /\ r[r[c]] = c
                                     /\ h[r[c]].end[2] = h[c].end[2]
    BY DEF Paired
  <2>1. c \in DOMAIN pp /\ c # b /\ r[c] = pp[c]
    BY <1>1
  <2>2. /\ c \in kept /\ c \notin DOMAIN loc
        /\ ~h[c].rd => /\ pp[c] \in DOMAIN pp /\ pp[c] # c /\ pp[pp[c]] = c
                       /\ h[pp[c]].end[2] = h[c].end[2]
    BY <2>1 DEF Local, Paired
  <2>3. ~h[c].rd => pp[c] # b
    BY <2>2
  <2> QED BY <1>1, <2>1, <2>2, <2>3
<1>6. Local(p, h, kept \ {b}, loc, ids, prx, r, n, C)
  BY <1>2, <1>4, <1>5 DEF Local
<1> QED BY <1>6 DEF r

\* Handles nobody keeps are deleted.
LEMMA ReleaseFacts ==
  ASSUME NEW h, NEW kept, kept \subseteq DOMAIN h, NEW g, g = Release(h, kept)
  PROVE  /\ DOMAIN g \subseteq DOMAIN h /\ kept \subseteq DOMAIN g
         /\ \A a \in DOMAIN g : g[a] = h[a]
BY DEF Release, Restrict

\* Handles that are in no map may be deleted.
LEMMA LocalRelease ==
  ASSUME NEW p, NEW h, NEW kept, NEW loc, NEW ids, NEW prx, NEW pp, NEW n, NEW C,
         Local(p, h, kept, loc, ids, prx, pp, n, C), NEW g,
         DOMAIN g \subseteq DOMAIN h, kept \subseteq DOMAIN g, \A a \in DOMAIN g : g[a] = h[a]
  PROVE  Local(p, g, kept, loc, ids, prx, pp, n, C)
<1>1. \A a \in kept : a \in DOMAIN g /\ g[a] = h[a]
  OBVIOUS
<1>2. Handles(g, kept, n, C)
  BY DEF Local, Handles
<1>3. Remote(p, g, kept, loc, ids, prx)
  BY <1>1 DEF Local, Remote
<1>4. Paired(g, kept, loc, pp)
  <2>1. \A b \in DOMAIN pp : g[b] = h[b]
    BY <1>1 DEF Local, Paired
  <2> QED BY <2>1 DEF Local, Paired
<1> QED BY <1>2, <1>3, <1>4 DEF Local

-----------------------------------------------------------------------------
(* Steps of one proxy *)

\* What is not of the proxy of pool p stays as it is.
Elsewhere(p) ==
  LET o == Other(p) IN
  /\ hnd'[o] = hnd[o] /\ id2handle'[o] = id2handle[o] /\ loc2connID'[o] = loc2connID[o]
  /\ connID2loc'[o] = connID2loc[o] /\ connid2proxy'[o] = connid2proxy[o]
  /\ proc2proc'[o] = proc2proc[o] /\ top'[o] = top[o]

\* A step of one proxy leaves the tables of the other alone.
LEMMA OtherSide ==
  ASSUME NEW p, Elsewhere(p), NEW id
  PROVE  Side(Other(p), id)' = Side(Other(p), id)
BY DEF Elsewhere, Side

\* The invariant after a step of one proxy, from its parts.
LEMMA Assemble ==
  ASSUME PInv, NEW p \in Pools, Elsewhere(p), Shut \subseteq Shut',
         TInv', CountOk', LocalOk(p)', \A r \in Pools : LinkOk(r)',
         \A id \in Ids : Cross(id)', \A k \in Clients : StageOk(k)'
  PROVE  PInv'
<1> DEFINE o == Other(p)
<1>1. o \in Pools /\ \A r \in Pools : r = p \/ r = o
  BY OtherPool
<1>2. LocalOk(o) /\ top[o] \in Nat
  BY <1>1 DEF PInv, TInv
<1>3. /\ hnd'[o] = hnd[o] /\ id2handle'[o] = id2handle[o] /\ loc2connID'[o] = loc2connID[o]
      /\ connID2loc'[o] = connID2loc[o] /\ connid2proxy'[o] = connid2proxy[o]
      /\ proc2proc'[o] = proc2proc[o] /\ top'[o] = top[o]
  BY DEF Elsewhere
<1> HIDE DEF o
<1>4. Local(o, hnd[o], id2handle[o], loc2connID[o], connID2loc[o], connid2proxy[o],
            proc2proc[o], top[o], Shut)
  BY <1>2 DEF LocalOk
<1>5. top[o] >= top[o]
  BY <1>2
<1>6. Local(o, hnd[o], id2handle[o], loc2connID[o], connID2loc[o], connid2proxy[o],
            proc2proc[o], top[o], Shut')
  BY <1>2, <1>4, <1>5, LocalGrow
<1>7. LocalOk(o)'
  BY <1>3, <1>6 DEF LocalOk
<1>8. \A r \in Pools : LinkOk(r)' /\ LocalOk(r)'
  BY <1>1, <1>7
<1> QED BY <1>8 DEF PInv

\* A well-formed command is written to the link.
LEMMA LinkPush ==
  ASSUME TInv, \A r \in Pools : LinkOk(r), NEW p \in Pools, NEW m \in CmdRec,
         m.id = NoId <=> m.cmd = "PRX",
         m.cmd \in Opening => m.id.pool = p /\ m.items # <<>>,
         link' = [link EXCEPT ![Other(p)] = Append(@, m)]
  PROVE  link' \in [Pools -> Seq(CmdRec)] /\ \A r \in Pools : LinkOk(r)'
<1> DEFINE o == Other(p)
<1>1. o \in Pools /\ Other(o) = p /\ \A r \in Pools : r = p \/ r = o
  BY OtherPool
<1>2. link \in [Pools -> Seq(CmdRec)]
  BY DEF TInv
<1>3. link'[o] = Append(link[o], m) /\ p # o /\ link'[p] = link[p] /\ link[o] \in Seq(CmdRec)
  BY <1>1, <1>2, OtherPool
<1>4. link' \in [Pools -> Seq(CmdRec)]
  BY <1>1, <1>2
<1> HIDE DEF o
<1>5. LinkOk(p)'
  BY <1>3 DEF LinkOk
<1>6. LinkOk(o)'
  <2>1. /\ Len(link'[o]) = Len(link[o]) + 1 /\ link'[o][Len(link[o]) + 1] = m
        /\ Len(link[o]) \in Nat /\ \A i \in 1 .. Len(link[o]) : link'[o][i] = link[o][i]
    BY <1>3
  <2>2. \A i \in 1 .. Len(link'[o]) : i \in 1 .. Len(link[o]) \/ i = Len(link[o]) + 1
    BY <2>1
  <2>3. LinkOk(o)
    BY <1>1
  <2> QED BY <1>1, <2>1, <2>2, <2>3 DEF LinkOk
<1> QED BY <1>1, <1>4, <1>5, <1>6

\* The commands behind the first one.
LEMMA TailFacts ==
  ASSUME NEW s \in Seq(CmdRec), s # <<>>
  PROVE  /\ Len(Tail(s)) = Len(s) - 1 /\ Len(s) \in Nat /\ Len(s) # 0 /\ Head(s) = s[1]
         /\ \A i \in 1 .. Len(s) - 1 : Tail(s)[i] = s[i + 1]
OBVIOUS

\* A command is read from the link.
LEMMA LinkPop ==
  ASSUME TInv, \A r \in Pools : LinkOk(r), NEW p \in Pools, link[p] # <<>>,
         link' = [link EXCEPT ![p] = Tail(@)]
  PROVE  link' \in [Pools -> Seq(CmdRec)] /\ \A r \in Pools : LinkOk(r)'
<1> DEFINE o == Other(p)
<1>1. o \in Pools /\ \A r \in Pools : r = p \/ r = o
  BY OtherPool
<1>2. link \in [Pools -> Seq(CmdRec)]
  BY DEF TInv
<1>3. link'[p] = Tail(link[p]) /\ p # o /\ link'[o] = link[o] /\ link[p] \in Seq(CmdRec)
  BY <1>1, <1>2, OtherPool
<1>4. link' \in [Pools -> Seq(CmdRec)]
  BY <1>1, <1>2, <1>3
<1> HIDE DEF o
<1>5. LinkOk(o)'
  BY <1>1, <1>3 DEF LinkOk
<1>6. LinkOk(p)'
  <2>1. /\ Len(link'[p]) = Len(link[p]) - 1 /\ Len(link[p]) \in Nat
        /\ \A i \in 1 .. Len(link[p]) - 1 : link'[p][i] = link[p][i + 1]
    BY <1>3, TailFacts
  <2>2. \A i \in 1 .. Len(link'[p]) : /\ i + 1 \in 1 .. Len(link[p])
                                         /\ link'[p][i] = link[p][i + 1]
    BY <2>1
  <2>3. LinkOk(p)
    BY Zenon
  <2> QED BY <2>2, <2>3 DEF LinkOk
<1> QED BY <1>1, <1>4, <1>5, <1>6

\* A step that changes nothing for id.
LEMMA CrossSame ==
  ASSUME NEW id \in Ids, Cross(id), link' = link,
         \A r \in Pools : Side(r, id)' = Side(r, id)
  PROVE  Cross(id)'
<1>1. id.pool \in Pools /\ Other(id.pool) \in Pools
  BY OtherPool DEF Ids
<1> QED BY <1>1 DEF Cross

\* A command about something else is written.
LEMMA CrossPush ==
  ASSUME TInv, NEW id \in Ids, Cross(id), NEW p \in Pools, NEW m \in CmdRec,
         link' = [link EXCEPT ![Other(p)] = Append(@, m)],
         \A r \in Pools : Side(r, id)' = Side(r, id),
         ~(m.id = id /\ m.cmd \in Opening \cup {"EOS"})
  PROVE  Cross(id)'
<1> DEFINE o == Other(p)
<1>1. o \in Pools /\ Other(o) = p /\ o # p /\ \A r \in Pools : r = p \/ r = o
  BY OtherPool
<1>2. link'[o] = Append(link[o], m) /\ link'[p] = link[p]
      /\ link[o] \in Seq(CmdRec) /\ link[p] \in Seq(CmdRec)
  BY <1>1 DEF TInv
<1>3. id.pool \in Pools
  BY DEF Ids
<1> HIDE DEF o
<1>4. CASE id.pool = p
  <2>1. CrossOk(id, Side(p, id), Side(o, id), link[o], link[p])
    BY <1>4 DEF Cross, o
  <2>2. CrossOk(id, Side(p, id), Side(o, id), Append(link[o], m), link[p])
    BY <1>2, <2>1, CrossOut
  <2> QED BY <1>1, <1>2, <1>4, <2>2 DEF Cross, o
<1>5. CASE id.pool = o
  <2>1. CrossOk(id, Side(o, id), Side(p, id), link[p], link[o])
    BY <1>1, <1>5 DEF Cross
  <2>2. CrossOk(id, Side(o, id), Side(p, id), link[p], Append(link[o], m))
    BY <1>2, <2>1, CrossBack
  <2> QED BY <1>1, <1>2, <1>5, <2>2 DEF Cross
<1> QED BY <1>1, <1>3, <1>4, <1>5

\* A command that does not end the connection is read, with no other change.
LEMMA CrossPop ==
  ASSUME TInv, NEW id \in Ids, Cross(id), NEW p \in Pools, link[p] # <<>>,
         link' = [link EXCEPT ![p] = Tail(@)],
         \A r \in Pools : Side(r, id)' = Side(r, id),
         ~(Head(link[p]).id = id /\ Head(link[p]).cmd = "EOS")
  PROVE  Cross(id)'
<1> DEFINE o == Other(p)
<1>1. o \in Pools /\ Other(o) = p /\ o # p /\ \A r \in Pools : r = p \/ r = o
  BY OtherPool
<1>2. link'[p] = Tail(link[p]) /\ link'[o] = link[o]
      /\ link[o] \in Seq(CmdRec) /\ link[p] \in Seq(CmdRec)
  BY <1>1 DEF TInv
<1>3. id.pool \in Pools
  BY DEF Ids
<1> HIDE DEF o
<1>4. CASE id.pool = p
  <2>1. CrossOk(id, Side(p, id), Side(o, id), link[o], link[p])
    BY <1>4 DEF Cross, o
  <2>2. CrossOk(id, Side(p, id), Side(o, id), link[o], Tail(link[p]))
    BY <1>2, <2>1, CrossBackTail
  <2> QED BY <1>1, <1>2, <1>4, <2>2 DEF Cross, o
<1>5. CASE id.pool = o
  <2>1. CrossOk(id, Side(o, id), Side(p, id), link[p], link[o])
    BY <1>1, <1>5 DEF Cross
  <2>2. CrossOk(id, Side(o, id), Side(p, id), Tail(link[p]), link[o])
    BY <1>2, <2>1, CrossOutTail
  <2> QED BY <1>1, <1>2, <1>5, <2>2 DEF Cross
<1> QED BY <1>1, <1>3, <1>4, <1>5

\* Nothing is asked for that was not asked for before; d says how far the commands of
\* a link have moved up.
LEMMA StageSame ==
  ASSUME NEW k, StageOk(k), NEW d \in [Pools -> Nat],
         \A p \in Pools : \A a : NewAt(k, p, a)' => NewAt(k, p, a),
         \A p \in Pools : \A i : AskedAt(k, p, i)' => i \in Nat /\ AskedAt(k, p, i + d[p]),
         req'[k] = req[k],
         sent'[<<"client", k>>].open = sent[<<"client", k>>].open,
         sent'[<<"server", k>>].open = sent[<<"server", k>>].open
  PROVE  StageOk(k)'
<1>1. \A p, r \in Pools : \A i, j : AskedAt(k, p, i)' /\ AskedAt(k, r, j)' => p = r /\ i = j
  <2> SUFFICES ASSUME NEW p \in Pools, NEW r \in Pools, NEW i, NEW j,
                      AskedAt(k, p, i)', AskedAt(k, r, j)'
               PROVE  p = r /\ i = j
    OBVIOUS
  <2>1. i \in Nat /\ j \in Nat /\ AskedAt(k, p, i + d[p]) /\ AskedAt(k, r, j + d[r])
    OBVIOUS
  <2>2. p = r /\ i + d[p] = j + d[r]
    BY <2>1 DEF StageOk
  <2>3. d[p] \in Nat
    OBVIOUS
  <2> QED BY <2>1, <2>2, <2>3
<1>2. \A p, r \in Pools : \A a, b : NewAt(k, p, a)' /\ NewAt(k, r, b)' => p = r /\ a = b
  BY DEF StageOk
<1>3. \A p, r \in Pools : \A a, i : ~(NewAt(k, p, a)' /\ AskedAt(k, r, i)')
  BY DEF StageOk
<1>4. Served(k)' <=> Served(k)
  BY DEF Served
<1>5. (\E p \in Pools : \E a : NewAt(k, p, a)' \/ AskedAt(k, p, a)') =>
        \E p \in Pools : \E a : NewAt(k, p, a) \/ AskedAt(k, p, a)
  OBVIOUS
<1> QED BY <1>1, <1>2, <1>3, <1>4, <1>5 DEF StageOk

\* No connection is new that was not before; nobody connects.
NoneNew ==
  \A p \in Pools : \A a \in DOMAIN hnd'[p] :
    hnd'[p][a].new => a \in DOMAIN hnd[p] /\ hnd[p][a].new /\ hnd'[p][a].end = hnd[p][a].end
SameOpen == req' = req /\ \A e \in Ends : sent'[e].open = sent[e].open

\* When no client arrives, a new one was there before.
LEMMA NewBefore ==
  ASSUME NoneNew, NEW k, NEW p \in Pools, NEW a, NewAt(k, p, a)'
  PROVE  NewAt(k, p, a)
BY DEF NoneNew, NewAt

\* A step that moves no request and opens nothing.
LEMMA StageQuiet ==
  ASSUME NEW k \in Clients, StageOk(k), TInv, link' = link, NoneNew, SameOpen
  PROVE  StageOk(k)'
<1> DEFINE d == [p \in Pools |-> 0]
<1>1. d \in [Pools -> Nat] /\ \A p \in Pools : d[p] = 0
  OBVIOUS
<1> HIDE DEF d
<1>2. ASSUME NEW p \in Pools, NEW i, AskedAt(k, p, i)'
      PROVE  i \in Nat /\ AskedAt(k, p, i + d[p])
  <2>1. AskedAt(k, p, i) /\ i \in 1 .. Len(link[p])
    BY <1>2 DEF AskedAt
  <2>2. i \in Nat /\ i + d[p] = i
    BY <1>1, <2>1
  <2> QED BY <2>1, <2>2
<1>3. <<"client", k>> \in Ends /\ <<"server", k>> \in Ends
  BY DEF Ends
<1> QED BY <1>1, <1>2, <1>3, NewBefore, StageSame DEF SameOpen

\* Such a step that writes a command.
LEMMA StagePush ==
  ASSUME NEW k \in Clients, StageOk(k), TInv, NEW p \in Pools, NEW m \in CmdRec,
         m.cmd \notin Opening, link' = [link EXCEPT ![Other(p)] = Append(@, m)], NoneNew, SameOpen
  PROVE  StageOk(k)'
<1> DEFINE d == [r \in Pools |-> 0]
<1>1. d \in [Pools -> Nat] /\ \A r \in Pools : d[r] = 0
  OBVIOUS
<1> HIDE DEF d
<1>2. ASSUME NEW r \in Pools, NEW i, AskedAt(k, r, i)'
      PROVE  i \in Nat /\ AskedAt(k, r, i + d[r])
  <2>1. link[r] \in Seq(CmdRec) /\ (link'[r] = link[r] \/ link'[r] = Append(link[r], m))
    BY DEF TInv
  <2>2. i \in 1 .. Len(link'[r]) /\ link'[r][i].cmd \in Opening /\ link'[r][i].items[1].k = k
    BY <1>2 DEF AskedAt
  <2>3. i \in 1 .. Len(link[r]) /\ link'[r][i] = link[r][i] /\ i \in Nat
    BY <2>1, <2>2
  <2>4. i + d[r] = i
    BY <1>1, <2>3
  <2> QED BY <2>2, <2>3, <2>4 DEF AskedAt
<1>3. <<"client", k>> \in Ends /\ <<"server", k>> \in Ends
  BY DEF Ends
<1> QED BY <1>1, <1>2, <1>3, NewBefore, StageSame DEF SameOpen

\* What is asked for after the first command of a link was taken.
LEMMA AskedPop ==
  ASSUME TInv, NEW p \in Pools, link[p] # <<>>, link' = [link EXCEPT ![p] = Tail(@)], NEW k
  PROVE  \E d \in [Pools -> Nat] :
           /\ d[p] = 1
           /\ \A r \in Pools : \A i : AskedAt(k, r, i)' => i \in Nat /\ AskedAt(k, r, i + d[r])
<1> DEFINE d == [r \in Pools |-> IF r = p THEN 1 ELSE 0]
<1>1. d \in [Pools -> Nat] /\ d[p] = 1 /\ \A r \in Pools : r # p => d[r] = 0
  OBVIOUS
<1> HIDE DEF d
<1>2. ASSUME NEW r \in Pools, NEW i, AskedAt(k, r, i)'
      PROVE  i \in Nat /\ AskedAt(k, r, i + d[r])
  <2>1. i \in 1 .. Len(link'[r]) /\ link'[r][i].cmd \in Opening /\ link'[r][i].items[1].k = k
    BY <1>2 DEF AskedAt
  <2>2. CASE r = p
    <3>1. link[p] \in Seq(CmdRec) /\ link'[p] = Tail(link[p])
      BY DEF TInv
    <3>2. /\ Len(link'[p]) = Len(link[p]) - 1 /\ Len(link[p]) \in Nat
          /\ \A j \in 1 .. Len(link[p]) - 1 : link'[p][j] = link[p][j + 1]
      BY <3>1, TailFacts
    <3>3. i \in Nat /\ i + 1 \in 1 .. Len(link[p]) /\ link'[p][i] = link[p][i + 1]
      BY <2>1, <2>2, <3>2
    <3> QED BY <1>1, <2>1, <2>2, <3>3 DEF AskedAt
  <2>3. CASE r # p
    <3>1. link'[r] = link[r] /\ link[r] \in Seq(CmdRec)
      BY <2>3 DEF TInv
    <3>2. i \in Nat /\ i + d[r] = i
      BY <1>1, <2>1, <2>3, <3>1
    <3> QED BY <2>1, <3>1, <3>2 DEF AskedAt
  <2> QED BY <2>2, <2>3
<1> QED BY <1>1, <1>2

\* Such a step that reads a command.
LEMMA StagePop ==
  ASSUME NEW k \in Clients, StageOk(k), TInv, NEW p \in Pools, link[p] # <<>>,
         link' = [link EXCEPT ![p] = Tail(@)], NoneNew, SameOpen
  PROVE  StageOk(k)'
<1>1. PICK d \in [Pools -> Nat] :
        \A r \in Pools : \A i : AskedAt(k, r, i)' => i \in Nat /\ AskedAt(k, r, i + d[r])
  BY AskedPop
<1>2. <<"client", k>> \in Ends /\ <<"server", k>> \in Ends
  BY DEF Ends
<1> QED BY <1>1, <1>2, NewBefore, StageSame DEF SameOpen

\* The types, when nobody connects or sends.
LEMMA QuietTypes ==
  ASSUME PInv, UNCHANGED <<top, req, sent>>, link' \in [Pools -> Seq(CmdRec)],
         DOMAIN proxies' = Pools, \A p \in Pools : proxies'[p] \subseteq {Other(p)},
         DOMAIN hnd' = Pools, DOMAIN id2handle' = Pools, DOMAIN loc2connID' = Pools,
         DOMAIN connID2loc' = Pools, DOMAIN connid2proxy' = Pools, DOMAIN proc2proc' = Pools
  PROVE  TInv' /\ CountOk' /\ SameOpen /\ Shut' = Shut
<1>1. top' = top /\ req' = req /\ sent' = sent
  OBVIOUS
<1>2. TInv'
  BY <1>1 DEF PInv, TInv
<1>3. CountOk'
  BY <1>1 DEF PInv, CountOk, Opened
<1>4. SameOpen /\ Shut' = Shut
  BY <1>1 DEF SameOpen, Shut
<1> QED BY <1>2, <1>3, <1>4

-----------------------------------------------------------------------------
(* Steps that leave the maps alone *)

\* One Handle changes, and no two-hop connection sees it.
LEMMA HandleStep ==
  ASSUME PInv, NEW p \in Pools, NEW a \in DOMAIN hnd[p], NEW x,
         hnd'[p] = [hnd[p] EXCEPT ![a] = x], hnd'[Other(p)] = hnd[Other(p)],
         UNCHANGED <<tables, top, sent>>,
         Clean(x, Shut), x.end = hnd[p][a].end, x.rd <=> hnd[p][a].rd, ~x.new,
         (x.wr <=> hnd[p][a].wr) \/ a \notin id2handle[p]
  PROVE  /\ LocalOk(p)' /\ Elsewhere(p) /\ NoneNew
         /\ \A r \in Pools : \A id : Side(r, id)' = Side(r, id)
<1> DEFINE h == hnd[p]
           g == [h EXCEPT ![a] = x]
           o == Other(p)
<1>1. /\ id2handle' = id2handle /\ loc2connID' = loc2connID /\ connID2loc' = connID2loc
      /\ connid2proxy' = connid2proxy /\ proc2proc' = proc2proc /\ top' = top /\ sent' = sent
  BY DEF tables
<1>2. o \in Pools /\ \A r \in Pools : r = p \/ r = o
  BY OtherPool
<1>3. Elsewhere(p)
  BY <1>1 DEF Elsewhere
<1>4. Local(p, h, id2handle[p], loc2connID[p], connID2loc[p], connid2proxy[p],
            proc2proc[p], top[p], Shut)
  BY DEF PInv, LocalOk
<1>5. a \in DOMAIN loc2connID[p] => ~Closed(x)
  <2> SUFFICES ASSUME a \in DOMAIN loc2connID[p] PROVE ~Closed(x)
    OBVIOUS
  <2>1. a \in id2handle[p] /\ ~Closed(h[a])
    BY <1>4 DEF Local, Remote
  <2> QED BY <2>1 DEF Closed
<1>6. Local(p, g, id2handle[p], loc2connID[p], connID2loc[p], connid2proxy[p],
            proc2proc[p], top[p], Shut)
  BY <1>4, <1>5, LocalChange
<1>7. Shut' = Shut
  BY <1>1 DEF Shut
<1>8. LocalOk(p)'
  BY <1>1, <1>6, <1>7 DEF LocalOk
<1>9. DOMAIN g = DOMAIN h /\ g[a] = x /\ \A b \in DOMAIN h : b # a => g[b] = h[b]
  OBVIOUS
<1>10. \A id \in DOMAIN connID2loc[p] : connID2loc[p][id] \in id2handle[p]
                                        /\ connID2loc[p][id] \in DOMAIN h
  BY <1>4 DEF Local, Remote, Handles
<1>11. hnd'[p] = g /\ hnd'[o] = hnd[o]
  OBVIOUS
<1> HIDE DEF g, o, h
<1>12. \A id : Side(p, id)' = Side(p, id)
  <2> TAKE id
  <2>1. id \in DOMAIN connID2loc[p] => /\ g[connID2loc[p][id]].rd <=> h[connID2loc[p][id]].rd
                                       /\ g[connID2loc[p][id]].wr <=> h[connID2loc[p][id]].wr
    BY <1>9, <1>10 DEF h
  <2>2. SideOf(g, connID2loc[p], id) = SideOf(h, connID2loc[p], id)
    BY <2>1 DEF SideOf
  <2> QED BY <1>1, <1>11, <2>2 DEF Side, h
<1>13. \A id : Side(o, id)' = Side(o, id)
  BY <1>3, OtherSide DEF o
<1>14. NoneNew
  BY <1>2, <1>9, <1>11 DEF NoneNew, h
<1> QED BY <1>2, <1>3, <1>8, <1>12, <1>13, <1>14

\* The parts of the invariant that a step of a proxy starts from.
LEMMA Parts ==
  ASSUME PInv
  PROVE  /\ TInv /\ CountOk /\ \A r \in Pools : LinkOk(r)
         /\ \A id \in Ids : Cross(id)
         /\ \A k \in Clients : StageOk(k)
BY DEF PInv

\* Nothing at a proxy changes but what is on its link.
LEMMA LinkStep ==
  ASSUME PInv, NEW p \in Pools, UNCHANGED <<hnd, tables, top, sent>>
  PROVE  /\ LocalOk(p)' /\ Elsewhere(p) /\ NoneNew
         /\ \A r \in Pools : \A id : Side(r, id)' = Side(r, id)
<1>1. /\ id2handle' = id2handle /\ loc2connID' = loc2connID /\ connID2loc' = connID2loc
      /\ connid2proxy' = connid2proxy /\ proc2proc' = proc2proc /\ top' = top /\ sent' = sent
      /\ hnd' = hnd
  BY DEF tables
<1>2. Elsewhere(p)
  BY <1>1 DEF Elsewhere
<1>3. LocalOk(p)
  BY DEF PInv
<1>4. Shut' = Shut
  BY <1>1 DEF Shut
<1>5. LocalOk(p)'
  BY <1>1, <1>3, <1>4 DEF LocalOk
<1>6. NoneNew
  BY <1>1 DEF NoneNew
<1>7. \A r \in Pools : \A id : Side(r, id)' = Side(r, id)
  BY <1>1 DEF Side
<1> QED BY <1>2, <1>5, <1>6, <1>7

\* The fields of a command.
LEMMA CommandFacts ==
  ASSUME NEW c \in {"PRX", "CONN", "CONN_COLL", "FWD", "EOS"}, NEW id \in Ids \cup {NoId},
         NEW items \in Seq(ItemRec)
  PROVE  /\ Command(c, id, items) \in CmdRec /\ Command(c, id, items).cmd = c
         /\ Command(c, id, items).id = id /\ Command(c, id, items).items = items
BY DEF Command, CmdRec

\* No connection has the identifier of a greeting between proxies.
LEMMA IdNotNo == ASSUME NEW id \in Ids PROVE id # NoId
<1>1. id.pool \in {"A", "B"}
  BY DEF Ids, Pools
<1>2. NoId.pool = ""
  BY DEF NoId
<1> QED BY <1>1, <1>2

\* The proxies connect to each other.
LEMMA ConnectProxiesInv == ASSUME PInv, ConnectProxies PROVE PInv'
<1> DEFINE m == Command("PRX", NoId, <<>>)
           p == "A"
<1>1. p \in Pools
  BY DEF Pools
<1>2. TInv /\ \A r \in Pools : LinkOk(r)
  BY Parts
<1>3. m \in CmdRec /\ m.cmd = "PRX" /\ m.id = NoId
  <2> DEFINE z == <<>>
  <2>1. z \in Seq(ItemRec)
    OBVIOUS
  <2> HIDE DEF z
  <2>2. /\ Command("PRX", NoId, z) \in CmdRec
        /\ Command("PRX", NoId, z).cmd = "PRX" /\ Command("PRX", NoId, z).id = NoId
    BY <2>1, CommandFacts
  <2> QED BY <2>2 DEF z
<1> HIDE DEF m
<1>4. link' = [link EXCEPT ![Other(p)] = Append(@, m)]
  <2>1. link' = [link EXCEPT ![Other(p)] = @ \o <<m>>]
    BY DEF ConnectProxies, Write, m
  <2>2. link[Other(p)] \in Seq(CmdRec)
    BY <1>1, <1>2, OtherPool DEF TInv
  <2>3. link[Other(p)] \o <<m>> = Append(link[Other(p)], m)
    BY <1>3, <2>2
  <2> QED BY <2>1, <2>3
<1>5. UNCHANGED <<hnd, tables, top, req, sent>> /\ proxies' = [proxies EXCEPT ![p] = {"B"}]
  BY DEF ConnectProxies
<1>6. m.cmd \notin Opening /\ m.cmd # "EOS"
  BY <1>3 DEF Opening
<1> HIDE DEF p
<1>7. link' \in [Pools -> Seq(CmdRec)] /\ \A r \in Pools : LinkOk(r)'
  BY <1>1, <1>2, <1>3, <1>4, <1>6, LinkPush
<1>8. DOMAIN proxies' = Pools /\ \A r \in Pools : proxies'[r] \subseteq {Other(r)}
  <2>1. Other("A") = "B"
    BY OtherPool DEF Pools
  <2> QED BY <1>1, <1>2, <1>5, <2>1 DEF TInv, p
<1>9. TInv' /\ CountOk' /\ SameOpen /\ Shut' = Shut
  BY <1>2, <1>5, <1>7, <1>8, QuietTypes DEF TInv, tables
<1>10. /\ LocalOk(p)' /\ Elsewhere(p) /\ NoneNew
       /\ \A r \in Pools : \A id : Side(r, id)' = Side(r, id)
  BY <1>1, <1>5, LinkStep
<1>11. \A id \in Ids : Cross(id)'
  BY <1>1, <1>2, <1>3, <1>4, <1>6, <1>10, Parts, CrossPush
<1>12. \A k \in Clients : StageOk(k)'
  BY <1>1, <1>2, <1>3, <1>4, <1>6, <1>9, <1>10, Parts, StagePush
<1> QED BY <1>1, <1>7, <1>9, <1>10, <1>11, <1>12, Assemble

\* A command that is not an end of stream is taken from the link.
LEMMA PopInv ==
  ASSUME PInv, NEW p \in Pools, link[p] # <<>>, Head(link[p]).cmd # "EOS",
         link' = [link EXCEPT ![p] = Tail(@)],
         UNCHANGED <<hnd, tables, top, req, sent>>,
         DOMAIN proxies' = Pools, \A r \in Pools : proxies'[r] \subseteq {Other(r)}
  PROVE  PInv'
<1>1. TInv /\ \A r \in Pools : LinkOk(r)
  BY Parts
<1>2. link' \in [Pools -> Seq(CmdRec)] /\ \A r \in Pools : LinkOk(r)'
  BY <1>1, LinkPop
<1>3. TInv' /\ CountOk' /\ SameOpen /\ Shut' = Shut
  BY <1>1, <1>2, QuietTypes DEF TInv, tables
<1>4. /\ LocalOk(p)' /\ Elsewhere(p) /\ NoneNew
      /\ \A r \in Pools : \A id : Side(r, id)' = Side(r, id)
  BY LinkStep
<1>5. \A id \in Ids : Cross(id)'
  BY <1>1, <1>4, Parts, CrossPop
<1>6. \A k \in Clients : StageOk(k)'
  BY <1>1, <1>3, <1>4, Parts, StagePop
<1> QED BY <1>2, <1>3, <1>4, <1>5, <1>6, Assemble

\* The greeting of a proxy is read.
LEMMA NewProxyInv == ASSUME PInv, NEW p \in Pools, NewProxy(p) PROVE PInv'
<1>1. /\ link[p] # <<>> /\ Head(link[p]).cmd # "EOS" /\ link' = [link EXCEPT ![p] = Tail(@)]
      /\ UNCHANGED <<hnd, tables, top, req, sent>>
      /\ proxies' = [proxies EXCEPT ![p] = @ \cup {Other(p)}]
  BY DEF NewProxy
<1>2. DOMAIN proxies' = Pools /\ \A r \in Pools : proxies'[r] \subseteq {Other(r)}
  BY <1>1 DEF PInv, TInv
<1> QED BY <1>1, <1>2, PopInv

\* A forwarded message is delivered, or nobody is there to get it.
LEMMA FwdFromProxyInv == ASSUME PInv, NEW p \in Pools, FwdFromProxy(p) PROVE PInv'
<1>1. /\ link[p] # <<>> /\ Head(link[p]).cmd # "EOS" /\ link' = [link EXCEPT ![p] = Tail(@)]
      /\ UNCHANGED <<hnd, tables, top, req, sent>> /\ proxies' = proxies
  BY DEF FwdFromProxy, Receive
<1>2. DOMAIN proxies' = Pools /\ \A r \in Pools : proxies'[r] \subseteq {Other(r)}
  BY <1>1 DEF PInv, TInv
<1> QED BY <1>1, <1>2, PopInv

\* The Handle at an address, and what is left of it when messages were taken.
LEMMA HandleAt ==
  ASSUME PInv, NEW p \in Pools, NEW a \in DOMAIN hnd[p]
  PROVE  /\ Clean(hnd[p][a], Shut) /\ hnd[p][a] \in HandleRec
         /\ hnd[p][a].new => /\ a \notin id2handle[p] /\ ~hnd[p][a].rd /\ ~hnd[p][a].wr
                             /\ hnd[p][a].end[1] = "client"
         /\ hnd[p][a].in # <<>> => ~hnd[p][a].rd
<1>1. Clean(hnd[p][a], Shut) /\ (hnd[p][a].new => a \notin id2handle[p])
  BY DEF PInv, LocalOk, Local, Handles
<1> QED BY <1>1 DEF Clean

\* A Handle after n of its messages are read.
LEMMA TakeFacts ==
  ASSUME PInv, NEW p \in Pools, NEW a \in DOMAIN hnd[p], ~hnd[p][a].rd, NEW n \in Nat
  PROVE  /\ Clean(Take(p, a, n), Shut) /\ Take(p, a, n) \in HandleRec
         /\ Take(p, a, n).end = hnd[p][a].end
         /\ ~Take(p, a, n).rd /\ ~Take(p, a, n).new
         /\ Take(p, a, n).wr <=> hnd[p][a].wr
<1>1. Clean(hnd[p][a], Shut) /\ hnd[p][a] \in HandleRec
  BY HandleAt
<1>2. Clean(Take(p, a, n), Shut)
  BY <1>1, CleanTake DEF Take
<1>3. Take(p, a, n) \in HandleRec
  BY <1>2 DEF Clean
<1> QED BY <1>1, <1>2, <1>3 DEF Take, HandleRec

\* What a proxy reads of a handshake.
LEMMA GreetingLength == ASSUME NEW in PROVE Len(Greeting(in)) + 1 \in {2, 3}
<1>1. CASE in[2].what = "team"
  <2>1. Greeting(in) = <<in[2], in[3]>>
    BY <1>1 DEF Greeting
  <2> QED BY <2>1
<1>2. CASE in[2].what # "team"
  <2>1. Greeting(in) = <<in[2]>>
    BY <1>2 DEF Greeting
  <2> QED BY <2>1
<1> QED BY <1>1, <1>2

\* One Handle changes and nothing is sent to the other proxy.
LEMMA QuietHandle ==
  ASSUME PInv, NEW p \in Pools, NEW a \in DOMAIN hnd[p], NEW x,
         hnd' = [hnd EXCEPT ![p][a] = x],
         UNCHANGED <<proxies, link, tables, top, req, sent>>,
         Clean(x, Shut), x.end = hnd[p][a].end, x.rd <=> hnd[p][a].rd, ~x.new,
         (x.wr <=> hnd[p][a].wr) \/ a \notin id2handle[p]
  PROVE  PInv'
<1>1. TInv /\ \A r \in Pools : LinkOk(r)
  BY Parts
<1>2. /\ hnd'[p] = [hnd[p] EXCEPT ![a] = x] /\ hnd'[Other(p)] = hnd[Other(p)]
      /\ DOMAIN hnd' = Pools
  BY <1>1, OtherPool DEF TInv
<1>3. link' = link /\ link' \in [Pools -> Seq(CmdRec)] /\ \A r \in Pools : LinkOk(r)'
  BY <1>1 DEF TInv, LinkOk
<1>4. TInv' /\ CountOk' /\ SameOpen /\ Shut' = Shut
  BY <1>1, <1>2, <1>3, QuietTypes DEF TInv, tables
<1>5. /\ LocalOk(p)' /\ Elsewhere(p) /\ NoneNew
      /\ \A r \in Pools : \A id : Side(r, id)' = Side(r, id)
  BY <1>2, HandleStep
<1>6. \A id \in Ids : Cross(id)'
  BY <1>3, <1>5, Parts, CrossSame
<1>7. \A k \in Clients : StageOk(k)'
  BY <1>1, <1>3, <1>4, <1>5, Parts, StageQuiet
<1> QED BY <1>3, <1>4, <1>5, <1>6, <1>7, Assemble

\* A handshake that is not understood, or asks for a pool nobody leads to, is dropped.
LEMMA DropClientInv ==
  ASSUME PInv, NEW p \in Pools, NEW a \in DOMAIN hnd[p], DropClient(p, a) PROVE PInv'
<1> DEFINE in == Pending(p, a)
           n == IF IsFlag(in[2]) THEN Len(Greeting(in)) + 1 ELSE 1
           x == Take(p, a, n)
<1>1. n \in Nat
  BY GreetingLength
<1>2. /\ hnd[p][a].new /\ hnd' = [hnd EXCEPT ![p][a] = x]
      /\ UNCHANGED <<proxies, link, tables, top, req, sent>>
  BY DEF DropClient
<1> HIDE DEF n
<1>3. ~hnd[p][a].rd
  BY <1>2, HandleAt
<1>4. Clean(x, Shut) /\ x.end = hnd[p][a].end /\ ~x.rd /\ ~x.new /\ (x.wr <=> hnd[p][a].wr)
  BY <1>1, <1>3, TakeFacts
<1> QED BY <1>2, <1>3, <1>4, QuietHandle

\* A client whose destination does not answer is closed.
LEMMA RefuseClientInv ==
  ASSUME PInv, NEW p \in Pools, NEW a \in DOMAIN hnd[p], RefuseClient(p, a) PROVE PInv'
<1> DEFINE n == Len(Greeting(Pending(p, a))) + 1
           y == Take(p, a, n)
           x == [y EXCEPT !.wr = TRUE]
<1>1. n \in Nat
  BY GreetingLength
<1>2. /\ hnd[p][a].new /\ hnd' = [hnd EXCEPT ![p][a] = x]
      /\ UNCHANGED <<proxies, link, tables, top, req, sent>>
  BY DEF RefuseClient
<1> HIDE DEF n
<1>3. ~hnd[p][a].rd /\ a \notin id2handle[p]
  BY <1>2, HandleAt
<1>4. /\ Clean(y, Shut) /\ y \in HandleRec
      /\ y.end = hnd[p][a].end /\ ~y.rd /\ ~y.new
  BY <1>1, <1>3, TakeFacts
<1> HIDE DEF y
<1>5. Clean(x, Shut)
  BY <1>4, CleanClose
<1>6. x.end = hnd[p][a].end /\ ~x.rd /\ ~x.new
  BY <1>4 DEF HandleRec
<1> QED BY <1>2, <1>3, <1>5, <1>6, QuietHandle

\* A message of a connected client or component is passed on.
LEMMA ForwardDataInv ==
  ASSUME PInv, NEW p \in Pools, NEW a \in DOMAIN hnd[p], ForwardData(p, a) PROVE PInv'
<1> DEFINE x == Take(p, a, 1)
           items == <<Head(Pending(p, a))>>
<1>1. /\ hnd[p][a].in # <<>> /\ hnd' = [hnd EXCEPT ![p][a] = x]
      /\ UNCHANGED <<proxies, tables, top, req, sent>>
  BY DEF ForwardData, Next1, Pending
<1>2. ~hnd[p][a].rd
  BY <1>1, HandleAt
<1>3. Clean(x, Shut) /\ x.end = hnd[p][a].end /\ ~x.rd /\ ~x.new /\ (x.wr <=> hnd[p][a].wr)
  BY <1>2, TakeFacts
<1> HIDE DEF x
<1>4. CASE link' = link
  BY <1>1, <1>2, <1>3, <1>4, QuietHandle
<1>5. CASE a \in DOMAIN loc2connID[p] /\ Write(p, <<Command("FWD", loc2connID[p][a], items)>>)
  <2> DEFINE m == Command("FWD", loc2connID[p][a], items)
  <2>1. loc2connID[p][a] \in Ids
    <3>1. Remote(p, hnd[p], id2handle[p], loc2connID[p], connID2loc[p], connid2proxy[p])
      BY DEF PInv, LocalOk, Local
    <3> QED BY <1>5, <3>1 DEF Remote
  <2>2. items \in Seq(ItemRec)
    <3>1. hnd[p][a].in \in Seq(ItemRec)
      BY HandleAt DEF HandleRec
    <3>2. Head(hnd[p][a].in) \in ItemRec
      BY <1>1, <3>1
    <3> QED BY <3>2 DEF Pending
  <2> HIDE DEF items
  <2>3. m \in CmdRec /\ m.cmd = "FWD" /\ m.id # NoId
    BY <2>1, <2>2, CommandFacts, IdNotNo
  <2>4. TInv /\ \A r \in Pools : LinkOk(r)
    BY Parts
  <2>5. link' = [link EXCEPT ![Other(p)] = @ \o <<m>>]
    BY <1>5 DEF Write
  <2> HIDE DEF m
  <2>6. link' = [link EXCEPT ![Other(p)] = Append(@, m)]
    <3>1. link[Other(p)] \in Seq(CmdRec)
      BY <2>4, OtherPool DEF TInv
    <3>2. link[Other(p)] \o <<m>> = Append(link[Other(p)], m)
      BY <2>3, <3>1
    <3> QED BY <2>5, <3>2
  <2>7. m.cmd \notin Opening /\ m.cmd # "EOS" /\ m.cmd # "PRX"
    BY <2>3 DEF Opening
  <2>8. link' \in [Pools -> Seq(CmdRec)] /\ \A r \in Pools : LinkOk(r)'
    BY <2>3, <2>4, <2>6, <2>7, LinkPush
  <2>9. /\ hnd'[p] = [hnd[p] EXCEPT ![a] = x] /\ hnd'[Other(p)] = hnd[Other(p)]
        /\ DOMAIN hnd' = Pools
    BY <1>1, <2>4, OtherPool DEF TInv
  <2>10. TInv' /\ CountOk' /\ SameOpen /\ Shut' = Shut
    BY <1>1, <2>4, <2>8, <2>9, QuietTypes DEF TInv, tables
  <2>11. /\ LocalOk(p)' /\ Elsewhere(p) /\ NoneNew
         /\ \A r \in Pools : \A id : Side(r, id)' = Side(r, id)
    BY <1>1, <1>2, <1>3, <2>9, HandleStep
  <2>12. \A id \in Ids : Cross(id)'
    BY <2>3, <2>4, <2>6, <2>7, <2>11, Parts, CrossPush
  <2>13. \A k \in Clients : StageOk(k)'
    BY <2>3, <2>4, <2>6, <2>7, <2>10, <2>11, Parts, StagePush
  <2> QED BY <2>8, <2>10, <2>11, <2>12, <2>13, Assemble
<1>6. link' = link \/ (a \in DOMAIN loc2connID[p] /\ Write(p, <<Command("FWD", loc2connID[p][a], items)>>))
  BY DEF ForwardData
<1> QED BY <1>4, <1>5, <1>6

-----------------------------------------------------------------------------
(* Ends of streams *)

\* The stages of a connection at one proxy.
LEMMA SideRange ==
  ASSUME NEW p, NEW id PROVE Side(p, id) \in {"none", "open", "rd", "wr"}
BY DEF Side, SideOf

\* g are the handles of the proxy before those nobody keeps are deleted.
LEMMA ReleaseStep ==
  ASSUME PInv, NEW p \in Pools, NEW g, hnd'[p] = Release(g, id2handle'[p]), Elsewhere(p),
         Local(p, g, id2handle'[p], loc2connID'[p], connID2loc'[p], connid2proxy'[p],
               proc2proc'[p], top'[p], Shut'),
         \A b \in DOMAIN g :
           g[b].new => b \in DOMAIN hnd[p] /\ hnd[p][b].new /\ g[b].end = hnd[p][b].end
  PROVE  /\ LocalOk(p)' /\ NoneNew
         /\ \A id : Side(p, id)' = SideOf(g, connID2loc'[p], id)
<1> DEFINE h == hnd'[p]
           kept == id2handle'[p]
           loc == loc2connID'[p]
           ids == connID2loc'[p]
           prx == connid2proxy'[p]
           pp == proc2proc'[p]
           n == top'[p]
           C == Shut'
<1>0. h = Release(g, kept) /\ Local(p, g, kept, loc, ids, prx, pp, n, C)
  OBVIOUS
<1> HIDE DEF h, kept, loc, ids, prx, pp, n, C
<1>9. kept \subseteq DOMAIN g
  BY <1>0 DEF Local, Handles
<1>1. DOMAIN h \subseteq DOMAIN g /\ kept \subseteq DOMAIN h /\ \A a \in DOMAIN h : h[a] = g[a]
  BY <1>0, <1>9, ReleaseFacts
<1>2. Local(p, h, kept, loc, ids, prx, pp, n, C)
  BY <1>0, <1>1, LocalRelease
<1>3. LocalOk(p)'
  BY <1>2 DEF LocalOk, h, kept, loc, ids, prx, pp, n, C
<1>4. \A r \in Pools : r = p \/ r = Other(p)
  BY OtherPool
<1>5. hnd'[Other(p)] = hnd[Other(p)]
  BY DEF Elsewhere
<1>6. NoneNew
  BY <1>1, <1>4, <1>5 DEF NoneNew, h
<1>7. \A id \in DOMAIN ids : ids[id] \in DOMAIN h /\ h[ids[id]] = g[ids[id]]
  BY <1>0, <1>1 DEF Local, Remote
<1>8. \A id : SideOf(h, ids, id) = SideOf(g, ids, id)
  BY <1>7 DEF SideOf
<1> QED BY <1>3, <1>6, <1>8 DEF Side, h, ids

\* The command that ends a stream.
LEMMA EosFacts ==
  ASSUME NEW id \in Ids
  PROVE  EosCommand(id) \in CmdRec /\ EosCommand(id).cmd = "EOS" /\ EosCommand(id).id = id
<1> DEFINE z == <<>>
<1>1. z \in Seq(ItemRec)
  OBVIOUS
<1> HIDE DEF z
<1>2. Command("EOS", id, z) \in CmdRec /\ Command("EOS", id, z).cmd = "EOS"
      /\ Command("EOS", id, z).id = id
  BY <1>1, CommandFacts
<1> QED BY <1>2 DEF EosCommand, z

\* The end of a stream is told to the other proxy.
LEMMA CrossEndStep ==
  ASSUME TInv, NEW id \in Ids, Cross(id), NEW p \in Pools, NEW m \in CmdRec,
         m.cmd = "EOS", m.id = id, link' = [link EXCEPT ![Other(p)] = Append(@, m)],
         Side(p, id) \in {"open", "wr"},
         Side(p, id)' = IF Side(p, id) = "wr" THEN "none" ELSE "rd",
         Side(Other(p), id)' = Side(Other(p), id)
  PROVE  Cross(id)'
<1> DEFINE o == Other(p)
<1>1. o \in Pools /\ Other(o) = p /\ o # p /\ \A r \in Pools : r = p \/ r = o
  BY OtherPool
<1>2. link'[o] = Append(link[o], m) /\ link'[p] = link[p]
      /\ link[o] \in Seq(CmdRec) /\ link[p] \in Seq(CmdRec)
  BY <1>1 DEF TInv
<1>3. id.pool \in Pools /\ Side(o, id) \in {"none", "open", "rd", "wr"}
  BY SideRange DEF Ids
<1>4. Side(o, id)' = Side(o, id)
  OBVIOUS
<1> DEFINE s == Side(p, id)
           z == IF s = "wr" THEN "none" ELSE "rd"
<1>5. Side(p, id)' = z /\ s \in {"open", "wr"}
  OBVIOUS
<1> HIDE DEF o
<1>6. CASE id.pool = p
  <2>1. CrossOk(id, s, Side(o, id), link[o], link[p])
    BY <1>6 DEF Cross, o
  <2> HIDE DEF s
  <2>2. CrossOk(id, z, Side(o, id), Append(link[o], m), link[p])
    BY <1>2, <1>5, <2>1, CrossEnd
  <2> HIDE DEF z
  <2> QED BY <1>1, <1>2, <1>4, <1>5, <1>6, <2>2 DEF Cross, o
<1>7. CASE id.pool = o
  <2>1. CrossOk(id, Side(o, id), s, link[p], link[o])
    BY <1>1, <1>7 DEF Cross
  <2> HIDE DEF s
  <2>2. CrossOk(id, Side(o, id), z, link[p], Append(link[o], m))
    BY <1>2, <1>3, <1>5, <2>1, CrossAnswer
  <2> HIDE DEF z
  <2> QED BY <1>1, <1>2, <1>4, <1>5, <1>7, <2>2 DEF Cross
<1> QED BY <1>1, <1>3, <1>6, <1>7

\* And arrives there.
LEMMA CrossEosStep ==
  ASSUME TInv, NEW id \in Ids, Cross(id), NEW p \in Pools, link[p] # <<>>,
         Head(link[p]).cmd = "EOS", Head(link[p]).id = id,
         link' = [link EXCEPT ![p] = Tail(@)],
         Side(p, id)' = IF Side(p, id) \in {"none", "rd"} THEN "none" ELSE "wr",
         Side(Other(p), id)' = Side(Other(p), id)
  PROVE  Cross(id)'
<1> DEFINE o == Other(p)
<1>1. o \in Pools /\ Other(o) = p /\ o # p /\ \A r \in Pools : r = p \/ r = o
  BY OtherPool
<1>2. link'[p] = Tail(link[p]) /\ link'[o] = link[o]
      /\ link[o] \in Seq(CmdRec) /\ link[p] \in Seq(CmdRec)
  BY <1>1 DEF TInv
<1>3. id.pool \in Pools
  BY DEF Ids
<1>4. Side(o, id)' = Side(o, id)
  OBVIOUS
<1> DEFINE s == Side(p, id)
           z == IF s \in {"none", "rd"} THEN "none" ELSE "wr"
<1>5. Side(p, id)' = z /\ s \in {"none", "open", "rd", "wr"}
  BY SideRange
<1> HIDE DEF o
<1>6. CASE id.pool = p
  <2>1. CrossOk(id, s, Side(o, id), link[o], link[p])
    BY <1>6 DEF Cross, o
  <2> HIDE DEF s
  <2>2. /\ s = "open" \/ s = "rd"
        /\ s = "open" => CrossOk(id, "wr", Side(o, id), link[o], Tail(link[p]))
        /\ s = "rd" => CrossOk(id, "none", Side(o, id), link[o], Tail(link[p]))
    <3> DEFINE back == link[p]
               out == link[o]
               y == Side(o, id)
    <3>1. /\ back \in Seq(CmdRec) /\ back # <<>> /\ CrossOk(id, s, y, out, back)
          /\ Head(back).cmd = "EOS" /\ Head(back).id = id
      BY <1>2, <2>1
    <3> HIDE DEF back, out, y
    <3>2. /\ s = "open" \/ s = "rd"
          /\ s = "open" => CrossOk(id, "wr", y, out, Tail(back))
          /\ s = "rd" => CrossOk(id, "none", y, out, Tail(back))
      BY <3>1, CrossAnswered
    <3> QED BY <3>2 DEF back, out, y
  <2>3. CrossOk(id, z, Side(o, id), link[o], Tail(link[p]))
    <3>1. CASE s = "open"
      <4>1. z = "wr"
        BY <3>1
      <4> QED BY <2>2, <3>1, <4>1
    <3>2. CASE s = "rd"
      <4>1. z = "none"
        BY <3>2
      <4> QED BY <2>2, <3>2, <4>1
    <3> QED BY <2>2, <3>1, <3>2
  <2> HIDE DEF z
  <2> QED BY <1>1, <1>2, <1>4, <1>5, <1>6, <2>3 DEF Cross, o
<1>7. CASE id.pool = o
  <2>1. CrossOk(id, Side(o, id), s, link[p], link[o])
    BY <1>1, <1>7 DEF Cross
  <2> HIDE DEF s
  <2>2. CrossOk(id, Side(o, id), z, Tail(link[p]), link[o])
    BY <1>2, <1>5, <2>1, CrossEnded
  <2> HIDE DEF z
  <2> QED BY <1>1, <1>2, <1>4, <1>5, <1>7, <2>2 DEF Cross
<1> QED BY <1>1, <1>3, <1>6, <1>7

\* The end of a stream is taken from a Handle.
LEMMA EndFacts ==
  ASSUME PInv, NEW p \in Pools, NEW a \in DOMAIN hnd[p], Next1(p, a, TRUE)
  PROVE  LET z == [Take(p, a, 1) EXCEPT !.rd = TRUE] IN
         /\ Clean(z, Shut) /\ z.end = hnd[p][a].end /\ z.rd /\ ~z.new
         /\ z.wr <=> hnd[p][a].wr
         /\ ~hnd[p][a].rd /\ ~hnd[p][a].new
<1>1. /\ hnd[p][a].in # <<>> /\ Head(hnd[p][a].in).what = "eos" /\ ~hnd[p][a].new
  BY DEF Next1, Pending
<1>2. Clean(hnd[p][a], Shut) /\ hnd[p][a] \in HandleRec /\ ~hnd[p][a].rd
  BY <1>1, HandleAt
<1>3. Clean([Take(p, a, 1) EXCEPT !.rd = TRUE], Shut)
  BY <1>1, <1>2, CleanEnd DEF Take
<1>4. /\ Take(p, a, 1) \in HandleRec /\ Take(p, a, 1).end = hnd[p][a].end
      /\ ~Take(p, a, 1).new /\ (Take(p, a, 1).wr <=> hnd[p][a].wr)
  BY <1>2, TakeFacts
<1> DEFINE y == Take(p, a, 1)
<1> HIDE DEF y
<1>5. /\ [y EXCEPT !.rd = TRUE].end = y.end /\ [y EXCEPT !.rd = TRUE].rd
      /\ [y EXCEPT !.rd = TRUE].new = y.new /\ [y EXCEPT !.rd = TRUE].wr = y.wr
  BY <1>4 DEF HandleRec, y
<1> QED BY <1>1, <1>2, <1>3, <1>4, <1>5 DEF y

\* A change of one Handle concerns only the connection it carries.
LEMMA SideOther ==
  ASSUME NEW h, NEW ids, NEW id, NEW a, NEW x,
         id \in DOMAIN ids => ids[id] \in DOMAIN h /\ ids[id] # a
  PROVE  SideOf([h EXCEPT ![a] = x], ids, id) = SideOf(h, ids, id)
<1> DEFINE g == [h EXCEPT ![a] = x]
<1>1. id \in DOMAIN ids => g[ids[id]] = h[ids[id]]
  OBVIOUS
<1> HIDE DEF g
<1>2. SideOf(g, ids, id) = SideOf(h, ids, id)
  BY <1>1 DEF SideOf
<1> QED BY <1>2 DEF g

\* The domains of the tables.
Domains ==
  /\ DOMAIN hnd' = Pools /\ DOMAIN id2handle' = Pools /\ DOMAIN loc2connID' = Pools
  /\ DOMAIN connID2loc' = Pools /\ DOMAIN connid2proxy' = Pools /\ DOMAIN proc2proc' = Pools

\* Handles end and are deleted, and no connection between proxies sees it.
LEMMA QuietRelease ==
  ASSUME PInv, NEW p \in Pools, NEW g, hnd'[p] = Release(g, id2handle'[p]), Elsewhere(p),
         Domains, UNCHANGED <<proxies, link, top, req, sent>>,
         Local(p, g, id2handle'[p], loc2connID'[p], connID2loc'[p], connid2proxy'[p],
               proc2proc'[p], top'[p], Shut),
         \A b \in DOMAIN g :
           g[b].new => b \in DOMAIN hnd[p] /\ hnd[p][b].new /\ g[b].end = hnd[p][b].end,
         \A id : SideOf(g, connID2loc'[p], id) = Side(p, id)
  PROVE  PInv'
<1>1. TInv /\ \A r \in Pools : LinkOk(r)
  BY Parts
<1>2. link' = link /\ link' \in [Pools -> Seq(CmdRec)] /\ \A r \in Pools : LinkOk(r)'
  BY <1>1 DEF TInv, LinkOk
<1>3. TInv' /\ CountOk' /\ SameOpen /\ Shut' = Shut
  BY <1>1, <1>2, QuietTypes DEF TInv, Domains
<1>4. /\ LocalOk(p)' /\ NoneNew
      /\ \A id : Side(p, id)' = SideOf(g, connID2loc'[p], id)
  <2>1. Local(p, g, id2handle'[p], loc2connID'[p], connID2loc'[p], connid2proxy'[p],
               proc2proc'[p], top'[p], Shut')
    BY <1>3
  <2> QED BY <2>1, ReleaseStep
<1>5. \A id \in Ids : Cross(id)'
  <2>1. \A r \in Pools : r = p \/ r = Other(p)
    BY OtherPool
  <2>2. \A id : Side(Other(p), id)' = Side(Other(p), id) /\ Side(p, id)' = Side(p, id)
    BY <1>4, OtherSide
  <2>3. \A id : \A r \in Pools : Side(r, id)' = Side(r, id)
    BY <2>1, <2>2
  <2> QED BY <1>2, <2>3, Parts, CrossSame
<1>6. \A k \in Clients : StageOk(k)'
  BY <1>1, <1>2, <1>3, <1>4, Parts, StageQuiet
<1> QED BY <1>2, <1>3, <1>4, <1>5, <1>6, Assemble

\* The proxy of pool p, as its tables are.
LEMMA LocalAt ==
  ASSUME PInv, NEW p \in Pools
  PROVE  /\ Local(p, hnd[p], id2handle[p], loc2connID[p], connID2loc[p], connid2proxy[p],
                  proc2proc[p], top[p], Shut)
         /\ id2handle[p] \subseteq DOMAIN hnd[p]
         /\ \A b \in DOMAIN loc2connID[p] :
              /\ b \in id2handle[p] /\ ~Closed(hnd[p][b]) /\ loc2connID[p][b] \in Ids
              /\ loc2connID[p][b] \in DOMAIN connID2loc[p]
              /\ connID2loc[p][loc2connID[p][b]] = b
         /\ \A id \in DOMAIN connID2loc[p] :
              /\ id \in Ids /\ connID2loc[p][id] \in DOMAIN loc2connID[p]
              /\ connID2loc[p][id] \in DOMAIN hnd[p] /\ loc2connID[p][connID2loc[p][id]] = id
<1>1. Local(p, hnd[p], id2handle[p], loc2connID[p], connID2loc[p], connid2proxy[p],
            proc2proc[p], top[p], Shut)
  BY DEF PInv, LocalOk
<1>2. id2handle[p] \subseteq DOMAIN hnd[p]
  BY <1>1 DEF Local, Handles
<1>3. \A b \in DOMAIN loc2connID[p] :
        /\ b \in id2handle[p] /\ ~Closed(hnd[p][b]) /\ loc2connID[p][b] \in DOMAIN connID2loc[p]
        /\ connID2loc[p][loc2connID[p][b]] = b
  BY <1>1 DEF Local, Remote
<1>4. \A id \in DOMAIN connID2loc[p] :
        /\ id \in Ids /\ connID2loc[p][id] \in DOMAIN loc2connID[p]
        /\ loc2connID[p][connID2loc[p][id]] = id
  BY <1>1 DEF Local, Remote
<1> QED BY <1>1, <1>2, <1>3, <1>4

\* The end of a stream that is in no map.
LEMMA EndUnknownInv ==
  ASSUME PInv, NEW p \in Pools, NEW a \in DOMAIN hnd[p], EndUnknown(p, a) PROVE PInv'
<1> DEFINE z == [Take(p, a, 1) EXCEPT !.rd = TRUE]
           h == hnd[p]
           g == [h EXCEPT ![a] = z]
<1>1. /\ Next1(p, a, TRUE) /\ a \notin DOMAIN loc2connID[p]
      /\ hnd' = [hnd EXCEPT ![p] = Release(g, id2handle[p])]
      /\ UNCHANGED <<proxies, link, top, req, sent>> /\ UNCHANGED tables
  BY DEF EndUnknown, Next1
<1>2. /\ id2handle' = id2handle /\ loc2connID' = loc2connID /\ connID2loc' = connID2loc
      /\ connid2proxy' = connid2proxy /\ proc2proc' = proc2proc /\ top' = top
  BY <1>1 DEF tables
<1>3. /\ Clean(z, Shut) /\ z.end = h[a].end /\ z.rd /\ ~z.new /\ ~h[a].rd
  BY <1>1, EndFacts
<1>4. TInv
  BY Parts
<1>5. DOMAIN hnd = Pools
  BY <1>4 DEF TInv
<1> HIDE DEF z, g
<1>6. hnd'[p] = Release(g, id2handle'[p]) /\ hnd'[Other(p)] = hnd[Other(p)] /\ DOMAIN hnd' = Pools
  BY <1>1, <1>2, <1>5, OtherPool
<1>7. Elsewhere(p)
  BY <1>2, <1>6 DEF Elsewhere
<1>8. Domains
  BY <1>2, <1>4, <1>6 DEF Domains, TInv
<1>9. Local(p, h, id2handle[p], loc2connID[p], connID2loc[p], connid2proxy[p],
            proc2proc[p], top[p], Shut)
  BY LocalAt
<1>10. Local(p, g, id2handle[p], loc2connID[p], connID2loc[p], connid2proxy[p],
             proc2proc[p], top[p], Shut)
  BY <1>1, <1>3, <1>9, LocalChange DEF g
<1>11. Local(p, g, id2handle'[p], loc2connID'[p], connID2loc'[p], connid2proxy'[p],
             proc2proc'[p], top'[p], Shut)
  BY <1>2, <1>10
<1>12. \A b \in DOMAIN g : g[b].new => b \in DOMAIN h /\ h[b].new /\ g[b].end = h[b].end
  BY <1>3 DEF g
<1>13. \A id : SideOf(g, connID2loc[p], id) = Side(p, id)
  <2>1. \A id \in DOMAIN connID2loc[p] : connID2loc[p][id] \in DOMAIN h /\ connID2loc[p][id] # a
    BY <1>1, LocalAt
  <2> QED BY <2>1, SideOther DEF Side, g
<1> HIDE DEF h
<1>14. \A id : SideOf(g, connID2loc'[p], id) = Side(p, id)
  BY <1>2, <1>13
<1> QED BY <1>1, <1>6, <1>7, <1>8, <1>11, <1>12, <1>14, QuietRelease DEF h

\* Two joined handles: the first ends, the second is closed.
LEMMA EndOneHopInv ==
  ASSUME PInv, NEW p \in Pools, NEW a \in DOMAIN hnd[p], EndOneHop(p, a) PROVE PInv'
<1> DEFINE z == [Take(p, a, 1) EXCEPT !.rd = TRUE]
           h == hnd[p]
           table == [h EXCEPT ![a] = z]
           pp == proc2proc[p]
           kept == id2handle[p]
           b == pp[a]
           g == CloseOf(table, b)
           y == [h[b] EXCEPT !.wr = TRUE]
<1>1. /\ Next1(p, a, TRUE) /\ a \notin DOMAIN loc2connID[p] /\ a \in DOMAIN pp
      /\ IF Closed(g[b])
         THEN /\ proc2proc' = [proc2proc EXCEPT ![p] = Erase(pp, b)]
              /\ id2handle' = [id2handle EXCEPT ![p] = kept \ {b}]
         ELSE proc2proc' = proc2proc /\ id2handle' = id2handle
      /\ hnd' = [hnd EXCEPT ![p] = Release(g, id2handle'[p])]
      /\ UNCHANGED <<proxies, link, top, req, sent>>
  BY DEF EndOneHop, Next1
<1>2. loc2connID' = loc2connID /\ connID2loc' = connID2loc /\ connid2proxy' = connid2proxy
  BY DEF EndOneHop
<1>3. /\ Clean(z, Shut) /\ z.end = h[a].end /\ z.rd /\ ~z.new /\ ~h[a].rd
  BY <1>1, EndFacts
<1>4. TInv
  BY Parts
<1>5. DOMAIN hnd = Pools /\ DOMAIN id2handle = Pools /\ DOMAIN proc2proc = Pools
  BY <1>4 DEF TInv
<1>6. /\ Local(p, h, kept, loc2connID[p], connID2loc[p], connid2proxy[p], pp, top[p], Shut)
      /\ kept \subseteq DOMAIN h
  BY LocalAt
<1>7. /\ b \in DOMAIN pp /\ b # a /\ pp[b] = a /\ b \in kept /\ b \notin DOMAIN loc2connID[p]
      /\ b \in DOMAIN h
  BY <1>1, <1>3, <1>6 DEF Local, Paired
<1>8. Clean(h[b], Shut) /\ ~h[b].new /\ h[b] \in HandleRec
  BY <1>7, HandleAt
<1> HIDE DEF z, b, h
<1>9. /\ Clean(y, Shut) /\ y.end = h[b].end /\ (y.rd <=> h[b].rd) /\ y.wr /\ ~y.new
  <2>1. Clean(y, Shut)
    BY <1>8, CleanClose
  <2> QED BY <1>8, <2>1 DEF HandleRec
<1> DEFINE g2 == [table EXCEPT ![b] = y]
<1>10. table[b] = h[b] /\ DOMAIN table = DOMAIN h /\ table[a] = z
  BY <1>7 DEF h
<1>11. g = g2
  BY <1>10 DEF CloseOf
<1> HIDE DEF y, table
<1>12. Local(p, table, kept, loc2connID[p], connID2loc[p], connid2proxy[p], pp, top[p], Shut)
  BY <1>1, <1>3, <1>6, LocalChange DEF table, h
<1>13. Local(p, g2, kept, loc2connID[p], connID2loc[p], connid2proxy[p], pp, top[p], Shut)
  BY <1>7, <1>9, <1>10, <1>12, LocalChange
<1>14. /\ g[b] = y /\ g[a] = z /\ DOMAIN g = DOMAIN h
       /\ \A c \in DOMAIN h : c # a /\ c # b => g[c] = h[c]
  BY <1>7, <1>10, <1>11 DEF table, h
<1>15. Local(p, g, kept, loc2connID[p], connID2loc[p], connid2proxy[p], pp, top[p], Shut)
  BY <1>11, <1>13
<1> HIDE DEF g, g2, pp, kept
<1>16. Local(p, g, id2handle'[p], loc2connID[p], connID2loc[p], connid2proxy[p],
             proc2proc'[p], top[p], Shut)
  <2>1. CASE Closed(g[b])
    <3>1. g[b].rd /\ g[pp[b]].rd
      BY <1>3, <1>7, <1>14, <2>1 DEF Closed
    <3>2. Local(p, g, kept \ {b}, loc2connID[p], connID2loc[p], connid2proxy[p],
                Erase(pp, b), top[p], Shut)
      BY <1>7, <1>15, <3>1, LocalPart
    <3>3. id2handle'[p] = kept \ {b} /\ proc2proc'[p] = Erase(pp, b)
      BY <1>1, <1>5, <2>1
    <3> QED BY <3>2, <3>3
  <2>2. CASE ~Closed(g[b])
    <3>1. id2handle'[p] = kept /\ proc2proc'[p] = pp
      BY <1>1, <2>2 DEF kept, pp
    <3> QED BY <1>15, <3>1
  <2> QED BY <2>1, <2>2
<1>17. top' = top
  BY <1>1
<1>18. Local(p, g, id2handle'[p], loc2connID'[p], connID2loc'[p], connid2proxy'[p],
             proc2proc'[p], top'[p], Shut)
  BY <1>2, <1>16, <1>17
<1>19. /\ DOMAIN id2handle' = Pools /\ id2handle'[Other(p)] = id2handle[Other(p)]
       /\ DOMAIN proc2proc' = Pools /\ proc2proc'[Other(p)] = proc2proc[Other(p)]
  BY <1>1, <1>5, OtherPool
<1>20. hnd'[p] = Release(g, id2handle'[p]) /\ hnd'[Other(p)] = hnd[Other(p)] /\ DOMAIN hnd' = Pools
  BY <1>1, <1>5, OtherPool
<1>21. Elsewhere(p)
  BY <1>2, <1>17, <1>19, <1>20 DEF Elsewhere
<1>22. Domains
  BY <1>2, <1>4, <1>19, <1>20 DEF Domains, TInv
<1>23. \A c \in DOMAIN g : g[c].new => c \in DOMAIN h /\ h[c].new /\ g[c].end = h[c].end
  <2> TAKE c \in DOMAIN g
  <2>1. c = a \/ c = b \/ g[c] = h[c]
    BY <1>14
  <2> QED BY <1>3, <1>9, <1>14, <2>1
<1>24. \A id : SideOf(g, connID2loc'[p], id) = Side(p, id)
  <2> TAKE id
  <2>1. id \in DOMAIN connID2loc[p] => connID2loc[p][id] \in DOMAIN h /\ connID2loc[p][id] \in DOMAIN loc2connID[p]
    BY LocalAt DEF h
  <2>2. id \in DOMAIN connID2loc[p] => g[connID2loc[p][id]] = h[connID2loc[p][id]]
    BY <1>1, <1>7, <1>14, <2>1
  <2>3. SideOf(g, connID2loc[p], id) = SideOf(h, connID2loc[p], id)
    BY <2>2 DEF SideOf
  <2> QED BY <1>2, <2>3 DEF Side, h
<1> QED BY <1>1, <1>18, <1>20, <1>21, <1>22, <1>23, <1>24, QuietRelease DEF h

\* A two-hop connection that its last end of stream closes.
LEMMA LocalLeave ==
  ASSUME NEW p, NEW h, NEW kept, NEW loc, NEW ids, NEW prx, NEW pp, NEW n, NEW C,
         Local(p, h, kept, loc, ids, prx, pp, n, C), NEW a \in DOMAIN loc, NEW x,
         Clean(x, C), x.end = h[a].end, h[a].rd => x.rd, ~x.new,
         NEW rest, \A d \in prx : d # loc[a] => d \in rest
  PROVE  Local(p, [h EXCEPT ![a] = x], kept \ {a}, Erase(loc, a), Erase(ids, loc[a]), rest,
               pp, n, C)
<1> DEFINE k == kept \ {a}
           l == Erase(loc, a)
           i == Erase(ids, loc[a])
<1>1. a \in DOMAIN h
  BY DEF Local, Handles, Remote
<1>2. Local(p, h, k, l, i, rest, pp, n, C)
  BY LocalForget
<1>3. DOMAIN l = DOMAIN loc \ {a}
  BY EraseFacts
<1> HIDE DEF k, l, i
<1>4. Local(p, [h EXCEPT ![a] = x], k, l, i, rest, pp, n, C)
  BY <1>1, <1>2, <1>3, LocalChange
<1> QED BY <1>4 DEF k, l, i

\* An erased identifier means nothing any more; the others stay.
LEMMA SideErase ==
  ASSUME NEW h, NEW ids, NEW d, NEW id
  PROVE  /\ id = d => SideOf(h, Erase(ids, d), id) = "none"
         /\ id # d => SideOf(h, Erase(ids, d), id) = SideOf(h, ids, id)
<1> DEFINE i == Erase(ids, d)
<1>1. DOMAIN i = DOMAIN ids \ {d} /\ \A x \in DOMAIN i : i[x] = ids[x]
  BY EraseFacts
<1> HIDE DEF i
<1>2. id = d => SideOf(h, i, id) = "none"
  BY <1>1 DEF SideOf
<1>3. id # d => SideOf(h, i, id) = SideOf(h, ids, id)
  BY <1>1 DEF SideOf
<1> QED BY <1>2, <1>3 DEF i

\* The side of a connection whose Handle becomes x, and those of all others.
LEMMA SideChange ==
  ASSUME PInv, NEW p \in Pools, NEW a \in DOMAIN loc2connID[p], NEW x, NEW id
  PROVE  LET h == hnd[p]
             d == loc2connID[p][a]
             g == [h EXCEPT ![a] = x] IN
         /\ id = d => SideOf(g, connID2loc[p], id) =
                        IF x.rd THEN "rd" ELSE IF x.wr THEN "wr" ELSE "open"
         /\ id = d => Side(p, id) =
                        IF h[a].rd THEN "rd" ELSE IF h[a].wr THEN "wr" ELSE "open"
         /\ id # d => SideOf(g, connID2loc[p], id) = Side(p, id)
<1> DEFINE h == hnd[p]
           d == loc2connID[p][a]
           g == [h EXCEPT ![a] = x]
           ids == connID2loc[p]
<1>1. a \in DOMAIN h /\ d \in DOMAIN ids /\ ids[d] = a
  BY LocalAt
<1>2. \A e \in DOMAIN ids : ids[e] \in DOMAIN h /\ loc2connID[p][ids[e]] = e
  BY LocalAt
<1>3. \A e \in DOMAIN ids : e # d => ids[e] # a
  BY <1>2
<1>4. g[a] = x
  BY <1>1
<1>5. id # d => SideOf(g, ids, id) = SideOf(h, ids, id)
  BY <1>2, <1>3, SideOther
<1> HIDE DEF h, d, g, ids
<1>6. id = d => SideOf(g, ids, id) = IF x.rd THEN "rd" ELSE IF x.wr THEN "wr" ELSE "open"
  BY <1>1, <1>4 DEF SideOf
<1>7. id = d => SideOf(h, ids, id) = IF h[a].rd THEN "rd" ELSE IF h[a].wr THEN "wr" ELSE "open"
  BY <1>1 DEF SideOf
<1> QED BY <1>5, <1>6, <1>7 DEF h, d, g, ids, Side

\* The end of the stream of a two-hop connection is told to the other proxy.
LEMMA EndTwoHopsInv ==
  ASSUME PInv, NEW p \in Pools, NEW a \in DOMAIN hnd[p], EndTwoHops(p, a) PROVE PInv'
<1> DEFINE z == [Take(p, a, 1) EXCEPT !.rd = TRUE]
           h == hnd[p]
           g == [h EXCEPT ![a] = z]
           d == loc2connID[p][a]
           m == EosCommand(d)
           o == Other(p)
<1>1. /\ Next1(p, a, TRUE) /\ a \in DOMAIN loc2connID[p] /\ Write(p, <<m>>)
      /\ IF Closed(g[a])
         THEN Forget(p, d, a) /\ connid2proxy' = [connid2proxy EXCEPT ![p] = @ \ {d}]
         ELSE UNCHANGED <<connID2loc, loc2connID, id2handle, connid2proxy>>
      /\ hnd' = [hnd EXCEPT ![p] = Release(g, id2handle'[p])]
      /\ UNCHANGED <<proxies, top, req, sent>> /\ proc2proc' = proc2proc
  BY DEF EndTwoHops, Next1
<1>2. /\ Clean(z, Shut) /\ z.end = h[a].end /\ z.rd /\ ~z.new /\ ~h[a].rd /\ ~h[a].new
      /\ z.wr <=> h[a].wr
  BY <1>1, EndFacts
<1>3. TInv /\ \A r \in Pools : LinkOk(r)
  BY Parts
<1>4. /\ DOMAIN hnd = Pools /\ DOMAIN id2handle = Pools /\ DOMAIN loc2connID = Pools
      /\ DOMAIN connID2loc = Pools /\ DOMAIN connid2proxy = Pools /\ DOMAIN proc2proc = Pools
  BY <1>3 DEF TInv
<1>5. o \in Pools /\ o # p /\ \A r \in Pools : r = p \/ r = o
  BY OtherPool
<1>6. d \in Ids
  BY <1>1, LocalAt
<1> HIDE DEF z
<1>7. m \in CmdRec /\ m.cmd = "EOS" /\ m.id = d /\ m.id # NoId
  BY <1>6, EosFacts, IdNotNo
<1>8. link' = [link EXCEPT ![o] = @ \o <<m>>]
  BY <1>1 DEF Write
<1> HIDE DEF m
<1>9. link' = [link EXCEPT ![o] = Append(@, m)]
  <2>1. link[o] \in Seq(CmdRec)
    BY <1>3, <1>5 DEF TInv
  <2>2. link[o] \o <<m>> = Append(link[o], m)
    BY <1>7, <2>1
  <2> QED BY <1>8, <2>2
<1>10. m.cmd \notin Opening /\ m.cmd # "PRX"
  BY <1>7 DEF Opening
<1>11. link' \in [Pools -> Seq(CmdRec)] /\ \A r \in Pools : LinkOk(r)'
  BY <1>3, <1>7, <1>9, <1>10, LinkPush
<1>12. Local(p, h, id2handle[p], loc2connID[p], connID2loc[p], connid2proxy[p],
             proc2proc[p], top[p], Shut)
  BY LocalAt
<1>13. g[a] = z
  OBVIOUS
<1>14. /\ Local(p, g, id2handle'[p], loc2connID'[p], connID2loc'[p], connid2proxy'[p],
                proc2proc[p], top[p], Shut)
       /\ id2handle'[o] = id2handle[o] /\ loc2connID'[o] = loc2connID[o]
       /\ connID2loc'[o] = connID2loc[o] /\ connid2proxy'[o] = connid2proxy[o]
       /\ DOMAIN id2handle' = Pools /\ DOMAIN loc2connID' = Pools
       /\ DOMAIN connID2loc' = Pools /\ DOMAIN connid2proxy' = Pools
       /\ connID2loc'[p] = IF Closed(z) THEN Erase(connID2loc[p], d) ELSE connID2loc[p]
  <2>1. CASE Closed(z)
    <3>1. /\ connID2loc' = [connID2loc EXCEPT ![p] = Erase(@, d)]
          /\ loc2connID' = [loc2connID EXCEPT ![p] = Erase(@, a)]
          /\ id2handle' = [id2handle EXCEPT ![p] = @ \ {a}]
          /\ connid2proxy' = [connid2proxy EXCEPT ![p] = @ \ {d}]
      BY <1>1, <1>13, <2>1 DEF Forget
    <3>2. /\ connID2loc'[p] = Erase(connID2loc[p], d) /\ loc2connID'[p] = Erase(loc2connID[p], a)
          /\ id2handle'[p] = id2handle[p] \ {a} /\ connid2proxy'[p] = connid2proxy[p] \ {d}
      BY <1>4, <3>1
    <3> DEFINE rest == connid2proxy[p] \ {d}
    <3>3. \A e \in connid2proxy[p] : e # d => e \in rest
      OBVIOUS
    <3> HIDE DEF rest
    <3>4. Local(p, g, id2handle[p] \ {a}, Erase(loc2connID[p], a), Erase(connID2loc[p], d), rest,
                proc2proc[p], top[p], Shut)
      BY <1>1, <1>2, <1>12, <3>3, LocalLeave
    <3> HIDE DEF g, d
    <3>5. Local(p, g, id2handle'[p], loc2connID'[p], connID2loc'[p], connid2proxy'[p],
                proc2proc[p], top[p], Shut)
      BY <3>2, <3>4 DEF rest
    <3> QED BY <1>4, <1>5, <2>1, <3>1, <3>2, <3>5
  <2>2. CASE ~Closed(z)
    <3>1. connID2loc' = connID2loc /\ loc2connID' = loc2connID /\ id2handle' = id2handle
          /\ connid2proxy' = connid2proxy
      BY <1>1, <1>13, <2>2
    <3>2. Local(p, g, id2handle[p], loc2connID[p], connID2loc[p], connid2proxy[p],
                proc2proc[p], top[p], Shut)
      BY <1>2, <1>12, <2>2, LocalChange
    <3> HIDE DEF g, d
    <3> QED BY <1>4, <2>2, <3>1, <3>2
  <2> QED BY <2>1, <2>2
<1>15. hnd'[p] = Release(g, id2handle'[p]) /\ hnd'[o] = hnd[o] /\ DOMAIN hnd' = Pools
  BY <1>1, <1>4, <1>5
<1>16. top' = top /\ proc2proc' = proc2proc
  BY <1>1
<1>17. Elsewhere(p)
  BY <1>14, <1>15, <1>16 DEF Elsewhere
<1>18. TInv' /\ CountOk' /\ SameOpen /\ Shut' = Shut
  <2>1. /\ UNCHANGED <<top, req, sent>> /\ DOMAIN proxies' = Pools
        /\ \A r \in Pools : proxies'[r] \subseteq {Other(r)}
    BY <1>1, <1>3 DEF TInv
  <2> QED BY <1>4, <1>11, <1>14, <1>15, <1>16, <2>1, QuietTypes
<1>19. \A b \in DOMAIN g : g[b].new => b \in DOMAIN h /\ h[b].new /\ g[b].end = h[b].end
  BY <1>2
<1>20. /\ LocalOk(p)' /\ NoneNew
       /\ \A id : Side(p, id)' = SideOf(g, connID2loc'[p], id)
  <2>1. Local(p, g, id2handle'[p], loc2connID'[p], connID2loc'[p], connid2proxy'[p],
              proc2proc'[p], top'[p], Shut')
    BY <1>14, <1>16, <1>18
  <2> HIDE DEF g
  <2> QED BY <1>15, <1>17, <1>19, <2>1, ReleaseStep
<1>21. \A id : /\ id = d => SideOf(g, connID2loc[p], id) = "rd"
               /\ id = d => Side(p, id) = IF h[a].wr THEN "wr" ELSE "open"
               /\ id # d => SideOf(g, connID2loc[p], id) = Side(p, id)
  BY <1>1, <1>2, SideChange
<1>22. Closed(z) <=> h[a].wr
  BY <1>2 DEF Closed
<1> HIDE DEF g, d, h
<1>23. \A id : /\ id = d => /\ Side(p, id) \in {"open", "wr"}
                            /\ Side(p, id)' = IF Side(p, id) = "wr" THEN "none" ELSE "rd"
               /\ id # d => Side(p, id)' = Side(p, id)
  <2> TAKE id
  <2>1. CASE Closed(z)
    <3>1. Side(p, id)' = SideOf(g, Erase(connID2loc[p], d), id)
      BY <1>14, <1>20, <2>1
    <3>2. /\ id = d => Side(p, id)' = "none"
          /\ id # d => Side(p, id)' = SideOf(g, connID2loc[p], id)
      BY <3>1, SideErase
    <3> QED BY <1>21, <1>22, <2>1, <3>2
  <2>2. CASE ~Closed(z)
    <3>1. Side(p, id)' = SideOf(g, connID2loc[p], id)
      BY <1>14, <1>20, <2>2
    <3> QED BY <1>21, <1>22, <2>2, <3>1
  <2> QED BY <2>1, <2>2
<1>24. \A id : Side(o, id)' = Side(o, id)
  BY <1>17, OtherSide
<1>25. \A id \in Ids : Cross(id)'
  <2> TAKE id \in Ids
  <2>1. Cross(id)
    BY Parts
  <2>2. CASE id = d
    BY <1>3, <1>7, <1>9, <1>23, <1>24, <2>1, <2>2, CrossEndStep
  <2>3. CASE id # d
    <3>1. \A r \in Pools : Side(r, id)' = Side(r, id)
      BY <1>5, <1>23, <1>24, <2>3
    <3> QED BY <1>3, <1>7, <1>9, <2>1, <2>3, <3>1, CrossPush
  <2> QED BY <2>2, <2>3
<1>26. \A k \in Clients : StageOk(k)'
  BY <1>3, <1>7, <1>9, <1>10, <1>18, <1>20, Parts, StagePush
<1> QED BY <1>11, <1>17, <1>18, <1>20, <1>25, <1>26, Assemble

\* An end of stream for a connection that this proxy does not know.
LEMMA EosUnknownInv ==
  ASSUME PInv, NEW p \in Pools, link[p] # <<>>, Head(link[p]).cmd = "EOS",
         Head(link[p]).id \notin DOMAIN connID2loc[p],
         link' = [link EXCEPT ![p] = Tail(@)],
         UNCHANGED <<proxies, hnd, tables, top, req, sent>>
  PROVE  PInv'
<1> DEFINE d == Head(link[p]).id
<1>1. TInv /\ \A r \in Pools : LinkOk(r)
  BY Parts
<1>2. link' \in [Pools -> Seq(CmdRec)] /\ \A r \in Pools : LinkOk(r)'
  BY <1>1, LinkPop
<1>3. TInv' /\ CountOk' /\ SameOpen /\ Shut' = Shut
  BY <1>1, <1>2, QuietTypes DEF TInv, tables
<1>4. /\ LocalOk(p)' /\ Elsewhere(p) /\ NoneNew
      /\ \A r \in Pools : \A id : Side(r, id)' = Side(r, id)
  BY LinkStep
<1>5. Side(p, d) = "none"
  BY DEF Side, SideOf
<1>6. Other(p) \in Pools
  BY OtherPool
<1> HIDE DEF d
<1>8. \A id \in Ids : Cross(id)'
  <2> TAKE id \in Ids
  <2>1. Cross(id)
    BY Parts
  <2>2. CASE id = d
    <3>1. Side(p, id)' = IF Side(p, id) \in {"none", "rd"} THEN "none" ELSE "wr"
      BY <1>4, <1>5, <2>2
    <3>2. Side(Other(p), id)' = Side(Other(p), id)
      BY <1>4, <1>6
    <3>3. Head(link[p]).id = id
      BY <2>2 DEF d
    <3> QED BY <1>1, <2>1, <3>1, <3>2, <3>3, CrossEosStep
  <2>3. CASE id # d
    <3>1. ~(Head(link[p]).id = id /\ Head(link[p]).cmd = "EOS")
      BY <2>3 DEF d
    <3> QED BY <1>1, <1>4, <2>1, <3>1, CrossPop
  <2> QED BY <2>2, <2>3
<1>9. \A k \in Clients : StageOk(k)'
  BY <1>1, <1>3, <1>4, Parts, StagePop
<1> QED BY <1>2, <1>3, <1>4, <1>8, <1>9, Assemble

\* And for one it does.
LEMMA EosKnownInv ==
  ASSUME PInv, NEW p \in Pools, EosFromProxy(p), Head(link[p]).id \in DOMAIN connID2loc[p]
  PROVE  PInv'
<1> DEFINE d == Head(link[p]).id
           a == connID2loc[p][d]
           h == hnd[p]
           y == [h[a] EXCEPT !.wr = TRUE]
           g == [h EXCEPT ![a] = y]
           o == Other(p)
<1>1. /\ link[p] # <<>> /\ Head(link[p]).cmd = "EOS" /\ link' = [link EXCEPT ![p] = Tail(@)]
      /\ proxies' = proxies /\ req' = req /\ connid2proxy' = connid2proxy
      /\ proc2proc' = proc2proc /\ top' = top /\ sent' = sent
  BY DEF EosFromProxy, Receive
<1>2. a \in DOMAIN loc2connID[p] /\ a \in DOMAIN h /\ loc2connID[p][a] = d /\ a \in id2handle[p]
  BY LocalAt
<1>3. Clean(h[a], Shut) /\ ~h[a].new /\ h[a] \in HandleRec
  BY <1>2, HandleAt
<1>4. /\ IF Closed(CloseOf(h, a)[a])
         THEN Forget(p, loc2connID[p][a], a)
         ELSE UNCHANGED <<connID2loc, loc2connID, id2handle>>
      /\ hnd' = [hnd EXCEPT ![p] = Release(CloseOf(h, a), id2handle'[p])]
  BY DEF EosFromProxy
<1>5. CloseOf(h, a) = g
  BY DEF CloseOf
<1> HIDE DEF h, a, d
<1>6. g[a] = y
  BY <1>2
<1>7. /\ Clean(y, Shut) /\ y.end = h[a].end /\ (y.rd <=> h[a].rd) /\ y.wr /\ ~y.new
  <2>1. Clean(y, Shut)
    BY <1>3, CleanClose
  <2> QED BY <1>3, <2>1 DEF HandleRec
<1> HIDE DEF y
<1>8. TInv /\ \A r \in Pools : LinkOk(r)
  BY Parts
<1>9. /\ DOMAIN hnd = Pools /\ DOMAIN id2handle = Pools /\ DOMAIN loc2connID = Pools
      /\ DOMAIN connID2loc = Pools /\ DOMAIN connid2proxy = Pools /\ DOMAIN proc2proc = Pools
  BY <1>8 DEF TInv
<1>10. o \in Pools /\ o # p /\ \A r \in Pools : r = p \/ r = o
  BY OtherPool
<1>11. link' \in [Pools -> Seq(CmdRec)] /\ \A r \in Pools : LinkOk(r)'
  BY <1>1, <1>8, LinkPop
<1>12. Local(p, h, id2handle[p], loc2connID[p], connID2loc[p], connid2proxy[p],
             proc2proc[p], top[p], Shut)
  BY LocalAt DEF h
<1>13. /\ Local(p, g, id2handle'[p], loc2connID'[p], connID2loc'[p], connid2proxy[p],
                proc2proc[p], top[p], Shut)
       /\ id2handle'[o] = id2handle[o] /\ loc2connID'[o] = loc2connID[o]
       /\ connID2loc'[o] = connID2loc[o]
       /\ DOMAIN id2handle' = Pools /\ DOMAIN loc2connID' = Pools /\ DOMAIN connID2loc' = Pools
       /\ connID2loc'[p] = IF Closed(y) THEN Erase(connID2loc[p], d) ELSE connID2loc[p]
  <2>1. CASE Closed(y)
    <3>1. /\ connID2loc' = [connID2loc EXCEPT ![p] = Erase(@, d)]
          /\ loc2connID' = [loc2connID EXCEPT ![p] = Erase(@, a)]
          /\ id2handle' = [id2handle EXCEPT ![p] = @ \ {a}]
      BY <1>2, <1>4, <1>5, <1>6, <2>1 DEF Forget
    <3>2. /\ connID2loc'[p] = Erase(connID2loc[p], d) /\ loc2connID'[p] = Erase(loc2connID[p], a)
          /\ id2handle'[p] = id2handle[p] \ {a}
      BY <1>9, <3>1
    <3>3. \A e \in connid2proxy[p] : e # loc2connID[p][a] => e \in connid2proxy[p]
      OBVIOUS
    <3>4. Local(p, g, id2handle[p] \ {a}, Erase(loc2connID[p], a),
                Erase(connID2loc[p], loc2connID[p][a]), connid2proxy[p],
                proc2proc[p], top[p], Shut)
      BY <1>2, <1>7, <1>12, <3>3, LocalLeave
    <3> HIDE DEF g
    <3>5. Local(p, g, id2handle'[p], loc2connID'[p], connID2loc'[p], connid2proxy[p],
                proc2proc[p], top[p], Shut)
      BY <1>2, <3>2, <3>4
    <3> QED BY <1>9, <1>10, <2>1, <3>1, <3>2, <3>5
  <2>2. CASE ~Closed(y)
    <3>1. connID2loc' = connID2loc /\ loc2connID' = loc2connID /\ id2handle' = id2handle
      BY <1>4, <1>5, <1>6, <2>2
    <3>2. Local(p, g, id2handle[p], loc2connID[p], connID2loc[p], connid2proxy[p],
                proc2proc[p], top[p], Shut)
      BY <1>2, <1>7, <1>12, <2>2, LocalChange
    <3> HIDE DEF g
    <3> QED BY <1>9, <2>2, <3>1, <3>2
  <2> QED BY <2>1, <2>2
<1>14. hnd'[p] = Release(g, id2handle'[p]) /\ hnd'[o] = hnd[o] /\ DOMAIN hnd' = Pools
  BY <1>4, <1>5, <1>9, <1>10
<1>15. Elsewhere(p)
  BY <1>1, <1>13, <1>14 DEF Elsewhere
<1>16. TInv' /\ CountOk' /\ SameOpen /\ Shut' = Shut
  <2>1. /\ UNCHANGED <<top, req, sent>> /\ DOMAIN proxies' = Pools
        /\ \A r \in Pools : proxies'[r] \subseteq {Other(r)}
        /\ DOMAIN connid2proxy' = Pools /\ DOMAIN proc2proc' = Pools
    BY <1>1, <1>8 DEF TInv
  <2> QED BY <1>11, <1>13, <1>14, <2>1, QuietTypes
<1>17. \A b \in DOMAIN g : g[b].new => b \in DOMAIN h /\ h[b].new /\ g[b].end = h[b].end
  BY <1>7
<1>18. /\ LocalOk(p)' /\ NoneNew
       /\ \A id : Side(p, id)' = SideOf(g, connID2loc'[p], id)
  <2>1. Local(p, g, id2handle'[p], loc2connID'[p], connID2loc'[p], connid2proxy'[p],
              proc2proc'[p], top'[p], Shut')
    BY <1>1, <1>13, <1>16
  <2> HIDE DEF g
  <2> QED BY <1>14, <1>15, <1>17, <2>1, ReleaseStep DEF h
<1>19. \A id : /\ id = d => SideOf(g, connID2loc[p], id) = IF h[a].rd THEN "rd" ELSE "wr"
               /\ id = d => Side(p, id) = IF h[a].rd THEN "rd" ELSE IF h[a].wr THEN "wr" ELSE "open"
               /\ id # d => SideOf(g, connID2loc[p], id) = Side(p, id)
  BY <1>2, <1>7, SideChange DEF h
<1>20. Closed(y) <=> h[a].rd
  BY <1>7 DEF Closed
<1> HIDE DEF g
<1>21. \A id : /\ id = d => Side(p, id)' = IF Side(p, id) \in {"none", "rd"} THEN "none" ELSE "wr"
               /\ id # d => Side(p, id)' = Side(p, id)
  <2> TAKE id
  <2>1. CASE Closed(y)
    <3>1. Side(p, id)' = SideOf(g, Erase(connID2loc[p], d), id)
      BY <1>13, <1>18, <2>1
    <3>2. /\ id = d => Side(p, id)' = "none"
          /\ id # d => Side(p, id)' = SideOf(g, connID2loc[p], id)
      BY <3>1, SideErase
    <3> QED BY <1>19, <1>20, <2>1, <3>2
  <2>2. CASE ~Closed(y)
    <3>1. Side(p, id)' = SideOf(g, connID2loc[p], id)
      BY <1>13, <1>18, <2>2
    <3> QED BY <1>19, <1>20, <2>2, <3>1
  <2> QED BY <2>1, <2>2
<1>22. \A id : Side(o, id)' = Side(o, id)
  BY <1>15, OtherSide
<1>23. \A id \in Ids : Cross(id)'
  <2> TAKE id \in Ids
  <2>1. Cross(id)
    BY Parts
  <2>2. CASE id = d
    <3>1. Head(link[p]).id = id
      BY <2>2 DEF d
    <3>2. /\ Side(p, id)' = IF Side(p, id) \in {"none", "rd"} THEN "none" ELSE "wr"
          /\ Side(o, id)' = Side(o, id)
      BY <1>21, <1>22, <2>2
    <3> QED BY <1>1, <1>8, <2>1, <3>1, <3>2, CrossEosStep
  <2>3. CASE id # d
    <3>1. \A r \in Pools : Side(r, id)' = Side(r, id)
      BY <1>10, <1>21, <1>22, <2>3
    <3>2. ~(Head(link[p]).id = id /\ Head(link[p]).cmd = "EOS")
      BY <2>3 DEF d
    <3> QED BY <1>1, <1>8, <2>1, <3>1, <3>2, CrossPop
  <2> QED BY <2>2, <2>3
<1>24. \A k \in Clients : StageOk(k)'
  BY <1>1, <1>8, <1>16, <1>18, Parts, StagePop
<1> QED BY <1>11, <1>15, <1>16, <1>18, <1>23, <1>24, Assemble

\* The end of a stream comes from the other proxy.
LEMMA EosFromProxyInv == ASSUME PInv, NEW p \in Pools, EosFromProxy(p) PROVE PInv'
<1>1. CASE Head(link[p]).id \in DOMAIN connID2loc[p]
  BY <1>1, EosKnownInv
<1>2. CASE Head(link[p]).id \notin DOMAIN connID2loc[p]
  <2>1. /\ link[p] # <<>> /\ Head(link[p]).cmd = "EOS" /\ link' = [link EXCEPT ![p] = Tail(@)]
        /\ UNCHANGED <<proxies, hnd, tables, top, req, sent>>
    BY <1>2 DEF EosFromProxy, Receive, tables
  <2> QED BY <1>2, <2>1, EosUnknownInv
<1> QED BY <1>1, <1>2

-----------------------------------------------------------------------------
(* What the ends do *)

\* The ends of the connections.
LEMMA EndType ==
  ASSUME NEW e \in Ends
  PROVE  /\ e[2] \in Clients /\ (e[1] = "client" \/ e[1] = "server") /\ e = <<e[1], e[2]>>
         /\ MaxData[e] \in Nat
<1>1. MaxData \in [Ends -> Nat]
  BY ProxyAssumption DEF Ends
<1>2. MaxData[e] \in Nat
  BY <1>1
<1>3. e[2] \in Clients /\ (e[1] = "client" \/ e[1] = "server") /\ e = <<e[1], e[2]>>
  BY DEF Ends
<1> QED BY <1>2, <1>3

\* The fields of a message.
LEMMA ItemFacts ==
  ASSUME NEW k \in Clients, NEW w \in Whats, NEW n \in Nat
  PROVE  Item(k, w, n) \in ItemRec /\ Item(k, w, n).k = k /\ Item(k, w, n).what = w
BY DEF Item, ItemRec

\* An end sends m, and is s then.
LEMMA ArriveInv ==
  ASSUME PInv, NEW e \in Ends, NEW s \in SentRec, ~sent[e].closed,
         sent' = [sent EXCEPT ![e] = s], s.open = sent[e].open, s.data <= MaxData[e],
         NEW m \in ItemRec, m.k = e[2], m.what = "eos" => s.closed,
         Arrives(e, m), UNCHANGED <<proxies, link, tables, top, req>>
  PROVE  PInv'
<1>1. TInv /\ CountOk /\ \A r \in Pools : LinkOk(r)
  BY Parts
<1>2. /\ id2handle' = id2handle /\ loc2connID' = loc2connID /\ connID2loc' = connID2loc
      /\ connid2proxy' = connid2proxy /\ proc2proc' = proc2proc /\ top' = top
      /\ proxies' = proxies /\ link' = link /\ req' = req
  BY DEF tables
<1>3. sent \in [Ends -> SentRec] /\ top \in [Pools -> Nat] /\ DOMAIN hnd = Pools
  BY <1>1 DEF TInv
<1>4. sent' \in [Ends -> SentRec] /\ sent'[e] = s /\ \A f \in Ends : f # e => sent'[f] = sent[f]
  BY <1>3
<1>5. Shut \subseteq Shut' /\ e \notin Shut /\ (s.closed => e \in Shut')
  BY <1>4 DEF Shut
<1>6. SameOpen
  BY <1>2, <1>4 DEF SameOpen
<1>7. CountOk'
  <2>1. Opened' = Opened
    BY <1>4 DEF Opened
  <2>2. \A f \in Ends : sent'[f].data <= MaxData[f]
    BY <1>1, <1>4 DEF CountOk
  <2> QED BY <1>1, <1>2, <2>1, <2>2 DEF CountOk
<1>8. PICK p \in Pools : \E a \in DOMAIN hnd[p] :
        hnd[p][a].end = e /\ hnd' = [hnd EXCEPT ![p][a].in = Append(@, m)]
  BY DEF Arrives
<1>9. PICK a \in DOMAIN hnd[p] :
        hnd[p][a].end = e /\ hnd' = [hnd EXCEPT ![p][a].in = Append(@, m)]
  BY <1>8
<1> DEFINE h == hnd[p]
           x == [h[a] EXCEPT !.in = Append(@, m)]
           g == [h EXCEPT ![a] = x]
<1>10. Clean(h[a], Shut) /\ h[a] \in HandleRec
  BY HandleAt
<1>11. hnd'[p] = g /\ hnd'[Other(p)] = hnd[Other(p)] /\ DOMAIN hnd' = Pools
  BY <1>3, <1>9, OtherPool
<1>12. Clean(x, Shut')
  BY <1>5, <1>9, <1>10, CleanArrive
<1>13. /\ x.end = h[a].end /\ (x.rd <=> h[a].rd) /\ (x.wr <=> h[a].wr) /\ (x.new <=> h[a].new)
  BY <1>10 DEF HandleRec
<1> HIDE DEF x
<1>14. Local(p, h, id2handle[p], loc2connID[p], connID2loc[p], connid2proxy[p],
             proc2proc[p], top[p], Shut)
  BY LocalAt
<1>15. top[p] \in Nat /\ top[p] >= top[p]
  BY <1>3
<1>16. Local(p, h, id2handle[p], loc2connID[p], connID2loc[p], connid2proxy[p],
             proc2proc[p], top[p], Shut')
  BY <1>5, <1>14, <1>15, LocalGrow
<1>17. a \in DOMAIN loc2connID[p] => ~Closed(x)
  BY <1>13, LocalAt DEF Closed
<1>18. Local(p, g, id2handle[p], loc2connID[p], connID2loc[p], connid2proxy[p],
             proc2proc[p], top[p], Shut')
  BY <1>12, <1>13, <1>16, <1>17, LocalChange
<1>19. DOMAIN g = DOMAIN h /\ g[a] = x /\ \A b \in DOMAIN h : b # a => g[b] = h[b]
  OBVIOUS
<1> HIDE DEF g
<1>20. LocalOk(p)'
  BY <1>2, <1>11, <1>18 DEF LocalOk
<1>21. Elsewhere(p)
  BY <1>2, <1>11 DEF Elsewhere
<1>22. NoneNew
  <2>1. \A r \in Pools : r = p \/ r = Other(p)
    BY OtherPool
  <2> QED BY <1>11, <1>13, <1>19, <2>1 DEF NoneNew
<1>23. \A id : Side(p, id)' = Side(p, id)
  <2> TAKE id
  <2>1. id \in DOMAIN connID2loc[p] => connID2loc[p][id] \in DOMAIN h
    BY LocalAt
  <2>2. id \in DOMAIN connID2loc[p] => /\ g[connID2loc[p][id]].rd <=> h[connID2loc[p][id]].rd
                                       /\ g[connID2loc[p][id]].wr <=> h[connID2loc[p][id]].wr
    BY <1>13, <1>19, <2>1
  <2> HIDE DEF h
  <2>3. SideOf(g, connID2loc[p], id) = SideOf(h, connID2loc[p], id)
    BY <2>2 DEF SideOf
  <2> QED BY <1>2, <1>11, <2>3 DEF Side, h
<1>24. \A r \in Pools : \A id : Side(r, id)' = Side(r, id)
  <2>1. \A id : Side(Other(p), id)' = Side(Other(p), id)
    BY <1>21, OtherSide
  <2>2. \A r \in Pools : r = p \/ r = Other(p)
    BY OtherPool
  <2> QED BY <1>23, <2>1, <2>2
<1>25. \A id \in Ids : Cross(id)'
  BY <1>2, <1>24, Parts, CrossSame
<1>26. \A k \in Clients : StageOk(k)'
  BY <1>1, <1>2, <1>6, <1>22, Parts, StageQuiet
<1>27. TInv' /\ \A r \in Pools : LinkOk(r)'
  <2>1. TInv'
    BY <1>1, <1>2, <1>4, <1>11 DEF TInv
  <2>2. \A r \in Pools : LinkOk(r)'
    BY <1>1, <1>2 DEF LinkOk
  <2> QED BY <2>1, <2>2
<1> QED BY <1>5, <1>7, <1>20, <1>21, <1>25, <1>26, <1>27, Assemble

\* A client or a component sends a message.
LEMMA EndSendInv == ASSUME PInv, NEW e \in Ends, EndSend(e) PROVE PInv'
<1> DEFINE s == [sent[e] EXCEPT !.data = @ + 1]
           m == Item(e[2], "data", sent[e].data + 1)
<1>1. sent[e] \in SentRec /\ e[2] \in Clients /\ MaxData[e] \in Nat
  BY EndType DEF PInv, TInv
<1>2. /\ ~sent[e].closed /\ sent[e].data < MaxData[e] /\ sent' = [sent EXCEPT ![e] = s]
      /\ Arrives(e, m) /\ UNCHANGED <<proxies, link, tables, top, req>>
  BY DEF EndSend
<1>3. s \in SentRec /\ s.open = sent[e].open /\ s.data = sent[e].data + 1 /\ sent[e].data \in Nat
  BY <1>1 DEF SentRec
<1>4. s.data <= MaxData[e] /\ sent[e].data + 1 \in Nat
  BY <1>1, <1>2, <1>3
<1>5. m \in ItemRec /\ m.k = e[2] /\ m.what = "data"
  <2>1. "data" \in Whats
    BY DEF Whats
  <2> QED BY <1>1, <1>4, <2>1, ItemFacts
<1> HIDE DEF s, m
<1>6. m.what = "eos" => s.closed
  BY <1>5
<1> QED BY <1>2, <1>3, <1>4, <1>5, <1>6, ArriveInv

\* A client or a component closes its side.
LEMMA EndCloseInv == ASSUME PInv, NEW e \in Ends, EndClose(e) PROVE PInv'
<1> DEFINE s == [sent[e] EXCEPT !.closed = TRUE]
           m == Item(e[2], "eos", 0)
<1>1. sent[e] \in SentRec /\ e[2] \in Clients /\ sent[e].data <= MaxData[e]
  BY EndType DEF PInv, TInv, CountOk
<1>2. /\ ~sent[e].closed /\ sent' = [sent EXCEPT ![e] = s]
      /\ Arrives(e, m) /\ UNCHANGED <<proxies, link, tables, top, req>>
  BY DEF EndClose
<1>3. s \in SentRec /\ s.open = sent[e].open /\ s.data = sent[e].data /\ s.closed
  BY <1>1 DEF SentRec
<1>4. s.data <= MaxData[e]
  BY <1>1, <1>3
<1>5. m \in ItemRec /\ m.k = e[2]
  <2>1. "eos" \in Whats /\ 0 \in Nat
    BY DEF Whats
  <2> QED BY <1>1, <2>1, ItemFacts
<1> HIDE DEF s, m
<1> QED BY <1>2, <1>3, <1>4, <1>5, ArriveInv

-----------------------------------------------------------------------------
(* New connections *)

\* There are two ends for each client.
LEMMA EndsFinite == IsFiniteSet(Ends) /\ Cardinality(Ends) = 2 * Cardinality(Clients)
<1> DEFINE names == {"client", "server"}
<1>1. IsFiniteSet(Clients)
  BY ProxyAssumption
<1>2. IsFiniteSet(names) /\ Cardinality(names) = 2
  <2>1. IsFiniteSet({"client"}) /\ Cardinality({"client"}) = 1
    BY FS_Singleton
  <2>2. names = {"client"} \cup {"server"} /\ "server" \notin {"client"}
    OBVIOUS
  <2> QED BY <2>1, <2>2, FS_AddElement
<1> HIDE DEF names
<1>3. IsFiniteSet(names \X Clients) /\ Cardinality(names \X Clients) = Cardinality(names) * Cardinality(Clients)
  BY <1>1, <1>2, FS_Product
<1> QED BY <1>2, <1>3 DEF Ends, names

\* Hence finitely many are open.
LEMMA OpenedFinite ==
  /\ IsFiniteSet(Opened) /\ Cardinality(Opened) \in Nat
  /\ Cardinality(Opened) <= 2 * Cardinality(Clients)
<1>1. Opened \subseteq Ends
  BY DEF Opened
<1>2. IsFiniteSet(Opened) /\ Cardinality(Opened) <= Cardinality(Ends)
  BY <1>1, EndsFinite, FS_Subset
<1>3. Cardinality(Opened) \in Nat
  BY <1>2, FS_CardinalityType
<1> QED BY <1>2, <1>3, EndsFinite

\* The end e gets a connection, to the address a of the proxy of pool p.
LEMMA CountAdd ==
  ASSUME TInv, CountOk, NEW p \in Pools, NEW a \in 1 .. top[p] + 1,
         top' = [top EXCEPT ![p] = IF a > @ THEN a ELSE @],
         NEW e \in Ends, ~sent[e].open, sent' = [sent EXCEPT ![e].open = TRUE]
  PROVE  /\ CountOk' /\ top' \in [Pools -> Nat] /\ sent' \in [Ends -> SentRec] /\ Shut' = Shut
         /\ top[p] \in Nat /\ top'[p] \in Nat /\ top'[p] >= top[p] /\ a \in 1 .. top'[p]
         /\ top'[Other(p)] = top[Other(p)]
         /\ sent'[e].open /\ \A f \in Ends : f # e => sent'[f] = sent[f]
<1>1. top \in [Pools -> Nat] /\ sent \in [Ends -> SentRec]
  BY DEF TInv
<1>2. /\ top[p] \in Nat /\ a \in Nat /\ top'[p] = (IF a > top[p] THEN a ELSE top[p])
      /\ top'[Other(p)] = top[Other(p)] /\ top' \in [Pools -> Nat]
  BY <1>1, OtherPool
<1>3. /\ top'[p] \in Nat /\ top'[p] >= top[p] /\ top'[p] <= top[p] + 1 /\ a \in 1 .. top'[p]
  BY <1>2
<1> DEFINE s == [sent[e] EXCEPT !.open = TRUE]
<1>4. sent[e] \in SentRec
  BY <1>1
<1>5. s \in SentRec /\ s.open /\ s.closed = sent[e].closed /\ s.data = sent[e].data
  BY <1>4 DEF SentRec
<1>6. sent' = [sent EXCEPT ![e] = s]
  OBVIOUS
<1> HIDE DEF s
<1>7. sent' \in [Ends -> SentRec] /\ sent'[e] = s /\ \A f \in Ends : f # e => sent'[f] = sent[f]
  BY <1>1, <1>5, <1>6
<1>8. Opened' = Opened \cup {e} /\ e \notin Opened
  BY <1>5, <1>7 DEF Opened
<1>9. Cardinality(Opened') = Cardinality(Opened) + 1 /\ Cardinality(Opened) \in Nat
  BY <1>8, OpenedFinite, FS_AddElement
<1>10. Shut' = Shut
  BY <1>5, <1>7 DEF Shut
<1>11. CountOk'
  <2>1. /\ "A" \in Pools /\ "B" \in Pools /\ top["A"] + top["B"] <= Cardinality(Opened)
        /\ top["A"] \in Nat /\ top["B"] \in Nat /\ top'["A"] \in Nat /\ top'["B"] \in Nat
    BY <1>1, <1>2 DEF CountOk, Pools
  <2>2. (p = "A" /\ top'["B"] = top["B"]) \/ (p = "B" /\ top'["A"] = top["A"])
    BY <1>2, <2>1, OtherPool DEF Pools
  <2>3. top'["A"] + top'["B"] <= Cardinality(Opened')
    BY <1>3, <1>9, <2>1, <2>2
  <2>4. \A f \in Ends : sent'[f].data <= MaxData[f]
    BY <1>5, <1>7 DEF CountOk
  <2> QED BY <2>3, <2>4 DEF CountOk
<1> QED BY <1>2, <1>3, <1>5, <1>7, <1>10, <1>11

\* A client that is neither new nor on the way.
LEMMA StageServed ==
  ASSUME NEW k, \A p \in Pools : \A a : ~NewAt(k, p, a)' /\ ~AskedAt(k, p, a)', req'[k] # NoReq
  PROVE  StageOk(k)'
BY DEF StageOk

\* A client that has asked for nothing is nowhere.
LEMMA StageUnasked ==
  ASSUME NEW k, StageOk(k), req[k] = NoReq
  PROVE  /\ \A p \in Pools : \A a : ~NewAt(k, p, a) /\ ~AskedAt(k, p, a)
         /\ ~sent[<<"client", k>>].open /\ ~Served(k)
BY DEF StageOk

\* A new client is at one place, and its component does not know of it.
LEMMA StageNew ==
  ASSUME NEW k, StageOk(k), NEW p \in Pools, NEW a, NewAt(k, p, a)
  PROVE  /\ \A r \in Pools : \A i : ~AskedAt(k, r, i)
         /\ \A r \in Pools : \A b : NewAt(k, r, b) => r = p /\ b = a
         /\ req[k] # NoReq /\ ~Served(k)
<1>1. req[k] # NoReq /\ ~Served(k)
  BY DEF StageOk
<1> QED BY <1>1 DEF StageOk

\* The messages of a handshake.
LEMMA HandshakeFacts ==
  ASSUME NEW k \in Clients, NEW style
  PROVE  LET in == HandshakeOf(k, style) IN
         /\ in \in Seq(ItemRec) /\ Greeted(in)
         /\ \A i \in 1 .. Len(in) : in[i].k = k /\ in[i].what # "eos"
<1> DEFINE it(w) == Item(k, w, 0)
<1>1. \A w \in Whats : it(w) \in ItemRec /\ it(w).k = k /\ it(w).what = w
  BY ItemFacts
<1>2. "p2p" \in Whats /\ "dest" \in Whats /\ "team" \in Whats /\ "app" \in Whats /\ "teamID" \in Whats
  BY DEF Whats
<1>3. CASE style = "p2p"
  <2>1. HandshakeOf(k, style) = <<it("p2p"), it("dest")>>
    BY <1>3 DEF HandshakeOf, ConnectHandshake
  <2> HIDE DEF it
  <2> DEFINE in == <<it("p2p"), it("dest")>>
  <2>2. in \in Seq(ItemRec) /\ Len(in) = 2 /\ in[1] = it("p2p") /\ in[2] = it("dest")
    BY <1>1, <1>2
  <2> HIDE DEF in
  <2>3. Greeted(in) /\ \A i \in 1 .. Len(in) : in[i].k = k /\ in[i].what # "eos"
    BY <1>1, <1>2, <2>2 DEF Greeted
  <2> QED BY <2>1, <2>2, <2>3 DEF in
<1>4. CASE style # "p2p"
  <2>1. HandshakeOf(k, style) = <<it("dest"), it("team"), it("app"), it("teamID")>>
    BY <1>4 DEF HandshakeOf, TeamHandshake
  <2> HIDE DEF it
  <2> DEFINE in == <<it("dest"), it("team"), it("app"), it("teamID")>>
  <2>2. /\ in \in Seq(ItemRec) /\ Len(in) = 4 /\ in[1] = it("dest") /\ in[2] = it("team")
        /\ in[3] = it("app") /\ in[4] = it("teamID")
    BY <1>1, <1>2
  <2> HIDE DEF in
  <2>3. Greeted(in) /\ \A i \in 1 .. Len(in) : in[i].k = k /\ in[i].what # "eos"
    BY <1>1, <1>2, <2>2 DEF Greeted
  <2> QED BY <2>1, <2>2, <2>3 DEF in
<1> QED BY <1>3, <1>4

\* The Handle of a client that arrives.
LEMMA CleanClient ==
  ASSUME NEW k \in Clients, NEW in \in Seq(ItemRec), Greeted(in), NEW C,
         \A i \in 1 .. Len(in) : in[i].k = k /\ in[i].what # "eos"
  PROVE  LET x == NewHandle(<<"client", k>>, in, TRUE) IN
         Clean(x, C) /\ x.end = <<"client", k>> /\ x.new
<1> DEFINE e == <<"client", k>>
           x == NewHandle(e, in, TRUE)
<1>1. e \in Ends /\ e[1] = "client" /\ e[2] = k
  BY DEF Ends
<1> HIDE DEF e
<1>2. x \in HandleRec /\ x.end = e /\ x.in = in /\ x.new = TRUE /\ x.rd = FALSE /\ x.wr = FALSE
  BY <1>1 DEF NewHandle, HandleRec
<1> HIDE DEF x
<1>3. Clean(x, C)
  BY <1>1, <1>2 DEF Clean
<1> QED BY <1>2, <1>3 DEF x, e

\* The Handle of a connection a proxy opens.
LEMMA CleanServer ==
  ASSUME NEW e \in Ends, NEW C
  PROVE  LET x == NewHandle(e, <<>>, FALSE) IN
         Clean(x, C) /\ x.end = e /\ ~x.new /\ ~x.rd /\ ~x.wr
<1> DEFINE in == <<>>
           x == NewHandle(e, in, FALSE)
<1>1. in \in Seq(ItemRec) /\ Len(in) = 0 /\ 1 .. Len(in) = {}
  OBVIOUS
<1> HIDE DEF in
<1>2. x \in HandleRec /\ x.end = e /\ x.in = in /\ x.new = FALSE /\ x.rd = FALSE /\ x.wr = FALSE
  BY <1>1 DEF NewHandle, HandleRec
<1> HIDE DEF x
<1>3. Clean(x, C)
  BY <1>1, <1>2 DEF Clean
<1> QED BY <1>2, <1>3 DEF x, in

\* A new Handle carries no connection yet.
LEMMA SideAdd ==
  ASSUME NEW h, NEW ids, NEW id, NEW a, NEW x, id \in DOMAIN ids => ids[id] \in DOMAIN h
  PROVE  SideOf(Insert(h, a, x), ids, id) = SideOf(h, ids, id)
<1> DEFINE g == Insert(h, a, x)
<1>1. id \in DOMAIN ids => g[ids[id]] = h[ids[id]]
  BY DEF Insert
<1> HIDE DEF g
<1>2. SideOf(g, ids, id) = SideOf(h, ids, id)
  BY <1>1 DEF SideOf
<1> QED BY <1>2 DEF g

\* A two-hop connection is new at this proxy.
LEMMA SideJoin ==
  ASSUME NEW h, NEW ids, NEW id, NEW d, NEW a, d \notin DOMAIN ids, ~h[a].rd, ~h[a].wr
  PROVE  /\ id = d => SideOf(h, ids, id) = "none" /\ SideOf(h, Insert(ids, d, a), id) = "open"
         /\ id # d => SideOf(h, Insert(ids, d, a), id) = SideOf(h, ids, id)
<1> DEFINE i == Insert(ids, d, a)
<1>1. DOMAIN i = DOMAIN ids \cup {d} /\ i[d] = a /\ \A x \in DOMAIN ids : i[x] = ids[x]
  BY DEF Insert
<1> HIDE DEF i
<1>2. id = d => SideOf(h, ids, id) = "none" /\ SideOf(h, i, id) = "open"
  BY <1>1 DEF SideOf
<1>3. id # d => SideOf(h, i, id) = SideOf(h, ids, id)
  BY <1>1 DEF SideOf
<1> QED BY <1>2, <1>3 DEF i

\* A client connects to the proxy of pool r.via.
LEMMA ClientConnectInv ==
  ASSUME PInv, NEW k \in Clients, NEW r \in Requests[k], ClientConnect(k, r) PROVE PInv'
<1> DEFINE p == r.via
           e == <<"client", k>>
           h == hnd[p]
           o == Other(p)
           x == NewHandle(e, HandshakeOf(k, r.style), TRUE)
<1>1. r \in [style : {"p2p", "team"}, via : Pools, dest : STRING]
  BY ProxyAssumption
<1>2. p \in Pools /\ e \in Ends /\ r # NoReq
        /\ r \in [style : {"p2p", "team", "none"}, via : Pools, dest : Dests]
  <2>1. r.style # "none" /\ NoReq.style = "none"
    BY <1>1 DEF NoReq
  <2>2. p \in Pools /\ r \in [style : {"p2p", "team", "none"}, via : Pools, dest : Dests]
    BY <1>1 DEF Dests
  <2>3. e \in Ends
    BY DEF Ends
  <2>4. r # NoReq
    BY <2>1
  <2> QED BY <2>2, <2>3, <2>4
<1>3. /\ req[k] = NoReq /\ req' = [req EXCEPT ![k] = r]
      /\ sent' = [sent EXCEPT ![e].open = TRUE]
      /\ \E a \in FreeAddr(p) :
           /\ hnd' = [hnd EXCEPT ![p] = Insert(@, a, x)]
           /\ top' = [top EXCEPT ![p] = IF a > @ THEN a ELSE @]
      /\ proxies' = proxies /\ link' = link
      /\ id2handle' = id2handle /\ loc2connID' = loc2connID /\ connID2loc' = connID2loc
      /\ connid2proxy' = connid2proxy /\ proc2proc' = proc2proc
  BY DEF ClientConnect, tables
<1>4. PICK a \in FreeAddr(p) : /\ hnd' = [hnd EXCEPT ![p] = Insert(@, a, x)]
                               /\ top' = [top EXCEPT ![p] = IF a > @ THEN a ELSE @]
  BY <1>3
<1>5. a \in 1 .. top[p] + 1 /\ a \notin DOMAIN h
  BY DEF FreeAddr
<1>6. Clean(x, Shut) /\ x.end = e /\ x.new
  BY HandshakeFacts, CleanClient
<1>7. TInv /\ CountOk /\ \A q \in Pools : LinkOk(q)
  BY Parts
<1>8. /\ \A q \in Pools : \A b : ~NewAt(k, q, b) /\ ~AskedAt(k, q, b)
      /\ ~sent[e].open /\ ~Served(k)
  BY <1>3, Parts, StageUnasked
<1> HIDE DEF x
<1>9. /\ CountOk' /\ top' \in [Pools -> Nat] /\ sent' \in [Ends -> SentRec] /\ Shut' = Shut
      /\ top[p] \in Nat /\ top'[p] \in Nat /\ top'[p] >= top[p] /\ a \in 1 .. top'[p]
      /\ top'[o] = top[o]
      /\ sent'[e].open /\ \A f \in Ends : f # e => sent'[f] = sent[f]
  BY <1>2, <1>3, <1>4, <1>5, <1>7, <1>8, CountAdd
<1>10. /\ DOMAIN hnd = Pools
       /\ req \in [Clients -> [style : {"p2p", "team", "none"}, via : Pools, dest : Dests]]
  BY <1>7 DEF TInv
<1>11. /\ req' \in [Clients -> [style : {"p2p", "team", "none"}, via : Pools, dest : Dests]]
       /\ req'[k] = r /\ \A j \in Clients : j # k => req'[j] = req[j]
  BY <1>2, <1>3, <1>10
<1>12. o \in Pools /\ o # p /\ \A q \in Pools : q = p \/ q = o
  BY <1>2, OtherPool
<1> DEFINE g == Insert(h, a, x)
<1>13. hnd'[p] = g /\ hnd'[o] = hnd[o] /\ DOMAIN hnd' = Pools
  BY <1>2, <1>4, <1>10, <1>12
<1>14. DOMAIN g = DOMAIN h \cup {a} /\ g[a] = x /\ \A b \in DOMAIN h : g[b] = h[b]
  BY <1>5 DEF Insert
<1> HIDE DEF g, e, p
<1>15. Local(p, h, id2handle[p], loc2connID[p], connID2loc[p], connid2proxy[p],
             proc2proc[p], top[p], Shut)
  BY <1>2, LocalAt
<1>16. Local(p, h, id2handle[p], loc2connID[p], connID2loc[p], connid2proxy[p],
             proc2proc[p], top'[p], Shut)
  BY <1>9, <1>15, LocalGrow
<1>17. Local(p, g, id2handle[p], loc2connID[p], connID2loc[p], connid2proxy[p],
             proc2proc[p], top'[p], Shut)
  BY <1>5, <1>6, <1>9, <1>16, LocalAdd DEF g
<1>18. LocalOk(p)'
  BY <1>3, <1>9, <1>13, <1>17 DEF LocalOk
<1>19. Elsewhere(p)
  BY <1>3, <1>9, <1>13 DEF Elsewhere
<1>20. \A id : Side(p, id)' = Side(p, id)
  <2> TAKE id
  <2>1. id \in DOMAIN connID2loc[p] => connID2loc[p][id] \in DOMAIN h
    BY <1>2, LocalAt
  <2>2. SideOf(g, connID2loc[p], id) = SideOf(h, connID2loc[p], id)
    BY <2>1, SideAdd DEF g
  <2> QED BY <1>3, <1>13, <2>2 DEF Side
<1>21. \A q \in Pools : \A id : Side(q, id)' = Side(q, id)
  BY <1>12, <1>19, <1>20, OtherSide
<1>22. \A id \in Ids : Cross(id)'
  BY <1>3, <1>21, Parts, CrossSame
<1>23. \A j \in Clients : \A q \in Pools : \A b :
         /\ NewAt(j, q, b)' => NewAt(j, q, b) \/ (j = k /\ q = p /\ b = a)
         /\ AskedAt(j, q, b)' <=> AskedAt(j, q, b)
  <2> TAKE j \in Clients
  <2> TAKE q \in Pools
  <2> TAKE b
  <2>1. AskedAt(j, q, b)' <=> AskedAt(j, q, b)
    BY <1>3 DEF AskedAt
  <2>2. NewAt(j, q, b)' => NewAt(j, q, b) \/ (j = k /\ q = p /\ b = a)
    <3>1. CASE q = o
      BY <1>13, <3>1 DEF NewAt
    <3>2. CASE q = p
      BY <1>6, <1>13, <1>14, <3>2 DEF NewAt, e
    <3> QED BY <1>12, <3>1, <3>2
  <2> QED BY <2>1, <2>2
<1>24. \A j \in Clients : StageOk(j)'
  <2> TAKE j \in Clients
  <2>1. CASE j = k
    <3>1. \A q \in Pools : \A b : ~AskedAt(k, q, b)' /\ (NewAt(k, q, b)' => q = p /\ b = a)
      BY <1>8, <1>23
    <3>2. req'[k] # NoReq /\ ~Served(k)'
      <4>1. <<"server", k>> \in Ends /\ <<"server", k>> # e
        BY DEF Ends, e
      <4> QED BY <1>2, <1>8, <1>9, <1>11, <4>1 DEF Served
    <3> QED BY <2>1, <3>1, <3>2 DEF StageOk
  <2>2. CASE j # k
    <3> DEFINE d == [q \in Pools |-> 0]
    <3>1. d \in [Pools -> Nat] /\ \A q \in Pools : d[q] = 0
      OBVIOUS
    <3> HIDE DEF d
    <3>2. ASSUME NEW q \in Pools, NEW i, AskedAt(j, q, i)'
          PROVE  i \in Nat /\ AskedAt(j, q, i + d[q])
      <4>1. AskedAt(j, q, i) /\ i \in 1 .. Len(link[q])
        BY <1>23, <3>2 DEF AskedAt
      <4>2. i \in Nat /\ i + d[q] = i
        BY <3>1, <4>1
      <4> QED BY <4>1, <4>2
    <3>3. \A q \in Pools : \A b : NewAt(j, q, b)' => NewAt(j, q, b)
      BY <1>23, <2>2
    <3>4. /\ <<"client", j>> \in Ends /\ <<"server", j>> \in Ends
          /\ <<"client", j>> # e /\ <<"server", j>> # e
      BY <2>2 DEF Ends, e
    <3>5. /\ sent'[<<"client", j>>].open = sent[<<"client", j>>].open
          /\ sent'[<<"server", j>>].open = sent[<<"server", j>>].open
          /\ req'[j] = req[j] /\ StageOk(j)
      BY <1>9, <1>11, <2>2, <3>4, Parts
    <3> QED BY <3>1, <3>2, <3>3, <3>5, StageSame
  <2> QED BY <2>1, <2>2
<1>25. TInv' /\ \A q \in Pools : LinkOk(q)'
  <2>1. TInv'
    BY <1>3, <1>7, <1>9, <1>11, <1>13 DEF TInv
  <2>2. \A q \in Pools : LinkOk(q)'
    BY <1>3, <1>7 DEF LinkOk
  <2> QED BY <2>1, <2>2
<1> QED BY <1>2, <1>9, <1>18, <1>19, <1>22, <1>24, <1>25, Assemble

\* A connection that is new: its client, and what it has sent.
LEMMA NewFacts ==
  ASSUME PInv, NEW p \in Pools, NEW a \in DOMAIN hnd[p], hnd[p][a].new
  PROVE  LET in == hnd[p][a].in
             k == in[1].k IN
         /\ k \in Clients /\ hnd[p][a].end = <<"client", k>> /\ NewAt(k, p, a)
         /\ in \in Seq(ItemRec) /\ in[2] \in ItemRec /\ in[2].k = k
         /\ in[2].what = "team" => in[3] \in ItemRec
         /\ a \notin id2handle[p] /\ a \notin DOMAIN loc2connID[p] /\ ~hnd[p][a].rd /\ ~hnd[p][a].wr
         /\ a \in Nat
<1> DEFINE x == hnd[p][a]
           in == x.in
           k == in[1].k
<1>1. Clean(x, Shut) /\ x \in HandleRec /\ a \notin id2handle[p] /\ ~x.rd /\ ~x.wr
      /\ x.end[1] = "client"
  BY HandleAt
<1>2. a \notin DOMAIN loc2connID[p]
  BY <1>1, LocalAt
<1>3. x.end \in Ends /\ in \in Seq(ItemRec)
  BY <1>1 DEF HandleRec
<1>4. Greeted(in) /\ \A i \in 1 .. Len(in) : in[i].k = x.end[2]
  BY <1>1 DEF Clean
<1>5. Len(in) >= 2 /\ Len(in) \in Nat /\ (in[2].what = "team" => Len(in) >= 3)
  BY <1>3, <1>4 DEF Greeted
<1>6. k = x.end[2] /\ in[2].k = k /\ in[2] \in ItemRec /\ (in[2].what = "team" => in[3] \in ItemRec)
  <2>1. 1 \in 1 .. Len(in) /\ 2 \in 1 .. Len(in) /\ (in[2].what = "team" => 3 \in 1 .. Len(in))
    BY <1>5
  <2>2. \A i \in 1 .. Len(in) : in[i] \in ItemRec
    BY <1>3
  <2> QED BY <1>4, <2>1, <2>2
<1>7. k \in Clients /\ x.end = <<"client", k>>
  BY <1>1, <1>3, <1>6, EndType
<1>8. a \in Nat
  <2>1. DOMAIN hnd[p] \subseteq 1 .. top[p] /\ top[p] \in Nat
    BY DEF PInv, TInv, LocalOk, Local, Handles
  <2> QED BY <2>1
<1>9. NewAt(k, p, a)
  BY <1>7 DEF NewAt
<1> QED BY <1>1, <1>2, <1>3, <1>6, <1>7, <1>8, <1>9

\* Clients other than k, when only the server of k gets a connection.
LEMMA StageElse ==
  ASSUME NEW k \in Clients, NEW j \in Clients, j # k, StageOk(j), req' = req,
         \A f \in Ends : f # <<"server", k>> => sent'[f].open = sent[f].open,
         NoneNew, NEW d \in [Pools -> Nat],
         \A q \in Pools : \A i : AskedAt(j, q, i)' => i \in Nat /\ AskedAt(j, q, i + d[q])
  PROVE  StageOk(j)'
<1>1. /\ <<"client", j>> \in Ends /\ <<"server", j>> \in Ends
      /\ <<"client", j>> # <<"server", k>> /\ <<"server", j>> # <<"server", k>>
  BY DEF Ends
<1>2. /\ sent'[<<"client", j>>].open = sent[<<"client", j>>].open
      /\ sent'[<<"server", j>>].open = sent[<<"server", j>>].open
  BY <1>1
<1>3. \A q \in Pools : \A a : NewAt(j, q, a)' => NewAt(j, q, a)
  BY NewBefore
<1> QED BY <1>2, <1>3, StageSame

\* The proxy joins the client to a component of its own pool.
LEMMA OneHopInv ==
  ASSUME PInv, NEW p \in Pools, NEW a \in DOMAIN hnd[p], OneHop(p, a) PROVE PInv'
<1> DEFINE h == hnd[p]
           in == h[a].in
           n == Len(Greeting(in)) + 1
           t == Take(p, a, n)
           o == Other(p)
           h1 == [h EXCEPT ![a] = t]
           pp == proc2proc[p]
<1>0. h[a].new
  BY DEF OneHop
<1>4. PICK k \in Clients :
        /\ k = in[1].k /\ h[a].end = <<"client", k>> /\ NewAt(k, p, a)
        /\ a \notin id2handle[p] /\ a \notin DOMAIN loc2connID[p] /\ ~h[a].rd
  BY <1>0, NewFacts
<1> DEFINE e == <<"server", k>>
           y == NewHandle(e, <<>>, FALSE)
<1>1. /\ \E b \in FreeAddr(p) :
           /\ hnd' = [hnd EXCEPT ![p] = Insert(h1, b, y)]
           /\ top' = [top EXCEPT ![p] = IF b > @ THEN b ELSE @]
           /\ proc2proc' = [proc2proc EXCEPT ![p] = Insert(Insert(pp, a, b), b, a)]
           /\ id2handle' = [id2handle EXCEPT ![p] = @ \cup {a, b}]
      /\ sent' = [sent EXCEPT ![e].open = TRUE]
      /\ proxies' = proxies /\ link' = link /\ loc2connID' = loc2connID
      /\ connID2loc' = connID2loc /\ connid2proxy' = connid2proxy /\ req' = req
  BY <1>4 DEF OneHop, Pending
<1>2. PICK b \in FreeAddr(p) :
        /\ hnd' = [hnd EXCEPT ![p] = Insert(h1, b, y)]
        /\ top' = [top EXCEPT ![p] = IF b > @ THEN b ELSE @]
        /\ proc2proc' = [proc2proc EXCEPT ![p] = Insert(Insert(pp, a, b), b, a)]
        /\ id2handle' = [id2handle EXCEPT ![p] = @ \cup {a, b}]
  BY <1>1
<1>3. b \in 1 .. top[p] + 1 /\ b \notin DOMAIN h
  BY DEF FreeAddr
<1>5. n \in Nat
  BY GreetingLength
<1> HIDE DEF n
<1>6. Clean(t, Shut) /\ t.end = h[a].end /\ ~t.rd /\ ~t.new
  BY <1>4, <1>5, TakeFacts
<1> HIDE DEF t
<1>7. e \in Ends
  BY DEF Ends
<1>8. Clean(y, Shut) /\ y.end = e /\ ~y.new
  BY <1>7, CleanServer
<1>9. TInv /\ CountOk /\ \A q \in Pools : LinkOk(q)
  BY Parts
<1>10. /\ \A q \in Pools : \A i : ~AskedAt(k, q, i)
       /\ \A q \in Pools : \A c : NewAt(k, q, c) => q = p /\ c = a
       /\ req[k] # NoReq /\ ~Served(k)
  BY <1>4, Parts, StageNew
<1>11. ~sent[e].open
  BY <1>10 DEF Served
<1> HIDE DEF y, e
<1>12. /\ CountOk' /\ top' \in [Pools -> Nat] /\ sent' \in [Ends -> SentRec] /\ Shut' = Shut
       /\ top[p] \in Nat /\ top'[p] \in Nat /\ top'[p] >= top[p] /\ b \in 1 .. top'[p]
       /\ top'[o] = top[o] /\ \A f \in Ends : f # e => sent'[f] = sent[f]
  BY <1>1, <1>2, <1>3, <1>7, <1>9, <1>11, CountAdd
<1>13. DOMAIN hnd = Pools /\ DOMAIN proc2proc = Pools /\ DOMAIN id2handle = Pools
  BY <1>9 DEF TInv
<1>14. o \in Pools /\ o # p /\ \A q \in Pools : q = p \/ q = o
  BY OtherPool
<1> DEFINE g == Insert(h1, b, y)
<1>15. /\ hnd'[p] = g /\ hnd'[o] = hnd[o] /\ DOMAIN hnd' = Pools
       /\ proc2proc'[p] = Insert(Insert(pp, a, b), b, a) /\ proc2proc'[o] = proc2proc[o]
       /\ DOMAIN proc2proc' = Pools
       /\ id2handle'[p] = id2handle[p] \cup {a, b} /\ id2handle'[o] = id2handle[o]
       /\ DOMAIN id2handle' = Pools
  BY <1>2, <1>13, <1>14
<1>16. DOMAIN h1 = DOMAIN h /\ h1[a] = t /\ \A c \in DOMAIN h : c # a => h1[c] = h[c]
  OBVIOUS
<1> HIDE DEF h1
<1>17. DOMAIN g = DOMAIN h \cup {b} /\ g[b] = y /\ \A c \in DOMAIN h : g[c] = h1[c]
  BY <1>3, <1>16 DEF Insert
<1>18. a # b /\ a \in DOMAIN g /\ b \in DOMAIN g /\ g[a] = t
  BY <1>3, <1>16, <1>17
<1>19. Local(p, h, id2handle[p], loc2connID[p], connID2loc[p], connid2proxy[p],
             pp, top[p], Shut) /\ id2handle[p] \subseteq DOMAIN h
  BY LocalAt
<1>20. Local(p, h, id2handle[p], loc2connID[p], connID2loc[p], connid2proxy[p],
             pp, top'[p], Shut)
  BY <1>12, <1>19, LocalGrow
<1>21. Local(p, h1, id2handle[p], loc2connID[p], connID2loc[p], connid2proxy[p],
             pp, top'[p], Shut)
  BY <1>4, <1>6, <1>20, LocalChange DEF h1
<1>22. Local(p, g, id2handle[p], loc2connID[p], connID2loc[p], connid2proxy[p],
             pp, top'[p], Shut)
  BY <1>3, <1>8, <1>12, <1>16, <1>21, LocalAdd
<1> HIDE DEF g
<1>23. Local(p, g, id2handle[p] \cup {a, b}, loc2connID[p], connID2loc[p], connid2proxy[p],
             Insert(Insert(pp, a, b), b, a), top'[p], Shut)
  <2>1. a \notin id2handle[p] /\ b \notin id2handle[p] /\ ~g[a].new /\ ~g[b].new
    BY <1>3, <1>4, <1>6, <1>8, <1>17, <1>18, <1>19
  <2>2. g[a].end[2] = g[b].end[2]
    BY <1>4, <1>6, <1>8, <1>17, <1>18 DEF e
  <2> QED BY <1>18, <1>22, <2>1, <2>2, LocalPair
<1>24. LocalOk(p)'
  BY <1>1, <1>12, <1>15, <1>23 DEF LocalOk
<1>25. Elsewhere(p)
  BY <1>1, <1>12, <1>15 DEF Elsewhere
<1>26. \A id : Side(p, id)' = Side(p, id)
  <2> TAKE id
  <2>1. id \in DOMAIN connID2loc[p] => connID2loc[p][id] \in DOMAIN h /\ connID2loc[p][id] # a
    BY <1>4, LocalAt
  <2>2. id \in DOMAIN connID2loc[p] => g[connID2loc[p][id]] = h[connID2loc[p][id]]
    BY <1>16, <1>17, <2>1
  <2>3. SideOf(g, connID2loc[p], id) = SideOf(h, connID2loc[p], id)
    BY <2>2 DEF SideOf
  <2> QED BY <1>1, <1>15, <2>3 DEF Side
<1>27. \A q \in Pools : \A id : Side(q, id)' = Side(q, id)
  BY <1>14, <1>25, <1>26, OtherSide
<1>28. \A id \in Ids : Cross(id)'
  BY <1>1, <1>27, Parts, CrossSame
<1>29. /\ NoneNew
       /\ \A q \in Pools : \A c : ~NewAt(k, q, c)'
  <2>1. \A c \in DOMAIN g : g[c].new => c \in DOMAIN h /\ c # a /\ g[c] = h[c]
    BY <1>6, <1>8, <1>16, <1>17, <1>18
  <2>2. NoneNew
    BY <1>14, <1>15, <2>1 DEF NoneNew
  <2>3. \A c : ~NewAt(k, p, c)'
    BY <1>10, <1>15, <2>1 DEF NewAt
  <2>4. \A c : ~NewAt(k, o, c)'
    BY <1>10, <1>14, <1>15 DEF NewAt
  <2> QED BY <1>14, <2>2, <2>3, <2>4
<1>30. \A j \in Clients : StageOk(j)'
  <2> TAKE j \in Clients
  <2>1. CASE j = k
    <3>1. \A q \in Pools : \A c : ~NewAt(k, q, c)' /\ ~AskedAt(k, q, c)'
      BY <1>1, <1>10, <1>29 DEF AskedAt
    <3>2. req'[k] # NoReq
      BY <1>1, <1>10
    <3> QED BY <2>1, <3>1, <3>2, StageServed
  <2>2. CASE j # k
    <3> DEFINE d == [q \in Pools |-> 0]
    <3>1. d \in [Pools -> Nat] /\ \A q \in Pools : d[q] = 0
      OBVIOUS
    <3> HIDE DEF d
    <3>2. ASSUME NEW q \in Pools, NEW i, AskedAt(j, q, i)'
          PROVE  i \in Nat /\ AskedAt(j, q, i + d[q])
      <4>1. AskedAt(j, q, i) /\ i \in 1 .. Len(link[q])
        BY <1>1, <3>2 DEF AskedAt
      <4>2. i \in Nat /\ i + d[q] = i
        BY <3>1, <4>1
      <4> QED BY <4>1, <4>2
    <3>3. \A f \in Ends : f # <<"server", k>> => sent'[f].open = sent[f].open
      BY <1>12 DEF e
    <3>4. StageOk(j) /\ req' = req
      BY <1>1, Parts
    <3> QED BY <1>4, <1>29, <2>2, <3>1, <3>2, <3>3, <3>4, StageElse
  <2> QED BY <2>1, <2>2
<1>31. TInv' /\ \A q \in Pools : LinkOk(q)'
  <2>1. TInv'
    BY <1>1, <1>9, <1>12, <1>15 DEF TInv
  <2>2. \A q \in Pools : LinkOk(q)'
    BY <1>1, <1>9 DEF LinkOk
  <2> QED BY <2>1, <2>2
<1> QED BY <1>12, <1>24, <1>25, <1>28, <1>30, <1>31, Assemble

\* The proxy asks the other one for a connection: the link is then s.
LEMMA AskLink ==
  ASSUME PInv, NEW p \in Pools, NEW m \in CmdRec, m.cmd \in Opening, m.id \in Ids,
         m.id.pool = p, m.items # <<>>, NEW s \in Seq(CmdRec),
         link' = [link EXCEPT ![Other(p)] = s],
         \/ s = Append(link[Other(p)], m)
         \/ \E f \in CmdRec : /\ f.cmd = "FWD" /\ f.id \in Ids
                              /\ s = Append(Append(link[Other(p)], m), f)
  PROVE  /\ link' \in [Pools -> Seq(CmdRec)] /\ \A r \in Pools : LinkOk(r)'
         /\ \A k : \A r \in Pools : \A i : AskedAt(k, r, i)' =>
              \/ i \in Nat /\ AskedAt(k, r, i)
              \/ r = Other(p) /\ i = Len(link[r]) + 1 /\ k = m.items[1].k
<1> DEFINE o == Other(p)
           l == link[o]
<1>1. o \in Pools /\ Other(o) = p /\ o # p /\ \A r \in Pools : r = p \/ r = o
  BY OtherPool
<1>2. link \in [Pools -> Seq(CmdRec)] /\ LinkOk(o) /\ LinkOk(p)
  BY <1>1 DEF PInv, TInv
<1>3. l \in Seq(CmdRec) /\ Len(l) \in Nat /\ link'[o] = s /\ link'[p] = link[p]
      /\ link[p] \in Seq(CmdRec) /\ link' \in [Pools -> Seq(CmdRec)]
  BY <1>1, <1>2
<1>4. \A i \in 1 .. Len(s) :
        \/ i \in 1 .. Len(l) /\ s[i] = l[i]
        \/ i = Len(l) + 1 /\ s[i] = m
        \/ s[i].cmd = "FWD" /\ s[i].id \in Ids
  <2> DEFINE l1 == Append(l, m)
  <2>1. /\ l1 \in Seq(CmdRec) /\ Len(l1) = Len(l) + 1 /\ l1[Len(l) + 1] = m
        /\ \A i \in 1 .. Len(l) : l1[i] = l[i]
    BY <1>3
  <2> HIDE DEF l1, l
  <2>2. \A i \in 1 .. Len(l1) : (i \in 1 .. Len(l) /\ l1[i] = l[i]) \/ (i = Len(l) + 1 /\ l1[i] = m)
    BY <1>3, <2>1
  <2>3. CASE s = l1
    BY <2>2, <2>3
  <2>4. CASE \E f \in CmdRec : f.cmd = "FWD" /\ f.id \in Ids /\ s = Append(l1, f)
    <3>1. PICK f \in CmdRec : f.cmd = "FWD" /\ f.id \in Ids /\ s = Append(l1, f)
      BY <2>4
    <3>2. /\ Len(s) = Len(l1) + 1 /\ s[Len(l1) + 1] = f /\ Len(l1) \in Nat
          /\ \A i \in 1 .. Len(l1) : s[i] = l1[i]
      BY <2>1, <3>1
    <3>3. \A i \in 1 .. Len(s) : i \in 1 .. Len(l1) \/ i = Len(l1) + 1
      BY <3>2
    <3> QED BY <2>2, <3>1, <3>2, <3>3
  <2> QED BY <2>3, <2>4 DEF l1, l
<1> HIDE DEF o, l
<1>5. LinkOk(p)'
  BY <1>2, <1>3 DEF LinkOk
<1>6. LinkOk(o)'
  <2> SUFFICES ASSUME NEW i \in 1 .. Len(s)
               PROVE  /\ s[i].id = NoId <=> s[i].cmd = "PRX"
                      /\ s[i].cmd \in Opening => s[i].id.pool = p /\ s[i].items # <<>>
    BY <1>1, <1>3 DEF LinkOk
  <2>1. CASE i \in 1 .. Len(l) /\ s[i] = l[i]
    BY <1>1, <1>2, <2>1 DEF LinkOk, l
  <2>2. CASE s[i] = m
    BY <2>2, IdNotNo DEF Opening
  <2>3. CASE s[i].cmd = "FWD" /\ s[i].id \in Ids
    BY <2>3, IdNotNo DEF Opening
  <2> QED BY <1>4, <2>1, <2>2, <2>3
<1>7. ASSUME NEW k, NEW r \in Pools, NEW i, AskedAt(k, r, i)'
      PROVE  \/ i \in Nat /\ AskedAt(k, r, i)
             \/ r = o /\ i = Len(link[r]) + 1 /\ k = m.items[1].k
  <2>1. i \in 1 .. Len(link'[r]) /\ link'[r][i].cmd \in Opening /\ link'[r][i].items[1].k = k
    BY <1>7 DEF AskedAt
  <2>2. CASE r = p
    BY <1>3, <2>1, <2>2 DEF AskedAt
  <2>3. CASE r = o
    <3>1. i \in 1 .. Len(s) /\ s[i].cmd \in Opening /\ s[i].items[1].k = k
      BY <1>3, <2>1, <2>3
    <3>2. s[i].cmd # "FWD"
      BY <3>1 DEF Opening
    <3>3. (i \in 1 .. Len(l) /\ s[i] = l[i]) \/ (i = Len(l) + 1 /\ s[i] = m)
      BY <1>4, <3>1, <3>2
    <3> QED BY <1>3, <2>3, <3>1, <3>3 DEF AskedAt, l
  <2> QED BY <1>1, <2>2, <2>3
<1> QED BY <1>1, <1>3, <1>5, <1>6, <1>7 DEF o

\* A connection is asked for: its identifier is new, or behind its last end.
LEMMA CrossWrite ==
  ASSUME TInv, NEW id \in Ids, Cross(id), NEW p \in Pools, NEW m \in CmdRec,
         m.cmd \in Opening, NEW s \in Seq(CmdRec), link' = [link EXCEPT ![Other(p)] = s],
         \/ s = Append(link[Other(p)], m)
         \/ \E f \in CmdRec : f.cmd = "FWD" /\ s = Append(Append(link[Other(p)], m), f),
         Side(Other(p), id)' = Side(Other(p), id),
         m.id = id => id.pool = p /\ Side(p, id) = "none" /\ Side(p, id)' = "open",
         m.id # id => Side(p, id)' = Side(p, id)
  PROVE  Cross(id)'
<1> DEFINE o == Other(p)
           out == link[o]
           l1 == Append(out, m)
           back == link[p]
           x == Side(p, id)
           y == Side(o, id)
<1>1. o \in Pools /\ Other(o) = p /\ o # p /\ \A r \in Pools : r = p \/ r = o
  BY OtherPool
<1>2. link'[o] = s /\ link'[p] = back /\ out \in Seq(CmdRec) /\ back \in Seq(CmdRec)
  BY <1>1 DEF TInv
<1>3. id.pool \in Pools /\ l1 \in Seq(CmdRec)
  BY <1>2 DEF Ids
<1>4. Side(o, id)' = y
  OBVIOUS
<1>5. \A f \in CmdRec : f.cmd = "FWD" => f.cmd \notin Opening \cup {"EOS"}
  BY DEF Opening
<1>6. m.cmd # "EOS"
  BY DEF Opening
<1>7. s = l1 \/ \E f \in CmdRec : f.cmd = "FWD" /\ s = Append(l1, f)
  OBVIOUS
<1>8. CASE id.pool = p
  <2>1. CrossOk(id, x, y, out, back)
    BY <1>8 DEF Cross
  <2> HIDE DEF out, back, y, o
  <2>2. PICK z : Side(p, id)' = z /\ CrossOk(id, z, y, l1, back)
    <3>1. CASE m.id = id
      <4>1. CrossOk(id, "none", y, out, back)
        BY <2>1, <3>1
      <4>2. CrossOk(id, "open", y, l1, back)
        BY <1>2, <3>1, <4>1, CrossAsk
      <4> QED BY <3>1, <4>2
    <3>2. CASE m.id # id
      <4> HIDE DEF x
      <4>1. CrossOk(id, x, y, l1, back)
        BY <1>2, <2>1, <3>2, CrossOut
      <4> QED BY <3>2, <4>1 DEF x
    <3> QED BY <3>1, <3>2
  <2> HIDE DEF l1
  <2>3. CrossOk(id, z, y, s, back)
    <3>1. CASE s = l1
      BY <2>2, <3>1
    <3>2. CASE \E f \in CmdRec : f.cmd = "FWD" /\ s = Append(l1, f)
      <4>1. PICK f \in CmdRec : f.cmd = "FWD" /\ s = Append(l1, f)
        BY <3>2
      <4>2. CrossOk(id, z, y, Append(l1, f), back)
        BY <1>3, <1>5, <2>2, <4>1, CrossOut
      <4> QED BY <4>1, <4>2
    <3> QED BY <1>7, <3>1, <3>2
  <2>4. link'[Other(p)] = s /\ link'[p] = back /\ Side(Other(p), id)' = y
    BY <1>2, <1>4 DEF o
  <2> QED BY <1>8, <2>2, <2>3, <2>4 DEF Cross
<1>9. CASE id.pool = o
  <2>1. CrossOk(id, y, x, back, out)
    BY <1>1, <1>9 DEF Cross
  <2>2. m.id # id /\ Side(p, id)' = x
    BY <1>1, <1>9
  <2> HIDE DEF out, back, x, y, o
  <2>3. CrossOk(id, y, x, back, l1)
    BY <1>2, <2>1, <2>2, CrossBack
  <2> HIDE DEF l1
  <2>4. CrossOk(id, y, x, back, s)
    <3>1. CASE s = l1
      BY <2>3, <3>1
    <3>2. CASE \E f \in CmdRec : f.cmd = "FWD" /\ s = Append(l1, f)
      <4>1. PICK f \in CmdRec : f.cmd = "FWD" /\ s = Append(l1, f)
        BY <3>2
      <4>2. CrossOk(id, y, x, back, Append(l1, f))
        BY <1>3, <1>5, <2>3, <4>1, CrossBack
      <4> QED BY <4>1, <4>2
    <3> QED BY <1>7, <3>1, <3>2
  <2> QED BY <1>1, <1>2, <1>4, <1>9, <2>2, <2>4 DEF Cross
<1> QED BY <1>1, <1>3, <1>8, <1>9

\* The proxy asks the other one to connect the client.
LEMMA TwoHopsInv ==
  ASSUME PInv, NEW p \in Pools, NEW a \in DOMAIN hnd[p], TwoHops(p, a) PROVE PInv'
<1> DEFINE h == hnd[p]
           in == h[a].in
           n == Len(Greeting(in)) + 1
           t == Take(p, a, n)
           o == Other(p)
           g == [h EXCEPT ![a] = t]
           l == link[o]
<1>1. h[a].new
  BY DEF TwoHops
<1>2. PICK k \in Clients :
        /\ k = in[1].k /\ h[a].end = <<"client", k>> /\ NewAt(k, p, a)
        /\ in[2] \in ItemRec /\ in[2].k = k /\ (in[2].what = "team" => in[3] \in ItemRec)
        /\ a \notin id2handle[p] /\ a \notin DOMAIN loc2connID[p] /\ ~h[a].rd /\ ~h[a].wr
        /\ a \in Nat
  BY <1>1, NewFacts
<1> DEFINE d == [dest |-> req[k].dest, pool |-> p, addr |-> a]
           c == IF in[2].what = "team" THEN "CONN_COLL" ELSE "CONN"
           m == Command(c, d, <<in[2]>>)
           f == Command("FWD", d, <<in[3]>>)
<1>3. /\ Write(p, <<m>> \o (IF in[2].what = "team" THEN <<f>> ELSE <<>>))
      /\ loc2connID' = [loc2connID EXCEPT ![p] = Insert(@, a, d)]
      /\ connID2loc' = [connID2loc EXCEPT ![p] = Insert(@, d, a)]
      /\ connid2proxy' = [connid2proxy EXCEPT ![p] = @ \cup {d}]
      /\ id2handle' = [id2handle EXCEPT ![p] = @ \cup {a}]
      /\ hnd' = [hnd EXCEPT ![p][a] = t]
      /\ proxies' = proxies /\ proc2proc' = proc2proc /\ top' = top /\ req' = req /\ sent' = sent
  BY <1>2 DEF TwoHops, Pending
<1>4. n \in Nat
  BY GreetingLength
<1> HIDE DEF n
<1>5. Clean(t, Shut) /\ t.end = h[a].end /\ ~t.rd /\ ~t.new /\ ~t.wr
  BY <1>2, <1>4, TakeFacts
<1> HIDE DEF t
<1>6. TInv
  BY Parts
<1>7. /\ DOMAIN hnd = Pools /\ DOMAIN id2handle = Pools /\ DOMAIN loc2connID = Pools
      /\ DOMAIN connID2loc = Pools /\ DOMAIN connid2proxy = Pools
      /\ link \in [Pools -> Seq(CmdRec)] /\ req[k].dest \in Dests
  BY <1>6 DEF TInv
<1>8. o \in Pools /\ o # p /\ \A q \in Pools : q = p \/ q = o
  BY OtherPool
<1>9. d \in Ids /\ d.pool = p /\ d.addr = a
  BY <1>2, <1>7 DEF Ids
<1> HIDE DEF d
<1>10. /\ m \in CmdRec /\ m.cmd \in Opening /\ m.id = d /\ m.items # <<>> /\ m.items[1] = in[2]
  <2> DEFINE items == <<in[2]>>
  <2>1. items \in Seq(ItemRec) /\ items # <<>> /\ items[1] = in[2]
    BY <1>2
  <2>2. c \in {"CONN", "CONN_COLL"}
    OBVIOUS
  <2> HIDE DEF items, c
  <2>3. /\ Command(c, d, items) \in CmdRec /\ Command(c, d, items).cmd = c
        /\ Command(c, d, items).id = d /\ Command(c, d, items).items = items
    BY <1>9, <2>1, <2>2, CommandFacts
  <2> QED BY <2>1, <2>2, <2>3 DEF items, Opening
<1>11. in[2].what = "team" => f \in CmdRec /\ f.cmd = "FWD" /\ f.id = d
  <2> SUFFICES ASSUME in[2].what = "team" PROVE f \in CmdRec /\ f.cmd = "FWD" /\ f.id = d
    OBVIOUS
  <2> DEFINE items == <<in[3]>>
  <2>1. items \in Seq(ItemRec)
    BY <1>2
  <2> HIDE DEF items
  <2>2. /\ Command("FWD", d, items) \in CmdRec /\ Command("FWD", d, items).cmd = "FWD"
        /\ Command("FWD", d, items).id = d
    BY <1>9, <2>1, CommandFacts
  <2> QED BY <2>2 DEF items
<1>12. l \in Seq(CmdRec)
  BY <1>7, <1>8
<1> HIDE DEF m, f, l, in, c
<1>13. PICK s \in Seq(CmdRec) :
         /\ link' = [link EXCEPT ![o] = s]
         /\ \/ s = Append(l, m)
            \/ \E e \in CmdRec : e.cmd = "FWD" /\ e.id \in Ids /\ s = Append(Append(l, m), e)
  <2>1. CASE in[2].what = "team"
    <3>1. link' = [link EXCEPT ![o] = l \o (<<m>> \o <<f>>)]
      BY <1>3, <2>1 DEF Write, l
    <3>2. f \in CmdRec /\ f.cmd = "FWD" /\ f.id \in Ids
      BY <1>9, <1>11, <2>1
    <3>3. /\ l \o (<<m>> \o <<f>>) = Append(Append(l, m), f)
          /\ Append(Append(l, m), f) \in Seq(CmdRec)
      BY <1>10, <1>12, <3>2
    <3> QED BY <3>1, <3>2, <3>3
  <2>2. CASE in[2].what # "team"
    <3>1. link' = [link EXCEPT ![o] = l \o (<<m>> \o <<>>)]
      BY <1>3, <2>2 DEF Write, l
    <3>2. l \o (<<m>> \o <<>>) = Append(l, m) /\ Append(l, m) \in Seq(CmdRec)
      BY <1>10, <1>12
    <3> QED BY <3>1, <3>2
  <2> QED BY <2>1, <2>2
<1>14. /\ link' \in [Pools -> Seq(CmdRec)] /\ \A r \in Pools : LinkOk(r)'
       /\ \A j : \A r \in Pools : \A i : AskedAt(j, r, i)' =>
            \/ i \in Nat /\ AskedAt(j, r, i)
            \/ r = o /\ i = Len(link[r]) + 1 /\ j = m.items[1].k
  BY <1>9, <1>10, <1>13, AskLink DEF l
<1>15. /\ hnd'[p] = g /\ hnd'[o] = hnd[o] /\ DOMAIN hnd' = Pools
       /\ loc2connID'[p] = Insert(loc2connID[p], a, d) /\ loc2connID'[o] = loc2connID[o]
       /\ DOMAIN loc2connID' = Pools
       /\ connID2loc'[p] = Insert(connID2loc[p], d, a) /\ connID2loc'[o] = connID2loc[o]
       /\ DOMAIN connID2loc' = Pools
       /\ connid2proxy'[p] = connid2proxy[p] \cup {d} /\ connid2proxy'[o] = connid2proxy[o]
       /\ DOMAIN connid2proxy' = Pools
       /\ id2handle'[p] = id2handle[p] \cup {a} /\ id2handle'[o] = id2handle[o]
       /\ DOMAIN id2handle' = Pools
  BY <1>3, <1>7, <1>8
<1>16. DOMAIN g = DOMAIN h /\ g[a] = t /\ \A b \in DOMAIN h : b # a => g[b] = h[b]
  OBVIOUS
<1>17. Local(p, h, id2handle[p], loc2connID[p], connID2loc[p], connid2proxy[p],
             proc2proc[p], top[p], Shut)
  BY LocalAt
<1>18. d \notin DOMAIN connID2loc[p]
  <2> SUFFICES ASSUME d \in DOMAIN connID2loc[p] PROVE FALSE
    OBVIOUS
  <2>1. connID2loc[p][d] \in DOMAIN loc2connID[p] /\ connID2loc[p][d] = a
    BY <1>9, <1>17 DEF Local, Remote
  <2> QED BY <1>2, <2>1
<1>19. Local(p, g, id2handle[p], loc2connID[p], connID2loc[p], connid2proxy[p],
             proc2proc[p], top[p], Shut)
  BY <1>2, <1>5, <1>17, LocalChange
<1> HIDE DEF g
<1>20. ~g[a].new /\ ~Closed(g[a]) /\ ~g[a].rd /\ ~g[a].wr /\ a \in DOMAIN g
  BY <1>5, <1>16 DEF Closed
<1>21. Local(p, g, id2handle[p] \cup {a}, Insert(loc2connID[p], a, d), Insert(connID2loc[p], d, a),
             connid2proxy[p] \cup {d}, proc2proc[p], top[p], Shut)
  BY <1>2, <1>9, <1>18, <1>19, <1>20, LocalJoin
<1>22. Shut' = Shut
  BY <1>3 DEF Shut
<1>23. LocalOk(p)'
  BY <1>3, <1>15, <1>21, <1>22 DEF LocalOk
<1>24. Elsewhere(p)
  BY <1>3, <1>15 DEF Elsewhere
<1>25. TInv' /\ CountOk' /\ SameOpen
  <2>1. /\ UNCHANGED <<top, req, sent>> /\ DOMAIN proxies' = Pools
        /\ \A r \in Pools : proxies'[r] \subseteq {Other(r)} /\ DOMAIN proc2proc' = Pools
    BY <1>3, <1>6 DEF TInv
  <2> QED BY <1>14, <1>15, <2>1, QuietTypes
<1>26. \A id : /\ id = d => Side(p, id) = "none" /\ Side(p, id)' = "open"
               /\ id # d => Side(p, id)' = Side(p, id)
  <2> TAKE id
  <2> DEFINE ids == connID2loc[p]
  <2>0. d \notin DOMAIN ids /\ ~g[a].rd /\ ~g[a].wr
    BY <1>18, <1>20
  <2> HIDE DEF ids
  <2>1. /\ id = d => SideOf(g, ids, id) = "none" /\ SideOf(g, Insert(ids, d, a), id) = "open"
        /\ id # d => SideOf(g, Insert(ids, d, a), id) = SideOf(g, ids, id)
    BY <2>0, SideJoin
  <2>2. id \in DOMAIN connID2loc[p] => connID2loc[p][id] \in DOMAIN h /\ connID2loc[p][id] # a
    BY <1>2, LocalAt
  <2>3. SideOf(g, connID2loc[p], id) = SideOf(h, connID2loc[p], id)
    BY <2>2, SideOther DEF g
  <2> QED BY <1>15, <2>1, <2>3 DEF Side, ids
<1>27. \A id : Side(o, id)' = Side(o, id)
  BY <1>24, OtherSide
<1>28. \A id \in Ids : Cross(id)'
  <2> TAKE id \in Ids
  <2>1. Cross(id) /\ Side(o, id)' = Side(o, id)
    BY <1>27, Parts
  <2>2. /\ m.id = id => id.pool = p /\ Side(p, id) = "none" /\ Side(p, id)' = "open"
        /\ m.id # id => Side(p, id)' = Side(p, id)
    BY <1>9, <1>10, <1>26
  <2>3. \/ s = Append(link[Other(p)], m)
        \/ \E e \in CmdRec : e.cmd = "FWD" /\ s = Append(Append(link[Other(p)], m), e)
    BY <1>13 DEF l
  <2> QED BY <1>6, <1>10, <1>13, <2>1, <2>2, <2>3, CrossWrite
<1>29. NoneNew /\ \A q \in Pools : \A b : ~NewAt(k, q, b)'
  <2>1. /\ \A q \in Pools : \A b : NewAt(k, q, b) => q = p /\ b = a
    BY <1>2, Parts, StageNew
  <2>2. \A b \in DOMAIN g : g[b].new => b \in DOMAIN h /\ b # a /\ g[b] = h[b]
    BY <1>16, <1>20
  <2>3. NoneNew
    BY <1>8, <1>15, <2>2 DEF NoneNew
  <2>4. \A b : ~NewAt(k, p, b)'
    BY <1>15, <2>1, <2>2 DEF NewAt
  <2>5. \A b : ~NewAt(k, o, b)'
    BY <1>8, <1>15, <2>1 DEF NewAt
  <2> QED BY <1>8, <2>3, <2>4, <2>5
<1>30. m.items[1].k = k
  BY <1>2, <1>10
<1>31. \A j \in Clients : StageOk(j)'
  <2> TAKE j \in Clients
  <2>1. CASE j = k
    <3>1. /\ \A q \in Pools : \A i : ~AskedAt(k, q, i)
          /\ req[k] # NoReq /\ ~Served(k)
      BY <1>2, Parts, StageNew
    <3> DEFINE top1 == Len(link[o]) + 1
    <3>2. \A q \in Pools : \A i : AskedAt(k, q, i)' => q = o /\ i = top1
      BY <1>14, <3>1
    <3> HIDE DEF top1
    <3>3. req'[k] # NoReq /\ ~Served(k)'
      BY <1>3, <3>1 DEF Served
    <3> QED BY <1>29, <2>1, <3>2, <3>3 DEF StageOk
  <2>2. CASE j # k
    <3> DEFINE z == [q \in Pools |-> 0]
    <3>1. z \in [Pools -> Nat] /\ \A q \in Pools : z[q] = 0
      OBVIOUS
    <3> HIDE DEF z
    <3>2. ASSUME NEW q \in Pools, NEW i, AskedAt(j, q, i)'
          PROVE  i \in Nat /\ AskedAt(j, q, i + z[q])
      <4>1. AskedAt(j, q, i) /\ i \in Nat
        BY <1>14, <1>30, <2>2, <3>2
      <4>2. i + z[q] = i
        BY <3>1, <4>1
      <4> QED BY <4>1, <4>2
    <3>3. \A e \in Ends : e # <<"server", k>> => sent'[e].open = sent[e].open
      BY <1>3
    <3>4. StageOk(j) /\ req' = req
      BY <1>3, Parts
    <3> QED BY <1>29, <2>2, <3>1, <3>2, <3>3, <3>4, StageElse
  <2> QED BY <2>1, <2>2
<1> QED BY <1>14, <1>22, <1>23, <1>24, <1>25, <1>28, <1>31, Assemble

\* The first command of the link asks for a connection.
LEMMA AskedFacts ==
  ASSUME PInv, NEW p \in Pools, link[p] # <<>>, Head(link[p]).cmd \in Opening
  PROVE  LET m == Head(link[p]) IN
         /\ m.id \in Ids /\ m.id.pool = Other(p) /\ m.items[1].k \in Clients
         /\ AskedAt(m.items[1].k, p, 1) /\ m.id \notin DOMAIN connID2loc[p]
<1> DEFINE m == Head(link[p])
           o == Other(p)
<1>1. link[p] \in Seq(CmdRec) /\ LinkOk(p)
  BY DEF PInv, TInv
<1>2. m = link[p][1] /\ 1 \in 1 .. Len(link[p]) /\ m \in CmdRec
  BY <1>1
<1>3. m.id # NoId /\ m.id.pool = o /\ m.items # <<>>
  BY <1>1, <1>2 DEF LinkOk, Opening
<1>4. m.id \in Ids /\ m.items \in Seq(ItemRec)
  BY <1>2, <1>3 DEF CmdRec
<1>5. m.items[1] \in ItemRec
  BY <1>3, <1>4
<1>6. m.items[1].k \in Clients
  BY <1>5 DEF ItemRec
<1>7. AskedAt(m.items[1].k, p, 1)
  BY <1>2 DEF AskedAt
<1>8. m.id \notin DOMAIN connID2loc[p]
  <2>1. PICK d \in Ids : d = m.id
    BY <1>4
  <2> DEFINE out == link[p]
             back == link[o]
             y == Side(p, d)
             x == Side(o, d)
  <2>2. CrossOk(d, x, y, out, back)
    <3>1. Cross(d) /\ Other(o) = p
      BY OtherPool, Parts
    <3>2. d.pool = o
      BY <1>3, <2>1
    <3> QED BY <3>1, <3>2 DEF Cross
  <2>3. out \in Seq(CmdRec) /\ out # <<>> /\ Head(out).cmd \in Opening /\ Head(out).id = d
    BY <1>1, <2>1
  <2> HIDE DEF out, back, x, y
  <2>4. y = "none"
    BY <2>2, <2>3, CrossFresh
  <2> QED BY <2>1, <2>4 DEF y, Side, SideOf
<1> QED BY <1>3, <1>4, <1>6, <1>7, <1>8

\* The other proxy opens the connection.
LEMMA CrossOpenStep ==
  ASSUME TInv, NEW id \in Ids, Cross(id), NEW p \in Pools, link[p] # <<>>,
         Head(link[p]).cmd \in Opening, Head(link[p]).id = id, id.pool = Other(p),
         link' = [link EXCEPT ![p] = Tail(@)], Side(p, id)' = "open",
         Side(Other(p), id)' = Side(Other(p), id)
  PROVE  Cross(id)'
<1> DEFINE o == Other(p)
           out == link[p]
           back == link[o]
           y == Side(p, id)
           x == Side(o, id)
<1>1. o \in Pools /\ o # p /\ Other(o) = p
  BY OtherPool
<1>2. link'[p] = Tail(out) /\ link'[o] = back /\ out \in Seq(CmdRec)
  BY <1>1 DEF TInv
<1>3. /\ CrossOk(id, x, y, out, back) /\ out # <<>> /\ Head(out).cmd \in Opening
      /\ Head(out).id = id /\ Side(o, id)' = x
  BY <1>1 DEF Cross
<1> HIDE DEF out, back, x, y
<1>4. CrossOk(id, x, "open", Tail(out), back)
  BY <1>2, <1>3, CrossOpen
<1> QED BY <1>1, <1>2, <1>3, <1>4 DEF Cross

\* The proxy connects to the component another one asked for.
LEMMA ConnFromProxyInv ==
  ASSUME PInv, NEW p \in Pools, ConnFromProxy(p) PROVE PInv'
<1> DEFINE h == hnd[p]
           m == Head(link[p])
           d == m.id
           o == Other(p)
           up == d.dest \in DOMAIN Config /\ Config[d.dest].up
<1>1. /\ link[p] # <<>> /\ m.cmd \in Opening /\ link' = [link EXCEPT ![p] = Tail(@)]
      /\ proxies' = proxies /\ req' = req /\ proc2proc' = proc2proc
  BY DEF ConnFromProxy, Receive, Opening
<1>2. PICK k \in Clients : k = m.items[1].k /\ AskedAt(k, p, 1)
  BY <1>1, AskedFacts
<1>3. d \in Ids /\ d.pool = o /\ d \notin DOMAIN connID2loc[p]
  BY <1>1, AskedFacts
<1>4. TInv /\ CountOk /\ \A q \in Pools : LinkOk(q)
  BY Parts
<1> DEFINE e == <<"server", k>>
           y == NewHandle(e, <<>>, FALSE)
<1>5. CASE ~up
  <2>1. UNCHANGED <<hnd, tables, top, req, sent>>
    BY <1>1, <1>5 DEF ConnFromProxy, tables
  <2>2. Head(link[p]).cmd # "EOS"
    BY <1>1 DEF Opening
  <2>3. DOMAIN proxies' = Pools /\ \A r \in Pools : proxies'[r] \subseteq {Other(r)}
    BY <1>1, <1>4 DEF TInv
  <2> QED BY <1>1, <2>1, <2>2, <2>3, PopInv
<1>6. CASE up
  <2>1. \E a \in FreeAddr(p) :
          /\ hnd' = [hnd EXCEPT ![p] = Insert(@, a, y)]
          /\ top' = [top EXCEPT ![p] = IF a > @ THEN a ELSE @]
          /\ sent' = [sent EXCEPT ![e].open = TRUE]
          /\ loc2connID' = [loc2connID EXCEPT ![p] = Insert(@, a, d)]
          /\ connID2loc' = [connID2loc EXCEPT ![p] = Insert(@, d, a)]
          /\ connid2proxy' = [connid2proxy EXCEPT ![p] = @ \cup {d}]
          /\ id2handle' = [id2handle EXCEPT ![p] = @ \cup {a}]
    BY <1>2, <1>6 DEF ConnFromProxy, Dial
  <2>2. PICK a \in FreeAddr(p) :
          /\ hnd' = [hnd EXCEPT ![p] = Insert(@, a, y)]
          /\ top' = [top EXCEPT ![p] = IF a > @ THEN a ELSE @]
          /\ sent' = [sent EXCEPT ![e].open = TRUE]
          /\ loc2connID' = [loc2connID EXCEPT ![p] = Insert(@, a, d)]
          /\ connID2loc' = [connID2loc EXCEPT ![p] = Insert(@, d, a)]
          /\ connid2proxy' = [connid2proxy EXCEPT ![p] = @ \cup {d}]
          /\ id2handle' = [id2handle EXCEPT ![p] = @ \cup {a}]
    BY <2>1
  <2>3. a \in 1 .. top[p] + 1 /\ a \notin DOMAIN h
    BY DEF FreeAddr
  <2>4. e \in Ends
    BY DEF Ends
  <2>5. Clean(y, Shut) /\ y.end = e /\ ~y.new /\ ~y.rd /\ ~y.wr
    BY <2>4, CleanServer
  <2>6. /\ \A q \in Pools : \A i : AskedAt(k, q, i) => q = p /\ i = 1
        /\ \A q \in Pools : \A b : ~NewAt(k, q, b)
        /\ req[k] # NoReq /\ ~Served(k)
    <3>1. StageOk(k)
      BY Parts
    <3>2. req[k] # NoReq /\ ~Served(k)
      BY <1>2, <3>1 DEF StageOk
    <3> QED BY <1>2, <3>1, <3>2 DEF StageOk
  <2>7. ~sent[e].open
    BY <2>6 DEF Served
  <2> HIDE DEF y, e, d, m
  <2>8. /\ CountOk' /\ top' \in [Pools -> Nat] /\ sent' \in [Ends -> SentRec] /\ Shut' = Shut
        /\ top[p] \in Nat /\ top'[p] \in Nat /\ top'[p] >= top[p] /\ a \in 1 .. top'[p]
        /\ top'[o] = top[o] /\ \A f \in Ends : f # e => sent'[f] = sent[f]
    BY <1>4, <2>2, <2>3, <2>4, <2>7, CountAdd
  <2>9. /\ DOMAIN hnd = Pools /\ DOMAIN id2handle = Pools /\ DOMAIN loc2connID = Pools
        /\ DOMAIN connID2loc = Pools /\ DOMAIN connid2proxy = Pools
    BY <1>4 DEF TInv
  <2>10. o \in Pools /\ o # p /\ \A q \in Pools : q = p \/ q = o
    BY OtherPool
  <2> DEFINE g == Insert(h, a, y)
  <2>11. /\ hnd'[p] = g /\ hnd'[o] = hnd[o] /\ DOMAIN hnd' = Pools
         /\ loc2connID'[p] = Insert(loc2connID[p], a, d) /\ loc2connID'[o] = loc2connID[o]
         /\ DOMAIN loc2connID' = Pools
         /\ connID2loc'[p] = Insert(connID2loc[p], d, a) /\ connID2loc'[o] = connID2loc[o]
         /\ DOMAIN connID2loc' = Pools
         /\ connid2proxy'[p] = connid2proxy[p] \cup {d} /\ connid2proxy'[o] = connid2proxy[o]
         /\ DOMAIN connid2proxy' = Pools
         /\ id2handle'[p] = id2handle[p] \cup {a} /\ id2handle'[o] = id2handle[o]
         /\ DOMAIN id2handle' = Pools
    BY <2>2, <2>9, <2>10
  <2>12. DOMAIN g = DOMAIN h \cup {a} /\ g[a] = y /\ \A b \in DOMAIN h : g[b] = h[b]
    BY <2>3 DEF Insert
  <2> HIDE DEF g
  <2>13. /\ Local(p, h, id2handle[p], loc2connID[p], connID2loc[p], connid2proxy[p],
                  proc2proc[p], top[p], Shut)
         /\ id2handle[p] \subseteq DOMAIN h
    BY LocalAt
  <2>14. Local(p, h, id2handle[p], loc2connID[p], connID2loc[p], connid2proxy[p],
               proc2proc[p], top'[p], Shut)
    BY <2>8, <2>13, LocalGrow
  <2>15. Local(p, g, id2handle[p], loc2connID[p], connID2loc[p], connid2proxy[p],
               proc2proc[p], top'[p], Shut)
    BY <2>3, <2>5, <2>8, <2>14, LocalAdd DEF g
  <2>16. /\ ~g[a].new /\ ~Closed(g[a]) /\ ~g[a].rd /\ ~g[a].wr /\ a \in DOMAIN g
         /\ a \notin id2handle[p]
    BY <2>3, <2>5, <2>12, <2>13 DEF Closed
  <2>17. d.pool = p => d.addr = a
    BY <1>3, <2>10
  <2>18. Local(p, g, id2handle[p] \cup {a}, Insert(loc2connID[p], a, d), Insert(connID2loc[p], d, a),
               connid2proxy[p] \cup {d}, proc2proc[p], top'[p], Shut)
    BY <1>3, <2>15, <2>16, <2>17, LocalJoin
  <2>19. LocalOk(p)'
    BY <1>1, <2>8, <2>11, <2>18 DEF LocalOk
  <2>20. Elsewhere(p)
    BY <1>1, <2>8, <2>11 DEF Elsewhere
  <2>21. \A id : /\ id = d => Side(p, id)' = "open"
                 /\ id # d => Side(p, id)' = Side(p, id)
    <3> TAKE id
    <3> DEFINE ids == connID2loc[p]
    <3>1. d \notin DOMAIN ids /\ ~g[a].rd /\ ~g[a].wr
      BY <1>3, <2>16
    <3>2. id \in DOMAIN ids => ids[id] \in DOMAIN h
      BY LocalAt
    <3> HIDE DEF ids
    <3>3. /\ id = d => SideOf(g, ids, id) = "none" /\ SideOf(g, Insert(ids, d, a), id) = "open"
          /\ id # d => SideOf(g, Insert(ids, d, a), id) = SideOf(g, ids, id)
      BY <3>1, SideJoin
    <3>4. SideOf(g, ids, id) = SideOf(h, ids, id)
      BY <3>2, SideAdd DEF g
    <3> QED BY <2>11, <3>3, <3>4 DEF Side, ids
  <2>22. \A id : Side(o, id)' = Side(o, id)
    BY <2>20, OtherSide
  <2>23. \A id \in Ids : Cross(id)'
    <3> TAKE id \in Ids
    <3>1. Cross(id) /\ Side(o, id)' = Side(o, id)
      BY <2>22, Parts
    <3>2. CASE id = d
      <4>1. Head(link[p]).id = id /\ Head(link[p]).cmd \in Opening /\ id.pool = o
        BY <1>1, <1>3, <3>2 DEF d, m
      <4>2. Side(p, id)' = "open"
        BY <2>21, <3>2
      <4> QED BY <1>1, <1>4, <3>1, <4>1, <4>2, CrossOpenStep
    <3>3. CASE id # d
      <4>1. \A r \in Pools : Side(r, id)' = Side(r, id)
        BY <2>10, <2>21, <3>1, <3>3
      <4>2. ~(Head(link[p]).id = id /\ Head(link[p]).cmd = "EOS")
        BY <3>3 DEF d, m
      <4> QED BY <1>1, <1>4, <3>1, <4>1, <4>2, CrossPop
    <3> QED BY <3>2, <3>3
  <2>24. NoneNew
    <3>1. \A b \in DOMAIN g : g[b].new => b \in DOMAIN h /\ g[b] = h[b]
      BY <2>12, <2>16
    <3> QED BY <2>10, <2>11, <3>1 DEF NoneNew
  <2>25. \A j \in Clients : StageOk(j)'
    <3> TAKE j \in Clients
    <3>1. PICK z \in [Pools -> Nat] :
            /\ z[p] = 1
            /\ \A r \in Pools : \A i : AskedAt(j, r, i)' => i \in Nat /\ AskedAt(j, r, i + z[r])
      BY <1>1, <1>4, AskedPop
    <3>2. CASE j = k
      <4>1. ASSUME NEW q \in Pools, NEW i, AskedAt(k, q, i)' PROVE FALSE
        <5>1. i \in Nat /\ AskedAt(k, q, i + z[q]) /\ i \in 1 .. Len(link'[q])
          BY <3>1, <3>2, <4>1 DEF AskedAt
        <5>2. q = p /\ i + z[q] = 1
          BY <2>6, <5>1
        <5>3. i >= 1
          BY <5>1
        <5> QED BY <3>1, <5>1, <5>2, <5>3
      <4>2. \A q \in Pools : \A b : ~NewAt(k, q, b)'
        BY <2>6, <2>24, NewBefore
      <4>3. req'[k] # NoReq
        BY <1>1, <2>6
      <4> QED BY <3>2, <4>1, <4>2, <4>3, StageServed
    <3>3. CASE j # k
      <4>1. \A f \in Ends : f # <<"server", k>> => sent'[f].open = sent[f].open
        BY <2>8 DEF e
      <4>2. StageOk(j) /\ req' = req
        BY <1>1, Parts
      <4> QED BY <2>24, <3>1, <3>3, <4>1, <4>2, StageElse
    <3> QED BY <3>2, <3>3
  <2>26. link' \in [Pools -> Seq(CmdRec)] /\ \A q \in Pools : LinkOk(q)'
    BY <1>1, <1>4, LinkPop
  <2>27. TInv'
    BY <1>1, <1>4, <2>8, <2>11, <2>26 DEF TInv
  <2> QED BY <2>8, <2>19, <2>20, <2>23, <2>25, <2>26, <2>27, Assemble
<1> QED BY <1>5, <1>6

-----------------------------------------------------------------------------
(* All steps *)

\* No connection yet.
LEMMA InitInv == Init => PInv
<1> SUFFICES ASSUME Init PROVE PInv
  OBVIOUS
<1>1. /\ DOMAIN proxies = Pools /\ \A p \in Pools : proxies[p] = {} /\ link[p] = <<>>
      /\ \A p \in Pools : /\ hnd[p] = <<>> /\ id2handle[p] = {} /\ loc2connID[p] = <<>>
                          /\ connID2loc[p] = <<>> /\ connid2proxy[p] = {} /\ proc2proc[p] = <<>>
                          /\ top[p] = 0
      /\ \A k \in Clients : req[k] = NoReq
      /\ \A e \in Ends : sent[e].data = 0 /\ ~sent[e].open /\ ~sent[e].closed
  BY DEF Init
<1>2. TInv
  <2>1. link \in [Pools -> Seq(CmdRec)]
    <3> DEFINE z == <<>>
    <3>1. z \in Seq(CmdRec)
      OBVIOUS
    <3>2. link = [p \in Pools |-> z]
      BY DEF Init
    <3> HIDE DEF z
    <3> QED BY <3>1, <3>2
  <2>3. top \in [Pools -> Nat]
    BY DEF Init
  <2>4. sent \in [Ends -> SentRec]
    <3> DEFINE z == [data |-> 0, open |-> FALSE, closed |-> FALSE]
    <3>1. z \in SentRec
      BY DEF SentRec
    <3>2. sent = [e \in Ends |-> z]
      BY DEF Init
    <3> HIDE DEF z
    <3> QED BY <3>1, <3>2
  <2>2. req \in [Clients -> [style : {"p2p", "team", "none"}, via : Pools, dest : Dests]]
    <3>1. NoReq \in [style : {"p2p", "team", "none"}, via : Pools, dest : Dests]
      BY DEF NoReq, Pools, Dests
    <3>2. req = [k \in Clients |-> NoReq]
      BY DEF Init
    <3> QED BY <3>1, <3>2
  <2> QED BY <1>1, <2>1, <2>2, <2>3, <2>4 DEF Init, TInv
<1>3. CountOk
  <2>1. Opened = {}
    BY <1>1 DEF Opened
  <2>2. Cardinality({}) = 0
    BY FS_EmptySet
  <2>3. top["A"] = 0 /\ top["B"] = 0
    BY <1>1 DEF Pools
  <2>4. \A e \in Ends : sent[e].data <= MaxData[e]
    BY <1>1, EndType
  <2> QED BY <2>1, <2>2, <2>3, <2>4 DEF CountOk
<1>4. \A p \in Pools : LinkOk(p)
  BY <1>1 DEF LinkOk
<1> DEFINE none == <<>>
<1>5. DOMAIN none = {} /\ Len(none) = 0 /\ 1 .. Len(none) = {}
  OBVIOUS
<1>6. \A p \in Pools : /\ hnd[p] = none /\ link[p] = none /\ loc2connID[p] = none
                       /\ connID2loc[p] = none /\ proc2proc[p] = none
                       /\ id2handle[p] = {}
  BY <1>1
<1> HIDE DEF none
<1>7. \A p \in Pools : LocalOk(p)
  <2> TAKE p \in Pools
  <2>1. Handles(none, {}, top[p], Shut)
    BY <1>5 DEF Handles
  <2>2. Remote(p, none, {}, none, none, connid2proxy[p])
    BY <1>5 DEF Remote
  <2>3. Paired(none, {}, none, none)
    BY <1>5 DEF Paired
  <2> QED BY <1>6, <2>1, <2>2, <2>3 DEF LocalOk, Local
<1>8. \A id \in Ids : Cross(id)
  <2> TAKE id \in Ids
  <2>1. \A i : ~OpensAt(none, id, i) /\ ~EndsAt(none, id, i)
    BY <1>5 DEF OpensAt, EndsAt
  <2>2. CrossOk(id, "none", "none", none, none)
    BY <2>1 DEF CrossOk
  <2>3. \A p \in Pools : Side(p, id) = "none"
    BY <1>5, <1>6 DEF Side, SideOf
  <2>4. id.pool \in Pools /\ Other(id.pool) \in Pools
    BY OtherPool DEF Ids
  <2> QED BY <1>6, <2>2, <2>3, <2>4 DEF Cross
<1>9. \A k \in Clients : StageOk(k)
  <2> TAKE k \in Clients
  <2>1. \A p \in Pools : \A a : ~NewAt(k, p, a) /\ ~AskedAt(k, p, a)
    BY <1>5, <1>6 DEF NewAt, AskedAt
  <2>2. <<"client", k>> \in Ends /\ <<"server", k>> \in Ends
    BY DEF Ends
  <2>3. ~sent[<<"client", k>>].open /\ ~Served(k)
    BY <1>1, <2>2 DEF Served
  <2> QED BY <2>1, <2>3 DEF StageOk
<1> QED BY <1>2, <1>3, <1>4, <1>7, <1>8, <1>9 DEF PInv

\* Nothing changes.
LEMMA StutterInv == ASSUME PInv, UNCHANGED vars PROVE PInv'
<1>1. UNCHANGED <<hnd, tables, top, req, sent>> /\ link' = link /\ proxies' = proxies
  BY DEF vars
<1>2. "A" \in Pools /\ TInv /\ \A r \in Pools : LinkOk(r)
  BY Parts DEF Pools
<1>3. link' \in [Pools -> Seq(CmdRec)] /\ \A r \in Pools : LinkOk(r)'
  BY <1>1, <1>2 DEF TInv, LinkOk
<1>4. TInv' /\ CountOk' /\ SameOpen /\ Shut' = Shut
  BY <1>1, <1>2, <1>3, QuietTypes DEF TInv, tables
<1>5. /\ LocalOk("A")' /\ Elsewhere("A") /\ NoneNew
      /\ \A r \in Pools : \A id : Side(r, id)' = Side(r, id)
  BY <1>1, <1>2, LinkStep
<1>6. \A id \in Ids : Cross(id)'
  BY <1>1, <1>5, Parts, CrossSame
<1>7. \A k \in Clients : StageOk(k)'
  BY <1>1, <1>2, <1>4, <1>5, Parts, StageQuiet
<1> QED BY <1>2, <1>3, <1>4, <1>5, <1>6, <1>7, Assemble

\* A turn of the event loop of a proxy.
LEMMA LoopInv == ASSUME PInv, NEW p \in Pools, Loop(p) PROVE PInv'
<1>1. CASE FromProxy(p)
  BY <1>1, NewProxyInv, EosFromProxyInv, FwdFromProxyInv, ConnFromProxyInv DEF FromProxy
<1>2. CASE \E a \in DOMAIN hnd[p] : FromEnd(p, a)
  <2>1. PICK a \in DOMAIN hnd[p] : FromEnd(p, a)
    BY <1>2
  <2>2. CASE DropClient(p, a) \/ RefuseClient(p, a) \/ OneHop(p, a) \/ TwoHops(p, a)
    BY <2>2, DropClientInv, RefuseClientInv, OneHopInv, TwoHopsInv
  <2>3. CASE ForwardData(p, a) \/ EndTwoHops(p, a) \/ EndOneHop(p, a) \/ EndUnknown(p, a)
    BY <2>3, ForwardDataInv, EndTwoHopsInv, EndOneHopInv, EndUnknownInv
  <2> QED BY <2>1, <2>2, <2>3 DEF FromEnd
<1> QED BY <1>1, <1>2 DEF Loop

\* Every step keeps the invariant.
LEMMA NextInv == PInv /\ [Next]_vars => PInv'
<1> SUFFICES ASSUME PInv, [Next]_vars PROVE PInv'
  OBVIOUS
<1>1. CASE ConnectProxies
  BY <1>1, ConnectProxiesInv
<1>2. CASE \E k \in Clients : \E r \in Requests[k] : ClientConnect(k, r)
  BY <1>2, ClientConnectInv
<1>3. CASE \E e \in Ends : EndSend(e) \/ EndClose(e)
  BY <1>3, EndSendInv, EndCloseInv
<1>4. CASE \E p \in Pools : Loop(p)
  BY <1>4, LoopInv
<1>5. CASE UNCHANGED vars
  BY <1>5, StutterInv
<1> QED BY <1>1, <1>2, <1>3, <1>4, <1>5 DEF Next

\* The invariant implies that the tables agree.
LEMMA InvTables == PInv => TablesAgree
<1> SUFFICES ASSUME PInv, NEW p \in Pools
             PROVE  /\ \A a \in DOMAIN loc2connID[p] :
                         /\ loc2connID[p][a] \in DOMAIN connID2loc[p] \cap connid2proxy[p]
                         /\ connID2loc[p][loc2connID[p][a]] = a
                    /\ \A id \in DOMAIN connID2loc[p] :
                         connID2loc[p][id] \in id2handle[p] \cap DOMAIN loc2connID[p]
                    /\ id2handle[p] \subseteq DOMAIN hnd[p]
                    /\ \A a \in DOMAIN proc2proc[p] \cap DOMAIN hnd[p] :
                         ~hnd[p][a].rd => /\ proc2proc[p][a] \in DOMAIN hnd[p]
                                          /\ hnd[p][proc2proc[p][a]].end[2] = hnd[p][a].end[2]
  BY DEF TablesAgree
<1>1. Local(p, hnd[p], id2handle[p], loc2connID[p], connID2loc[p], connid2proxy[p],
            proc2proc[p], top[p], Shut) /\ id2handle[p] \subseteq DOMAIN hnd[p]
  BY LocalAt
<1>2. /\ \A a \in DOMAIN loc2connID[p] :
           /\ loc2connID[p][a] \in DOMAIN connID2loc[p] \cap connid2proxy[p]
           /\ connID2loc[p][loc2connID[p][a]] = a
      /\ \A id \in DOMAIN connID2loc[p] :
           connID2loc[p][id] \in id2handle[p] \cap DOMAIN loc2connID[p]
  BY <1>1 DEF Local, Remote
<1>3. \A a \in DOMAIN proc2proc[p] :
        ~hnd[p][a].rd => /\ proc2proc[p][a] \in DOMAIN hnd[p]
                         /\ hnd[p][proc2proc[p][a]].end[2] = hnd[p][a].end[2]
  BY <1>1 DEF Local, Paired
<1> QED BY <1>1, <1>2, <1>3

\* The invariant implies the types, and the bound on the addresses.
LEMMA InvTypeOK == PInv => TypeOK
<1> SUFFICES ASSUME PInv PROVE TypeOK
  OBVIOUS
<1>1. TInv /\ CountOk
  BY Parts
<1>2. ASSUME NEW p \in Pools
      PROVE  /\ proxies[p] \subseteq {Other(p)} /\ top[p] \in 0 .. 2 * Cardinality(Clients)
             /\ DOMAIN hnd[p] \subseteq 1 .. top[p] /\ id2handle[p] \subseteq 1 .. top[p]
             /\ \A m \in Range(link[p]) : /\ m.cmd \in {"PRX", "CONN", "CONN_COLL", "FWD", "EOS"}
                                          /\ m.id = NoId <=> m.cmd = "PRX"
  <2>1. proxies[p] \subseteq {Other(p)}
    BY <1>1 DEF TInv
  <2>2. top[p] \in 0 .. 2 * Cardinality(Clients)
    <3>1. top["A"] \in Nat /\ top["B"] \in Nat /\ (p = "A" \/ p = "B")
      BY <1>1 DEF TInv, Pools
    <3>2. top["A"] + top["B"] <= Cardinality(Opened)
      BY <1>1 DEF CountOk
    <3>3. Cardinality(Clients) \in Nat
      BY ProxyAssumption, FS_CardinalityType
    <3> QED BY <3>1, <3>2, <3>3, OpenedFinite
  <2>3. DOMAIN hnd[p] \subseteq 1 .. top[p] /\ id2handle[p] \subseteq 1 .. top[p]
    BY LocalAt DEF Local, Handles
  <2>4. ASSUME NEW m \in Range(link[p])
        PROVE  /\ m.cmd \in {"PRX", "CONN", "CONN_COLL", "FWD", "EOS"}
               /\ m.id = NoId <=> m.cmd = "PRX"
    <3>1. link[p] \in Seq(CmdRec) /\ LinkOk(p)
      BY <1>1 DEF TInv, PInv
    <3>2. PICK i \in 1 .. Len(link[p]) : m = link[p][i]
      BY <3>1 DEF Range
    <3>3. m \in CmdRec
      BY <3>1, <3>2
    <3> QED BY <3>1, <3>2, <3>3 DEF LinkOk, CmdRec
  <2> QED BY <2>1, <2>2, <2>3, <2>4
<1>3. \A e \in Ends : sent[e].data \in 0 .. MaxData[e]
  <2> TAKE e \in Ends
  <2>1. sent[e].data \in Nat /\ sent[e].data <= MaxData[e] /\ MaxData[e] \in Nat
    BY <1>1, EndType DEF TInv, CountOk, SentRec
  <2> QED BY <2>1
<1> QED BY <1>2, <1>3 DEF TypeOK

-----------------------------------------------------------------------------
(* The theorems *)

\* The invariant of the two proxies, their link and their clients.
THEOREM ProxySafe == Spec => []PInv
<1> QED BY InitInv, NextInv, PTL DEF Spec

\* Types, and the bound on the addresses: memory is used again, so that a proxy never
\* has more Handles than connections were opened (Handle, incrementReferenceCounter).
THEOREM ProxyTypeCorrect == Spec => []TypeOK
<1> QED BY ProxySafe, InvTypeOK, PTL

\* The maps of a proxy agree with each other and with its Handles, whatever the order in
\* which the two ends of a stream cross on the link: a lookup of an identifier, an address
\* or a partner never yields an entry of another connection or a deleted Handle.
THEOREM TablesAlwaysAgree == Spec => []TablesAgree
<1> QED BY ProxySafe, InvTables, PTL

=============================================================================
