------------------------------- MODULE Proxy -------------------------------
(***************************************************************************)
(* The proxies of two pools, the clients that connect to them and the      *)
(* components the clients name.  A connection to a component of the        *)
(* proxy's own pool takes one hop: the proxy joins two of its handles in   *)
(* proc2proc.  One to a component of the other pool takes two: the proxies *)
(* multiplex it on the link between them under an identifier, the hash of  *)
(* the request, the pool and the address of the client's Handle.  The hash *)
(* has no collisions here; addresses are reused once a Handle is deleted.  *)
(*                                                                         *)
(* A proxy is one thread: each step is one turn of its event loop, for one *)
(* message.  Transports deliver in order and nobody dies.  The proxy a     *)
(* client enters by is an input, since it is whatever answers at proxyIp.  *)
(***************************************************************************)
EXTENDS Integers, FiniteSets, SequencesExt, Functions

CONSTANTS
  Clients,  \* connections of clients
  Requests, \* what each client may ask: [style, via, dest]
  Config,   \* components of the configuration: [pool, named, up]
  MaxData   \* messages an end sends after the handshake

Pools == {"A", "B"}
Other(p) == CHOOSE o \in Pools : o # p

\* named: an endpoint's text contains the component's name; up: it accepts.
ASSUME ProxyAssumption ==
  /\ Requests \in [Clients -> SUBSET [style : {"p2p", "team"}, via : Pools, dest : STRING]]
  /\ \A c \in DOMAIN Config :
       Config[c] \in [pool : Pools \cup {"", "C"}, named : BOOLEAN, up : BOOLEAN]
  /\ MaxData \in [{"client", "server"} \X Clients -> Nat]
  /\ IsFiniteSet(Clients)

Ends == {"client", "server"} \X Clients

VARIABLES
  proxies,      \* pools whose proxy can be written to
  link,         \* commands on the way to the proxy of a pool
  hnd,          \* Handle objects of a proxy, by address
  id2handle,    \* addresses the map id2handle keeps
  loc2connID,   \* address |-> identifier
  connID2loc,   \* identifier |-> address
  connid2proxy, \* identifiers with a proxy to write to
  proc2proc,    \* address |-> address
  top,          \* the highest address in use so far
  req,          \* what each client asked
  sent,         \* what an end has sent: data, and whether it closed
  got           \* what an end was sent

tables == <<id2handle, loc2connID, connID2loc, connid2proxy, proc2proc>>
vars == <<proxies, link, hnd, tables, top, req, sent, got>>

NoReq == [style |-> "none", via |-> "A", dest |-> ""]
Item(k, what, n) == [k |-> k, what |-> what, n |-> n]

Init ==
  /\ proxies = [p \in Pools |-> {}] /\ link = [p \in Pools |-> <<>>]
  /\ hnd = [p \in Pools |-> <<>>] /\ id2handle = [p \in Pools |-> {}]
  /\ loc2connID = [p \in Pools |-> <<>>] /\ connID2loc = [p \in Pools |-> <<>>]
  /\ connid2proxy = [p \in Pools |-> {}] /\ proc2proc = [p \in Pools |-> <<>>]
  /\ top = [p \in Pools |-> 0] /\ req = [k \in Clients |-> NoReq]
  /\ sent = [e \in Ends |-> [data |-> 0, open |-> FALSE, closed |-> FALSE]]
  /\ got = [e \in Ends |-> <<>>]

-----------------------------------------------------------------------------
(* Handles and maps.                                                       *)

\* insert and emplace of std::map leave an existing entry alone.
Insert(f, key, value) ==
  [x \in DOMAIN f \cup {key} |-> IF x \in DOMAIN f THEN f[x] ELSE value]
Erase(f, key) == Restrict(f, DOMAIN f \ {key})

\* A Handle for a new connection; memory of deleted ones may come back.
FreeAddr(p) == (1 .. top[p] + 1) \ DOMAIN hnd[p]
NewHandle(e, in, new) == [end |-> e, in |-> in, new |-> new, rd |-> FALSE, wr |-> FALSE]

\* Mutant: one closed direction is enough.
ClosedHalf(h) == h.rd \/ h.wr
Closed(h) == h.rd /\ h.wr

\* decrementReferenceCounter, when the event loop drops its HandleUser.
Release(table, kept) ==
  Restrict(table, {a \in DOMAIN table : Closed(table[a]) => a \in kept})

\* HandleUser::send and close: what the end gets, and closed_wr.
SendTo(table, g, a, items) ==
  IF a \in DOMAIN table /\ ~table[a].wr
  THEN [g EXCEPT ![table[a].end] = @ \o items] ELSE g
CloseOf(table, a) == [table EXCEPT ![a].wr = TRUE]
\* Mutant: the handle is closed without an end of stream.
CloseToSilent(table, g, a) == g
CloseTo(table, g, a) == SendTo(table, g, a, <<Item(table[a].end[2], "eos", 0)>>)

-----------------------------------------------------------------------------
(* Clients and components.                                                 *)

\* Manager::connect and the handshake of Manager::createTeam.
ConnectHandshake(k) == <<Item(k, "p2p", 0), Item(k, "dest", 0)>>
TeamHandshake(k) ==
  <<Item(k, "dest", 0), Item(k, "team", 0), Item(k, "app", 0), Item(k, "teamID", 0)>>
HandshakeOf(k, style) == IF style = "p2p" THEN ConnectHandshake(k) ELSE TeamHandshake(k)

ClientConnect(k, r) ==
  /\ req[k] = NoReq
  /\ req' = [req EXCEPT ![k] = r]
  /\ sent' = [sent EXCEPT ![<<"client", k>>].open = TRUE]
  /\ \E a \in FreeAddr(r.via) :
       /\ hnd' = [hnd EXCEPT ![r.via] =
                    Insert(@, a, NewHandle(<<"client", k>>, HandshakeOf(k, r.style), TRUE))]
       /\ top' = [top EXCEPT ![r.via] = IF a > @ THEN a ELSE @]
  /\ UNCHANGED <<proxies, link, tables, got>>

\* The proxy's handle for an end, and the arrival of a message there.
Arrives(e, item) ==
  \E p \in Pools : \E a \in DOMAIN hnd[p] :
    /\ hnd[p][a].end = e
    /\ hnd' = [hnd EXCEPT ![p][a].in = Append(@, item)]

EndSend(e) ==
  /\ sent[e].open /\ ~sent[e].closed /\ sent[e].data < MaxData[e]
  /\ sent' = [sent EXCEPT ![e].data = @ + 1]
  /\ Arrives(e, Item(e[2], "data", sent[e].data + 1))
  /\ UNCHANGED <<proxies, link, tables, top, req, got>>

EndClose(e) ==
  /\ sent[e].open /\ ~sent[e].closed
  /\ sent' = [sent EXCEPT ![e].closed = TRUE]
  /\ Arrives(e, Item(e[2], "eos", 0))
  /\ UNCHANGED <<proxies, link, tables, top, req, got>>

-----------------------------------------------------------------------------
(* The link: the proxy of the lesser pool connects, once, before its loop. *)

Command(cmd, id, items) == [cmd |-> cmd, id |-> id, items |-> items]
NoId == [dest |-> "", pool |-> "", addr |-> 0]
\* Mutant: the identifier is not copied into the buffer.
EosCommandBlank(id) == Command("EOS", NoId, <<>>)
EosCommand(id) == Command("EOS", id, <<>>)
Write(p, commands) == link' = [link EXCEPT ![Other(p)] = @ \o commands]

ConnectProxies ==
  /\ proxies["A"] = {}
  /\ proxies' = [proxies EXCEPT !["A"] = {"B"}]
  /\ Write("A", <<Command("PRX", NoId, <<>>)>>)
  /\ UNCHANGED <<hnd, tables, top, req, sent, got>>

\* A new connection on the port of the proxies.
NewProxy(p) ==
  /\ link[p] # <<>> /\ Head(link[p]).cmd = "PRX"
  /\ proxies' = [proxies EXCEPT ![p] = @ \cup {Other(p)}]
  /\ link' = [link EXCEPT ![p] = Tail(@)]
  /\ UNCHANGED <<hnd, tables, top, req, sent, got>>

-----------------------------------------------------------------------------
(* A command from the other proxy.                                         *)

Receive(p, cmds) ==
  /\ link[p] # <<>> /\ Head(link[p]).cmd \in cmds
  /\ link' = [link EXCEPT ![p] = Tail(@)]
  /\ UNCHANGED <<proxies, req>>

\* Mutant: an entry of one of the maps is not erased.
ForgetOneWay(p, id, a) ==
  /\ loc2connID' = [loc2connID EXCEPT ![p] = Erase(@, a)]
  /\ id2handle' = [id2handle EXCEPT ![p] = @ \ {a}]
  /\ UNCHANGED connID2loc
Forget(p, id, a) ==
  /\ connID2loc' = [connID2loc EXCEPT ![p] = Erase(@, id)]
  /\ loc2connID' = [loc2connID EXCEPT ![p] = Erase(@, a)]
  /\ id2handle' = [id2handle EXCEPT ![p] = @ \ {a}]

EosFromProxy(p) ==
  /\ Receive(p, {"EOS"})
  /\ LET id == Head(link[p]).id IN
     IF id \in DOMAIN connID2loc[p]
     THEN LET a == connID2loc[p][id]
              table == CloseOf(hnd[p], a) IN
          /\ got' = CloseTo(hnd[p], got, a)
          /\ IF Closed(table[a])
             THEN Forget(p, loc2connID[p][a], a)
             ELSE UNCHANGED <<connID2loc, loc2connID, id2handle>>
          /\ hnd' = [hnd EXCEPT ![p] = Release(table, id2handle'[p])]
     ELSE UNCHANGED <<hnd, got, connID2loc, loc2connID, id2handle>>
  /\ UNCHANGED <<connid2proxy, proc2proc, top, sent>>

FwdFromProxy(p) ==
  /\ Receive(p, {"FWD"})
  /\ LET m == Head(link[p]) IN
     got' = IF m.id \in DOMAIN connID2loc[p] /\ connID2loc[p][m.id] \in id2handle[p]
            THEN SendTo(hnd[p], got, connID2loc[p][m.id], m.items) ELSE got
  /\ UNCHANGED <<hnd, tables, top, sent>>

\* The new connection of a proxy to the component: the handle, already
\* kept, and what is sent to it at once.
Dial(p, a, e, greeting) ==
  /\ hnd' = [hnd EXCEPT ![p] = Insert(@, a, NewHandle(e, <<>>, FALSE))]
  /\ top' = [top EXCEPT ![p] = IF a > @ THEN a ELSE @]
  /\ sent' = [sent EXCEPT ![e].open = TRUE]
  /\ got' = [got EXCEPT ![e] = @ \o greeting]

\* Endpoints are tried in turn; nobody is told when none answers.
ConnFromProxy(p) ==
  /\ Receive(p, {"CONN", "CONN_COLL"})
  /\ LET m == Head(link[p])
         id == m.id
         e == <<"server", m.items[1].k>>
     IN IF id.dest \in DOMAIN Config /\ Config[id.dest].up
        THEN \E a \in FreeAddr(p) :
               /\ Dial(p, a, e, m.items)
               /\ loc2connID' = [loc2connID EXCEPT ![p] = Insert(@, a, id)]
               /\ connID2loc' = [connID2loc EXCEPT ![p] = Insert(@, id, a)]
               /\ connid2proxy' = [connid2proxy EXCEPT ![p] = @ \cup {id}]
               /\ id2handle' = [id2handle EXCEPT ![p] = @ \cup {a}]
        ELSE UNCHANGED <<hnd, top, sent, got, loc2connID, connID2loc, connid2proxy, id2handle>>
  /\ UNCHANGED proc2proc

-----------------------------------------------------------------------------
(* A message from a client or a component.                                 *)

\* The loop of a proxy starts once its proxies were connected to.
Running(p) == p = "A" => proxies[p] # {}
Pending(p, a) == hnd[p][a].in
Take(p, a, n) == [hnd[p][a] EXCEPT !.in = SubSeq(@, n + 1, Len(@)), !.new = FALSE]

\* The first message is the destination, the second an int: a longer one
\* does not fit, stays where it is, and the connection is left alone.
IsFlag(item) == item.what \in {"p2p", "team"}
Greeting(in) == IF in[2].what = "team" THEN <<in[2], in[3]>> ELSE <<in[2]>>
Understood(in) == IsFlag(in[2]) /\ req[in[1].k].dest \in DOMAIN Config

Near(p, dest) == Config[dest].pool \in {"", p}
\* A team names its root without a protocol, and the name is then searched
\* for in the endpoints as if it were one.
Answers(dest) == Config[dest].up /\ Config[dest].named

\* Refused, or addressed to nobody: nothing is recorded.
DropClient(p, a) ==
  LET in == Pending(p, a)
      dest == req[in[1].k].dest IN
  /\ hnd[p][a].new /\ Running(p)
  /\ Understood(in) => ~Near(p, dest) /\ Config[dest].pool \notin proxies[p]
  /\ hnd' = [hnd EXCEPT ![p][a] = Take(p, a, IF IsFlag(in[2]) THEN Len(Greeting(in)) + 1 ELSE 1)]
  /\ UNCHANGED <<proxies, link, tables, top, req, sent, got>>

RefuseClient(p, a) ==
  LET in == Pending(p, a)
      dest == req[in[1].k].dest IN
  /\ hnd[p][a].new /\ Running(p) /\ Understood(in)
  /\ Near(p, dest) /\ ~Answers(dest)
  /\ got' = CloseTo(hnd[p], got, a)
  /\ hnd' = [hnd EXCEPT ![p][a] = [Take(p, a, Len(Greeting(in)) + 1) EXCEPT !.wr = TRUE]]
  /\ UNCHANGED <<proxies, link, tables, top, req, sent>>

OneHop(p, a) ==
  LET in == Pending(p, a)
      e == <<"server", in[1].k>>
      dest == req[in[1].k].dest IN
  /\ hnd[p][a].new /\ Running(p) /\ Understood(in)
  /\ Near(p, dest) /\ Answers(dest)
  /\ \E b \in FreeAddr(p) :
       /\ hnd' = [hnd EXCEPT ![p] = Insert([@ EXCEPT ![a] = Take(p, a, Len(Greeting(in)) + 1)],
                                           b, NewHandle(e, <<>>, FALSE))]
       /\ top' = [top EXCEPT ![p] = IF b > @ THEN b ELSE @]
       /\ proc2proc' = [proc2proc EXCEPT ![p] = Insert(Insert(@, a, b), b, a)]
       /\ id2handle' = [id2handle EXCEPT ![p] = @ \cup {a, b}]
  /\ sent' = [sent EXCEPT ![e].open = TRUE]
  /\ got' = [got EXCEPT ![e] = @ \o Greeting(in)]
  /\ UNCHANGED <<proxies, link, loc2connID, connID2loc, connid2proxy, req>>

TwoHops(p, a) ==
  LET in == Pending(p, a)
      dest == req[in[1].k].dest
      id == [dest |-> dest, pool |-> p, addr |-> a]
      cmd == IF in[2].what = "team" THEN "CONN_COLL" ELSE "CONN" IN
  /\ hnd[p][a].new /\ Running(p) /\ Understood(in)
  /\ ~Near(p, dest) /\ Config[dest].pool \in proxies[p]
  /\ Write(p, <<Command(cmd, id, <<in[2]>>)>> \o
              (IF in[2].what = "team" THEN <<Command("FWD", id, <<in[3]>>)>> ELSE <<>>))
  /\ loc2connID' = [loc2connID EXCEPT ![p] = Insert(@, a, id)]
  /\ connID2loc' = [connID2loc EXCEPT ![p] = Insert(@, id, a)]
  /\ connid2proxy' = [connid2proxy EXCEPT ![p] = @ \cup {id}]
  /\ id2handle' = [id2handle EXCEPT ![p] = @ \cup {a}]
  /\ hnd' = [hnd EXCEPT ![p][a] = Take(p, a, Len(Greeting(in)) + 1)]
  /\ UNCHANGED <<proxies, proc2proc, top, req, sent, got>>

\* Something on a connection that is not new, before it is told what to do.
Next1(p, a, eos) ==
  /\ Running(p) /\ ~hnd[p][a].new /\ Pending(p, a) # <<>>
  /\ (Head(Pending(p, a)).what = "eos") = eos
  /\ UNCHANGED <<proxies, top, req, sent>>

ForwardData(p, a) ==
  /\ Next1(p, a, FALSE)
  /\ hnd' = [hnd EXCEPT ![p][a] = Take(p, a, 1)]
  /\ LET items == <<Head(Pending(p, a))>> IN
     \/ /\ a \in DOMAIN loc2connID[p]
        /\ Write(p, <<Command("FWD", loc2connID[p][a], items)>>)
        /\ UNCHANGED got
     \/ /\ a \notin DOMAIN loc2connID[p] /\ a \in DOMAIN proc2proc[p]
        /\ got' = SendTo(hnd[p], got, proc2proc[p][a], items)
        /\ UNCHANGED link
     \/ /\ a \notin DOMAIN loc2connID[p] \cup DOMAIN proc2proc[p]
        /\ UNCHANGED <<link, got>>
  /\ UNCHANGED tables

\* End of stream on a connection between proxies: told to the other proxy,
\* and everything is forgotten once both directions are closed.
EndTwoHops(p, a) ==
  LET table == [hnd[p] EXCEPT ![a] = [Take(p, a, 1) EXCEPT !.rd = TRUE]]
      id == loc2connID[p][a] IN
  /\ Next1(p, a, TRUE) /\ a \in DOMAIN loc2connID[p]
  /\ Write(p, <<EosCommand(id)>>)
  /\ IF Closed(table[a])
     THEN Forget(p, id, a) /\ connid2proxy' = [connid2proxy EXCEPT ![p] = @ \ {id}]
     ELSE UNCHANGED <<connID2loc, loc2connID, id2handle, connid2proxy>>
  /\ hnd' = [hnd EXCEPT ![p] = Release(table, id2handle'[p])]
  /\ UNCHANGED <<proc2proc, got>>

\* End of stream on one hop: the other handle is closed, and forgotten if
\* that was its second half.
EndOneHop(p, a) ==
  LET table == [hnd[p] EXCEPT ![a] = [Take(p, a, 1) EXCEPT !.rd = TRUE]]
      b == proc2proc[p][a] IN
  /\ Next1(p, a, TRUE) /\ a \notin DOMAIN loc2connID[p] /\ a \in DOMAIN proc2proc[p]
  /\ got' = CloseTo(table, got, b)
  /\ IF Closed(CloseOf(table, b)[b])
     THEN /\ proc2proc' = [proc2proc EXCEPT ![p] = Erase(@, b)]
          /\ id2handle' = [id2handle EXCEPT ![p] = @ \ {b}]
     ELSE UNCHANGED <<proc2proc, id2handle>>
  /\ hnd' = [hnd EXCEPT ![p] = Release(CloseOf(table, b), id2handle'[p])]
  /\ UNCHANGED <<link, loc2connID, connID2loc, connid2proxy>>

EndUnknown(p, a) ==
  /\ Next1(p, a, TRUE) /\ a \notin DOMAIN loc2connID[p] \cup DOMAIN proc2proc[p]
  /\ hnd' = [hnd EXCEPT ![p] = Release([@ EXCEPT ![a] = [Take(p, a, 1) EXCEPT !.rd = TRUE]],
                                       id2handle[p])]
  /\ UNCHANGED <<link, tables, got>>

FromEnd(p, a) ==
  \/ DropClient(p, a) \/ RefuseClient(p, a) \/ OneHop(p, a) \/ TwoHops(p, a)
  \/ ForwardData(p, a) \/ EndTwoHops(p, a) \/ EndOneHop(p, a) \/ EndUnknown(p, a)

FromProxy(p) == NewProxy(p) \/ EosFromProxy(p) \/ FwdFromProxy(p) \/ ConnFromProxy(p)

\* One turn of the event loop of a proxy.
Loop(p) == FromProxy(p) \/ \E a \in DOMAIN hnd[p] : FromEnd(p, a)

Next ==
  \/ ConnectProxies
  \/ \E k \in Clients : \E r \in Requests[k] : ClientConnect(k, r)
  \/ \E e \in Ends : EndSend(e) \/ EndClose(e)
  \/ \E p \in Pools : Loop(p)

Spec == Init /\ [][Next]_vars

\* The proxies keep running, and an application that has a connection closes
\* it in the end.  One condition for all is enough: no behaviour is infinite.
FairSpec == Spec /\ WF_vars(ConnectProxies \/ (\E p \in Pools : Loop(p)) \/ \E e \in Ends : EndClose(e))

-----------------------------------------------------------------------------
TypeOK ==
  /\ \A p \in Pools :
       /\ proxies[p] \subseteq {Other(p)} /\ top[p] \in 0 .. 2 * Cardinality(Clients)
       /\ DOMAIN hnd[p] \subseteq 1 .. top[p] /\ id2handle[p] \subseteq 1 .. top[p]
       /\ \A m \in Range(link[p]) : /\ m.cmd \in {"PRX", "CONN", "CONN_COLL", "FWD", "EOS"}
                                    /\ m.id = NoId <=> m.cmd = "PRX"
  /\ \A e \in Ends : sent[e].data \in 0 .. MaxData[e]

\* What the end at the other side of a connection has sent.
Sent(e) ==
  LET k == e[2]
      data == [n \in 1 .. sent[e].data |-> Item(k, "data", n)]
      eos == IF sent[e].closed THEN <<Item(k, "eos", 0)>> ELSE <<>>
  IN (IF e[1] = "client" THEN Tail(HandshakeOf(k, req[k].style)) ELSE <<>>) \o data \o eos
Served(k) == sent[<<"server", k>>].open

\* A component behind proxies sees what it would see on a connection of its
\* own: the handshake without the destination, the client's messages and
\* its end of stream, in order, and nothing of another client; and so does
\* the client, also when an address, hence an identifier, is used again.
EndToEnd ==
  \A k \in Clients : Served(k) =>
    /\ IsPrefix(got[<<"server", k>>], Sent(<<"client", k>>))
    /\ IsPrefix(got[<<"client", k>>], Sent(<<"server", k>>))

\* at(), operator[] and the pointers the maps yield are safe: the two maps
\* of the two-hop connections are inverses, lead to kept, living handles and
\* to a proxy; what proc2proc joins to a kept handle is that of the same client.
TablesAgree ==
  \A p \in Pools :
    /\ \A a \in DOMAIN loc2connID[p] :
         /\ loc2connID[p][a] \in DOMAIN connID2loc[p] \cap connid2proxy[p]
         /\ connID2loc[p][loc2connID[p][a]] = a
    /\ \A id \in DOMAIN connID2loc[p] :
         connID2loc[p][id] \in id2handle[p] \cap DOMAIN loc2connID[p]
    /\ id2handle[p] \subseteq DOMAIN hnd[p]
    /\ \A a \in DOMAIN proc2proc[p] \cap DOMAIN hnd[p] :
         ~hnd[p][a].rd => /\ proc2proc[p][a] \in DOMAIN hnd[p]
                          /\ hnd[p][proc2proc[p][a]].end[2] = hnd[p][a].end[2]

\* A client whose connection the entry proxy can bring to the component it
\* named.  One of Manager::connect is not: it sends its destination in the
\* place of the int.
Routable(p, k) ==
  LET dest == req[k].dest IN
  /\ req[k].style = "team" /\ dest \in DOMAIN Config /\ Config[dest].up
  /\ Config[dest].pool \in proxies[p] \/ (Near(p, dest) /\ Config[dest].named)
Waiting(k) ==
  \E p \in Pools : \E a \in DOMAIN hnd[p] :
    hnd[p][a].end = <<"client", k>> /\ hnd[p][a].new /\ Routable(p, k)

\* A member of a team that named such a component is connected to it; both
\* ends learn that the other one closed, whichever order the two ends of
\* stream cross in; and a two-hop connection leaves nothing behind in either
\* proxy, so that its memory and its identifier are used again.
Concluded ==
  \A k \in Clients : Waiting(k) ~>
    /\ Served(k)
    /\ Item(k, "eos", 0) \in Range(got[<<"server", k>>])
    /\ Item(k, "eos", 0) \in Range(got[<<"client", k>>])
    /\ Near(req[k].via, req[k].dest) \/
         \A p \in Pools : \A a \in DOMAIN hnd[p] : hnd[p][a].end[2] # k
=============================================================================
