----------------------------- MODULE Connectors -----------------------------
(***************************************************************************)
(* The connectors other than TCP that a program can register: ConnSHM,     *)
(* ConnMPI, ConnMQTT and ConnUCX, each in the multi-threaded build, as one *)
(* process uses it.  They hand a Handle back and forth between the         *)
(* application and the runtime in the same way: the table connections      *)
(* holds, for every handle open for reading, a flag to_manage; update, run *)
(* by the I/O thread, queues the managed handles that have something to    *)
(* read, and notify_yield sets the flag again.  They differ in what they   *)
(* read ahead, in what they lock, and in what they tear down at a close.   *)
(*                                                                         *)
(* A message is a header and a payload, sent one after the other, except   *)
(* in shared memory, where both are one message in a slot (ShmBuffer).     *)
(* Libraries (MPI, the MQTT broker, UCX) deliver in order.  Peers run the  *)
(* same code, do not die, send what the handshake needs, and read what     *)
(* this process sends, so that its own sends return.                       *)
(***************************************************************************)
EXTENDS Integers, SequencesExt, FiniteSetsExt

CONSTANTS
  Transports, \* the connectors under study
  Accepts,    \* handles for connections of peers
  Connects,   \* handles for connections to peers
  MaxMsgs,    \* messages a peer sends on a connection, after the handshake
  MaxReady    \* SHM: copies of one handle in the ready queue

AllTransports == {"SHM", "MPI", "MQTT", "UCX"}
ASSUME ConnectorAssumption ==
  /\ Transports \subseteq AllTransports
  /\ Accepts \cap Connects = {} /\ IsFiniteSet(Accepts \cup Connects)
  /\ MaxMsgs \in Nat \ {0} /\ MaxReady \in Nat \ {0}

H == Accepts \cup Connects

VARIABLES
  transport, \* the connector
  listening, \* after listen
  conn,      \* where the connection of a handle is
  in,        \* what is on the way to this process
  peer,      \* what the peers have done
  tbl,       \* connections: to_manage of the handles that are in it
  hd,        \* the Handle objects
  users,     \* HandleUser objects the application has
  q,         \* Manager::handleReady
  io,        \* the I/O thread
  lock,      \* holder of shm
  app,       \* the application thread
  ev         \* UCX: endpoints with an event that was not polled

local == <<hd, users, tbl>>
vars == <<transport, listening, conn, in, peer, tbl, hd, users, q, io, lock, app, ev>>

NoH == "none"
NewHandle == [wr |-> FALSE, rd |-> FALSE, probed |-> "no", header |-> "no",
              is_probed |-> FALSE, ep |-> TRUE, eos |-> "no"]

Init ==
  /\ transport \in Transports /\ listening = FALSE
  /\ conn = [h \in H |-> "free"] /\ in = [h \in H |-> <<>>]
  /\ peer = [h \in H |-> [sent |-> 0, mid |-> FALSE, closed |-> FALSE,
                          subscribed |-> FALSE, ack |-> FALSE, lost |-> FALSE]]
  /\ tbl = [h \in H |-> "absent"] /\ hd = [h \in H |-> NewHandle]
  /\ users = [h \in H |-> 0] /\ q = <<>>
  /\ io = [pc |-> "idle", h |-> NoH, todo |-> {}]
  /\ lock = "free" /\ app = [pc |-> "run", h |-> NoH, todo |-> {}, block |-> FALSE]
  /\ ev = {}

TypeOK ==
  /\ conn \in [H -> {"free", "asked", "accepting", "open"}]
  /\ tbl \in [H -> {"absent", "kept", "managed"}]
  /\ \A h \in H :
       /\ {hd[h].probed, hd[h].header} \subseteq {"no", "data", "eos", "garbage"}
       /\ hd[h].eos \in {"no", "sent", "late"}
       /\ users[h] \in Nat /\ peer[h].sent \in 0 .. MaxMsgs + 1
       /\ Range(in[h]) \subseteq {"header", "payload", "message", "eos"}
  /\ Range(q) \subseteq H \X BOOLEAN
  /\ lock \in {"free", "io"}
  /\ app.pc \in {"run", "yield", "closing", "draining", "end"}

-----------------------------------------------------------------------------
(* What a send puts on the way: send and sendEOS of the handles.           *)

Slot == transport = "SHM"
SendSHM == <<"message">>
SendMPI == <<"header">>
SendMQTT == <<"header">>
SendUCX == <<"header", "payload">>
SendData ==
  CASE transport = "SHM" -> SendSHM [] transport = "MPI" -> SendMPI
    [] transport = "MQTT" -> SendMQTT [] transport = "UCX" -> SendUCX

\* The peer of h is connected as far as its connect goes.
Joined(h) ==
  \/ conn[h] \in {"accepting", "open"} /\ (transport = "MQTT" => peer[h].ack)
  \/ conn[h] = "asked" /\ transport \in {"SHM", "MPI"}

\* An arrival; what is published on a topic nobody has subscribed to is lost.
Arrive(h, items, p) ==
  /\ Slot => in[h] = <<>>
  /\ LET heard == transport # "MQTT" \/ peer[h].subscribed IN
     /\ in' = [in EXCEPT ![h] = IF heard THEN @ \o items ELSE @]
     /\ peer' = [peer EXCEPT ![h] = [p EXCEPT !.lost = @ \/ ~heard]]
  /\ ev' = IF transport = "UCX" THEN ev \cup {h} ELSE ev
  /\ UNCHANGED <<transport, listening, conn, local, q, io, lock, app>>

\* Once everything that came was read there is nothing to report.
Consumed(h) == ev' = IF in'[h] = <<>> THEN ev \ {h} ELSE ev

PeerSend(h) ==
  /\ Joined(h) /\ ~peer[h].mid /\ ~peer[h].closed
  /\ peer[h].sent < MaxMsgs + (IF h \in Connects THEN 0 ELSE 1)
  /\ Arrive(h, SendData, [peer[h] EXCEPT !.sent = @ + 1,
                                         !.mid = transport \in {"MPI", "MQTT"}])
PeerPayload(h) ==
  /\ peer[h].mid
  /\ Arrive(h, <<"payload">>, [peer[h] EXCEPT !.mid = FALSE])

\* After the handshake the peer of an accepted connection may close.
PeerClose(h) ==
  /\ Joined(h) /\ ~peer[h].mid /\ ~peer[h].closed
  /\ h \notin Connects => peer[h].sent > 0
  /\ Arrive(h, <<"eos">>, [peer[h] EXCEPT !.closed = TRUE])

-----------------------------------------------------------------------------
(* listen, and the connections of peers: the beginning of update.          *)

\* MPI receives connections without listen.
Open == listening \/ transport = "MPI"

Listen ==
  /\ ~listening /\ app.pc = "run"
  /\ listening' = TRUE
  /\ UNCHANGED <<transport, conn, in, peer, local, q, io, lock, app, ev>>

\* A peer connects.
PeerConnect(h) ==
  /\ h \in Accepts /\ Open /\ conn[h] = "free"
  /\ conn' = [conn EXCEPT ![h] = "asked"]
  /\ UNCHANGED <<transport, listening, in, peer, local, q, io, lock, app, ev>>

Running == app.pc \in {"run", "yield"}
Acceptable == {h \in Accepts : Open /\ conn[h] = "asked"}

\* The I/O thread goes on to the handshake of h, holding l.
Shake(h, l) ==
  /\ tbl' = [tbl EXCEPT ![h] = "kept"]
  /\ conn' = [conn EXCEPT ![h] = "accepting"]
  /\ io' = [io EXCEPT !.pc = "shake", !.h = h]
  /\ lock' = l
  /\ UNCHANGED <<transport, listening, in, hd, users, q, app, ev>>

\* connbuff holds the names of the two buffers; the lock is released again
\* before the handshake.
AcceptSHM(h) ==
  /\ transport = "SHM" /\ io.pc = "idle" /\ Running
  /\ h \in Acceptable /\ lock = "free"
  /\ Shake(h, "free")
  /\ UNCHANGED peer
AcceptMPI(h) ==
  /\ transport = "MPI" /\ io.pc = "idle" /\ Running
  /\ h \in Acceptable /\ lock = "free"
  /\ Shake(h, "io")
  /\ UNCHANGED peer
\* An OOB socket carries the addresses of the workers.
AcceptUCX(h) ==
  /\ transport = "UCX" /\ io.pc = "idle" /\ Running
  /\ h \in Acceptable /\ lock = "free"
  /\ Shake(h, "io")
  /\ UNCHANGED peer
\* createClient subscribes to the topic of the peer; only then is the
\* acknowledgement published that its connect waits for.
AcceptMQTT(h) ==
  /\ transport = "MQTT" /\ io.pc = "idle" /\ Running
  /\ h \in Acceptable
  /\ peer' = [peer EXCEPT ![h].subscribed = TRUE]
  /\ io' = [io EXCEPT !.pc = "ack", !.h = h]
  /\ UNCHANGED <<transport, listening, conn, in, local, q, lock, app, ev>>
AckMQTT ==
  /\ io.pc = "ack" /\ lock = "free"
  /\ peer' = [peer EXCEPT ![io.h].ack = TRUE]
  /\ Shake(io.h, "io")

\* connectionHandshake reads one message; addinQ queues the handle.
Handshake ==
  LET h == io.h
      n == IF Slot THEN 1 ELSE 2 IN
  /\ io.pc = "shake" /\ Len(in[h]) >= n
  /\ in' = [in EXCEPT ![h] = SubSeq(@, n + 1, Len(@))]
  /\ conn' = [conn EXCEPT ![h] = "open"]
  /\ q' = Append(q, <<h, TRUE>>)
  /\ io' = [io EXCEPT !.pc = "scan", !.h = NoH]
  /\ lock' = "free"
  /\ Consumed(h)
  /\ UNCHANGED <<transport, listening, peer, local, app>>

-----------------------------------------------------------------------------
(* The loop of update over the managed handles.                            *)

Managed == {h \in H : tbl[h] = "managed"}
Scanning(x) ==
  /\ transport = x /\ lock = "free" /\ Running
  /\ \/ io.pc = "scan"
     \/ io.pc = "idle" /\ Acceptable = {}

addinQ(hs) == q \o SetToSeq(hs \X {FALSE})
Queue(hs) ==
  /\ q' = addinQ(hs)
  /\ io' = [io EXCEPT !.pc = "idle"]

\* peek answers 0 or 1, and update tests for less than 0; the flag stays.
Copies(h) == Cardinality({j \in DOMAIN q : q[j][1] = h})
ScanSHM ==
  /\ Scanning("SHM")
  /\ Queue({h \in Managed : Copies(h) < MaxReady})
  /\ UNCHANGED <<transport, listening, conn, in, peer, local, lock, app, ev>>

\* Mutants: to_manage is not cleared; a header of size 0 is no reason to queue.
ScanMPIKeeping ==
  /\ Scanning("MPI")
  /\ Queue({h \in Managed : in[h] # <<>>})
  /\ UNCHANGED <<transport, listening, conn, in, peer, local, lock, app, ev>>
ScanMPIData ==
  LET ready == {h \in Managed : in[h] # <<>> /\ Head(in[h]) # "eos"} IN
  /\ Scanning("MPI")
  /\ Queue(ready)
  /\ tbl' = [h \in H |-> IF h \in ready THEN "kept" ELSE tbl[h]]
  /\ UNCHANGED <<transport, listening, conn, in, peer, hd, users, lock, app, ev>>
ScanMPI ==
  LET ready == {h \in Managed : in[h] # <<>>} IN
  /\ Scanning("MPI")
  /\ Queue(ready)
  /\ tbl' = [h \in H |-> IF h \in ready THEN "kept" ELSE tbl[h]]
  /\ UNCHANGED <<transport, listening, conn, in, peer, hd, users, lock, app, ev>>

\* The message found is kept for the next probe, or receive, of the handle.
Kind(item) == CASE item = "eos" -> "eos" [] item = "payload" -> "garbage" [] OTHER -> "data"
ScanMQTT ==
  LET ready == {h \in Managed : in[h] # <<>>} IN
  /\ Scanning("MQTT")
  /\ Queue(ready)
  /\ tbl' = [h \in H |-> IF h \in ready THEN "kept" ELSE tbl[h]]
  /\ hd' = [h \in H |-> IF h \in ready
                        THEN [hd[h] EXCEPT !.is_probed = TRUE, !.header = Kind(Head(in[h]))]
                        ELSE hd[h]]
  /\ in' = [h \in H |-> IF h \in ready THEN Tail(in[h]) ELSE in[h]]
  /\ UNCHANGED <<transport, listening, conn, peer, users, lock, app, ev>>

\* ucp_stream_worker_poll reports an endpoint once for each event, and is
\* called without the lock.
PollUCX ==
  /\ transport = "UCX" /\ Running
  /\ io.pc = "scan" \/ (io.pc = "idle" /\ Acceptable = {})
  /\ io' = [io EXCEPT !.pc = "polled", !.todo = ev]
  /\ ev' = {}
  /\ UNCHANGED <<transport, listening, conn, in, peer, local, q, lock, app>>
ScanUCX ==
  LET ready == io.todo \cap Managed IN
  /\ io.pc = "polled" /\ lock = "free"
  /\ q' = addinQ(ready)
  /\ tbl' = [h \in H |-> IF h \in ready THEN "kept" ELSE tbl[h]]
  /\ io' = [io EXCEPT !.pc = "idle", !.todo = {}]
  /\ UNCHANGED <<transport, listening, conn, in, peer, hd, users, lock, app, ev>>

-----------------------------------------------------------------------------
(* probe and receive of the handles: what they find, and how they leave    *)
(* the handle and the connection.                                          *)

Readable(h) == hd[h].header # "no" \/ in[h] # <<>>
Taken(h, d) == [found |-> Kind(Head(in[h])), in |-> Tail(in[h]), hd |-> d]

\* The message stays in the slot.
ProbeSHM(h) == [found |-> Kind(Head(in[h])), in |-> in[h], hd |-> hd[h]]
ProbeMPI(h) == Taken(h, hd[h])
ProbeMQTT(h) ==
  IF hd[h].is_probed
  THEN [found |-> hd[h].header, in |-> in[h], hd |-> [hd[h] EXCEPT !.header = "no"]]
  ELSE Taken(h, [hd[h] EXCEPT !.is_probed = TRUE])
\* last_probe keeps the size until receive; a probe that found nothing has
\* asked for the header, which the next probe then gets.
ProbeUCX(h) ==
  IF hd[h].header # "no"
  THEN [found |-> hd[h].header, in |-> in[h], hd |-> hd[h]]
  ELSE Taken(h, [hd[h] EXCEPT !.header = Kind(Head(in[h]))])
ProbeHandle(h) ==
  CASE transport = "SHM" -> ProbeSHM(h) [] transport = "MPI" -> ProbeMPI(h)
    [] transport = "MQTT" -> ProbeMQTT(h) [] transport = "UCX" -> ProbeUCX(h)

ReceiveMQTT(h) == [hd[h] EXCEPT !.is_probed = FALSE]
ReceiveUCX(h) == [hd[h] EXCEPT !.header = "no"]
ReceiveHandle(h) ==
  CASE transport = "MQTT" -> ReceiveMQTT(h) [] transport = "UCX" -> ReceiveUCX(h)
    [] OTHER -> hd[h]

-----------------------------------------------------------------------------
(* notify_close, called by Handle::close with the flags the handle has     *)
(* then; d are the handles, with these flags set.                          *)

Out(h, d) == [tbl |-> IF d[h].rd THEN [tbl EXCEPT ![h] = "absent"] ELSE tbl, hd |-> d]

NotifyCloseSHM(h, d) == Out(h, d)
NotifyCloseMPI(h, d) == Out(h, d)
NotifyCloseMQTT(h, d) == Out(h, d)
\* The endpoint is closed with the read side, also when the handle is still open
\* for writing.
NotifyCloseUCX(h, d) ==
  IF ~d[h].ep THEN [tbl |-> tbl, hd |-> d]
  ELSE Out(h, [d EXCEPT ![h].ep = ~d[h].rd])
NotifyClose(h, d) ==
  CASE transport = "SHM" -> NotifyCloseSHM(h, d) [] transport = "MPI" -> NotifyCloseMPI(h, d)
    [] transport = "MQTT" -> NotifyCloseMQTT(h, d) [] transport = "UCX" -> NotifyCloseUCX(h, d)

\* sendEOS, when the write side is closed; on an endpoint that is closed already
\* it comes too late.
SendEOS(x) == IF x.ep THEN "sent" ELSE "late"

\* Handle::close on the handles d.
CloseHandle(h, d, close_wr, close_rd) ==
  LET told == [d EXCEPT ![h].wr = @ \/ close_wr, ![h].rd = @ \/ close_rd,
                        ![h].eos = IF close_wr /\ ~d[h].wr THEN SendEOS(d[h]) ELSE @]
      after == NotifyClose(h, told) IN
  /\ lock = "free"
  /\ tbl' = after.tbl /\ hd' = after.hd

-----------------------------------------------------------------------------
(* The application.                                                        *)

MaxUsers == 2 \* HandleUser objects for one handle
Runs(h) == app.pc = "run" /\ users[h] > 0

Connected(h) ==
  /\ app.pc = "run" /\ h \in Connects /\ conn[h] = "free" /\ lock = "free"
  /\ conn' = [conn EXCEPT ![h] = "open"]
  /\ tbl' = [tbl EXCEPT ![h] = "kept"]
  /\ users' = [users EXCEPT ![h] = 1]
  /\ UNCHANGED <<transport, listening, in, hd, q, io, lock, app, ev>>
ConnectSHM(h) == transport = "SHM" /\ Connected(h) /\ UNCHANGED peer
ConnectMPI(h) == transport = "MPI" /\ Connected(h) /\ UNCHANGED peer
ConnectUCX(h) == transport = "UCX" /\ Connected(h) /\ UNCHANGED peer
\* The topic of the answers is subscribed to before the peer is told.
ConnectMQTT(h) ==
  /\ transport = "MQTT" /\ Connected(h)
  /\ peer' = [peer EXCEPT ![h].subscribed = TRUE, ![h].ack = TRUE]

GetNext ==
  /\ app.pc = "run" /\ q # <<>> /\ users[Head(q)[1]] < MaxUsers
  /\ users' = [users EXCEPT ![Head(q)[1]] = @ + 1]
  /\ q' = Tail(q)
  /\ UNCHANGED <<transport, listening, conn, in, peer, hd, tbl, io, lock, app, ev>>

\* HandleUser::probe, and the probe of setAsClosed, which discards what comes.
Probe(h) ==
  LET r == ProbeHandle(h)
      d == [hd EXCEPT ![h] = [r.hd EXCEPT !.probed = r.found]] IN
  /\ Runs(h) \/ (app.pc = "draining" /\ app.h = h /\ app.block)
  /\ ~hd[h].rd /\ hd[h].probed = "no" /\ Readable(h)
  /\ in' = [in EXCEPT ![h] = r.in]
  /\ IF r.found = "eos" /\ app.pc = "run" THEN CloseHandle(h, d, FALSE, TRUE)
     ELSE hd' = d /\ UNCHANGED tbl
  /\ Consumed(h)
  /\ UNCHANGED <<transport, listening, conn, peer, users, q, io, lock, app>>

Receive(h) ==
  /\ Runs(h) \/ (app.pc = "draining" /\ app.h = h /\ app.block)
  /\ ~hd[h].rd /\ hd[h].probed = "data" /\ in[h] # <<>>
  /\ in' = [in EXCEPT ![h] = Tail(@)]
  /\ hd' = [hd EXCEPT ![h] = [ReceiveHandle(h) EXCEPT
               !.probed = IF Head(in[h]) \in {"payload", "message"} THEN "no" ELSE "garbage"]]
  /\ Consumed(h)
  /\ UNCHANGED <<transport, listening, conn, peer, tbl, users, q, io, lock, app>>

\* HandleUser::close.
Close(h) ==
  /\ Runs(h) /\ ~hd[h].wr
  /\ CloseHandle(h, hd, TRUE, FALSE)
  /\ UNCHANGED <<transport, listening, conn, in, peer, users, q, io, lock, app, ev>>

\* Mutant: a HandleUser that was moved from gives the handle up again.
DropMoved(h) ==
  /\ app.pc = "run" /\ hd[h].rd
  /\ users' = [users EXCEPT ![h] = @ - 1]
  /\ UNCHANGED <<transport, listening, conn, in, peer, hd, tbl, q, io, lock, app, ev>>

\* The destructor of HandleUser: the end of the stream is not readable.
Drop(h) ==
  /\ Runs(h) /\ hd[h].rd
  /\ users' = [users EXCEPT ![h] = @ - 1]
  /\ UNCHANGED <<transport, listening, conn, in, peer, hd, tbl, q, io, lock, app, ev>>

Yields(h) == Runs(h) /\ ~hd[h].rd /\ users' = [users EXCEPT ![h] = @ - 1]
Manage(h) == lock = "free" /\ tbl' = [tbl EXCEPT ![h] = IF @ = "absent" THEN @ ELSE "managed"]

YieldSHM(h) ==
  /\ transport = "SHM" /\ Yields(h) /\ Manage(h)
  /\ UNCHANGED <<transport, listening, conn, in, peer, hd, q, io, lock, app, ev>>
YieldMPI(h) ==
  /\ transport = "MPI" /\ Yields(h) /\ Manage(h)
  /\ UNCHANGED <<transport, listening, conn, in, peer, hd, q, io, lock, app, ev>>
\* Mutant: a message that was probed and not received does not matter.
YieldMQTTAlways(h) ==
  /\ transport = "MQTT" /\ Yields(h) /\ Manage(h)
  /\ UNCHANGED <<transport, listening, conn, in, peer, hd, q, io, lock, app, ev>>
YieldMQTT(h) ==
  /\ transport = "MQTT" /\ Yields(h) /\ lock = "free"
  /\ IF hd[h].is_probed THEN q' = addinQ({h}) /\ UNCHANGED tbl
     ELSE Manage(h) /\ UNCHANGED q
  /\ UNCHANGED <<transport, listening, conn, in, peer, hd, io, lock, app, ev>>
\* A probe without the lock; the flag is set later.
YieldUCX(h) ==
  /\ transport = "UCX" /\ Yields(h)
  /\ IF Readable(h)
     THEN /\ q' = addinQ({h})
          /\ in' = [in EXCEPT ![h] = ProbeUCX(h).in]
          /\ hd' = [hd EXCEPT ![h] = ProbeUCX(h).hd]
          /\ UNCHANGED app
     ELSE app' = [app EXCEPT !.pc = "yield", !.h = h] /\ UNCHANGED <<q, in, hd>>
  /\ Consumed(h)
  /\ UNCHANGED <<transport, listening, conn, peer, tbl, io, lock>>
YieldUCXEnd ==
  /\ app.pc = "yield" /\ Manage(app.h)
  /\ app' = [app EXCEPT !.pc = "run", !.h = NoH]
  /\ UNCHANGED <<transport, listening, conn, in, peer, hd, users, q, io, lock, ev>>

-----------------------------------------------------------------------------
(* Manager::finalize: the I/O thread ends, and the connector.              *)

Present == {h \in H : tbl[h] # "absent"}
EndSHM == Present
\* Mutant: a handle the application or the queue has is not closed.
EndMPIManaged == Managed
EndMPI == Present
EndMQTT == Managed
EndUCX == {h \in Present : hd[h].ep}
End ==
  CASE transport = "SHM" -> EndSHM [] transport = "MPI" -> EndMPI
    [] transport = "MQTT" -> EndMQTT [] transport = "UCX" -> EndUCX

Finalize(blockflag) ==
  /\ app.pc = "run" /\ io.pc = "idle"
  /\ app' = [pc |-> "closing", h |-> NoH, todo |-> End,
             block |-> blockflag \/ transport = "MPI"]
  /\ UNCHANGED <<transport, listening, conn, in, peer, local, q, io, lock, ev>>

\* setAsClosed: EOS, the end of the stream of the peer (Probe, Receive), and
\* the other direction.
SetAsClosed(h) ==
  /\ app.pc = "closing" /\ h \in app.todo
  /\ CloseHandle(h, hd, TRUE, FALSE)
  /\ app' = [app EXCEPT !.pc = "draining", !.h = h]
  /\ UNCHANGED <<transport, listening, conn, in, peer, users, q, io, lock, ev>>
Drained ==
  /\ app.pc = "draining" /\ (hd[app.h].rd \/ hd[app.h].probed = "eos" \/ ~app.block)
  /\ CloseHandle(app.h, hd, FALSE, TRUE)
  /\ app' = [app EXCEPT !.pc = "closing", !.h = NoH, !.todo = @ \ {app.h}]
  /\ UNCHANGED <<transport, listening, conn, in, peer, users, q, io, lock, ev>>
EndDone ==
  /\ app.pc = "closing" /\ app.todo = {}
  /\ app' = [app EXCEPT !.pc = "end"]
  /\ UNCHANGED <<transport, listening, conn, in, peer, local, q, io, lock, ev>>

Done == app.pc = "end" /\ UNCHANGED vars

-----------------------------------------------------------------------------
Io ==
  \/ \E h \in H : AcceptSHM(h) \/ AcceptMPI(h) \/ AcceptUCX(h) \/ AcceptMQTT(h)
  \/ AckMQTT \/ Handshake
  \/ ScanSHM \/ ScanMPI \/ ScanMQTT \/ PollUCX \/ ScanUCX
Application ==
  \/ Listen \/ GetNext
  \/ \E h \in H :
       \/ ConnectSHM(h) \/ ConnectMPI(h) \/ ConnectMQTT(h) \/ ConnectUCX(h)
       \/ Probe(h) \/ Receive(h) \/ Close(h) \/ Drop(h)
       \/ YieldSHM(h) \/ YieldMPI(h) \/ YieldMQTT(h) \/ YieldUCX(h)
       \/ SetAsClosed(h)
  \/ YieldUCXEnd \/ (\E b \in BOOLEAN : Finalize(b)) \/ Drained \/ EndDone
Peers == \E h \in H : PeerConnect(h) \/ PeerSend(h) \/ PeerPayload(h) \/ PeerClose(h)

Next == Io \/ Application \/ Peers \/ Done
Spec == Init /\ [][Next]_vars

\* The threads run, calls of yield and of finalize go on, and peers finish what
\* they began and, once this process finalizes, end their streams.
Finalizing == app.pc \in {"closing", "draining"}
FairSpec ==
  /\ Spec /\ WF_vars(Io) /\ WF_vars(YieldUCXEnd) /\ WF_vars(Finalizing /\ Application)
  /\ \A h \in H : /\ WF_vars(peer[h].sent = 0 /\ h \in Accepts /\ PeerSend(h))
                  /\ WF_vars(PeerPayload(h)) /\ WF_vars(Finalizing /\ PeerClose(h))

-----------------------------------------------------------------------------
(* Properties. *)

\* Exactly one of the runtime, the ready queue and the application has a
\* handle that is open for reading, whatever the order of arrivals, updates
\* and yields.  ConnSHM is not like that: it queues a managed handle again
\* at every update.
SingleOwner ==
  \A h \in H : transport # "SHM" /\ conn[h] = "open" /\ ~hd[h].rd =>
    Copies(h) + users[h] + (IF tbl[h] = "managed" \/ (app.pc = "yield" /\ app.h = h) THEN 1 ELSE 0) = 1

\* What a peer sends is read as what it is.  Nothing is published before the
\* one who waits for it has subscribed; and what was read ahead by update or
\* by a yield is never confused with what follows: no payload is taken for a
\* header, and no header for a payload.
StreamIntact ==
  \A h \in H : ~peer[h].lost /\ "garbage" \notin {hd[h].probed, hd[h].header}

\* finalize returns, whoever has a connection at that moment and whatever of its
\* stream was read ahead, and then the peer of every connection that was open
\* for reading has got the end of the stream, on an endpoint that was open, and
\* both directions are closed.  ConnMQTT::end closes only those the runtime
\* manages.  A handle whose read side is closed is no longer in connections:
\* to end the other direction is up to the application.
FinalizeTells ==
  \A h \in H :
    (/\ app.pc = "closing" /\ conn[h] = "open" /\ ~hd[h].rd
     /\ transport = "MQTT" => tbl[h] = "managed")
    ~> (app.pc = "end" /\ hd[h].wr /\ hd[h].rd /\ hd[h].eos = "sent")

\* A message for a handle the runtime manages is reported.
Reports(h) == (tbl[h] = "managed" /\ in[h] # <<>>) ~>
                (Copies(h) > 0 \/ tbl[h] # "managed" \/ app.pc \notin {"run", "yield"})
Reported == \A h \in H : transport # "UCX" => Reports(h)

\* The same of every connector: no message is overlooked between the probe of
\* a yield and the moment the handle is managed.
NoLostWakeup == \A h \in H : Reports(h)

=============================================================================
