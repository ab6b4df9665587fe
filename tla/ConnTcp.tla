------------------------------ MODULE ConnTcp ------------------------------
(***************************************************************************)
(* One MTCL process that uses the TCP transport in the multi-threaded      *)
(* build (SINGLE_IO_THREAD not defined):                                   *)
(*                                                                         *)
(*   - the I/O thread of the Manager, which runs ConnTcp::update in a loop *)
(*     and hands readable handles over to the queue handleReady            *)
(*     (include/manager.hpp, include/protocols/tcp.hpp);                   *)
(*   - the application threads, which own HandleUser objects and call      *)
(*     listen, connect, getNext, probe, receive, yield, close, the         *)
(*     destructor and finalize (include/handleUser.hpp, handle.hpp);       *)
(*   - the kernel's descriptor table, and the remote peers.                *)
(*                                                                         *)
(* A step ends where another thread can interleave: at the shared_mutex    *)
(* "shm" of ConnTcp, at select, and between the unlocked reads and writes  *)
(* of a handle's fields.  Message contents, sizes and addresses are        *)
(* abstracted away; what is kept of a message is that its header is read   *)
(* by probe and its payload by receive.                                    *)
(***************************************************************************)
EXTENDS Integers, Sequences, FiniteSets, FiniteSetsExt

CONSTANTS
  Handle,      \* identities of the Handle objects, one for each connection
  NoHandle,    \* the null Handle pointer
  User,        \* places where the application keeps a HandleUser
  NoUser,      \* no such place
  Thread,      \* application threads
  MaxFd,       \* descriptors are 0 .. MaxFd
  MaxMsg,      \* messages a peer sends before it closes
  MaxListen,   \* calls to Manager::listen with a new endpoint
  ListenFirst, \* TRUE: listen has returned before the first connection
  Shared,      \* TRUE: two threads may operate on one Handle at a time
  Crashes,     \* TRUE: peers may die without sending EOS
  BlockFlags   \* values of the argument of Manager::finalize

ASSUME HandleAssumption == NoHandle \notin Handle
ASSUME UserAssumption   == NoUser \notin User /\ IsFiniteSet(User)
ASSUME BoundAssumption  == MaxFd \in Nat /\ MaxMsg \in Nat /\ MaxListen \in Nat
ASSUME ModeAssumption   == /\ ListenFirst \in BOOLEAN /\ Shared \in BOOLEAN
                           /\ Crashes \in BOOLEAN
                           /\ BlockFlags \subseteq BOOLEAN

VARIABLES
  open,        \* kernel: descriptors in use
  lsn,         \* kernel: descriptors that are listening sockets
  sock,        \* kernel: connection a descriptor refers to
  backlog,     \* kernel: connections not yet accepted, by listening socket
  inbox,       \* kernel: what the peer sent and nobody has read
  out,         \* what this side wrote to end the stream: "eos", then "fin"
  peer,        \* state of the remote end of a connection
  sent,        \* messages the peer has sent
  set,         \* ConnTcp: master set of watched descriptors
  tmpset,      \* ConnTcp: the set given to select
  fdmax,       \* ConnTcp: greatest watched descriptor
  listen_sck,  \* ConnTcp: the listening socket
  connections, \* ConnTcp: descriptor -> Handle
  shm,         \* ConnTcp: holder of the mutex across steps: "free" or "io"
  io,          \* I/O thread: program counter and locals of update
  handleReady, \* Manager: queue of ready handles
  groupsReady, \* Manager: handles of collectives, waiting for createTeam
  end,         \* Manager: the termination flag
  hd,          \* the Handle objects
  user,        \* the HandleUser objects the application holds
  th,          \* application threads: program counter and locals
  nlisten,     \* calls of listen so far
  todo         \* end(): descriptors still to be closed

netVars == <<backlog, inbox, peer, sent>>
osVars  == <<open, lsn, sock>>
selVars == <<set, fdmax, connections>>
mgrVars == <<handleReady, groupsReady, end>>
vars == <<open, lsn, sock, backlog, inbox, out, peer, sent, set, tmpset, fdmax,
          listen_sck, connections, shm, io, handleReady, groupsReady, end, hd,
          user, th, nlisten, todo>>

-----------------------------------------------------------------------------
(* State *)

Fd == 0 .. MaxFd

\* What can be read from a socket.  A message is "hdr" then "pay"; "p2p" and
\* "coll" are the handshake flag, "team" the application name and team ID that
\* follow "coll"; "fin" is end of file and "rst" ECONNRESET, which both stay.
Item == {"p2p", "coll", "team", "hdr", "pay", "eos", "fin", "rst"}
Last == {"fin", "rst"}

\* class Handle.  st: storage of the object; fd: -1 after close; rd, wr:
\* closed_rd, closed_wr; probed: the header read and not yet consumed;
\* cnt: the reference counter.
HandleRec == [st : {"none", "alive", "deleted"}, fd : Fd \cup {-1},
              rd : BOOLEAN, wr : BOOLEAN,
              probed : {"no", "msg", "eos"}, cnt : Int]
Unborn == [st |-> "none", fd |-> -1, rd |-> FALSE, wr |-> FALSE,
           probed |-> "no", cnt |-> 0]
NewHandle(f, c) == [st |-> "alive", fd |-> f, rd |-> FALSE, wr |-> FALSE,
                    probed |-> "no", cnt |-> c]

\* class HandleUser: realHandle and isReadable.
UserRec == [h : Handle \cup {NoHandle}, readable : BOOLEAN]
Empty   == [h |-> NoHandle, readable |-> FALSE]

IoPc == {"top", "select", "loop", "lock", "handshake", "ready", "exit"}
IoRec == [pc : IoPc, idx : 0 .. MaxFd + 1, n : Int, h : Handle \cup {NoHandle}, f : Fd \cup {-1}]
IoAt(p) == [pc |-> p, idx |-> 0, n |-> 0, h |-> NoHandle, f |-> -1]

ThPc == {"idle", "notify", "erase", "fdclose", "yield", "dec", "conn",
         "lzero", "lset", "lmax", "join", "end", "drain"}
\* k: what follows the call in progress; for finalize, the block flag.
ThRec == [pc : ThPc, u : User \cup {NoUser}, h : Handle \cup {NoHandle},
          wr : BOOLEAN, rd : BOOLEAN, f : Fd \cup {-1},
          k : {"none", "unread", "drop", "block", "noblock"}]
Idle == [pc |-> "idle", u |-> NoUser, h |-> NoHandle, wr |-> FALSE,
         rd |-> FALSE, f |-> -1, k |-> "none"]

PeerState == {"none", "new", "flagged", "up", "closed", "dead"}

TypeOK ==
  /\ open \subseteq Fd /\ lsn \subseteq Fd
  /\ sock \in [Fd -> Handle \cup {NoHandle}]
  /\ backlog \in [Fd -> SUBSET Handle]
  /\ inbox \in [Handle -> Seq(Item)]
  /\ out \in [Handle -> Seq({"eos", "fin"})]
  /\ peer \in [Handle -> PeerState] /\ sent \in [Handle -> 0 .. MaxMsg]
  /\ set \subseteq Fd /\ tmpset \subseteq Fd
  /\ fdmax \in Fd \cup {-1} /\ listen_sck \in Fd \cup {-1}
  /\ connections \in [Fd -> Handle \cup {NoHandle}]
  /\ shm \in {"free", "io"} /\ io \in IoRec
  /\ handleReady \in Seq([h : Handle, new : BOOLEAN])
  /\ groupsReady \subseteq Handle /\ end \in BOOLEAN
  /\ hd \in [Handle -> HandleRec]
  /\ user \in [User -> UserRec]
  /\ th \in [Thread -> ThRec]
  /\ nlisten \in 0 .. MaxListen /\ todo \subseteq Fd

\* ConnTcp::init, and Manager::init, which starts the I/O thread.
Init ==
  /\ open = {} /\ lsn = {} /\ sock = [f \in Fd |-> NoHandle]
  /\ backlog = [f \in Fd |-> {}] /\ inbox = [h \in Handle |-> <<>>]
  /\ out = [h \in Handle |-> <<>>]
  /\ peer = [h \in Handle |-> "none"] /\ sent = [h \in Handle |-> 0]
  /\ set = {} /\ tmpset = {} /\ fdmax = -1 /\ listen_sck = -1
  /\ connections = [f \in Fd |-> NoHandle] /\ shm = "free"
  /\ io = IoAt("top") /\ handleReady = <<>> /\ groupsReady = {} /\ end = FALSE
  /\ hd = [h \in Handle |-> Unborn] /\ user = [u \in User |-> Empty]
  /\ th = [t \in Thread |-> Idle] /\ nlisten = 0 /\ todo = {}

-----------------------------------------------------------------------------
(* The kernel, as the code uses it *)

\* The lowest unused descriptor: what socket and accept return.
LowestFree == Min(Fd \ open)

\* close(f)
CloseFd(f) == /\ open' = open \ {f} /\ lsn' = lsn \ {f}
              /\ sock' = [sock EXCEPT ![f] = NoHandle]

\* select reports f: a connection to accept, data, or end of file.
Readable(f) == \/ f \in lsn /\ backlog[f] # {}
               \/ sock[f] # NoHandle /\ inbox[sock[f]] # <<>>

\* writing EOS, or FIN by shutdown(SHUT_WR), to whatever f refers to
Write(o, f, x) == IF f = -1 \/ sock[f] = NoHandle THEN o
                  ELSE IF x = "fin" /\ "fin" \in {o[sock[f]][i] : i \in DOMAIN o[sock[f]]}
                  THEN o ELSE [o EXCEPT ![sock[f]] = Append(@, x)]

-----------------------------------------------------------------------------
(* The I/O thread: Manager::getReadyBackend calling ConnTcp::update *)

\* while(!end): update starts with tmpset = set, under the lock.
IoTopForever == \* mutant
  /\ io.pc = "top" /\ shm = "free"
  /\ tmpset' = set /\ io' = IoAt("select")
  /\ UNCHANGED <<netVars, osVars, selVars, mgrVars, out, listen_sck,
                 shm, hd, user, th, nlisten, todo>>
IoTop ==
  /\ io.pc = "top"
  /\ \/ /\ end
        /\ io' = IoAt("exit") /\ UNCHANGED tmpset
     \/ /\ ~end /\ shm = "free"
        /\ tmpset' = set
        /\ io' = IoAt("select")
  /\ UNCHANGED <<netVars, osVars, selVars, mgrVars, out, listen_sck,
                 shm, hd, user, th, nlisten, todo>>

\* update returns.  Nothing reads tmpset before it is copied again: it is
\* cleared here so that TLC does not tell apart states by its old value.
IoReturn == io' = IoAt("top") /\ tmpset' = {}

\* Nothing to watch, EBADF for a closed descriptor, or the timeout: return.
\* Otherwise tmpset becomes the set of readable descriptors.
IoSelect ==
  LET watched == {f \in tmpset : f <= fdmax}
      ready   == {f \in watched : Readable(f)}
  IN
  /\ io.pc = "select"
  /\ IF fdmax = -1 \/ ~ watched \subseteq open \/ ready = {} THEN IoReturn
     ELSE /\ tmpset' = ready
          /\ io' = [IoAt("loop") EXCEPT !.n = Cardinality(ready)]
  /\ UNCHANGED <<netVars, osVars, selVars, mgrVars, out, listen_sck,
                 shm, hd, user, th, nlisten, todo>>

\* The descriptors the loop has yet to visit: those up to the current fdmax.
PendingInSet == {f \in set : io.idx <= f /\ f <= fdmax} \* mutant
Pending == {f \in tmpset : io.idx <= f /\ f <= fdmax}

\* The loop is over.
IoLoopEnd ==
  /\ io.pc = "loop" /\ (Pending = {} \/ io.n = 0)
  /\ IoReturn
  /\ UNCHANGED <<netVars, osVars, selVars, mgrVars, out, listen_sck,
                 shm, hd, user, th, nlisten, todo>>

\* The loop reaches a readable connection.
IoLoopReady ==
  /\ io.pc = "loop" /\ Pending # {} /\ io.n > 0
  /\ Min(Pending) # listen_sck
  /\ io' = [io EXCEPT !.pc = "ready", !.idx = Min(Pending)]
  /\ UNCHANGED <<netVars, osVars, selVars, mgrVars, out, tmpset, listen_sck,
                 shm, hd, user, th, nlisten, todo>>

\* The loop reaches the listening socket: accept, which fails with EMFILE when
\* all descriptors are in use.
IoAccept ==
  /\ io.pc = "loop" /\ Pending # {} /\ io.n > 0
  /\ Min(Pending) = listen_sck
  /\ \/ /\ Fd \subseteq open
        /\ IoReturn /\ UNCHANGED <<backlog, osVars>>
     \/ \E h \in backlog[listen_sck] :
        /\ Fd \ open # {}
        /\ backlog' = [backlog EXCEPT ![listen_sck] = @ \ {h}]
        /\ open' = open \cup {LowestFree}
        /\ sock' = [sock EXCEPT ![LowestFree] = h]
        /\ io' = [io EXCEPT !.pc = "lock", !.idx = listen_sck, !.h = h, !.f = LowestFree]
        /\ UNCHANGED <<lsn, tmpset>>
  /\ UNCHANGED <<inbox, peer, sent, selVars, mgrVars, out, listen_sck,
                 shm, hd, user, th, nlisten, todo>>

\* The accepted connection gets its Handle; the mutex is now held until the
\* handshake with the peer is over.
IoNewConnection ==
  /\ io.pc = "lock" /\ shm = "free"
  /\ shm' = "io"
  /\ hd' = [hd EXCEPT ![io.h] = NewHandle(io.f, 0)]
  /\ connections' = [connections EXCEPT ![io.f] = io.h]
  /\ io' = [io EXCEPT !.pc = "handshake"]
  /\ UNCHANGED <<netVars, osVars, mgrVars, out, set, fdmax, tmpset, listen_sck,
                 user, th, nlisten, todo>>

\* end of an iteration
NextIdx == [io EXCEPT !.pc = "loop", !.idx = @ + 1, !.n = @ - 1,
                      !.h = NoHandle, !.f = -1]

\* handleReady.push(HandleUser(h, true, b))
PushUncounted(h, b) == \* mutant
  /\ handleReady' = Append(handleReady, [h |-> h, new |-> b])
  /\ UNCHANGED hd
Push(h, b) == /\ handleReady' = Append(handleReady, [h |-> h, new |-> b])
              /\ hd' = [hd EXCEPT ![h].cnt = @ + 1]

\* addinQ(true, h): connectionHandshake blocks on the peer's first messages,
\* then the handle goes to handleReady or to groupsReady.  If the handshake
\* fails the handle stays in connections, and nobody owns it.
IoHandshake ==
  LET in == inbox[io.h] IN
  /\ io.pc = "handshake" /\ in # <<>>
  /\ \/ /\ in[1] = "p2p"
        /\ Push(io.h, TRUE) /\ inbox' = [inbox EXCEPT ![io.h] = Tail(in)]
        /\ UNCHANGED groupsReady
     \/ /\ in[1] = "coll" /\ Len(in) > 1
        /\ inbox' = [inbox EXCEPT ![io.h] = IF in[2] \in Last THEN Tail(in) ELSE Tail(Tail(in))]
        /\ groupsReady' = IF in[2] \in Last THEN groupsReady ELSE groupsReady \cup {io.h}
        /\ UNCHANGED <<handleReady, hd>>
     \/ /\ in[1] \in Last
        /\ UNCHANGED <<inbox, handleReady, groupsReady, hd>>
  /\ shm' = "free"
  /\ io' = NextIdx
  /\ UNCHANGED <<backlog, peer, sent, osVars, selVars, end, out, tmpset,
                 listen_sck, user, th, nlisten, todo>>

\* connections.erase(f)
EraseNothing(f) == connections \* mutant
Erase(f) == [connections EXCEPT ![f] = NoHandle]

\* FD_CLR(f, &set)
UnwatchNothing(f) == set \* mutant
Unwatch(f) == set \ {f}

\* fdmax after FD_SET(f)
FdMaxKept(f) == fdmax \* mutant
FdMaxWith(f) == IF f > fdmax THEN f ELSE fdmax

\* fdmax after FD_CLR(f): recomputed only if f was the greatest.
FdMaxOffByOne(f) == \* mutant
  LET below == {i \in set : i < fdmax - 1} IN
  IF f # fdmax THEN fdmax ELSE IF below = {} THEN -1 ELSE Max(below)
FdMaxForgotten(f) == IF f # fdmax THEN fdmax ELSE -1 \* mutant
FdMaxWithout(f) ==
  LET below == {i \in set : i < fdmax} IN
  IF f # fdmax THEN fdmax ELSE IF below = {} THEN -1 ELSE Max(below)

\* A readable connection: stop watching it and hand it over.
IoReady ==
  /\ io.pc = "ready" /\ shm = "free"
  /\ set' = Unwatch(io.idx)
  /\ fdmax' = FdMaxWithout(io.idx)
  /\ IF connections[io.idx] # NoHandle
       THEN Push(connections[io.idx], FALSE)
       ELSE UNCHANGED <<handleReady, hd>>
  /\ io' = NextIdx
  /\ UNCHANGED <<netVars, osVars, connections, groupsReady, end, out, tmpset,
                 listen_sck, shm, user, th, nlisten, todo>>

IoNext == \/ IoTop \/ IoSelect \/ IoLoopEnd \/ IoLoopReady \/ IoAccept
          \/ IoNewConnection \/ IoHandshake \/ IoReady

-----------------------------------------------------------------------------
(* The application threads *)

\* Thread t may start a call on the HandleUser at u.  A HandleUser belongs to
\* one thread at a time; unless Shared, so does the Handle behind it.
CanUse(t, u) ==
  /\ th[t].pc = "idle" /\ user[u].h # NoHandle
  /\ \A t2 \in Thread : th[t2].u # u
  /\ Shared \/ \A t2 \in Thread : th[t2].h # user[u].h

\* The place u is free for a new HandleUser.
CanStore(t, u) == /\ th[t].pc = "idle" /\ user[u].h = NoHandle
                  /\ \A t2 \in Thread : th[t2].u # u

\* Thread t is inside listen.
Listening(t) == th[t].pc \in {"lzero", "lset", "lmax"}

Call(p, u, h) == [Idle EXCEPT !.pc = p, !.u = u, !.h = h]

\* Manager::getNext
GetNext(t, u) ==
  /\ CanStore(t, u) /\ ~end /\ handleReady # <<>>
  /\ user' = [user EXCEPT ![u] = [h |-> Head(handleReady).h, readable |-> TRUE]]
  /\ handleReady' = Tail(handleReady)
  /\ UNCHANGED <<netVars, osVars, selVars, groupsReady, end, out, tmpset,
                 listen_sck, shm, io, hd, th, nlisten, todo>>

\* Manager::connect, up to the lock of ConnTcp::connect
Connect(t, u, h) ==
  /\ CanStore(t, u) /\ ~end
  /\ peer[h] = "none" /\ Fd \ open # {}
  /\ ListenFirst => \A t2 \in Thread : ~Listening(t2)
  /\ open' = open \cup {LowestFree}
  /\ sock' = [sock EXCEPT ![LowestFree] = h]
  /\ peer' = [peer EXCEPT ![h] = "up"]
  /\ th' = [th EXCEPT ![t] = [Call("conn", u, h) EXCEPT !.f = LowestFree]]
  /\ UNCHANGED <<backlog, inbox, sent, lsn, selVars, mgrVars, out, tmpset,
                 listen_sck, shm, io, hd, user, nlisten, todo>>

\* The new Handle enters connections; the handshake flag is sent; if that
\* fails, connect returns an empty HandleUser and nobody owns the Handle.
ConnectInsert(t) ==
  LET h == th[t].h IN
  /\ th[t].pc = "conn" /\ shm = "free"
  /\ connections' = [connections EXCEPT ![th[t].f] = h]
  /\ \/ /\ hd' = [hd EXCEPT ![h] = NewHandle(th[t].f, 1)]
        /\ user' = [user EXCEPT ![th[t].u] = [h |-> h, readable |-> TRUE]]
     \/ /\ peer[h] = "dead"
        /\ hd' = [hd EXCEPT ![h] = NewHandle(th[t].f, 0)]
        /\ UNCHANGED user
  /\ th' = [th EXCEPT ![t] = Idle]
  /\ UNCHANGED <<netVars, osVars, set, fdmax, mgrVars, out, tmpset,
                 listen_sck, shm, io, nlisten, todo>>

-----------------------------------------------------------------------------
(* Handle::close and ConnTcp::notify_close *)

\* "delete this", at the end of Handle::close and decrementReferenceCounter
ReapEarly(r) == IF r.rd /\ r.wr THEN [r EXCEPT !.st = "deleted"] ELSE r \* mutant
Reap(r) == IF r.cnt = 0 /\ r.rd /\ r.wr THEN [r EXCEPT !.st = "deleted"] ELSE r

\* Handle::close(cw, cr) up to notify_close: EOS, then the two flags.  The
\* flags, not the arguments, are what notify_close is given.
StartCloseEosAgain(t, u, h, cw, cr, k) == \* mutant
  LET w == hd[h].wr \/ cw  r == hd[h].rd \/ cr IN
  /\ out' = IF cw THEN Write(out, hd[h].fd, "eos") ELSE out
  /\ th' = [th EXCEPT ![t] = [Call("notify", u, h) EXCEPT !.wr = w, !.rd = r, !.k = k]]
StartClose(t, u, h, cw, cr, k) ==
  LET w == hd[h].wr \/ cw  r == hd[h].rd \/ cr IN
  /\ out' = IF cw /\ ~hd[h].wr THEN Write(out, hd[h].fd, "eos") ELSE out
  /\ th' = [th EXCEPT ![t] = [Call("notify", u, h) EXCEPT !.wr = w, !.rd = r, !.k = k]]

\* After notify_close; a probe that read EOS then clears isReadable.
EndClose(t) ==
  /\ th' = [th EXCEPT ![t] = Idle]
  /\ user' = IF th[t].k = "unread" THEN [user EXCEPT ![th[t].u].readable = FALSE] ELSE user

\* Only the write side is being closed and the read side has already left the
\* table: notify_close releases the descriptor.
LoneWriteAlways(t) == th[t].wr /\ ~th[t].rd /\ hd[th[t].h].fd # -1 \* mutant
LoneWrite(t) == LET f == hd[th[t].h].fd IN
  th[t].wr /\ ~th[t].rd /\ f # -1 /\ connections[f] = NoHandle

\* notify_close up to its lock.  The descriptor is read without the lock.
NotifyClose(t) ==
  LET h == th[t].h  f == hd[h].fd  lone == LoneWrite(t) IN
  /\ th[t].pc = "notify"
  /\ out' = IF th[t].wr THEN Write(out, f, "fin") ELSE out
  /\ IF lone THEN CloseFd(f) ELSE UNCHANGED osVars
  /\ IF th[t].rd /\ f # -1
       THEN /\ th' = [th EXCEPT ![t].pc = "erase", ![t].f = f]
            /\ UNCHANGED <<hd, user>>
       ELSE /\ hd' = [hd EXCEPT ![h] = Reap(IF lone THEN [@ EXCEPT !.fd = -1] ELSE @)]
            /\ EndClose(t)
  /\ UNCHANGED <<netVars, selVars, mgrVars, tmpset, listen_sck, shm, io, nlisten, todo>>

\* Under the lock: leave the table and the watched set.
NotifyErase(t) ==
  LET f == th[t].f  h == th[t].h IN
  /\ th[t].pc = "erase" /\ shm = "free"
  /\ connections' = Erase(f)
  /\ set' = Unwatch(f)
  /\ fdmax' = FdMaxWithout(f)
  /\ IF th[t].wr THEN th' = [th EXCEPT ![t].pc = "fdclose"] /\ UNCHANGED <<hd, user>>
                 ELSE hd' = [hd EXCEPT ![h] = Reap(@)] /\ EndClose(t)
  /\ UNCHANGED <<netVars, osVars, mgrVars, out, tmpset, listen_sck, shm, io, nlisten, todo>>

\* Both directions are closed: release the descriptor.
NotifyFdClose(t) ==
  LET h == th[t].h IN
  /\ th[t].pc = "fdclose"
  /\ CloseFd(th[t].f)
  /\ hd' = [hd EXCEPT ![h] = Reap([@ EXCEPT !.fd = -1])]
  /\ EndClose(t)
  /\ UNCHANGED <<netVars, selVars, mgrVars, out, tmpset, listen_sck, shm, io, nlisten, todo>>

\* HandleUser::close
Close(t, u) ==
  LET h == user[u].h IN
  /\ CanUse(t, u) /\ ~end
  /\ StartClose(t, u, h, TRUE, FALSE, "none")
  /\ hd' = [hd EXCEPT ![h].wr = TRUE]
  /\ UNCHANGED <<netVars, osVars, selVars, mgrVars, tmpset, listen_sck, shm,
                 io, user, nlisten, todo>>

-----------------------------------------------------------------------------
(* HandleUser::probe and receive *)

\* A probe that reaches the socket, and the connection c it reads from.
Reads(t, u, c) ==
  LET r == hd[user[u].h] IN
  /\ CanUse(t, u) /\ ~end
  /\ user[u].readable /\ ~r.rd
  /\ r.fd # -1 /\ sock[r.fd] = c /\ inbox[c] # <<>>

\* The header of a message, or EOS: the read side is closed.
Probe(t, u) ==
  LET h == user[u].h IN
  \E c \in Handle :
    /\ Reads(t, u, c) /\ hd[h].probed = "no" /\ Head(inbox[c]) \in {"hdr", "eos"}
    /\ inbox' = [inbox EXCEPT ![c] = Tail(@)]
    /\ IF Head(inbox[c]) = "hdr"
         THEN /\ hd' = [hd EXCEPT ![h].probed = "msg"]
              /\ UNCHANGED <<th, out>>
         ELSE /\ hd' = [hd EXCEPT ![h].probed = "eos", ![h].rd = TRUE]
              /\ StartClose(t, u, h, FALSE, TRUE, "unread")
    /\ UNCHANGED <<backlog, peer, sent, osVars, selVars, mgrVars, tmpset,
                   listen_sck, shm, io, user, nlisten, todo>>

\* End of file or ECONNRESET: both sides are closed.
ProbeFail(t, u) ==
  LET h == user[u].h IN
  \E c \in Handle :
    /\ Reads(t, u, c) /\ hd[h].probed = "no" /\ Head(inbox[c]) \in Last
    /\ hd' = [hd EXCEPT ![h].rd = TRUE, ![h].wr = TRUE]
    /\ user' = [user EXCEPT ![u].readable = @ /\ Head(inbox[c]) = "rst"]
    /\ StartClose(t, u, h, TRUE, TRUE, "none")
    /\ UNCHANGED <<netVars, osVars, selVars, mgrVars, tmpset, listen_sck, shm,
                   io, nlisten, todo>>

\* The payload of the probed message, or end of file in its place.
Receive(t, u) ==
  LET h == user[u].h IN
  \E c \in Handle :
    /\ Reads(t, u, c) /\ hd[h].probed = "msg"
    /\ hd' = [hd EXCEPT ![h].probed = "no"]
    /\ inbox' = [inbox EXCEPT ![c] = IF Head(@) \in Last THEN @ ELSE Tail(@)]
    /\ UNCHANGED <<backlog, peer, sent, osVars, selVars, mgrVars, out, tmpset,
                   listen_sck, shm, io, user, th, nlisten, todo>>

-----------------------------------------------------------------------------
(* HandleUser::yield, the destructor, ConnTcp::notify_yield *)

\* Release the reference of the HandleUser at u, and clear u.
Release(u, h) ==
  /\ user' = [user EXCEPT ![u] = Empty]
  /\ hd' = [hd EXCEPT ![h] = Reap([hd[h] EXCEPT !.cnt = @ - 1])]

\* notify_yield has something to do.
YieldsFd(h) == ~hd[h].rd /\ hd[h].fd # -1

\* HandleUser::yield (k = "none") or the destructor of a readable HandleUser
\* (k = "drop"), up to the lock.
StartYield(t, u, k) ==
  LET h == user[u].h IN
  /\ user' = [user EXCEPT ![u].readable = FALSE]
  /\ th' = [th EXCEPT ![t] = [Call("yield", u, h) EXCEPT !.f = hd[h].fd, !.k = k]]

\* yield does not look at isReadable: it is the application that yields only
\* what it has not yielded yet.
Yield(t, u) ==
  LET h == user[u].h IN
  /\ CanUse(t, u) /\ ~end /\ user[u].readable
  /\ IF YieldsFd(h) THEN StartYield(t, u, "none")
     ELSE user' = [user EXCEPT ![u].readable = FALSE] /\ UNCHANGED th
  /\ UNCHANGED <<netVars, osVars, selVars, mgrVars, out, tmpset, listen_sck,
                 shm, io, hd, nlisten, todo>>

\* notify_yield under the lock: watch the descriptor again.
NotifyYield(t) ==
  LET f == th[t].f  h == th[t].h IN
  /\ th[t].pc = "yield" /\ shm = "free"
  /\ IF hd[h].rd /\ hd[h].wr THEN UNCHANGED <<set, fdmax>>
     ELSE /\ set' = set \cup {f}
          /\ fdmax' = FdMaxWith(f)
  /\ th' = [th EXCEPT ![t] = IF th[t].k = "drop" THEN Call("dec", th[t].u, h) ELSE Idle]
  /\ UNCHANGED <<netVars, osVars, connections, mgrVars, out, tmpset, listen_sck,
                 shm, io, hd, user, nlisten, todo>>

\* ~HandleUser
Drop(t, u) ==
  LET h == user[u].h IN
  /\ CanUse(t, u)
  /\ IF user[u].readable /\ YieldsFd(h)
       THEN StartYield(t, u, "drop") /\ UNCHANGED hd
       ELSE Release(u, h) /\ UNCHANGED th
  /\ UNCHANGED <<netVars, osVars, selVars, mgrVars, out, tmpset, listen_sck,
                 shm, io, nlisten, todo>>

DropRelease(t) ==
  /\ th[t].pc = "dec"
  /\ Release(th[t].u, th[t].h)
  /\ th' = [th EXCEPT ![t] = Idle]
  /\ UNCHANGED <<netVars, osVars, selVars, mgrVars, out, tmpset, listen_sck,
                 shm, io, nlisten, todo>>

-----------------------------------------------------------------------------
(* ConnTcp::listen.  It takes no lock. *)

\* _init: the socket; if bind or listen fails, listen_sck keeps the new value.
Listen(t) ==
  /\ th[t].pc = "idle" /\ ~end /\ nlisten < MaxListen /\ Fd \ open # {}
  /\ ListenFirst => \A h \in Handle : peer[h] = "none"
  /\ nlisten' = nlisten + 1
  /\ open' = open \cup {LowestFree}
  /\ listen_sck' = LowestFree
  /\ \/ UNCHANGED <<lsn, th>>
     \/ /\ lsn' = lsn \cup {LowestFree}
        /\ th' = [th EXCEPT ![t].pc = "lzero"]
  /\ UNCHANGED <<netVars, sock, selVars, mgrVars, out, tmpset, shm, io, hd,
                 user, todo>>

\* FD_ZERO(&set); FD_ZERO(&tmpset)
ListenZero(t) ==
  /\ th[t].pc = "lzero"
  /\ set' = {} /\ tmpset' = {}
  /\ th' = [th EXCEPT ![t].pc = "lset"]
  /\ UNCHANGED <<netVars, osVars, fdmax, connections, mgrVars, out, listen_sck,
                 shm, io, hd, user, nlisten, todo>>

\* FD_SET(listen_sck, &set)
ListenSetMax(t) == \* mutant
  /\ th[t].pc = "lset"
  /\ set' = set \cup {fdmax}
  /\ th' = [th EXCEPT ![t].pc = "lmax"]
  /\ UNCHANGED <<netVars, osVars, fdmax, connections, mgrVars, out, tmpset,
                 listen_sck, shm, io, hd, user, nlisten, todo>>
ListenSet(t) ==
  /\ th[t].pc = "lset"
  /\ set' = set \cup {listen_sck}
  /\ th' = [th EXCEPT ![t].pc = "lmax"]
  /\ UNCHANGED <<netVars, osVars, fdmax, connections, mgrVars, out, tmpset,
                 listen_sck, shm, io, hd, user, nlisten, todo>>

ListenMax(t) ==
  /\ th[t].pc = "lmax"
  /\ fdmax' = listen_sck
  /\ th' = [th EXCEPT ![t] = Idle]
  /\ UNCHANGED <<netVars, osVars, set, connections, mgrVars, out, tmpset,
                 listen_sck, shm, io, hd, user, nlisten, todo>>

-----------------------------------------------------------------------------
(* Manager::finalize, ConnTcp::end and ConnType::setAsClosed.  The          *)
(* application calls finalize when its other threads have stopped.          *)

Finalize(t, block) ==
  /\ \A t2 \in Thread : th[t2].pc = "idle"
  /\ ~end
  /\ end' = TRUE
  /\ th' = [th EXCEPT ![t].pc = "join", ![t].k = IF block THEN "block" ELSE "noblock"]
  /\ UNCHANGED <<netVars, osVars, selVars, handleReady, groupsReady, out, tmpset,
                 listen_sck, shm, io, hd, user, nlisten, todo>>

\* t1.join(), then the copy of connections
FinalizeJoin(t) ==
  /\ th[t].pc = "join" /\ io.pc = "exit"
  /\ todo' = {f \in Fd : connections[f] # NoHandle}
  /\ th' = [th EXCEPT ![t].pc = "end"]
  /\ UNCHANGED <<netVars, osVars, selVars, mgrVars, out, tmpset, listen_sck,
                 shm, io, hd, user, nlisten>>

\* h->close(false, true), which by now closes both directions
FinalClose(h, f) ==
  /\ connections' = Erase(f) /\ set' = Unwatch(f) /\ fdmax' = FdMaxWithout(f)
  /\ CloseFd(f)
  /\ hd' = [hd EXCEPT ![h] = Reap([@ EXCEPT !.rd = TRUE, !.wr = TRUE, !.fd = -1])]

\* setAsClosed(h) for the next entry: h->close(true, false) unless it was
\* closed for writing, then the wait for EOS or the final close.
SetAsClosed(t) ==
  LET f == Min(todo)  h == connections[f] IN
  /\ th[t].pc = "end" /\ todo # {}
  /\ todo' = todo \ {f}
  /\ out' = IF hd[h].wr THEN out ELSE Write(Write(out, f, "eos"), f, "fin")
  /\ IF th[t].k = "block"
       THEN /\ hd' = [hd EXCEPT ![h].wr = TRUE]
            /\ th' = [th EXCEPT ![t].pc = "drain", ![t].h = h]
            /\ UNCHANGED <<osVars, selVars>>
       ELSE FinalClose(h, f) /\ UNCHANGED th
  /\ UNCHANGED <<netVars, mgrVars, tmpset, listen_sck, shm, io, user, nlisten>>

\* One iteration of the loop of setAsClosed: a message is read and discarded,
\* EOS ends the loop, an error abandons the handle.
Drain(t) ==
  LET h == th[t].h  in == inbox[h]  r == hd[h]
      next == [th EXCEPT ![t].pc = "end", ![t].h = NoHandle]
  IN
  /\ th[t].pc = "drain" /\ in # <<>>
  /\ \/ /\ r.probed = "msg" /\ in[1] # "rst"
        /\ hd' = [hd EXCEPT ![h].probed = "no"]
        /\ inbox' = [inbox EXCEPT ![h] = IF in[1] = "fin" THEN in ELSE Tail(in)]
        /\ UNCHANGED <<th, osVars, selVars>>
     \/ /\ r.probed = "no" /\ in[1] = "hdr" /\ Len(in) > 1 /\ in[2] # "rst"
        /\ inbox' = [inbox EXCEPT ![h] = IF in[2] = "fin" THEN Tail(in) ELSE Tail(Tail(in))]
        /\ UNCHANGED <<hd, th, osVars, selVars>>
     \/ /\ r.probed = "no" /\ in[1] = "eos"
        /\ inbox' = [inbox EXCEPT ![h] = Tail(in)]
        /\ FinalClose(h, r.fd) /\ th' = next
     \/ /\ in[1] = "rst" \/ (in[1] = "hdr" /\ Len(in) > 1 /\ in[2] = "rst")
        /\ th' = next
        /\ UNCHANGED <<hd, inbox, osVars, selVars>>
  /\ UNCHANGED <<backlog, peer, sent, mgrVars, out, tmpset, listen_sck, shm, io,
                 user, nlisten, todo>>

\* At end of file probe returns 0 and leaves sz nonzero, receive returns 0, and
\* neither is an error: the loop goes round again.
DrainSpin(t) ==
  /\ th[t].pc = "drain" /\ hd[th[t].h].probed = "no"
  /\ inbox[th[t].h] # <<>> /\ Head(inbox[th[t].h]) = "fin"
  /\ UNCHANGED vars

FinalizeEnd(t) ==
  /\ th[t].pc = "end" /\ todo = {}
  /\ th' = [th EXCEPT ![t] = Idle]
  /\ UNCHANGED <<netVars, osVars, selVars, mgrVars, out, tmpset, listen_sck,
                 shm, io, hd, user, nlisten, todo>>

-----------------------------------------------------------------------------
(* The peers: other MTCL processes, each following Manager::connect,        *)
(* createTeam, HandleUser::send and close on its end of the connection.     *)

localVars == <<osVars, selVars, mgrVars, out, tmpset, listen_sck, shm, io, hd,
               user, th, nlisten, todo>>

PeerConnect(h) ==
  /\ peer[h] = "none"
  /\ \E f \in lsn : backlog' = [backlog EXCEPT ![f] = @ \cup {h}]
  /\ peer' = [peer EXCEPT ![h] = "new"]
  /\ UNCHANGED <<inbox, sent, localVars>>

\* the int that says point-to-point or collective, then application and team
PeerHandshake(h) ==
  /\ \/ /\ peer[h] = "new"
        /\ \/ /\ inbox' = [inbox EXCEPT ![h] = Append(@, "p2p")]
              /\ peer' = [peer EXCEPT ![h] = "up"]
           \/ /\ inbox' = [inbox EXCEPT ![h] = Append(@, "coll")]
              /\ peer' = [peer EXCEPT ![h] = "flagged"]
     \/ /\ peer[h] = "flagged"
        /\ inbox' = [inbox EXCEPT ![h] = Append(@, "team")]
        /\ peer' = [peer EXCEPT ![h] = "up"]
  /\ UNCHANGED <<backlog, sent, localVars>>

PeerSend(h) ==
  /\ peer[h] = "up" /\ sent[h] < MaxMsg
  /\ sent' = [sent EXCEPT ![h] = @ + 1]
  /\ inbox' = [inbox EXCEPT ![h] = @ \o <<"hdr", "pay">>]
  /\ UNCHANGED <<backlog, peer, localVars>>

PeerClose(h) ==
  /\ peer[h] = "up"
  /\ peer' = [peer EXCEPT ![h] = "closed"]
  /\ inbox' = [inbox EXCEPT ![h] = @ \o <<"eos", "fin">>]
  /\ UNCHANGED <<backlog, sent, localVars>>

\* The peer dies: end of file, perhaps inside a message, or a reset, which
\* discards what had not been read.
PeerCrash(h) ==
  /\ Crashes /\ peer[h] \in {"new", "flagged", "up"}
  /\ peer' = [peer EXCEPT ![h] = "dead"]
  /\ \/ inbox' = [inbox EXCEPT ![h] = Append(@, "fin")]
     \/ peer[h] = "up" /\ inbox' = [inbox EXCEPT ![h] = @ \o <<"hdr", "fin">>]
     \/ inbox' = [inbox EXCEPT ![h] = <<"rst">>]
  /\ UNCHANGED <<backlog, sent, localVars>>

-----------------------------------------------------------------------------
(* Specification *)

\* The steps a thread takes once it has started a call.
Continue(t) ==
  \/ ConnectInsert(t) \/ NotifyClose(t) \/ NotifyErase(t) \/ NotifyFdClose(t)
  \/ NotifyYield(t) \/ DropRelease(t)
  \/ ListenZero(t) \/ ListenSet(t) \/ ListenMax(t)
  \/ FinalizeJoin(t) \/ SetAsClosed(t) \/ Drain(t) \/ DrainSpin(t) \/ FinalizeEnd(t)

\* The calls the application decides to make.
Start(t) ==
  \/ \E u \in User : \/ GetNext(t, u) \/ Probe(t, u) \/ ProbeFail(t, u)
                     \/ Receive(t, u) \/ Yield(t, u) \/ Close(t, u) \/ Drop(t, u)
                     \/ \E h \in Handle : Connect(t, u, h)
  \/ Listen(t)
  \/ \E b \in BlockFlags : Finalize(t, b)

PeerNext(h) == \/ PeerConnect(h) \/ PeerHandshake(h) \/ PeerSend(h)
               \/ PeerClose(h) \/ PeerCrash(h)

\* The process has returned from finalize and dropped its handles.
Terminated == /\ end /\ \A t \in Thread : th[t].pc = "idle"
              /\ \A u \in User : user[u].h = NoHandle
              /\ UNCHANGED vars

Next == \/ IoNext
        \/ \E t \in Thread : Start(t) \/ Continue(t)
        \/ \E h \in Handle : PeerNext(h)
        \/ Terminated

Spec == Init /\ [][Next]_vars

\* Threads run; a peer that connected goes on with its handshake.
Fairness == /\ WF_vars(IoNext)
            /\ \A t \in Thread : WF_vars(Continue(t))
            /\ \A h \in Handle : WF_vars(PeerHandshake(h))
FairSpec == Spec /\ Fairness

\* In addition, every peer ends its stream.
ClosingSpec == FairSpec /\ \A h \in Handle : WF_vars(PeerClose(h))

-----------------------------------------------------------------------------
(* Properties *)

\* The places from which a handle can be, or become, readable by the
\* application: watched by select, in transit to notify_yield, in the ready
\* queue, or in a HandleUser that may read.
Watched(h)  == {f \in set : connections[f] = h}
Yielding(h) == {t \in Thread : th[t].pc = "yield" /\ th[t].h = h}
Queued(h)   == {i \in DOMAIN handleReady : handleReady[i].h = h}
Readers(h)  == {u \in User : user[u].h = h /\ user[u].readable}
Places(h)   == ({"watched"} \X Watched(h)) \cup ({"yielding"} \X Yielding(h))
               \cup ({"queued"} \X Queued(h)) \cup ({"reader"} \X Readers(h))

\* A handle has one reader.  Between getNext, yield, the destructor and the
\* I/O thread it is never handed to two of them (tcp.hpp update and
\* notify_yield; protocolInterface.hpp "the ownership of h is transferred");
\* and none is forgotten: a handle that is open for reading, whose handshake
\* is over and whose peer is alive, is in one of those places.
UniqueReader == \A h \in Handle :
  /\ \A p, q \in Places(h) : p = q
  /\ (/\ hd[h].st = "alive" /\ ~hd[h].rd /\ ~end
      /\ io.h # h /\ h \notin groupsReady /\ peer[h] # "dead") => Places(h) # {}

\* The reference counter is the number of HandleUser objects that exist for the
\* handle, in the application and in the ready queue (handle.hpp 113-122).
RefCountExact == \A h \in Handle : hd[h].st = "alive" =>
  hd[h].cnt = Cardinality({u \in User : user[u].h = h}) + Cardinality(Queued(h))

\* "delete this" is safe: nothing refers to a deleted Handle, neither a
\* HandleUser, the queue, the table of ConnTcp nor a call in progress.
NoDangling == \A h \in Handle : hd[h].st = "deleted" =>
  /\ \A u \in User : user[u].h # h
  /\ Queued(h) = {}
  /\ \A f \in Fd : connections[f] # h
  /\ \A t \in Thread : th[t].h # h

\* A descriptor in the table of ConnTcp is open, is the connection of the
\* Handle found there, and that Handle knows it under this number, although
\* the kernel reuses numbers as soon as they are closed.
TableConsistent == \A f \in Fd : connections[f] # NoHandle =>
  /\ f \in open /\ sock[f] = connections[f]
  /\ hd[connections[f]].st = "alive" /\ hd[connections[f]].fd = f

\* select is never given a closed descriptor, so the EBADF of tcp.hpp 269 does
\* not happen, and what it reported is still watched when update gets to it.
NoStaleSelect ==
  /\ set \subseteq open
  /\ io.pc = "select" => tmpset \subseteq open
  /\ io.pc \in {"loop", "lock", "handshake", "ready"} =>
       \A f \in tmpset : f > io.idx \/ (f = io.idx /\ io.pc = "ready") => f \in set

\* fdmax is the greatest watched descriptor, or -1: no watched descriptor is
\* outside the range given to select (except while listen is changing both).
FdMaxExact == (\A t \in Thread : ~Listening(t)) =>
  fdmax = Max(set \cup {-1})

\* Manager::getNext, "Get an handle ready to receive": a queued handle that is
\* not a new connection has something to read (until finalize discards it).
ReadyHasData == \A i \in DOMAIN handleReady :
  handleReady[i].new \/ end \/ inbox[handleReady[i].h] # <<>>

\* The peer is told: FIN is sent only after EOS, and each of them once.
EosThenFin == \A h \in Handle : out[h] \in {<<>>, <<"eos">>, <<"eos", "fin">>}

\* A step releases a descriptor only if it is the connection of a Handle that
\* is closed in both directions and has left the table.
CloseOwnFd == [][\A f \in open \ open' :
  /\ connections'[f] = NoHandle
  /\ sock[f] # NoHandle /\ hd'[sock[f]].rd /\ hd'[sock[f]].wr]_vars

\* A watched connection with something to read reaches the ready queue.
Delivered == \A h \in Handle :
  (Watched(h) # {} /\ inbox[h] # <<>>) ~> (Queued(h) # {} \/ end)

\* A connection in the backlog is accepted and handed over, as long as its peer
\* lives and there is a descriptor for it.
Accepted == \A h \in Handle :
  (\E f \in Fd : h \in backlog[f])
    ~> (\/ Queued(h) # {} \/ h \in groupsReady \/ end
        \/ peer[h] = "dead" \/ open = Fd)

\* Manager::finalize returns.
FinalizeReturns == end ~> (end /\ \A t \in Thread : th[t].pc = "idle")

=============================================================================
