--------------------------- MODULE ConnTcp_proofs ---------------------------
(***************************************************************************)
(* Proofs about ConnTcp, for every number of handles, threads, descriptors *)
(* and messages, with or without crashes and shared handles.  The types    *)
(* are not inductive alone: an I/O thread in the middle of an accept and a *)
(* thread in the middle of a call work on a descriptor and a Handle they   *)
(* read earlier, so IoInv and ThInv say what these locals are worth at     *)
(* each program counter.                                                   *)
(***************************************************************************)
EXTENDS ConnTcp, FiniteSetTheorems, WellFoundedInduction, TLAPS

-----------------------------------------------------------------------------
(* The least and the greatest descriptor of a set *)

NatLess == {ss \in Nat \X Nat : ss[1] < ss[2]}

\* The order of the natural numbers is well-founded.
LEMMA NatLessWF == IsWellFoundedOn(NatLess, Nat)
  BY NatLessThanWellFounded DEF OpToRel, NatLess

\* A set of natural numbers has a least element.
LEMMA NatMin ==
  ASSUME NEW S \in SUBSET Nat, S # {}
  PROVE  \E x \in S : \A y \in S : x <= y
<1>0. S \subseteq Nat
  OBVIOUS
<1> HIDE DEF NatLess
<1>1. \E x \in S : \A y \in S : ~ (<<y, x>> \in NatLess)
  BY <1>0, NatLessWF, WFMin, Zenon
<1>11. PICK x \in S : \A y \in S : ~ (<<y, x>> \in NatLess)
  BY <1>1
<1>2. ASSUME NEW y \in S, y < x
      PROVE  FALSE
  <2>1. <<y, x>> \in Nat \X Nat /\ <<y, x>>[1] < <<y, x>>[2]
    BY <1>2
  <2>2. <<y, x>> \in NatLess
    BY <2>1, Zenon DEF NatLess
  <2> QED BY <2>2, <1>11
<1> QED BY <1>2

\* The scan for the lowest descriptor of a set ends at a member of it.
LEMMA FdMin ==
  ASSUME NEW S \in SUBSET Fd, S # {}
  PROVE  Min(S) \in S /\ Min(S) \in Fd
<1>1. \E x \in S : \A y \in S : x <= y
  BY NatMin, BoundAssumption DEF Fd
<1> QED BY <1>1 DEF Min

\* So does the scan for the greatest.
LEMMA FdMax ==
  ASSUME NEW S \in SUBSET Fd, S # {}
  PROVE  Max(S) \in S /\ Max(S) \in Fd /\ \A y \in S : Max(S) >= y
<1> DEFINE Above == {MaxFd - x : x \in S}
<1>1. Above \in SUBSET Nat /\ Above # {}
  BY BoundAssumption DEF Fd
<1>2. PICK m \in Above : \A y \in Above : m <= y
  BY <1>1, NatMin
<1>3. PICK x \in S : m = MaxFd - x
  BY <1>2
<1>4. \A y \in S : x >= y
  <2> TAKE y \in S
  <2>1. MaxFd - x <= MaxFd - y
    BY <1>2, <1>3
  <2> QED BY <2>1, BoundAssumption DEF Fd
<1> QED BY <1>4 DEF Max

-----------------------------------------------------------------------------
(* The operators the actions are built from *)

\* socket and accept return a descriptor.
LEMMA LowestFreeType ==
  ASSUME Fd \ open # {}
  PROVE  LowestFree \in Fd
  BY FdMin DEF LowestFree

\* fdmax stays in its range when a descriptor is no longer watched,
LEMMA FdMaxWithoutType ==
  ASSUME TypeOK, NEW f
  PROVE  FdMaxWithout(f) \in Fd \cup {-1}
<1> DEFINE below == {i \in set : i < fdmax}
<1>1. below \in SUBSET Fd
  BY DEF TypeOK
<1>2. CASE below = {}
  BY <1>2 DEF FdMaxWithout, TypeOK
<1>3. CASE below # {}
  BY <1>1, <1>3, FdMax DEF FdMaxWithout, TypeOK
<1> QED BY <1>2, <1>3

\* and when one is watched.
LEMMA FdMaxWithType ==
  ASSUME TypeOK, NEW f \in Fd
  PROVE  FdMaxWith(f) \in Fd \cup {-1}
  BY DEF FdMaxWith, TypeOK

\* What ends a stream is appended to the output of some connection.
LEMMA WriteType ==
  ASSUME TypeOK, NEW o \in [Handle -> Seq({"eos", "fin"})],
         NEW f \in Fd \cup {-1}, NEW x \in {"eos", "fin"}
  PROVE  Write(o, f, x) \in [Handle -> Seq({"eos", "fin"})]
<1>1. CASE f = -1 \/ sock[f] = NoHandle
  BY <1>1 DEF Write
<1>2. CASE ~(f = -1 \/ sock[f] = NoHandle)
  <2>1. sock[f] \in Handle
    BY <1>2 DEF TypeOK
  <2>2. Append(o[sock[f]], x) \in Seq({"eos", "fin"})
    BY <2>1
  <2>3. [o EXCEPT ![sock[f]] = Append(@, x)] \in [Handle -> Seq({"eos", "fin"})]
    BY <2>1, <2>2
  <2> QED BY <1>2, <2>3 DEF Write
<1> QED BY <1>1, <1>2

\* A descriptor and its successor are positions of the loop of update.
LEMMA FdIdx ==
  ASSUME NEW f \in Fd
  PROVE  f \in 0 .. MaxFd + 1 /\ f + 1 \in 0 .. MaxFd + 1
  BY BoundAssumption DEF Fd

\* The I/O thread between two descriptors.
LEMMA IoAtType ==
  ASSUME NEW p \in IoPc
  PROVE  IoAt(p) \in IoRec
<1>1. 0 \in 0 .. MaxFd + 1
  BY BoundAssumption
<1> QED BY <1>1 DEF IoAt, IoRec

\* Handles: creation and deletion.
LEMMA NewHandleType ==
  ASSUME NEW f \in Fd \cup {-1}, NEW c \in Int
  PROVE  NewHandle(f, c) \in HandleRec
  BY DEF NewHandle, HandleRec

\* delete changes nothing but the state of the storage.
LEMMA ReapType ==
  ASSUME NEW r \in HandleRec
  PROVE  Reap(r) \in HandleRec
  BY DEF Reap, HandleRec

\* An update of one entry keeps the table of handles in its type.
LEMMA HdType ==
  ASSUME TypeOK, NEW h, NEW r, h \in Handle => r \in HandleRec
  PROVE  [hd EXCEPT ![h] = r] \in [Handle -> HandleRec]
  BY DEF TypeOK

-----------------------------------------------------------------------------
(* The inductive invariant: the types, and what the program counters say   *)
(* about the locals of the threads.                                        *)

\* The I/O thread is at a descriptor, and at a connection it has accepted.
IoInv ==
  /\ io.pc \in {"lock", "handshake"} => io.idx \in Fd /\ io.h \in Handle /\ io.f \in Fd
  /\ io.pc = "ready" => io.idx \in Fd

\* A thread inside a call has the Handle and the descriptor it works on.
ThFits(r) ==
  /\ r.pc \in {"notify", "erase", "fdclose", "yield", "dec", "conn"} =>
       r.h \in Handle /\ r.u \in User
  /\ r.pc \in {"erase", "fdclose", "yield", "conn"} => r.f \in Fd

ThInv == \A t \in Thread : /\ ThFits(th[t])
                           /\ Listening(t) => listen_sck \in Fd

IInv == TypeOK /\ IoInv /\ ThInv

\* The invariant holds after Manager::init.
LEMMA InitInv == Init => IInv
<1> SUFFICES ASSUME Init PROVE IInv
  OBVIOUS
<1>1. io \in IoRec /\ IoInv
  BY IoAtType DEF Init, IoInv, IoAt, IoPc
<1>2. hd \in [Handle -> HandleRec]
  BY DEF Init, Unborn, HandleRec
<1>3. user \in [User -> UserRec]
  BY DEF Init, Empty, UserRec
<1>4. th \in [Thread -> ThRec] /\ ThInv
  BY DEF Init, ThInv, ThFits, Listening, Idle, ThRec, ThPc
<1>5. /\ sent \in [Handle -> 0 .. MaxMsg] /\ nlisten \in 0 .. MaxListen
      /\ peer \in [Handle -> PeerState]
  BY BoundAssumption DEF Init, PeerState
<1>6. /\ inbox \in [Handle -> Seq(Item)] /\ out \in [Handle -> Seq({"eos", "fin"})]
      /\ handleReady \in Seq([h : Handle, new : BOOLEAN])
  BY DEF Init
<1> QED BY <1>1, <1>2, <1>3, <1>4, <1>5, <1>6 DEF Init, IInv, TypeOK

-----------------------------------------------------------------------------
(* The I/O thread *)

\* getReadyBackend: the test of end and the copy of the watched set.
LEMMA IoTopInv == IInv /\ IoTop => IInv'
<1> SUFFICES ASSUME IInv, IoTop PROVE IInv'
  OBVIOUS
<1>1. PICK p \in {"exit", "select"} : io' = IoAt(p)
  BY DEF IoTop
<1>2. io' \in IoRec /\ IoInv'
  BY <1>1, IoAtType DEF IoInv, IoAt, IoPc
<1>3. tmpset' \subseteq Fd
  BY DEF IoTop, IInv, TypeOK
<1> QED BY <1>2, <1>3 DEF IInv, TypeOK, ThInv, Listening, IoTop, netVars, osVars, selVars, mgrVars

\* update returns to that loop.
LEMMA IoReturnInv == IInv /\ IoReturn => io' \in IoRec /\ tmpset' \subseteq Fd /\ IoInv'
  BY BoundAssumption DEF IoInv, IoReturn, IoAt, IoRec, IoPc

\* select narrows tmpset to its readable members.
LEMMA IoSelectInv == IInv /\ IoSelect => IInv'
<1> SUFFICES ASSUME IInv, IoSelect PROVE IInv'
  OBVIOUS
<1> DEFINE watched == {f \in tmpset : f <= fdmax}
           ready == {f \in watched : Readable(f)}
<1>1. ready \in SUBSET Fd
  BY DEF IInv, TypeOK
<1>2. Cardinality(ready) \in Int
  <2>1. IsFiniteSet(Fd)
    BY FS_Interval, BoundAssumption DEF Fd
  <2>2. IsFiniteSet(ready)
    BY <1>1, <2>1, FS_Subset
  <2> QED BY <2>2, FS_CardinalityType
<1> HIDE DEF ready
<1>3. io' \in IoRec /\ tmpset' \subseteq Fd /\ IoInv'
  <2>1. CASE IoReturn
    BY <2>1, IoReturnInv
  <2>2. CASE tmpset' = ready /\ io' = [IoAt("loop") EXCEPT !.n = Cardinality(ready)]
    BY <1>1, <1>2, <2>2, BoundAssumption DEF IoInv, IoAt, IoRec, IoPc
  <2> QED BY <2>1, <2>2 DEF IoSelect, ready
<1> QED BY <1>3 DEF IInv, TypeOK, ThInv, Listening, IoSelect, netVars, osVars, selVars, mgrVars

\* The loop over the descriptors ends.
LEMMA IoLoopEndInv == IInv /\ IoLoopEnd => IInv'
  BY IoReturnInv DEF IInv, TypeOK, ThInv, Listening, IoLoopEnd, netVars, osVars, selVars, mgrVars

\* The loop stops at a descriptor.
LEMMA PendingType == IInv /\ Pending # {} => Min(Pending) \in Fd
  BY FdMin DEF IInv, TypeOK, Pending

\* The loop stops at a connection,
LEMMA IoLoopReadyInv == IInv /\ IoLoopReady => IInv'
<1> SUFFICES ASSUME IInv, IoLoopReady PROVE IInv'
  OBVIOUS
<1>1. io' \in IoRec /\ IoInv'
  BY PendingType, FdIdx DEF IInv, TypeOK, IoInv, IoLoopReady, IoRec, IoPc
<1> QED BY <1>1 DEF IInv, TypeOK, ThInv, Listening, IoLoopReady, netVars, osVars, selVars, mgrVars

\* or at the listening socket, where a new connection gets a descriptor or accept fails.
LEMMA IoAcceptInv == IInv /\ IoAccept => IInv'
<1> SUFFICES ASSUME IInv, IoAccept PROVE IInv'
  OBVIOUS
<1>1. listen_sck \in Fd
  BY PendingType DEF IoAccept
<1>2. CASE IoReturn /\ UNCHANGED <<backlog, osVars>>
  BY <1>2, IoReturnInv DEF IInv, TypeOK, ThInv, Listening, IoAccept, osVars, selVars, mgrVars
<1>3. ASSUME NEW h \in backlog[listen_sck], Fd \ open # {},
             backlog' = [backlog EXCEPT ![listen_sck] = @ \ {h}],
             open' = open \cup {LowestFree},
             sock' = [sock EXCEPT ![LowestFree] = h],
             io' = [io EXCEPT !.pc = "lock", !.idx = listen_sck, !.h = h, !.f = LowestFree],
             UNCHANGED <<lsn, tmpset>>
      PROVE  IInv'
  <2>1. h \in Handle /\ LowestFree \in Fd
    BY <1>1, <1>3, LowestFreeType DEF IInv, TypeOK
  <2>2. io' \in IoRec /\ IoInv'
    BY <1>1, <1>3, <2>1, FdIdx DEF IInv, TypeOK, IoInv, IoRec, IoPc
  <2>3. backlog' \in [Fd -> SUBSET Handle]
    BY <1>1, <1>3 DEF IInv, TypeOK
  <2>4. open' \subseteq Fd /\ lsn' \subseteq Fd /\ sock' \in [Fd -> Handle \cup {NoHandle}]
    BY <1>3, <2>1 DEF IInv, TypeOK
  <2> QED BY <1>3, <2>2, <2>3, <2>4 DEF IInv, TypeOK, ThInv, Listening, IoAccept, selVars, mgrVars
<1> QED BY <1>2, <1>3 DEF IoAccept

\* A Handle is made for the accepted connection.
LEMMA IoNewConnectionInv == IInv /\ IoNewConnection => IInv'
<1> SUFFICES ASSUME IInv, IoNewConnection PROVE IInv'
  OBVIOUS
<1>1. hd' \in [Handle -> HandleRec]
  BY NewHandleType DEF IInv, TypeOK, IoInv, IoNewConnection
<1>2. io' \in IoRec /\ IoInv'
  BY DEF IInv, TypeOK, IoInv, IoNewConnection, IoRec, IoPc
<1>3. connections' \in [Fd -> Handle \cup {NoHandle}]
  BY DEF IInv, TypeOK, IoInv, IoNewConnection
<1> QED BY <1>1, <1>2, <1>3 DEF IInv, TypeOK, ThInv, Listening, IoNewConnection, netVars, osVars, mgrVars

\* The loop goes on to the next descriptor.
LEMMA NextIdxType ==
  ASSUME IInv, io.idx \in Fd, io' = NextIdx
  PROVE  io' \in IoRec /\ IoInv'
<1>1. io.idx + 1 \in 0 .. MaxFd + 1
  BY FdIdx
<1>2. io \in IoRec /\ io.n \in Int /\ io.n - 1 \in Int
  BY DEF IInv, TypeOK, IoRec
<1>3. io' = [io EXCEPT !.pc = "loop", !.idx = io.idx + 1, !.n = io.n - 1,
                       !.h = NoHandle, !.f = -1]
  BY <1>2 DEF NextIdx, IoRec
<1> QED BY <1>1, <1>2, <1>3 DEF IoInv, IoRec, IoPc

\* A Handle enters the ready queue and its counter goes up.
LEMMA PushType ==
  ASSUME IInv, NEW h \in Handle, NEW b \in BOOLEAN, Push(h, b)
  PROVE  /\ handleReady' \in Seq([h : Handle, new : BOOLEAN])
         /\ hd' \in [Handle -> HandleRec]
<1>1. [h |-> h, new |-> b] \in [h : Handle, new : BOOLEAN]
  OBVIOUS
<1>2. handleReady' \in Seq([h : Handle, new : BOOLEAN])
  BY <1>1 DEF IInv, TypeOK, Push
<1>3. hd' \in [Handle -> HandleRec]
  <2>1. hd[h] \in HandleRec
    BY DEF IInv, TypeOK
  <2>2. hd[h].cnt + 1 \in Int
    BY <2>1 DEF HandleRec
  <2>3. [hd[h] EXCEPT !.cnt = hd[h].cnt + 1] \in HandleRec
    BY <2>1, <2>2 DEF HandleRec
  <2>4. hd' = [hd EXCEPT ![h] = [hd[h] EXCEPT !.cnt = hd[h].cnt + 1]]
    BY <2>1 DEF Push, IInv, TypeOK
  <2> QED BY <2>3, <2>4, HdType DEF IInv
<1> QED BY <1>2, <1>3

\* A header and its payload can both be taken from a queue that holds two items.
LEMMA TailTwice ==
  ASSUME NEW S, NEW s \in Seq(S), Len(s) > 1
  PROVE  Tail(s) \in Seq(S) /\ Tail(Tail(s)) \in Seq(S)
<1>1. Len(<<>>) = 0
  OBVIOUS
<1>2. s # <<>>
  BY <1>1
<1>3. Tail(s) \in Seq(S) /\ Len(Tail(s)) = Len(s) - 1
  BY <1>2
<1>4. Len(Tail(s)) # 0
  BY <1>3
<1>5. Tail(s) # <<>>
  BY <1>1, <1>4, Zenon
<1> QED BY <1>3, <1>5

\* The handshake of an accepted connection.
LEMMA IoHandshakeInv == IInv /\ IoHandshake => IInv'
<1> SUFFICES ASSUME IInv, IoHandshake PROVE IInv'
  OBVIOUS
<1> DEFINE in == inbox[io.h]
<1>1. io.h \in Handle /\ io.idx \in Fd /\ in \in Seq(Item) /\ in # <<>>
  BY DEF IInv, TypeOK, IoInv, IoHandshake
<1>2. io' \in IoRec /\ IoInv'
  BY <1>1, NextIdxType DEF IoHandshake
<1>3. Tail(in) \in Seq(Item)
  BY <1>1
<1>4. /\ inbox' \in [Handle -> Seq(Item)]
      /\ handleReady' \in Seq([h : Handle, new : BOOLEAN])
      /\ hd' \in [Handle -> HandleRec]
      /\ groupsReady' \subseteq Handle
  <2>1. CASE Push(io.h, TRUE) /\ inbox' = [inbox EXCEPT ![io.h] = Tail(in)] /\ UNCHANGED groupsReady
    BY <1>1, <1>3, <2>1, PushType DEF IInv, TypeOK
  <2>2. CASE /\ Len(in) > 1
             /\ inbox' = [inbox EXCEPT ![io.h] = IF in[2] \in Last THEN Tail(in) ELSE Tail(Tail(in))]
             /\ groupsReady' = IF in[2] \in Last THEN groupsReady ELSE groupsReady \cup {io.h}
             /\ UNCHANGED <<handleReady, hd>>
    <3>1. Tail(Tail(in)) \in Seq(Item)
      BY <1>1, <2>2, TailTwice
    <3> QED BY <1>1, <1>3, <2>2, <3>1 DEF IInv, TypeOK
  <2>3. CASE UNCHANGED <<inbox, handleReady, groupsReady, hd>>
    BY <2>3 DEF IInv, TypeOK
  <2> QED BY <2>1, <2>2, <2>3 DEF IoHandshake
<1> QED BY <1>2, <1>4 DEF IInv, TypeOK, ThInv, Listening, IoHandshake, osVars, selVars

\* A readable connection leaves the watched set and enters the queue.
LEMMA IoReadyInv == IInv /\ IoReady => IInv'
<1> SUFFICES ASSUME IInv, IoReady PROVE IInv'
  OBVIOUS
<1>1. io' \in IoRec /\ IoInv'
  BY NextIdxType DEF IInv, IoInv, IoReady
<1>2. /\ handleReady' \in Seq([h : Handle, new : BOOLEAN])
      /\ hd' \in [Handle -> HandleRec]
  <2>1. CASE connections[io.idx] # NoHandle /\ Push(connections[io.idx], FALSE)
    <3>1. connections[io.idx] \in Handle
      BY <2>1 DEF IInv, TypeOK, IoInv, IoReady
    <3> QED BY <2>1, <3>1, PushType
  <2>2. CASE UNCHANGED <<handleReady, hd>>
    BY <2>2 DEF IInv, TypeOK
  <2> QED BY <2>1, <2>2 DEF IoReady
<1>3. fdmax' \in Fd \cup {-1} /\ set' \subseteq Fd
  BY FdMaxWithoutType DEF IInv, TypeOK, IoReady, Unwatch
<1> QED BY <1>1, <1>2, <1>3 DEF IInv, TypeOK, ThInv, Listening, IoReady, netVars, osVars

-----------------------------------------------------------------------------
(* The application threads *)

\* One thread moves: its new locals are what has to be looked at.
LEMMA ThStep ==
  ASSUME IInv, NEW t \in Thread, NEW r \in ThRec, ThFits(r),
         r.pc \in {"lzero", "lset", "lmax"} => listen_sck' \in Fd,
         \A t2 \in Thread : Listening(t2) => listen_sck' \in Fd,
         th' = [th EXCEPT ![t] = r]
  PROVE  th' \in [Thread -> ThRec] /\ ThInv'
<1>1. th' \in [Thread -> ThRec]
  BY DEF IInv, TypeOK
<1>2. ASSUME NEW t2 \in Thread
      PROVE  ThFits(th[t2])' /\ (Listening(t2)' => listen_sck' \in Fd)
  <2>1. CASE t2 = t
    BY <2>1 DEF IInv, TypeOK, ThFits, Listening
  <2>2. CASE t2 # t
    <3>1. th'[t2] = th[t2]
      BY <2>2 DEF IInv, TypeOK
    <3> QED BY <3>1 DEF IInv, ThInv, ThFits, Listening
  <2> QED BY <2>1, <2>2
<1> QED BY <1>1, <1>2 DEF ThInv

\* The locals of a thread that is idle, or in a call outside listen.
LEMMA IdleType == Idle \in ThRec /\ ThFits(Idle) /\ Idle.pc = "idle"
  BY DEF Idle, ThRec, ThPc, ThFits

\* The locals of a thread that starts a call on a Handle.
LEMMA CallType ==
  ASSUME NEW p \in ThPc, NEW u \in User, NEW h \in Handle
  PROVE  /\ Call(p, u, h) \in ThRec
         /\ Call(p, u, h).pc = p /\ Call(p, u, h).u = u /\ Call(p, u, h).h = h
  BY DEF Call, Idle, ThRec

\* A thread that returns to the application has no call in progress.
LEMMA ThIdle ==
  ASSUME IInv, NEW t \in Thread, th' = [th EXCEPT ![t] = Idle],
         UNCHANGED listen_sck
  PROVE  th' \in [Thread -> ThRec] /\ ThInv'
<1>1. \A t2 \in Thread : Listening(t2) => listen_sck' \in Fd
  BY DEF IInv, ThInv
<1>2. Idle.pc \notin {"lzero", "lset", "lmax"}
  BY IdleType
<1> QED BY <1>1, <1>2, IdleType, ThStep

\* What a thread knows about the Handle of its call.
LEMMA ThLocals ==
  ASSUME IInv, NEW t \in Thread
  PROVE  /\ th[t] \in ThRec /\ ThFits(th[t])
         /\ \A t2 \in Thread : Listening(t2) => listen_sck \in Fd
  BY DEF IInv, TypeOK, ThInv

\* A HandleUser in use refers to a Handle.
LEMMA CanUseHandle ==
  ASSUME IInv, NEW t \in Thread, NEW u \in User, CanUse(t, u)
  PROVE  /\ user[u].h \in Handle /\ user[u] \in UserRec
         /\ hd[user[u].h] \in HandleRec
  BY DEF IInv, TypeOK, CanUse, UserRec

\* A Handle entering the application keeps the table of HandleUsers typed.
LEMMA UserType ==
  ASSUME TypeOK, NEW u \in User, NEW r \in UserRec
  PROVE  [user EXCEPT ![u] = r] \in [User -> UserRec]
  BY DEF TypeOK

\* The two parts of a queue that is not empty.
LEMMA HeadTail ==
  ASSUME NEW S, NEW s \in Seq(S), s # <<>>
  PROVE  Head(s) \in S /\ Tail(s) \in Seq(S)
  OBVIOUS

\* Manager::getNext.
LEMMA GetNextInv ==
  ASSUME IInv, NEW t \in Thread, NEW u \in User, GetNext(t, u)
  PROVE  IInv'
<1>1. handleReady \in Seq([h : Handle, new : BOOLEAN]) /\ handleReady # <<>>
  BY DEF IInv, TypeOK, GetNext
<1>2. /\ Head(handleReady) \in [h : Handle, new : BOOLEAN]
      /\ Tail(handleReady) \in Seq([h : Handle, new : BOOLEAN])
  BY <1>1, HeadTail
<1>3. [h |-> Head(handleReady).h, readable |-> TRUE] \in UserRec
  BY <1>2 DEF UserRec
<1>4. user' \in [User -> UserRec]
  BY <1>3, UserType DEF GetNext, IInv
<1>5. handleReady' \in Seq([h : Handle, new : BOOLEAN])
  BY <1>2 DEF GetNext
<1> QED BY <1>4, <1>5 DEF GetNext, IInv, TypeOK, IoInv, ThInv, Listening,
                          netVars, osVars, selVars

\* ConnTcp::connect up to its lock: the descriptor of the new connection,
LEMMA ConnectInv ==
  ASSUME IInv, NEW t \in Thread, NEW u \in User, NEW h \in Handle, Connect(t, u, h)
  PROVE  IInv'
<1> DEFINE r == [Call("conn", u, h) EXCEPT !.f = LowestFree]
<1>1. LowestFree \in Fd
  BY LowestFreeType DEF Connect
<1>2. r \in ThRec /\ ThFits(r) /\ r.pc = "conn"
  <2>1. "conn" \in ThPc
    BY DEF ThPc
  <2>2. /\ Call("conn", u, h) \in ThRec /\ Call("conn", u, h).pc = "conn"
        /\ Call("conn", u, h).u = u /\ Call("conn", u, h).h = h
    BY <2>1, CallType
  <2> QED BY <1>1, <2>2 DEF ThFits, ThRec
<1>3. th' \in [Thread -> ThRec] /\ ThInv'
  <2>1. th' = [th EXCEPT ![t] = r] /\ listen_sck' = listen_sck
    BY DEF Connect
  <2> HIDE DEF r
  <2> QED BY <1>2, <2>1, ThStep, ThLocals
<1>4. open' \subseteq Fd /\ sock' \in [Fd -> Handle \cup {NoHandle}]
  BY <1>1 DEF Connect, IInv, TypeOK
<1>5. peer' \in [Handle -> PeerState]
  BY DEF Connect, IInv, TypeOK, PeerState
<1> QED BY <1>3, <1>4, <1>5 DEF Connect, IInv, TypeOK, IoInv, selVars, mgrVars

\* and under the lock, where its Handle enters the table.
LEMMA ConnectInsertInv ==
  ASSUME IInv, NEW t \in Thread, ConnectInsert(t)
  PROVE  IInv'
<1>1. th[t].h \in Handle /\ th[t].f \in Fd /\ th[t].u \in User
  BY DEF IInv, ThInv, ThFits, ConnectInsert
<1>2. connections' \in [Fd -> Handle \cup {NoHandle}]
  BY <1>1 DEF IInv, TypeOK, ConnectInsert
<1>3. NewHandle(th[t].f, 0) \in HandleRec /\ NewHandle(th[t].f, 1) \in HandleRec
  BY <1>1, NewHandleType
<1>4. hd' \in [Handle -> HandleRec]
  BY <1>3, HdType DEF ConnectInsert, IInv
<1>5. user' \in [User -> UserRec]
  <2>1. [h |-> th[t].h, readable |-> TRUE] \in UserRec
    BY <1>1 DEF UserRec
  <2>2. [user EXCEPT ![th[t].u] = [h |-> th[t].h, readable |-> TRUE]] \in [User -> UserRec]
    BY <1>1, <2>1, UserType DEF IInv
  <2> QED BY <2>2 DEF ConnectInsert, IInv, TypeOK
<1>6. th' \in [Thread -> ThRec] /\ ThInv'
  BY ThIdle DEF ConnectInsert
<1> QED BY <1>2, <1>4, <1>5, <1>6 DEF ConnectInsert, IInv, TypeOK, IoInv, netVars,
                                      osVars, mgrVars

-----------------------------------------------------------------------------
(* Closing *)

\* close(f) leaves the kernel's tables in their types, whatever f is.
LEMMA CloseFdType ==
  ASSUME TypeOK, NEW f, CloseFd(f)
  PROVE  /\ open' \subseteq Fd /\ lsn' \subseteq Fd
         /\ sock' \in [Fd -> Handle \cup {NoHandle}]
  BY DEF TypeOK, CloseFd

\* So does leaving the tables of ConnTcp.
LEMMA EraseType ==
  ASSUME TypeOK, NEW f
  PROVE  /\ Erase(f) \in [Fd -> Handle \cup {NoHandle}]
         /\ Unwatch(f) \subseteq Fd
         /\ FdMaxWithout(f) \in Fd \cup {-1}
  BY FdMaxWithoutType DEF TypeOK, Erase, Unwatch

\* EndClose makes the thread idle and touches one HandleUser.
LEMMA EndCloseType ==
  ASSUME IInv, NEW t \in Thread, th[t].u \in User, EndClose(t), UNCHANGED listen_sck
  PROVE  /\ th' \in [Thread -> ThRec] /\ ThInv'
         /\ user' \in [User -> UserRec]
<1>1. th' \in [Thread -> ThRec] /\ ThInv'
  BY ThIdle DEF EndClose
<1>2. [user EXCEPT ![th[t].u].readable = FALSE] \in [User -> UserRec]
  BY DEF IInv, TypeOK, UserRec
<1>3. user \in [User -> UserRec]
  BY DEF IInv, TypeOK
<1> QED BY <1>1, <1>2, <1>3 DEF EndClose

\* StartClose writes at most EOS, and the thread is on its way to notify_close.
LEMMA StartCloseType ==
  ASSUME IInv, NEW t \in Thread, NEW u \in User, NEW h \in Handle,
         NEW cw \in BOOLEAN, NEW cr \in BOOLEAN, NEW k \in {"none", "unread"},
         StartClose(t, u, h, cw, cr, k), UNCHANGED listen_sck
  PROVE  /\ th' \in [Thread -> ThRec] /\ ThInv'
         /\ out' \in [Handle -> Seq({"eos", "fin"})]
<1> DEFINE w == hd[h].wr \/ cw
           rr == hd[h].rd \/ cr
           r == [Call("notify", u, h) EXCEPT !.wr = w, !.rd = rr, !.k = k]
<1>0. hd[h] \in HandleRec /\ out \in [Handle -> Seq({"eos", "fin"})] /\ TypeOK
  BY DEF IInv, TypeOK
<1>1. hd[h].fd \in Fd \cup {-1} /\ hd[h].wr \in BOOLEAN /\ hd[h].rd \in BOOLEAN
  BY <1>0 DEF HandleRec
<1>2. w \in BOOLEAN /\ rr \in BOOLEAN
  BY <1>1
<1>3. th' = [th EXCEPT ![t] = r]
  BY DEF StartClose
<1>4. Write(out, hd[h].fd, "eos") \in [Handle -> Seq({"eos", "fin"})]
  BY <1>0, <1>1, WriteType
<1>5. out' \in [Handle -> Seq({"eos", "fin"})]
  BY <1>0, <1>4 DEF StartClose
<1> HIDE DEF w, rr
<1>6. r \in ThRec /\ ThFits(r) /\ r.pc = "notify"
  <2>1. "notify" \in ThPc
    BY DEF ThPc
  <2>2. /\ Call("notify", u, h) \in ThRec /\ Call("notify", u, h).pc = "notify"
        /\ Call("notify", u, h).u = u /\ Call("notify", u, h).h = h
    BY <2>1, CallType
  <2> QED BY <1>2, <2>2 DEF ThFits, ThRec
<1> HIDE DEF r
<1>7. th' \in [Thread -> ThRec] /\ ThInv'
  BY <1>3, <1>6, ThStep, ThLocals
<1> QED BY <1>5, <1>7

\* notify_close before its lock,
LEMMA NotifyCloseInv ==
  ASSUME IInv, NEW t \in Thread, NotifyClose(t)
  PROVE  IInv'
<1> DEFINE h == th[t].h
           f == hd[h].fd
           lone == LoneWrite(t)
<1>0. th[t].pc = "notify" /\ TypeOK
  BY DEF NotifyClose, IInv
<1>1. h \in Handle /\ th[t].u \in User /\ hd[h] \in HandleRec /\ th[t] \in ThRec
  BY <1>0 DEF IInv, ThInv, ThFits, TypeOK
<1>2. f \in Fd \cup {-1}
  BY <1>1 DEF HandleRec
<1>3. out' \in [Handle -> Seq({"eos", "fin"})]
  <2>1. out \in [Handle -> Seq({"eos", "fin"})]
    BY DEF IInv, TypeOK
  <2>2. Write(out, f, "fin") \in [Handle -> Seq({"eos", "fin"})]
    BY <1>0, <1>2, <2>1, WriteType
  <2> QED BY <2>1, <2>2 DEF NotifyClose
<1>4. /\ open' \subseteq Fd /\ lsn' \subseteq Fd
      /\ sock' \in [Fd -> Handle \cup {NoHandle}]
  <2>1. CASE CloseFd(f)
    BY <1>0, <2>1, CloseFdType
  <2>2. CASE UNCHANGED osVars
    BY <1>0, <2>2 DEF TypeOK, osVars
  <2> QED BY <2>1, <2>2 DEF NotifyClose
<1>5. /\ th' \in [Thread -> ThRec] /\ ThInv'
      /\ hd' \in [Handle -> HandleRec] /\ user' \in [User -> UserRec]
  <2>1. CASE /\ f # -1 /\ th' = [th EXCEPT ![t].pc = "erase", ![t].f = f]
             /\ UNCHANGED <<hd, user>>
    <3> DEFINE r == [th[t] EXCEPT !.pc = "erase", !.f = f]
    <3>1. th' = [th EXCEPT ![t] = r] /\ UNCHANGED listen_sck
      BY <1>0, <2>1 DEF NotifyClose, TypeOK
    <3>2. r \in ThRec /\ ThFits(r) /\ r.pc = "erase"
      BY <1>1, <1>2, <2>1 DEF ThRec, ThPc, ThFits
    <3> HIDE DEF r
    <3>3. th' \in [Thread -> ThRec] /\ ThInv'
      BY <3>1, <3>2, ThStep, ThLocals
    <3> QED BY <1>0, <2>1, <3>3 DEF TypeOK
  <2>2. CASE /\ hd' = [hd EXCEPT ![h] = Reap(IF lone THEN [@ EXCEPT !.fd = -1] ELSE @)]
             /\ EndClose(t)
    <3> DEFINE r == IF lone THEN [hd[h] EXCEPT !.fd = -1] ELSE hd[h]
    <3>1. hd' = [hd EXCEPT ![h] = Reap(r)]
      BY <1>0, <1>1, <2>2 DEF TypeOK
    <3>2. r \in HandleRec
      BY <1>1 DEF HandleRec
    <3>3. hd' \in [Handle -> HandleRec]
      BY <1>0, <3>1, <3>2, ReapType, HdType
    <3>4. /\ th' \in [Thread -> ThRec] /\ ThInv'
          /\ user' \in [User -> UserRec]
      BY <1>1, <2>2, EndCloseType DEF NotifyClose
    <3> QED BY <3>3, <3>4
  <2> QED BY <2>1, <2>2 DEF NotifyClose
<1> QED BY <1>3, <1>4, <1>5 DEF NotifyClose, IInv, TypeOK, IoInv, netVars, selVars, mgrVars

\* under its lock,
LEMMA NotifyEraseInv ==
  ASSUME IInv, NEW t \in Thread, NotifyErase(t)
  PROVE  IInv'
<1> DEFINE h == th[t].h
<1>0. th[t].pc = "erase" /\ TypeOK
  BY DEF NotifyErase, IInv
<1>1. /\ h \in Handle /\ th[t].u \in User /\ th[t].f \in Fd
      /\ hd[h] \in HandleRec /\ th[t] \in ThRec
  BY <1>0 DEF IInv, ThInv, ThFits, TypeOK
<1>2. /\ connections' \in [Fd -> Handle \cup {NoHandle}]
      /\ set' \subseteq Fd /\ fdmax' \in Fd \cup {-1}
  BY <1>0, EraseType DEF NotifyErase
<1>3. /\ th' \in [Thread -> ThRec] /\ ThInv'
      /\ hd' \in [Handle -> HandleRec] /\ user' \in [User -> UserRec]
  <2>1. CASE th' = [th EXCEPT ![t].pc = "fdclose"] /\ UNCHANGED <<hd, user>>
    <3> DEFINE r == [th[t] EXCEPT !.pc = "fdclose"]
    <3>1. th' = [th EXCEPT ![t] = r] /\ UNCHANGED listen_sck
      BY <1>0, <2>1 DEF NotifyErase, TypeOK
    <3>2. r \in ThRec /\ ThFits(r) /\ r.pc = "fdclose"
      BY <1>1 DEF ThRec, ThPc, ThFits
    <3> HIDE DEF r
    <3>3. th' \in [Thread -> ThRec] /\ ThInv'
      BY <3>1, <3>2, ThStep, ThLocals
    <3> QED BY <1>0, <2>1, <3>3 DEF TypeOK
  <2>2. CASE hd' = [hd EXCEPT ![h] = Reap(@)] /\ EndClose(t)
    <3>1. hd' = [hd EXCEPT ![h] = Reap(hd[h])]
      BY <1>0, <1>1, <2>2 DEF TypeOK
    <3>2. hd' \in [Handle -> HandleRec]
      BY <1>0, <1>1, <3>1, ReapType, HdType
    <3>3. /\ th' \in [Thread -> ThRec] /\ ThInv'
          /\ user' \in [User -> UserRec]
      BY <1>1, <2>2, EndCloseType DEF NotifyErase
    <3> QED BY <3>2, <3>3
  <2> QED BY <2>1, <2>2 DEF NotifyErase
<1> QED BY <1>2, <1>3 DEF NotifyErase, IInv, TypeOK, IoInv, netVars, osVars, mgrVars

\* and after it.
LEMMA NotifyFdCloseInv ==
  ASSUME IInv, NEW t \in Thread, NotifyFdClose(t)
  PROVE  IInv'
<1> DEFINE h == th[t].h
<1>0. th[t].pc = "fdclose" /\ TypeOK
  BY DEF NotifyFdClose, IInv
<1>1. h \in Handle /\ th[t].u \in User /\ hd[h] \in HandleRec
  BY <1>0 DEF IInv, ThInv, ThFits, TypeOK
<1>2. /\ open' \subseteq Fd /\ lsn' \subseteq Fd
      /\ sock' \in [Fd -> Handle \cup {NoHandle}]
  BY <1>0, CloseFdType DEF NotifyFdClose
<1>3. hd' \in [Handle -> HandleRec]
  <2>1. hd' = [hd EXCEPT ![h] = Reap([hd[h] EXCEPT !.fd = -1])]
    BY <1>0, <1>1 DEF NotifyFdClose, TypeOK
  <2>2. [hd[h] EXCEPT !.fd = -1] \in HandleRec
    BY <1>1 DEF HandleRec
  <2> QED BY <1>0, <2>1, <2>2, ReapType, HdType
<1>4. /\ th' \in [Thread -> ThRec] /\ ThInv'
      /\ user' \in [User -> UserRec]
  BY <1>1, EndCloseType DEF NotifyFdClose
<1> QED BY <1>2, <1>3, <1>4 DEF NotifyFdClose, IInv, TypeOK, IoInv, netVars, selVars, mgrVars

\* HandleUser::close.
LEMMA CloseInv ==
  ASSUME IInv, NEW t \in Thread, NEW u \in User, Close(t, u)
  PROVE  IInv'
<1> DEFINE h == user[u].h
<1>0. CanUse(t, u) /\ TypeOK
  BY DEF Close, IInv
<1>1. h \in Handle /\ hd[h] \in HandleRec
  BY <1>0, CanUseHandle
<1>2. /\ th' \in [Thread -> ThRec] /\ ThInv'
      /\ out' \in [Handle -> Seq({"eos", "fin"})]
  BY <1>1, StartCloseType DEF Close
<1>3. hd' \in [Handle -> HandleRec]
  BY <1>0, <1>1 DEF Close, TypeOK, HandleRec
<1> QED BY <1>2, <1>3 DEF Close, IInv, TypeOK, IoInv, netVars, osVars, selVars, mgrVars

-----------------------------------------------------------------------------
(* Reading *)

\* Reading the first item of a connection.
LEMMA InboxType ==
  ASSUME IInv, NEW c, NEW q, c \in Handle => q \in Seq(Item)
  PROVE  [inbox EXCEPT ![c] = q] \in [Handle -> Seq(Item)]
  BY DEF IInv, TypeOK

\* A probe or receive that reads has a Handle and something to read.
LEMMA ReadsType ==
  ASSUME IInv, NEW t \in Thread, NEW u \in User, NEW c \in Handle, Reads(t, u, c)
  PROVE  /\ user[u].h \in Handle /\ hd[user[u].h] \in HandleRec /\ user[u] \in UserRec
         /\ inbox[c] \in Seq(Item) /\ Tail(inbox[c]) \in Seq(Item)
<1>1. inbox[c] \in Seq(Item) /\ inbox[c] # <<>>
  BY DEF Reads, IInv, TypeOK
<1>2. Tail(inbox[c]) \in Seq(Item)
  BY <1>1, HeadTail
<1>3. CanUse(t, u)
  BY DEF Reads
<1> QED BY <1>1, <1>2, <1>3, CanUseHandle

\* A probe that finds a header or EOS.
LEMMA ProbeInv ==
  ASSUME IInv, NEW t \in Thread, NEW u \in User, Probe(t, u)
  PROVE  IInv'
<1> DEFINE h == user[u].h
<1>1. PICK c \in Handle :
    /\ Reads(t, u, c)
    /\ inbox' = [inbox EXCEPT ![c] = Tail(@)]
    /\ IF Head(inbox[c]) = "hdr"
         THEN /\ hd' = [hd EXCEPT ![h].probed = "msg"]
              /\ UNCHANGED <<th, out>>
         ELSE /\ hd' = [hd EXCEPT ![h].probed = "eos", ![h].rd = TRUE]
              /\ StartClose(t, u, h, FALSE, TRUE, "unread")
    /\ UNCHANGED <<backlog, peer, sent, osVars, selVars, mgrVars, tmpset,
                   listen_sck, shm, io, user, nlisten, todo>>
  BY DEF Probe
<1>2. /\ h \in Handle /\ hd[h] \in HandleRec /\ Tail(inbox[c]) \in Seq(Item)
      /\ TypeOK
  BY <1>1, ReadsType DEF IInv
<1>3. inbox' \in [Handle -> Seq(Item)]
  <2>1. inbox' = [inbox EXCEPT ![c] = Tail(inbox[c])]
    BY <1>1, <1>2 DEF TypeOK
  <2> QED BY <1>2, <2>1, InboxType
<1>4. /\ hd' \in [Handle -> HandleRec] /\ th' \in [Thread -> ThRec] /\ ThInv'
      /\ out' \in [Handle -> Seq({"eos", "fin"})]
  <2>1. CASE Head(inbox[c]) = "hdr"
    <3>1. hd' = [hd EXCEPT ![h].probed = "msg"] /\ UNCHANGED <<th, out, listen_sck>>
      BY <1>1, <2>1
    <3>2. hd' \in [Handle -> HandleRec]
      BY <1>2, <3>1 DEF TypeOK, HandleRec
    <3> QED BY <1>2, <3>1, <3>2 DEF IInv, TypeOK, ThInv, Listening
  <2>2. CASE Head(inbox[c]) # "hdr"
    <3>1. /\ hd' = [hd EXCEPT ![h].probed = "eos", ![h].rd = TRUE]
          /\ StartClose(t, u, h, FALSE, TRUE, "unread") /\ UNCHANGED listen_sck
      BY <1>1, <2>2
    <3>2. hd' \in [Handle -> HandleRec]
      BY <1>2, <3>1 DEF TypeOK, HandleRec
    <3> QED BY <1>2, <3>1, <3>2, StartCloseType
  <2> QED BY <2>1, <2>2
<1>5. UNCHANGED <<backlog, peer, sent, osVars, selVars, mgrVars, tmpset,
                  listen_sck, shm, io, user, nlisten, todo>>
  BY <1>1
<1> QED BY <1>3, <1>4, <1>5 DEF IInv, TypeOK, IoInv, osVars, selVars, mgrVars

\* A probe that finds end of file or a reset.
LEMMA ProbeFailInv ==
  ASSUME IInv, NEW t \in Thread, NEW u \in User, ProbeFail(t, u)
  PROVE  IInv'
<1> DEFINE h == user[u].h
<1>1. PICK c \in Handle :
    /\ Reads(t, u, c)
    /\ hd' = [hd EXCEPT ![h].rd = TRUE, ![h].wr = TRUE]
    /\ user' = [user EXCEPT ![u].readable = @ /\ Head(inbox[c]) = "rst"]
    /\ StartClose(t, u, h, TRUE, TRUE, "none")
    /\ UNCHANGED <<netVars, osVars, selVars, mgrVars, tmpset, listen_sck, shm,
                   io, nlisten, todo>>
  BY DEF ProbeFail
<1>2. h \in Handle /\ hd[h] \in HandleRec /\ user[u] \in UserRec /\ TypeOK
  BY <1>1, ReadsType DEF IInv
<1>3. hd' \in [Handle -> HandleRec]
  BY <1>1, <1>2 DEF TypeOK, HandleRec
<1>4. user' \in [User -> UserRec]
  <2> DEFINE b == user[u].readable /\ Head(inbox[c]) = "rst"
  <2>1. user' = [user EXCEPT ![u] = [user[u] EXCEPT !.readable = b]]
    BY <1>1, <1>2 DEF TypeOK, UserRec
  <2>2. b \in BOOLEAN
    BY <1>2 DEF UserRec
  <2> HIDE DEF b
  <2>3. [user[u] EXCEPT !.readable = b] \in UserRec
    BY <1>2, <2>2 DEF UserRec
  <2> QED BY <1>2, <2>1, <2>3, UserType
<1>5. /\ th' \in [Thread -> ThRec] /\ ThInv'
      /\ out' \in [Handle -> Seq({"eos", "fin"})]
  BY <1>1, <1>2, StartCloseType
<1>6. UNCHANGED <<netVars, osVars, selVars, mgrVars, tmpset, listen_sck, shm,
                  io, nlisten, todo>>
  BY <1>1
<1> QED BY <1>3, <1>4, <1>5, <1>6 DEF IInv, TypeOK, IoInv, netVars, osVars, selVars, mgrVars

\* receive.
LEMMA ReceiveInv ==
  ASSUME IInv, NEW t \in Thread, NEW u \in User, Receive(t, u)
  PROVE  IInv'
<1> DEFINE h == user[u].h
<1>1. PICK c \in Handle :
    /\ Reads(t, u, c)
    /\ hd' = [hd EXCEPT ![h].probed = "no"]
    /\ inbox' = [inbox EXCEPT ![c] = IF Head(@) \in Last THEN @ ELSE Tail(@)]
    /\ UNCHANGED <<backlog, peer, sent, osVars, selVars, mgrVars, out, tmpset,
                   listen_sck, shm, io, user, th, nlisten, todo>>
  BY DEF Receive
<1>2. /\ h \in Handle /\ hd[h] \in HandleRec /\ inbox[c] \in Seq(Item)
      /\ Tail(inbox[c]) \in Seq(Item) /\ TypeOK
  BY <1>1, ReadsType DEF IInv
<1>3. hd' \in [Handle -> HandleRec]
  BY <1>1, <1>2 DEF TypeOK, HandleRec
<1>4. inbox' \in [Handle -> Seq(Item)]
  <2> DEFINE q == IF Head(inbox[c]) \in Last THEN inbox[c] ELSE Tail(inbox[c])
  <2>1. inbox' = [inbox EXCEPT ![c] = q]
    BY <1>1, <1>2 DEF TypeOK
  <2>2. q \in Seq(Item)
    BY <1>2
  <2> HIDE DEF q
  <2> QED BY <2>1, <2>2, InboxType
<1>5. UNCHANGED <<backlog, peer, sent, osVars, selVars, mgrVars, out, tmpset,
                  listen_sck, shm, io, user, th, nlisten, todo>>
  BY <1>1
<1> QED BY <1>3, <1>4, <1>5 DEF IInv, TypeOK, IoInv, ThInv, Listening, osVars,
                                selVars, mgrVars

-----------------------------------------------------------------------------
(* Yielding and destroying *)

\* A HandleUser gives up its reference.
LEMMA ReleaseType ==
  ASSUME IInv, NEW u \in User, NEW h \in Handle, Release(u, h)
  PROVE  hd' \in [Handle -> HandleRec] /\ user' \in [User -> UserRec]
<1>1. TypeOK /\ hd[h] \in HandleRec
  BY DEF IInv, TypeOK
<1>2. user' \in [User -> UserRec]
  <2>1. Empty \in UserRec
    BY DEF Empty, UserRec
  <2> QED BY <1>1, <2>1, UserType DEF Release
<1>3. hd[h].cnt - 1 \in Int
  BY <1>1 DEF HandleRec
<1>4. [hd[h] EXCEPT !.cnt = hd[h].cnt - 1] \in HandleRec
  BY <1>1, <1>3 DEF HandleRec
<1>5. hd' = [hd EXCEPT ![h] = Reap([hd[h] EXCEPT !.cnt = hd[h].cnt - 1])]
  BY <1>1 DEF Release, TypeOK
<1> QED BY <1>1, <1>2, <1>4, <1>5, ReapType, HdType

\* A thread on its way to notify_yield has the descriptor of its Handle.
LEMMA StartYieldType ==
  ASSUME IInv, NEW t \in Thread, NEW u \in User, CanUse(t, u), YieldsFd(user[u].h),
         NEW k \in {"none", "drop"}, StartYield(t, u, k), UNCHANGED listen_sck
  PROVE  /\ th' \in [Thread -> ThRec] /\ ThInv'
         /\ user' \in [User -> UserRec]
<1> DEFINE h == user[u].h
           r == [Call("yield", u, h) EXCEPT !.f = hd[h].fd, !.k = k]
<1>1. h \in Handle /\ user[u] \in UserRec /\ hd[h] \in HandleRec /\ TypeOK
  BY CanUseHandle DEF IInv
<1>2. hd[h].fd \in Fd
  BY <1>1 DEF YieldsFd, HandleRec
<1>3. th' = [th EXCEPT ![t] = r] /\ user' = [user EXCEPT ![u].readable = FALSE]
  BY DEF StartYield
<1>4. r \in ThRec /\ ThFits(r) /\ r.pc = "yield"
  <2>1. "yield" \in ThPc
    BY DEF ThPc
  <2>2. /\ Call("yield", u, h) \in ThRec /\ Call("yield", u, h).pc = "yield"
        /\ Call("yield", u, h).u = u /\ Call("yield", u, h).h = h
    BY <1>1, <2>1, CallType
  <2> QED BY <1>1, <1>2, <2>2 DEF ThFits, ThRec
<1> HIDE DEF r
<1>5. th' \in [Thread -> ThRec] /\ ThInv'
  BY <1>3, <1>4, ThStep, ThLocals
<1>6. user' \in [User -> UserRec]
  BY <1>1, <1>3 DEF TypeOK, UserRec
<1> QED BY <1>5, <1>6

\* HandleUser::yield.
LEMMA YieldInv ==
  ASSUME IInv, NEW t \in Thread, NEW u \in User, Yield(t, u)
  PROVE  IInv'
<1> DEFINE h == user[u].h
<1>1. /\ th' \in [Thread -> ThRec] /\ ThInv'
      /\ user' \in [User -> UserRec]
  <2>1. CASE YieldsFd(h)
    BY <2>1, StartYieldType DEF Yield
  <2>2. CASE ~YieldsFd(h)
    <3>1. user' = [user EXCEPT ![u].readable = FALSE] /\ UNCHANGED <<th, listen_sck>>
      BY <2>2 DEF Yield
    <3>2. user' \in [User -> UserRec]
      BY <3>1 DEF IInv, TypeOK, UserRec
    <3> QED BY <3>1, <3>2 DEF IInv, TypeOK, ThInv, Listening
  <2> QED BY <2>1, <2>2
<1> QED BY <1>1 DEF Yield, IInv, TypeOK, IoInv, netVars, osVars, selVars, mgrVars

\* notify_yield under its lock watches that descriptor.
LEMMA NotifyYieldInv ==
  ASSUME IInv, NEW t \in Thread, NotifyYield(t)
  PROVE  IInv'
<1>0. th[t].pc = "yield" /\ TypeOK
  BY DEF NotifyYield, IInv
<1>1. th[t].h \in Handle /\ th[t].u \in User /\ th[t].f \in Fd
  BY <1>0 DEF IInv, ThInv, ThFits
<1>2. set' \subseteq Fd /\ fdmax' \in Fd \cup {-1}
  <2>1. FdMaxWith(th[t].f) \in Fd \cup {-1}
    BY <1>0, <1>1, FdMaxWithType
  <2>2. CASE UNCHANGED <<set, fdmax>>
    BY <1>0, <2>2 DEF TypeOK
  <2>3. CASE set' = set \cup {th[t].f} /\ fdmax' = FdMaxWith(th[t].f)
    BY <1>0, <1>1, <2>1, <2>3 DEF TypeOK
  <2> QED BY <2>2, <2>3 DEF NotifyYield
<1>3. th' \in [Thread -> ThRec] /\ ThInv'
  <2>0. UNCHANGED listen_sck
    BY DEF NotifyYield
  <2>1. CASE th[t].k = "drop"
    <3> DEFINE r == Call("dec", th[t].u, th[t].h)
    <3>1. th' = [th EXCEPT ![t] = r]
      BY <2>1 DEF NotifyYield
    <3>2. "dec" \in ThPc
      BY DEF ThPc
    <3>3. r \in ThRec /\ r.pc = "dec" /\ r.h \in Handle /\ r.u \in User
      BY <1>1, <3>2, CallType
    <3> HIDE DEF r
    <3>4. ThFits(r)
      BY <3>3 DEF ThFits
    <3> QED BY <2>0, <3>1, <3>3, <3>4, ThStep, ThLocals
  <2>2. CASE th[t].k # "drop"
    <3>1. th' = [th EXCEPT ![t] = Idle]
      BY <2>2 DEF NotifyYield
    <3> QED BY <2>0, <3>1, ThIdle
  <2> QED BY <2>1, <2>2
<1> QED BY <1>2, <1>3 DEF NotifyYield, IInv, TypeOK, IoInv, netVars, osVars, mgrVars

\* ~HandleUser, which yields what is still readable,
LEMMA DropInv ==
  ASSUME IInv, NEW t \in Thread, NEW u \in User, Drop(t, u)
  PROVE  IInv'
<1> DEFINE h == user[u].h
<1>1. /\ th' \in [Thread -> ThRec] /\ ThInv'
      /\ user' \in [User -> UserRec] /\ hd' \in [Handle -> HandleRec]
  <2>1. CASE user[u].readable /\ YieldsFd(h)
    <3>1. StartYield(t, u, "drop") /\ UNCHANGED <<hd, listen_sck>> /\ CanUse(t, u)
      BY <2>1 DEF Drop
    <3>2. hd' \in [Handle -> HandleRec]
      BY <3>1 DEF IInv, TypeOK
    <3> QED BY <2>1, <3>1, <3>2, StartYieldType
  <2>2. CASE ~(user[u].readable /\ YieldsFd(h))
    <3>1. Release(u, h) /\ UNCHANGED <<th, listen_sck>> /\ CanUse(t, u)
      BY <2>2 DEF Drop
    <3>2. h \in Handle
      BY <3>1, CanUseHandle
    <3>3. th' \in [Thread -> ThRec] /\ ThInv'
      BY <3>1 DEF IInv, TypeOK, ThInv, Listening
    <3> QED BY <3>1, <3>2, <3>3, ReleaseType
  <2> QED BY <2>1, <2>2
<1> QED BY <1>1 DEF Drop, IInv, TypeOK, IoInv, netVars, osVars, selVars, mgrVars

\* and then gives up the reference.
LEMMA DropReleaseInv ==
  ASSUME IInv, NEW t \in Thread, DropRelease(t)
  PROVE  IInv'
<1>1. th[t].h \in Handle /\ th[t].u \in User
  BY DEF IInv, ThInv, ThFits, DropRelease
<1>2. hd' \in [Handle -> HandleRec] /\ user' \in [User -> UserRec]
  BY <1>1, ReleaseType DEF DropRelease
<1>3. th' \in [Thread -> ThRec] /\ ThInv'
  BY ThIdle DEF DropRelease
<1> QED BY <1>2, <1>3 DEF DropRelease, IInv, TypeOK, IoInv, netVars, osVars, selVars, mgrVars

-----------------------------------------------------------------------------
(* Listening *)

\* ConnTcp::listen gets its socket,
LEMMA ListenInv ==
  ASSUME IInv, NEW t \in Thread, Listen(t)
  PROVE  IInv'
<1>1. LowestFree \in Fd
  BY LowestFreeType DEF Listen
<1>2. th[t] \in ThRec /\ TypeOK /\ listen_sck' \in Fd
  BY <1>1 DEF IInv, TypeOK, Listen
<1>3. th' \in [Thread -> ThRec] /\ ThInv'
  <2>1. CASE UNCHANGED th
    BY <1>2, <2>1 DEF IInv, TypeOK, ThInv, Listening
  <2>2. CASE th' = [th EXCEPT ![t].pc = "lzero"]
    <3> DEFINE r == [th[t] EXCEPT !.pc = "lzero"]
    <3>1. th' = [th EXCEPT ![t] = r]
      BY <1>2, <2>2 DEF TypeOK
    <3>2. r \in ThRec /\ ThFits(r)
      BY <1>2 DEF ThRec, ThPc, ThFits
    <3> HIDE DEF r
    <3> QED BY <1>2, <3>1, <3>2, ThStep
  <2> QED BY <2>1, <2>2 DEF Listen
<1>4. open' \subseteq Fd /\ lsn' \subseteq Fd
  BY <1>1, <1>2 DEF Listen, TypeOK
<1>5. nlisten' \in 0 .. MaxListen
  BY <1>2, BoundAssumption DEF Listen, TypeOK
<1> QED BY <1>2, <1>3, <1>4, <1>5 DEF Listen, IInv, TypeOK, IoInv, netVars, selVars, mgrVars

\* A thread goes on to its next step in listen or in finalize.
LEMMA ThGo ==
  ASSUME IInv, NEW t \in Thread, NEW p \in ThPc,
         p \notin {"notify", "erase", "fdclose", "yield", "dec", "conn"},
         p \in {"lzero", "lset", "lmax"} => Listening(t),
         th' = [th EXCEPT ![t].pc = p],
         UNCHANGED listen_sck
  PROVE  th' \in [Thread -> ThRec] /\ ThInv'
<1> DEFINE r == [th[t] EXCEPT !.pc = p]
<1>1. th[t] \in ThRec /\ TypeOK
  BY DEF IInv, TypeOK
<1>2. th' = [th EXCEPT ![t] = r]
  BY <1>1 DEF TypeOK
<1>3. r \in ThRec /\ ThFits(r) /\ r.pc = p
  BY <1>1 DEF ThRec, ThFits
<1> HIDE DEF r
<1> QED BY <1>2, <1>3, ThStep, ThLocals

\* clears the watched set,
LEMMA ListenZeroInv ==
  ASSUME IInv, NEW t \in Thread, ListenZero(t)
  PROVE  IInv'
<1>1. th' \in [Thread -> ThRec] /\ ThInv'
  BY ThGo DEF ListenZero, ThPc, Listening
<1> QED BY <1>1 DEF ListenZero, IInv, TypeOK, IoInv, netVars, osVars, mgrVars

\* watches the socket
LEMMA ListenSetInv ==
  ASSUME IInv, NEW t \in Thread, ListenSet(t)
  PROVE  IInv'
<1>1. th' \in [Thread -> ThRec] /\ ThInv'
  BY ThGo DEF ListenSet, ThPc, Listening
<1>2. listen_sck \in Fd
  BY DEF ListenSet, IInv, ThInv, Listening
<1> QED BY <1>1, <1>2 DEF ListenSet, IInv, TypeOK, IoInv, netVars, osVars, mgrVars

\* and makes it the greatest descriptor.
LEMMA ListenMaxInv ==
  ASSUME IInv, NEW t \in Thread, ListenMax(t)
  PROVE  IInv'
<1>1. th' \in [Thread -> ThRec] /\ ThInv'
  BY ThIdle DEF ListenMax
<1> QED BY <1>1 DEF ListenMax, IInv, TypeOK, IoInv, netVars, osVars, mgrVars

-----------------------------------------------------------------------------
(* Finalizing *)

\* Manager::finalize raises the flag,
LEMMA FinalizeInv ==
  ASSUME IInv, NEW t \in Thread, NEW b, Finalize(t, b)
  PROVE  IInv'
<1>1. th' \in [Thread -> ThRec] /\ ThInv'
  <2> DEFINE k == IF b THEN "block" ELSE "noblock"
             r == [th[t] EXCEPT !.pc = "join", !.k = k]
  <2>1. th[t] \in ThRec /\ TypeOK
    BY DEF IInv, TypeOK
  <2>2. th' = [th EXCEPT ![t] = r] /\ UNCHANGED listen_sck
    BY <2>1 DEF TypeOK, Finalize
  <2>3. k \in {"block", "noblock"}
    OBVIOUS
  <2> HIDE DEF k
  <2>4. r \in ThRec /\ ThFits(r) /\ r.pc = "join"
    BY <2>1, <2>3 DEF ThRec, ThPc, ThFits
  <2> HIDE DEF r
  <2> QED BY <2>2, <2>4, ThStep, ThLocals
<1> QED BY <1>1 DEF Finalize, IInv, TypeOK, IoInv, netVars, osVars, selVars

\* joins the I/O thread and copies the table.
LEMMA FinalizeJoinInv ==
  ASSUME IInv, NEW t \in Thread, FinalizeJoin(t)
  PROVE  IInv'
<1>1. th' \in [Thread -> ThRec] /\ ThInv'
  BY ThGo DEF FinalizeJoin, ThPc
<1>2. todo' \subseteq Fd
  BY DEF FinalizeJoin
<1> QED BY <1>1, <1>2 DEF FinalizeJoin, IInv, TypeOK, IoInv, netVars, osVars, selVars, mgrVars

\* The final close keeps every table in its type, even for an entry that has
\* no Handle any more.
LEMMA FinalCloseType ==
  ASSUME IInv, NEW h, NEW f, FinalClose(h, f)
  PROVE  /\ open' \subseteq Fd /\ lsn' \subseteq Fd
         /\ sock' \in [Fd -> Handle \cup {NoHandle}]
         /\ connections' \in [Fd -> Handle \cup {NoHandle}]
         /\ set' \subseteq Fd /\ fdmax' \in Fd \cup {-1}
         /\ hd' \in [Handle -> HandleRec]
<1>1. TypeOK
  BY DEF IInv
<1>2. /\ open' \subseteq Fd /\ lsn' \subseteq Fd
      /\ sock' \in [Fd -> Handle \cup {NoHandle}]
  BY <1>1, CloseFdType DEF FinalClose
<1>3. /\ connections' \in [Fd -> Handle \cup {NoHandle}]
      /\ set' \subseteq Fd /\ fdmax' \in Fd \cup {-1}
  BY <1>1, EraseType DEF FinalClose
<1>4. hd' \in [Handle -> HandleRec]
  <2> DEFINE r == [hd[h] EXCEPT !.rd = TRUE, !.wr = TRUE, !.fd = -1]
  <2>1. hd' = [hd EXCEPT ![h] = Reap(r)]
    BY <1>1 DEF FinalClose, TypeOK
  <2>2. h \in Handle => r \in HandleRec
    BY <1>1 DEF TypeOK, HandleRec
  <2> HIDE DEF r
  <2>3. h \in Handle => Reap(r) \in HandleRec
    BY <2>2, ReapType
  <2> QED BY <1>1, <2>1, <2>3, HdType
<1> QED BY <1>2, <1>3, <1>4

\* setAsClosed for one entry of that copy.
LEMMA SetAsClosedInv ==
  ASSUME IInv, NEW t \in Thread, SetAsClosed(t)
  PROVE  IInv'
<1> DEFINE f == Min(todo)
           h == connections[f]
<1>0. TypeOK /\ todo # {} /\ UNCHANGED listen_sck
  BY DEF SetAsClosed, IInv
<1>1. f \in Fd
  BY <1>0, FdMin DEF TypeOK
<1>2. h \in Handle \cup {NoHandle}
  BY <1>0, <1>1 DEF TypeOK
<1>3. out' \in [Handle -> Seq({"eos", "fin"})]
  <2>1. out \in [Handle -> Seq({"eos", "fin"})]
    BY <1>0 DEF TypeOK
  <2>2. Write(out, f, "eos") \in [Handle -> Seq({"eos", "fin"})]
    BY <1>0, <1>1, <2>1, WriteType
  <2>3. Write(Write(out, f, "eos"), f, "fin") \in [Handle -> Seq({"eos", "fin"})]
    BY <1>0, <1>1, <2>2, WriteType
  <2> QED BY <2>1, <2>3 DEF SetAsClosed
<1>4. /\ open' \subseteq Fd /\ lsn' \subseteq Fd
      /\ sock' \in [Fd -> Handle \cup {NoHandle}]
      /\ connections' \in [Fd -> Handle \cup {NoHandle}]
      /\ set' \subseteq Fd /\ fdmax' \in Fd \cup {-1}
      /\ hd' \in [Handle -> HandleRec]
      /\ th' \in [Thread -> ThRec] /\ ThInv'
  <2>1. CASE /\ hd' = [hd EXCEPT ![h].wr = TRUE]
             /\ th' = [th EXCEPT ![t].pc = "drain", ![t].h = h]
             /\ UNCHANGED <<osVars, selVars>>
    <3> HIDE DEF h
    <3>1. hd' \in [Handle -> HandleRec]
      <4>1. hd' = [hd EXCEPT ![h] = [hd[h] EXCEPT !.wr = TRUE]]
        BY <2>1, Zenon
      <4>2. h \in Handle => [hd[h] EXCEPT !.wr = TRUE] \in HandleRec
        BY <1>0 DEF TypeOK, HandleRec
      <4> QED BY <1>0, <4>1, <4>2, HdType
    <3>2. th' \in [Thread -> ThRec] /\ ThInv'
      <4> DEFINE r == [th[t] EXCEPT !.pc = "drain", !.h = h]
      <4>1. th[t] \in ThRec
        BY <1>0 DEF TypeOK
      <4>2. th' = [th EXCEPT ![t] = r]
        BY <1>0, <2>1 DEF TypeOK
      <4>3. r \in ThRec /\ ThFits(r) /\ r.pc = "drain"
        BY <1>2, <4>1 DEF ThRec, ThPc, ThFits
      <4> HIDE DEF r
      <4> QED BY <1>0, <4>2, <4>3, ThStep, ThLocals
    <3> QED BY <1>0, <2>1, <3>1, <3>2 DEF TypeOK, osVars, selVars
  <2>2. CASE FinalClose(h, f) /\ UNCHANGED th
    <3>1. th' \in [Thread -> ThRec] /\ ThInv'
      BY <1>0, <2>2 DEF IInv, TypeOK, ThInv, Listening
    <3> QED BY <2>2, <3>1, FinalCloseType
  <2> QED BY <2>1, <2>2 DEF SetAsClosed
<1>5. todo' \subseteq Fd
  BY DEF SetAsClosed, IInv, TypeOK
<1> QED BY <1>3, <1>4, <1>5 DEF SetAsClosed, IInv, TypeOK, IoInv, netVars, mgrVars

\* One iteration of its wait for EOS.
LEMMA DrainInv ==
  ASSUME IInv, NEW t \in Thread, Drain(t)
  PROVE  IInv'
<1> DEFINE h == th[t].h
           in == inbox[h]
           r == hd[h]
           next == [th EXCEPT ![t].pc = "end", ![t].h = NoHandle]
<1>0. TypeOK /\ UNCHANGED listen_sck /\ th[t].pc = "drain" /\ in # <<>>
  BY DEF Drain, IInv
<1>1. h \in Handle => in \in Seq(Item) /\ Tail(in) \in Seq(Item)
  <2>1. SUFFICES ASSUME h \in Handle PROVE in \in Seq(Item) /\ Tail(in) \in Seq(Item)
    OBVIOUS
  <2>2. in \in Seq(Item)
    BY <1>0, <2>1 DEF TypeOK
  <2> QED BY <1>0, <2>2, HeadTail
<1>2. th' = next => th' \in [Thread -> ThRec] /\ ThInv'
  <2> SUFFICES ASSUME th' = next PROVE th' \in [Thread -> ThRec] /\ ThInv'
    OBVIOUS
  <2> DEFINE q == [th[t] EXCEPT !.pc = "end", !.h = NoHandle]
  <2>1. th[t] \in ThRec
    BY <1>0 DEF TypeOK
  <2>2. th' = [th EXCEPT ![t] = q]
    BY <1>0 DEF TypeOK
  <2>3. q \in ThRec /\ ThFits(q) /\ q.pc = "end"
    BY <2>1 DEF ThRec, ThPc, ThFits
  <2> HIDE DEF q
  <2> QED BY <1>0, <2>2, <2>3, ThStep, ThLocals
<1>3. UNCHANGED th => th' \in [Thread -> ThRec] /\ ThInv'
  BY <1>0 DEF IInv, TypeOK, ThInv, Listening
<1>4. UNCHANGED <<osVars, selVars>> =>
         /\ open' \subseteq Fd /\ lsn' \subseteq Fd
         /\ sock' \in [Fd -> Handle \cup {NoHandle}]
         /\ connections' \in [Fd -> Handle \cup {NoHandle}]
         /\ set' \subseteq Fd /\ fdmax' \in Fd \cup {-1}
  BY <1>0 DEF TypeOK, osVars, selVars
<1>5. /\ open' \subseteq Fd /\ lsn' \subseteq Fd
      /\ sock' \in [Fd -> Handle \cup {NoHandle}]
      /\ connections' \in [Fd -> Handle \cup {NoHandle}]
      /\ set' \subseteq Fd /\ fdmax' \in Fd \cup {-1}
      /\ hd' \in [Handle -> HandleRec]
      /\ inbox' \in [Handle -> Seq(Item)]
      /\ th' \in [Thread -> ThRec] /\ ThInv'
  <2>1. CASE /\ hd' = [hd EXCEPT ![h].probed = "no"]
             /\ inbox' = [inbox EXCEPT ![h] = IF in[1] = "fin" THEN in ELSE Tail(in)]
             /\ UNCHANGED <<th, osVars, selVars>>
    <3> DEFINE q == IF in[1] = "fin" THEN in ELSE Tail(in)
    <3>1. h \in Handle => q \in Seq(Item)
      BY <1>1
    <3>2. inbox' = [inbox EXCEPT ![h] = q]
      BY <2>1
    <3>3. hd' = [hd EXCEPT ![h] = [hd[h] EXCEPT !.probed = "no"]]
      BY <2>1, Zenon
    <3> HIDE DEF q, h, in
    <3>4. h \in Handle => [hd[h] EXCEPT !.probed = "no"] \in HandleRec
      BY <1>0 DEF TypeOK, HandleRec
    <3>5. inbox' \in [Handle -> Seq(Item)]
      BY <3>1, <3>2, InboxType
    <3>6. hd' \in [Handle -> HandleRec]
      BY <1>0, <3>3, <3>4, HdType
    <3> QED BY <1>3, <1>4, <2>1, <3>5, <3>6
  <2>2. CASE /\ Len(in) > 1
             /\ inbox' = [inbox EXCEPT ![h] = IF in[2] = "fin" THEN Tail(in) ELSE Tail(Tail(in))]
             /\ UNCHANGED <<hd, th, osVars, selVars>>
    <3> DEFINE q == IF in[2] = "fin" THEN Tail(in) ELSE Tail(Tail(in))
    <3>1. h \in Handle => q \in Seq(Item)
      BY <1>1, <2>2, TailTwice
    <3>2. inbox' = [inbox EXCEPT ![h] = q]
      BY <2>2
    <3> HIDE DEF q, h, in
    <3>3. inbox' \in [Handle -> Seq(Item)]
      BY <3>1, <3>2, InboxType
    <3>4. hd' \in [Handle -> HandleRec]
      BY <1>0, <2>2 DEF TypeOK
    <3> QED BY <1>3, <1>4, <2>2, <3>3, <3>4
  <2>3. CASE /\ inbox' = [inbox EXCEPT ![h] = Tail(in)]
             /\ FinalClose(h, r.fd) /\ th' = next
    <3>1. inbox' \in [Handle -> Seq(Item)]
      BY <1>1, <2>3, InboxType
    <3>2. th' \in [Thread -> ThRec] /\ ThInv'
      BY <1>2, <2>3
    <3> QED BY <2>3, <3>1, <3>2, FinalCloseType
  <2>4. CASE th' = next /\ UNCHANGED <<hd, inbox, osVars, selVars>>
    <3>1. inbox' \in [Handle -> Seq(Item)] /\ hd' \in [Handle -> HandleRec]
      BY <1>0, <2>4 DEF TypeOK
    <3> QED BY <1>2, <1>4, <2>4, <3>1
  <2> QED BY <2>1, <2>2, <2>3, <2>4 DEF Drain
<1> QED BY <1>5 DEF Drain, IInv, TypeOK, IoInv, mgrVars

\* finalize returns.
LEMMA FinalizeEndInv ==
  ASSUME IInv, NEW t \in Thread, FinalizeEnd(t)
  PROVE  IInv'
<1>1. th' \in [Thread -> ThRec] /\ ThInv'
  BY ThIdle DEF FinalizeEnd
<1> QED BY <1>1 DEF FinalizeEnd, IInv, TypeOK, IoInv, netVars, osVars, selVars, mgrVars

-----------------------------------------------------------------------------
(* The peers *)

\* A step of a peer touches nothing of the process.
LEMMA PeerFrame ==
  ASSUME IInv, UNCHANGED localVars,
         backlog' \in [Fd -> SUBSET Handle], inbox' \in [Handle -> Seq(Item)],
         peer' \in [Handle -> PeerState], sent' \in [Handle -> 0 .. MaxMsg]
  PROVE  IInv'
  BY DEF IInv, TypeOK, IoInv, ThInv, Listening, localVars, osVars, selVars, mgrVars

\* What a peer puts on the wire.
LEMMA PeerItems ==
  ASSUME IInv, NEW h \in Handle
  PROVE  /\ inbox[h] \in Seq(Item)
         /\ \A x \in Item : Append(inbox[h], x) \in Seq(Item)
         /\ \A x, y \in Item : inbox[h] \o <<x, y>> \in Seq(Item)
         /\ \A x \in Item : <<x>> \in Seq(Item)
<1>1. inbox[h] \in Seq(Item)
  BY DEF IInv, TypeOK
<1>2. \A x, y \in Item : <<x, y>> \in Seq(Item)
  OBVIOUS
<1>3. \A x, y \in Item : inbox[h] \o <<x, y>> \in Seq(Item)
  BY <1>1, <1>2
<1> QED BY <1>1, <1>3

\* The steps of a peer.
LEMMA PeerNextInv ==
  ASSUME IInv, NEW h \in Handle, PeerNext(h)
  PROVE  IInv'
<1>0. /\ backlog \in [Fd -> SUBSET Handle] /\ inbox \in [Handle -> Seq(Item)]
      /\ peer \in [Handle -> PeerState] /\ sent \in [Handle -> 0 .. MaxMsg]
      /\ lsn \subseteq Fd
  BY DEF IInv, TypeOK
<1>1. CASE PeerConnect(h)
  <2>1. backlog' \in [Fd -> SUBSET Handle]
    BY <1>0, <1>1 DEF PeerConnect
  <2>2. peer' \in [Handle -> PeerState]
    BY <1>0, <1>1 DEF PeerConnect, PeerState
  <2> QED BY <1>0, <1>1, <2>1, <2>2, PeerFrame DEF PeerConnect
<1>2. CASE PeerHandshake(h)
  <2>1. {"p2p", "coll", "team"} \subseteq Item
    BY DEF Item
  <2>2. PICK x \in {"p2p", "coll", "team"}, p \in {"up", "flagged"} :
           /\ inbox' = [inbox EXCEPT ![h] = Append(inbox[h], x)]
           /\ peer' = [peer EXCEPT ![h] = p]
    BY <1>2 DEF PeerHandshake
  <2>3. Append(inbox[h], x) \in Seq(Item)
    BY <2>1, PeerItems
  <2>4. inbox' \in [Handle -> Seq(Item)]
    BY <2>2, <2>3, InboxType
  <2>5. peer' \in [Handle -> PeerState]
    BY <1>0, <2>2 DEF PeerState
  <2> QED BY <1>0, <1>2, <2>4, <2>5, PeerFrame DEF PeerHandshake
<1>3. CASE PeerSend(h)
  <2>1. inbox' = [inbox EXCEPT ![h] = inbox[h] \o <<"hdr", "pay">>]
    BY <1>3 DEF PeerSend
  <2>2. "hdr" \in Item /\ "pay" \in Item
    BY DEF Item
  <2>3. inbox[h] \o <<"hdr", "pay">> \in Seq(Item)
    BY <2>2, PeerItems
  <2>4. inbox' \in [Handle -> Seq(Item)]
    BY <2>1, <2>3, InboxType
  <2>5. sent' \in [Handle -> 0 .. MaxMsg]
    <3>1. sent[h] + 1 \in 0 .. MaxMsg
      BY <1>0, <1>3, BoundAssumption DEF PeerSend
    <3>2. sent' = [sent EXCEPT ![h] = sent[h] + 1]
      BY <1>3 DEF PeerSend
    <3> QED BY <1>0, <3>1, <3>2
  <2> QED BY <1>0, <1>3, <2>4, <2>5, PeerFrame DEF PeerSend
<1>4. CASE PeerClose(h)
  <2>1. inbox' = [inbox EXCEPT ![h] = inbox[h] \o <<"eos", "fin">>]
    BY <1>4 DEF PeerClose
  <2>2. "eos" \in Item /\ "fin" \in Item
    BY DEF Item
  <2>3. inbox[h] \o <<"eos", "fin">> \in Seq(Item)
    BY <2>2, PeerItems
  <2>4. inbox' \in [Handle -> Seq(Item)]
    BY <2>1, <2>3, InboxType
  <2>5. peer' \in [Handle -> PeerState]
    BY <1>0, <1>4 DEF PeerClose, PeerState
  <2> QED BY <1>0, <1>4, <2>4, <2>5, PeerFrame DEF PeerClose
<1>5. CASE PeerCrash(h)
  <2>1. "hdr" \in Item /\ "fin" \in Item /\ "rst" \in Item
    BY DEF Item
  <2>2. /\ inbox[h] \o <<"hdr", "fin">> \in Seq(Item)
        /\ Append(inbox[h], "fin") \in Seq(Item) /\ <<"rst">> \in Seq(Item)
    BY <2>1, PeerItems
  <2>3. PICK q \in {Append(inbox[h], "fin"), inbox[h] \o <<"hdr", "fin">>, <<"rst">>} :
           inbox' = [inbox EXCEPT ![h] = q]
    BY <1>5 DEF PeerCrash
  <2>4. inbox' \in [Handle -> Seq(Item)]
    BY <2>2, <2>3, InboxType
  <2>5. peer' \in [Handle -> PeerState]
    BY <1>0, <1>5 DEF PeerCrash, PeerState
  <2> QED BY <1>0, <1>5, <2>4, <2>5, PeerFrame DEF PeerCrash
<1> QED BY <1>1, <1>2, <1>3, <1>4, <1>5 DEF PeerNext

-----------------------------------------------------------------------------
(* The specification *)

\* A stuttering step keeps the invariant.
LEMMA Stutter == IInv /\ UNCHANGED vars => IInv'
  BY DEF IInv, TypeOK, IoInv, ThInv, Listening, vars

\* Every step keeps the invariant.
LEMMA NextInv == IInv /\ [Next]_vars => IInv'
<1> SUFFICES ASSUME IInv, [Next]_vars PROVE IInv'
  OBVIOUS
<1>1. CASE IoNext
  BY <1>1, IoTopInv, IoSelectInv, IoLoopEndInv, IoLoopReadyInv, IoAcceptInv,
     IoNewConnectionInv, IoHandshakeInv, IoReadyInv DEF IoNext
<1>2. ASSUME NEW t \in Thread, Start(t)
      PROVE  IInv'
  <2>1. ASSUME NEW u \in User,
               \/ GetNext(t, u) \/ Probe(t, u) \/ ProbeFail(t, u)
               \/ Receive(t, u) \/ Yield(t, u) \/ Close(t, u) \/ Drop(t, u)
        PROVE  IInv'
    BY <2>1, GetNextInv, ProbeInv, ProbeFailInv, ReceiveInv, YieldInv, CloseInv, DropInv
  <2>2. ASSUME NEW u \in User, NEW h \in Handle, Connect(t, u, h)
        PROVE  IInv'
    BY <2>2, ConnectInv
  <2>3. CASE Listen(t)
    BY <2>3, ListenInv
  <2>4. ASSUME NEW b \in BlockFlags, Finalize(t, b)
        PROVE  IInv'
    BY <2>4, FinalizeInv
  <2> QED BY <1>2, <2>1, <2>2, <2>3, <2>4 DEF Start
<1>3. ASSUME NEW t \in Thread, Continue(t)
      PROVE  IInv'
  <2>1. CASE DrainSpin(t)
    BY <2>1, Stutter DEF DrainSpin
  <2>2. CASE ~DrainSpin(t)
    BY <1>3, <2>2, ConnectInsertInv, NotifyCloseInv, NotifyEraseInv, NotifyFdCloseInv,
       NotifyYieldInv, DropReleaseInv, ListenZeroInv, ListenSetInv, ListenMaxInv,
       FinalizeJoinInv, SetAsClosedInv, DrainInv, FinalizeEndInv DEF Continue
  <2> QED BY <2>1, <2>2
<1>4. ASSUME NEW h \in Handle, PeerNext(h)
      PROVE  IInv'
  BY <1>4, PeerNextInv
<1>5. CASE Terminated
  BY <1>5, Stutter DEF Terminated
<1>6. CASE UNCHANGED vars
  BY <1>6, Stutter
<1> QED BY <1>1, <1>2, <1>3, <1>4, <1>5, <1>6 DEF Next

\* Whatever the application threads, the I/O thread and the peers do, and for
\* any number of them, the state of ConnTcp, Manager and the handles stays in
\* its types: in particular fdmax, which is recomputed when the greatest watched
\* descriptor leaves the set, and the descriptor that listen hands to FD_SET,
\* are never out of the range of the tables they index (tcp.hpp 247-250, 311-319).
THEOREM TypeCorrect == Spec => []TypeOK
<1>1. IInv => TypeOK
  BY DEF IInv
<1> QED BY <1>1, InitInv, NextInv, PTL DEF Spec

-----------------------------------------------------------------------------
(***************************************************************************)
(* Safety when a Handle is used by one thread at a time, with peers that   *)
(* die and both kinds of finalize.                                         *)
(***************************************************************************)

Closing == {"notify", "erase", "fdclose"}     \* inside Handle::close
Calling == Closing \cup {"yield", "dec"}      \* a call on a HandleUser
Busy    == Calling \cup {"conn"}
Ending  == {"join", "end", "drain"}           \* inside finalize

\* A thread is at one of these program counters, in a call on h.
AtWork(h, pcs) == \E t \in Thread : th[t].pc \in pcs /\ th[t].h = h

\* A socket is open and not a listening one.
SockInv ==
  /\ lsn \subseteq open
  /\ \A f \in Fd : sock[f] # NoHandle => f \in open /\ f \notin lsn

\* A connection that nobody has asked for, or that is in the backlog of one
\* socket, has no Handle, and no thread knows of it.
BirthOk(h) ==
  /\ hd[h].st = "none" => hd[h] = Unborn
  /\ peer[h] = "none" => \A f \in Fd : h \notin backlog[f]
  /\ \A f, g \in Fd : h \in backlog[f] /\ h \in backlog[g] => f = g
  /\ (peer[h] = "none" \/ \E f \in Fd : h \in backlog[f]) =>
       /\ hd[h].st = "none" /\ io.h # h
       /\ \A t \in Thread : th[t].h # h

\* A Handle has its descriptor until both directions are closed, and is in
\* the table while it is open for reading.
FdOk(h) == hd[h].st # "none" =>
  /\ hd[h].fd = -1 => hd[h].rd /\ hd[h].wr
  /\ hd[h].fd # -1 => sock[hd[h].fd] = h
  /\ ~hd[h].rd => connections[hd[h].fd] = h
  /\ hd[h].st = "deleted" => hd[h].fd = -1 /\ hd[h].cnt = 0
  /\ hd[h].rd /\ hd[h].wr /\ hd[h].fd # -1 => AtWork(h, Closing)

\* The table has living handles, those that a close is about to remove too.
TableOk(h) == \A f \in Fd : connections[f] = h =>
  /\ hd[h].st = "alive" /\ hd[h].fd = f
  /\ hd[h].rd => AtWork(h, {"notify", "erase"})

\* What was written to end a stream is what the flags say.
OutOk(h) ==
  /\ ~hd[h].wr => out[h] = <<>>
  /\ hd[h].wr => \/ out[h] = <<"eos", "fin">>
                 \/ out[h] = <<"eos">> /\ hd[h].fd # -1 /\ AtWork(h, {"notify"})

HandleOk(h) == BirthOk(h) /\ FdOk(h) /\ TableOk(h) /\ OutOk(h)
HandleInv == \A h \in Handle : HandleOk(h)

\* A connection is with the I/O thread until its handshake is over.
IoOk ==
  /\ io.pc \notin {"lock", "handshake"} => io.h = NoHandle
  /\ io.pc = "lock" => /\ hd[io.h].st = "none" /\ sock[io.f] = io.h
                       /\ \A t \in Thread : th[t].h # io.h
  /\ io.pc = "handshake" => hd[io.h].st = "alive" /\ hd[io.h].cnt = 0

\* What a thread knows in the middle of a call.
CallOk(t) ==
  /\ th[t].pc \notin Busy => th[t].u = NoUser
  /\ th[t].pc \notin Busy \cup {"drain"} => th[t].h = NoHandle
  /\ th[t].pc \in Calling => user[th[t].u].h = th[t].h /\ hd[th[t].h].st = "alive"
  /\ th[t].pc \in Closing => /\ th[t].rd = hd[th[t].h].rd /\ th[t].wr = hd[th[t].h].wr
                             /\ ~end
  /\ th[t].pc = "erase" => th[t].rd /\ th[t].f = hd[th[t].h].fd
  /\ th[t].pc = "fdclose" => /\ th[t].rd /\ th[t].wr /\ th[t].f = hd[th[t].h].fd
                             /\ \A f \in Fd : connections[f] # th[t].h
  /\ th[t].pc = "conn" => /\ hd[th[t].h].st = "none" /\ sock[th[t].f] = th[t].h
                          /\ user[th[t].u].h = NoHandle /\ ~end

\* Finalize works after the I/O thread has stopped.
EndOk(t) ==
  /\ th[t].pc \in Ending => end
  /\ th[t].pc \in {"end", "drain"} => io.pc = "exit"
  /\ th[t].pc = "drain" => /\ th[t].h \in Handle /\ hd[th[t].h].st = "alive"
                           /\ ~hd[th[t].h].rd /\ hd[th[t].h].wr
                           /\ hd[th[t].h].fd \notin todo

ThreadInv == \A t \in Thread : CallOk(t) /\ EndOk(t)

\* One thread works on a HandleUser, and on a Handle.
OneInv == \A t, s \in Thread :
  /\ th[t].u # NoUser /\ th[t].u = th[s].u => t = s
  /\ th[t].pc \in Busy /\ th[s].pc \in Busy /\ th[t].h = th[s].h => t = s

\* One thread finalizes, and the table loses only what it has closed.
EndInv ==
  /\ io.pc = "exit" => end
  /\ \A t, s \in Thread : th[t].pc \in Ending /\ th[s].pc \in Ending => t = s
  /\ \A f \in todo : connections[f] # NoHandle
  /\ todo # {} => end /\ io.pc = "exit"

\* The reference counter counts the HandleUser objects.
Holders(h) == {u \in User : user[u].h = h}
CountInv == \A h \in Handle : hd[h].cnt = Cardinality(Holders(h)) + Cardinality(Queued(h))

SInv == /\ ~Shared /\ IInv /\ SockInv /\ HandleInv /\ IoOk /\ ThreadInv /\ OneInv
        /\ EndInv /\ CountInv

-----------------------------------------------------------------------------
(* Facts the steps share *)

\* The types of the state that the invariant is about.
LEMMA Types ==
  ASSUME IInv
  PROVE  /\ th \in [Thread -> ThRec] /\ hd \in [Handle -> HandleRec]
         /\ user \in [User -> UserRec] /\ io \in IoRec
         /\ sock \in [Fd -> Handle \cup {NoHandle}]
         /\ connections \in [Fd -> Handle \cup {NoHandle}]
         /\ backlog \in [Fd -> SUBSET Handle]
         /\ open \subseteq Fd /\ lsn \subseteq Fd /\ todo \subseteq Fd
         /\ out \in [Handle -> Seq({"eos", "fin"})]
         /\ peer \in [Handle -> PeerState] /\ end \in BOOLEAN
         /\ handleReady \in Seq([h : Handle, new : BOOLEAN])
  BY DEF IInv, TypeOK

\* What holds of a thread in the middle of a call.
LEMMA InCall ==
  ASSUME SInv, NEW t \in Thread, th[t].pc \in Calling
  PROVE  /\ th[t] \in ThRec /\ th[t].h \in Handle /\ th[t].u \in User
         /\ hd[th[t].h] \in HandleRec /\ hd[th[t].h].st = "alive"
         /\ user[th[t].u].h = th[t].h
         /\ th[t].pc # "notify" /\ th[t].pc # "dec" => th[t].f \in Fd
<1>1. th[t] \in ThRec /\ ThFits(th[t])
  BY ThLocals DEF SInv
<1>2. th[t].h \in Handle /\ th[t].u \in User
  BY <1>1 DEF ThFits, Calling, Closing
<1>3. th[t].pc # "notify" /\ th[t].pc # "dec" => th[t].f \in Fd
  BY <1>1 DEF ThFits, Calling, Closing
<1>4. hd[th[t].h] \in HandleRec
  BY <1>2, Types DEF SInv
<1>5. hd[th[t].h].st = "alive" /\ user[th[t].u].h = th[t].h
  BY DEF SInv, ThreadInv, CallOk
<1> QED BY <1>1, <1>2, <1>3, <1>4, <1>5

\* The set of HandleUsers and the set of queue positions of a Handle are finite.
LEMMA FiniteCount ==
  ASSUME IInv, NEW h
  PROVE  /\ IsFiniteSet(Holders(h)) /\ IsFiniteSet(Queued(h))
         /\ Cardinality(Holders(h)) \in Nat /\ Cardinality(Queued(h)) \in Nat
<1>1. IsFiniteSet(Holders(h))
  BY UserAssumption, FS_Subset DEF Holders
<1>2. IsFiniteSet(Queued(h))
  <2>1. DOMAIN handleReady = 1 .. Len(handleReady) /\ Len(handleReady) \in Nat
    BY Types
  <2>2. IsFiniteSet(1 .. Len(handleReady))
    BY <2>1, FS_Interval
  <2>3. Queued(h) \subseteq 1 .. Len(handleReady)
    BY <2>1 DEF Queued
  <2> QED BY <2>2, <2>3, FS_Subset
<1> QED BY <1>1, <1>2, FS_CardinalityType

\* A Handle that a HandleUser refers to has a positive counter,
LEMMA HeldCount ==
  ASSUME SInv, NEW u \in User, user[u].h \in Handle
  PROVE  hd[user[u].h].cnt > 0
<1> DEFINE h == user[u].h
<1>1. u \in Holders(h)
  BY DEF Holders
<1>2. Cardinality(Holders(h)) # 0
  BY <1>1, FiniteCount, FS_EmptySet DEF SInv
<1>3. hd[h].cnt = Cardinality(Holders(h)) + Cardinality(Queued(h))
  BY DEF SInv, CountInv
<1>4. Cardinality(Holders(h)) \in Nat /\ Cardinality(Queued(h)) \in Nat
  BY FiniteCount DEF SInv
<1> QED BY <1>2, <1>3, <1>4

\* An element of a sequence.
LEMMA SeqElement ==
  ASSUME NEW S, NEW s \in Seq(S), NEW i \in DOMAIN s
  PROVE  s[i] \in S
  OBVIOUS

\* and so has one in the ready queue.
LEMMA QueuedCount ==
  ASSUME SInv, NEW i \in DOMAIN handleReady
  PROVE  handleReady[i].h \in Handle /\ hd[handleReady[i].h].cnt > 0
<1> DEFINE h == handleReady[i].h
<1>0. h \in Handle
  <2>1. handleReady \in Seq([h : Handle, new : BOOLEAN])
    BY Types DEF SInv
  <2>3. handleReady[i] \in [h : Handle, new : BOOLEAN]
    BY <2>1, SeqElement
  <2> QED BY <2>3
<1>1. i \in Queued(h)
  BY DEF Queued
<1>2. Cardinality(Queued(h)) # 0
  BY <1>1, FiniteCount, FS_EmptySet DEF SInv
<1>3. hd[h].cnt = Cardinality(Holders(h)) + Cardinality(Queued(h))
  BY <1>0 DEF SInv, CountInv
<1>4. Cardinality(Holders(h)) \in Nat /\ Cardinality(Queued(h)) \in Nat
  BY FiniteCount DEF SInv
<1> QED BY <1>0, <1>2, <1>3, <1>4

\* A step that leaves the counters, the queue and the Handles of the HandleUsers
\* alone leaves their equation alone.
LEMMA CountKept ==
  ASSUME CountInv, UNCHANGED handleReady,
         \A h \in Handle : hd'[h].cnt = hd[h].cnt,
         \A u \in User : user'[u].h = user[u].h
  PROVE  CountInv'
<1>1. ASSUME NEW h \in Handle
      PROVE  hd'[h].cnt = Cardinality(Holders(h)') + Cardinality(Queued(h)')
  <2>1. Holders(h)' = Holders(h)
    BY DEF Holders
  <2>2. Queued(h)' = Queued(h)
    BY DEF Queued
  <2> QED BY <2>1, <2>2 DEF CountInv
<1> QED BY <1>1 DEF CountInv

-----------------------------------------------------------------------------
(* What a step on one Handle leaves alone *)

\* A step of the threads T (one, or none when the I/O thread or a peer moves)
\* that works on the Handle h, or on none.
OnlyAt(h, T) ==
  /\ \A s \in Thread \ T : th'[s] = th[s]
  /\ \A s \in T : th[s].h \in {h, NoHandle} /\ th'[s].h \in {h, NoHandle}
  /\ \A g \in Handle \ {h} : /\ hd'[g] = hd[g] /\ out'[g] = out[g]
                             /\ peer'[g] = "none" => peer[g] = "none"
                             /\ \A f \in Fd : g \in backlog'[f] => g \in backlog[f]
                             /\ \A f \in Fd : sock'[f] = g <=> sock[f] = g
                             /\ \A f \in Fd : connections'[f] = g <=> connections[f] = g
  /\ io'.h \in {h, NoHandle, io.h} /\ (io.pc = "exit" => io'.pc = "exit")
  /\ \A u \in User : \/ user'[u].h = user[u].h
                     \/ /\ {user[u].h, user'[u].h} \subseteq {h, NoHandle}
                        /\ \A s \in Thread \ T : th[s].u # u
  /\ end' = end /\ todo' \subseteq todo

\* The other handles are as before,
LEMMA OtherHandles ==
  ASSUME SInv, NEW h \in Handle \cup {NoHandle}, NEW T \in SUBSET Thread, OnlyAt(h, T),
         NEW g \in Handle, g # h
  PROVE  HandleOk(g)'
<1>1. HandleOk(g) /\ hd[g] \in HandleRec
  BY Types DEF SInv, HandleInv
<1>2. /\ hd'[g] = hd[g] /\ out'[g] = out[g] /\ (peer'[g] = "none" => peer[g] = "none")
      /\ \A f \in Fd : g \in backlog'[f] => g \in backlog[f]
      /\ \A f \in Fd : sock'[f] = g <=> sock[f] = g
      /\ \A f \in Fd : connections'[f] = g <=> connections[f] = g
      /\ io'.h = g => io.h = g
  BY HandleAssumption DEF OnlyAt
<1>3. \A s \in Thread : th'[s].h = g <=> th[s].h = g
  BY HandleAssumption DEF OnlyAt
<1>4. \A s \in Thread : th[s].h = g => th'[s] = th[s]
  BY HandleAssumption DEF OnlyAt
<1>5. \A pcs : AtWork(g, pcs) => AtWork(g, pcs)'
  BY <1>4 DEF AtWork
<1>6. hd[g].fd \in Fd \cup {-1}
  BY <1>1 DEF HandleRec
<1>7. BirthOk(g)'
  BY <1>1, <1>2, <1>3 DEF HandleOk, BirthOk
<1>8. FdOk(g)'
  BY <1>1, <1>2, <1>5, <1>6 DEF HandleOk, FdOk
<1>9. TableOk(g)'
  BY <1>1, <1>2, <1>5 DEF HandleOk, TableOk
<1>10. OutOk(g)'
  BY <1>1, <1>2, <1>5 DEF HandleOk, OutOk
<1> QED BY <1>7, <1>8, <1>9, <1>10 DEF HandleOk

\* the threads in a call on another Handle, or in none, are,
LEMMA OtherThreads ==
  ASSUME SInv, NEW h \in Handle \cup {NoHandle}, NEW T \in SUBSET Thread, OnlyAt(h, T),
         NEW s \in Thread \ T, th[s].h # h \/ h = NoHandle
  PROVE  CallOk(s)' /\ EndOk(s)'
<1> DEFINE g == th[s].h
<1>1. CallOk(s) /\ EndOk(s) /\ th'[s] = th[s] /\ end' = end /\ todo' \subseteq todo
  BY DEF SInv, ThreadInv, OnlyAt
<1>2. CASE th[s].pc \in Busy \cup {"drain"}
  <2>1. g \in Handle /\ (th[s].pc # "drain" => th[s].u \in User)
    BY <1>1, <1>2, ThLocals DEF SInv, ThFits, Busy, Calling, Closing, EndOk
  <2>2. g # h
    BY <2>1, HandleAssumption
  <2>3. /\ hd'[g] = hd[g]
        /\ \A f \in Fd : sock'[f] = g <=> sock[f] = g
        /\ \A f \in Fd : connections'[f] = g <=> connections[f] = g
        /\ io.pc = "exit" => io'.pc = "exit"
    BY <2>1, <2>2 DEF OnlyAt
  <2>4. th[s].pc = "conn" => th[s].f \in Fd
    BY ThLocals DEF SInv, ThFits
  <2>5. th[s].pc # "drain" => user'[th[s].u].h = user[th[s].u].h
    BY <2>1 DEF OnlyAt
  <2>6. CallOk(s)'
    BY <1>1, <1>2, <2>3, <2>4, <2>5 DEF CallOk, Busy, Calling, Closing
  <2>7. EndOk(s)'
    BY <1>1, <2>1, <2>3 DEF EndOk
  <2> QED BY <2>6, <2>7
<1>3. CASE th[s].pc \notin Busy \cup {"drain"}
  <2>1. io.pc = "exit" => io'.pc = "exit"
    BY DEF OnlyAt
  <2>2. CallOk(s)'
    BY <1>1, <1>3 DEF CallOk, Busy, Calling, Closing
  <2>3. EndOk(s)'
    BY <1>1, <1>3, <2>1 DEF EndOk
  <2> QED BY <2>2, <2>3
<1> QED BY <1>2, <1>3

\* and so is the I/O thread.
LEMMA OtherIo ==
  ASSUME SInv, NEW h \in Handle \cup {NoHandle}, NEW T \in SUBSET Thread, OnlyAt(h, T),
         UNCHANGED io, io.h # h \/ h = NoHandle
  PROVE  IoOk'
<1>1. CASE io.pc \in {"lock", "handshake"}
  <2>1. io.h \in Handle /\ io.f \in Fd /\ io.h # h
    BY <1>1, HandleAssumption DEF SInv, IInv, IoInv
  <2>2. /\ hd'[io.h] = hd[io.h]
        /\ \A f \in Fd : sock'[f] = io.h <=> sock[f] = io.h
        /\ \A s \in Thread : th'[s].h = io.h => th[s].h = io.h
    BY <2>1, HandleAssumption DEF OnlyAt
  <2> QED BY <1>1, <2>1, <2>2 DEF SInv, IoOk
<1>2. CASE io.pc \notin {"lock", "handshake"}
  BY <1>2 DEF SInv, IoOk
<1> QED BY <1>1, <1>2

\* So what is left to see is the Handle and the threads the step works on.
LEMMA StepSafe ==
  ASSUME SInv, NEW h \in Handle \cup {NoHandle}, NEW T \in SUBSET Thread, OnlyAt(h, T),
         IInv', SockInv', IoOk', OneInv', EndInv', CountInv',
         h # NoHandle => HandleOk(h)',
         \A s \in T : CallOk(s)' /\ EndOk(s)',
         \A s \in Thread \ T : h # NoHandle /\ th[s].h = h => CallOk(s)' /\ EndOk(s)'
  PROVE  SInv'
<1>1. ASSUME NEW g \in Handle
      PROVE  HandleOk(g)'
  BY <1>1, OtherHandles, HandleAssumption
<1>2. ASSUME NEW s \in Thread
      PROVE  CallOk(s)' /\ EndOk(s)'
  <2>1. CASE s \in T
    BY <2>1
  <2>2. CASE s \in Thread \ T /\ h # NoHandle /\ th[s].h = h
    BY <2>2
  <2>3. CASE s \in Thread \ T /\ (th[s].h # h \/ h = NoHandle)
    BY <2>3, OtherThreads
  <2> QED BY <2>1, <2>2, <2>3
<1>3. HandleInv' /\ ThreadInv'
  BY <1>1, <1>2 DEF HandleInv, ThreadInv
<1> QED BY <1>3 DEF SInv

\* Often one thread moves, and nobody else works on the Handle.
LEMMA CallSafe ==
  ASSUME SInv, NEW h \in Handle, NEW t \in Thread, OnlyAt(h, {t}),
         \A s \in Thread : s # t => th[s].h # h,
         IInv', SockInv', IoOk', OneInv', EndInv', CountInv',
         HandleOk(h)', CallOk(t)', EndOk(t)'
  PROVE  SInv'
<1>1. {t} \in SUBSET Thread /\ h \in Handle \cup {NoHandle}
  OBVIOUS
<1>2. /\ \A s \in {t} : CallOk(s)' /\ EndOk(s)'
      /\ \A s \in Thread \ {t} : h # NoHandle /\ th[s].h = h => CallOk(s)' /\ EndOk(s)'
      /\ h # NoHandle => HandleOk(h)'
  OBVIOUS
<1> QED BY <1>1, <1>2, StepSafe, Zenon

\* A thread that moves keeps to HandleUsers and Handles of its own.
LEMMA OneKept ==
  ASSUME SInv, NEW t \in Thread, \A s \in Thread : s # t => th'[s] = th[s],
         th'[t].u = NoUser \/ \A s \in Thread : s # t => th[s].u # th'[t].u,
         th'[t].pc \in Busy => \A s \in Thread : s # t /\ th[s].pc \in Busy => th[s].h # th'[t].h
  PROVE  OneInv'
  BY DEF SInv, OneInv

\* In the middle of a call nobody else works on the HandleUser or the Handle,
\* except, after end, the thread in finalize.
LEMMA Alone ==
  ASSUME SInv, NEW t \in Thread, th[t].pc \in Busy
  PROVE  \A s \in Thread : s # t => /\ th[s].u # th[t].u
                                    /\ th[s].h = th[t].h => th[s].pc = "drain" /\ end
<1>1. th[t].h \in Handle /\ th[t].u \in User
  BY ThLocals DEF SInv, ThFits, Busy, Calling, Closing
<1>2. ASSUME NEW s \in Thread, s # t
      PROVE  th[s].u # th[t].u
  BY <1>1, <1>2, UserAssumption DEF SInv, OneInv
<1>3. ASSUME NEW s \in Thread, s # t, th[s].h = th[t].h
      PROVE  th[s].pc = "drain" /\ end
  <2>1. th[s].pc \notin Busy
    BY <1>3 DEF SInv, OneInv
  <2>2. CallOk(s) /\ EndOk(s)
    BY DEF SInv, ThreadInv
  <2>3. th[s].pc = "drain"
    BY <1>1, <1>3, <2>1, <2>2, HandleAssumption DEF CallOk
  <2> QED BY <2>2, <2>3 DEF EndOk, Ending
<1> QED BY <1>2, <1>3

\* A Handle that a HandleUser refers to is not the one the I/O thread accepts.
LEMMA IoNotHeld ==
  ASSUME SInv, NEW u \in User, user[u].h \in Handle, hd[user[u].h].st = "alive"
  PROVE  io.h # user[u].h
<1>1. hd[user[u].h].cnt > 0 /\ hd[user[u].h].cnt \in Int
  BY HeldCount, Types DEF SInv, HandleRec
<1> QED BY <1>1, HandleAssumption DEF SInv, IoOk

\* A thread that has returned to the application is in no call.
LEMMA IdleOk ==
  ASSUME NEW t \in Thread, th'[t] = Idle
  PROVE  CallOk(t)' /\ EndOk(t)' /\ th'[t].h = NoHandle /\ th'[t].u = NoUser
         /\ th'[t].pc \notin Busy \cup Ending
  BY DEF CallOk, EndOk, Idle, Busy, Calling, Closing, Ending

\* The entry of a Handle's descriptor in the table is its own, or empty.
LEMMA OwnEntry ==
  ASSUME SInv, NEW h \in Handle, NEW f \in Fd, hd[h].st # "none", hd[h].fd = f
  PROVE  sock[f] = h /\ connections[f] \in {h, NoHandle}
<1>1. sock[f] = h
  BY BoundAssumption DEF SInv, HandleInv, HandleOk, FdOk, Fd
<1>2. ASSUME connections[f] # NoHandle
      PROVE  connections[f] = h
  <2>1. PICK g \in Handle : g = connections[f]
    BY <1>2, Types DEF SInv
  <2>2. TableOk(g) /\ FdOk(g)
    BY DEF SInv, HandleInv, HandleOk
  <2>3. sock[f] = g
    BY <2>1, <2>2, BoundAssumption DEF TableOk, FdOk, Fd
  <2> QED BY <1>1, <2>1, <2>3
<1> QED BY <1>1, <1>2

\* The end of the system is not touched by a step of a call.
LEMMA EndKept ==
  ASSUME SInv, NEW t \in Thread, \A s \in Thread : s # t => th'[s] = th[s],
         th'[t].pc \notin Ending, UNCHANGED <<end, todo, io>>,
         todo # {} => UNCHANGED connections
  PROVE  EndInv'
  BY DEF SInv, EndInv

-----------------------------------------------------------------------------
(* Handle::close *)

\* The Handle of a close is referenced by the HandleUser that closes it, so it
\* is not deleted there.
LEMMA NoReap ==
  ASSUME SInv, NEW t \in Thread, th[t].pc \in Calling, NEW r,
         r.cnt = hd[th[t].h].cnt
  PROVE  Reap(r) = r
<1>1. hd[th[t].h].cnt > 0
  BY InCall, HeldCount
<1>2. hd[th[t].h].cnt \in Int
  BY InCall DEF HandleRec
<1> QED BY <1>1, <1>2 DEF Reap

\* A HandleUser that the application may use refers to a living Handle, which no
\* thread is working on.
LEMMA InUse ==
  ASSUME SInv, NEW t \in Thread, NEW u \in User, CanUse(t, u)
  PROVE  /\ user[u].h \in Handle /\ hd[user[u].h] \in HandleRec
         /\ hd[user[u].h].st = "alive" /\ hd[user[u].h].cnt > 0
         /\ io.h # user[u].h
         /\ \A s \in Thread : th[s].h # user[u].h /\ th[s].u # u
         /\ th[t].pc = "idle" /\ th[t].h = NoHandle /\ HandleOk(user[u].h)
<1>1. user[u].h \in Handle /\ hd[user[u].h] \in HandleRec
  BY CanUseHandle DEF SInv
<1>2. hd[user[u].h].cnt > 0
  BY <1>1, HeldCount
<1>3. HandleOk(user[u].h)
  BY <1>1 DEF SInv, HandleInv
<1>4. hd[user[u].h].st = "alive"
  BY <1>1, <1>2, <1>3 DEF HandleOk, BirthOk, FdOk, Unborn, HandleRec
<1>5. io.h # user[u].h
  BY <1>1, <1>4, IoNotHeld
<1>6. /\ \A s \in Thread : th[s].h # user[u].h /\ th[s].u # u
      /\ th[t].pc = "idle"
  BY DEF CanUse, SInv
<1>7. th[t].h = NoHandle
  BY <1>6 DEF SInv, ThreadInv, CallOk, Busy, Calling, Closing
<1> QED BY <1>1, <1>2, <1>3, <1>4, <1>5, <1>6, <1>7

\* What a Handle writes to its descriptor goes to its own connection.
LEMMA WriteOwn ==
  ASSUME SInv, NEW h \in Handle, hd[h].st # "none", hd[h].fd # -1, NEW o
  PROVE  /\ Write(o, hd[h].fd, "eos") = [o EXCEPT ![h] = Append(@, "eos")]
         /\ Write(o, hd[h].fd, "fin") =
              IF "fin" \in {o[h][i] : i \in DOMAIN o[h]}
              THEN o ELSE [o EXCEPT ![h] = Append(@, "fin")]
<1>1. sock[hd[h].fd] = h
  BY DEF SInv, HandleInv, HandleOk, FdOk
<1> QED BY <1>1, HandleAssumption DEF Write

\* EOS, then FIN.
LEMMA EosFin == Append(<<"eos">>, "fin") = <<"eos", "fin">>
<1> DEFINE s == Append(<<"eos">>, "fin")
           r == <<"eos", "fin">>
<1>1. <<"eos">> \in Seq({"eos", "fin"}) /\ Len(<<"eos">>) = 1 /\ <<"eos">>[1] = "eos"
  OBVIOUS
<1>2. s \in Seq({"eos", "fin"}) /\ Len(s) = 2 /\ s[1] = "eos" /\ s[2] = "fin"
  BY <1>1
<1>3. r \in Seq({"eos", "fin"}) /\ Len(r) = 2 /\ r[1] = "eos" /\ r[2] = "fin"
  OBVIOUS
<1> HIDE DEF s, r
<1>4. \A i \in 1 .. 2 : s[i] = r[i]
  BY <1>2, <1>3
<1>5. s = [i \in 1 .. 2 |-> s[i]] /\ r = [i \in 1 .. 2 |-> r[i]]
  BY <1>2, <1>3
<1>6. s = r
  BY <1>4, <1>5
<1> QED BY <1>6 DEF s, r

\* A call that leaves the table and the descriptors alone.
LEMMA OnlyCall ==
  ASSUME NEW h \in Handle, NEW t \in Thread, \A s \in Thread : s # t => th'[s] = th[s],
         th[t].h \in {h, NoHandle}, th'[t].h \in {h, NoHandle},
         \A g \in Handle : g # h => hd'[g] = hd[g] /\ out'[g] = out[g],
         \A v \in User : user'[v].h = user[v].h,
         UNCHANGED <<backlog, peer, sock, connections, io, end, todo>>
  PROVE  OnlyAt(h, {t})
  BY DEF OnlyAt

\* Handle::close up to notify_close.
LEMMA StartCloseSafe ==
  ASSUME SInv, NEW t \in Thread, NEW u \in User, NEW h \in Handle, h = user[u].h,
         CanUse(t, u), ~end, NEW cw \in BOOLEAN, NEW cr \in BOOLEAN,
         NEW k, StartClose(t, u, h, cw, cr, k),
         \A g \in Handle : g # h => hd'[g] = hd[g],
         hd'[h].st = hd[h].st, hd'[h].fd = hd[h].fd, hd'[h].cnt = hd[h].cnt,
         hd'[h].rd = (hd[h].rd \/ cr), hd'[h].wr = (hd[h].wr \/ cw),
         \A v \in User : user'[v].h = user[v].h,
         UNCHANGED <<backlog, peer, open, lsn, sock, connections, io, todo, handleReady, end>>,
         IInv'
  PROVE  SInv'
<1>1. /\ hd[h] \in HandleRec /\ hd[h].st = "alive" /\ io.h # h /\ HandleOk(h)
      /\ \A s \in Thread : th[s].h # h /\ th[s].u # u
      /\ th[t].pc = "idle" /\ th[t].h = NoHandle
  BY InUse
<1>2. /\ \A s \in Thread : s # t => th'[s] = th[s]
      /\ th'[t].pc = "notify" /\ th'[t].h = h /\ th'[t].u = u
      /\ th'[t].rd = (hd[h].rd \/ cr) /\ th'[t].wr = (hd[h].wr \/ cw)
  <2>1. th \in [Thread -> ThRec]
    BY Types DEF SInv
  <2> QED BY <2>1 DEF StartClose, Call, Idle
<1>3. hd[h].rd \in BOOLEAN /\ hd[h].wr \in BOOLEAN /\ hd[h].fd \in Fd \cup {-1}
  BY <1>1 DEF HandleRec
<1>4. /\ \A g \in Handle : g # h => out'[g] = out[g]
      /\ out'[h] = IF cw /\ ~hd[h].wr THEN <<"eos">> ELSE out[h]
  <2>1. CASE cw /\ ~hd[h].wr
    <3>1. out' = Write(out, hd[h].fd, "eos") /\ out[h] = <<>> /\ hd[h].fd # -1
      BY <1>1, <2>1 DEF StartClose, HandleOk, OutOk, FdOk
    <3>2. out' = [out EXCEPT ![h] = Append(@, "eos")]
      BY <1>1, <3>1, WriteOwn
    <3>3. out \in [Handle -> Seq({"eos", "fin"})]
      BY Types DEF SInv
    <3> QED BY <2>1, <3>1, <3>2, <3>3
  <2>2. CASE ~(cw /\ ~hd[h].wr)
    BY <2>2 DEF StartClose
  <2> QED BY <2>1, <2>2
<1>5. OnlyAt(h, {t})
  BY <1>1, <1>2, <1>4, OnlyCall
<1>6. AtWork(h, {"notify"})' /\ AtWork(h, {"notify", "erase"})' /\ AtWork(h, Closing)'
  BY <1>2 DEF AtWork, Closing
<1>7. HandleOk(h)'
  <2>1. BirthOk(h)'
    BY <1>1, <1>2 DEF HandleOk, BirthOk
  <2>2. FdOk(h)'
    BY <1>1, <1>3, <1>6 DEF HandleOk, FdOk
  <2>3. TableOk(h)'
    BY <1>1, <1>6 DEF HandleOk, TableOk
  <2>4. OutOk(h)'
    BY <1>1, <1>3, <1>4, <1>6 DEF HandleOk, OutOk, FdOk
  <2> QED BY <2>1, <2>2, <2>3, <2>4 DEF HandleOk
<1>8. CallOk(t)' /\ EndOk(t)'
  BY <1>1, <1>2 DEF CallOk, EndOk, Busy, Calling, Closing, Ending
<1>9. SockInv' /\ IoOk'
  BY <1>1, <1>5, OtherIo DEF SInv, SockInv
<1>10. OneInv' /\ EndInv' /\ CountInv'
  <2>1. OneInv'
    BY <1>1, <1>2, OneKept
  <2>2. EndInv'
    BY <1>2, EndKept DEF Ending
  <2>3. CountInv'
    BY CountKept DEF SInv
  <2> QED BY <2>1, <2>2, <2>3
<1> QED BY <1>1, <1>5, <1>7, <1>8, <1>9, <1>10, CallSafe

\* HandleUser::close,
LEMMA CloseSafe ==
  ASSUME SInv, NEW t \in Thread, NEW u \in User, Close(t, u)
  PROVE  SInv'
<1>0. CanUse(t, u) /\ ~end
  BY DEF Close
<1>1. PICK h \in Handle : h = user[u].h
  BY <1>0, InUse
<1>2. /\ \A g \in Handle : g # h => hd'[g] = hd[g]
      /\ hd'[h].st = hd[h].st /\ hd'[h].fd = hd[h].fd /\ hd'[h].cnt = hd[h].cnt
      /\ hd'[h].rd = (hd[h].rd \/ FALSE) /\ hd'[h].wr = (hd[h].wr \/ TRUE)
  <2>1. hd \in [Handle -> HandleRec]
    BY Types DEF SInv
  <2>2. hd' = [hd EXCEPT ![h].wr = TRUE]
    BY <1>1 DEF Close
  <2> QED BY <2>1, <2>2 DEF HandleRec
<1>3. /\ StartClose(t, u, h, TRUE, FALSE, "none")
      /\ UNCHANGED <<backlog, peer, open, lsn, sock, connections, io, todo, handleReady, end>>
      /\ \A v \in User : user'[v].h = user[v].h
  BY <1>1 DEF Close, netVars, osVars, selVars, mgrVars
<1>4. IInv'
  BY CloseInv DEF SInv
<1> QED BY <1>0, <1>1, <1>2, <1>3, <1>4, StartCloseSafe

\* A step that changes nothing of the handles but their probed headers.
LEMMA QuietSafe ==
  ASSUME SInv,
         \A g \in Handle : /\ hd'[g].st = hd[g].st /\ hd'[g].fd = hd[g].fd
                           /\ hd'[g].cnt = hd[g].cnt
                           /\ hd'[g].rd = hd[g].rd /\ hd'[g].wr = hd[g].wr
                           /\ hd[g].st = "none" => hd'[g] = hd[g],
         \A v \in User : user'[v].h = user[v].h,
         UNCHANGED <<backlog, peer, open, lsn, sock, connections, io, todo, handleReady,
                     end, out, th>>,
         IInv'
  PROVE  SInv'
<1>1. ASSUME NEW h \in Handle
      PROVE  HandleOk(h)'
  <2>1. HandleOk(h)
    BY DEF SInv, HandleInv
  <2>2. \A pcs : AtWork(h, pcs)' = AtWork(h, pcs)
    BY DEF AtWork
  <2>3. BirthOk(h)' /\ FdOk(h)' /\ TableOk(h)' /\ OutOk(h)'
    BY <2>1, <2>2 DEF HandleOk, BirthOk, FdOk, TableOk, OutOk
  <2> QED BY <2>3 DEF HandleOk
<1>2. ASSUME NEW s \in Thread
      PROVE  CallOk(s)' /\ EndOk(s)'
  <2>1. CallOk(s) /\ EndOk(s) /\ ThFits(th[s])
    BY ThLocals DEF SInv, ThreadInv
  <2>2. CallOk(s)'
    BY <2>1 DEF CallOk, ThFits, Busy, Calling, Closing
  <2>3. EndOk(s)'
    BY <2>1 DEF EndOk
  <2> QED BY <2>2, <2>3
<1>3. HandleInv' /\ ThreadInv'
  BY <1>1, <1>2 DEF HandleInv, ThreadInv
<1>4. IoOk'
  <2>1. io.pc \in {"lock", "handshake"} => io.h \in Handle
    BY DEF SInv, IInv, IoInv
  <2> QED BY <2>1 DEF SInv, IoOk
<1>5. SockInv' /\ OneInv' /\ EndInv'
  BY DEF SInv, SockInv, OneInv, EndInv
<1>6. CountInv'
  BY CountKept DEF SInv
<1> QED BY <1>3, <1>4, <1>5, <1>6 DEF SInv

\* What a probe or a receive reads is the connection of its own Handle.
LEMMA ReadsOwn ==
  ASSUME SInv, NEW t \in Thread, NEW u \in User, NEW c \in Handle, Reads(t, u, c)
  PROVE  CanUse(t, u) /\ ~end /\ user[u].h = c
<1>1. CanUse(t, u) /\ ~end
  BY DEF Reads
<1>2. user[u].h \in Handle /\ hd[user[u].h].st = "alive"
  BY <1>1, InUse
<1> QED BY <1>1, <1>2 DEF Reads, SInv, HandleInv, HandleOk, FdOk

\* HandleUser::probe,
LEMMA ProbeSafe ==
  ASSUME SInv, NEW t \in Thread, NEW u \in User, Probe(t, u)
  PROVE  SInv'
<1>0. PICK h \in Handle :
        /\ Reads(t, u, h)
        /\ \/ hd' = [hd EXCEPT ![user[u].h].probed = "msg"] /\ UNCHANGED <<th, out>>
           \/ /\ hd' = [hd EXCEPT ![user[u].h].probed = "eos", ![user[u].h].rd = TRUE]
              /\ StartClose(t, u, user[u].h, FALSE, TRUE, "unread")
        /\ UNCHANGED <<backlog, peer, osVars, selVars, mgrVars, io, user, todo>>
  BY DEF Probe
<1>1. CanUse(t, u) /\ ~end /\ user[u].h = h
  BY <1>0, ReadsOwn
<1>2. hd \in [Handle -> HandleRec]
  BY Types DEF SInv
<1>3. /\ UNCHANGED <<backlog, peer, open, lsn, sock, connections, io, todo, handleReady, end>>
      /\ \A v \in User : user'[v].h = user[v].h
  BY <1>0 DEF osVars, selVars, mgrVars
<1>4. IInv'
  BY ProbeInv DEF SInv
<1>5. CASE hd' = [hd EXCEPT ![h].probed = "msg"] /\ UNCHANGED <<th, out>>
  <2>1. /\ \A g \in Handle : g # h => hd'[g] = hd[g]
        /\ hd'[h].st = hd[h].st /\ hd'[h].fd = hd[h].fd /\ hd'[h].cnt = hd[h].cnt
        /\ hd'[h].rd = hd[h].rd /\ hd'[h].wr = hd[h].wr
    BY <1>2, <1>5 DEF HandleRec
  <2>2. hd[h].st = "alive"
    BY <1>1, InUse
  <2> QED BY <1>3, <1>4, <1>5, <2>1, <2>2, QuietSafe
<1>6. CASE /\ hd' = [hd EXCEPT ![h].probed = "eos", ![h].rd = TRUE]
           /\ StartClose(t, u, h, FALSE, TRUE, "unread")
  <2>1. /\ \A g \in Handle : g # h => hd'[g] = hd[g]
        /\ hd'[h].st = hd[h].st /\ hd'[h].fd = hd[h].fd /\ hd'[h].cnt = hd[h].cnt
        /\ hd'[h].rd = (hd[h].rd \/ TRUE) /\ hd'[h].wr = (hd[h].wr \/ FALSE)
    BY <1>2, <1>6 DEF HandleRec
  <2> QED BY <1>1, <1>3, <1>4, <1>6, <2>1, StartCloseSafe
<1> QED BY <1>0, <1>1, <1>5, <1>6

\* its failure,
LEMMA ProbeFailSafe ==
  ASSUME SInv, NEW t \in Thread, NEW u \in User, ProbeFail(t, u)
  PROVE  SInv'
<1>0. PICK h \in Handle :
        /\ Reads(t, u, h)
        /\ hd' = [hd EXCEPT ![user[u].h].rd = TRUE, ![user[u].h].wr = TRUE]
        /\ user' = [user EXCEPT ![u].readable = @ /\ Head(inbox[h]) = "rst"]
        /\ StartClose(t, u, user[u].h, TRUE, TRUE, "none")
        /\ UNCHANGED <<netVars, osVars, selVars, mgrVars, io, todo>>
  BY DEF ProbeFail
<1>1. CanUse(t, u) /\ ~end /\ user[u].h = h
  BY <1>0, ReadsOwn
<1>2. /\ \A g \in Handle : g # h => hd'[g] = hd[g]
      /\ hd'[h].st = hd[h].st /\ hd'[h].fd = hd[h].fd /\ hd'[h].cnt = hd[h].cnt
      /\ hd'[h].rd = (hd[h].rd \/ TRUE) /\ hd'[h].wr = (hd[h].wr \/ TRUE)
  <2>1. hd \in [Handle -> HandleRec]
    BY Types DEF SInv
  <2> QED BY <1>0, <1>1, <2>1 DEF HandleRec
<1>3. /\ StartClose(t, u, h, TRUE, TRUE, "none")
      /\ UNCHANGED <<backlog, peer, open, lsn, sock, connections, io, todo, handleReady, end>>
  BY <1>0, <1>1 DEF netVars, osVars, selVars, mgrVars
<1>4. \A v \in User : user'[v].h = user[v].h
  <2>1. user \in [User -> UserRec]
    BY Types DEF SInv
  <2> QED BY <1>0, <2>1 DEF UserRec
<1>5. IInv'
  BY ProbeFailInv DEF SInv
<1> QED BY <1>1, <1>2, <1>3, <1>4, <1>5, StartCloseSafe

\* and HandleUser::receive.
LEMMA ReceiveSafe ==
  ASSUME SInv, NEW t \in Thread, NEW u \in User, Receive(t, u)
  PROVE  SInv'
<1>0. PICK h \in Handle :
        /\ Reads(t, u, h)
        /\ hd' = [hd EXCEPT ![user[u].h].probed = "no"]
        /\ UNCHANGED <<backlog, peer, osVars, selVars, mgrVars, out, io, user, th, todo>>
  BY DEF Receive
<1>1. CanUse(t, u) /\ ~end /\ user[u].h = h
  BY <1>0, ReadsOwn
<1>2. /\ \A g \in Handle : g # h => hd'[g] = hd[g]
      /\ hd'[h].st = hd[h].st /\ hd'[h].fd = hd[h].fd /\ hd'[h].cnt = hd[h].cnt
      /\ hd'[h].rd = hd[h].rd /\ hd'[h].wr = hd[h].wr
  <2>1. hd \in [Handle -> HandleRec]
    BY Types DEF SInv
  <2> QED BY <1>0, <1>1, <2>1 DEF HandleRec
<1>3. /\ UNCHANGED <<backlog, peer, open, lsn, sock, connections, io, todo, handleReady, end,
                     out, th>>
      /\ \A v \in User : user'[v].h = user[v].h
  BY <1>0 DEF osVars, selVars, mgrVars
<1>4. hd[h].st = "alive"
  BY <1>1, InUse
<1>5. IInv'
  BY ReceiveInv DEF SInv
<1> QED BY <1>2, <1>3, <1>4, <1>5, QuietSafe

\* The parts of the invariant that a step in the middle of Handle::close keeps
\* because it is the only call on its HandleUser and on its Handle.
LEMMA CloseRest ==
  ASSUME SInv, NEW t \in Thread, NEW h \in Handle, NEW u \in User,
         th[t].pc \in Closing, th[t].h = h, th[t].u = u,
         OnlyAt(h, {t}), \A s \in Thread : s # t => th'[s] = th[s],
         th'[t].u \in {u, NoUser}, (th'[t].pc \in Closing /\ th'[t].h = h) \/ th'[t] = Idle,
         \A g \in Handle : hd'[g].cnt = hd[g].cnt,
         \A v \in User : user'[v].h = user[v].h,
         UNCHANGED <<io, todo, handleReady, end>>
  PROVE  /\ \A s \in Thread : s # t => th[s].h # h
         /\ IoOk' /\ OneInv' /\ EndInv' /\ CountInv'
<1>0. th[t].pc \in Calling /\ th[t].pc \in Busy /\ ~end
  BY DEF Calling, Busy, SInv, ThreadInv, CallOk
<1>1. user[u].h = h /\ hd[h].st = "alive"
  BY <1>0, InCall
<1>2. \A s \in Thread : s # t => th[s].h # h /\ th[s].u # u
  BY <1>0, Alone
<1>3. IoOk'
  BY <1>1, IoNotHeld, OtherIo
<1>4. (th'[t].h = h \/ th'[t].pc \notin Busy) /\ th'[t].pc \notin Ending
  BY DEF Idle, Busy, Calling, Closing, Ending
<1>5. OneInv'
  BY <1>2, <1>4, OneKept
<1>6. EndInv'
  BY <1>0, <1>4, EndKept DEF SInv, EndInv
<1>7. CountInv'
  BY CountKept DEF SInv
<1> QED BY <1>2, <1>3, <1>5, <1>6, <1>7

\* notify_close up to its lock.
LEMMA NotifyCloseSafe ==
  ASSUME SInv, NEW t \in Thread, NotifyClose(t)
  PROVE  SInv'
<1>0. th[t].pc = "notify" /\ th[t].pc \in Closing /\ th[t].pc \in Calling
  BY DEF NotifyClose, Calling, Closing
<1>1. PICK h \in Handle, u \in User : h = th[t].h /\ u = th[t].u
  BY <1>0, InCall
<1>2. /\ th[t] \in ThRec /\ hd[h] \in HandleRec /\ hd[h].st = "alive" /\ user[u].h = h
      /\ th[t].rd = hd[h].rd /\ th[t].wr = hd[h].wr /\ ~end
  BY <1>0, <1>1, InCall DEF SInv, ThreadInv, CallOk, Closing
<1>3. HandleOk(h) /\ hd[h].fd \in Fd \cup {-1}
  BY <1>2 DEF SInv, HandleInv, HandleRec
<1>4. ~LoneWrite(t)
  <2>1. ~hd[h].rd => connections[hd[h].fd] = h
    BY <1>2, <1>3 DEF HandleOk, FdOk
  <2> QED BY <1>1, <1>2, <2>1, HandleAssumption DEF LoneWrite
<1>5. UNCHANGED hd
  <2>1. Reap(hd[h]) = hd[h]
    BY <1>0, <1>1, NoReap
  <2> QED BY <1>1, <1>4, <2>1, Types DEF NotifyClose, SInv
<1>6. /\ \A s \in Thread : s # t => th'[s] = th[s]
      /\ \/ hd[h].rd /\ hd[h].fd # -1 /\ th'[t] = [th[t] EXCEPT !.pc = "erase", !.f = hd[h].fd]
         \/ (~hd[h].rd \/ hd[h].fd = -1) /\ th'[t] = Idle
  <2>1. th \in [Thread -> ThRec]
    BY Types DEF SInv
  <2> QED BY <1>1, <1>2, <2>1 DEF NotifyClose, EndClose
<1>7. \A v \in User : user'[v].h = user[v].h
  <2>1. user \in [User -> UserRec]
    BY Types DEF SInv
  <2>2. user' = user \/ user' = [user EXCEPT ![u].readable = FALSE]
    BY <1>1 DEF NotifyClose, EndClose
  <2> QED BY <2>1, <2>2 DEF UserRec
<1>8. /\ UNCHANGED <<backlog, peer, open, lsn, sock, connections, io, todo, handleReady, end>>
      /\ IInv'
  BY <1>4, NotifyCloseInv DEF NotifyClose, SInv, netVars, osVars, selVars, mgrVars
<1>9. /\ \A g \in Handle : g # h => out'[g] = out[g]
      /\ out'[h] = IF hd[h].wr THEN <<"eos", "fin">> ELSE out[h]
  <2>1. out' = IF hd[h].wr THEN Write(out, hd[h].fd, "fin") ELSE out
    BY <1>1, <1>2 DEF NotifyClose
  <2>2. CASE hd[h].wr /\ hd[h].fd # -1 /\ out[h] = <<"eos">>
    <3>1. "fin" \notin {out[h][i] : i \in DOMAIN out[h]}
      BY <2>2
    <3>2. out' = [out EXCEPT ![h] = Append(@, "fin")]
      BY <1>2, <2>1, <2>2, <3>1, WriteOwn
    <3>3. out \in [Handle -> Seq({"eos", "fin"})]
      BY Types DEF SInv
    <3>4. out'[h] = Append(out[h], "fin") /\ \A g \in Handle : g # h => out'[g] = out[g]
      BY <3>2, <3>3
    <3>5. out'[h] = <<"eos", "fin">>
      BY <2>2, <3>4, EosFin
    <3> QED BY <2>2, <3>4, <3>5, Zenon
  <2>3. CASE hd[h].wr /\ hd[h].fd # -1 /\ out[h] = <<"eos", "fin">>
    <3>1. "fin" \in {out[h][i] : i \in DOMAIN out[h]}
      <4>1. 2 \in DOMAIN out[h] /\ out[h][2] = "fin"
        BY <2>3
      <4> QED BY <4>1
    <3>2. Write(out, hd[h].fd, "fin") = out
      BY <1>2, <2>3, <3>1, WriteOwn
    <3> QED BY <2>1, <2>3, <3>2, Zenon
  <2>4. CASE hd[h].wr /\ hd[h].fd = -1
    BY <1>3, <2>1, <2>4 DEF Write, HandleOk, OutOk
  <2>5. CASE ~hd[h].wr
    BY <2>1, <2>5
  <2> QED BY <1>3, <2>2, <2>3, <2>4, <2>5 DEF HandleOk, OutOk
<1>10. \/ hd[h].rd /\ th'[t].pc = "erase" /\ th'[t].h = h /\ th'[t].u = u
          /\ th'[t].rd = th[t].rd /\ th'[t].wr = th[t].wr /\ th'[t].f = hd[h].fd
       \/ (~hd[h].rd \/ hd[h].fd = -1) /\ th'[t] = Idle
  BY <1>1, <1>2, <1>6 DEF ThRec
<1>11. OnlyAt(h, {t}) /\ th'[t].h \in {h, NoHandle} /\ th'[t].u \in {u, NoUser}
  <2>1. th'[t].h \in {h, NoHandle} /\ th'[t].u \in {u, NoUser}
    BY <1>10 DEF Idle
  <2> QED BY <1>1, <1>5, <1>6, <1>7, <1>8, <1>9, <2>1, OnlyCall
<1>12. HandleOk(h)'
  <2>1. BirthOk(h)'
    BY <1>1, <1>3, <1>5, <1>8 DEF HandleOk, BirthOk
  <2>2. hd[h].rd /\ hd[h].fd # -1 => AtWork(h, Closing)' /\ AtWork(h, {"notify", "erase"})'
    BY <1>10 DEF AtWork, Closing
  <2>3. FdOk(h)'
    BY <1>3, <1>5, <1>8, <2>2 DEF HandleOk, FdOk
  <2>4. TableOk(h)'
    BY <1>3, <1>5, <1>8, <2>2, BoundAssumption DEF HandleOk, TableOk, Fd
  <2>5. OutOk(h)'
    BY <1>3, <1>5, <1>9 DEF HandleOk, OutOk
  <2> QED BY <2>1, <2>3, <2>4, <2>5 DEF HandleOk
<1>13. CallOk(t)' /\ EndOk(t)'
  <2>1. CASE th'[t] = Idle
    BY <2>1, IdleOk
  <2>2. CASE th'[t].pc = "erase"
    BY <1>2, <1>5, <1>7, <1>8, <1>10, <2>2
       DEF CallOk, EndOk, Busy, Calling, Closing, Ending, Idle
  <2> QED BY <1>10, <2>1, <2>2
<1>14. SockInv'
  BY <1>8 DEF SInv, SockInv
<1>15. /\ \A s \in Thread : s # t => th[s].h # h
       /\ IoOk' /\ OneInv' /\ EndInv' /\ CountInv'
  <2>1. (th'[t].pc \in Closing /\ th'[t].h = h) \/ th'[t] = Idle
    BY <1>10 DEF Closing
  <2> QED BY <1>0, <1>1, <1>5, <1>6, <1>7, <1>8, <1>11, <2>1, CloseRest
<1> QED BY <1>8, <1>11, <1>12, <1>13, <1>14, <1>15, CallSafe

\* notify_close under its lock.
LEMMA NotifyEraseSafe ==
  ASSUME SInv, NEW t \in Thread, NotifyErase(t)
  PROVE  SInv'
<1>0. th[t].pc = "erase" /\ th[t].pc \in Calling
  BY DEF NotifyErase, Calling, Closing
<1>1. PICK h \in Handle, u \in User, f \in Fd : h = th[t].h /\ u = th[t].u /\ f = th[t].f
  BY <1>0, InCall
<1>2. /\ th[t] \in ThRec /\ hd[h] \in HandleRec /\ hd[h].st = "alive" /\ user[u].h = h
      /\ f = hd[h].fd /\ th[t].rd /\ hd[h].rd /\ th[t].wr = hd[h].wr /\ ~end
  BY <1>0, <1>1, InCall DEF SInv, ThreadInv, CallOk, Closing
<1>3. UNCHANGED hd
  <2>1. Reap(hd[h]) = hd[h]
    BY <1>0, <1>1, NoReap
  <2> QED BY <1>1, <2>1, Types DEF NotifyErase, SInv
<1>4. /\ \A s \in Thread : s # t => th'[s] = th[s]
      /\ \/ hd[h].wr /\ th'[t] = [th[t] EXCEPT !.pc = "fdclose"]
         \/ ~hd[h].wr /\ th'[t] = Idle
  <2>1. th \in [Thread -> ThRec]
    BY Types DEF SInv
  <2> QED BY <1>1, <1>2, <2>1 DEF NotifyErase, EndClose
<1>5. \A v \in User : user'[v].h = user[v].h
  <2>1. user \in [User -> UserRec]
    BY Types DEF SInv
  <2>2. user' = user \/ user' = [user EXCEPT ![u].readable = FALSE]
    BY <1>1 DEF NotifyErase, EndClose
  <2> QED BY <2>1, <2>2 DEF UserRec
<1>6. /\ connections'[f] = NoHandle
      /\ \A i \in Fd : i # f => connections'[i] = connections[i]
  <2>1. connections \in [Fd -> Handle \cup {NoHandle}]
    BY Types DEF SInv
  <2> QED BY <1>1, <2>1 DEF NotifyErase, Erase
<1>7. /\ UNCHANGED <<backlog, peer, open, lsn, sock, out, io, todo, handleReady, end>>
      /\ IInv'
  BY NotifyEraseInv DEF NotifyErase, SInv, netVars, osVars, mgrVars
<1>9. HandleOk(h) /\ sock[f] = h /\ connections[f] \in {h, NoHandle}
  BY <1>2, OwnEntry DEF SInv, HandleInv
<1>10. OnlyAt(h, {t})
  <2>1. th'[t].h \in {h, NoHandle}
    BY <1>1, <1>2, <1>4 DEF Idle, ThRec
  <2>2. /\ hd' = hd /\ out' = out /\ peer' = peer /\ backlog' = backlog /\ sock' = sock
        /\ io' = io /\ end' = end /\ todo' = todo
    BY <1>3, <1>7
  <2>3. \A g \in Handle \ {h}, i \in Fd : connections'[i] = g <=> connections[i] = g
    BY <1>6, <1>9, HandleAssumption
  <2> QED BY <1>1, <1>4, <1>5, <2>1, <2>2, <2>3 DEF OnlyAt
<1>11. HandleOk(h)'
  <2>1. \A i \in Fd : connections'[i] # h
    BY <1>2, <1>6, <1>9, HandleAssumption DEF HandleOk, TableOk
  <2>2. /\ \A s \in Thread : th'[s].h = h => th[s].h = h
        /\ \A s \in Thread : th[s].pc = "notify" => th'[s] = th[s]
    BY <1>0, <1>1, <1>4, HandleAssumption DEF Idle, ThRec
  <2>3. BirthOk(h)'
    BY <1>3, <1>7, <1>9, <2>2 DEF HandleOk, BirthOk
  <2>4. hd[h].wr => AtWork(h, Closing)'
    BY <1>1, <1>2, <1>4 DEF AtWork, Closing, ThRec
  <2>5. FdOk(h)'
    BY <1>2, <1>3, <1>7, <1>9, <2>4 DEF HandleOk, FdOk
  <2>6. TableOk(h)'
    BY <2>1 DEF TableOk
  <2>7. OutOk(h)'
    BY <1>3, <1>7, <1>9, <2>2 DEF HandleOk, OutOk, AtWork
  <2> QED BY <2>3, <2>5, <2>6, <2>7 DEF HandleOk
<1>12. CallOk(t)' /\ EndOk(t)'
  <2>1. CASE th'[t] = Idle
    BY <2>1, IdleOk
  <2>2. CASE hd[h].wr /\ th'[t] = [th[t] EXCEPT !.pc = "fdclose"]
    <3>1. /\ th'[t].pc = "fdclose" /\ th'[t].h = h /\ th'[t].u = u /\ th'[t].f = f
          /\ th'[t].rd = th[t].rd /\ th'[t].wr = th[t].wr
      BY <1>1, <1>2, <2>2 DEF ThRec
    <3>2. \A i \in Fd : connections'[i] # h
      BY <1>2, <1>6, <1>9, HandleAssumption DEF HandleOk, TableOk
    <3> QED BY <1>1, <1>2, <1>3, <1>5, <1>7, <2>2, <3>1, <3>2
            DEF CallOk, EndOk, Busy, Calling, Closing, Ending
  <2> QED BY <1>4, <2>1, <2>2
<1>13. SockInv'
  BY <1>7 DEF SInv, SockInv
<1>14. /\ \A s \in Thread : s # t => th[s].h # h
       /\ IoOk' /\ OneInv' /\ EndInv' /\ CountInv'
  <2>1. /\ (th'[t].pc \in Closing /\ th'[t].h = h) \/ th'[t] = Idle
        /\ th'[t].u \in {u, NoUser} /\ th[t].pc \in Closing
    BY <1>0, <1>1, <1>2, <1>4 DEF Closing, Idle, ThRec
  <2> QED BY <1>1, <1>3, <1>4, <1>5, <1>7, <1>10, <2>1, CloseRest
<1> QED BY <1>7, <1>10, <1>11, <1>12, <1>13, <1>14, CallSafe

\* notify_close after its lock: both directions are closed.
LEMMA NotifyFdCloseSafe ==
  ASSUME SInv, NEW t \in Thread, NotifyFdClose(t)
  PROVE  SInv'
<1>0. th[t].pc = "fdclose" /\ th[t].pc \in Closing /\ th[t].pc \in Calling
  BY DEF NotifyFdClose, Calling, Closing
<1>1. PICK h \in Handle, u \in User, f \in Fd : h = th[t].h /\ u = th[t].u /\ f = th[t].f
  BY <1>0, InCall
<1>2. /\ th[t] \in ThRec /\ hd[h] \in HandleRec /\ hd[h].st = "alive" /\ user[u].h = h
      /\ f = hd[h].fd /\ hd[h].rd /\ hd[h].wr /\ ~end
      /\ \A i \in Fd : connections[i] # h
  BY <1>0, <1>1, InCall DEF SInv, ThreadInv, CallOk, Closing
<1>3. HandleOk(h) /\ sock[f] = h
  BY <1>2, OwnEntry DEF SInv, HandleInv
<1>4. /\ \A g \in Handle : g # h => hd'[g] = hd[g]
      /\ hd'[h] = [hd[h] EXCEPT !.fd = -1]
  <2>1. Reap([hd[h] EXCEPT !.fd = -1]) = [hd[h] EXCEPT !.fd = -1]
    BY <1>0, <1>1, <1>2, NoReap DEF HandleRec
  <2>2. hd \in [Handle -> HandleRec]
    BY Types DEF SInv
  <2> QED BY <1>1, <2>1, <2>2 DEF NotifyFdClose
<1>5. /\ hd'[h].st = "alive" /\ hd'[h].fd = -1 /\ hd'[h].cnt = hd[h].cnt
      /\ hd'[h].rd /\ hd'[h].wr
  BY <1>2, <1>4 DEF HandleRec
<1>6. th'[t] = Idle /\ \A s \in Thread : s # t => th'[s] = th[s]
  <2>1. th \in [Thread -> ThRec]
    BY Types DEF SInv
  <2> QED BY <2>1 DEF NotifyFdClose, EndClose
<1>7. \A v \in User : user'[v].h = user[v].h
  <2>1. user \in [User -> UserRec]
    BY Types DEF SInv
  <2>2. user' = user \/ user' = [user EXCEPT ![u].readable = FALSE]
    BY <1>1 DEF NotifyFdClose, EndClose
  <2> QED BY <2>1, <2>2 DEF UserRec
<1>8. /\ UNCHANGED <<backlog, peer, connections, out, io, todo, handleReady, end>>
      /\ open' = open \ {f} /\ lsn' = lsn \ {f}
      /\ sock'[f] = NoHandle /\ \A i \in Fd : i # f => sock'[i] = sock[i]
  <2>1. sock \in [Fd -> Handle \cup {NoHandle}]
    BY Types DEF SInv
  <2> QED BY <1>1, <2>1 DEF NotifyFdClose, CloseFd, netVars, selVars, mgrVars
<1>9. IInv'
  BY NotifyFdCloseInv DEF SInv
<1>10. OnlyAt(h, {t})
  <2>1. th'[t].h = NoHandle
    BY <1>6, IdleOk
  <2>2. out' = out /\ peer' = peer /\ backlog' = backlog /\ connections' = connections
        /\ io' = io /\ end' = end /\ todo' = todo
    BY <1>8
  <2>3. \A g \in Handle \ {h}, i \in Fd : sock'[i] = g <=> sock[i] = g
    BY <1>3, <1>8, HandleAssumption
  <2> QED BY <1>1, <1>4, <1>6, <1>7, <2>1, <2>2, <2>3 DEF OnlyAt
<1>11. HandleOk(h)'
  <2>1. BirthOk(h)'
    BY <1>1, <1>3, <1>5, <1>8 DEF HandleOk, BirthOk
  <2>2. FdOk(h)'
    BY <1>5 DEF FdOk
  <2>3. TableOk(h)'
    BY <1>2, <1>8 DEF TableOk
  <2>4. ~AtWork(h, {"notify"})
    BY <1>0, <1>1, Alone DEF AtWork, Busy
  <2>5. OutOk(h)'
    BY <1>2, <1>3, <1>5, <1>8, <2>4 DEF HandleOk, OutOk
  <2> QED BY <2>1, <2>2, <2>3, <2>5 DEF HandleOk
<1>12. CallOk(t)' /\ EndOk(t)' /\ th'[t].u = NoUser
  BY <1>6, IdleOk
<1>13. SockInv'
  BY <1>8 DEF SInv, SockInv
<1>14. /\ \A s \in Thread : s # t => th[s].h # h
       /\ IoOk' /\ OneInv' /\ EndInv' /\ CountInv'
  <2>1. \A g \in Handle : hd'[g].cnt = hd[g].cnt
    BY <1>4, <1>5
  <2> QED BY <1>0, <1>1, <1>6, <1>7, <1>8, <1>10, <1>12, <2>1, CloseRest
<1> QED BY <1>9, <1>10, <1>11, <1>12, <1>13, <1>14, CallSafe

-----------------------------------------------------------------------------
(* HandleUser::yield and the destructor *)

\* The handles, and the connection the I/O thread accepts, when threads outside
\* Handle::close move.
LEMMA MoveHandles ==
  ASSUME SInv, \A s \in Thread : th[s].pc \in Closing => th'[s] = th[s],
         UNCHANGED <<backlog, peer, sock, connections, io, hd, out>>,
         \A s \in Thread, h \in Handle : th'[s].h = h => \/ th[s].h = h
                                                         \/ hd[h].st = "alive" /\ io.h # h
  PROVE  HandleInv' /\ IoOk'
<1>1. ASSUME NEW h \in Handle
      PROVE  HandleOk(h)'
  <2>1. HandleOk(h)
    BY DEF SInv, HandleInv
  <2>2. \A pcs : pcs \subseteq Closing /\ AtWork(h, pcs) => AtWork(h, pcs)'
    BY DEF AtWork
  <2>3. /\ {"notify"} \subseteq Closing /\ {"notify", "erase"} \subseteq Closing
        /\ Closing \subseteq Closing
    BY DEF Closing
  <2>4. BirthOk(h)'
    BY <2>1 DEF HandleOk, BirthOk
  <2>5. FdOk(h)'
    BY <2>1, <2>2, <2>3 DEF HandleOk, FdOk
  <2>6. TableOk(h)'
    BY <2>1, <2>2, <2>3 DEF HandleOk, TableOk
  <2>7. OutOk(h)'
    BY <2>1, <2>2, <2>3 DEF HandleOk, OutOk
  <2> QED BY <2>4, <2>5, <2>6, <2>7 DEF HandleOk
<1>2. IoOk'
  <2>1. io.pc \in {"lock", "handshake"} => io.h \in Handle
    BY DEF SInv, IInv, IoInv
  <2> QED BY <2>1 DEF SInv, IoOk
<1> QED BY <1>1, <1>2 DEF HandleInv

\* A step that moves one thread, outside Handle::close, and nothing else that the
\* invariant speaks of.
LEMMA MoveSafe ==
  ASSUME SInv, NEW t \in Thread, \A s \in Thread : s # t => th'[s] = th[s],
         th[t].pc \notin Closing,
         \A v \in User : user'[v].h = user[v].h,
         UNCHANGED <<backlog, peer, sock, connections, io, todo, handleReady, end, hd, out>>,
         \A h \in Handle : th'[t].h = h => \/ th[t].h = h
                                           \/ hd[h].st = "alive" /\ io.h # h,
         th'[t].pc \in Ending => th[t].pc \in Ending,
         CallOk(t)', EndOk(t)', OneInv', SockInv', IInv'
  PROVE  SInv'
<1>1. HandleInv' /\ IoOk'
  BY MoveHandles
<1>2. ASSUME NEW s \in Thread
      PROVE  CallOk(s)' /\ EndOk(s)'
  <2>1. CASE s = t
    BY <2>1
  <2>2. CASE s # t
    <3>1. CallOk(s) /\ EndOk(s) /\ th'[s] = th[s] /\ ThFits(th[s])
      BY <2>2, ThLocals DEF SInv, ThreadInv
    <3>2. CallOk(s)'
      BY <3>1 DEF CallOk, ThFits, Busy, Calling, Closing
    <3>3. EndOk(s)'
      BY <3>1 DEF EndOk
    <3> QED BY <3>2, <3>3
  <2> QED BY <2>1, <2>2
<1>3. ThreadInv'
  BY <1>2 DEF ThreadInv
<1>4. EndInv'
  BY DEF SInv, EndInv
<1>5. CountInv'
  BY CountKept DEF SInv
<1> QED BY <1>1, <1>3, <1>4, <1>5 DEF SInv

\* yield and the destructor on their way to notify_yield.
LEMMA StartYieldSafe ==
  ASSUME SInv, NEW t \in Thread, NEW u \in User, NEW k, CanUse(t, u), StartYield(t, u, k),
         UNCHANGED <<backlog, peer, open, lsn, sock, connections, io, todo, handleReady,
                     end, hd, out>>,
         IInv'
  PROVE  SInv'
<1>1. PICK h \in Handle : h = user[u].h
  BY InUse
<1>2. /\ hd[h].st = "alive" /\ io.h # h /\ th[t].pc = "idle"
      /\ \A s \in Thread : th[s].h # h /\ th[s].u # u
  BY <1>1, InUse
<1>3. /\ \A s \in Thread : s # t => th'[s] = th[s]
      /\ th'[t].pc = "yield" /\ th'[t].h = h /\ th'[t].u = u
  <2>1. th \in [Thread -> ThRec]
    BY Types DEF SInv
  <2> QED BY <1>1, <2>1 DEF StartYield, Call, Idle
<1>4. \A v \in User : user'[v].h = user[v].h
  <2>1. user \in [User -> UserRec]
    BY Types DEF SInv
  <2> QED BY <2>1 DEF StartYield, UserRec
<1>5. CallOk(t)' /\ EndOk(t)'
  BY <1>1, <1>2, <1>3, <1>4 DEF CallOk, EndOk, Busy, Calling, Closing, Ending
<1>6. OneInv'
  BY <1>2, <1>3, OneKept
<1>7. SockInv'
  BY DEF SInv, SockInv
<1>8. th[t].pc \notin Closing /\ th'[t].pc \notin Ending
  BY <1>2, <1>3 DEF Closing, Ending
<1> QED BY <1>2, <1>3, <1>4, <1>5, <1>6, <1>7, <1>8, MoveSafe

\* HandleUser::yield,
LEMMA YieldSafe ==
  ASSUME SInv, NEW t \in Thread, NEW u \in User, Yield(t, u)
  PROVE  SInv'
<1>0. CanUse(t, u)
  BY DEF Yield
<1>1. PICK h \in Handle : h = user[u].h
  BY <1>0, InUse
<1>2. UNCHANGED <<backlog, peer, open, lsn, sock, connections, io, todo, handleReady,
                  end, hd, out>>
  BY DEF Yield, netVars, osVars, selVars, mgrVars
<1>3. IInv'
  BY YieldInv DEF SInv
<1>4. CASE StartYield(t, u, "none")
  BY <1>0, <1>2, <1>3, <1>4, StartYieldSafe
<1>5. CASE user' = [user EXCEPT ![u].readable = FALSE] /\ UNCHANGED th
  <2>1. \A v \in User : user'[v].h = user[v].h
    <3>1. user \in [User -> UserRec]
      BY Types DEF SInv
    <3> QED BY <1>5, <3>1 DEF UserRec
  <2> QED BY <1>2, <1>3, <1>5, <2>1, QuietSafe
<1> QED BY <1>4, <1>5 DEF Yield

\* notify_yield under its lock,
LEMMA NotifyYieldSafe ==
  ASSUME SInv, NEW t \in Thread, NotifyYield(t)
  PROVE  SInv'
<1>0. th[t].pc = "yield" /\ th[t].pc \in Calling /\ th[t].pc \in Busy
  BY DEF NotifyYield, Calling, Busy
<1>1. PICK h \in Handle, u \in User : h = th[t].h /\ u = th[t].u
  BY <1>0, InCall
<1>2. hd[h].st = "alive" /\ user[u].h = h
  BY <1>0, <1>1, InCall
<1>3. /\ \A s \in Thread : s # t => th'[s] = th[s]
      /\ \/ th'[t].pc = "dec" /\ th'[t].h = h /\ th'[t].u = u
         \/ th'[t] = Idle
  <2>1. th \in [Thread -> ThRec]
    BY Types DEF SInv
  <2> QED BY <1>1, <2>1 DEF NotifyYield, Call, Idle
<1>4. /\ UNCHANGED <<backlog, peer, open, lsn, sock, connections, io, todo, handleReady,
                     end, hd, out, user>>
      /\ IInv'
  BY NotifyYieldInv DEF NotifyYield, netVars, osVars, mgrVars, SInv
<1>5. /\ \A s \in Thread : s # t => th[s].u # u
      /\ \A s \in Thread : s # t /\ th[s].pc \in Busy => th[s].h # h
  BY <1>0, <1>1, Alone DEF Busy, Calling, Closing
<1>6. /\ th'[t].h \in {h, NoHandle} /\ th'[t].u \in {u, NoUser}
      /\ th'[t].pc \notin Ending /\ (th'[t].pc \in Busy => th'[t].h = h)
  BY <1>3 DEF Idle, Ending, Busy, Calling, Closing
<1>7. CallOk(t)' /\ EndOk(t)'
  <2>1. CASE th'[t] = Idle
    BY <2>1, IdleOk
  <2>2. CASE th'[t].pc = "dec" /\ th'[t].h = h /\ th'[t].u = u
    BY <1>2, <1>4, <2>2 DEF CallOk, EndOk, Busy, Calling, Closing, Ending
  <2> QED BY <1>3, <2>1, <2>2
<1>8. OneInv'
  BY <1>3, <1>5, <1>6, OneKept
<1>9. SockInv'
  BY <1>4 DEF SInv, SockInv
<1>10. th[t].pc \notin Closing
  BY <1>0 DEF Closing
<1> QED BY <1>1, <1>3, <1>4, <1>6, <1>7, <1>8, <1>9, <1>10, HandleAssumption, MoveSafe

\* The destructor gives up one reference, the counter goes down by one.
LEMMA CountRelease ==
  ASSUME SInv, NEW u \in User, NEW h \in Handle, h = user[u].h,
         user' = [user EXCEPT ![u] = Empty], UNCHANGED handleReady,
         hd'[h].cnt = hd[h].cnt - 1,
         \A g \in Handle : g # h => hd'[g].cnt = hd[g].cnt
  PROVE  CountInv'
<1>0. /\ user'[u].h = NoHandle /\ \A v \in User : v # u => user'[v] = user[v]
      /\ \A g \in Handle : Queued(g)' = Queued(g)
  <2>1. user \in [User -> UserRec]
    BY Types DEF SInv
  <2> QED BY <2>1 DEF Empty, Queued
<1>1. ASSUME NEW g \in Handle, g # h
      PROVE  Holders(g)' = Holders(g)
  BY <1>0, <1>1, HandleAssumption DEF Holders
<1>2. Holders(h)' = Holders(h) \ {u}
  BY <1>0, HandleAssumption DEF Holders
<1>3. u \in Holders(h)
  BY DEF Holders
<1>4. Cardinality(Holders(h)') = Cardinality(Holders(h)) - 1
  BY <1>2, <1>3, FiniteCount, FS_RemoveElement DEF SInv
<1>5. Cardinality(Holders(h)) \in Nat /\ Cardinality(Queued(h)) \in Nat
  BY FiniteCount DEF SInv
<1>6. \A g \in Handle : hd[g].cnt = Cardinality(Holders(g)) + Cardinality(Queued(g))
  BY DEF SInv, CountInv
<1>7. ASSUME NEW g \in Handle
      PROVE  hd'[g].cnt = Cardinality(Holders(g)') + Cardinality(Queued(g)')
  <2>1. CASE g = h
    BY <1>0, <1>4, <1>5, <1>6, <2>1
  <2>2. CASE g # h
    BY <1>0, <1>1, <1>6, <2>2
  <2> QED BY <2>1, <2>2
<1> QED BY <1>7 DEF CountInv

\* A Handle is deleted with its last HandleUser if it is closed, and then it is in
\* no table and has no descriptor.
LEMMA ReleaseSafe ==
  ASSUME SInv, NEW u \in User, NEW h \in Handle, h = user[u].h, hd[h].st = "alive",
         NEW T \in SUBSET Thread, Release(u, h),
         \A s \in T : th[s].h \in {h, NoHandle} /\ th'[s] = Idle,
         \A s \in Thread \ T : /\ th'[s] = th[s] /\ th[s].u # u
                               /\ th[s].h = h => th[s].pc = "drain",
         ~AtWork(h, Closing), OneInv',
         UNCHANGED <<backlog, peer, open, lsn, sock, connections, io, todo, handleReady,
                     end, out>>,
         IInv'
  PROVE  SInv'
<1>1. hd \in [Handle -> HandleRec] /\ user \in [User -> UserRec]
  BY Types DEF SInv
<1>2. /\ \A g \in Handle : g # h => hd'[g] = hd[g]
      /\ hd'[h].fd = hd[h].fd /\ hd'[h].rd = hd[h].rd /\ hd'[h].wr = hd[h].wr
      /\ hd'[h].cnt = hd[h].cnt - 1
      /\ \/ hd'[h].st = "alive"
         \/ hd'[h].st = "deleted" /\ hd'[h].cnt = 0 /\ hd[h].rd /\ hd[h].wr
  <2> DEFINE r == [hd[h] EXCEPT !.cnt = @ - 1]
  <2>1. /\ r.st = hd[h].st /\ r.fd = hd[h].fd /\ r.rd = hd[h].rd /\ r.wr = hd[h].wr
        /\ r.cnt = hd[h].cnt - 1 /\ r \in HandleRec
    BY <1>1 DEF HandleRec
  <2>2. hd' = [hd EXCEPT ![h] = Reap(r)]
    BY DEF Release
  <2> HIDE DEF r
  <2>3. hd'[h] = Reap(r) /\ \A g \in Handle : g # h => hd'[g] = hd[g]
    BY <1>1, <2>2
  <2>4. CASE r.cnt = 0 /\ r.rd /\ r.wr
    <3>1. hd'[h] = [r EXCEPT !.st = "deleted"]
      BY <2>3, <2>4 DEF Reap
    <3> QED BY <2>1, <2>3, <2>4, <3>1 DEF HandleRec
  <2>5. CASE ~(r.cnt = 0 /\ r.rd /\ r.wr)
    <3>1. hd'[h] = r
      BY <2>3, <2>5 DEF Reap
    <3> QED BY <2>1, <2>3, <3>1
  <2> QED BY <2>4, <2>5
<1>3. io.h # h /\ HandleOk(h)
  BY IoNotHeld DEF SInv, HandleInv
<1>4. user'[u].h = NoHandle /\ \A v \in User : v # u => user'[v] = user[v]
  BY <1>1 DEF Release, Empty
<1>5. OnlyAt(h, T)
  <2>1. \A s \in T : th'[s].h = NoHandle
    BY DEF Idle
  <2> QED BY <1>2, <1>4, <2>1 DEF OnlyAt
<1>6. /\ ~AtWork(h, {"notify"}) /\ ~AtWork(h, {"notify", "erase"})
      /\ ~(hd[h].rd /\ hd[h].wr) \/ hd[h].fd = -1
  BY <1>3 DEF AtWork, Closing, HandleOk, FdOk
<1>7. HandleOk(h)'
  <2>1. BirthOk(h)'
    BY <1>2, <1>3 DEF HandleOk, BirthOk
  <2>2. FdOk(h)'
    BY <1>2, <1>3, <1>6 DEF HandleOk, FdOk
  <2>3. TableOk(h)'
    BY <1>2, <1>3, <1>6 DEF HandleOk, TableOk
  <2>4. OutOk(h)'
    BY <1>2, <1>3, <1>6 DEF HandleOk, OutOk
  <2> QED BY <2>1, <2>2, <2>3, <2>4 DEF HandleOk
<1>8. \A s \in T : CallOk(s)' /\ EndOk(s)'
  BY IdleOk
<1>9. ASSUME NEW s \in Thread \ T, th[s].h = h
      PROVE  CallOk(s)' /\ EndOk(s)'
  <2>1. CallOk(s) /\ EndOk(s) /\ th'[s] = th[s] /\ th[s].pc = "drain"
    BY <1>9 DEF SInv, ThreadInv
  <2> QED BY <1>2, <1>9, <2>1 DEF CallOk, EndOk, Busy, Calling, Closing
<1>10. SockInv' /\ IoOk'
  BY <1>3, <1>5, OtherIo DEF SInv, SockInv
<1>11. EndInv'
  <2>1. \A s \in Thread : th'[s].pc \in Ending => th[s].pc \in Ending
    BY DEF Idle, Ending
  <2> QED BY <2>1 DEF SInv, EndInv
<1>12. CountInv'
  BY <1>2, CountRelease DEF Release
<1> QED BY <1>5, <1>7, <1>8, <1>9, <1>10, <1>11, <1>12, StepSafe

\* The destructor of a HandleUser,
LEMMA DropSafe ==
  ASSUME SInv, NEW t \in Thread, NEW u \in User, Drop(t, u)
  PROVE  SInv'
<1>0. CanUse(t, u)
  BY DEF Drop
<1>1. PICK h \in Handle : h = user[u].h
  BY <1>0, InUse
<1>2. /\ UNCHANGED <<backlog, peer, open, lsn, sock, connections, io, todo, handleReady,
                     end, out>>
      /\ IInv'
  BY DropInv DEF Drop, netVars, osVars, selVars, mgrVars, SInv
<1>3. CASE StartYield(t, u, "drop") /\ UNCHANGED hd
  BY <1>0, <1>2, <1>3, StartYieldSafe
<1>4. CASE Release(u, h) /\ UNCHANGED th
  <2>1. hd[h].st = "alive" /\ \A s \in Thread : th[s].h # h /\ th[s].u # u
    BY <1>0, <1>1, InUse
  <2>2. ~AtWork(h, Closing) /\ OneInv'
    BY <1>4, <2>1 DEF AtWork, SInv, OneInv
  <2>3. /\ \A s \in {} : th[s].h \in {h, NoHandle} /\ th'[s] = Idle
        /\ \A s \in Thread \ {} : /\ th'[s] = th[s] /\ th[s].u # u
                                  /\ th[s].h = h => th[s].pc = "drain"
        /\ {} \in SUBSET Thread
    BY <1>4, <2>1
  <2> QED BY <1>1, <1>2, <1>4, <2>1, <2>2, <2>3, ReleaseSafe
<1> QED BY <1>1, <1>3, <1>4 DEF Drop

\* and its end when it had to yield first.
LEMMA DropReleaseSafe ==
  ASSUME SInv, NEW t \in Thread, DropRelease(t)
  PROVE  SInv'
<1>0. th[t].pc = "dec" /\ th[t].pc \in Calling /\ th[t].pc \in Busy
  BY DEF DropRelease, Calling, Busy
<1>1. PICK h \in Handle, u \in User : h = th[t].h /\ u = th[t].u
  BY <1>0, InCall
<1>2. hd[h].st = "alive" /\ user[u].h = h
  BY <1>0, <1>1, InCall
<1>3. \A s \in Thread : s # t => th'[s] = th[s] /\ th[s].u # u /\ (th[s].h = h => th[s].pc = "drain")
  <2>1. th \in [Thread -> ThRec]
    BY Types DEF SInv
  <2> QED BY <1>0, <1>1, <2>1, Alone DEF DropRelease
<1>4. th'[t] = Idle
  <2>1. th \in [Thread -> ThRec]
    BY Types DEF SInv
  <2> QED BY <2>1 DEF DropRelease
<1>5. ~AtWork(h, Closing)
  BY <1>0, <1>3 DEF AtWork, Closing
<1>6. OneInv'
  BY <1>3, <1>4, IdleOk, OneKept
<1>7. /\ UNCHANGED <<backlog, peer, open, lsn, sock, connections, io, todo, handleReady,
                     end, out>>
      /\ IInv' /\ Release(u, h)
  BY <1>1, DropReleaseInv DEF DropRelease, netVars, osVars, selVars, mgrVars, SInv
<1>8. /\ \A s \in {t} : th[s].h \in {h, NoHandle} /\ th'[s] = Idle
      /\ \A s \in Thread \ {t} : /\ th'[s] = th[s] /\ th[s].u # u
                                 /\ th[s].h = h => th[s].pc = "drain"
      /\ {t} \in SUBSET Thread
  BY <1>1, <1>3, <1>4
<1> QED BY <1>2, <1>5, <1>6, <1>7, <1>8, ReleaseSafe

-----------------------------------------------------------------------------
(* ConnTcp::listen *)

\* The lowest free descriptor is free, and no connection has it.
LEMMA FreeFd ==
  ASSUME SInv, Fd \ open # {}
  PROVE  /\ LowestFree \in Fd /\ LowestFree \notin open
         /\ sock[LowestFree] = NoHandle
<1>1. LowestFree \in Fd \ open
  BY FdMin DEF LowestFree
<1> QED BY <1>1 DEF SInv, SockInv

\* A thread in listen, or in finalize between two handles, is in no call.
LEMMA NoCallOk ==
  ASSUME NEW t \in Thread, th'[t].pc \notin Busy \cup {"drain"},
         th'[t].h = NoHandle, th'[t].u = NoUser,
         th'[t].pc \in Ending => end', th'[t].pc = "end" => io'.pc = "exit"
  PROVE  CallOk(t)' /\ EndOk(t)'
  BY DEF CallOk, EndOk, Busy, Calling, Closing

\* The steps of listen.
LEMMA ListeningSafe ==
  ASSUME SInv, NEW t \in Thread,
         \/ Listen(t) \/ ListenZero(t) \/ ListenSet(t) \/ ListenMax(t)
  PROVE  SInv'
<1>1. IInv'
  BY ListenInv, ListenZeroInv, ListenSetInv, ListenMaxInv DEF SInv
<1>2. /\ th[t].pc \in {"idle", "lzero", "lset", "lmax"}
      /\ th[t].h = NoHandle /\ th[t].u = NoUser
  <2>1. th[t].pc \in {"idle", "lzero", "lset", "lmax"}
    BY DEF Listen, ListenZero, ListenSet, ListenMax
  <2> QED BY <2>1 DEF SInv, ThreadInv, CallOk, Busy, Calling, Closing
<1>3. /\ \A s \in Thread : s # t => th'[s] = th[s]
      /\ th'[t].pc \in {"idle", "lzero", "lset", "lmax"}
      /\ th'[t].h = NoHandle /\ th'[t].u = NoUser
  <2>1. th \in [Thread -> ThRec]
    BY Types DEF SInv
  <2>2. \/ th' = th \/ th' = [th EXCEPT ![t] = Idle]
        \/ \E p \in {"lzero", "lset", "lmax"} : th' = [th EXCEPT ![t].pc = p]
    BY DEF Listen, ListenZero, ListenSet, ListenMax
  <2> QED BY <1>2, <2>1, <2>2 DEF Idle, ThRec
<1>4. UNCHANGED <<backlog, peer, sock, connections, io, todo, handleReady, end, hd, out, user>>
  BY DEF Listen, ListenZero, ListenSet, ListenMax, netVars, osVars, selVars, mgrVars
<1>5. SockInv'
  <2>1. CASE UNCHANGED <<open, lsn, sock>>
    BY <2>1 DEF SInv, SockInv
  <2>2. CASE Listen(t)
    <3>1. LowestFree \notin open /\ LowestFree \in Fd /\ sock[LowestFree] = NoHandle
      BY <2>2, FreeFd DEF Listen
    <3> QED BY <2>2, <3>1 DEF Listen, SInv, SockInv
  <2> QED BY <2>1, <2>2 DEF ListenZero, ListenSet, ListenMax, osVars
<1>6. /\ th'[t].pc \notin Busy \cup {"drain"} /\ th'[t].pc \notin Ending
      /\ th[t].pc \notin Closing
  BY <1>2, <1>3 DEF Busy, Calling, Closing, Ending
<1>7. CallOk(t)' /\ EndOk(t)'
  BY <1>3, <1>6, NoCallOk DEF Ending
<1>8. OneInv'
  BY <1>3, <1>6, OneKept
<1> QED BY <1>1, <1>2, <1>3, <1>4, <1>5, <1>6, <1>7, <1>8, MoveSafe

-----------------------------------------------------------------------------
(* Manager::getNext and Manager::connect *)

\* A place that takes a new HandleUser for h counts for h only.
LEMMA HoldersAdd ==
  ASSUME IInv, NEW u \in User, NEW h \in Handle, user[u].h = NoHandle, user'[u].h = h,
         \A v \in User : v # u => user'[v] = user[v]
  PROVE  /\ Cardinality(Holders(h)') = Cardinality(Holders(h)) + 1
         /\ \A g \in Handle : g # h => Holders(g)' = Holders(g)
<1>1. Holders(h)' = Holders(h) \cup {u} /\ u \notin Holders(h)
  BY HandleAssumption DEF Holders
<1>2. \A g \in Handle : g # h => Holders(g)' = Holders(g)
  BY HandleAssumption DEF Holders
<1>3. IsFiniteSet(Holders(h))
  BY FiniteCount
<1> QED BY <1>1, <1>2, <1>3, FS_AddElement

\* Taking the head of a queue removes it from the positions of its Handle and
\* shifts the others.
LEMMA QueuedTail ==
  ASSUME IInv, handleReady # <<>>, handleReady' = Tail(handleReady), NEW g \in Handle
  PROVE  Cardinality(Queued(g)') =
           IF Head(handleReady).h = g THEN Cardinality(Queued(g)) - 1
                                      ELSE Cardinality(Queued(g))
<1> DEFINE Q == Queued(g) \ {1}
           b == [i \in Q |-> i - 1]
<1>1. /\ handleReady \in Seq([h : Handle, new : BOOLEAN])
      /\ Len(handleReady) \in Nat /\ Len(handleReady) # 0
      /\ DOMAIN handleReady = 1 .. Len(handleReady)
      /\ Head(handleReady) = handleReady[1]
      /\ DOMAIN handleReady' = 1 .. Len(handleReady) - 1
      /\ \A i \in 1 .. Len(handleReady) - 1 : handleReady'[i] = handleReady[i + 1]
  <2>1. handleReady \in Seq([h : Handle, new : BOOLEAN]) /\ handleReady # <<>>
    BY Types
  <2> QED BY <2>1
<1>2. Queued(g)' = {i \in 1 .. Len(handleReady) - 1 : handleReady[i + 1].h = g}
  BY <1>1 DEF Queued
<1>3. Q = {i \in 2 .. Len(handleReady) : handleReady[i].h = g}
  BY <1>1 DEF Queued
<1>4. b \in [Q -> Queued(g)']
  BY <1>1, <1>2, <1>3
<1>5. \A i, j \in Q : b[i] = b[j] => i = j
  BY <1>3
<1>6. \A j \in Queued(g)' : \E i \in Q : b[i] = j
  <2> TAKE j \in Queued(g)'
  <2>1. j \in Nat /\ j + 1 \in Q /\ b[j + 1] = j
    BY <1>1, <1>2, <1>3
  <2> QED BY <2>1
<1> HIDE DEF b, Q
<1>7. b \in Bijection(Q, Queued(g)')
  BY <1>4, <1>5, <1>6, Zenon DEF Bijection, Injection, Surjection, IsInjective, Queued
<1>8. IsFiniteSet(Queued(g)) /\ Cardinality(Queued(g)) \in Nat
  BY FiniteCount
<1>9. IsFiniteSet(Q) /\ Cardinality(Queued(g)') = Cardinality(Q)
  <2>1. IsFiniteSet(Q)
    BY <1>8, FS_RemoveElement DEF Q
  <2>2. ExistsBijection(Q, Queued(g)')
    BY <1>7 DEF ExistsBijection
  <2> QED BY <2>1, <2>2, FS_Bijection
<1>10. 1 \in Queued(g) <=> Head(handleReady).h = g
  BY <1>1 DEF Queued
<1>11. Cardinality(Q) = IF 1 \in Queued(g) THEN Cardinality(Queued(g)) - 1
                                         ELSE Cardinality(Queued(g))
  BY <1>8, FS_RemoveElement DEF Q
<1> QED BY <1>9, <1>10, <1>11

\* Manager::getNext moves a reference from the queue to the application.
LEMMA GetNextSafe ==
  ASSUME SInv, NEW t \in Thread, NEW u \in User, GetNext(t, u)
  PROVE  SInv'
<1>0. /\ IInv /\ IInv' /\ user[u].h = NoHandle /\ \A s \in Thread : th[s].u # u
      /\ handleReady # <<>> /\ handleReady' = Tail(handleReady)
  BY GetNextInv DEF SInv, GetNext, CanStore
<1>1. PICK h \in Handle : h = Head(handleReady).h
  <2>1. handleReady \in Seq([h : Handle, new : BOOLEAN])
    BY <1>0, Types
  <2>2. Head(handleReady) \in [h : Handle, new : BOOLEAN]
    BY <1>0, <2>1, HeadTail
  <2> QED BY <2>2
<1>2. user'[u].h = h /\ \A v \in User : v # u => user'[v] = user[v]
  <2>1. user \in [User -> UserRec]
    BY <1>0, Types
  <2> QED BY <1>1, <2>1 DEF GetNext
<1>3. UNCHANGED <<backlog, peer, open, lsn, sock, connections, io, todo, end, hd, out, th>>
  BY DEF GetNext, netVars, osVars, selVars
<1>4. HandleInv' /\ IoOk'
  BY <1>3, MoveHandles
<1>5. ASSUME NEW s \in Thread
      PROVE  CallOk(s)' /\ EndOk(s)'
  <2>1. CallOk(s) /\ EndOk(s) /\ ThFits(th[s])
    BY ThLocals DEF SInv, ThreadInv
  <2>2. CallOk(s)'
    BY <1>0, <1>2, <1>3, <2>1 DEF CallOk, ThFits, Busy, Calling, Closing
  <2>3. EndOk(s)'
    BY <1>3, <2>1 DEF EndOk
  <2> QED BY <2>2, <2>3
<1>6. ThreadInv'
  BY <1>5 DEF ThreadInv
<1>7. SockInv' /\ OneInv' /\ EndInv'
  BY <1>3 DEF SInv, SockInv, OneInv, EndInv
<1>8. ASSUME NEW g \in Handle
      PROVE  hd'[g].cnt = Cardinality(Holders(g)') + Cardinality(Queued(g)')
  <2>1. hd'[g].cnt = Cardinality(Holders(g)) + Cardinality(Queued(g))
    BY <1>3 DEF SInv, CountInv
  <2>2. Cardinality(Holders(g)) \in Nat /\ Cardinality(Queued(g)) \in Nat
    BY <1>0, FiniteCount
  <2>3. /\ Cardinality(Holders(h)') = Cardinality(Holders(h)) + 1
        /\ g # h => Holders(g)' = Holders(g)
    BY <1>0, <1>2, HoldersAdd
  <2>4. Cardinality(Queued(g)') = IF h = g THEN Cardinality(Queued(g)) - 1
                                           ELSE Cardinality(Queued(g))
    BY <1>0, <1>1, QueuedTail
  <2>5. CASE g = h
    BY <2>1, <2>2, <2>3, <2>4, <2>5
  <2>6. CASE g # h
    BY <2>1, <2>2, <2>3, <2>4, <2>6
  <2> QED BY <2>5, <2>6
<1>9. CountInv'
  BY <1>8 DEF CountInv
<1> QED BY <1>0, <1>4, <1>6, <1>7, <1>9 DEF SInv

\* ConnTcp::connect up to its lock,
LEMMA ConnectSafe ==
  ASSUME SInv, NEW t \in Thread, NEW u \in User, NEW h \in Handle, Connect(t, u, h)
  PROVE  SInv'
<1>0. /\ user[u].h = NoHandle /\ \A s \in Thread : th[s].u # u
      /\ th[t].pc = "idle" /\ ~end /\ peer[h] = "none" /\ Fd \ open # {}
  BY DEF Connect, CanStore
<1>1. PICK f \in Fd : f = LowestFree /\ f \notin open /\ sock[f] = NoHandle
  BY <1>0, FreeFd
<1>2. /\ HandleOk(h) /\ hd[h] = Unborn /\ hd[h].st = "none" /\ io.h # h
      /\ \A s \in Thread : th[s].h # h
      /\ \A i \in Fd : h \notin backlog[i]
  BY <1>0 DEF SInv, HandleInv, HandleOk, BirthOk
<1>3. /\ \A s \in Thread : s # t => th'[s] = th[s]
      /\ th'[t].pc = "conn" /\ th'[t].h = h /\ th'[t].u = u /\ th'[t].f = f
  <2>1. th \in [Thread -> ThRec]
    BY Types DEF SInv
  <2> QED BY <1>1, <2>1 DEF Connect, Call, Idle
<1>4. /\ UNCHANGED <<backlog, lsn, connections, io, todo, handleReady, end, hd, out, user>>
      /\ open' = open \cup {f}
      /\ sock'[f] = h /\ \A i \in Fd : i # f => sock'[i] = sock[i]
      /\ peer'[h] = "up" /\ \A g \in Handle : g # h => peer'[g] = peer[g]
  <2>1. sock \in [Fd -> Handle \cup {NoHandle}] /\ peer \in [Handle -> PeerState]
    BY Types DEF SInv
  <2> QED BY <1>1, <2>1 DEF Connect, selVars, mgrVars
<1>5. IInv'
  BY ConnectInv DEF SInv
<1>6. th[t].h = NoHandle
  BY <1>0 DEF SInv, ThreadInv, CallOk, Busy, Calling, Closing
<1>7. OnlyAt(h, {t})
  <2>1. backlog' = backlog /\ connections' = connections /\ io' = io /\ end' = end
        /\ todo' = todo /\ hd' = hd /\ out' = out /\ user' = user
    BY <1>4
  <2>2. \A g \in Handle \ {h}, i \in Fd : sock'[i] = g <=> sock[i] = g
    BY <1>1, <1>4, HandleAssumption
  <2> QED BY <1>3, <1>4, <1>6, <2>1, <2>2 DEF OnlyAt
<1>8. HandleOk(h)'
  <2>1. BirthOk(h)'
    BY <1>2, <1>4 DEF HandleOk, BirthOk
  <2>2. FdOk(h)'
    BY <1>2, <1>4 DEF FdOk
  <2>3. TableOk(h)'
    BY <1>2, <1>4 DEF HandleOk, TableOk
  <2>4. OutOk(h)'
    BY <1>2, <1>4 DEF HandleOk, OutOk, Unborn
  <2> QED BY <2>1, <2>2, <2>3, <2>4 DEF HandleOk
<1>9. CallOk(t)' /\ EndOk(t)'
  BY <1>0, <1>2, <1>3, <1>4 DEF CallOk, EndOk, Busy, Calling, Closing, Ending
<1>10. SockInv'
  BY <1>1, <1>4 DEF SInv, SockInv
<1>11. IoOk'
  BY <1>2, <1>4, <1>7, OtherIo
<1>12. OneInv'
  BY <1>0, <1>2, <1>3, OneKept
<1>13. EndInv'
  BY <1>3, <1>4, EndKept DEF Ending
<1>14. CountInv'
  BY <1>4, CountKept DEF SInv
<1> QED BY <1>2, <1>5, <1>7, <1>8, <1>9, <1>10, <1>11, <1>12, <1>13, <1>14, CallSafe

\* A connection whose socket is known gets its Handle and its entry in the table,
\* in connect or in update.
LEMMA BornOk ==
  ASSUME SInv, NEW h \in Handle, NEW f \in Fd, hd[h].st = "none", sock[f] = h,
         ~(peer[h] = "none" \/ \E i \in Fd : h \in backlog[i]),
         hd'[h].st = "alive", hd'[h].fd = f, ~hd'[h].rd, ~hd'[h].wr, connections' = [connections EXCEPT ![f] = h],
         UNCHANGED <<peer, backlog, sock, out>>
  PROVE  /\ HandleOk(h)' /\ hd[h].cnt = 0
         /\ \A g \in Handle \ {h}, i \in Fd : connections'[i] = g <=> connections[i] = g
<1>1. HandleOk(h) /\ hd[h] = Unborn
  BY DEF SInv, HandleInv, HandleOk, BirthOk
<1>2. /\ hd'[h].st = "alive" /\ hd'[h].fd = f /\ ~hd'[h].rd /\ ~hd'[h].wr
      /\ hd[h].cnt = 0 /\ ~hd[h].wr
  BY <1>1 DEF Unborn
<1>3. connections'[f] = h /\ \A i \in Fd : i # f => connections'[i] = connections[i]
  <2>1. connections \in [Fd -> Handle \cup {NoHandle}]
    BY Types DEF SInv
  <2> QED BY <2>1
<1>4. ASSUME NEW g \in Handle, g # h
      PROVE  connections[f] # g
  <2>1. TableOk(g) /\ FdOk(g)
    BY DEF SInv, HandleInv, HandleOk
  <2> QED BY <1>4, <2>1, BoundAssumption DEF TableOk, FdOk, Fd
<1>5. \A g \in Handle \ {h}, i \in Fd : connections'[i] = g <=> connections[i] = g
  BY <1>3, <1>4
<1>6. BirthOk(h)'
  BY <1>1, <1>2 DEF HandleOk, BirthOk
<1>7. FdOk(h)'
  BY <1>2, <1>3, BoundAssumption DEF FdOk, Fd
<1>8. TableOk(h)'
  BY <1>1, <1>2, <1>3 DEF HandleOk, TableOk
<1>9. OutOk(h)'
  BY <1>1, <1>2 DEF HandleOk, OutOk
<1> QED BY <1>2, <1>5, <1>6, <1>7, <1>8, <1>9 DEF HandleOk

\* and under it.
LEMMA ConnectInsertSafe ==
  ASSUME SInv, NEW t \in Thread, ConnectInsert(t)
  PROVE  SInv'
<1>0. th[t].pc = "conn" /\ th[t].pc \in Busy
  BY DEF ConnectInsert, Busy
<1>1. PICK h \in Handle, u \in User, f \in Fd : h = th[t].h /\ u = th[t].u /\ f = th[t].f
  BY <1>0, ThLocals DEF SInv, ThFits
<1>2. hd[h].st = "none" /\ sock[f] = h /\ user[u].h = NoHandle /\ ~end
  BY <1>0, <1>1 DEF SInv, ThreadInv, CallOk
<1>3. \A s \in Thread : s # t => th[s].h # h /\ th[s].u # u
  BY <1>0, <1>1, <1>2, Alone
<1>4. io.h # h
  <2>1. io.pc \in {"lock", "handshake"} => io.h \in Handle
    BY DEF SInv, IInv, IoInv
  <2> QED BY <1>1, <1>2, <2>1, HandleAssumption DEF SInv, IoOk
<1>5. ~(peer[h] = "none" \/ \E i \in Fd : h \in backlog[i])
  BY <1>1 DEF SInv, HandleInv, HandleOk, BirthOk
<1>6. th'[t] = Idle /\ \A s \in Thread : s # t => th'[s] = th[s]
  <2>1. th \in [Thread -> ThRec]
    BY Types DEF SInv
  <2> QED BY <2>1 DEF ConnectInsert
<1>7. /\ connections' = [connections EXCEPT ![f] = h]
      /\ UNCHANGED <<backlog, peer, open, lsn, sock, io, todo, handleReady, end, out>>
      /\ IInv'
  BY <1>1, ConnectInsertInv DEF ConnectInsert, netVars, osVars, mgrVars, SInv
<1>8. PICK c \in {0, 1} :
        /\ hd'[h] = NewHandle(f, c) /\ \A g \in Handle : g # h => hd'[g] = hd[g]
        /\ \A v \in User : v # u => user'[v] = user[v]
        /\ user'[u].h = IF c = 1 THEN h ELSE NoHandle
  <2>1. hd \in [Handle -> HandleRec] /\ user \in [User -> UserRec]
    BY Types DEF SInv
  <2>2. CASE /\ hd' = [hd EXCEPT ![h] = NewHandle(f, 1)]
             /\ user' = [user EXCEPT ![u] = [h |-> h, readable |-> TRUE]]
    BY <2>1, <2>2
  <2>3. CASE hd' = [hd EXCEPT ![h] = NewHandle(f, 0)] /\ UNCHANGED user
    BY <1>2, <2>1, <2>3
  <2> QED BY <1>1, <2>2, <2>3 DEF ConnectInsert
<1>9. /\ HandleOk(h)' /\ hd[h].cnt = 0 /\ hd'[h].cnt = c
      /\ \A g \in Handle \ {h}, i \in Fd : connections'[i] = g <=> connections[i] = g
  <2>1. hd'[h].st = "alive" /\ hd'[h].fd = f /\ ~hd'[h].rd /\ ~hd'[h].wr /\ hd'[h].cnt = c
    BY <1>8 DEF NewHandle
  <2> QED BY <1>2, <1>5, <1>7, <2>1, BornOk
<1>10. /\ CallOk(t)' /\ EndOk(t)' /\ th'[t].h = NoHandle /\ th'[t].u = NoUser
       /\ th'[t].pc \notin Busy \cup Ending
  BY <1>6, IdleOk
<1>11. OnlyAt(h, {t})
  <2>1. backlog' = backlog /\ peer' = peer /\ sock' = sock /\ io' = io /\ end' = end
        /\ todo' = todo /\ out' = out
    BY <1>7
  <2>2. \A v \in User : \/ user'[v].h = user[v].h
                        \/ /\ {user[v].h, user'[v].h} \subseteq {h, NoHandle}
                           /\ \A s \in Thread \ {t} : th[s].u # v
    BY <1>2, <1>3, <1>8
  <2> QED BY <1>1, <1>6, <1>8, <1>9, <1>10, <2>1, <2>2 DEF OnlyAt
<1>12. SockInv'
  BY <1>7 DEF SInv, SockInv
<1>13. IoOk'
  BY <1>4, <1>7, <1>11, OtherIo
<1>14. OneInv'
  BY <1>6, <1>10, OneKept
<1>15. EndInv'
  BY <1>2, <1>6, <1>7, <1>10, EndKept DEF SInv, EndInv
<1>16. CountInv'
  <2>1. CASE c = 0
    BY <1>2, <1>7, <1>8, <1>9, <2>1, CountKept DEF SInv
  <2>2. CASE c = 1
    <3>1. /\ Cardinality(Holders(h)') = Cardinality(Holders(h)) + 1
          /\ \A g \in Handle : g # h => Holders(g)' = Holders(g)
      BY <1>2, <1>8, <2>2, HoldersAdd DEF SInv
    <3>2. \A g \in Handle : Queued(g)' = Queued(g)
      BY <1>7 DEF Queued
    <3>3. Cardinality(Holders(h)) \in Nat /\ Cardinality(Queued(h)) \in Nat
      BY FiniteCount DEF SInv
    <3>4. \A g \in Handle : hd[g].cnt = Cardinality(Holders(g)) + Cardinality(Queued(g))
      BY DEF SInv, CountInv
    <3>5. ASSUME NEW g \in Handle
          PROVE  hd'[g].cnt = Cardinality(Holders(g)') + Cardinality(Queued(g)')
      BY <1>8, <1>9, <2>2, <3>1, <3>2, <3>3, <3>4
    <3> QED BY <3>5 DEF CountInv
  <2> QED BY <2>1, <2>2
<1> QED BY <1>3, <1>7, <1>9, <1>10, <1>11, <1>12, <1>13, <1>14, <1>15, <1>16, CallSafe

-----------------------------------------------------------------------------
(* The I/O thread *)

\* A step of the I/O thread that does no more than move on.
LEMMA IoMove ==
  ASSUME SInv, io'.pc \notin {"lock", "handshake"}, io'.h = NoHandle,
         io.pc # "exit", io'.pc = "exit" => end,
         UNCHANGED <<backlog, peer, open, lsn, sock, connections, todo, handleReady, end,
                     hd, out, th, user>>,
         IInv'
  PROVE  SInv'
<1>1. {} \in SUBSET Thread /\ NoHandle \in Handle \cup {NoHandle}
  OBVIOUS
<1>2. OnlyAt(NoHandle, {})
  <2>1. /\ backlog' = backlog /\ peer' = peer /\ sock' = sock /\ connections' = connections
        /\ end' = end /\ todo' = todo /\ hd' = hd /\ out' = out /\ th' = th /\ user' = user
    OBVIOUS
  <2> QED BY <2>1 DEF OnlyAt
<1>3. SockInv'
  BY DEF SInv, SockInv
<1>4. IoOk'
  BY DEF IoOk
<1>5. OneInv'
  BY DEF SInv, OneInv
<1>6. EndInv'
  BY DEF SInv, EndInv
<1>7. CountInv'
  BY CountKept DEF SInv
<1>8. \A s \in {} : CallOk(s)' /\ EndOk(s)'
  OBVIOUS
<1> QED BY <1>1, <1>2, <1>3, <1>4, <1>5, <1>6, <1>7, <1>8, StepSafe

\* The steps around select.
LEMMA IoLoopSafe ==
  ASSUME SInv, IoTop \/ IoSelect \/ IoLoopEnd \/ IoLoopReady
  PROVE  SInv'
<1>1. /\ io \in IoRec /\ IInv'
      /\ io.pc \notin {"lock", "handshake", "exit"} /\ io.h = NoHandle
  <2>1. io.pc \in {"top", "select", "loop"}
    BY DEF IoTop, IoSelect, IoLoopEnd, IoLoopReady
  <2> QED BY <2>1, Types, IoTopInv, IoSelectInv, IoLoopEndInv, IoLoopReadyInv DEF SInv, IoOk
<1>2. /\ io'.pc \notin {"lock", "handshake"} /\ io'.h = NoHandle
      /\ io'.pc = "exit" => end
  <2>1. CASE IoTop
    BY <2>1 DEF IoTop, IoAt
  <2>2. CASE IoSelect
    BY <2>2 DEF IoSelect, IoReturn, IoAt
  <2>3. CASE IoLoopEnd
    BY <2>3 DEF IoLoopEnd, IoReturn, IoAt
  <2>4. CASE IoLoopReady
    BY <1>1, <2>4 DEF IoLoopReady, IoRec
  <2> QED BY <2>1, <2>2, <2>3, <2>4
<1>3. UNCHANGED <<backlog, peer, open, lsn, sock, connections, todo, handleReady, end,
                  hd, out, th, user>>
  BY DEF IoTop, IoSelect, IoLoopEnd, IoLoopReady, netVars, osVars, selVars, mgrVars
<1> QED BY <1>1, <1>2, <1>3, IoMove

\* accept gives the connection a socket.
LEMMA IoAcceptSafe ==
  ASSUME SInv, IoAccept
  PROVE  SInv'
<1>0. io \in IoRec /\ IInv' /\ io.pc = "loop" /\ io.h = NoHandle /\ listen_sck \in Fd
  <2>1. io \in IoRec /\ IInv'
    BY Types, IoAcceptInv DEF SInv
  <2>2. io.pc = "loop" /\ io.h = NoHandle
    BY DEF SInv, IoOk, IoAccept
  <2>3. listen_sck \in Fd
    BY PendingType DEF SInv, IoAccept
  <2> QED BY <2>1, <2>2, <2>3
<1>1. CASE IoReturn /\ UNCHANGED <<backlog, osVars>>
  <2>1. io'.pc = "top" /\ io'.h = NoHandle
    BY <1>1 DEF IoReturn, IoAt
  <2>2. UNCHANGED <<backlog, peer, open, lsn, sock, connections, todo, handleReady, end,
                    hd, out, th, user>>
    BY <1>1 DEF IoAccept, osVars, selVars, mgrVars
  <2> QED BY <1>0, <2>1, <2>2, IoMove
<1>2. ASSUME NEW h \in backlog[listen_sck],
             /\ Fd \ open # {}
             /\ backlog' = [backlog EXCEPT ![listen_sck] = @ \ {h}]
             /\ open' = open \cup {LowestFree}
             /\ sock' = [sock EXCEPT ![LowestFree] = h]
             /\ io' = [io EXCEPT !.pc = "lock", !.idx = listen_sck, !.h = h, !.f = LowestFree]
             /\ UNCHANGED <<lsn, tmpset>>
      PROVE  SInv'
  <2>1. PICK f \in Fd : f = LowestFree /\ f \notin open /\ sock[f] = NoHandle
    BY <1>2, FreeFd
  <2>2. /\ h \in Handle /\ \A i \in Fd : i # listen_sck => backlog'[i] = backlog[i]
        /\ backlog'[listen_sck] = backlog[listen_sck] \ {h}
    <3>1. backlog \in [Fd -> SUBSET Handle]
      BY Types DEF SInv
    <3> QED BY <1>0, <1>2, <3>1
  <2>3. sock'[f] = h /\ \A i \in Fd : i # f => sock'[i] = sock[i]
    <3>1. sock \in [Fd -> Handle \cup {NoHandle}]
      BY Types DEF SInv
    <3> QED BY <1>2, <2>1, <3>1
  <2>4. io'.pc = "lock" /\ io'.h = h /\ io'.f = f
    BY <1>0, <1>2, <2>1 DEF IoRec
  <2>5. /\ peer' = peer /\ connections' = connections /\ todo' = todo
        /\ handleReady' = handleReady /\ end' = end /\ hd' = hd /\ out' = out /\ th' = th
        /\ user' = user
    BY DEF IoAccept, selVars, mgrVars
  <2>6. /\ HandleOk(h) /\ hd[h].st = "none" /\ hd[h] = Unborn /\ peer[h] # "none"
        /\ \A t \in Thread : th[t].h # h
        /\ \A i \in Fd : h \in backlog[i] => i = listen_sck
    BY <1>0, <1>2, <2>2 DEF SInv, HandleInv, HandleOk, BirthOk
  <2>7. HandleOk(h)'
    <3>1. BirthOk(h)'
      BY <2>2, <2>4, <2>5, <2>6 DEF BirthOk
    <3>2. FdOk(h)' /\ TableOk(h)' /\ OutOk(h)'
      BY <2>5, <2>6 DEF HandleOk, FdOk, TableOk, OutOk, Unborn, AtWork
    <3> QED BY <3>1, <3>2 DEF HandleOk
  <2>8. OnlyAt(h, {})
    BY <1>0, <2>1, <2>2, <2>3, <2>4, <2>5, HandleAssumption DEF OnlyAt
  <2>9. SockInv'
    <3>1. lsn \subseteq open /\ lsn' = lsn
      BY <1>2 DEF SInv, SockInv
    <3>2. \A i \in Fd : sock'[i] # NoHandle => i \in open' /\ i \notin lsn'
      BY <1>2, <2>1, <2>3, <3>1 DEF SInv, SockInv
    <3> QED BY <1>2, <3>1, <3>2 DEF SockInv
  <2>10. IoOk'
    BY <2>3, <2>4, <2>5, <2>6 DEF IoOk
  <2>11. OneInv'
    BY <2>5 DEF SInv, OneInv
  <2>12. EndInv'
    BY <1>0, <2>4, <2>5 DEF SInv, EndInv
  <2>13. CountInv'
    BY <2>5, CountKept DEF SInv
  <2>14. /\ {} \in SUBSET Thread /\ h \in Handle \cup {NoHandle}
         /\ \A s \in {} : CallOk(s)' /\ EndOk(s)'
         /\ \A s \in Thread \ {} : h # NoHandle /\ th[s].h = h => CallOk(s)' /\ EndOk(s)'
    BY <2>2, <2>6
  <2> QED BY <1>0, <2>7, <2>8, <2>9, <2>10, <2>11, <2>12, <2>13, <2>14, StepSafe
<1> QED BY <1>1, <1>2 DEF IoAccept

\* The new connection gets its Handle, and the table its entry.
LEMMA IoNewConnectionSafe ==
  ASSUME SInv, IoNewConnection
  PROVE  SInv'
<1>0. io \in IoRec /\ IInv' /\ io.pc = "lock"
  BY Types, IoNewConnectionInv DEF SInv, IoNewConnection
<1>1. PICK h \in Handle, f \in Fd : h = io.h /\ f = io.f
  BY <1>0 DEF SInv, IInv, IoInv
<1>2. hd[h].st = "none" /\ sock[f] = h /\ \A s \in Thread : th[s].h # h
  BY <1>0, <1>1 DEF SInv, IoOk
<1>3. ~(peer[h] = "none" \/ \E i \in Fd : h \in backlog[i])
  BY <1>1 DEF SInv, HandleInv, HandleOk, BirthOk
<1>4. io'.pc = "handshake" /\ io'.h = h
  BY <1>0, <1>1 DEF IoNewConnection, IoRec
<1>5. /\ connections' = [connections EXCEPT ![f] = h]
      /\ UNCHANGED <<peer, backlog, sock, out>>
      /\ open' = open /\ lsn' = lsn /\ todo' = todo /\ handleReady' = handleReady
      /\ end' = end /\ th' = th /\ user' = user
  BY <1>1 DEF IoNewConnection, netVars, osVars, mgrVars
<1>6. /\ hd'[h].st = "alive" /\ hd'[h].fd = f /\ ~hd'[h].rd /\ ~hd'[h].wr /\ hd'[h].cnt = 0
      /\ \A g \in Handle : g # h => hd'[g] = hd[g]
  <2>1. hd \in [Handle -> HandleRec]
    BY Types DEF SInv
  <2> QED BY <1>1, <2>1 DEF IoNewConnection, NewHandle
<1>7. /\ HandleOk(h)' /\ hd[h].cnt = 0
      /\ \A g \in Handle \ {h}, i \in Fd : connections'[i] = g <=> connections[i] = g
  BY <1>2, <1>3, <1>5, <1>6, BornOk
<1>8. OnlyAt(h, {})
  <2>1. peer' = peer /\ backlog' = backlog /\ sock' = sock /\ out' = out
    BY <1>5
  <2> QED BY <1>0, <1>4, <1>5, <1>6, <1>7, <2>1 DEF OnlyAt
<1>9. SockInv'
  BY <1>5 DEF SInv, SockInv
<1>10. IoOk'
  BY <1>4, <1>6 DEF IoOk
<1>11. OneInv'
  BY <1>5 DEF SInv, OneInv
<1>12. EndInv'
  <2>1. todo = {}
    BY <1>0 DEF SInv, EndInv
  <2> QED BY <1>4, <1>5, <2>1 DEF SInv, EndInv
<1>13. CountInv'
  BY <1>5, <1>6, <1>7, CountKept DEF SInv
<1>14. /\ {} \in SUBSET Thread /\ h \in Handle \cup {NoHandle}
       /\ \A s \in {} : CallOk(s)' /\ EndOk(s)'
       /\ \A s \in Thread \ {} : h # NoHandle /\ th[s].h = h => CallOk(s)' /\ EndOk(s)'
  BY <1>2
<1> QED BY <1>0, <1>7, <1>8, <1>9, <1>10, <1>11, <1>12, <1>13, <1>14, StepSafe

\* A Handle at the end of the ready queue is one more position of it.
LEMMA QueuedPush ==
  ASSUME IInv, NEW h \in Handle, NEW b \in BOOLEAN,
         handleReady' = Append(handleReady, [h |-> h, new |-> b]), NEW g \in Handle
  PROVE  Cardinality(Queued(g)') = IF g = h THEN Cardinality(Queued(g)) + 1
                                            ELSE Cardinality(Queued(g))
<1> DEFINE n == Len(handleReady)
<1>1. /\ n \in Nat /\ DOMAIN handleReady = 1 .. n /\ DOMAIN handleReady' = 1 .. n + 1
      /\ \A i \in 1 .. n : handleReady'[i] = handleReady[i]
      /\ handleReady'[n + 1].h = h
  <2>1. handleReady \in Seq([h : Handle, new : BOOLEAN])
    BY Types
  <2> QED BY <2>1
<1>2. CASE g = h
  <2>1. Queued(g)' = Queued(g) \cup {n + 1} /\ n + 1 \notin Queued(g)
    BY <1>1, <1>2 DEF Queued
  <2>2. IsFiniteSet(Queued(g))
    BY FiniteCount
  <2> QED BY <1>2, <2>1, <2>2, FS_AddElement
<1>3. CASE g # h
  <2>1. Queued(g)' = Queued(g)
    BY <1>1, <1>3 DEF Queued
  <2> QED BY <1>3, <2>1
<1> QED BY <1>2, <1>3

\* The I/O thread hands a Handle over.
LEMMA PushSafe ==
  ASSUME SInv, NEW h \in Handle, NEW b \in BOOLEAN, hd[h].st = "alive", Push(h, b),
         io.pc # "exit", io'.pc \notin {"lock", "handshake", "exit"}, io'.h = NoHandle,
         UNCHANGED <<backlog, peer, open, lsn, sock, connections, todo, end, out, th, user>>,
         IInv'
  PROVE  SInv'
<1>1. /\ \A g \in Handle : g # h => hd'[g] = hd[g]
      /\ hd'[h].st = hd[h].st /\ hd'[h].fd = hd[h].fd /\ hd'[h].rd = hd[h].rd
      /\ hd'[h].wr = hd[h].wr /\ hd'[h].cnt = hd[h].cnt + 1
  <2>1. hd \in [Handle -> HandleRec]
    BY Types DEF SInv
  <2> QED BY <2>1 DEF Push, HandleRec
<1>2. /\ backlog' = backlog /\ peer' = peer /\ sock' = sock /\ connections' = connections
      /\ todo' = todo /\ end' = end /\ out' = out /\ th' = th /\ user' = user
  OBVIOUS
<1>3. OnlyAt(h, {})
  BY <1>1, <1>2 DEF OnlyAt
<1>4. \A pcs : AtWork(h, pcs)' = AtWork(h, pcs)
  BY DEF AtWork
<1>5. HandleOk(h)'
  <2>1. HandleOk(h)
    BY DEF SInv, HandleInv
  <2>2. BirthOk(h)'
    BY <1>1, <1>2, <2>1, HandleAssumption DEF HandleOk, BirthOk
  <2>3. FdOk(h)'
    BY <1>1, <1>2, <1>4, <2>1 DEF HandleOk, FdOk
  <2>4. TableOk(h)'
    BY <1>1, <1>2, <1>4, <2>1 DEF HandleOk, TableOk
  <2>5. OutOk(h)'
    BY <1>1, <1>2, <1>4, <2>1 DEF HandleOk, OutOk
  <2> QED BY <2>2, <2>3, <2>4, <2>5 DEF HandleOk
<1>6. ASSUME NEW s \in Thread, th[s].h = h
      PROVE  CallOk(s)' /\ EndOk(s)'
  <2>1. CallOk(s) /\ EndOk(s)
    BY DEF SInv, ThreadInv
  <2>2. CallOk(s)'
    BY <1>1, <1>2, <1>6, <2>1 DEF CallOk
  <2>3. EndOk(s)'
    BY <1>1, <1>2, <1>6, <2>1 DEF EndOk
  <2> QED BY <2>2, <2>3
<1>7. SockInv' /\ OneInv'
  BY DEF SInv, SockInv, OneInv
<1>8. IoOk'
  BY DEF IoOk
<1>9. EndInv'
  BY DEF SInv, EndInv
<1>10. CountInv'
  <2>1. \A g \in Handle : Cardinality(Queued(g)') = IF g = h THEN Cardinality(Queued(g)) + 1
                                                             ELSE Cardinality(Queued(g))
    BY QueuedPush DEF SInv, Push
  <2>2. \A g \in Handle : Holders(g)' = Holders(g)
    BY DEF Holders
  <2>3. \A g \in Handle : /\ hd[g].cnt = Cardinality(Holders(g)) + Cardinality(Queued(g))
                          /\ Cardinality(Holders(g)) \in Nat /\ Cardinality(Queued(g)) \in Nat
    BY FiniteCount DEF SInv, CountInv
  <2>4. ASSUME NEW g \in Handle
        PROVE  hd'[g].cnt = Cardinality(Holders(g)') + Cardinality(Queued(g)')
    BY <1>1, <2>1, <2>2, <2>3
  <2> QED BY <2>4 DEF CountInv
<1>11. /\ {} \in SUBSET Thread /\ h \in Handle \cup {NoHandle}
       /\ \A s \in {} : CallOk(s)' /\ EndOk(s)'
       /\ \A s \in Thread \ {} : h # NoHandle /\ th[s].h = h => CallOk(s)' /\ EndOk(s)'
  BY <1>6
<1> QED BY <1>3, <1>5, <1>7, <1>8, <1>9, <1>10, <1>11, StepSafe

\* The loop goes on to the next descriptor.
LEMMA NextIdxAt ==
  ASSUME SInv, io' = NextIdx
  PROVE  io'.pc = "loop" /\ io'.h = NoHandle
<1>1. io \in IoRec
  BY Types DEF SInv
<1> QED BY <1>1 DEF NextIdx, IoRec

\* The handshake ends with the Handle in a queue, or with nobody.
LEMMA IoHandshakeSafe ==
  ASSUME SInv, IoHandshake
  PROVE  SInv'
<1>1. /\ io.pc = "handshake" /\ io'.pc = "loop" /\ io'.h = NoHandle /\ IInv'
      /\ UNCHANGED <<backlog, peer, open, lsn, sock, connections, todo, end, out, th, user>>
  BY NextIdxAt, IoHandshakeInv DEF SInv, IoHandshake, osVars, selVars
<1>2. PICK h \in Handle : h = io.h
  BY <1>1 DEF SInv, IInv, IoInv
<1>3. hd[h].st = "alive"
  BY <1>1, <1>2 DEF SInv, IoOk
<1>4. Push(h, TRUE) \/ UNCHANGED <<handleReady, hd>>
  BY <1>2 DEF IoHandshake
<1>5. CASE Push(h, TRUE)
  BY <1>1, <1>3, <1>5, PushSafe
<1>6. CASE UNCHANGED <<handleReady, hd>>
  BY <1>1, <1>6, IoMove
<1> QED BY <1>4, <1>5, <1>6

\* A readable connection goes from the watched set to the queue.
LEMMA IoReadySafe ==
  ASSUME SInv, IoReady
  PROVE  SInv'
<1>1. /\ io.pc = "ready" /\ io'.pc = "loop" /\ io'.h = NoHandle /\ IInv'
      /\ UNCHANGED <<backlog, peer, open, lsn, sock, connections, todo, end, out, th, user>>
  BY NextIdxAt, IoReadyInv DEF SInv, IoReady, netVars, osVars
<1>2. CASE connections[io.idx] # NoHandle /\ Push(connections[io.idx], FALSE)
  <2>1. io.idx \in Fd
    BY <1>1 DEF SInv, IInv, IoInv
  <2>2. connections \in [Fd -> Handle \cup {NoHandle}]
    BY Types DEF SInv
  <2>3. PICK h \in Handle : h = connections[io.idx]
    BY <1>2, <2>1, <2>2
  <2>4. hd[h].st = "alive"
    BY <2>1, <2>3 DEF SInv, HandleInv, HandleOk, TableOk
  <2> QED BY <1>1, <1>2, <2>3, <2>4, PushSafe
<1>3. CASE UNCHANGED <<handleReady, hd>>
  BY <1>1, <1>3, IoMove
<1> QED BY <1>2, <1>3 DEF IoReady

\* So every step of the I/O thread is safe.
LEMMA IoNextSafe ==
  ASSUME SInv, IoNext
  PROVE  SInv'
  BY IoLoopSafe, IoAcceptSafe, IoNewConnectionSafe, IoHandshakeSafe, IoReadySafe DEF IoNext

-----------------------------------------------------------------------------
(* Manager::finalize and ConnTcp::end *)

\* finalize starts when the other threads have stopped.
LEMMA FinalizeSafe ==
  ASSUME SInv, NEW t \in Thread, NEW b \in BlockFlags, Finalize(t, b)
  PROVE  SInv'
<1>1. /\ \A s \in Thread : th[s].pc = "idle" /\ th[s].h = NoHandle /\ th[s].u = NoUser
      /\ ~end /\ end'
      /\ UNCHANGED <<backlog, peer, open, lsn, sock, connections, io, hd, out, todo,
                     handleReady, user>>
  <2>1. \A s \in Thread : th[s].pc = "idle"
    BY DEF Finalize
  <2>2. \A s \in Thread : th[s].h = NoHandle /\ th[s].u = NoUser
    BY <2>1 DEF SInv, ThreadInv, CallOk, Busy, Calling, Closing
  <2> QED BY <2>1, <2>2 DEF Finalize, netVars, osVars, selVars
<1>2. /\ th'[t].pc = "join" /\ th'[t].h = NoHandle /\ th'[t].u = NoUser
      /\ \A s \in Thread : s # t => th'[s] = th[s]
  <2>1. th \in [Thread -> ThRec]
    BY Types DEF SInv
  <2> QED BY <1>1, <2>1 DEF Finalize, ThRec
<1>3. HandleInv' /\ IoOk'
  <2>1. /\ \A s \in Thread : th[s].pc \in Closing => th'[s] = th[s]
        /\ \A s \in Thread, h \in Handle : th'[s].h # h
    BY <1>1, <1>2, HandleAssumption DEF Closing
  <2> QED BY <1>1, <2>1, MoveHandles
<1>4. ThreadInv'
  <2>1. ASSUME NEW s \in Thread
        PROVE  CallOk(s)' /\ EndOk(s)'
    <3>1. /\ th'[s].pc \in {"idle", "join"} /\ th'[s].h = NoHandle /\ th'[s].u = NoUser
      BY <1>1, <1>2
    <3>2. th'[s].pc \notin Busy \cup {"drain"} /\ th'[s].pc # "end"
      BY <3>1 DEF Busy, Calling, Closing
    <3> QED BY <1>1, <3>1, <3>2, NoCallOk
  <2> QED BY <2>1 DEF ThreadInv
<1>5. OneInv'
  <2>1. th'[t].pc \notin Busy
    BY <1>2 DEF Busy, Calling, Closing
  <2> QED BY <1>2, <2>1, OneKept
<1>6. EndInv'
  <2>1. \A s \in Thread : th'[s].pc \in Ending => s = t
    BY <1>1, <1>2 DEF Ending
  <2>2. todo' = {} /\ io' = io
    BY <1>1 DEF SInv, EndInv
  <2> QED BY <1>1, <2>1, <2>2 DEF SInv, EndInv
<1>7. SockInv'
  BY <1>1 DEF SInv, SockInv
<1>8. CountInv'
  BY <1>1, CountKept DEF SInv
<1>9. IInv'
  BY FinalizeInv DEF SInv
<1> QED BY <1>3, <1>4, <1>5, <1>6, <1>7, <1>8, <1>9 DEF SInv

\* The I/O thread has stopped: what is in the table is to be closed.
LEMMA FinalizeJoinSafe ==
  ASSUME SInv, NEW t \in Thread, FinalizeJoin(t)
  PROVE  SInv'
<1>1. /\ th[t].pc = "join" /\ io.pc = "exit" /\ end
      /\ th[t].h = NoHandle /\ th[t].u = NoUser
      /\ todo' = {f \in Fd : connections[f] # NoHandle}
      /\ UNCHANGED <<backlog, peer, open, lsn, sock, connections, io, hd, out, end,
                     handleReady, user>>
  BY DEF FinalizeJoin, netVars, osVars, selVars, mgrVars, SInv, EndInv, ThreadInv, CallOk,
         Busy, Calling, Closing
<1>2. /\ th'[t].pc = "end" /\ th'[t].h = NoHandle /\ th'[t].u = NoUser
      /\ \A s \in Thread : s # t => th'[s] = th[s]
  <2>1. th \in [Thread -> ThRec]
    BY Types DEF SInv
  <2> QED BY <1>1, <2>1 DEF FinalizeJoin, ThRec
<1>3. HandleInv' /\ IoOk'
  <2>1. /\ \A s \in Thread : th[s].pc \in Closing => th'[s] = th[s]
        /\ \A s \in Thread, h \in Handle : th'[s].h = h => th[s].h = h
    BY <1>1, <1>2, HandleAssumption DEF Closing
  <2> QED BY <1>1, <2>1, MoveHandles
<1>4. \A s \in Thread : th'[s].pc \in Ending => s = t
  BY <1>1, <1>2 DEF SInv, EndInv, Ending
<1>5. ThreadInv'
  <2>1. th'[t].pc \notin Busy \cup {"drain"} /\ end' /\ io'.pc = "exit"
    BY <1>1, <1>2 DEF Busy, Calling, Closing
  <2>2. CallOk(t)' /\ EndOk(t)'
    BY <1>2, <2>1, NoCallOk
  <2>3. ASSUME NEW s \in Thread, s # t
        PROVE  CallOk(s)' /\ EndOk(s)'
    <3>1. CallOk(s) /\ EndOk(s) /\ th'[s] = th[s]
      BY <1>2, <2>3 DEF SInv, ThreadInv
    <3>2. th'[s].pc \notin Ending
      BY <1>4, <2>3
    <3>3. CallOk(s)'
      BY <1>1, <3>1 DEF CallOk
    <3>4. EndOk(s)'
      BY <3>2 DEF EndOk, Ending
    <3> QED BY <3>3, <3>4
  <2> QED BY <2>2, <2>3 DEF ThreadInv
<1>6. OneInv'
  <2>1. th'[t].pc \notin Busy
    BY <1>2 DEF Busy, Calling, Closing
  <2> QED BY <1>2, <2>1, OneKept
<1>7. EndInv'
  BY <1>1, <1>4 DEF EndInv
<1>8. SockInv'
  BY <1>1 DEF SInv, SockInv
<1>9. CountInv'
  BY <1>1, CountKept DEF SInv
<1>10. IInv'
  BY FinalizeJoinInv DEF SInv
<1> QED BY <1>3, <1>5, <1>6, <1>7, <1>8, <1>9, <1>10 DEF SInv

\* What the thread in end() knows of a Handle in the table: it is open for reading,
\* and the calls in progress on it only yield it or give it up.
LEMMA EndEntry ==
  ASSUME SInv, NEW t \in Thread, NEW h \in Handle, NEW f \in Fd, connections[f] = h,
         th[t].pc \in {"end", "drain"}
  PROVE  /\ end /\ io.pc = "exit" /\ io.h = NoHandle /\ th[t].u = NoUser
         /\ hd[h].st = "alive" /\ hd[h].fd = f /\ ~hd[h].rd /\ sock[f] = h
         /\ hd[h].wr => out[h] = <<"eos", "fin">>
         /\ ~hd[h].wr => out[h] = <<>>
         /\ \A s \in Thread : s # t /\ th[s].h = h =>
              /\ th[s].pc \in {"yield", "dec"} /\ th[s].u \in User
              /\ user[th[s].u].h = h /\ hd[h].cnt > 0
<1>1. end /\ io.pc = "exit" /\ io.h = NoHandle
  BY DEF SInv, ThreadInv, EndOk, Ending, IoOk
<1>2. \A s \in Thread : th[s].pc \notin Closing \cup {"conn"}
  BY <1>1 DEF SInv, ThreadInv, CallOk
<1>3. hd[h].st = "alive" /\ hd[h].fd = f /\ ~hd[h].rd
  BY <1>2 DEF SInv, HandleInv, HandleOk, TableOk, AtWork, Closing
<1>4. sock[f] = h
  BY <1>3, OwnEntry
<1>5. (hd[h].wr => out[h] = <<"eos", "fin">>) /\ (~hd[h].wr => out[h] = <<>>)
  BY <1>2 DEF SInv, HandleInv, HandleOk, OutOk, AtWork, Closing
<1>6. ASSUME NEW s \in Thread, s # t, th[s].h = h
      PROVE  /\ th[s].pc \in {"yield", "dec"} /\ th[s].u \in User
             /\ user[th[s].u].h = h /\ hd[h].cnt > 0
  <2>1. th[s].pc # "drain"
    BY <1>6 DEF SInv, EndInv, Ending
  <2>2. th[s].pc \in {"yield", "dec"}
    BY <1>2, <1>6, <2>1, HandleAssumption DEF SInv, ThreadInv, CallOk, Busy, Calling, Closing
  <2>3. th[s].u \in User /\ user[th[s].u].h = h
    BY <1>6, <2>2, InCall DEF Calling
  <2> QED BY <2>2, <2>3, HeldCount
<1>7. th[t].u = NoUser
  BY DEF SInv, ThreadInv, CallOk, Busy, Calling, Closing
<1> QED BY <1>1, <1>3, <1>4, <1>5, <1>6, <1>7

\* A thread that yields or gives up a Handle is not disturbed by its last close.
LEMMA YieldKept ==
  ASSUME SInv, NEW s \in Thread, NEW h \in Handle, th[s].pc \in {"yield", "dec"},
         th[s].h = h, hd'[h].st = "alive", th'[s] = th[s], UNCHANGED user
  PROVE  CallOk(s)' /\ EndOk(s)'
<1>1. CallOk(s)
  BY DEF SInv, ThreadInv
<1>2. CallOk(s)'
  BY <1>1 DEF CallOk, Busy, Calling, Closing
<1>3. EndOk(s)'
  BY DEF EndOk, Ending
<1> QED BY <1>2, <1>3

\* The last close of a Handle, h->close(false, true) after the write side.
LEMMA FinalCloseSafe ==
  ASSUME SInv, NEW t \in Thread, NEW h \in Handle, NEW f \in Fd, connections[f] = h,
         th[t].pc \in {"end", "drain"}, th[t].h \in {h, NoHandle}, FinalClose(h, f),
         \A s \in Thread : s # t => th'[s] = th[s],
         th'[t].pc = "end", th'[t].h = NoHandle, th'[t].u = NoUser,
         out'[h] = <<"eos", "fin">>, \A g \in Handle : g # h => out'[g] = out[g],
         todo' = todo \ {f},
         UNCHANGED <<backlog, peer, io, handleReady, end, user>>, IInv'
  PROVE  SInv'
<1>1. /\ end /\ io.pc = "exit" /\ io.h = NoHandle /\ th[t].u = NoUser
      /\ hd[h].st = "alive" /\ hd[h].fd = f /\ ~hd[h].rd /\ sock[f] = h
      /\ \A s \in Thread : s # t /\ th[s].h = h =>
           /\ th[s].pc \in {"yield", "dec"} /\ th[s].u \in User
           /\ user[th[s].u].h = h /\ hd[h].cnt > 0
  BY EndEntry
<1>2. /\ \A g \in Handle : g # h => hd'[g] = hd[g]
      /\ hd'[h].rd /\ hd'[h].wr /\ hd'[h].fd = -1 /\ hd'[h].cnt = hd[h].cnt
      /\ hd'[h].st = IF hd[h].cnt = 0 THEN "deleted" ELSE "alive"
  <2>1. hd \in [Handle -> HandleRec]
    BY Types DEF SInv
  <2> QED BY <1>1, <2>1 DEF FinalClose, Reap, HandleRec
<1>3. /\ connections'[f] = NoHandle /\ \A i \in Fd : i # f => connections'[i] = connections[i]
      /\ sock'[f] = NoHandle /\ \A i \in Fd : i # f => sock'[i] = sock[i]
      /\ open' = open \ {f} /\ lsn' = lsn \ {f}
  <2>1. /\ connections \in [Fd -> Handle \cup {NoHandle}]
        /\ sock \in [Fd -> Handle \cup {NoHandle}]
    BY Types DEF SInv
  <2> QED BY <2>1 DEF FinalClose, Erase, CloseFd
<1>4. OnlyAt(h, {t})
  <2>1. /\ backlog' = backlog /\ peer' = peer /\ io' = io /\ end' = end /\ user' = user
        /\ todo' \subseteq todo
    OBVIOUS
  <2>2. \A g \in Handle \ {h}, i \in Fd : /\ connections'[i] = g <=> connections[i] = g
                                          /\ sock'[i] = g <=> sock[i] = g
    BY <1>1, <1>3, HandleAssumption
  <2> QED BY <1>2, <2>1, <2>2 DEF OnlyAt
<1>5. HandleOk(h)'
  <2>1. HandleOk(h)
    BY DEF SInv, HandleInv
  <2>2. BirthOk(h)'
    BY <1>1, <1>2, <2>1 DEF HandleOk, BirthOk
  <2>3. FdOk(h)'
    BY <1>2 DEF FdOk
  <2>4. \A i \in Fd : connections'[i] # h
    BY <1>1, <1>3, <2>1, HandleAssumption DEF HandleOk, TableOk
  <2>5. TableOk(h)' /\ OutOk(h)'
    BY <1>2, <2>4 DEF TableOk, OutOk
  <2> QED BY <2>2, <2>3, <2>5 DEF HandleOk
<1>6. ASSUME NEW s \in Thread, s # t, th[s].h = h
      PROVE  CallOk(s)' /\ EndOk(s)'
  <2>1. hd'[h].st = "alive" /\ th[s].pc \in {"yield", "dec"} /\ th'[s] = th[s]
    BY <1>1, <1>2, <1>6
  <2> QED BY <1>6, <2>1, YieldKept
<1>7. CallOk(t)' /\ EndOk(t)'
  <2>1. th'[t].pc \notin Busy \cup {"drain"} /\ end' /\ io'.pc = "exit"
    BY <1>1 DEF Busy, Calling, Closing
  <2> QED BY <2>1, NoCallOk
<1>8. SockInv'
  BY <1>3 DEF SInv, SockInv
<1>9. IoOk'
  BY <1>1, <1>4, OtherIo, HandleAssumption
<1>10. OneInv'
  <2>1. th'[t].pc \notin Busy
    BY DEF Busy, Calling, Closing
  <2> QED BY <2>1, OneKept
<1>11. EndInv'
  <2>1. \A s \in Thread : th'[s].pc \in Ending => s = t
    BY DEF SInv, EndInv, Ending
  <2>2. \A i \in todo' : connections'[i] # NoHandle
    <3>1. todo \subseteq Fd
      BY Types DEF SInv
    <3> QED BY <1>3, <3>1 DEF SInv, EndInv
  <2> QED BY <1>1, <2>1, <2>2 DEF EndInv
<1>12. CountInv'
  BY <1>2, CountKept DEF SInv
<1>13. /\ {t} \in SUBSET Thread /\ h \in Handle \cup {NoHandle}
       /\ \A s \in {t} : CallOk(s)' /\ EndOk(s)'
       /\ \A s \in Thread \ {t} : h # NoHandle /\ th[s].h = h => CallOk(s)' /\ EndOk(s)'
  BY <1>6, <1>7
<1> QED BY <1>4, <1>5, <1>8, <1>9, <1>10, <1>11, <1>12, <1>13, StepSafe

\* setAsClosed tells the peer, unless a close did, that nothing more is coming.
LEMMA EndWrites ==
  ASSUME SInv, NEW h \in Handle, NEW f \in Fd, hd[h].st # "none", hd[h].fd = f,
         hd[h].wr => out[h] = <<"eos", "fin">>, ~hd[h].wr => out[h] = <<>>,
         out' = IF hd[h].wr THEN out ELSE Write(Write(out, f, "eos"), f, "fin")
  PROVE  out'[h] = <<"eos", "fin">> /\ \A g \in Handle : g # h => out'[g] = out[g]
<1>1. CASE hd[h].wr
  BY <1>1
<1>2. CASE ~hd[h].wr
  <2>1. hd[h].fd # -1 /\ out \in [Handle -> Seq({"eos", "fin"})] /\ out[h] = <<>>
    BY <1>2, Types, BoundAssumption DEF SInv, Fd
  <2>2. PICK o : o = Write(out, f, "eos")
    OBVIOUS
  <2>3. o = [out EXCEPT ![h] = Append(@, "eos")]
    BY <2>1, <2>2, WriteOwn
  <2>4. /\ o[h] = <<"eos">> /\ DOMAIN o = Handle
        /\ \A g \in Handle : g # h => o[g] = out[g]
    BY <2>1, <2>3
  <2>5. "fin" \notin {o[h][i] : i \in DOMAIN o[h]}
    BY <2>4
  <2>6. out' = [o EXCEPT ![h] = Append(@, "fin")]
    <3>1. Write(o, f, "fin") = IF "fin" \in {o[h][i] : i \in DOMAIN o[h]}
                               THEN o ELSE [o EXCEPT ![h] = Append(@, "fin")]
      BY <2>1, WriteOwn, Zenon
    <3>2. out' = Write(o, f, "fin")
      BY <1>2, <2>2
    <3> QED BY <2>5, <3>1, <3>2, Zenon
  <2>7. out'[h] = Append(o[h], "fin") /\ \A g \in Handle : g # h => out'[g] = o[g]
    BY <2>4, <2>6, Zenon
  <2>8. out'[h] = <<"eos", "fin">>
    BY <2>4, <2>7, EosFin
  <2> QED BY <2>4, <2>7, <2>8, Zenon
<1> QED BY <1>1, <1>2

\* setAsClosed for the next entry of the table.
LEMMA SetAsClosedSafe ==
  ASSUME SInv, NEW t \in Thread, SetAsClosed(t)
  PROVE  SInv'
<1>0. /\ th[t].pc = "end" /\ th[t].h = NoHandle /\ th \in [Thread -> ThRec] /\ IInv'
      /\ todo # {} /\ todo \in SUBSET Fd
      /\ UNCHANGED <<backlog, peer, io, handleReady, end, user>>
  <2>1. th \in [Thread -> ThRec] /\ IInv' /\ todo \in SUBSET Fd
    BY Types, SetAsClosedInv DEF SInv
  <2>2. th[t].pc = "end" /\ todo # {} /\ UNCHANGED <<backlog, peer, io, handleReady, end, user>>
    BY DEF SetAsClosed, netVars, mgrVars
  <2>3. th[t].h = NoHandle
    BY <2>2 DEF SInv, ThreadInv, CallOk, Busy, Calling, Closing
  <2> QED BY <2>1, <2>2, <2>3
<1>1. PICK f \in Fd : f = Min(todo) /\ f \in todo
  BY <1>0, FdMin
<1>2. PICK h \in Handle : h = connections[f]
  <2>1. connections \in [Fd -> Handle \cup {NoHandle}]
    BY Types DEF SInv
  <2> QED BY <1>1, <2>1 DEF SInv, EndInv
<1>3. /\ todo' = todo \ {f}
      /\ out' = IF hd[h].wr THEN out ELSE Write(Write(out, f, "eos"), f, "fin")
      /\ \/ /\ hd' = [hd EXCEPT ![h].wr = TRUE]
            /\ th' = [th EXCEPT ![t].pc = "drain", ![t].h = h]
            /\ UNCHANGED <<osVars, selVars>>
         \/ FinalClose(h, f) /\ UNCHANGED th
  BY <1>1, <1>2 DEF SetAsClosed
<1>4. /\ end /\ io.pc = "exit" /\ io.h = NoHandle /\ th[t].u = NoUser
      /\ hd[h].st = "alive" /\ hd[h].fd = f /\ ~hd[h].rd /\ sock[f] = h
      /\ hd[h].wr => out[h] = <<"eos", "fin">>
      /\ ~hd[h].wr => out[h] = <<>>
      /\ \A s \in Thread : s # t /\ th[s].h = h =>
           /\ th[s].pc \in {"yield", "dec"} /\ th[s].u \in User
           /\ user[th[s].u].h = h /\ hd[h].cnt > 0
  BY <1>0, <1>2, EndEntry
<1>5. out'[h] = <<"eos", "fin">> /\ \A g \in Handle : g # h => out'[g] = out[g]
  BY <1>3, <1>4, EndWrites
<1>6. CASE FinalClose(h, f) /\ UNCHANGED th
  <2>1. th'[t].pc = "end" /\ th'[t].h = NoHandle /\ th'[t].u = NoUser
    BY <1>0, <1>4, <1>6
  <2> QED BY <1>0, <1>2, <1>3, <1>5, <1>6, <2>1, FinalCloseSafe
<1>7. CASE /\ hd' = [hd EXCEPT ![h].wr = TRUE]
           /\ th' = [th EXCEPT ![t].pc = "drain", ![t].h = h]
           /\ UNCHANGED <<osVars, selVars>>
  <2>1. /\ \A g \in Handle : g # h => hd'[g] = hd[g]
        /\ hd'[h].st = "alive" /\ hd'[h].fd = f /\ ~hd'[h].rd /\ hd'[h].wr
        /\ hd'[h].cnt = hd[h].cnt
    <3>1. hd \in [Handle -> HandleRec]
      BY Types DEF SInv
    <3> QED BY <1>4, <1>7, <3>1 DEF HandleRec
  <2>2. /\ th'[t].pc = "drain" /\ th'[t].h = h /\ th'[t].u = NoUser
        /\ \A s \in Thread : s # t => th'[s] = th[s]
    BY <1>0, <1>4, <1>7 DEF ThRec
  <2>3. /\ sock' = sock /\ open' = open /\ lsn' = lsn /\ connections' = connections
        /\ backlog' = backlog /\ peer' = peer /\ io' = io /\ end' = end /\ user' = user
        /\ todo' \subseteq todo
    BY <1>0, <1>3, <1>7 DEF osVars, selVars
  <2>4. OnlyAt(h, {t})
    BY <1>0, <1>5, <2>1, <2>2, <2>3 DEF OnlyAt
  <2>5. HandleOk(h)'
    <3>1. HandleOk(h)
      BY DEF SInv, HandleInv
    <3>2. BirthOk(h)'
      BY <1>4, <2>1, <2>3, <3>1 DEF HandleOk, BirthOk
    <3>3. FdOk(h)'
      BY <1>4, <2>1, <2>3, <3>1, BoundAssumption DEF HandleOk, FdOk, Fd
    <3>4. TableOk(h)'
      BY <1>4, <2>1, <2>3, <3>1 DEF HandleOk, TableOk
    <3>5. OutOk(h)'
      BY <1>5, <2>1 DEF OutOk
    <3> QED BY <3>2, <3>3, <3>4, <3>5 DEF HandleOk
  <2>6. ASSUME NEW s \in Thread, s # t, th[s].h = h
        PROVE  CallOk(s)' /\ EndOk(s)'
    BY <1>4, <2>1, <2>2, <2>3, <2>6, YieldKept
  <2>7. CallOk(t)'
    BY <2>2 DEF CallOk, Busy, Calling, Closing
  <2>8. EndOk(t)'
    BY <1>3, <1>4, <2>1, <2>2, <2>3 DEF EndOk
  <2>9. SockInv'
    BY <2>3 DEF SInv, SockInv
  <2>10. IoOk'
    BY <1>4, <2>3, <2>4, OtherIo, HandleAssumption
  <2>11. OneInv'
    <3>1. th'[t].pc \notin Busy
      BY <2>2 DEF Busy, Calling, Closing
    <3> QED BY <2>2, <3>1, OneKept
  <2>12. EndInv'
    BY <1>0, <1>4, <2>2, <2>3 DEF SInv, EndInv, Ending
  <2>13. CountInv'
    BY <1>0, <2>1, CountKept DEF SInv
  <2>14. /\ {t} \in SUBSET Thread /\ h \in Handle \cup {NoHandle}
         /\ \A s \in {t} : CallOk(s)' /\ EndOk(s)'
         /\ \A s \in Thread \ {t} : h # NoHandle /\ th[s].h = h => CallOk(s)' /\ EndOk(s)'
    BY <2>6, <2>7, <2>8
  <2> QED BY <1>0, <2>4, <2>5, <2>9, <2>10, <2>11, <2>12, <2>13, <2>14, StepSafe
<1> QED BY <1>3, <1>6, <1>7

\* A thread of finalize that leaves its Handle where it is.
LEMMA EndMoveSafe ==
  ASSUME SInv, NEW t \in Thread, th[t].pc \in {"end", "drain"},
         \A s \in Thread : s # t => th'[s] = th[s],
         th'[t].pc \in {"end", "idle"}, th'[t].h = NoHandle, th'[t].u = NoUser,
         UNCHANGED <<backlog, peer, open, lsn, sock, connections, io, todo, handleReady, end,
                     hd, out, user>>,
         IInv'
  PROVE  SInv'
<1>1. end /\ io.pc = "exit"
  BY DEF SInv, ThreadInv, EndOk, Ending
<1>2. /\ th'[t].pc \notin Busy \cup {"drain"} /\ th[t].pc \notin Closing
      /\ th[t].pc \in Ending
  BY DEF Busy, Calling, Closing, Ending
<1>3. CallOk(t)' /\ EndOk(t)'
  BY <1>1, <1>2, NoCallOk
<1>4. OneInv'
  BY <1>2, OneKept
<1>5. SockInv'
  BY DEF SInv, SockInv
<1>6. \A h \in Handle : th'[t].h # h
  BY HandleAssumption
<1> QED BY <1>2, <1>3, <1>4, <1>5, <1>6, MoveSafe

\* Its wait for EOS.
LEMMA DrainSafe ==
  ASSUME SInv, NEW t \in Thread, Drain(t)
  PROVE  SInv'
<1>0. /\ th[t].pc = "drain" /\ th \in [Thread -> ThRec] /\ hd \in [Handle -> HandleRec] /\ IInv'
      /\ UNCHANGED <<backlog, peer, io, handleReady, end, out, user, todo>>
  <2>1. th \in [Thread -> ThRec] /\ hd \in [Handle -> HandleRec] /\ IInv'
    BY Types, DrainInv DEF SInv
  <2>2. th[t].pc = "drain" /\ UNCHANGED <<backlog, peer, io, handleReady, end, out, user, todo>>
    BY DEF Drain, mgrVars
  <2> QED BY <2>1, <2>2
<1>1. PICK h \in Handle : h = th[t].h
  BY <1>0 DEF SInv, ThreadInv, EndOk
<1>2. hd[h].st = "alive" /\ ~hd[h].rd /\ hd[h].wr /\ hd[h].fd \notin todo
  BY <1>0, <1>1 DEF SInv, ThreadInv, EndOk
<1>3. PICK f \in Fd : f = hd[h].fd /\ connections[f] = h
  <2>1. FdOk(h)
    BY DEF SInv, HandleInv, HandleOk
  <2>2. hd[h].fd \in Fd \cup {-1}
    BY <1>0 DEF HandleRec
  <2> QED BY <1>2, <2>1, <2>2 DEF FdOk
<1>4. th[t].u = NoUser /\ out[h] = <<"eos", "fin">>
  BY <1>0, <1>2, <1>3, EndEntry
<1>5. th' = [th EXCEPT ![t].pc = "end", ![t].h = NoHandle] =>
        /\ th'[t].pc = "end" /\ th'[t].h = NoHandle /\ th'[t].u = NoUser
        /\ \A s \in Thread : s # t => th'[s] = th[s]
  BY <1>0, <1>4 DEF ThRec
<1>6. \/ hd' = [hd EXCEPT ![h].probed = "no"] /\ UNCHANGED <<th, osVars, selVars>>
      \/ UNCHANGED <<hd, th, osVars, selVars>>
      \/ FinalClose(h, f) /\ th' = [th EXCEPT ![t].pc = "end", ![t].h = NoHandle]
      \/ /\ th' = [th EXCEPT ![t].pc = "end", ![t].h = NoHandle]
         /\ UNCHANGED <<hd, osVars, selVars>>
  BY <1>1, <1>3 DEF Drain
<1>7. CASE hd' = [hd EXCEPT ![h].probed = "no"] /\ UNCHANGED <<th, osVars, selVars>>
  <2>1. \A g \in Handle : /\ hd'[g].st = hd[g].st /\ hd'[g].fd = hd[g].fd
                          /\ hd'[g].cnt = hd[g].cnt
                          /\ hd'[g].rd = hd[g].rd /\ hd'[g].wr = hd[g].wr
                          /\ hd[g].st = "none" => hd'[g] = hd[g]
    BY <1>0, <1>2, <1>7 DEF HandleRec
  <2>2. /\ UNCHANGED <<backlog, peer, open, lsn, sock, connections, io, todo, handleReady,
                       end, out, th>>
        /\ \A v \in User : user'[v].h = user[v].h
    BY <1>0, <1>7 DEF osVars, selVars
  <2> QED BY <1>0, <2>1, <2>2, QuietSafe
<1>8. CASE UNCHANGED <<hd, th, osVars, selVars>>
  <2>1. /\ UNCHANGED <<backlog, peer, open, lsn, sock, connections, io, todo, handleReady,
                       end, out, th>>
        /\ \A v \in User : user'[v].h = user[v].h
    BY <1>0, <1>8 DEF osVars, selVars
  <2> QED BY <1>0, <1>8, <2>1, QuietSafe
<1>9. CASE FinalClose(h, f) /\ th' = [th EXCEPT ![t].pc = "end", ![t].h = NoHandle]
  <2>1. /\ out'[h] = <<"eos", "fin">> /\ (\A g \in Handle : g # h => out'[g] = out[g])
        /\ todo' = todo \ {f}
    BY <1>0, <1>2, <1>3, <1>4
  <2> QED BY <1>0, <1>1, <1>3, <1>5, <1>9, <2>1, FinalCloseSafe
<1>10. CASE /\ th' = [th EXCEPT ![t].pc = "end", ![t].h = NoHandle]
            /\ UNCHANGED <<hd, osVars, selVars>>
  <2>1. UNCHANGED <<backlog, peer, open, lsn, sock, connections, io, todo, handleReady, end,
                    hd, out, user>>
    BY <1>0, <1>10 DEF osVars, selVars
  <2> QED BY <1>0, <1>5, <1>10, <2>1, EndMoveSafe
<1> QED BY <1>6, <1>7, <1>8, <1>9, <1>10

\* finalize returns.
LEMMA FinalizeEndSafe ==
  ASSUME SInv, NEW t \in Thread, FinalizeEnd(t)
  PROVE  SInv'
<1>1. th[t].pc = "end" /\ th'[t] = Idle /\ \A s \in Thread : s # t => th'[s] = th[s]
  <2>1. th \in [Thread -> ThRec]
    BY Types DEF SInv
  <2> QED BY <2>1 DEF FinalizeEnd
<1>2. /\ UNCHANGED <<backlog, peer, open, lsn, sock, connections, io, todo, handleReady, end,
                     hd, out, user>>
      /\ IInv'
  BY FinalizeEndInv DEF FinalizeEnd, netVars, osVars, selVars, mgrVars, SInv
<1>3. th'[t].pc = "idle" /\ th'[t].h = NoHandle /\ th'[t].u = NoUser
  BY <1>1 DEF Idle
<1> QED BY <1>1, <1>2, <1>3, EndMoveSafe

-----------------------------------------------------------------------------
(* The peers *)

\* A peer acts on its own connection, and does not undo a connect.
LEMMA PeerSafe ==
  ASSUME SInv, NEW h \in Handle, PeerNext(h)
  PROVE  SInv'
<1>1. /\ UNCHANGED localVars /\ IInv' /\ peer \in [Handle -> PeerState]
      /\ backlog \in [Fd -> SUBSET Handle] /\ lsn \subseteq Fd
  <2>1. UNCHANGED localVars
    BY DEF PeerNext, PeerConnect, PeerHandshake, PeerSend, PeerClose, PeerCrash
  <2> QED BY <2>1, Types, PeerNextInv DEF SInv
<1>2. /\ open' = open /\ lsn' = lsn /\ sock' = sock /\ connections' = connections
      /\ handleReady' = handleReady /\ end' = end /\ out' = out /\ io' = io /\ hd' = hd
      /\ user' = user /\ th' = th /\ todo' = todo
  BY <1>1 DEF localVars, osVars, selVars, mgrVars
<1>3. /\ \A g \in Handle : g # h => peer'[g] = peer[g]
      /\ peer'[h] # "none"
      /\ \/ \A f \in Fd : backlog'[f] = backlog[f]
         \/ /\ peer[h] = "none"
            /\ \E i \in Fd : /\ backlog'[i] = backlog[i] \cup {h}
                             /\ \A f \in Fd : f # i => backlog'[f] = backlog[f]
  <2>1. CASE PeerConnect(h)
    BY <1>1, <2>1 DEF PeerConnect
  <2>2. CASE PeerHandshake(h) \/ PeerSend(h) \/ PeerClose(h) \/ PeerCrash(h)
    BY <1>1, <2>2 DEF PeerHandshake, PeerSend, PeerClose, PeerCrash
  <2> QED BY <2>1, <2>2 DEF PeerNext
<1>4. \A g \in Handle \ {h}, f \in Fd : g \in backlog'[f] => g \in backlog[f]
  BY <1>3
<1>5. OnlyAt(h, {})
  BY <1>2, <1>3, <1>4 DEF OnlyAt
<1>6. HandleOk(h)'
  <2>1. HandleOk(h)
    BY DEF SInv, HandleInv
  <2>2. BirthOk(h)'
    BY <1>2, <1>3, <2>1 DEF HandleOk, BirthOk
  <2>3. FdOk(h)' /\ TableOk(h)' /\ OutOk(h)'
    BY <1>2, <2>1 DEF HandleOk, FdOk, TableOk, OutOk, AtWork
  <2> QED BY <2>2, <2>3 DEF HandleOk
<1>7. ASSUME NEW s \in Thread
      PROVE  CallOk(s)' /\ EndOk(s)'
  BY <1>2 DEF SInv, ThreadInv, CallOk, EndOk
<1>8. SockInv' /\ OneInv' /\ IoOk' /\ EndInv'
  BY <1>2 DEF SInv, SockInv, OneInv, IoOk, EndInv
<1>9. CountInv'
  BY <1>2, CountKept DEF SInv
<1>10. /\ {} \in SUBSET Thread /\ h \in Handle \cup {NoHandle}
       /\ \A s \in {} : CallOk(s)' /\ EndOk(s)'
       /\ \A s \in Thread \ {} : h # NoHandle /\ th[s].h = h => CallOk(s)' /\ EndOk(s)'
  BY <1>7
<1> QED BY <1>1, <1>5, <1>6, <1>8, <1>9, <1>10, StepSafe

-----------------------------------------------------------------------------
(* The specification *)

\* Manager::init establishes the invariant.
LEMMA InitSafe == ~Shared /\ Init => SInv
<1> SUFFICES ASSUME ~Shared, Init PROVE SInv
  OBVIOUS
<1>1. /\ \A h \in Handle : hd[h] = Unborn /\ out[h] = <<>>
      /\ \A t \in Thread : th[t] = Idle
      /\ \A f \in Fd : sock[f] = NoHandle /\ connections[f] = NoHandle /\ backlog[f] = {}
      /\ \A u \in User : user[u] = Empty
      /\ io = IoAt("top") /\ handleReady = <<>> /\ ~end /\ todo = {} /\ lsn = {}
  BY DEF Init
<1>2. HandleInv
  <2>1. ASSUME NEW h \in Handle
        PROVE  HandleOk(h)
    BY <1>1, HandleAssumption
    DEF HandleOk, BirthOk, FdOk, TableOk, OutOk, Unborn, Idle, IoAt
  <2> QED BY <2>1 DEF HandleInv
<1>3. ThreadInv /\ OneInv
  BY <1>1 DEF ThreadInv, OneInv, CallOk, EndOk, Idle, Busy, Calling, Closing, Ending
<1>4. SockInv /\ IoOk /\ EndInv
  BY <1>1 DEF SockInv, IoOk, EndInv, IoAt, Idle, Ending
<1>5. CountInv
  <2>1. ASSUME NEW h \in Handle
        PROVE  Holders(h) = {} /\ Queued(h) = {} /\ hd[h].cnt = 0
    <3>1. Holders(h) = {}
      BY <1>1, HandleAssumption DEF Holders, Empty
    <3>2. Queued(h) = {}
      BY <1>1 DEF Queued
    <3> QED BY <1>1, <3>1, <3>2 DEF Unborn
  <2> QED BY <2>1, FS_EmptySet DEF CountInv
<1>6. IInv
  BY InitInv
<1> QED BY <1>2, <1>3, <1>4, <1>5, <1>6 DEF SInv

\* A step that changes nothing keeps it,
LEMMA StutterSafe ==
  ASSUME SInv, UNCHANGED vars
  PROVE  SInv'
<1>1. IInv' /\ th' = th /\ hd' = hd /\ user' = user
  BY Stutter DEF SInv, vars
<1>2. UNCHANGED <<backlog, peer, open, lsn, sock, connections, io, todo, handleReady,
                  end, out, th>>
  BY DEF vars
<1> QED BY <1>1, <1>2, QuietSafe

\* and so does every step of the threads and the peers.
LEMMA NextSafe == SInv /\ [Next]_vars => SInv'
<1> SUFFICES ASSUME SInv, [Next]_vars PROVE SInv'
  OBVIOUS
<1>1. CASE IoNext
  BY <1>1, IoNextSafe
<1>2. ASSUME NEW t \in Thread, Start(t)
      PROVE  SInv'
  <2>1. ASSUME NEW u \in User,
               \/ GetNext(t, u) \/ Probe(t, u) \/ ProbeFail(t, u)
               \/ Receive(t, u) \/ Yield(t, u) \/ Close(t, u) \/ Drop(t, u)
        PROVE  SInv'
    BY <2>1, GetNextSafe, ProbeSafe, ProbeFailSafe, ReceiveSafe, YieldSafe, CloseSafe, DropSafe
  <2>2. ASSUME NEW u \in User, NEW h \in Handle, Connect(t, u, h)
        PROVE  SInv'
    BY <2>2, ConnectSafe
  <2>3. CASE Listen(t)
    BY <2>3, ListeningSafe
  <2>4. ASSUME NEW b \in BlockFlags, Finalize(t, b)
        PROVE  SInv'
    BY <2>4, FinalizeSafe
  <2> QED BY <1>2, <2>1, <2>2, <2>3, <2>4 DEF Start
<1>3. ASSUME NEW t \in Thread, Continue(t)
      PROVE  SInv'
  <2>1. CASE DrainSpin(t)
    BY <2>1, StutterSafe DEF DrainSpin
  <2>2. CASE ~DrainSpin(t)
    BY <1>3, <2>2, ConnectInsertSafe, NotifyCloseSafe, NotifyEraseSafe, NotifyFdCloseSafe,
       NotifyYieldSafe, DropReleaseSafe, ListeningSafe, FinalizeJoinSafe, SetAsClosedSafe,
       DrainSafe, FinalizeEndSafe DEF Continue
  <2> QED BY <2>1, <2>2
<1>4. ASSUME NEW h \in Handle, PeerNext(h)
      PROVE  SInv'
  BY <1>4, PeerSafe
<1>5. CASE Terminated
  BY <1>5, StutterSafe DEF Terminated
<1>6. CASE UNCHANGED vars
  BY <1>6, StutterSafe
<1> QED BY <1>1, <1>2, <1>3, <1>4, <1>5, <1>6 DEF Next

\* The invariant of ConnTcp, the handles and their users, when a Handle is used
\* by one thread at a time.
THEOREM Safe == ~Shared /\ Spec => []SInv
  BY InitSafe, NextSafe, PTL DEF Spec

\* Although the kernel reuses the number of a descriptor as soon as it is closed,
\* and connect, accept, close, finalize and dying peers do so in any order, the
\* entry of a descriptor in connections is the Handle of the socket it is now
\* (tcp.hpp 300, 351, 379).
THEOREM TableIsConsistent == ~Shared /\ Spec => []TableConsistent
<1>1. SInv => TableConsistent
  <2> SUFFICES ASSUME SInv, NEW f \in Fd, connections[f] # NoHandle
               PROVE  /\ f \in open /\ sock[f] = connections[f]
                      /\ hd[connections[f]].st = "alive" /\ hd[connections[f]].fd = f
    BY DEF TableConsistent
  <2>1. connections \in [Fd -> Handle \cup {NoHandle}]
    BY Types DEF SInv
  <2>2. PICK h \in Handle : h = connections[f]
    BY <2>1
  <2>3. hd[h].st = "alive" /\ hd[h].fd = f
    BY <2>2 DEF SInv, HandleInv, HandleOk, TableOk
  <2>4. sock[f] = h
    BY <2>3, OwnEntry
  <2>5. f \in open
    BY <2>4, HandleAssumption DEF SInv, SockInv
  <2> QED BY <2>2, <2>3, <2>4, <2>5
<1> QED BY <1>1, Safe, PTL

\* The reference counter of a Handle is the number of its HandleUser objects, in
\* the application and in the ready queue, through every hand-over between the
\* I/O thread, getNext, connect and the destructor (handle.hpp 113-122).
THEOREM RefCountIsExact == ~Shared /\ Spec => []RefCountExact
<1>1. SInv => RefCountExact
  BY DEF SInv, CountInv, RefCountExact, Holders
<1> QED BY <1>1, Safe, PTL

\* "delete this" in Handle::close and decrementReferenceCounter is safe: no
\* HandleUser, no entry of the ready queue or of the table and no call in
\* progress refers to the Handle (handle.hpp 120, 156).
THEOREM NothingDangles == ~Shared /\ Spec => []NoDangling
<1>1. SInv => NoDangling
  <2> SUFFICES ASSUME SInv, NEW h \in Handle, hd[h].st = "deleted"
               PROVE  /\ \A u \in User : user[u].h # h
                      /\ Queued(h) = {}
                      /\ \A f \in Fd : connections[f] # h
                      /\ \A t \in Thread : th[t].h # h
    BY DEF NoDangling
  <2>1. hd[h].cnt = 0 /\ \A f \in Fd : connections[f] # h
    BY DEF SInv, HandleInv, HandleOk, FdOk, TableOk
  <2>2. Holders(h) = {} /\ Queued(h) = {}
    <3>1. hd[h].cnt = Cardinality(Holders(h)) + Cardinality(Queued(h))
      BY DEF SInv, CountInv
    <3>2. /\ Cardinality(Holders(h)) \in Nat /\ Cardinality(Queued(h)) \in Nat
          /\ IsFiniteSet(Holders(h)) /\ IsFiniteSet(Queued(h))
      BY FiniteCount DEF SInv
    <3>3. Cardinality(Holders(h)) = 0 /\ Cardinality(Queued(h)) = 0
      BY <2>1, <3>1, <3>2
    <3> QED BY <3>2, <3>3, FS_EmptySet
  <2>3. ASSUME NEW t \in Thread
        PROVE  th[t].h # h
    <3>1. CallOk(t) /\ EndOk(t)
      BY DEF SInv, ThreadInv
    <3> QED BY <3>1, HandleAssumption DEF CallOk, EndOk, Busy
  <2> QED BY <2>1, <2>2, <2>3 DEF Holders
<1> QED BY <1>1, Safe, PTL

\* Whoever closes the write side, close, a probe that fails or finalize, the peer
\* reads EOS once, then FIN once, and no FIN without EOS (handle.hpp 144-147,
\* tcp.hpp 360).
THEOREM EosComesFirst == ~Shared /\ Spec => []EosThenFin
<1>1. SInv => EosThenFin
  BY DEF SInv, HandleInv, HandleOk, OutOk, EosThenFin
<1> QED BY <1>1, Safe, PTL

-----------------------------------------------------------------------------
(* What a step does to the descriptors *)

\* The steps that close no descriptor.
LEMMA KeepsOpen ==
  ASSUME \/ IoNext
         \/ \E t \in Thread : \/ Start(t)
                              \/ ConnectInsert(t) \/ NotifyErase(t) \/ NotifyYield(t)
                              \/ DropRelease(t)
                              \/ ListenZero(t) \/ ListenSet(t) \/ ListenMax(t)
                              \/ FinalizeJoin(t) \/ DrainSpin(t) \/ FinalizeEnd(t)
         \/ \E h \in Handle : PeerNext(h)
         \/ Terminated
         \/ UNCHANGED vars
  PROVE  open \subseteq open'
<1>1. CASE IoNext
  BY <1>1 DEF IoNext, IoTop, IoSelect, IoLoopEnd, IoLoopReady, IoAccept, IoNewConnection,
              IoHandshake, IoReady, osVars
<1>2. ASSUME NEW t \in Thread, Start(t)
      PROVE  open \subseteq open'
  <2>1. ASSUME NEW u \in User, GetNext(t, u) \/ Probe(t, u) \/ ProbeFail(t, u) \/ Receive(t, u)
        PROVE  open' = open
    BY <2>1 DEF GetNext, Probe, ProbeFail, Receive, osVars
  <2>2. ASSUME NEW u \in User, Yield(t, u) \/ Close(t, u) \/ Drop(t, u)
        PROVE  open' = open
    BY <2>2 DEF Yield, Close, Drop, osVars
  <2>3. ASSUME NEW u \in User, NEW h \in Handle, Connect(t, u, h)
        PROVE  open \subseteq open'
    BY <2>3 DEF Connect
  <2>4. CASE Listen(t)
    BY <2>4 DEF Listen
  <2>5. ASSUME NEW b \in BlockFlags, Finalize(t, b)
        PROVE  open' = open
    BY <2>5 DEF Finalize, osVars
  <2> QED BY <1>2, <2>1, <2>2, <2>3, <2>4, <2>5 DEF Start
<1>3. ASSUME NEW t \in Thread,
             \/ ConnectInsert(t) \/ NotifyErase(t) \/ NotifyYield(t) \/ DropRelease(t)
             \/ ListenZero(t) \/ ListenSet(t) \/ ListenMax(t)
             \/ FinalizeJoin(t) \/ DrainSpin(t) \/ FinalizeEnd(t)
      PROVE  open' = open
  BY <1>3 DEF ConnectInsert, NotifyErase, NotifyYield, DropRelease, ListenZero, ListenSet,
              ListenMax, FinalizeJoin, DrainSpin, FinalizeEnd, osVars, vars
<1>4. ASSUME NEW h \in Handle, PeerNext(h)
      PROVE  open' = open
  BY <1>4 DEF PeerNext, PeerConnect, PeerHandshake, PeerSend, PeerClose, PeerCrash, localVars,
              osVars
<1>5. CASE Terminated \/ UNCHANGED vars
  BY <1>5 DEF Terminated, vars
<1> QED BY <1>1, <1>2, <1>3, <1>4, <1>5

\* notify_close never closes a descriptor for the write side alone,
LEMMA NotifyCloseKeeps ==
  ASSUME SInv, NEW t \in Thread, NotifyClose(t)
  PROVE  open' = open
<1>0. th[t].pc = "notify" /\ th[t].pc \in Closing /\ th[t].pc \in Calling
  BY DEF NotifyClose, Calling, Closing
<1>1. PICK h \in Handle : h = th[t].h
  BY <1>0, InCall
<1>2. hd[h].st = "alive" /\ th[t].rd = hd[h].rd
  BY <1>0, <1>1, InCall DEF SInv, ThreadInv, CallOk
<1>3. ~hd[h].rd => connections[hd[h].fd] = h
  BY <1>2 DEF SInv, HandleInv, HandleOk, FdOk
<1>4. ~LoneWrite(t)
  BY <1>1, <1>2, <1>3, HandleAssumption DEF LoneWrite
<1> QED BY <1>4 DEF NotifyClose, osVars

\* it closes that of a Handle that is closed both ways and left the table,
LEMMA NotifyFdCloseOwn ==
  ASSUME SInv, NEW t \in Thread, NotifyFdClose(t), NEW f \in open \ open'
  PROVE  /\ connections'[f] = NoHandle
         /\ sock[f] # NoHandle /\ hd'[sock[f]].rd /\ hd'[sock[f]].wr
<1>0. th[t].pc = "fdclose" /\ th[t].pc \in Closing /\ th[t].pc \in Calling
  BY DEF NotifyFdClose, Calling, Closing
<1>1. PICK h \in Handle : h = th[t].h
  BY <1>0, InCall
<1>2. /\ f = th[t].f /\ f \in Fd /\ connections' = connections
      /\ hd' = [hd EXCEPT ![h] = Reap([hd[h] EXCEPT !.fd = -1])]
  BY <1>0, <1>1, InCall DEF NotifyFdClose, CloseFd, selVars
<1>3. /\ hd[h].st = "alive" /\ f = hd[h].fd /\ hd[h].rd /\ hd[h].wr
      /\ \A i \in Fd : connections[i] # h
  BY <1>0, <1>1, <1>2, InCall DEF SInv, ThreadInv, CallOk
<1>4. sock[f] = h /\ connections[f] \in {h, NoHandle}
  BY <1>2, <1>3, OwnEntry
<1>5. hd'[h].rd /\ hd'[h].wr
  <2>1. hd \in [Handle -> HandleRec]
    BY Types DEF SInv
  <2> QED BY <1>2, <1>3, <2>1 DEF Reap, HandleRec
<1> QED BY <1>2, <1>3, <1>4, <1>5, HandleAssumption

\* and so does the last close in finalize.
LEMMA FinalCloseOwn ==
  ASSUME SInv, NEW t \in Thread, SetAsClosed(t) \/ Drain(t), NEW f \in open \ open'
  PROVE  /\ connections'[f] = NoHandle
         /\ sock[f] # NoHandle /\ hd'[sock[f]].rd /\ hd'[sock[f]].wr
<1>0. th[t].pc \in {"end", "drain"} /\ f \in Fd /\ todo \in SUBSET Fd
  <2>1. open \subseteq Fd /\ todo \in SUBSET Fd
    BY Types DEF SInv
  <2> QED BY <2>1 DEF SetAsClosed, Drain
<1>1. PICK h \in Handle, i \in Fd : FinalClose(h, i) /\ connections[i] = h
  <2>1. CASE SetAsClosed(t)
    <3>1. Min(todo) \in todo /\ Min(todo) \in Fd
      BY <1>0, <2>1, FdMin DEF SetAsClosed
    <3>2. connections[Min(todo)] \in Handle
      <4>1. connections \in [Fd -> Handle \cup {NoHandle}]
        BY Types DEF SInv
      <4> QED BY <3>1, <4>1 DEF SInv, EndInv
    <3>3. FinalClose(connections[Min(todo)], Min(todo))
      BY <2>1 DEF SetAsClosed, osVars
    <3> QED BY <3>1, <3>2, <3>3
  <2>2. CASE Drain(t)
    <3>1. PICK h \in Handle : h = th[t].h /\ hd[h].st = "alive" /\ ~hd[h].rd
      BY <2>2 DEF Drain, SInv, ThreadInv, EndOk
    <3>2. FdOk(h) /\ hd[h] \in HandleRec
      BY Types DEF SInv, HandleInv, HandleOk
    <3>3. hd[h].fd \in Fd /\ connections[hd[h].fd] = h
      BY <3>1, <3>2 DEF FdOk, HandleRec
    <3>4. FinalClose(h, hd[h].fd)
      BY <2>2, <3>1 DEF Drain, osVars
    <3> QED BY <3>3, <3>4
  <2> QED BY <2>1, <2>2
<1>2. f = i /\ connections'[f] = NoHandle
  <2>1. connections \in [Fd -> Handle \cup {NoHandle}]
    BY Types DEF SInv
  <2> QED BY <1>0, <1>1, <2>1 DEF FinalClose, CloseFd, Erase
<1>3. sock[f] = h
  BY <1>0, <1>1, <1>2, EndEntry
<1>4. hd'[h].rd /\ hd'[h].wr
  <2>1. hd \in [Handle -> HandleRec]
    BY Types DEF SInv
  <2> QED BY <1>1, <2>1 DEF FinalClose, Reap, HandleRec
<1> QED BY <1>2, <1>3, <1>4, HandleAssumption

\* No thread closes a descriptor that the kernel has given to another connection
\* in the meantime: what close(fd) releases in notify_close and end is the socket
\* of a Handle that is closed in both directions and has left connections
\* (tcp.hpp 367, 397).
THEOREM ClosesOwnFd == ~Shared /\ Spec => CloseOwnFd
<1>1. SInv /\ [Next]_vars =>
        [\A f \in open \ open' :
           /\ connections'[f] = NoHandle
           /\ sock[f] # NoHandle /\ hd'[sock[f]].rd /\ hd'[sock[f]].wr]_vars
  <2> SUFFICES ASSUME SInv, [Next]_vars, NEW f \in open \ open'
               PROVE  /\ connections'[f] = NoHandle
                      /\ sock[f] # NoHandle /\ hd'[sock[f]].rd /\ hd'[sock[f]].wr
    OBVIOUS
  <2>1. PICK t \in Thread : NotifyFdClose(t) \/ SetAsClosed(t) \/ Drain(t)
    BY KeepsOpen, NotifyCloseKeeps DEF Next, Continue
  <2> QED BY <2>1, NotifyFdCloseOwn, FinalCloseOwn
<1> QED BY <1>1, Safe, PTL DEF Spec, CloseOwnFd

-----------------------------------------------------------------------------
(***************************************************************************)
(* Who may read a connection, and what select watches: the properties of   *)
(* the TCP connection manager that need, besides one thread at a time on a *)
(* Handle, one listening endpoint whose listen has returned before the     *)
(* first connection.                                                       *)
(***************************************************************************)

(* The inductive invariant *)

InLoop == {"loop", "lock", "handshake", "ready"}   \* after select, inside update

\* What is watched is the listening socket or a connection open for reading.
SetOk == \A f \in set :
  \/ f = listen_sck /\ f \in lsn
  \/ sock[f] # NoHandle /\ connections[f] = sock[f] /\ ~hd[sock[f]].rd

\* fdmax bounds the watched set, and is in it.
FdMaxOk == (\A t \in Thread : ~Listening(t)) =>
  /\ \A f \in set : f <= fdmax
  /\ fdmax # -1 => fdmax \in set

\* While a thread is in listen nothing is connected, and nothing is watched
\* except the socket it made.
ListenOk(t) == Listening(t) =>
  /\ nlisten = 1 /\ listen_sck \in lsn /\ ~end
  /\ fdmax = -1 /\ set = IF th[t].pc = "lmax" THEN {listen_sck} ELSE {}
  /\ io.pc \in {"top", "select"}
  /\ \A h \in Handle : hd[h].st = "none" /\ \A s \in Thread : th[s].h # h
  /\ \A s \in Thread : Listening(s) => s = t
EndpointInv ==
  /\ nlisten = 0 => lsn = {}
  /\ \A f \in lsn : f = listen_sck
  /\ io.pc \in InLoop => \E h \in Handle : peer[h] # "none"
  /\ \A t \in Thread : ListenOk(t)

\* What select was given, and what it reported and the loop has yet to visit,
\* is still watched, and still readable.
LoopOk ==
  /\ io.pc = "select" => tmpset \subseteq set
  /\ io.pc \in InLoop => \A f \in tmpset : f >= io.idx =>
       f \in set /\ (sock[f] # NoHandle => inbox[sock[f]] # <<>>)
  /\ io.pc = "ready" => io.idx \in tmpset /\ io.idx # listen_sck

\* A Handle is in one place: watched, in transit to notify_yield, queued, or in
\* a HandleUser that may read;
PlaceOk(h) ==
  /\ \A i, j \in Queued(h) : i = j
  /\ \A u, v \in Readers(h) : u = v
  /\ Queued(h) # {} => Watched(h) = {} /\ Yielding(h) = {} /\ Readers(h) = {}
  /\ Readers(h) # {} => Watched(h) = {} /\ Yielding(h) = {}
  /\ Yielding(h) # {} => Watched(h) = {}
  /\ io.h = h => Watched(h) = {}

\* and it is in one, as long as it has something to say to the application.
Owed(h) == /\ hd[h].st = "alive" /\ ~hd[h].rd /\ ~end
           /\ io.h # h /\ h \notin groupsReady /\ peer[h] # "dead"
LiveOk(h) == Owed(h) =>
  Watched(h) # {} \/ Yielding(h) # {} \/ Queued(h) # {} \/ Readers(h) # {}

\* Nobody reads from a connection before its handshake, so what the peer has
\* sent is there in order.
Fresh(h) == io.h = h \/ \E f \in Fd : h \in backlog[f]
FreshOk(h) ==
  /\ peer[h] = "none" => inbox[h] = <<>>
  /\ Fresh(h) =>
       /\ peer[h] = "new" => inbox[h] = <<>>
       /\ peer[h] = "flagged" => inbox[h] = <<"coll">>
       /\ peer[h] \in {"up", "closed"} =>
            /\ inbox[h] # <<>>
            /\ \/ inbox[h][1] = "p2p"
               \/ inbox[h][1] = "coll" /\ Len(inbox[h]) > 1 /\ inbox[h][2] = "team"

ReaderOk(h) == PlaceOk(h) /\ LiveOk(h) /\ FreshOk(h)
ReaderInv == \A h \in Handle : ReaderOk(h)

\* A thread in transit to notify_yield has the descriptor of its Handle, unless
\* finalize has closed it meanwhile, and its HandleUser may not read.  A close
\* that takes the right to read away has closed the Handle for reading.
TransitOk(t) ==
  /\ th[t].pc = "yield" => \/ ~hd[th[t].h].rd /\ th[t].f = hd[th[t].h].fd
                           \/ hd[th[t].h].rd /\ hd[th[t].h].wr
  /\ th[t].pc \in {"yield", "dec"} => ~user[th[t].u].readable
  /\ th[t].pc \in Closing /\ th[t].k = "unread" => hd[th[t].h].rd
TransitInv == \A t \in Thread : TransitOk(t)

RInv == /\ ListenFirst /\ MaxListen <= 1
        /\ SInv /\ SetOk /\ FdMaxOk /\ EndpointInv /\ LoopOk /\ ReaderInv /\ TransitInv
        /\ ReadyHasData

-----------------------------------------------------------------------------
(* Facts the steps share *)

\* No thread is inside listen.
NoListen == \A t \in Thread : ~Listening(t)

\* A step leaves the Handle where it is.
SamePlaces(g) == /\ Watched(g)' = Watched(g) /\ Yielding(g)' = Yielding(g)
                 /\ Queued(g)' = Queued(g) /\ Readers(g)' = Readers(g)

\* Once there is a connection nobody listens.
LEMMA Connected ==
  ASSUME RInv, NEW h \in Handle, hd[h].st # "none" \/ \E s \in Thread : th[s].h = h
  PROVE  NoListen
  BY DEF RInv, EndpointInv, ListenOk, NoListen

\* Threads that neither enter nor leave listen.
LEMMA ListenKept ==
  ASSUME NoListen, NEW t \in Thread, \A s \in Thread : s # t => th'[s] = th[s],
         th'[t].pc \notin {"lzero", "lset", "lmax"}
  PROVE  NoListen'
  BY DEF NoListen, Listening

\* A Handle that is where it was is still in one place.
LEMMA PlacesKept ==
  ASSUME NEW g \in Handle, ReaderOk(g), SamePlaces(g), Owed(g)' => Owed(g),
         io'.h = g => io.h = g
  PROVE  PlaceOk(g)' /\ LiveOk(g)'
  BY DEF ReaderOk, PlaceOk, LiveOk, SamePlaces

\* A Handle is not made before its connection is accepted.
LEMMA NotFresh ==
  ASSUME SInv, NEW g \in Handle, hd[g].st # "none", io.h # g
  PROVE  FreshOk(g) /\ ~Fresh(g) /\ peer[g] # "none"
  BY DEF SInv, HandleInv, HandleOk, BirthOk, Fresh, FreshOk

\* The same, after a step.
LEMMA NotFreshNext ==
  ASSUME SInv', NEW g \in Handle, hd'[g].st # "none", io'.h # g
  PROVE  FreshOk(g)'
  BY DEF SInv, HandleInv, HandleOk, BirthOk, Fresh, FreshOk

\* Where the Handle behind a watched descriptor is.
LEMMA WatchedAt ==
  ASSUME RInv, NEW f \in set, sock[f] # NoHandle
  PROVE  /\ sock[f] \in Handle /\ f \in Fd /\ f \in Watched(sock[f])
         /\ connections[f] = sock[f] /\ ~hd[sock[f]].rd
<1>1. f \in Fd /\ sock[f] \in Handle
  <2>1. set \subseteq Fd /\ sock \in [Fd -> Handle \cup {NoHandle}]
    BY DEF RInv, SInv, IInv, TypeOK
  <2> QED BY <2>1
<1>2. f \notin lsn
  BY <1>1 DEF RInv, SInv, SockInv
<1>3. connections[f] = sock[f] /\ ~hd[sock[f]].rd
  BY <1>2 DEF RInv, SetOk
<1> QED BY <1>1, <1>3 DEF Watched

\* The converse: a Handle that is watched is alive, and open for reading.
LEMMA WatchedAlive ==
  ASSUME RInv, NEW h \in Handle, NEW f \in Watched(h)
  PROVE  f \in Fd /\ f \in set /\ sock[f] = h /\ hd[h].st = "alive" /\ hd[h].fd = f /\ ~hd[h].rd
<1>1. f \in Fd /\ f \in set /\ connections[f] = h
  <2>1. set \subseteq Fd
    BY DEF RInv, SInv, IInv, TypeOK
  <2> QED BY <2>1 DEF Watched
<1>2. hd[h].st = "alive" /\ hd[h].fd = f
  BY <1>1 DEF RInv, SInv, HandleInv, HandleOk, TableOk
<1>3. sock[f] = h
  BY <1>1, <1>2, OwnEntry DEF RInv
<1>4. ~hd[h].rd
  BY <1>1, <1>3, WatchedAt, HandleAssumption
<1> QED BY <1>1, <1>2, <1>3, <1>4

\* A step of a thread that is not inside listen does not disturb the endpoint.
LEMMA EndpointKept ==
  ASSUME RInv, NoListen, NoListen', UNCHANGED <<nlisten, listen_sck>>, lsn' \subseteq lsn,
         io'.pc \in InLoop => io.pc \in InLoop,
         \A g \in Handle : peer'[g] = "none" => peer[g] = "none"
  PROVE  EndpointInv'
<1>1. \A t \in Thread : ListenOk(t)'
  BY DEF NoListen, ListenOk
<1> QED BY <1>1 DEF RInv, EndpointInv

\* A call on h of thread t that leaves the watched set and the queue alone.
LEMMA CallReader ==
  ASSUME RInv, SInv', NEW t \in Thread, NEW h \in Handle, NoListen, NoListen',
         \A s \in Thread : s # t => /\ th'[s] = th[s]
                                    /\ th[s].pc \in Closing \cup {"yield"} => th[s].h # h
                                    /\ th[s].u \in User => user'[th[s].u] = user[th[s].u],
         th[t].h \in {h, NoHandle}, th'[t].h \in {h, NoHandle}, TransitOk(t)',
         \A g \in Handle : g # h => hd'[g] = hd[g] /\ inbox'[g] = inbox[g] /\ peer'[g] = peer[g],
         \A g \in Handle, f \in Fd : g # h => (connections'[f] = g <=> connections[f] = g),
         \A g \in Handle, u \in User :
            g # h => ((user'[u].h = g /\ user'[u].readable) <=> (user[u].h = g /\ user[u].readable)),
         peer'[h] = "none" => peer[h] = "none",
         Watched(h) # {} => hd'[h].rd = hd[h].rd /\ inbox'[h] = inbox[h],
         Queued(h) # {} => inbox'[h] = inbox[h],
         \A f \in set : /\ sock'[f] = sock[f] /\ connections'[f] = connections[f]
                        /\ f \in lsn => f \in lsn',
         lsn' \subseteq lsn, ReaderOk(h)',
         UNCHANGED <<set, fdmax, tmpset, listen_sck, nlisten, io, backlog, handleReady,
                     groupsReady, end>>
  PROVE  RInv'
<1>0. \A s \in Thread : s # t => th'[s] = th[s]
  OBVIOUS
<1>1. /\ set' = set /\ fdmax' = fdmax /\ tmpset' = tmpset /\ listen_sck' = listen_sck
      /\ io' = io /\ backlog' = backlog /\ handleReady' = handleReady
      /\ groupsReady' = groupsReady /\ end' = end
  OBVIOUS
<1>2. ASSUME NEW f \in set, sock[f] # NoHandle
      PROVE  /\ sock[f] \in Handle /\ hd'[sock[f]].rd = hd[sock[f]].rd
             /\ inbox'[sock[f]] = inbox[sock[f]]
  BY <1>2, WatchedAt
<1>3. SetOk'
  BY <1>1, <1>2 DEF RInv, SetOk
<1>4. FdMaxOk'
  BY <1>1 DEF RInv, FdMaxOk, NoListen
<1>5. EndpointInv'
  <2>1. \A g \in Handle : peer'[g] = "none" => peer[g] = "none"
    OBVIOUS
  <2> QED BY <1>1, <2>1, EndpointKept
<1>6. LoopOk'
  BY <1>1, <1>2 DEF RInv, LoopOk
<1>7. ReaderInv'
  <2>1. ASSUME NEW g \in Handle, g # h
        PROVE  ReaderOk(g)'
    <3>1. ReaderOk(g)
      BY DEF RInv, ReaderInv
    <3>2. Watched(g)' = Watched(g)
      <4>1. set \subseteq Fd
        BY DEF RInv, SInv, IInv, TypeOK
      <4> QED BY <1>1, <2>1, <4>1 DEF Watched
    <3>3. Yielding(g)' = Yielding(g)
      BY <1>0, <2>1, HandleAssumption DEF Yielding
    <3>4. Queued(g)' = Queued(g) /\ Readers(g)' = Readers(g)
      BY <1>1, <2>1 DEF Queued, Readers
    <3>5. Owed(g)' => Owed(g)
      BY <1>1, <2>1 DEF Owed
    <3>6. FreshOk(g)'
      BY <1>1, <2>1, <3>1 DEF ReaderOk, FreshOk, Fresh
    <3> QED BY <1>1, <3>1, <3>2, <3>3, <3>4, <3>5, <3>6, PlacesKept DEF ReaderOk, SamePlaces
  <2> QED BY <2>1 DEF ReaderInv
<1>8. TransitInv'
  <2>1. ASSUME NEW s \in Thread, s # t
        PROVE  TransitOk(s)'
    <3>1. CASE th[s].pc \in Calling
      <4>1. /\ th'[s] = th[s] /\ th[s].u \in User /\ th[s].h \in Handle
            /\ user'[th[s].u] = user[th[s].u]
            /\ th[s].pc \in Closing \cup {"yield"} => th[s].h # h
        <5>1. th[s].u \in User /\ th[s].h \in Handle
          BY <3>1, ThLocals DEF RInv, SInv, ThFits, Calling, Closing
        <5> QED BY <1>0, <2>1, <5>1
      <4>2. th[s].pc \in Closing \cup {"yield"} => hd'[th[s].h] = hd[th[s].h]
        BY <4>1
      <4> QED BY <4>1, <4>2 DEF RInv, TransitInv, TransitOk
    <3>2. CASE th[s].pc \notin Calling
      BY <1>0, <2>1, <3>2 DEF TransitOk, Calling
    <3> QED BY <3>1, <3>2
  <2> QED BY <2>1 DEF TransitInv
<1>9. ReadyHasData'
  <2>1. ASSUME NEW i \in DOMAIN handleReady
        PROVE  inbox'[handleReady[i].h] = inbox[handleReady[i].h]
    <3>1. handleReady[i].h \in Handle
      BY QueuedCount DEF RInv
    <3> QED BY <3>1 DEF Queued
  <2> QED BY <1>1, <2>1 DEF RInv, ReadyHasData
<1> QED BY <1>3, <1>4, <1>5, <1>6, <1>7, <1>8, <1>9 DEF RInv

-----------------------------------------------------------------------------
(* Calls on a HandleUser *)

\* A HandleUser that may read is the only place of its Handle.
LEMMA ReaderAt ==
  ASSUME RInv, NEW u \in User, NEW h \in Handle, user[u].h = h, user[u].readable
  PROVE  /\ Readers(h) = {u} /\ Watched(h) = {} /\ Yielding(h) = {} /\ Queued(h) = {}
<1>1. u \in Readers(h)
  BY DEF Readers
<1> QED BY <1>1 DEF RInv, ReaderInv, ReaderOk, PlaceOk

\* The application lets go of a Handle that is closed for reading, or had no
\* right to read it.
LEMMA PlacesShrink ==
  ASSUME NEW h \in Handle, ReaderOk(h), ~(Owed(h)'), io'.h = h => io.h = h,
         Watched(h)' \subseteq Watched(h), Yielding(h)' \subseteq Yielding(h),
         Queued(h)' \subseteq Queued(h), Readers(h)' \subseteq Readers(h)
  PROVE  PlaceOk(h)' /\ LiveOk(h)'
<1>1. LiveOk(h)'
  BY DEF LiveOk
<1>2. PlaceOk(h)'
  BY DEF ReaderOk, PlaceOk
<1> QED BY <1>1, <1>2

\* The first step of a call on the HandleUser at u.
LEMMA UseReader ==
  ASSUME RInv, SInv', NEW t \in Thread, NEW u \in User, NEW h \in Handle, h = user[u].h,
         CanUse(t, u), \A s \in Thread : s # t => th'[s] = th[s],
         th'[t].pc \notin {"lzero", "lset", "lmax"}, th'[t].h \in {h, NoHandle}, TransitOk(t)',
         \A g \in Handle : g # h => hd'[g] = hd[g] /\ inbox'[g] = inbox[g],
         hd'[h].st # "none",
         \A v \in User : v # u => user'[v] = user[v], user'[u].h \in {h, NoHandle},
         Watched(h) # {} => hd'[h].rd = hd[h].rd /\ inbox'[h] = inbox[h],
         Queued(h) # {} => inbox'[h] = inbox[h],
         PlaceOk(h)', LiveOk(h)',
         UNCHANGED <<sock, connections, lsn, peer, set, fdmax, tmpset, listen_sck, nlisten, io,
                     backlog, handleReady, groupsReady, end>>
  PROVE  RInv'
<1>1. /\ hd[h].st = "alive" /\ io.h # h /\ th[t].h = NoHandle
      /\ \A s \in Thread : th[s].h # h /\ th[s].u # u
  BY InUse DEF RInv
<1>2. NoListen /\ NoListen'
  BY <1>1, Connected, ListenKept
<1>3. ReaderOk(h)'
  <2>1. FreshOk(h)'
    BY <1>1, NotFreshNext
  <2> QED BY <2>1 DEF ReaderOk
<1>4. \A g \in Handle, v \in User :
         g # h => ((user'[v].h = g /\ user'[v].readable) <=> (user[v].h = g /\ user[v].readable))
  BY HandleAssumption
<1>5. \A s \in Thread : s # t => /\ th'[s] = th[s]
                                 /\ th[s].pc \in Closing \cup {"yield"} => th[s].h # h
                                 /\ th[s].u \in User => user'[th[s].u] = user[th[s].u]
  BY <1>1
<1>6. /\ \A f \in set : /\ sock'[f] = sock[f] /\ connections'[f] = connections[f]
                        /\ f \in lsn => f \in lsn'
      /\ lsn' \subseteq lsn /\ (peer'[h] = "none" => peer[h] = "none")
      /\ \A g \in Handle : g # h => hd'[g] = hd[g] /\ inbox'[g] = inbox[g] /\ peer'[g] = peer[g]
      /\ \A g \in Handle, f \in Fd : g # h => (connections'[f] = g <=> connections[f] = g)
      /\ th[t].h \in {h, NoHandle}
  BY <1>1
<1> QED BY <1>2, <1>3, <1>4, <1>5, <1>6, CallReader

\* Where the Handle of the call is, when only its HandleUser and the thread move.
LEMMA UsePlaces ==
  ASSUME RInv, NEW t \in Thread, NEW u \in User, NEW h \in Handle, h = user[u].h,
         CanUse(t, u), \A s \in Thread : s # t => th'[s] = th[s],
         UNCHANGED <<connections, set, io, handleReady>>
  PROVE  /\ Watched(h)' = Watched(h) /\ Queued(h)' = Queued(h) /\ Yielding(h) = {}
         /\ Yielding(h)' = {s \in {t} : th'[s].pc = "yield" /\ th'[s].h = h}
         /\ ReaderOk(h)
<1>1. \A s \in Thread : th[s].h # h
  BY InUse DEF RInv
<1>2. Watched(h)' = Watched(h) /\ Queued(h)' = Queued(h)
  BY DEF Watched, Queued
<1>3. Yielding(h) = {} /\ Yielding(h)' = {s \in {t} : th'[s].pc = "yield" /\ th'[s].h = h}
  BY <1>1 DEF Yielding
<1> QED BY <1>2, <1>3 DEF RInv, ReaderInv

\* Handle::close up to notify_close is no yield.
LEMMA StartCloseAt ==
  ASSUME RInv, NEW t \in Thread, NEW u, NEW h, NEW cw, NEW cr, NEW k,
         StartClose(t, u, h, cw, cr, k)
  PROVE  /\ th'[t].pc = "notify" /\ th'[t].h = h /\ th'[t].k = k
         /\ \A s \in Thread : s # t => th'[s] = th[s]
<1>1. th \in [Thread -> ThRec]
  BY Types DEF RInv, SInv
<1> QED BY <1>1 DEF StartClose, Call, Idle

\* HandleUser::close
LEMMA CloseReader ==
  ASSUME RInv, NEW t \in Thread, NEW u \in User, Close(t, u)
  PROVE  RInv'
<1>0. PICK h \in Handle : h = user[u].h
  BY InUse DEF RInv, Close
<1>1. /\ CanUse(t, u) /\ SInv' /\ StartClose(t, u, h, TRUE, FALSE, "none")
      /\ UNCHANGED <<sock, connections, lsn, peer, set, fdmax, tmpset, listen_sck, nlisten, io,
                     backlog, handleReady, groupsReady, end, inbox, user>>
  BY <1>0, CloseSafe DEF RInv, Close, netVars, osVars, selVars, mgrVars
<1>2. /\ \A g \in Handle : g # h => hd'[g] = hd[g]
      /\ hd'[h].st = hd[h].st /\ hd'[h].rd = hd[h].rd
  <2>1. hd \in [Handle -> HandleRec] /\ hd' = [hd EXCEPT ![h].wr = TRUE]
    BY <1>0, Types DEF RInv, SInv, Close
  <2> QED BY <2>1 DEF HandleRec
<1>3. /\ th'[t].pc = "notify" /\ th'[t].h = h /\ th'[t].k = "none"
      /\ \A s \in Thread : s # t => th'[s] = th[s]
  BY <1>1, StartCloseAt
<1>4. hd[h].st = "alive" /\ io.h # h
  BY <1>0, <1>1, InUse DEF RInv
<1>5. PlaceOk(h)' /\ LiveOk(h)'
  <2>1. /\ Watched(h)' = Watched(h) /\ Queued(h)' = Queued(h) /\ Yielding(h) = {}
        /\ Yielding(h)' = {s \in {t} : th'[s].pc = "yield" /\ th'[s].h = h} /\ ReaderOk(h)
    BY <1>0, <1>1, <1>3, UsePlaces
  <2>2. SamePlaces(h)
    BY <1>1, <1>3, <2>1 DEF SamePlaces, Readers
  <2>3. Owed(h)' => Owed(h)
    BY <1>1, <1>2 DEF Owed
  <2> QED BY <1>1, <2>1, <2>2, <2>3, PlacesKept
<1>6. TransitOk(t)'
  BY <1>3 DEF TransitOk
<1>7. \A v \in User : user'[v] = user[v]
  BY <1>1
<1> QED BY <1>0, <1>1, <1>2, <1>3, <1>4, <1>5, <1>6, <1>7, UseReader

\* A call that reads: the Handle is with the HandleUser and nowhere else, so what
\* it takes from the connection nobody else waits for.
LEMMA ReadReader ==
  ASSUME RInv, SInv', NEW t \in Thread, NEW u \in User, NEW h \in Handle, Reads(t, u, h),
         user[u].h = h, \A s \in Thread : s # t => th'[s] = th[s],
         th'[t] = th[t] \/ (th'[t].pc = "notify" /\ th'[t].h = h /\ hd'[h].rd),
         \A g \in Handle : g # h => hd'[g] = hd[g] /\ inbox'[g] = inbox[g],
         hd'[h].st = hd[h].st, hd[h].rd => hd'[h].rd,
         \A v \in User : v # u => user'[v] = user[v], user'[u].h = h,
         hd'[h].rd \/ user'[u].readable,
         UNCHANGED <<sock, connections, lsn, peer, set, fdmax, tmpset, listen_sck, nlisten, io,
                     backlog, handleReady, groupsReady, end>>
  PROVE  RInv'
<1>1. CanUse(t, u) /\ user[u].readable
  BY DEF Reads
<1>2. hd[h].st = "alive" /\ io.h # h /\ th[t].h = NoHandle /\ th[t].pc = "idle"
  BY <1>1, InUse DEF RInv
<1>3. /\ Readers(h) = {u} /\ Watched(h) = {} /\ Yielding(h) = {} /\ Queued(h) = {}
  BY <1>1, ReaderAt
<1>4. /\ Watched(h)' = Watched(h) /\ Queued(h)' = Queued(h)
      /\ Yielding(h)' = {s \in {t} : th'[s].pc = "yield" /\ th'[s].h = h} /\ ReaderOk(h)
  BY <1>1, UsePlaces
<1>5. Yielding(h)' = {} /\ Readers(h)' \subseteq {u}
  BY <1>2, <1>3, <1>4, HandleAssumption DEF Readers
<1>6. PlaceOk(h)' /\ LiveOk(h)'
  <2>1. CASE hd'[h].rd
    <3>1. ~(Owed(h)')
      BY <2>1 DEF Owed
    <3> QED BY <1>3, <1>4, <1>5, <3>1, PlacesShrink
  <2>2. CASE ~hd'[h].rd
    <3>1. Readers(h)' = {u}
      BY <1>5, <2>2 DEF Readers
    <3>2. Owed(h)' => Owed(h)
      BY <2>2 DEF Owed
    <3> QED BY <1>3, <1>4, <1>5, <3>1, <3>2, PlacesKept DEF SamePlaces
  <2> QED BY <2>1, <2>2
<1>7. TransitOk(t)' /\ th'[t].pc \notin {"lzero", "lset", "lmax"} /\ th'[t].h \in {h, NoHandle}
  BY <1>2 DEF TransitOk, Closing
<1> QED BY <1>1, <1>2, <1>3, <1>6, <1>7, UseReader

\* HandleUser::probe: a header, or EOS,
LEMMA ProbeReader ==
  ASSUME RInv, NEW t \in Thread, NEW u \in User, Probe(t, u)
  PROVE  RInv'
<1>0. PICK h \in Handle :
        /\ Reads(t, u, h) /\ inbox' = [inbox EXCEPT ![h] = Tail(@)]
        /\ IF Head(inbox[h]) = "hdr"
             THEN /\ hd' = [hd EXCEPT ![user[u].h].probed = "msg"]
                  /\ UNCHANGED <<th, out>>
             ELSE /\ hd' = [hd EXCEPT ![user[u].h].probed = "eos", ![user[u].h].rd = TRUE]
                  /\ StartClose(t, u, user[u].h, FALSE, TRUE, "unread")
        /\ UNCHANGED <<backlog, peer, sent, osVars, selVars, mgrVars, tmpset,
                       listen_sck, shm, io, user, nlisten, todo>>
  BY DEF Probe
<1>1. user[u].h = h /\ SInv' /\ user[u].readable
  BY <1>0, ReadsOwn, ProbeSafe DEF RInv, Reads
<1>2. UNCHANGED <<sock, connections, lsn, peer, set, fdmax, tmpset, listen_sck, nlisten, io,
                  backlog, handleReady, groupsReady, end, user>>
  BY <1>0 DEF osVars, selVars, mgrVars
<1>3. hd \in [Handle -> HandleRec] /\ inbox \in [Handle -> Seq(Item)]
  BY DEF RInv, SInv, IInv, TypeOK
<1>4. \A g \in Handle : g # h => inbox'[g] = inbox[g]
  BY <1>0, <1>3
<1>5. /\ \A g \in Handle : g # h => hd'[g] = hd[g]
      /\ hd'[h].st = hd[h].st /\ (hd[h].rd => hd'[h].rd)
  <2>1. CASE hd' = [hd EXCEPT ![h].probed = "msg"]
    BY <1>3, <2>1 DEF HandleRec
  <2>2. CASE hd' = [hd EXCEPT ![h].probed = "eos", ![h].rd = TRUE]
    BY <1>3, <2>2 DEF HandleRec
  <2> QED BY <1>0, <1>1, <2>1, <2>2
<1>6. /\ th'[t] = th[t] \/ (th'[t].pc = "notify" /\ th'[t].h = h /\ hd'[h].rd)
      /\ \A s \in Thread : s # t => th'[s] = th[s]
  <2>1. CASE Head(inbox[h]) = "hdr"
    BY <1>0, <2>1
  <2>2. CASE Head(inbox[h]) # "hdr"
    <3>1. StartClose(t, u, h, FALSE, TRUE, "unread") /\ hd' = [hd EXCEPT ![h].probed = "eos", ![h].rd = TRUE]
      BY <1>0, <1>1, <2>2
    <3>2. hd'[h].rd
      BY <1>3, <3>1 DEF HandleRec
    <3> QED BY <3>1, <3>2, StartCloseAt
  <2> QED BY <2>1, <2>2
<1> QED BY <1>0, <1>1, <1>2, <1>4, <1>5, <1>6, ReadReader

\* or a failure,
LEMMA ProbeFailReader ==
  ASSUME RInv, NEW t \in Thread, NEW u \in User, ProbeFail(t, u)
  PROVE  RInv'
<1>0. PICK h \in Handle :
        /\ Reads(t, u, h)
        /\ hd' = [hd EXCEPT ![user[u].h].rd = TRUE, ![user[u].h].wr = TRUE]
        /\ user' = [user EXCEPT ![u].readable = @ /\ Head(inbox[h]) = "rst"]
        /\ StartClose(t, u, user[u].h, TRUE, TRUE, "none")
        /\ UNCHANGED <<netVars, osVars, selVars, mgrVars, tmpset, listen_sck, shm,
                       io, nlisten, todo>>
  BY DEF ProbeFail
<1>1. user[u].h = h /\ SInv'
  BY <1>0, ReadsOwn, ProbeFailSafe DEF RInv
<1>2. UNCHANGED <<sock, connections, lsn, peer, set, fdmax, tmpset, listen_sck, nlisten, io,
                  backlog, handleReady, groupsReady, end, inbox>>
  BY <1>0 DEF netVars, osVars, selVars, mgrVars
<1>3. hd \in [Handle -> HandleRec] /\ user \in [User -> UserRec]
  BY DEF RInv, SInv, IInv, TypeOK
<1>4. (\A v \in User : v # u => user'[v] = user[v]) /\ user'[u].h = h
  BY <1>0, <1>1, <1>3 DEF UserRec
<1>5. /\ \A g \in Handle : g # h => hd'[g] = hd[g]
      /\ hd'[h].st = hd[h].st /\ hd'[h].rd
  BY <1>0, <1>1, <1>3 DEF HandleRec
<1>6. th'[t].pc = "notify" /\ th'[t].h = h /\ \A s \in Thread : s # t => th'[s] = th[s]
  <2>1. StartClose(t, u, h, TRUE, TRUE, "none")
    BY <1>0, <1>1
  <2> QED BY <2>1, StartCloseAt
<1> QED BY <1>0, <1>1, <1>2, <1>4, <1>5, <1>6, ReadReader

\* and HandleUser::receive.
LEMMA ReceiveReader ==
  ASSUME RInv, NEW t \in Thread, NEW u \in User, Receive(t, u)
  PROVE  RInv'
<1>0. PICK h \in Handle :
        /\ Reads(t, u, h) /\ hd' = [hd EXCEPT ![user[u].h].probed = "no"]
        /\ inbox' = [inbox EXCEPT ![h] = IF Head(@) \in Last THEN @ ELSE Tail(@)]
        /\ UNCHANGED <<backlog, peer, sent, osVars, selVars, mgrVars, out, tmpset,
                       listen_sck, shm, io, user, th, nlisten, todo>>
  BY DEF Receive
<1>1. user[u].h = h /\ SInv' /\ user[u].readable
  BY <1>0, ReadsOwn, ReceiveSafe DEF RInv, Reads
<1>2. UNCHANGED <<sock, connections, lsn, peer, set, fdmax, tmpset, listen_sck, nlisten, io,
                  backlog, handleReady, groupsReady, end, user, th>>
  BY <1>0 DEF osVars, selVars, mgrVars
<1>3. hd \in [Handle -> HandleRec] /\ inbox \in [Handle -> Seq(Item)]
  BY DEF RInv, SInv, IInv, TypeOK
<1>4. \A g \in Handle : g # h => inbox'[g] = inbox[g]
  BY <1>0, <1>3
<1>5. /\ \A g \in Handle : g # h => hd'[g] = hd[g]
      /\ hd'[h].st = hd[h].st /\ hd'[h].rd = hd[h].rd
  BY <1>0, <1>1, <1>3 DEF HandleRec
<1> QED BY <1>0, <1>1, <1>2, <1>4, <1>5, ReadReader

\* HandleUser::yield and the destructor of one that may read: the Handle is in
\* transit to notify_yield.
LEMMA StartYieldReader ==
  ASSUME RInv, SInv', NEW t \in Thread, NEW u \in User, NEW k, CanUse(t, u), user[u].readable,
         YieldsFd(user[u].h), StartYield(t, u, k),
         UNCHANGED <<sock, connections, lsn, peer, set, fdmax, tmpset, listen_sck, nlisten, io,
                     backlog, handleReady, groupsReady, end, hd, inbox>>
  PROVE  RInv'
<1>0. PICK h \in Handle : h = user[u].h
  BY InUse DEF RInv
<1>1. hd[h].st = "alive" /\ io.h # h /\ ~hd[h].rd
  BY <1>0, InUse DEF RInv, YieldsFd
<1>2. /\ Readers(h) = {u} /\ Watched(h) = {} /\ Queued(h) = {}
  BY <1>0, ReaderAt
<1>3. /\ \A s \in Thread : s # t => th'[s] = th[s]
      /\ th'[t].pc = "yield" /\ th'[t].h = h /\ th'[t].u = u /\ th'[t].f = hd[h].fd
  <2>1. th \in [Thread -> ThRec]
    BY Types DEF RInv, SInv
  <2> QED BY <1>0, <2>1 DEF StartYield, Call, Idle
<1>4. /\ \A v \in User : v # u => user'[v] = user[v]
      /\ user'[u].h = h /\ ~user'[u].readable
  <2>1. user \in [User -> UserRec]
    BY Types DEF RInv, SInv
  <2> QED BY <1>0, <2>1 DEF StartYield, UserRec
<1>5. /\ Watched(h)' = {} /\ Queued(h)' = {} /\ Yielding(h)' = {t} /\ Readers(h)' = {}
  <2>1. /\ Watched(h)' = Watched(h) /\ Queued(h)' = Queued(h)
        /\ Yielding(h)' = {s \in {t} : th'[s].pc = "yield" /\ th'[s].h = h}
    BY <1>0, <1>3, UsePlaces
  <2>2. Readers(h)' = {}
    BY <1>2, <1>4 DEF Readers
  <2> QED BY <1>2, <1>3, <2>1, <2>2
<1>6. PlaceOk(h)' /\ LiveOk(h)'
  BY <1>5 DEF PlaceOk, LiveOk
<1>7. TransitOk(t)'
  BY <1>1, <1>3, <1>4 DEF TransitOk, Closing
<1>8. /\ \A g \in Handle : g # h => hd'[g] = hd[g] /\ inbox'[g] = inbox[g]
      /\ hd'[h].st # "none" /\ hd'[h].rd = hd[h].rd /\ inbox'[h] = inbox[h]
  BY <1>1
<1> QED BY <1>0, <1>3, <1>4, <1>6, <1>7, <1>8, UseReader

\* HandleUser::yield
LEMMA YieldReader ==
  ASSUME RInv, NEW t \in Thread, NEW u \in User, Yield(t, u)
  PROVE  RInv'
<1>0. PICK h \in Handle : h = user[u].h
  BY InUse DEF RInv, Yield
<1>1. /\ CanUse(t, u) /\ user[u].readable /\ SInv'
      /\ UNCHANGED <<sock, connections, lsn, peer, set, fdmax, tmpset, listen_sck, nlisten, io,
                     backlog, handleReady, groupsReady, end, hd, inbox>>
  BY YieldSafe DEF RInv, Yield, netVars, osVars, selVars, mgrVars
<1>2. CASE YieldsFd(h) /\ StartYield(t, u, "none")
  BY <1>0, <1>1, <1>2, StartYieldReader
<1>3. CASE ~YieldsFd(h) /\ user' = [user EXCEPT ![u].readable = FALSE] /\ UNCHANGED th
  <2>1. /\ hd[h].st = "alive" /\ io.h # h /\ hd[h].rd /\ th[t].pc = "idle" /\ th[t].h = NoHandle
    <3>1. hd[h].fd = -1 => hd[h].rd
      BY <1>0, <1>1, InUse DEF RInv, SInv, HandleInv, HandleOk, FdOk
    <3> QED BY <1>0, <1>1, <1>3, <3>1, InUse DEF RInv, YieldsFd
  <2>2. /\ \A v \in User : v # u => user'[v] = user[v]
        /\ user'[u].h = h /\ ~user'[u].readable
    <3>1. user \in [User -> UserRec]
      BY Types DEF RInv, SInv
    <3> QED BY <1>0, <1>3, <3>1 DEF UserRec
  <2>3. PlaceOk(h)' /\ LiveOk(h)'
    <3>1. /\ Watched(h)' = Watched(h) /\ Queued(h)' = Queued(h) /\ Yielding(h) = {}
          /\ Yielding(h)' = {s \in {t} : th'[s].pc = "yield" /\ th'[s].h = h} /\ ReaderOk(h)
      BY <1>0, <1>1, <1>3, UsePlaces
    <3>2. Yielding(h)' = {} /\ Readers(h)' \subseteq Readers(h)
      BY <1>3, <2>1, <2>2, <3>1 DEF Readers
    <3>3. ~(Owed(h)')
      BY <1>1, <2>1 DEF Owed
    <3> QED BY <1>1, <3>1, <3>2, <3>3, PlacesShrink
  <2>4. /\ \A g \in Handle : g # h => hd'[g] = hd[g] /\ inbox'[g] = inbox[g]
        /\ hd'[h].st # "none" /\ hd'[h].rd = hd[h].rd /\ inbox'[h] = inbox[h]
    BY <1>1, <2>1
  <2>5. /\ TransitOk(t)' /\ th'[t].pc \notin {"lzero", "lset", "lmax"}
        /\ th'[t].h \in {h, NoHandle}
    BY <1>3, <2>1 DEF TransitOk, Closing
  <2> QED BY <1>0, <1>1, <1>3, <2>2, <2>3, <2>4, <2>5, UseReader
<1> QED BY <1>0, <1>2, <1>3 DEF Yield

\* What decrementReferenceCounter does, and what the delete leaves alone.
LEMMA ReapKeeps ==
  ASSUME NEW r \in HandleRec
  PROVE  Reap(r).rd = r.rd /\ Reap(r).wr = r.wr /\ Reap(r).fd = r.fd
         /\ Reap(r).st \in {r.st, "deleted"}
  BY DEF Reap, HandleRec

LEMMA ReleaseAt ==
  ASSUME RInv, NEW u \in User, NEW h \in Handle, Release(u, h), hd[h].st = "alive"
  PROVE  /\ \A g \in Handle : g # h => hd'[g] = hd[g]
         /\ hd'[h].rd = hd[h].rd /\ hd'[h].st \in {"alive", "deleted"}
         /\ \A v \in User : v # u => user'[v] = user[v]
         /\ user'[u].h = NoHandle /\ ~user'[u].readable
<1>1. user \in [User -> UserRec] /\ hd \in [Handle -> HandleRec]
  BY Types DEF RInv, SInv
<1> DEFINE r == [hd[h] EXCEPT !.cnt = @ - 1]
<1>2. r \in HandleRec /\ r.rd = hd[h].rd /\ r.st = hd[h].st
  BY <1>1 DEF HandleRec
<1>3. hd' = [hd EXCEPT ![h] = Reap(r)] /\ user' = [user EXCEPT ![u] = Empty]
  BY DEF Release
<1> HIDE DEF r
<1>4. hd'[h] = Reap(r) /\ \A g \in Handle : g # h => hd'[g] = hd[g]
  BY <1>1, <1>3
<1> QED BY <1>1, <1>2, <1>3, <1>4, ReapKeeps DEF Empty

\* ~HandleUser
LEMMA DropReader ==
  ASSUME RInv, NEW t \in Thread, NEW u \in User, Drop(t, u)
  PROVE  RInv'
<1>0. PICK h \in Handle : h = user[u].h
  BY InUse DEF RInv, Drop
<1>1. /\ CanUse(t, u) /\ SInv'
      /\ UNCHANGED <<sock, connections, lsn, peer, set, fdmax, tmpset, listen_sck, nlisten, io,
                     backlog, handleReady, groupsReady, end, inbox>>
  BY DropSafe DEF RInv, Drop, netVars, osVars, selVars, mgrVars
<1>2. CASE user[u].readable /\ YieldsFd(h) /\ StartYield(t, u, "drop") /\ UNCHANGED hd
  BY <1>0, <1>1, <1>2, StartYieldReader
<1>3. CASE ~(user[u].readable /\ YieldsFd(h)) /\ Release(u, h) /\ UNCHANGED th
  <2>1. hd[h].st = "alive" /\ io.h # h /\ th[t].pc = "idle" /\ th[t].h = NoHandle
    BY <1>0, <1>1, InUse DEF RInv
  <2>2. user[u].readable => hd[h].rd
    <3>1. hd[h].fd = -1 => hd[h].rd
      BY <2>1 DEF RInv, SInv, HandleInv, HandleOk, FdOk
    <3> QED BY <1>3, <3>1 DEF YieldsFd
  <2>3. /\ \A g \in Handle : g # h => hd'[g] = hd[g]
        /\ hd'[h].rd = hd[h].rd /\ hd'[h].st \in {"alive", "deleted"}
        /\ \A v \in User : v # u => user'[v] = user[v]
        /\ user'[u].h = NoHandle /\ ~user'[u].readable
    BY <1>3, <2>1, ReleaseAt
  <2>4. PlaceOk(h)' /\ LiveOk(h)'
    <3>1. /\ Watched(h)' = Watched(h) /\ Queued(h)' = Queued(h) /\ Yielding(h) = {}
          /\ Yielding(h)' = {s \in {t} : th'[s].pc = "yield" /\ th'[s].h = h} /\ ReaderOk(h)
      BY <1>0, <1>1, <1>3, UsePlaces
    <3>2. Yielding(h)' = {} /\ Readers(h)' \subseteq Readers(h)
      BY <1>3, <2>1, <2>3, <3>1 DEF Readers
    <3>3. CASE user[u].readable
      <4>1. ~(Owed(h)')
        BY <2>2, <2>3, <3>3 DEF Owed
      <4> QED BY <1>1, <3>1, <3>2, <4>1, PlacesShrink
    <3>4. CASE ~user[u].readable
      <4>1. Readers(h)' = Readers(h)
        BY <2>3, <3>4, HandleAssumption DEF Readers
      <4>2. Owed(h)' => Owed(h)
        BY <1>1, <2>1, <2>3 DEF Owed
      <4> QED BY <1>1, <3>1, <3>2, <4>1, <4>2, PlacesKept DEF SamePlaces
    <3> QED BY <3>3, <3>4
  <2>5. /\ \A g \in Handle : g # h => hd'[g] = hd[g] /\ inbox'[g] = inbox[g]
        /\ hd'[h].st # "none" /\ hd'[h].rd = hd[h].rd /\ inbox'[h] = inbox[h]
    BY <1>1, <2>3
  <2>6. /\ TransitOk(t)' /\ th'[t].pc \notin {"lzero", "lset", "lmax"}
        /\ th'[t].h \in {h, NoHandle} /\ user'[u].h \in {h, NoHandle}
        /\ \A s \in Thread : th'[s] = th[s]
    BY <1>3, <2>1, <2>3 DEF TransitOk, Closing
  <2> QED BY <1>0, <1>1, <2>3, <2>4, <2>5, <2>6, UseReader
<1> QED BY <1>0, <1>2, <1>3 DEF Drop

-----------------------------------------------------------------------------
(* The rest of a call *)

\* A step in the middle of a call on the HandleUser at u.
LEMMA WorkReader ==
  ASSUME RInv, SInv', NEW t \in Thread, NEW u \in User, NEW h \in Handle, th[t].pc \in Calling,
         u = th[t].u, h = th[t].h, \A s \in Thread : s # t => th'[s] = th[s],
         th'[t].pc \notin {"lzero", "lset", "lmax", "yield"}, th'[t].h \in {h, NoHandle},
         TransitOk(t)',
         \A g \in Handle : g # h => hd'[g] = hd[g],
         hd'[h].rd = hd[h].rd, hd'[h].st \in {"alive", "deleted"},
         \A v \in User : v # u => user'[v] = user[v], user'[u].h \in {h, NoHandle},
         user'[u].readable => user[u].readable,
         user[u].readable /\ (~user'[u].readable \/ user'[u].h # h) => hd[h].rd,
         th[t].pc # "yield",
         \A g \in Handle, f \in Fd : g # h => (connections'[f] = g <=> connections[f] = g),
         \A f \in set : /\ sock'[f] = sock[f] /\ connections'[f] = connections[f]
                        /\ f \in lsn => f \in lsn',
         lsn' \subseteq lsn,
         UNCHANGED <<peer, inbox, set, fdmax, tmpset, listen_sck, nlisten, io,
                     backlog, handleReady, groupsReady, end>>
  PROVE  RInv'
<1>1. /\ hd[h].st = "alive" /\ user[u].h = h
      /\ \A s \in Thread : s # t => /\ th[s].u # u
                                    /\ th[s].h = h => th[s].pc = "drain"
  BY InCall, Alone DEF RInv, Busy
<1>2. NoListen /\ NoListen'
  BY <1>1, Connected, ListenKept
<1>3. io.h # h
  BY <1>1, IoNotHeld DEF RInv
<1>4. ReaderOk(h) /\ set \subseteq Fd
  BY DEF RInv, ReaderInv, SInv, IInv, TypeOK
<1>5. /\ Watched(h)' = Watched(h) /\ Queued(h)' = Queued(h)
      /\ Yielding(h)' = {} /\ Yielding(h) = {}
  <2>1. Watched(h)' = Watched(h)
    BY <1>4 DEF Watched
  <2>2. Queued(h)' = Queued(h)
    BY DEF Queued
  <2>3. Yielding(h)' = {} /\ Yielding(h) = {}
    BY <1>1 DEF Yielding
  <2> QED BY <2>1, <2>2, <2>3
<1>6. Readers(h)' \subseteq Readers(h)
  BY <1>1 DEF Readers
<1>7. PlaceOk(h)' /\ LiveOk(h)'
  <2>1. CASE hd[h].rd
    <3>1. ~(Owed(h)')
      BY <2>1 DEF Owed
    <3> QED BY <1>4, <1>5, <1>6, <3>1, PlacesShrink
  <2>2. CASE ~hd[h].rd
    <3>1. Readers(h)' = Readers(h)
      BY <1>1, <2>2 DEF Readers
    <3>2. Owed(h)' => Owed(h)
      BY <1>1 DEF Owed
    <3> QED BY <1>4, <1>5, <3>1, <3>2, PlacesKept DEF SamePlaces
  <2> QED BY <2>1, <2>2
<1>8. ReaderOk(h)'
  <2>1. FreshOk(h)'
    BY <1>3, NotFreshNext
  <2> QED BY <1>7, <2>1 DEF ReaderOk
<1>9. \A g \in Handle, v \in User :
         g # h => ((user'[v].h = g /\ user'[v].readable) <=> (user[v].h = g /\ user[v].readable))
  BY <1>1, HandleAssumption
<1>10. \A s \in Thread : s # t => /\ th'[s] = th[s]
                                  /\ th[s].pc \in Closing \cup {"yield"} => th[s].h # h
                                  /\ th[s].u \in User => user'[th[s].u] = user[th[s].u]
  BY <1>1 DEF Closing
<1>11. /\ \A g \in Handle : g # h => hd'[g] = hd[g] /\ inbox'[g] = inbox[g] /\ peer'[g] = peer[g]
       /\ (peer'[h] = "none" => peer[h] = "none") /\ inbox'[h] = inbox[h]
       /\ th[t].h \in {h, NoHandle}
  OBVIOUS
<1> QED BY <1>2, <1>8, <1>9, <1>10, <1>11, CallReader

\* What decides that a call takes the right to read away.
LEMMA EndCloseAt ==
  ASSUME RInv, NEW t \in Thread, NEW u \in User, NEW h \in Handle, u = th[t].u, h = th[t].h,
         user[u].h = h, EndClose(t), th[t].pc \in Closing
  PROVE  /\ \A s \in Thread : s # t => th'[s] = th[s]
         /\ th'[t].pc = "idle" /\ th'[t].h = NoHandle
         /\ \A v \in User : v # u => user'[v] = user[v]
         /\ user'[u].h = h /\ (user'[u].readable => user[u].readable)
         /\ user[u].readable /\ ~user'[u].readable => hd[h].rd
<1>1. user \in [User -> UserRec] /\ th \in [Thread -> ThRec]
  BY Types DEF RInv, SInv
<1>2. /\ th' = [th EXCEPT ![t] = Idle]
      /\ user' = IF th[t].k = "unread" THEN [user EXCEPT ![u].readable = FALSE] ELSE user
  BY DEF EndClose
<1>3. th[t].k = "unread" => hd[h].rd
  BY DEF RInv, TransitInv, TransitOk
<1>4. /\ \A s \in Thread : s # t => th'[s] = th[s]
      /\ th'[t].pc = "idle" /\ th'[t].h = NoHandle
  BY <1>1, <1>2 DEF Idle
<1>5. CASE th[t].k = "unread"
  <2>1. user' = [user EXCEPT ![u].readable = FALSE]
    BY <1>2, <1>5
  <2> QED BY <1>1, <1>3, <1>4, <1>5, <2>1 DEF UserRec
<1>6. CASE th[t].k # "unread"
  BY <1>2, <1>4, <1>6
<1> QED BY <1>5, <1>6

\* The end of ~HandleUser
LEMMA DropReleaseReader ==
  ASSUME RInv, NEW t \in Thread, DropRelease(t)
  PROVE  RInv'
<1>0. PICK h \in Handle, u \in User : h = th[t].h /\ u = th[t].u /\ hd[h].st = "alive"
  BY InCall DEF RInv, DropRelease, Calling
<1>1. /\ th[t].pc = "dec" /\ SInv' /\ Release(u, h) /\ th' = [th EXCEPT ![t] = Idle]
      /\ UNCHANGED <<sock, connections, lsn, peer, set, fdmax, tmpset, listen_sck, nlisten, io,
                     backlog, handleReady, groupsReady, end, inbox>>
  BY <1>0, DropReleaseSafe DEF RInv, DropRelease, netVars, osVars, selVars, mgrVars
<1>2. /\ \A g \in Handle : g # h => hd'[g] = hd[g]
      /\ hd'[h].rd = hd[h].rd /\ hd'[h].st \in {"alive", "deleted"}
      /\ \A v \in User : v # u => user'[v] = user[v]
      /\ user'[u].h = NoHandle /\ ~user'[u].readable
  BY <1>0, <1>1, ReleaseAt
<1>3. /\ \A s \in Thread : s # t => th'[s] = th[s]
      /\ th'[t].pc = "idle" /\ th'[t].h = NoHandle
  <2>1. th \in [Thread -> ThRec]
    BY Types DEF RInv, SInv
  <2> QED BY <1>1, <2>1 DEF Idle
<1>4. ~user[u].readable
  BY <1>0, <1>1 DEF RInv, TransitInv, TransitOk
<1>5. TransitOk(t)'
  BY <1>3 DEF TransitOk, Closing
<1>6. /\ \A f \in set : /\ sock'[f] = sock[f] /\ connections'[f] = connections[f]
                        /\ f \in lsn => f \in lsn'
      /\ \A g \in Handle, f \in Fd : g # h => (connections'[f] = g <=> connections[f] = g)
      /\ lsn' \subseteq lsn /\ th[t].pc \in Calling
  BY <1>1 DEF Calling
<1> QED BY <1>0, <1>1, <1>2, <1>3, <1>4, <1>5, <1>6, WorkReader

\* The descriptor of a Handle that is closed for reading, or has left the table,
\* is not watched.
LEMMA Unwatched ==
  ASSUME RInv, NEW h \in Handle, NEW f \in Fd, sock[f] = h, hd[h].rd \/ connections[f] # h
  PROVE  f \notin set
  BY WatchedAt, HandleAssumption

\* Closing a descriptor that is not watched.
LEMMA CloseFdAt ==
  ASSUME RInv, NEW h \in Handle, NEW f \in Fd, sock[f] = h, f \notin set, CloseFd(f)
  PROVE  lsn' \subseteq lsn /\ \A g \in set : sock'[g] = sock[g] /\ (g \in lsn => g \in lsn')
<1>1. sock \in [Fd -> Handle \cup {NoHandle}] /\ set \subseteq Fd
  BY DEF RInv, SInv, IInv, TypeOK
<1> QED BY <1>1 DEF CloseFd

\* notify_close up to its lock
LEMMA NotifyCloseReader ==
  ASSUME RInv, NEW t \in Thread, NotifyClose(t)
  PROVE  RInv'
<1>0. PICK h \in Handle, u \in User : /\ h = th[t].h /\ u = th[t].u
                                      /\ hd[h].st = "alive" /\ user[u].h = h /\ hd[h] \in HandleRec
  BY InCall DEF RInv, NotifyClose, Calling, Closing
<1> DEFINE f == hd[h].fd
<1>1. /\ th[t].pc = "notify" /\ SInv'
      /\ IF LoneWrite(t) THEN CloseFd(f) ELSE UNCHANGED <<open, lsn, sock>>
      /\ UNCHANGED <<connections, peer, set, fdmax, tmpset, listen_sck, nlisten, io,
                     backlog, handleReady, groupsReady, end, inbox>>
  BY <1>0, NotifyCloseSafe DEF RInv, NotifyClose, netVars, osVars, selVars, mgrVars
<1>2. /\ lsn' \subseteq lsn
      /\ \A g \in set : sock'[g] = sock[g] /\ (g \in lsn => g \in lsn')
  <2>1. CASE LoneWrite(t)
    <3>1. f \in Fd /\ connections[f] = NoHandle /\ CloseFd(f)
      BY <1>0, <1>1, <2>1 DEF LoneWrite, HandleRec
    <3>2. sock[f] = h
      BY <1>0, <3>1, OwnEntry DEF RInv
    <3>3. f \notin set
      BY <3>1, <3>2, Unwatched, HandleAssumption
    <3> HIDE DEF f
    <3> QED BY <3>1, <3>2, <3>3, CloseFdAt
  <2>2. CASE ~LoneWrite(t)
    BY <1>1, <2>2
  <2> QED BY <2>1, <2>2
<1>3. /\ \A g \in set : /\ sock'[g] = sock[g] /\ connections'[g] = connections[g]
                        /\ g \in lsn => g \in lsn'
      /\ \A d \in Handle, g \in Fd : d # h => (connections'[g] = d <=> connections[g] = d)
      /\ th[t].pc \in Calling
  BY <1>1, <1>2 DEF Calling, Closing
<1>4. CASE /\ th' = [th EXCEPT ![t].pc = "erase", ![t].f = f] /\ UNCHANGED <<hd, user>>
  <2>1. /\ \A s \in Thread : s # t => th'[s] = th[s]
        /\ th'[t].pc = "erase" /\ th'[t].h = h /\ th'[t].k = th[t].k
    <3>1. th \in [Thread -> ThRec]
      BY Types DEF RInv, SInv
    <3> HIDE DEF f
    <3> QED BY <1>0, <1>4, <3>1 DEF ThRec
  <2>2. TransitOk(t)'
    BY <1>0, <1>1, <1>4, <2>1 DEF RInv, TransitInv, TransitOk, Closing
  <2>3. /\ \A g \in Handle : g # h => hd'[g] = hd[g]
        /\ hd'[h].rd = hd[h].rd /\ hd'[h].st \in {"alive", "deleted"}
        /\ \A v \in User : v # u => user'[v] = user[v]
        /\ user'[u].h = h /\ user'[u].readable = user[u].readable
    BY <1>0, <1>4
  <2> HIDE DEF f
  <2> QED BY <1>0, <1>1, <1>2, <1>3, <2>1, <2>2, <2>3, WorkReader
<1>5. CASE /\ hd' = [hd EXCEPT ![h] = Reap(IF LoneWrite(t) THEN [@ EXCEPT !.fd = -1] ELSE @)]
           /\ EndClose(t)
  <2>1. /\ \A s \in Thread : s # t => th'[s] = th[s]
        /\ th'[t].pc = "idle" /\ th'[t].h = NoHandle
        /\ \A v \in User : v # u => user'[v] = user[v]
        /\ user'[u].h = h /\ (user'[u].readable => user[u].readable)
        /\ user[u].readable /\ ~user'[u].readable => hd[h].rd
    BY <1>0, <1>1, <1>5, EndCloseAt DEF Closing
  <2>2. TransitOk(t)'
    BY <2>1 DEF TransitOk, Closing
  <2>3. /\ \A g \in Handle : g # h => hd'[g] = hd[g]
        /\ hd'[h].rd = hd[h].rd /\ hd'[h].st \in {"alive", "deleted"}
    <3> DEFINE r == IF LoneWrite(t) THEN [hd[h] EXCEPT !.fd = -1] ELSE hd[h]
    <3>1. r \in HandleRec /\ r.rd = hd[h].rd /\ r.st = hd[h].st
      BY <1>0 DEF HandleRec
    <3>2. hd \in [Handle -> HandleRec] /\ hd' = [hd EXCEPT ![h] = Reap(r)]
      BY <1>5, Types DEF RInv, SInv
    <3> HIDE DEF r
    <3>3. hd'[h] = Reap(r) /\ \A g \in Handle : g # h => hd'[g] = hd[g]
      BY <3>2
    <3> QED BY <1>0, <3>1, <3>3, ReapKeeps
  <2> HIDE DEF f
  <2> QED BY <1>0, <1>1, <1>2, <1>3, <2>1, <2>2, <2>3, WorkReader
<1> QED BY <1>0, <1>4, <1>5 DEF NotifyClose

\* under the lock: the descriptor was not watched any more,
LEMMA NotifyEraseReader ==
  ASSUME RInv, NEW t \in Thread, NotifyErase(t)
  PROVE  RInv'
<1>0. PICK h \in Handle, u \in User, f \in Fd :
        /\ h = th[t].h /\ u = th[t].u /\ f = th[t].f
        /\ hd[h].st = "alive" /\ user[u].h = h /\ hd[h] \in HandleRec
  BY InCall DEF RInv, NotifyErase, Calling, Closing
<1>1. /\ th[t].pc = "erase" /\ SInv' /\ connections' = Erase(f)
      /\ set' = Unwatch(f) /\ fdmax' = FdMaxWithout(f)
      /\ UNCHANGED <<sock, lsn, peer, tmpset, listen_sck, nlisten, io,
                     backlog, handleReady, groupsReady, end, inbox>>
  BY <1>0, NotifyEraseSafe DEF RInv, NotifyErase, netVars, osVars, mgrVars
<1>2. hd[h].rd /\ hd[h].fd = f /\ sock[f] = h /\ connections[f] \in {h, NoHandle}
  <2>1. hd[h].rd /\ hd[h].fd = f
    BY <1>0, <1>1 DEF RInv, SInv, ThreadInv, CallOk, Closing
  <2> QED BY <1>0, <2>1, OwnEntry DEF RInv
<1>3. f \notin set
  BY <1>2, Unwatched
<1>4. set' = set /\ fdmax' = fdmax
  <2>1. NoListen
    BY <1>0, Connected
  <2>2. f # fdmax
    BY <1>3, <2>1, BoundAssumption DEF RInv, FdMaxOk, NoListen, Fd
  <2> QED BY <1>1, <1>3, <2>2 DEF Unwatch, FdMaxWithout
<1>5. /\ \A g \in set : /\ sock'[g] = sock[g] /\ connections'[g] = connections[g]
                        /\ g \in lsn => g \in lsn'
      /\ \A d \in Handle, g \in Fd : d # h => (connections'[g] = d <=> connections[g] = d)
      /\ lsn' \subseteq lsn /\ th[t].pc \in Calling
  <2>1. connections \in [Fd -> Handle \cup {NoHandle}] /\ set \subseteq Fd
    BY DEF RInv, SInv, IInv, TypeOK
  <2> QED BY <1>1, <1>2, <1>3, <2>1, HandleAssumption DEF Calling, Closing, Erase
<1>6. CASE th' = [th EXCEPT ![t].pc = "fdclose"] /\ UNCHANGED <<hd, user>>
  <2>1. /\ \A s \in Thread : s # t => th'[s] = th[s]
        /\ th'[t].pc = "fdclose" /\ th'[t].h = h
    <3>1. th \in [Thread -> ThRec]
      BY Types DEF RInv, SInv
    <3> QED BY <1>0, <1>6, <3>1 DEF ThRec
  <2>2. /\ \A g \in Handle : g # h => hd'[g] = hd[g]
        /\ hd'[h].rd = hd[h].rd /\ hd'[h].st \in {"alive", "deleted"}
        /\ \A v \in User : v # u => user'[v] = user[v]
        /\ user'[u].h = h /\ user'[u].readable = user[u].readable
    BY <1>0, <1>6
  <2>3. TransitOk(t)'
    BY <1>2, <2>1, <2>2 DEF TransitOk, Closing
  <2> QED BY <1>0, <1>1, <1>4, <1>5, <2>1, <2>2, <2>3, WorkReader
<1>7. CASE hd' = [hd EXCEPT ![h] = Reap(@)] /\ EndClose(t)
  <2>1. /\ \A s \in Thread : s # t => th'[s] = th[s]
        /\ th'[t].pc = "idle" /\ th'[t].h = NoHandle
        /\ \A v \in User : v # u => user'[v] = user[v]
        /\ user'[u].h = h /\ (user'[u].readable => user[u].readable)
    BY <1>0, <1>1, <1>7, EndCloseAt DEF Closing
  <2>2. TransitOk(t)'
    BY <2>1 DEF TransitOk, Closing
  <2>3. /\ \A g \in Handle : g # h => hd'[g] = hd[g]
        /\ hd'[h].rd = hd[h].rd /\ hd'[h].st \in {"alive", "deleted"}
    <3>1. hd \in [Handle -> HandleRec]
      BY Types DEF RInv, SInv
    <3>2. hd'[h] = Reap(hd[h]) /\ \A g \in Handle : g # h => hd'[g] = hd[g]
      BY <1>7, <3>1
    <3> QED BY <1>0, <3>2, ReapKeeps
  <2> QED BY <1>0, <1>1, <1>2, <1>4, <1>5, <2>1, <2>2, <2>3, WorkReader
<1> QED BY <1>0, <1>6, <1>7 DEF NotifyErase

\* and after it.
LEMMA NotifyFdCloseReader ==
  ASSUME RInv, NEW t \in Thread, NotifyFdClose(t)
  PROVE  RInv'
<1>0. PICK h \in Handle, u \in User, f \in Fd :
        /\ h = th[t].h /\ u = th[t].u /\ f = th[t].f
        /\ hd[h].st = "alive" /\ user[u].h = h /\ hd[h] \in HandleRec
  BY InCall DEF RInv, NotifyFdClose, Calling, Closing
<1>1. /\ th[t].pc = "fdclose" /\ SInv' /\ CloseFd(f) /\ EndClose(t)
      /\ UNCHANGED <<connections, peer, set, fdmax, tmpset, listen_sck, nlisten, io,
                     backlog, handleReady, groupsReady, end, inbox>>
  BY <1>0, NotifyFdCloseSafe DEF RInv, NotifyFdClose, netVars, selVars, mgrVars
<1>2. hd[h].rd /\ sock[f] = h
  <2>1. hd[h].rd /\ hd[h].fd = f
    BY <1>0, <1>1 DEF RInv, SInv, ThreadInv, CallOk, Closing
  <2> QED BY <1>0, <2>1, OwnEntry DEF RInv
<1>3. /\ lsn' \subseteq lsn
      /\ \A g \in set : sock'[g] = sock[g] /\ (g \in lsn => g \in lsn')
  BY <1>1, <1>2, Unwatched, CloseFdAt
<1>4. /\ \A g \in set : /\ sock'[g] = sock[g] /\ connections'[g] = connections[g]
                        /\ g \in lsn => g \in lsn'
      /\ \A d \in Handle, g \in Fd : d # h => (connections'[g] = d <=> connections[g] = d)
      /\ th[t].pc \in Calling
  BY <1>1, <1>3 DEF Calling, Closing
<1>5. /\ \A s \in Thread : s # t => th'[s] = th[s]
      /\ th'[t].pc = "idle" /\ th'[t].h = NoHandle
      /\ \A v \in User : v # u => user'[v] = user[v]
      /\ user'[u].h = h /\ (user'[u].readable => user[u].readable)
  BY <1>0, <1>1, EndCloseAt DEF Closing
<1>6. TransitOk(t)'
  BY <1>5 DEF TransitOk, Closing
<1>7. /\ \A g \in Handle : g # h => hd'[g] = hd[g]
      /\ hd'[h].rd = hd[h].rd /\ hd'[h].st \in {"alive", "deleted"}
  <2> DEFINE r == [hd[h] EXCEPT !.fd = -1]
  <2>1. r \in HandleRec /\ r.rd = hd[h].rd /\ r.st = hd[h].st
    BY <1>0 DEF HandleRec
  <2>2. hd \in [Handle -> HandleRec] /\ hd' = [hd EXCEPT ![h] = Reap(r)]
    BY <1>0, Types DEF RInv, SInv, NotifyFdClose
  <2> HIDE DEF r
  <2>3. hd'[h] = Reap(r) /\ \A g \in Handle : g # h => hd'[g] = hd[g]
    BY <2>2
  <2> QED BY <1>0, <2>1, <2>3, ReapKeeps
<1> QED BY <1>0, <1>1, <1>2, <1>3, <1>4, <1>5, <1>6, <1>7, WorkReader

-----------------------------------------------------------------------------
(* Manager::connect *)

\* A Handle that nobody counts is nowhere but, perhaps, in the watched set.
LEMMA Nobody ==
  ASSUME RInv, NEW h \in Handle, hd[h].cnt = 0
  PROVE  Queued(h) = {} /\ Readers(h) = {} /\ Yielding(h) = {}
<1>1. Queued(h) = {}
  <2>1. ASSUME NEW i \in Queued(h)
        PROVE  FALSE
    <3>1. i \in DOMAIN handleReady /\ handleReady[i].h = h
      BY DEF Queued
    <3>2. hd[h].cnt > 0
      BY <3>1, QueuedCount DEF RInv
    <3> QED BY <3>2
  <2> QED BY <2>1
<1>2. \A u \in User : user[u].h # h
  <2>1. ASSUME NEW u \in User, user[u].h = h
        PROVE  FALSE
    <3>1. hd[h].cnt > 0
      BY <2>1, HeldCount DEF RInv
    <3> QED BY <3>1
  <2> QED BY <2>1
<1>3. Yielding(h) = {}
  <2>1. ASSUME NEW t \in Thread, th[t].pc = "yield", th[t].h = h
        PROVE  FALSE
    <3>1. th[t].u \in User /\ user[th[t].u].h = h
      BY <2>1, InCall DEF RInv, Calling
    <3> QED BY <1>2, <3>1
  <2> QED BY <2>1 DEF Yielding
<1> QED BY <1>1, <1>2, <1>3 DEF Readers

\* Before a Handle is made it is nowhere.
LEMMA UnbornAt ==
  ASSUME RInv, NEW h \in Handle, hd[h].st = "none"
  PROVE  /\ Queued(h) = {} /\ Readers(h) = {} /\ Yielding(h) = {} /\ Watched(h) = {}
         /\ \A f \in Fd : connections[f] # h
<1>1. hd[h].cnt = 0
  BY DEF RInv, SInv, HandleInv, HandleOk, BirthOk, Unborn
<1>2. \A f \in Fd : connections[f] # h
  BY DEF RInv, SInv, HandleInv, HandleOk, TableOk
<1>3. set \subseteq Fd
  BY DEF RInv, SInv, IInv, TypeOK
<1> QED BY <1>1, <1>2, <1>3, Nobody DEF Watched

\* What is watched is open.
LEMMA WatchedOpen ==
  ASSUME RInv
  PROVE  set \subseteq open
<1>1. set \subseteq Fd
  BY DEF RInv, SInv, IInv, TypeOK
<1> QED BY <1>1 DEF RInv, SetOk, SInv, SockInv

\* connect, up to the lock
LEMMA ConnectReader ==
  ASSUME RInv, NEW t \in Thread, NEW u \in User, NEW h \in Handle, Connect(t, u, h)
  PROVE  RInv'
<1>1. /\ SInv' /\ th[t].pc = "idle" /\ peer[h] = "none" /\ Fd \ open # {}
      /\ ListenFirst => NoListen
      /\ UNCHANGED <<connections, lsn, set, fdmax, tmpset, listen_sck, nlisten, io,
                     backlog, handleReady, groupsReady, end, inbox, hd, user>>
  BY ConnectSafe DEF RInv, Connect, CanStore, NoListen, selVars, mgrVars
<1>2. hd[h].st = "none" /\ io.h # h /\ \A s \in Thread : th[s].h # h
  BY <1>1 DEF RInv, SInv, HandleInv, HandleOk, BirthOk
<1>3. /\ \A s \in Thread : s # t => th'[s] = th[s]
      /\ th'[t].pc = "conn" /\ th'[t].h = h
  <2>1. th \in [Thread -> ThRec]
    BY Types DEF RInv, SInv
  <2> QED BY <2>1 DEF Connect, Call, Idle
<1>4. NoListen /\ NoListen'
  BY <1>1, <1>3, ListenKept DEF RInv
<1>5. \A f \in set : sock'[f] = sock[f]
  <2>1. LowestFree \in Fd \ open
    BY <1>1, FreeFd DEF RInv
  <2>2. sock \in [Fd -> Handle \cup {NoHandle}] /\ set \subseteq Fd
    BY DEF RInv, SInv, IInv, TypeOK
  <2> QED BY <2>1, <2>2, WatchedOpen DEF Connect
<1>6. (\A g \in Handle : g # h => peer'[g] = peer[g]) /\ peer'[h] = "up"
  <2>1. peer \in [Handle -> PeerState]
    BY Types DEF RInv, SInv
  <2> QED BY <2>1 DEF Connect
<1>7. ReaderOk(h)'
  <2>1. Watched(h)' = {} /\ Queued(h)' = {} /\ Readers(h)' = {} /\ Yielding(h)' = {}
    <3>1. Watched(h)' = Watched(h) /\ Queued(h)' = Queued(h) /\ Readers(h)' = Readers(h)
      BY <1>1 DEF Watched, Queued, Readers
    <3>2. Yielding(h)' = {}
      BY <1>2, <1>3 DEF Yielding
    <3> QED BY <1>2, <3>1, <3>2, UnbornAt
  <2>2. PlaceOk(h)'
    BY <2>1 DEF PlaceOk
  <2>3. LiveOk(h)'
    BY <1>1, <1>2 DEF LiveOk, Owed
  <2>4. FreshOk(h)'
    <3>1. ~Fresh(h)
      BY <1>1, <1>2 DEF RInv, SInv, HandleInv, HandleOk, BirthOk, Fresh
    <3> QED BY <1>1, <1>6, <3>1 DEF FreshOk, Fresh
  <2> QED BY <2>2, <2>3, <2>4 DEF ReaderOk
<1>8. TransitOk(t)'
  BY <1>3 DEF TransitOk, Closing
<1>9. th[t].h = NoHandle
  BY <1>1 DEF RInv, SInv, ThreadInv, CallOk, Busy, Calling, Closing
<1>10. /\ \A s \in Thread : s # t => /\ th'[s] = th[s]
                                     /\ th[s].pc \in Closing \cup {"yield"} => th[s].h # h
                                     /\ th[s].u \in User => user'[th[s].u] = user[th[s].u]
       /\ \A g \in Handle : g # h => hd'[g] = hd[g] /\ inbox'[g] = inbox[g] /\ peer'[g] = peer[g]
       /\ \A g \in Handle, f \in Fd : g # h => (connections'[f] = g <=> connections[f] = g)
       /\ \A g \in Handle, v \in User :
            g # h => ((user'[v].h = g /\ user'[v].readable) <=> (user[v].h = g /\ user[v].readable))
       /\ (peer'[h] = "none" => peer[h] = "none") /\ hd'[h].rd = hd[h].rd /\ inbox'[h] = inbox[h]
       /\ \A f \in set : /\ sock'[f] = sock[f] /\ connections'[f] = connections[f]
                         /\ f \in lsn => f \in lsn'
       /\ lsn' \subseteq lsn
  BY <1>1, <1>2, <1>3, <1>5, <1>6
<1> QED BY <1>1, <1>3, <1>4, <1>7, <1>8, <1>9, <1>10, CallReader

\* and under it: the caller gets the only HandleUser, or the peer is dead.
LEMMA ConnectInsertReader ==
  ASSUME RInv, NEW t \in Thread, ConnectInsert(t)
  PROVE  RInv'
<1>0. PICK h \in Handle, u \in User, f \in Fd : h = th[t].h /\ u = th[t].u /\ f = th[t].f
  BY ThLocals DEF RInv, SInv, ThFits, ConnectInsert
<1>1. /\ SInv' /\ th[t].pc = "conn" /\ connections' = [connections EXCEPT ![f] = h]
      /\ th' = [th EXCEPT ![t] = Idle]
      /\ \/ /\ hd' = [hd EXCEPT ![h] = NewHandle(f, 1)]
            /\ user' = [user EXCEPT ![u] = [h |-> h, readable |-> TRUE]]
         \/ /\ peer[h] = "dead"
            /\ hd' = [hd EXCEPT ![h] = NewHandle(f, 0)]
            /\ UNCHANGED user
      /\ UNCHANGED <<sock, lsn, set, fdmax, tmpset, listen_sck, nlisten, io, peer,
                     backlog, handleReady, groupsReady, end, inbox>>
  BY <1>0, ConnectInsertSafe DEF RInv, ConnectInsert, netVars, osVars, mgrVars
<1>2. hd[h].st = "none" /\ sock[f] = h /\ user[u].h = NoHandle
  BY <1>0, <1>1 DEF RInv, SInv, ThreadInv, CallOk
<1>3. io.h # h /\ \A s \in Thread : s # t => th[s].u # u /\ (th[s].pc \in Busy => th[s].h # h)
  <2>1. io.h # h
    BY <1>0, <1>2, HandleAssumption DEF RInv, SInv, IoOk
  <2>2. \A s \in Thread : s # t => th[s].u # u /\ (th[s].h = h => th[s].pc = "drain")
    BY <1>0, <1>1, Alone DEF RInv, Busy
  <2> QED BY <2>1, <2>2 DEF Busy, Calling, Closing
<1>4. NoListen
  BY <1>0, Connected
<1>5. /\ \A s \in Thread : s # t => th'[s] = th[s]
      /\ th'[t].pc = "idle" /\ th'[t].h = NoHandle
  <2>1. th \in [Thread -> ThRec]
    BY Types DEF RInv, SInv
  <2> QED BY <1>1, <2>1 DEF Idle
<1>6. NoListen' /\ TransitOk(t)'
  BY <1>4, <1>5, ListenKept DEF TransitOk, Closing
<1>7. connections \in [Fd -> Handle \cup {NoHandle}] /\ set \subseteq Fd
  BY DEF RInv, SInv, IInv, TypeOK
<1>8. /\ Queued(h) = {} /\ Readers(h) = {} /\ Yielding(h) = {} /\ Watched(h) = {}
      /\ \A g \in Fd : connections[g] # h
  BY <1>2, UnbornAt
<1>9. f \notin set
  BY <1>2, <1>8, Unwatched
<1>10. connections[f] = NoHandle
  <2>1. ASSUME NEW g \in Handle, connections[f] = g
        PROVE  FALSE
    <3>1. hd[g].st = "alive" /\ hd[g].fd = f
      BY <2>1 DEF RInv, SInv, HandleInv, HandleOk, TableOk
    <3>2. sock[f] = g
      BY <3>1, OwnEntry DEF RInv
    <3> QED BY <1>2, <1>8, <2>1, <3>2
  <2> QED BY <1>7, <2>1
<1>11. /\ \A g \in Handle, d \in Fd : g # h => (connections'[d] = g <=> connections[d] = g)
       /\ \A d \in set : connections'[d] = connections[d]
  BY <1>1, <1>7, <1>9, <1>10, HandleAssumption
<1>12. /\ \A g \in Handle : g # h => hd'[g] = hd[g]
       /\ hd'[h].st = "alive"
  <2>1. hd \in [Handle -> HandleRec]
    BY Types DEF RInv, SInv
  <2> QED BY <1>1, <2>1 DEF NewHandle
<1>13. /\ \A v \in User : v # u => user'[v] = user[v]
       /\ \/ user'[u].h = h /\ user'[u].readable
          \/ peer[h] = "dead" /\ user'[u].h = NoHandle
  <2>1. user \in [User -> UserRec]
    BY Types DEF RInv, SInv
  <2> QED BY <1>1, <1>2, <2>1
<1>14. ReaderOk(h)'
  <2>1. Watched(h)' = {} /\ Queued(h)' = {} /\ Yielding(h)' = {}
    <3>1. Watched(h)' = {}
      BY <1>1, <1>8, <1>11 DEF Watched
    <3>2. Queued(h)' = {}
      BY <1>1, <1>8 DEF Queued
    <3>3. Yielding(h)' = {}
      BY <1>5, <1>8 DEF Yielding
    <3> QED BY <3>1, <3>2, <3>3
  <2>2. CASE user'[u].h = h /\ user'[u].readable
    <3>1. Readers(h)' = {u}
      BY <1>8, <1>13, <2>2 DEF Readers
    <3> QED BY <1>1, <1>3, <1>12, <2>1, <3>1, NotFreshNext DEF ReaderOk, PlaceOk, LiveOk
  <2>3. CASE peer[h] = "dead" /\ user'[u].h = NoHandle
    <3>1. Readers(h)' = {}
      BY <1>8, <1>13, <2>3, HandleAssumption DEF Readers
    <3>2. ~(Owed(h)')
      BY <1>1, <2>3 DEF Owed
    <3> QED BY <1>1, <1>3, <1>12, <2>1, <3>1, <3>2, NotFreshNext DEF ReaderOk, PlaceOk, LiveOk
  <2> QED BY <1>13, <2>2, <2>3
<1>15. /\ \A s \in Thread : s # t => /\ th'[s] = th[s]
                                     /\ th[s].pc \in Closing \cup {"yield"} => th[s].h # h
                                     /\ th[s].u \in User => user'[th[s].u] = user[th[s].u]
       /\ \A g \in Handle : g # h => hd'[g] = hd[g] /\ inbox'[g] = inbox[g] /\ peer'[g] = peer[g]
       /\ \A g \in Handle, v \in User :
            g # h => ((user'[v].h = g /\ user'[v].readable) <=> (user[v].h = g /\ user[v].readable))
       /\ (peer'[h] = "none" => peer[h] = "none") /\ inbox'[h] = inbox[h]
       /\ \A d \in set : /\ sock'[d] = sock[d] /\ connections'[d] = connections[d]
                         /\ d \in lsn => d \in lsn'
       /\ lsn' \subseteq lsn /\ th[t].h \in {h, NoHandle} /\ th'[t].h \in {h, NoHandle}
  BY <1>0, <1>1, <1>2, <1>3, <1>5, <1>11, <1>12, <1>13, HandleAssumption DEF Busy, Calling
<1> QED BY <1>1, <1>4, <1>6, <1>8, <1>11, <1>14, <1>15, CallReader

-----------------------------------------------------------------------------
(* The bound given to select *)

\* fdmax when a descriptor is watched,
LEMMA FdMaxWithOk ==
  ASSUME set \subseteq Fd, fdmax \in Fd \cup {-1}, NEW f \in Fd,
         \A g \in set : g <= fdmax, fdmax # -1 => fdmax \in set
  PROVE  /\ \A g \in set \cup {f} : g <= FdMaxWith(f)
         /\ FdMaxWith(f) \in set \cup {f}
<1>1. /\ \A g \in set : g \in Int /\ g >= 0
      /\ f \in Int /\ f >= 0 /\ fdmax \in Int
  BY BoundAssumption DEF Fd
<1>2. CASE f > fdmax
  BY <1>1, <1>2 DEF FdMaxWith
<1>3. CASE ~(f > fdmax)
  BY <1>1, <1>3 DEF FdMaxWith
<1> QED BY <1>2, <1>3

\* and when one is not any more.
LEMMA FdMaxWithoutOk ==
  ASSUME set \subseteq Fd, fdmax \in Fd \cup {-1}, NEW f \in Fd,
         \A g \in set : g <= fdmax, fdmax # -1 => fdmax \in set
  PROVE  /\ \A g \in set \ {f} : g <= FdMaxWithout(f)
         /\ FdMaxWithout(f) # -1 => FdMaxWithout(f) \in set \ {f}
<1> DEFINE below == {i \in set : i < fdmax}
<1>1. /\ \A g \in set : g \in Int /\ g >= 0
      /\ f \in Int /\ f >= 0 /\ fdmax \in Int
  BY BoundAssumption DEF Fd
<1>2. CASE f # fdmax
  BY <1>1, <1>2 DEF FdMaxWithout
<1>3. CASE f = fdmax
  <2>1. \A g \in set \ {f} : g \in below
    BY <1>1, <1>3
  <2>2. f \notin below
    BY <1>1, <1>3
  <2>3. CASE below = {}
    BY <1>3, <2>1, <2>3 DEF FdMaxWithout
  <2>4. CASE below # {}
    <3>1. Max(below) \in below /\ \A y \in below : Max(below) >= y
      BY <2>4, FdMax
    <3>2. FdMaxWithout(f) = Max(below)
      BY <1>3, <2>4 DEF FdMaxWithout
    <3>3. below \subseteq set
      OBVIOUS
    <3> HIDE DEF below
    <3> QED BY <1>1, <2>1, <2>2, <3>1, <3>2, <3>3
  <2> QED BY <2>3, <2>4
<1> QED BY <1>2, <1>3

\* notify_yield under the lock: the Handle goes from the thread to the watched
\* set, unless finalize has closed it.
LEMMA NotifyYieldReader ==
  ASSUME RInv, NEW t \in Thread, NotifyYield(t)
  PROVE  RInv'
<1>0. PICK h \in Handle, u \in User, f \in Fd :
        /\ h = th[t].h /\ u = th[t].u /\ f = th[t].f
        /\ hd[h].st = "alive" /\ user[u].h = h
  BY InCall DEF RInv, NotifyYield, Calling
<1>1. /\ th[t].pc = "yield" /\ SInv'
      /\ IF hd[h].rd /\ hd[h].wr THEN set' = set /\ fdmax' = fdmax
         ELSE set' = set \cup {f} /\ fdmax' = FdMaxWith(f)
      /\ th' = [th EXCEPT ![t] = IF th[t].k = "drop" THEN Call("dec", u, h) ELSE Idle]
      /\ UNCHANGED <<sock, connections, lsn, peer, tmpset, listen_sck, nlisten, io,
                     backlog, handleReady, groupsReady, end, inbox, hd, user>>
  BY <1>0, NotifyYieldSafe DEF RInv, NotifyYield, netVars, osVars, mgrVars
<1>2. /\ io.h # h
      /\ \A s \in Thread : s # t => /\ th[s].u # u
                                    /\ th[s].h = h => th[s].pc = "drain"
  BY <1>0, <1>1, IoNotHeld, Alone DEF RInv, Busy, Calling
<1>3. Yielding(h) = {t}
  BY <1>0, <1>1, <1>2 DEF Yielding
<1>4. Watched(h) = {} /\ Queued(h) = {} /\ Readers(h) = {}
  BY <1>3 DEF RInv, ReaderInv, ReaderOk, PlaceOk
<1>5. /\ \A s \in Thread : s # t => th'[s] = th[s]
      /\ th'[t].pc \in {"dec", "idle"} /\ th'[t].h \in {h, NoHandle}
      /\ th'[t].pc = "dec" => th'[t].u = u
  <2>1. th \in [Thread -> ThRec]
    BY Types DEF RInv, SInv
  <2> QED BY <1>1, <2>1 DEF Call, Idle
<1>6. TransitOk(t)'
  BY <1>0, <1>1, <1>5 DEF RInv, TransitInv, TransitOk, Closing
<1>7. NoListen /\ NoListen'
  BY <1>0, <1>5, Connected, ListenKept
<1>8. /\ Yielding(h)' = {} /\ Queued(h)' = {} /\ Readers(h)' = {}
  <2>1. Yielding(h)' = {}
    BY <1>3, <1>5 DEF Yielding
  <2> QED BY <1>1, <1>4, <2>1 DEF Queued, Readers
<1>9. FreshOk(h)'
  BY <1>0, <1>1, <1>2, NotFreshNext
<1>10. CASE hd[h].rd /\ hd[h].wr
  <2>1. set' = set /\ fdmax' = fdmax
    BY <1>1, <1>10
  <2>2. ReaderOk(h)'
    <3>1. Watched(h)' = {}
      BY <1>1, <1>4, <2>1 DEF Watched
    <3>2. ~(Owed(h)')
      BY <1>1, <1>10 DEF Owed
    <3> QED BY <1>8, <1>9, <3>1, <3>2 DEF ReaderOk, PlaceOk, LiveOk
  <2>3. /\ \A s \in Thread : s # t => /\ th'[s] = th[s]
                                      /\ th[s].pc \in Closing \cup {"yield"} => th[s].h # h
                                      /\ th[s].u \in User => user'[th[s].u] = user[th[s].u]
        /\ \A g \in Handle : g # h => hd'[g] = hd[g] /\ inbox'[g] = inbox[g] /\ peer'[g] = peer[g]
        /\ \A g \in Handle, d \in Fd : g # h => (connections'[d] = g <=> connections[d] = g)
        /\ \A g \in Handle, v \in User :
             g # h => ((user'[v].h = g /\ user'[v].readable) <=> (user[v].h = g /\ user[v].readable))
        /\ (peer'[h] = "none" => peer[h] = "none") /\ inbox'[h] = inbox[h]
        /\ \A d \in set : /\ sock'[d] = sock[d] /\ connections'[d] = connections[d]
                          /\ d \in lsn => d \in lsn'
        /\ lsn' \subseteq lsn /\ th[t].h \in {h, NoHandle}
    BY <1>0, <1>1, <1>2, <1>5 DEF Closing
  <2> QED BY <1>1, <1>4, <1>5, <1>6, <1>7, <2>1, <2>2, <2>3, CallReader
<1>11. CASE ~(hd[h].rd /\ hd[h].wr)
  <2>1. /\ set' = set \cup {f} /\ fdmax' = FdMaxWith(f)
        /\ ~hd[h].rd /\ hd[h].fd = f
    BY <1>0, <1>1, <1>11 DEF RInv, TransitInv, TransitOk
  <2>2. sock[f] = h /\ connections[f] = h
    BY <1>0, <2>1, OwnEntry DEF RInv, SInv, HandleInv, HandleOk, FdOk
  <2>3. set \subseteq Fd /\ fdmax \in Fd \cup {-1}
    BY DEF RInv, SInv, IInv, TypeOK
  <2>4. SetOk'
    BY <1>1, <2>1, <2>2, HandleAssumption DEF RInv, SetOk
  <2>5. FdMaxOk'
    <3>1. (\A g \in set : g <= fdmax) /\ (fdmax # -1 => fdmax \in set)
      BY <1>7 DEF RInv, FdMaxOk, NoListen
    <3> QED BY <2>1, <2>3, <3>1, FdMaxWithOk DEF FdMaxOk
  <2>6. EndpointInv'
    BY <1>1, <1>7, EndpointKept
  <2>7. LoopOk'
    BY <1>1, <2>1 DEF RInv, LoopOk
  <2>8. ReaderInv'
    <3>1. ASSUME NEW g \in Handle, g # h
          PROVE  ReaderOk(g)'
      <4>1. ReaderOk(g)
        BY DEF RInv, ReaderInv
      <4>2. Watched(g)' = Watched(g)
        BY <1>1, <2>1, <2>2, <3>1 DEF Watched
      <4>3. Yielding(g)' = Yielding(g)
        BY <1>0, <1>5, <3>1, HandleAssumption DEF Yielding
      <4>4. Queued(g)' = Queued(g) /\ Readers(g)' = Readers(g)
        BY <1>1 DEF Queued, Readers
      <4>5. FreshOk(g)' /\ (Owed(g)' => Owed(g))
        BY <1>1, <4>1 DEF ReaderOk, FreshOk, Fresh, Owed
      <4> QED BY <1>1, <4>1, <4>2, <4>3, <4>4, <4>5, PlacesKept DEF ReaderOk, SamePlaces
    <3>2. ReaderOk(h)'
      <4>1. f \in Watched(h)'
        BY <1>1, <2>1, <2>2 DEF Watched
      <4> QED BY <1>1, <1>2, <1>8, <1>9, <4>1 DEF ReaderOk, PlaceOk, LiveOk
    <3> QED BY <3>1, <3>2 DEF ReaderInv
  <2>9. TransitInv'
    <3>1. ASSUME NEW s \in Thread, s # t
          PROVE  TransitOk(s)'
      BY <1>1, <1>5, <3>1 DEF RInv, TransitInv, TransitOk
    <3> QED BY <1>6, <3>1 DEF TransitInv
  <2>10. ReadyHasData'
    BY <1>1 DEF RInv, ReadyHasData
  <2> QED BY <1>1, <2>4, <2>5, <2>6, <2>7, <2>8, <2>9, <2>10 DEF RInv
<1> QED BY <1>10, <1>11

-----------------------------------------------------------------------------
(* The I/O thread *)

\* A step of the I/O thread around select: only its locals and tmpset change.
LEMMA IoMoveReader ==
  ASSUME RInv, SInv', io.h = NoHandle, io'.h = NoHandle,
         NoListen \/ io'.pc \in {"top", "select"},
         io'.pc \in InLoop => \E h \in Handle : peer[h] # "none",
         LoopOk',
         UNCHANGED <<th, user, hd, sock, connections, lsn, peer, set, fdmax, listen_sck, nlisten,
                     backlog, handleReady, groupsReady, end, inbox>>
  PROVE  RInv'
<1>1. /\ th' = th /\ user' = user /\ hd' = hd /\ sock' = sock /\ connections' = connections
      /\ lsn' = lsn /\ peer' = peer /\ set' = set /\ fdmax' = fdmax /\ listen_sck' = listen_sck
      /\ nlisten' = nlisten /\ backlog' = backlog /\ handleReady' = handleReady
      /\ groupsReady' = groupsReady /\ end' = end /\ inbox' = inbox
  OBVIOUS
<1>2. SetOk' /\ FdMaxOk' /\ ReadyHasData'
  BY <1>1 DEF RInv, SetOk, FdMaxOk, Listening, ReadyHasData
<1>3. TransitInv'
  BY <1>1 DEF RInv, TransitInv, TransitOk
<1>4. EndpointInv'
  <2>1. \A t \in Thread : ListenOk(t)'
    BY <1>1 DEF RInv, EndpointInv, ListenOk, Listening, NoListen
  <2> QED BY <1>1, <2>1 DEF RInv, EndpointInv
<1>5. ReaderInv'
  <2>1. ASSUME NEW g \in Handle
        PROVE  ReaderOk(g)'
    <3>1. ReaderOk(g)
      BY DEF RInv, ReaderInv
    <3>2. SamePlaces(g)
      BY <1>1 DEF SamePlaces, Watched, Yielding, Queued, Readers
    <3>3. FreshOk(g)' /\ (Owed(g)' => Owed(g))
      BY <1>1, <3>1, HandleAssumption DEF ReaderOk, FreshOk, Fresh, Owed
    <3> QED BY <3>1, <3>2, <3>3, PlacesKept, HandleAssumption DEF ReaderOk
  <2> QED BY <2>1 DEF ReaderInv
<1> QED BY <1>2, <1>3, <1>4, <1>5 DEF RInv

\* Inside the loop of update nobody listens.
LEMMA LoopConnected ==
  ASSUME RInv, io.pc \in InLoop
  PROVE  NoListen
  BY DEF RInv, EndpointInv, ListenOk, NoListen, InLoop

\* Nothing is reported by select before the first connection.
LEMMA ReadableConnected ==
  ASSUME RInv, NEW f \in set, Readable(f)
  PROVE  \E h \in Handle : peer[h] # "none"
<1>1. set \subseteq Fd /\ backlog \in [Fd -> SUBSET Handle]
  BY DEF RInv, SInv, IInv, TypeOK
<1>2. CASE backlog[f] # {}
  <2>1. PICK h \in Handle : h \in backlog[f]
    BY <1>1, <1>2
  <2> QED BY <1>1, <2>1 DEF RInv, SInv, HandleInv, HandleOk, BirthOk
<1>3. CASE sock[f] # NoHandle
  <2>1. PICK h \in Handle : h = sock[f] /\ f \in Watched(h)
    BY <1>3, WatchedAt
  <2>2. hd[h].st = "alive"
    BY <2>1, WatchedAlive
  <2> QED BY <2>2 DEF RInv, SInv, HandleInv, HandleOk, BirthOk
<1> QED BY <1>2, <1>3 DEF Readable

\* getReadyBackend: the test of end and the copy of the watched set,
LEMMA IoTopReader ==
  ASSUME RInv, IoTop
  PROVE  RInv'
<1>1. /\ SInv' /\ io.h = NoHandle
      /\ UNCHANGED <<th, user, hd, sock, connections, lsn, peer, set, fdmax, listen_sck, nlisten,
                     backlog, handleReady, groupsReady, end, inbox>>
  BY IoLoopSafe DEF RInv, SInv, IoOk, IoTop, netVars, osVars, selVars, mgrVars
<1>2. \/ end /\ io'.pc = "exit"
      \/ io'.pc = "select" /\ tmpset' = set
  BY DEF IoTop, IoAt
<1>3. io'.h = NoHandle
  BY DEF IoTop, IoAt
<1>4. NoListen \/ io'.pc \in {"top", "select"}
  BY <1>2 DEF NoListen, RInv, EndpointInv, ListenOk
<1>5. LoopOk' /\ io'.pc \notin InLoop
  BY <1>1, <1>2 DEF LoopOk, InLoop
<1> QED BY <1>1, <1>3, <1>4, <1>5, IoMoveReader

\* select,
LEMMA IoSelectReader ==
  ASSUME RInv, IoSelect
  PROVE  RInv'
<1>1. /\ SInv' /\ io.h = NoHandle
      /\ UNCHANGED <<th, user, hd, sock, connections, lsn, peer, set, fdmax, listen_sck, nlisten,
                     backlog, handleReady, groupsReady, end, inbox>>
  BY IoLoopSafe DEF RInv, SInv, IoOk, IoSelect, netVars, osVars, selVars, mgrVars
<1> DEFINE ready == {f \in {g \in tmpset : g <= fdmax} : Readable(f)}
<1>2. \/ IoReturn
      \/ /\ fdmax # -1 /\ ready # {}
         /\ tmpset' = ready
         /\ io' = [IoAt("loop") EXCEPT !.n = Cardinality(ready)]
  BY DEF IoSelect
<1>3. io'.h = NoHandle
  BY <1>2 DEF IoReturn, IoAt
<1>4. CASE IoReturn
  <2>1. io'.pc = "top"
    BY <1>4 DEF IoReturn, IoAt
  <2>2. LoopOk' /\ io'.pc \notin InLoop
    BY <2>1 DEF LoopOk, InLoop
  <2> QED BY <1>1, <1>3, <2>1, <2>2, IoMoveReader
<1>5. CASE /\ fdmax # -1 /\ ready # {}
           /\ tmpset' = ready
           /\ io' = [IoAt("loop") EXCEPT !.n = Cardinality(ready)]
  <2>1. io'.pc = "loop" /\ ready \subseteq set
    BY <1>5 DEF IoAt, RInv, LoopOk, IoSelect
  <2>2. ASSUME NEW f \in ready, sock[f] # NoHandle
        PROVE  inbox[sock[f]] # <<>>
    <3>1. f \in Fd
      BY <2>1 DEF RInv, SInv, IInv, TypeOK
    <3>2. f \notin lsn
      BY <2>2, <3>1 DEF RInv, SInv, SockInv
    <3> QED BY <3>2 DEF Readable
  <2>3. PICK f \in ready : TRUE
    BY <1>5
  <2>4. \E h \in Handle : peer[h] # "none"
    <3>1. Readable(f) /\ f \in set
      BY <2>1
    <3> QED BY <3>1, ReadableConnected
  <2>5. NoListen
    BY <1>5 DEF NoListen, RInv, EndpointInv, ListenOk
  <2>6. LoopOk'
    <3> HIDE DEF ready
    <3> QED BY <1>1, <1>5, <2>1, <2>2 DEF LoopOk
  <2> QED BY <1>1, <1>3, <2>4, <2>5, <2>6, IoMoveReader
<1> QED BY <1>2, <1>4, <1>5

\* the end of the loop,
LEMMA IoReturnReader ==
  ASSUME RInv, SInv', io.h = NoHandle, IoReturn,
         UNCHANGED <<th, user, hd, sock, connections, lsn, peer, set, fdmax, listen_sck, nlisten,
                     backlog, handleReady, groupsReady, end, inbox>>
  PROVE  RInv'
<1>1. io'.pc = "top" /\ io'.h = NoHandle
  BY DEF IoReturn, IoAt
<1>2. LoopOk' /\ io'.pc \notin InLoop
  BY <1>1 DEF LoopOk, InLoop
<1> QED BY <1>1, <1>2, IoMoveReader

LEMMA IoLoopEndReader ==
  ASSUME RInv, IoLoopEnd
  PROVE  RInv'
<1>1. /\ SInv' /\ io.h = NoHandle /\ IoReturn
      /\ UNCHANGED <<th, user, hd, sock, connections, lsn, peer, set, fdmax, listen_sck, nlisten,
                     backlog, handleReady, groupsReady, end, inbox>>
  BY IoLoopSafe DEF RInv, SInv, IoOk, IoLoopEnd, netVars, osVars, selVars, mgrVars
<1> QED BY <1>1, IoReturnReader

\* The next descriptor of the loop.
LEMMA PendingAt ==
  ASSUME RInv, Pending # {}
  PROVE  /\ Min(Pending) \in tmpset /\ Min(Pending) \in Fd /\ Min(Pending) >= io.idx
         /\ io.idx \in Int
<1>1. tmpset \subseteq Fd /\ io \in IoRec
  BY DEF RInv, SInv, IInv, TypeOK
<1>2. Min(Pending) \in Pending
  BY <1>1, FdMin DEF Pending
<1>3. Min(Pending) \in tmpset /\ io.idx <= Min(Pending)
  BY <1>2 DEF Pending
<1>4. io.idx \in Int
  <2>1. io.idx \in 0 .. MaxFd + 1
    BY <1>1 DEF IoRec
  <2> QED BY <2>1, BoundAssumption
<1>5. \A m \in Fd : m \in Int /\ (io.idx <= m => m >= io.idx)
  BY <1>4, BoundAssumption DEF Fd
<1> QED BY <1>1, <1>3, <1>4, <1>5

\* the loop at a readable connection,
LEMMA IoLoopReadyReader ==
  ASSUME RInv, IoLoopReady
  PROVE  RInv'
<1>1. /\ SInv' /\ io.h = NoHandle /\ io.pc = "loop" /\ Pending # {}
      /\ Min(Pending) # listen_sck /\ io' = [io EXCEPT !.pc = "ready", !.idx = Min(Pending)]
      /\ UNCHANGED <<th, user, hd, sock, connections, lsn, peer, set, fdmax, listen_sck, nlisten,
                     backlog, handleReady, groupsReady, end, inbox, tmpset>>
  BY IoLoopSafe DEF RInv, SInv, IoOk, IoLoopReady, netVars, osVars, selVars, mgrVars
<1>2. PICK m \in Fd : m = Min(Pending) /\ m \in tmpset /\ m >= io.idx /\ io.idx \in Int
  BY <1>1, PendingAt
<1>3. io'.pc = "ready" /\ io'.idx = m /\ io'.h = NoHandle
  <2>1. io \in IoRec
    BY DEF RInv, SInv, IInv, TypeOK
  <2> QED BY <1>1, <1>2, <2>1 DEF IoRec
<1>4. LoopOk'
  <2>1. \A f \in tmpset : f >= m => f >= io.idx
    <3>1. tmpset \subseteq Fd
      BY DEF RInv, SInv, IInv, TypeOK
    <3> QED BY <1>2, <3>1, BoundAssumption DEF Fd
  <2> QED BY <1>1, <1>2, <1>3, <2>1 DEF RInv, LoopOk, InLoop
<1>5. NoListen /\ \E h \in Handle : peer[h] # "none"
  <2>1. io.pc \in InLoop
    BY <1>1 DEF InLoop
  <2> QED BY <2>1, LoopConnected DEF RInv, EndpointInv
<1> QED BY <1>1, <1>3, <1>4, <1>5, IoMoveReader

\* A step of the loop that works on the connection h.
LEMMA IoWorkReader ==
  ASSUME RInv, SInv', NEW h \in Handle, io.pc \in InLoop,
         io.h \in {h, NoHandle}, io'.h \in {h, NoHandle},
         \A g \in Handle : hd[g].st # "none" =>
            hd'[g].rd = hd[g].rd /\ hd'[g].wr = hd[g].wr /\ hd'[g].fd = hd[g].fd,
         \A g \in Handle : g # h =>
            /\ Watched(g)' = Watched(g) /\ Queued(g)' = Queued(g) /\ inbox'[g] = inbox[g]
            /\ hd'[g] = hd[g] /\ (g \in groupsReady => g \in groupsReady')
            /\ \A f \in Fd : g \in backlog'[f] => g \in backlog[f],
         ReaderOk(h)', SetOk', FdMaxOk', LoopOk', ReadyHasData',
         UNCHANGED <<th, user, lsn, peer, listen_sck, nlisten, end>>
  PROVE  RInv'
<1>1. th' = th /\ user' = user /\ peer' = peer /\ end' = end
  OBVIOUS
<1>2. NoListen /\ NoListen'
  BY <1>1, LoopConnected DEF NoListen, Listening
<1>3. EndpointInv'
  BY <1>1, <1>2, EndpointKept
<1>4. ReaderInv'
  <2>1. ASSUME NEW g \in Handle, g # h
        PROVE  ReaderOk(g)'
    <3>1. ReaderOk(g)
      BY DEF RInv, ReaderInv
    <3>2. SamePlaces(g)
      <4>1. Yielding(g)' = Yielding(g) /\ Readers(g)' = Readers(g)
        BY <1>1 DEF Yielding, Readers
      <4> QED BY <2>1, <4>1 DEF SamePlaces
    <3>3. FreshOk(g)' /\ (Owed(g)' => Owed(g))
      BY <1>1, <2>1, <3>1, HandleAssumption DEF ReaderOk, FreshOk, Fresh, Owed
    <3>4. io'.h = g => io.h = g
      BY <2>1, HandleAssumption
    <3> QED BY <3>1, <3>2, <3>3, <3>4, PlacesKept DEF ReaderOk
  <2> QED BY <2>1 DEF ReaderInv
<1>5. TransitInv'
  <2>1. ASSUME NEW s \in Thread
        PROVE  TransitOk(s)'
    <3>1. CASE th[s].pc \in Calling
      <4>1. th[s].h \in Handle /\ hd[th[s].h].st = "alive"
        BY <3>1, InCall DEF RInv
      <4> QED BY <1>1, <4>1 DEF RInv, TransitInv, TransitOk
    <3>2. CASE th[s].pc \notin Calling
      BY <1>1, <3>2 DEF TransitOk, Calling
    <3> QED BY <3>1, <3>2
  <2> QED BY <2>1 DEF TransitInv
<1> QED BY <1>3, <1>4, <1>5 DEF RInv

\* accept: the new descriptor was not watched,
LEMMA IoAcceptReader ==
  ASSUME RInv, IoAccept
  PROVE  RInv'
<1>1. /\ SInv' /\ io.h = NoHandle /\ io.pc = "loop" /\ Pending # {}
      /\ Min(Pending) = listen_sck
      /\ UNCHANGED <<th, user, hd, connections, peer, set, fdmax, listen_sck, nlisten,
                     handleReady, groupsReady, end, inbox>>
  BY IoAcceptSafe DEF RInv, SInv, IoOk, IoAccept, selVars, mgrVars
<1>2. CASE IoReturn /\ UNCHANGED <<backlog, osVars>>
  BY <1>1, <1>2, IoReturnReader DEF osVars
<1>3. ASSUME NEW h \in backlog[listen_sck], Fd \ open # {},
             backlog' = [backlog EXCEPT ![listen_sck] = @ \ {h}],
             sock' = [sock EXCEPT ![LowestFree] = h],
             io' = [io EXCEPT !.pc = "lock", !.idx = listen_sck, !.h = h, !.f = LowestFree],
             UNCHANGED <<lsn, tmpset>>
      PROVE  RInv'
  <2>1. PICK m \in Fd : m = listen_sck /\ m \in tmpset /\ m >= io.idx /\ io.idx \in Int
    BY <1>1, PendingAt
  <2>2. /\ sock \in [Fd -> Handle \cup {NoHandle}] /\ backlog \in [Fd -> SUBSET Handle]
        /\ io \in IoRec /\ tmpset \subseteq Fd /\ set \subseteq Fd
    BY DEF RInv, SInv, IInv, TypeOK
  <2>3. h \in Handle /\ (\A g \in Handle, f \in Fd : g \in backlog'[f] => g \in backlog[f])
    BY <1>3, <2>1, <2>2
  <2>4. hd[h].st = "none" /\ peer[h] # "none" /\ Fresh(h)
    BY <2>1, <2>3 DEF RInv, SInv, HandleInv, HandleOk, BirthOk, Fresh
  <2>5. io'.pc = "lock" /\ io'.idx = m /\ io'.h = h
    BY <1>3, <2>1, <2>2 DEF IoRec
  <2>6. \A f \in set : sock'[f] = sock[f]
    <3>1. LowestFree \in Fd \ open
      BY <1>3, FreeFd DEF RInv
    <3> QED BY <1>3, <2>2, <3>1, WatchedOpen
  <2>7. Queued(h) = {} /\ Readers(h) = {} /\ Yielding(h) = {} /\ Watched(h) = {}
    BY <2>3, <2>4, UnbornAt
  <2>8. ReaderOk(h)'
    <3>1. Queued(h)' = {} /\ Readers(h)' = {} /\ Yielding(h)' = {} /\ Watched(h)' = {}
      BY <1>1, <2>7 DEF Queued, Readers, Yielding, Watched
    <3>2. PlaceOk(h)' /\ LiveOk(h)'
      BY <1>1, <2>4, <3>1 DEF PlaceOk, LiveOk, Owed
    <3>3. FreshOk(h)'
      BY <1>1, <2>3, <2>4 DEF RInv, ReaderInv, ReaderOk, FreshOk
    <3> QED BY <3>2, <3>3 DEF ReaderOk
  <2>9. SetOk'
    BY <1>1, <1>3, <2>6 DEF RInv, SetOk
  <2>10. FdMaxOk'
    BY <1>1 DEF RInv, FdMaxOk, Listening
  <2>11. LoopOk'
    <3>1. \A f \in tmpset : f >= m => f >= io.idx
      BY <2>1, <2>2, BoundAssumption DEF Fd
    <3> QED BY <1>1, <1>3, <2>5, <2>6, <3>1 DEF RInv, LoopOk, InLoop
  <2>12. ReadyHasData'
    BY <1>1 DEF RInv, ReadyHasData
  <2>13. \A g \in Handle : Watched(g)' = Watched(g) /\ Queued(g)' = Queued(g)
    BY <1>1 DEF Watched, Queued
  <2>14. io.pc \in InLoop
    BY <1>1 DEF InLoop
  <2> QED BY <1>1, <1>3, <2>3, <2>5, <2>8, <2>9, <2>10, <2>11, <2>12, <2>13, <2>14, IoWorkReader
<1>4. \/ IoReturn /\ UNCHANGED <<backlog, osVars>>
      \/ \E h \in backlog[listen_sck] :
            /\ Fd \ open # {}
            /\ backlog' = [backlog EXCEPT ![listen_sck] = @ \ {h}]
            /\ sock' = [sock EXCEPT ![LowestFree] = h]
            /\ io' = [io EXCEPT !.pc = "lock", !.idx = listen_sck, !.h = h, !.f = LowestFree]
            /\ UNCHANGED <<lsn, tmpset>>
  BY DEF IoAccept
<1> QED BY <1>2, <1>3, <1>4

\* and is not when the Handle enters the table.
LEMMA IoNewConnectionReader ==
  ASSUME RInv, IoNewConnection
  PROVE  RInv'
<1>0. PICK h \in Handle, f \in Fd : h = io.h /\ f = io.f
  BY DEF RInv, SInv, IInv, IoInv, IoNewConnection
<1>1. /\ SInv' /\ io.pc = "lock" /\ hd' = [hd EXCEPT ![h] = NewHandle(f, 0)]
      /\ connections' = [connections EXCEPT ![f] = h] /\ io' = [io EXCEPT !.pc = "handshake"]
      /\ UNCHANGED <<th, user, sock, lsn, peer, set, fdmax, listen_sck, nlisten, backlog,
                     handleReady, groupsReady, end, inbox, tmpset>>
  BY <1>0, IoNewConnectionSafe DEF RInv, IoNewConnection, netVars, osVars, mgrVars
<1>2. hd[h].st = "none" /\ sock[f] = h
  BY <1>0, <1>1 DEF RInv, SInv, IoOk
<1>3. io'.pc = "handshake" /\ io'.h = h /\ io'.idx = io.idx
  <2>1. io \in IoRec
    BY DEF RInv, SInv, IInv, TypeOK
  <2> QED BY <1>0, <1>1, <2>1 DEF IoRec
<1>4. connections \in [Fd -> Handle \cup {NoHandle}] /\ set \subseteq Fd
  BY DEF RInv, SInv, IInv, TypeOK
<1>5. /\ Queued(h) = {} /\ Readers(h) = {} /\ Yielding(h) = {} /\ Watched(h) = {}
      /\ \A g \in Fd : connections[g] # h
  BY <1>2, UnbornAt
<1>6. f \notin set
  BY <1>2, <1>5, Unwatched
<1>7. \A d \in set : connections'[d] = connections[d]
  BY <1>1, <1>4, <1>6
<1>8. \A g \in Handle : g # h => hd'[g] = hd[g]
  <2>1. hd \in [Handle -> HandleRec]
    BY Types DEF RInv, SInv
  <2> QED BY <1>1, <2>1
<1>9. \A g \in Handle : Watched(g)' = Watched(g) /\ Queued(g)' = Queued(g)
  BY <1>1, <1>7 DEF Watched, Queued
<1>10. ReaderOk(h)'
  <2>1. Queued(h)' = {} /\ Readers(h)' = {} /\ Yielding(h)' = {} /\ Watched(h)' = {}
    BY <1>1, <1>5, <1>9 DEF Readers, Yielding
  <2>2. PlaceOk(h)' /\ LiveOk(h)'
    BY <1>3, <2>1 DEF PlaceOk, LiveOk, Owed
  <2>3. FreshOk(h)'
    <3>1. FreshOk(h) /\ Fresh(h)
      BY <1>0 DEF RInv, ReaderInv, ReaderOk, Fresh
    <3> QED BY <1>1, <3>1 DEF FreshOk
  <2> QED BY <2>2, <2>3 DEF ReaderOk
<1>11. SetOk'
  <2>1. ASSUME NEW d \in set, sock[d] # NoHandle
        PROVE  hd'[sock[d]] = hd[sock[d]]
    <3>1. sock[d] \in Handle /\ connections[d] = sock[d] /\ d \in Fd
      BY <2>1, WatchedAt
    <3> QED BY <1>5, <1>8, <3>1
  <2> QED BY <1>1, <1>7, <2>1 DEF RInv, SetOk
<1>12. FdMaxOk' /\ ReadyHasData'
  BY <1>1 DEF RInv, FdMaxOk, Listening, ReadyHasData
<1>13. LoopOk'
  BY <1>1, <1>3 DEF RInv, LoopOk, InLoop
<1>14. io.pc \in InLoop /\ io.h \in {h, NoHandle} /\ io'.h \in {h, NoHandle}
  BY <1>0, <1>1, <1>3 DEF InLoop
<1>15. \A g \in Handle : hd[g].st # "none" =>
          hd'[g].rd = hd[g].rd /\ hd'[g].wr = hd[g].wr /\ hd'[g].fd = hd[g].fd
  BY <1>2, <1>8
<1> QED BY <1>1, <1>8, <1>9, <1>10, <1>11, <1>12, <1>13, <1>14, <1>15, IoWorkReader

\* A Handle that was not queued is queued once.
LEMMA PushAt ==
  ASSUME RInv, NEW h \in Handle, NEW b \in BOOLEAN, Push(h, b), Queued(h) = {},
         b \/ inbox'[h] # <<>>, end' = end, \A g \in Handle : g # h => inbox'[g] = inbox[g]
  PROVE  /\ \A g \in Handle : g # h => hd'[g] = hd[g] /\ Queued(g)' = Queued(g)
         /\ \A g \in Handle : /\ hd'[g].st = hd[g].st /\ hd'[g].rd = hd[g].rd
                              /\ hd'[g].wr = hd[g].wr /\ hd'[g].fd = hd[g].fd
         /\ Queued(h)' = {Len(handleReady) + 1} /\ ReadyHasData'
<1> DEFINE n == Len(handleReady)
<1>1. /\ n \in Nat /\ DOMAIN handleReady = 1 .. n /\ DOMAIN handleReady' = 1 .. n + 1
      /\ \A i \in 1 .. n : handleReady'[i] = handleReady[i]
      /\ handleReady'[n + 1].h = h /\ handleReady'[n + 1].new = b
  <2>1. handleReady \in Seq([h : Handle, new : BOOLEAN])
    BY Types DEF RInv, SInv
  <2> QED BY <2>1 DEF Push
<1>2. \A i \in 1 .. n : handleReady[i].h \in Handle /\ handleReady[i].h # h
  BY <1>1, QueuedCount DEF RInv, Queued
<1>3. /\ \A g \in Handle : g # h => hd'[g] = hd[g]
      /\ hd'[h].st = hd[h].st /\ hd'[h].rd = hd[h].rd
      /\ hd'[h].wr = hd[h].wr /\ hd'[h].fd = hd[h].fd
  <2>1. hd \in [Handle -> HandleRec]
    BY Types DEF RInv, SInv
  <2> QED BY <2>1 DEF Push, HandleRec
<1> HIDE DEF n
<1>4. \A g \in Handle : g # h => Queued(g)' = Queued(g)
  BY <1>1 DEF Queued
<1>5. Queued(h)' = {n + 1}
  BY <1>1, <1>2 DEF Queued
<1>6. ReadyHasData'
  <2>1. ASSUME NEW i \in 1 .. n
        PROVE  handleReady'[i].new \/ end' \/ inbox'[handleReady'[i].h] # <<>>
    BY <1>1, <1>2 DEF RInv, ReadyHasData
  <2>2. handleReady'[n + 1].new \/ end' \/ inbox'[handleReady'[n + 1].h] # <<>>
    BY <1>1
  <2>3. \A i \in 1 .. n + 1 : i \in 1 .. n \/ i = n + 1
    BY <1>1
  <2> QED BY <1>1, <2>1, <2>2, <2>3 DEF ReadyHasData
<1> QED BY <1>3, <1>4, <1>5, <1>6 DEF n

\* The step to the next descriptor.
LEMMA NextIdxReader ==
  ASSUME RInv, io' = NextIdx, io.idx \in Fd, io.pc \in InLoop, UNCHANGED <<tmpset, sock>>,
         \A f \in set : f # io.idx => f \in set' /\ (sock[f] # NoHandle => inbox'[sock[f]] = inbox[sock[f]])
  PROVE  LoopOk' /\ io'.h = NoHandle
<1>1. io'.pc = "loop" /\ io'.idx = io.idx + 1 /\ io'.h = NoHandle
  <2>1. io \in IoRec
    BY DEF RInv, SInv, IInv, TypeOK
  <2> QED BY <2>1 DEF NextIdx, IoRec
<1>2. \A f \in tmpset : f >= io.idx + 1 => f >= io.idx /\ f # io.idx
  <2>1. tmpset \subseteq Fd
    BY DEF RInv, SInv, IInv, TypeOK
  <2> QED BY <2>1, BoundAssumption DEF Fd
<1>3. ASSUME NEW f \in tmpset, f >= io.idx + 1
      PROVE  f \in set' /\ (sock'[f] # NoHandle => inbox'[sock'[f]] # <<>>)
  BY <1>2, <1>3 DEF RInv, LoopOk
<1> QED BY <1>1, <1>3 DEF LoopOk

\* addinQ: after the handshake the Handle is queued, or nobody will read it,
LEMMA IoHandshakeReader ==
  ASSUME RInv, IoHandshake
  PROVE  RInv'
<1>0. PICK h \in Handle : h = io.h /\ io.idx \in Fd
  BY DEF RInv, SInv, IInv, IoInv, IoHandshake
<1>1. /\ SInv' /\ io.pc = "handshake" /\ io' = NextIdx /\ inbox[h] # <<>>
      /\ UNCHANGED <<th, user, sock, lsn, peer, set, fdmax, connections, listen_sck, nlisten,
                     backlog, end, tmpset>>
  BY <1>0, IoHandshakeSafe DEF RInv, IoHandshake, osVars, selVars
<1>2. \/ /\ Push(h, TRUE) /\ inbox' = [inbox EXCEPT ![h] = Tail(inbox[h])]
         /\ UNCHANGED groupsReady
      \/ /\ inbox[h][1] = "coll" /\ Len(inbox[h]) > 1
         /\ inbox' = [inbox EXCEPT ![h] = IF inbox[h][2] \in Last THEN Tail(inbox[h])
                                                                   ELSE Tail(Tail(inbox[h]))]
         /\ groupsReady' = IF inbox[h][2] \in Last THEN groupsReady ELSE groupsReady \cup {h}
         /\ UNCHANGED <<handleReady, hd>>
      \/ /\ inbox[h][1] \in Last /\ UNCHANGED <<inbox, handleReady, groupsReady, hd>>
  BY <1>0 DEF IoHandshake
<1>3. hd[h].st = "alive" /\ hd[h].cnt = 0
  BY <1>0, <1>1 DEF RInv, SInv, IoOk
<1>4. Queued(h) = {} /\ Readers(h) = {} /\ Yielding(h) = {} /\ Watched(h) = {}
  BY <1>0, <1>3, Nobody DEF RInv, ReaderInv, ReaderOk, PlaceOk
<1>5. \A g \in Handle : g # h => inbox'[g] = inbox[g]
  <2>1. inbox \in [Handle -> Seq(Item)]
    BY DEF RInv, SInv, IInv, TypeOK
  <2> QED BY <1>2, <2>1
<1>6. \A f \in set : sock[f] # NoHandle => inbox'[sock[f]] = inbox[sock[f]]
  BY <1>4, <1>5, WatchedAt
<1>7. io.pc \in InLoop
  BY <1>1 DEF InLoop
<1>8. LoopOk' /\ io'.h = NoHandle
  BY <1>0, <1>1, <1>6, <1>7, NextIdxReader
<1>9. Readers(h)' = {} /\ Yielding(h)' = {} /\ \A g \in Handle : Watched(g)' = Watched(g)
  BY <1>1, <1>4 DEF Readers, Yielding, Watched
<1>10. FdMaxOk'
  BY <1>1 DEF RInv, FdMaxOk, Listening
<1>11. \A g \in Handle, f \in Fd : g \in backlog'[f] => g \in backlog[f]
  BY <1>1
<1>12. CASE Push(h, TRUE) /\ UNCHANGED groupsReady
  <2>1. /\ \A g \in Handle : g # h => hd'[g] = hd[g] /\ Queued(g)' = Queued(g)
        /\ \A g \in Handle : /\ hd'[g].st = hd[g].st /\ hd'[g].rd = hd[g].rd
                             /\ hd'[g].wr = hd[g].wr /\ hd'[g].fd = hd[g].fd
        /\ Queued(h)' = {Len(handleReady) + 1} /\ ReadyHasData'
    BY <1>1, <1>4, <1>5, <1>12, PushAt
  <2>2. ReaderOk(h)'
    <3>1. FreshOk(h)'
      BY <1>1, <1>3, <1>8, <2>1, NotFreshNext, HandleAssumption
    <3>2. PlaceOk(h)' /\ LiveOk(h)'
      BY <1>4, <1>9, <2>1 DEF PlaceOk, LiveOk
    <3> QED BY <3>1, <3>2 DEF ReaderOk
  <2>3. SetOk'
    <3>1. \A f \in set : sock[f] # NoHandle => hd'[sock[f]].rd = hd[sock[f]].rd
      BY <2>1, WatchedAt
    <3> QED BY <1>1, <3>1 DEF RInv, SetOk
  <2> QED BY <1>0, <1>1, <1>5, <1>7, <1>8, <1>9, <1>10, <1>11, <1>12, <2>1, <2>2, <2>3,
             IoWorkReader
<1>13. CASE /\ UNCHANGED <<handleReady, hd>>
            /\ groupsReady \subseteq groupsReady'
            /\ h \in groupsReady' \/ peer[h] = "dead"
  <2>1. \A g \in Handle : Queued(g)' = Queued(g) /\ hd'[g] = hd[g]
    BY <1>13 DEF Queued
  <2>2. ReaderOk(h)'
    <3>1. FreshOk(h)'
      BY <1>1, <1>3, <1>8, <2>1, NotFreshNext, HandleAssumption
    <3>2. ~(Owed(h)')
      BY <1>1, <1>13 DEF Owed
    <3>3. PlaceOk(h)' /\ LiveOk(h)'
      BY <1>4, <1>9, <2>1, <3>2 DEF PlaceOk, LiveOk
    <3> QED BY <3>1, <3>3 DEF ReaderOk
  <2>3. SetOk'
    BY <1>1, <1>13 DEF RInv, SetOk
  <2>4. ReadyHasData'
    <3>1. ASSUME NEW i \in DOMAIN handleReady
          PROVE  inbox'[handleReady[i].h] = inbox[handleReady[i].h]
      <4>1. handleReady[i].h \in Handle
        BY QueuedCount DEF RInv
      <4> QED BY <1>4, <1>5, <4>1 DEF Queued
    <3> QED BY <1>1, <1>13, <3>1 DEF RInv, ReadyHasData
  <2> QED BY <1>0, <1>1, <1>5, <1>7, <1>8, <1>9, <1>10, <1>11, <1>13, <2>1, <2>2, <2>3, <2>4,
             IoWorkReader
<1>14. \/ Push(h, TRUE) /\ UNCHANGED groupsReady
       \/ /\ UNCHANGED <<handleReady, hd>>
          /\ groupsReady \subseteq groupsReady'
          /\ h \in groupsReady' \/ peer[h] = "dead"
  <2>1. FreshOk(h) /\ Fresh(h) /\ peer[h] \in PeerState
    BY <1>0, Types DEF RInv, SInv, ReaderInv, ReaderOk, Fresh
  <2>2. \/ inbox[h][1] \in Last
        \/ inbox[h][1] = "coll" /\ Len(inbox[h]) > 1 /\ inbox[h][2] \in Last
        => peer[h] = "dead"
    BY <1>1, <2>1 DEF FreshOk, Last, PeerState
  <2> QED BY <1>2, <2>2
<1> QED BY <1>12, <1>13, <1>14

\* and a readable connection goes from the watched set to the queue.
LEMMA IoReadyReader ==
  ASSUME RInv, IoReady
  PROVE  RInv'
<1>0. PICK f \in Fd : f = io.idx
  BY DEF RInv, SInv, IInv, IoInv, IoReady
<1>1. /\ SInv' /\ io.pc = "ready" /\ io' = NextIdx /\ set' = set \ {f}
      /\ fdmax' = FdMaxWithout(f)
      /\ UNCHANGED <<th, user, sock, lsn, peer, connections, listen_sck, nlisten, inbox,
                     backlog, groupsReady, end, tmpset>>
  BY <1>0, IoReadySafe DEF RInv, IoReady, Unwatch, netVars, osVars
<1>2. f \in set /\ f # listen_sck /\ (sock[f] # NoHandle => inbox[sock[f]] # <<>>)
  <2>1. f >= io.idx
    BY <1>0, BoundAssumption DEF Fd
  <2> QED BY <1>0, <1>1, <2>1 DEF RInv, LoopOk, InLoop
<1>3. PICK h \in Handle : h = sock[f] /\ h = connections[f] /\ f \in Watched(h)
  BY <1>2, WatchedAt DEF RInv, SetOk
<1>4. hd[h].st = "alive" /\ Watched(h) = {f}
  <2>1. \A g \in Watched(h) : hd[h].fd = g /\ hd[h].st = "alive"
    BY WatchedAlive
  <2> QED BY <1>3, <2>1
<1>5. Queued(h) = {} /\ Readers(h) = {} /\ Yielding(h) = {} /\ io.h = NoHandle
  BY <1>1, <1>3 DEF RInv, ReaderInv, ReaderOk, PlaceOk, SInv, IoOk
<1>6. Push(h, FALSE)
  BY <1>0, <1>3, HandleAssumption DEF IoReady
<1>7. /\ \A g \in Handle : g # h => hd'[g] = hd[g] /\ Queued(g)' = Queued(g)
      /\ \A g \in Handle : /\ hd'[g].st = hd[g].st /\ hd'[g].rd = hd[g].rd
                           /\ hd'[g].wr = hd[g].wr /\ hd'[g].fd = hd[g].fd
      /\ Queued(h)' = {Len(handleReady) + 1} /\ ReadyHasData'
  <2>1. inbox' = inbox /\ end' = end /\ inbox'[h] # <<>>
    BY <1>1, <1>2, <1>3, HandleAssumption
  <2> QED BY <1>5, <1>6, <2>1, PushAt
<1>8. io.pc \in InLoop
  BY <1>1 DEF InLoop
<1>9. LoopOk' /\ io'.h = NoHandle
  BY <1>0, <1>1, <1>8, NextIdxReader
<1>10. Watched(h)' = {} /\ \A g \in Handle : g # h => Watched(g)' = Watched(g)
  BY <1>1, <1>3, <1>4 DEF Watched
<1>11. ReaderOk(h)'
  <2>1. FreshOk(h)'
    BY <1>1, <1>4, <1>7, <1>9, NotFreshNext, HandleAssumption
  <2>2. Readers(h)' = {} /\ Yielding(h)' = {}
    BY <1>1, <1>5 DEF Readers, Yielding
  <2>3. PlaceOk(h)' /\ LiveOk(h)'
    BY <1>7, <1>10, <2>2 DEF PlaceOk, LiveOk
  <2> QED BY <2>1, <2>3 DEF ReaderOk
<1>12. SetOk'
  <2>1. \A d \in set : sock[d] # NoHandle => hd'[sock[d]].rd = hd[sock[d]].rd
    BY <1>7, WatchedAt
  <2> QED BY <1>1, <2>1 DEF RInv, SetOk
<1>13. FdMaxOk'
  <2>1. set \subseteq Fd /\ fdmax \in Fd \cup {-1}
    BY DEF RInv, SInv, IInv, TypeOK
  <2>2. (\A g \in set : g <= fdmax) /\ (fdmax # -1 => fdmax \in set)
    BY <1>8, LoopConnected DEF RInv, FdMaxOk, NoListen
  <2> QED BY <1>1, <2>1, <2>2, FdMaxWithoutOk DEF FdMaxOk
<1>14. \A g \in Handle, d \in Fd : g \in backlog'[d] => g \in backlog[d]
  BY <1>1
<1> QED BY <1>1, <1>5, <1>7, <1>8, <1>9, <1>10, <1>11, <1>12, <1>13, <1>14, IoWorkReader

\* So every step of the I/O thread keeps a Handle in one place.
LEMMA IoNextReader ==
  ASSUME RInv, IoNext
  PROVE  RInv'
  BY IoTopReader, IoSelectReader, IoLoopEndReader, IoLoopReadyReader, IoAcceptReader,
     IoNewConnectionReader, IoHandshakeReader, IoReadyReader DEF IoNext

-----------------------------------------------------------------------------
(* ConnTcp::listen *)

\* Before the first connection there is nothing to watch, and the loop of update
\* does nothing.
LEMMA BeforeConnect ==
  ASSUME RInv, ~end, \A h \in Handle : peer[h] = "none"
  PROVE  /\ \A h \in Handle : hd[h].st = "none" /\ \A s \in Thread : th[s].h # h
         /\ set \subseteq lsn /\ io.pc \in {"top", "select"}
<1>1. \A h \in Handle : hd[h].st = "none" /\ \A s \in Thread : th[s].h # h
  BY DEF RInv, SInv, HandleInv, HandleOk, BirthOk
<1>2. ASSUME NEW f \in set
      PROVE  f \in lsn
  <2>1. sock[f] = NoHandle
    <3>1. ASSUME sock[f] # NoHandle
          PROVE  FALSE
      <4>1. PICK h \in Handle : f \in Watched(h)
        BY <3>1, WatchedAt
      <4> QED BY <1>1, <4>1, WatchedAlive
    <3> QED BY <3>1
  <2> QED BY <2>1 DEF RInv, SetOk
<1>3. io.pc \in {"top", "select"}
  <2>1. io.pc \in IoPc
    BY Types DEF RInv, SInv, IoRec
  <2>2. io.pc \notin InLoop /\ io.pc # "exit"
    BY DEF RInv, EndpointInv, SInv, EndInv
  <2> QED BY <2>1, <2>2 DEF IoPc, InLoop
<1> QED BY <1>1, <1>2, <1>3

\* The steps of listen touch the endpoint and the watched set.
LEMMA ListenFrame ==
  ASSUME RInv, SInv', NEW t \in Thread, \A s \in Thread : s # t => th'[s] = th[s],
         th[t].pc \in {"idle", "lzero", "lset", "lmax"},
         th'[t].pc \in {"idle", "lzero", "lset", "lmax"},
         \A h \in Handle : hd[h].st = "none", set' \subseteq Fd,
         SetOk', FdMaxOk', EndpointInv', LoopOk',
         UNCHANGED <<user, hd, connections, peer, io, backlog, handleReady, groupsReady, end,
                     inbox>>
  PROVE  RInv'
<1>1. /\ user' = user /\ hd' = hd /\ connections' = connections /\ peer' = peer /\ io' = io
      /\ backlog' = backlog /\ handleReady' = handleReady /\ groupsReady' = groupsReady
      /\ end' = end /\ inbox' = inbox
  OBVIOUS
<1>2. ReaderInv'
  <2>1. ASSUME NEW g \in Handle
        PROVE  ReaderOk(g)'
    <3>1. ReaderOk(g)
      BY DEF RInv, ReaderInv
    <3>2. Watched(g)' = Watched(g)
      <4>1. Watched(g) = {} /\ \A f \in Fd : connections[f] # g
        BY UnbornAt
      <4> QED BY <1>1, <4>1 DEF Watched
    <3>3. Yielding(g)' = Yielding(g)
      BY DEF Yielding
    <3>4. Queued(g)' = Queued(g) /\ Readers(g)' = Readers(g)
      BY <1>1 DEF Queued, Readers
    <3>5. FreshOk(g)' /\ (Owed(g)' => Owed(g))
      BY <1>1, <3>1 DEF ReaderOk, FreshOk, Fresh, Owed
    <3> QED BY <1>1, <3>1, <3>2, <3>3, <3>4, <3>5, PlacesKept DEF ReaderOk, SamePlaces
  <2> QED BY <2>1 DEF ReaderInv
<1>3. TransitInv'
  <2>1. ASSUME NEW s \in Thread
        PROVE  TransitOk(s)'
    <3>1. CASE s = t
      BY <3>1 DEF TransitOk, Closing
    <3>2. CASE s # t
      BY <1>1, <3>2 DEF RInv, TransitInv, TransitOk
    <3> QED BY <3>1, <3>2
  <2> QED BY <2>1 DEF TransitInv
<1>4. ReadyHasData'
  BY <1>1 DEF RInv, ReadyHasData
<1> QED BY <1>2, <1>3, <1>4 DEF RInv

\* The socket
LEMMA ListenReader ==
  ASSUME RInv, NEW t \in Thread, Listen(t)
  PROVE  RInv'
<1>1. /\ SInv' /\ th[t].pc = "idle" /\ ~end /\ nlisten < MaxListen /\ Fd \ open # {}
      /\ \A h \in Handle : peer[h] = "none"
      /\ nlisten' = nlisten + 1 /\ listen_sck' = LowestFree
      /\ \/ lsn' = lsn /\ th' = th
         \/ lsn' = lsn \cup {LowestFree} /\ th' = [th EXCEPT ![t].pc = "lzero"]
      /\ UNCHANGED <<user, hd, sock, connections, peer, set, fdmax, io, tmpset, backlog,
                     handleReady, groupsReady, end, inbox>>
  BY ListeningSafe DEF RInv, Listen, netVars, selVars, mgrVars
<1>2. nlisten = 0 /\ nlisten' = 1
  <2>1. nlisten \in Nat /\ MaxListen \in Nat /\ MaxListen <= 1
    BY BoundAssumption DEF RInv, SInv, IInv, TypeOK
  <2> QED BY <1>1, <2>1
<1>3. /\ \A h \in Handle : hd[h].st = "none" /\ \A s \in Thread : th[s].h # h
      /\ set = {} /\ lsn = {} /\ io.pc \in {"top", "select"}
  BY <1>1, <1>2, BeforeConnect DEF RInv, EndpointInv
<1>4. NoListen
  BY <1>2 DEF NoListen, RInv, EndpointInv, ListenOk
<1>5. fdmax = -1
  BY <1>3, <1>4 DEF NoListen, RInv, FdMaxOk
<1>6. /\ \A s \in Thread : s # t => th'[s] = th[s]
      /\ th'[t].h = th[t].h
      /\ \/ lsn' = {} /\ th'[t].pc = "idle"
         \/ lsn' = {listen_sck'} /\ th'[t].pc = "lzero"
  <2>1. th \in [Thread -> ThRec]
    BY Types DEF RInv, SInv
  <2> QED BY <1>1, <1>3, <2>1 DEF ThRec
<1>7. SetOk' /\ FdMaxOk'
  BY <1>1, <1>3, <1>5 DEF SetOk, FdMaxOk
<1>8. LoopOk'
  BY <1>1, <1>3 DEF RInv, LoopOk, InLoop
<1>9. EndpointInv'
  <2>1. ASSUME NEW s \in Thread, Listening(s)'
        PROVE  s = t /\ th'[t].pc = "lzero" /\ lsn' = {listen_sck'}
    BY <1>4, <1>6, <2>1 DEF NoListen, Listening
  <2>2. \A s \in Thread : ListenOk(s)'
    BY <1>1, <1>2, <1>3, <1>5, <1>6, <2>1 DEF ListenOk
  <2>3. io'.pc \notin InLoop /\ nlisten' # 0 /\ \A f \in lsn' : f = listen_sck'
    BY <1>1, <1>2, <1>3, <1>6 DEF InLoop
  <2> QED BY <2>2, <2>3 DEF EndpointInv
<1>10. set' \subseteq Fd
  BY <1>1, <1>3
<1> QED BY <1>1, <1>3, <1>6, <1>7, <1>8, <1>9, <1>10, ListenFrame

\* FD_ZERO, FD_SET, and fdmax: until the last of them fdmax is -1, and select is
\* given nothing.
LEMMA ListenStepReader ==
  ASSUME RInv, NEW t \in Thread, ListenZero(t) \/ ListenSet(t) \/ ListenMax(t)
  PROVE  RInv'
<1>1. /\ SInv' /\ Listening(t)
      /\ UNCHANGED <<user, hd, sock, connections, peer, io, backlog, lsn, listen_sck, nlisten,
                     handleReady, groupsReady, end, inbox>>
  BY ListeningSafe DEF RInv, ListenZero, ListenSet, ListenMax, Listening, netVars, osVars, mgrVars
<1>2. /\ nlisten = 1 /\ listen_sck \in lsn /\ ~end /\ fdmax = -1
      /\ set = IF th[t].pc = "lmax" THEN {listen_sck} ELSE {}
      /\ io.pc \in {"top", "select"}
      /\ \A h \in Handle : hd[h].st = "none" /\ \A s \in Thread : th[s].h # h
      /\ \A s \in Thread : Listening(s) => s = t
      /\ \A f \in lsn : f = listen_sck
  BY <1>1 DEF RInv, EndpointInv, ListenOk
<1>3. th \in [Thread -> ThRec] /\ lsn \subseteq Fd /\ listen_sck \in Fd
  BY <1>2, Types DEF RInv, SInv
<1>4. /\ \A s \in Thread : s # t => th'[s] = th[s]
      /\ th'[t].h \in {th[t].h, NoHandle}
      /\ \/ /\ th[t].pc = "lzero" /\ th'[t].pc = "lset" /\ set' = {} /\ tmpset' = {}
            /\ fdmax' = -1
         \/ /\ th[t].pc = "lset" /\ th'[t].pc = "lmax" /\ set' = {listen_sck}
            /\ tmpset' = tmpset /\ fdmax' = -1
         \/ /\ th[t].pc = "lmax" /\ th'[t].pc = "idle" /\ set' = {listen_sck}
            /\ tmpset' = tmpset /\ fdmax' = listen_sck
  <2>1. CASE ListenZero(t)
    BY <1>2, <1>3, <2>1 DEF ListenZero, ThRec
  <2>2. CASE ListenSet(t)
    BY <1>2, <1>3, <2>2 DEF ListenSet, ThRec
  <2>3. CASE ListenMax(t)
    BY <1>2, <1>3, <2>3 DEF ListenMax, ThRec, Idle
  <2> QED BY <2>1, <2>2, <2>3
<1>5. SetOk'
  BY <1>1, <1>2, <1>4 DEF SetOk
<1>6. FdMaxOk'
  <2>1. CASE th'[t].pc = "idle"
    BY <1>3, <1>4, <2>1, BoundAssumption DEF FdMaxOk, Fd
  <2>2. CASE th'[t].pc # "idle"
    <3>1. Listening(t)'
      BY <1>4, <2>2 DEF Listening
    <3> QED BY <3>1 DEF FdMaxOk
  <2> QED BY <2>1, <2>2
<1>7. LoopOk'
  <2>1. io.pc = "select" => tmpset \subseteq set
    BY DEF RInv, LoopOk
  <2> QED BY <1>1, <1>2, <1>4, <2>1 DEF LoopOk, InLoop
<1>8. EndpointInv'
  <2>1. ASSUME NEW s \in Thread, Listening(s)'
        PROVE  s = t /\ th'[t].pc \in {"lset", "lmax"}
    BY <1>2, <1>4, <2>1 DEF Listening
  <2>2. \A h \in Handle : hd'[h].st = "none" /\ \A s \in Thread : th'[s].h # h
    BY <1>1, <1>2, <1>4, HandleAssumption
  <2>3. \A s \in Thread : ListenOk(s)'
    BY <1>1, <1>2, <1>4, <2>1, <2>2 DEF ListenOk
  <2>4. io'.pc \notin InLoop /\ nlisten' # 0 /\ \A f \in lsn' : f = listen_sck'
    BY <1>1, <1>2 DEF InLoop
  <2> QED BY <2>3, <2>4 DEF EndpointInv
<1>9. /\ set' \subseteq Fd /\ th[t].pc \in {"idle", "lzero", "lset", "lmax"}
      /\ th'[t].pc \in {"idle", "lzero", "lset", "lmax"}
  BY <1>3, <1>4
<1> QED BY <1>1, <1>2, <1>4, <1>5, <1>6, <1>7, <1>8, <1>9, ListenFrame

-----------------------------------------------------------------------------
(* Manager::getNext *)

\* The queue without its head.
LEMMA TailAt ==
  ASSUME RInv, handleReady # <<>>, handleReady' = Tail(handleReady)
  PROVE  /\ 1 \in DOMAIN handleReady /\ Head(handleReady) = handleReady[1]
         /\ DOMAIN handleReady \subseteq Nat
         /\ \A i \in DOMAIN handleReady' : i + 1 \in DOMAIN handleReady /\ i + 1 # 1
                                           /\ handleReady'[i] = handleReady[i + 1]
         /\ \A i \in DOMAIN handleReady : i # 1 => i - 1 \in DOMAIN handleReady'
                                                   /\ handleReady'[i - 1] = handleReady[i]
         /\ \A i, j \in DOMAIN handleReady' : i + 1 = j + 1 => i = j
<1>1. handleReady \in Seq([h : Handle, new : BOOLEAN]) /\ handleReady # <<>>
  BY Types DEF RInv, SInv
<1> DEFINE n == Len(handleReady)
<1>2. /\ n \in Nat /\ n # 0 /\ DOMAIN handleReady = 1 .. n
      /\ Head(handleReady) = handleReady[1] /\ DOMAIN handleReady' = 1 .. n - 1
      /\ \A i \in 1 .. n - 1 : handleReady'[i] = handleReady[i + 1]
  BY <1>1
<1> HIDE DEF n
<1> QED BY <1>2

\* getNext moves a Handle from the queue to a HandleUser.
LEMMA GetNextReader ==
  ASSUME RInv, NEW t \in Thread, NEW u \in User, GetNext(t, u)
  PROVE  RInv'
<1>1. /\ SInv' /\ user[u].h = NoHandle /\ (\A s \in Thread : th[s].u # u)
      /\ handleReady # <<>> /\ handleReady' = Tail(handleReady)
      /\ user' = [user EXCEPT ![u] = [h |-> Head(handleReady).h, readable |-> TRUE]]
      /\ UNCHANGED <<th, hd, sock, connections, lsn, peer, set, fdmax, tmpset, listen_sck, nlisten,
                     io, backlog, groupsReady, end, inbox>>
  BY GetNextSafe DEF RInv, GetNext, CanStore, netVars, osVars, selVars
<1>2. /\ 1 \in DOMAIN handleReady /\ Head(handleReady) = handleReady[1]
      /\ DOMAIN handleReady \subseteq Nat
      /\ \A i \in DOMAIN handleReady' : i + 1 \in DOMAIN handleReady /\ i + 1 # 1
                                        /\ handleReady'[i] = handleReady[i + 1]
      /\ \A i \in DOMAIN handleReady : i # 1 => i - 1 \in DOMAIN handleReady'
                                                /\ handleReady'[i - 1] = handleReady[i]
      /\ \A i, j \in DOMAIN handleReady' : i + 1 = j + 1 => i = j
  BY <1>1, TailAt
<1>3. PICK h \in Handle : h = handleReady[1].h /\ hd[h].cnt > 0
  BY <1>2, QueuedCount DEF RInv
<1>4. hd[h].st # "none" /\ io.h # h
  <2>1. hd[h].st # "none"
    BY <1>3 DEF RInv, SInv, HandleInv, HandleOk, BirthOk, Unborn
  <2> QED BY <1>3, <2>1, HandleAssumption DEF RInv, SInv, IoOk
<1>5. 1 \in Queued(h)
  BY <1>2, <1>3 DEF Queued
<1>6. /\ \A i \in Queued(h) : i = 1
      /\ Watched(h) = {} /\ Yielding(h) = {} /\ Readers(h) = {}
  BY <1>5 DEF RInv, ReaderInv, ReaderOk, PlaceOk
<1>7. /\ \A v \in User : v # u => user'[v] = user[v]
      /\ user'[u].h = h /\ user'[u].readable
  <2>1. user \in [User -> UserRec]
    BY Types DEF RInv, SInv
  <2> QED BY <1>1, <1>2, <1>3, <2>1
<1>8. NoListen /\ NoListen'
  BY <1>1, <1>4, Connected DEF NoListen, Listening
<1>9. /\ th' = th /\ hd' = hd /\ sock' = sock /\ connections' = connections /\ lsn' = lsn
      /\ peer' = peer /\ set' = set /\ fdmax' = fdmax /\ tmpset' = tmpset
      /\ listen_sck' = listen_sck /\ nlisten' = nlisten /\ io' = io /\ backlog' = backlog
      /\ groupsReady' = groupsReady /\ end' = end /\ inbox' = inbox
  BY <1>1
<1>10. SetOk' /\ FdMaxOk' /\ LoopOk'
  BY <1>9 DEF RInv, SetOk, FdMaxOk, LoopOk, Listening
<1>11. EndpointInv'
  BY <1>8, <1>9, EndpointKept
<1>12. ReaderInv'
  <2>1. ASSUME NEW g \in Handle
        PROVE  Watched(g)' = Watched(g) /\ Yielding(g)' = Yielding(g) /\ FreshOk(g)'
    BY <1>9 DEF RInv, ReaderInv, ReaderOk, FreshOk, Fresh, Watched, Yielding
  <2>2. ReaderOk(h)'
    <3>1. Queued(h)' = {}
      BY <1>2, <1>6 DEF Queued
    <3>2. Readers(h)' = {u}
      BY <1>6, <1>7 DEF Readers
    <3> QED BY <1>6, <1>9, <2>1, <3>1, <3>2 DEF ReaderOk, PlaceOk, LiveOk
  <2>3. ASSUME NEW g \in Handle, g # h
        PROVE  ReaderOk(g)'
    <3>1. ReaderOk(g)
      BY DEF RInv, ReaderInv
    <3>2. Readers(g)' = Readers(g)
      BY <1>1, <1>7, <2>3, HandleAssumption DEF Readers
    <3>3. \A i \in Queued(g)' : i + 1 \in Queued(g)
      BY <1>2 DEF Queued
    <3>4. \A i, j \in Queued(g)' : i = j
      <4>1. \A i, j \in Queued(g)' : i + 1 = j + 1 => i = j
        BY <1>2 DEF Queued
      <4> QED BY <3>1, <3>3, <4>1 DEF ReaderOk, PlaceOk
    <3>5. Queued(g) # {} => Queued(g)' # {}
      <4>1. ASSUME NEW i \in Queued(g)
            PROVE  i - 1 \in Queued(g)'
        BY <1>2, <1>3, <2>3 DEF Queued
      <4> QED BY <4>1
    <3>6. Queued(g)' # {} => Queued(g) # {}
      BY <3>3
    <3>7. Owed(g)' => Owed(g)
      BY <1>9 DEF Owed
    <3> QED BY <1>9, <2>1, <3>1, <3>2, <3>4, <3>5, <3>6, <3>7 DEF ReaderOk, PlaceOk, LiveOk
  <2> QED BY <2>2, <2>3 DEF ReaderInv
<1>13. TransitInv'
  BY <1>1, <1>7, <1>9, InCall DEF RInv, TransitInv, TransitOk, Calling
<1>14. ReadyHasData'
  BY <1>2, <1>9 DEF RInv, ReadyHasData
<1> QED BY <1>1, <1>10, <1>11, <1>12, <1>13, <1>14 DEF RInv

-----------------------------------------------------------------------------
(* Manager::finalize and ConnTcp::end *)

\* A step of the thread that finalizes, and leaves the sockets and the watched
\* set alone: after end nobody is owed anything.
LEMMA EndReader ==
  ASSUME RInv, SInv', NEW t \in Thread, NoListen, \A s \in Thread : s # t => th'[s] = th[s],
         th[t].pc \in Ending \cup {"idle"}, th'[t].pc \in Ending \cup {"idle"}, end',
         \A g \in Handle : /\ hd'[g].rd = hd[g].rd /\ (hd[g].wr => hd'[g].wr)
                           /\ hd'[g].fd = hd[g].fd
                           /\ inbox'[g] = inbox[g] \/ (hd'[g].st # "none" /\ io'.h # g),
         LoopOk',
         UNCHANGED <<user, sock, connections, lsn, peer, set, fdmax, listen_sck, nlisten, io,
                     backlog, handleReady>>
  PROVE  RInv'
<1>1. /\ user' = user /\ sock' = sock /\ connections' = connections /\ lsn' = lsn /\ peer' = peer
      /\ set' = set /\ fdmax' = fdmax /\ listen_sck' = listen_sck /\ nlisten' = nlisten
      /\ io' = io /\ backlog' = backlog /\ handleReady' = handleReady
  OBVIOUS
<1>2. NoListen'
  BY ListenKept DEF Ending
<1>3. EndpointInv'
  BY <1>1, <1>2, EndpointKept
<1>4. SetOk'
  BY <1>1, WatchedAt DEF RInv, SetOk
<1>5. FdMaxOk'
  BY <1>1 DEF RInv, FdMaxOk, NoListen
<1>6. ReaderInv'
  <2>1. ASSUME NEW g \in Handle
        PROVE  ReaderOk(g)'
    <3>1. ReaderOk(g)
      BY DEF RInv, ReaderInv
    <3>2. Watched(g)' = Watched(g) /\ Queued(g)' = Queued(g) /\ Readers(g)' = Readers(g)
      BY <1>1 DEF Watched, Queued, Readers
    <3>3. Yielding(g)' = Yielding(g)
      BY DEF Yielding, Ending
    <3>4. ~(Owed(g)')
      BY DEF Owed
    <3>5. FreshOk(g)'
      <4>1. CASE inbox'[g] = inbox[g]
        BY <1>1, <3>1, <4>1 DEF ReaderOk, FreshOk, Fresh
      <4>2. CASE hd'[g].st # "none" /\ io'.h # g
        BY <4>2, NotFreshNext
      <4> QED BY <4>1, <4>2
    <3> QED BY <1>1, <3>1, <3>2, <3>3, <3>4, <3>5, PlacesKept DEF ReaderOk, SamePlaces
  <2> QED BY <2>1 DEF ReaderInv
<1>7. TransitInv'
  <2>1. ASSUME NEW s \in Thread
        PROVE  TransitOk(s)'
    <3>1. CASE s = t \/ th[s].pc \notin Calling
      BY <3>1 DEF TransitOk, Calling, Closing, Ending
    <3>2. CASE s # t /\ th[s].pc \in Calling
      <4>1. th[s].h \in Handle
        BY <3>2, InCall DEF RInv
      <4> QED BY <1>1, <3>2, <4>1 DEF RInv, TransitInv, TransitOk
    <3> QED BY <3>1, <3>2
  <2> QED BY <2>1 DEF TransitInv
<1>8. ReadyHasData'
  BY DEF ReadyHasData
<1> QED BY <1>3, <1>4, <1>5, <1>6, <1>7, <1>8 DEF RInv

\* finalize is called when nobody else is in a call,
LEMMA FinalizeReader ==
  ASSUME RInv, NEW t \in Thread, NEW b \in BlockFlags, Finalize(t, b)
  PROVE  RInv'
<1>1. /\ SInv' /\ end' /\ \A s \in Thread : th[s].pc = "idle"
      /\ UNCHANGED <<user, sock, connections, lsn, peer, set, fdmax, listen_sck, nlisten, io,
                     backlog, handleReady, hd, inbox, tmpset>>
  BY FinalizeSafe DEF RInv, Finalize, netVars, osVars, selVars
<1>2. (\A s \in Thread : s # t => th'[s] = th[s]) /\ th'[t].pc = "join"
  <2>1. /\ th \in [Thread -> ThRec]
        /\ th' = [th EXCEPT ![t].pc = "join", ![t].k = IF b THEN "block" ELSE "noblock"]
    BY Types DEF RInv, SInv, Finalize
  <2> QED BY <2>1 DEF ThRec
<1>3. NoListen
  BY <1>1 DEF NoListen, Listening
<1>4. LoopOk'
  BY <1>1 DEF RInv, LoopOk
<1>5. /\ \A g \in Handle : hd'[g] = hd[g] /\ inbox'[g] = inbox[g]
      /\ th[t].pc \in Ending \cup {"idle"} /\ th'[t].pc \in Ending \cup {"idle"}
  BY <1>1, <1>2 DEF Ending
<1> QED BY <1>1, <1>2, <1>3, <1>4, <1>5, EndReader

\* After end nobody listens.
LEMMA EndNoListen ==
  ASSUME RInv, end
  PROVE  NoListen
  BY DEF RInv, EndpointInv, ListenOk, NoListen

\* joins the I/O thread,
LEMMA FinalizeJoinReader ==
  ASSUME RInv, NEW t \in Thread, FinalizeJoin(t)
  PROVE  RInv'
<1>1. /\ SInv' /\ th[t].pc = "join"
      /\ UNCHANGED <<user, sock, connections, lsn, peer, set, fdmax, listen_sck, nlisten, io,
                     backlog, handleReady, hd, inbox, tmpset, end>>
  BY FinalizeJoinSafe DEF RInv, FinalizeJoin, netVars, osVars, selVars, mgrVars
<1>2. (\A s \in Thread : s # t => th'[s] = th[s]) /\ th'[t].pc = "end"
  <2>1. th \in [Thread -> ThRec] /\ th' = [th EXCEPT ![t].pc = "end"]
    BY Types DEF RInv, SInv, FinalizeJoin
  <2> QED BY <2>1 DEF ThRec
<1>3. end
  BY <1>1 DEF RInv, SInv, ThreadInv, EndOk, Ending
<1>4. LoopOk'
  BY <1>1 DEF RInv, LoopOk
<1>5. /\ \A g \in Handle : hd'[g] = hd[g] /\ inbox'[g] = inbox[g]
      /\ th[t].pc \in Ending \cup {"idle"} /\ th'[t].pc \in Ending \cup {"idle"} /\ end'
  BY <1>1, <1>2, <1>3 DEF Ending
<1> QED BY <1>1, <1>2, <1>3, <1>4, <1>5, EndNoListen, EndReader

\* and returns.
LEMMA FinalizeEndReader ==
  ASSUME RInv, NEW t \in Thread, FinalizeEnd(t)
  PROVE  RInv'
<1>1. /\ SInv' /\ th[t].pc = "end"
      /\ UNCHANGED <<user, sock, connections, lsn, peer, set, fdmax, listen_sck, nlisten, io,
                     backlog, handleReady, hd, inbox, tmpset, end>>
  BY FinalizeEndSafe DEF RInv, FinalizeEnd, netVars, osVars, selVars, mgrVars
<1>2. (\A s \in Thread : s # t => th'[s] = th[s]) /\ th'[t].pc = "idle"
  <2>1. th \in [Thread -> ThRec] /\ th' = [th EXCEPT ![t] = Idle]
    BY Types DEF RInv, SInv, FinalizeEnd
  <2> QED BY <2>1 DEF Idle
<1>3. end
  BY <1>1 DEF RInv, SInv, ThreadInv, EndOk, Ending
<1>4. LoopOk'
  BY <1>1 DEF RInv, LoopOk
<1>5. /\ \A g \in Handle : hd'[g] = hd[g] /\ inbox'[g] = inbox[g]
      /\ th[t].pc \in Ending \cup {"idle"} /\ th'[t].pc \in Ending \cup {"idle"} /\ end'
  BY <1>1, <1>2, <1>3 DEF Ending
<1> QED BY <1>1, <1>2, <1>3, <1>4, <1>5, EndNoListen, EndReader

\* The last close of a Handle takes it out of the watched set.
LEMMA FinalCloseReader ==
  ASSUME RInv, SInv', NEW t \in Thread, NEW h \in Handle, NEW f \in Fd, connections[f] = h,
         th[t].pc \in {"end", "drain"}, th'[t].pc = "end", FinalClose(h, f),
         \A s \in Thread : s # t => th'[s] = th[s],
         \A g \in Handle : g # h => inbox'[g] = inbox[g],
         UNCHANGED <<user, peer, listen_sck, nlisten, io, backlog, handleReady, end>>
  PROVE  RInv'
<1>1. /\ end /\ io.pc = "exit" /\ io.h = NoHandle
      /\ hd[h].st = "alive" /\ hd[h].fd = f /\ ~hd[h].rd /\ sock[f] = h
  BY EndEntry DEF RInv
<1>2. /\ user' = user /\ peer' = peer /\ listen_sck' = listen_sck /\ nlisten' = nlisten
      /\ io' = io /\ backlog' = backlog /\ handleReady' = handleReady /\ end' = end
  OBVIOUS
<1>3. /\ \A g \in Handle : g # h => hd'[g] = hd[g]
      /\ hd'[h].rd /\ hd'[h].wr /\ hd'[h].st # "none"
  <2> DEFINE r == [hd[h] EXCEPT !.rd = TRUE, !.wr = TRUE, !.fd = -1]
  <2>1. hd \in [Handle -> HandleRec] /\ hd' = [hd EXCEPT ![h] = Reap(r)]
    BY Types DEF RInv, SInv, FinalClose
  <2>2. r \in HandleRec /\ r.rd /\ r.wr /\ r.st = "alive"
    BY <1>1, <2>1 DEF HandleRec
  <2> HIDE DEF r
  <2>3. hd'[h] = Reap(r) /\ \A g \in Handle : g # h => hd'[g] = hd[g]
    BY <2>1
  <2> QED BY <2>2, <2>3, ReapKeeps
<1>4. set \subseteq Fd /\ fdmax \in Fd \cup {-1}
  BY DEF RInv, SInv, IInv, TypeOK
<1>5. /\ set' = set \ {f} /\ fdmax' = FdMaxWithout(f) /\ lsn' = lsn \ {f}
      /\ connections'[f] = NoHandle /\ \A d \in Fd : d # f => connections'[d] = connections[d]
      /\ \A d \in Fd : d # f => sock'[d] = sock[d]
  <2>1. /\ connections \in [Fd -> Handle \cup {NoHandle}]
        /\ sock \in [Fd -> Handle \cup {NoHandle}]
    BY Types DEF RInv, SInv
  <2> QED BY <2>1 DEF FinalClose, Erase, Unwatch, CloseFd
<1>6. NoListen /\ NoListen'
  BY <1>1, Connected, ListenKept
<1>7. EndpointInv'
  BY <1>2, <1>5, <1>6, EndpointKept
<1>8. SetOk'
  <2>1. ASSUME NEW d \in set, d # f, sock[d] # NoHandle
        PROVE  sock[d] \in Handle /\ sock[d] # h
    <3>1. sock[d] \in Handle /\ d \in Watched(sock[d])
      BY <2>1, WatchedAt
    <3>2. hd[sock[d]].fd = d
      BY <3>1, WatchedAlive
    <3> QED BY <1>1, <2>1, <3>1, <3>2
  <2>2. ASSUME NEW d \in set, d # f
        PROVE  /\ sock'[d] = sock[d] /\ connections'[d] = connections[d]
               /\ d \in lsn => d \in lsn'
               /\ sock[d] # NoHandle => hd'[sock[d]].rd = hd[sock[d]].rd
    BY <1>3, <1>4, <1>5, <2>1, <2>2
  <2> QED BY <1>2, <1>5, <2>2 DEF RInv, SetOk
<1>9. FdMaxOk'
  <2>1. (\A g \in set : g <= fdmax) /\ (fdmax # -1 => fdmax \in set)
    BY <1>6 DEF RInv, FdMaxOk, NoListen
  <2> QED BY <1>4, <1>5, <2>1, FdMaxWithoutOk DEF FdMaxOk
<1>10. LoopOk'
  BY <1>1, <1>2 DEF LoopOk, InLoop
<1>11. ReaderInv'
  <2>1. ASSUME NEW g \in Handle
        PROVE  /\ ReaderOk(g) /\ ~(Owed(g)') /\ Queued(g)' = Queued(g)
               /\ Readers(g)' = Readers(g) /\ Yielding(g)' = Yielding(g)
    BY <1>1, <1>2 DEF RInv, ReaderInv, Owed, Queued, Readers, Yielding
  <2>2. ASSUME NEW g \in Handle
        PROVE  Watched(g)' \subseteq Watched(g)
    BY <1>4, <1>5, HandleAssumption DEF Watched
  <2>3. ASSUME NEW g \in Handle
        PROVE  FreshOk(g)'
    <3>1. CASE g = h
      BY <1>1, <1>2, <1>3, <3>1, NotFreshNext, HandleAssumption
    <3>2. CASE g # h
      BY <1>2, <2>1, <3>2 DEF ReaderOk, FreshOk, Fresh
    <3> QED BY <3>1, <3>2
  <2>4. ASSUME NEW g \in Handle
        PROVE  PlaceOk(g)' /\ LiveOk(g)'
    BY <1>2, <2>1, <2>2, PlacesShrink
  <2> QED BY <2>3, <2>4 DEF ReaderInv, ReaderOk
<1>12. TransitInv'
  <2>1. ASSUME NEW s \in Thread
        PROVE  TransitOk(s)'
    <3>1. CASE s = t \/ th[s].pc \notin Calling
      BY <3>1 DEF TransitOk, Calling, Closing
    <3>2. CASE s # t /\ th[s].pc \in Calling
      <4>1. th[s].h \in Handle
        BY <3>2, InCall DEF RInv
      <4> QED BY <1>2, <1>3, <3>2, <4>1 DEF RInv, TransitInv, TransitOk
    <3> QED BY <3>1, <3>2
  <2> QED BY <2>1 DEF TransitInv
<1>13. ReadyHasData'
  BY <1>1, <1>2 DEF ReadyHasData
<1> QED BY <1>7, <1>8, <1>9, <1>10, <1>11, <1>12, <1>13 DEF RInv

\* setAsClosed for the next entry of the table,
LEMMA SetAsClosedReader ==
  ASSUME RInv, NEW t \in Thread, SetAsClosed(t)
  PROVE  RInv'
<1>0. /\ th[t].pc = "end" /\ SInv' /\ todo # {} /\ todo \in SUBSET Fd
      /\ UNCHANGED <<user, peer, listen_sck, nlisten, io, backlog, handleReady, end, inbox, tmpset>>
  <2>1. SInv' /\ todo \in SUBSET Fd
    BY Types, SetAsClosedSafe DEF RInv, SInv
  <2> QED BY <2>1 DEF SetAsClosed, netVars, mgrVars
<1>1. PICK f \in Fd : f = Min(todo) /\ f \in todo
  BY <1>0, FdMin
<1>2. PICK h \in Handle : h = connections[f]
  <2>1. connections \in [Fd -> Handle \cup {NoHandle}]
    BY Types DEF RInv, SInv
  <2> QED BY <1>1, <2>1 DEF RInv, SInv, EndInv
<1>3. \/ /\ hd' = [hd EXCEPT ![h].wr = TRUE]
         /\ th' = [th EXCEPT ![t].pc = "drain", ![t].h = h]
         /\ UNCHANGED <<osVars, selVars>>
      \/ FinalClose(h, f) /\ UNCHANGED th
  BY <1>1, <1>2 DEF SetAsClosed
<1>4. end /\ io.pc = "exit" /\ io.h = NoHandle
  BY <1>0, <1>2, EndEntry DEF RInv
<1>5. CASE FinalClose(h, f) /\ UNCHANGED th
  BY <1>0, <1>2, <1>5, FinalCloseReader
<1>6. CASE /\ hd' = [hd EXCEPT ![h].wr = TRUE]
           /\ th' = [th EXCEPT ![t].pc = "drain", ![t].h = h]
           /\ UNCHANGED <<osVars, selVars>>
  <2>1. th \in [Thread -> ThRec] /\ hd \in [Handle -> HandleRec]
    BY Types DEF RInv, SInv
  <2>2. (\A s \in Thread : s # t => th'[s] = th[s]) /\ th'[t].pc = "drain"
    BY <1>6, <2>1 DEF ThRec
  <2>3. \A g \in Handle : /\ hd'[g].rd = hd[g].rd /\ (hd[g].wr => hd'[g].wr)
                          /\ hd'[g].fd = hd[g].fd
    BY <1>6, <2>1 DEF HandleRec
  <2>4. LoopOk'
    BY <1>0, <1>4 DEF LoopOk, InLoop
  <2>5. /\ th[t].pc \in Ending \cup {"idle"} /\ th'[t].pc \in Ending \cup {"idle"} /\ end'
        /\ \A g \in Handle : inbox'[g] = inbox[g]
    BY <1>0, <1>4, <2>2 DEF Ending
  <2>6. UNCHANGED <<sock, connections, lsn, set, fdmax>>
    BY <1>6 DEF osVars, selVars
  <2> QED BY <1>0, <1>4, <2>2, <2>3, <2>4, <2>5, <2>6, EndNoListen, EndReader
<1> QED BY <1>3, <1>5, <1>6

\* and its wait for EOS.
LEMMA DrainReader ==
  ASSUME RInv, NEW t \in Thread, Drain(t)
  PROVE  RInv'
<1>0. /\ th[t].pc = "drain" /\ SInv'
      /\ UNCHANGED <<user, peer, listen_sck, nlisten, io, backlog, handleReady, end, tmpset>>
  BY DrainSafe DEF RInv, Drain, mgrVars
<1>1. PICK h \in Handle : h = th[t].h
  BY <1>0 DEF RInv, SInv, ThreadInv, EndOk
<1>2. hd[h].st = "alive" /\ ~hd[h].rd /\ end /\ io.pc = "exit" /\ io.h = NoHandle
  BY <1>0, <1>1 DEF RInv, SInv, ThreadInv, EndOk, Ending, IoOk
<1>3. hd \in [Handle -> HandleRec] /\ th \in [Thread -> ThRec]
  BY Types DEF RInv, SInv
<1>4. PICK f \in Fd : f = hd[h].fd /\ connections[f] = h
  <2>1. FdOk(h)
    BY DEF RInv, SInv, HandleInv, HandleOk
  <2>2. hd[h].fd \in Fd \cup {-1}
    BY <1>3 DEF HandleRec
  <2> QED BY <1>2, <2>1, <2>2 DEF FdOk
<1>5. \A g \in Handle : g # h => inbox'[g] = inbox[g]
  <2>1. inbox \in [Handle -> Seq(Item)]
    BY DEF RInv, SInv, IInv, TypeOK
  <2>2. inbox' = inbox \/ \E v : inbox' = [inbox EXCEPT ![h] = v]
    BY <1>1 DEF Drain
  <2> QED BY <2>1, <2>2
<1>6. \/ hd' = [hd EXCEPT ![h].probed = "no"] /\ UNCHANGED <<th, osVars, selVars>>
      \/ UNCHANGED <<hd, th, osVars, selVars>>
      \/ FinalClose(h, f) /\ th' = [th EXCEPT ![t].pc = "end", ![t].h = NoHandle]
      \/ /\ th' = [th EXCEPT ![t].pc = "end", ![t].h = NoHandle]
         /\ UNCHANGED <<hd, osVars, selVars>>
  BY <1>1, <1>4 DEF Drain
<1>7. th' = [th EXCEPT ![t].pc = "end", ![t].h = NoHandle] =>
        th'[t].pc = "end" /\ \A s \in Thread : s # t => th'[s] = th[s]
  BY <1>3 DEF ThRec
<1>8. CASE FinalClose(h, f) /\ th' = [th EXCEPT ![t].pc = "end", ![t].h = NoHandle]
  BY <1>0, <1>4, <1>5, <1>7, <1>8, FinalCloseReader
<1>9. CASE ~(FinalClose(h, f) /\ th' = [th EXCEPT ![t].pc = "end", ![t].h = NoHandle])
  <2>1. UNCHANGED <<sock, connections, lsn, set, fdmax>>
    BY <1>6, <1>9 DEF osVars, selVars
  <2>2. hd' = [hd EXCEPT ![h].probed = "no"] \/ hd' = hd
    BY <1>6, <1>9
  <2>3. \A g \in Handle : /\ hd'[g].rd = hd[g].rd /\ hd'[g].wr = hd[g].wr
                          /\ hd'[g].fd = hd[g].fd /\ hd'[g].st = hd[g].st
    BY <1>3, <2>2 DEF HandleRec
  <2>4. (\A s \in Thread : s # t => th'[s] = th[s]) /\ th'[t].pc \in {"end", "drain"}
    BY <1>0, <1>6, <1>7, <1>9
  <2>5. LoopOk'
    BY <1>0, <1>2 DEF LoopOk, InLoop
  <2>6. \A g \in Handle : inbox'[g] = inbox[g] \/ (hd'[g].st # "none" /\ io'.h # g)
    BY <1>0, <1>2, <1>5, <2>3, HandleAssumption
  <2>7. th[t].pc \in Ending \cup {"idle"} /\ th'[t].pc \in Ending \cup {"idle"} /\ end'
    BY <1>0, <1>2, <2>4 DEF Ending
  <2> QED BY <1>0, <1>2, <2>1, <2>3, <2>4, <2>5, <2>6, <2>7, EndNoListen, EndReader
<1> QED BY <1>6, <1>8, <1>9

-----------------------------------------------------------------------------
(* The peers *)

\* What arrives is added behind what has arrived.
LEMMA Grown ==
  ASSUME NEW s \in Seq(Item), NEW r \in Seq(Item)
  PROVE  /\ s # <<>> => s \o r # <<>> /\ (s \o r)[1] = s[1]
         /\ Len(s) > 1 => Len(s \o r) > 1 /\ (s \o r)[2] = s[2]
         /\ r # <<>> => s \o r # <<>>
  OBVIOUS

LEMMA GrownByOne ==
  ASSUME NEW s \in Seq(Item), NEW x \in Item
  PROVE  /\ Append(s, x) # <<>>
         /\ s = <<>> => Append(s, x)[1] = x
         /\ Len(s) = 1 => Append(s, x)[1] = s[1] /\ Append(s, x)[2] = x /\ Len(Append(s, x)) = 2
<1>1. /\ Len(Append(s, x)) = Len(s) + 1 /\ Append(s, x)[Len(s) + 1] = x
      /\ \A i \in 1 .. Len(s) : Append(s, x)[i] = s[i]
  OBVIOUS
<1>2. Append(s, x) # <<>>
  <2>1. Len(Append(s, x)) # 0 /\ Len(<<>>) = 0
    BY <1>1
  <2> QED BY <2>1
<1>3. ASSUME s = <<>> PROVE Append(s, x)[1] = x
  <2>1. Len(s) = 0
    BY <1>3
  <2> QED BY <1>1, <2>1
<1>4. ASSUME Len(s) = 1
      PROVE  Append(s, x)[1] = s[1] /\ Append(s, x)[2] = x /\ Len(Append(s, x)) = 2
  BY <1>1, <1>4
<1> QED BY <1>2, <1>3, <1>4

\* The stream of a connection nobody reads yet stays in order.
LEMMA PeerFresh ==
  ASSUME RInv, NEW h \in Handle, PeerNext(h)
  PROVE  FreshOk(h)' /\ (inbox[h] # <<>> => inbox'[h] # <<>>)
<1>1. /\ FreshOk(h) /\ inbox[h] \in Seq(Item) /\ peer \in [Handle -> PeerState]
      /\ inbox \in [Handle -> Seq(Item)]
      /\ peer[h] = "none" => ~Fresh(h)
  BY DEF RInv, ReaderInv, ReaderOk, SInv, IInv, TypeOK, HandleInv, HandleOk, BirthOk, Fresh
<1>2. io' = io
  BY DEF PeerNext, PeerConnect, PeerHandshake, PeerSend, PeerClose, PeerCrash, localVars
<1>3. CASE PeerConnect(h)
  <2>1. peer'[h] = "new" /\ inbox' = inbox /\ inbox[h] = <<>>
    BY <1>1, <1>3 DEF PeerConnect, FreshOk
  <2> QED BY <2>1 DEF FreshOk
<1>4. CASE PeerHandshake(h)
  <2>0. backlog' = backlog /\ (Fresh(h)' => Fresh(h))
    BY <1>2, <1>4 DEF PeerHandshake, Fresh
  <2>1. CASE peer[h] = "new" /\ peer'[h] = "up" /\ inbox'[h] = Append(inbox[h], "p2p")
    <3>1. inbox'[h] # <<>> /\ (inbox[h] = <<>> => inbox'[h][1] = "p2p")
      BY <1>1, <2>1, GrownByOne DEF Item
    <3> QED BY <1>1, <2>0, <2>1, <3>1 DEF FreshOk
  <2>2. CASE peer[h] = "new" /\ peer'[h] = "flagged" /\ inbox'[h] = Append(inbox[h], "coll")
    <3>1. inbox'[h] # <<>>
      BY <1>1, <2>2, GrownByOne DEF Item
    <3>2. inbox[h] = <<>> => inbox'[h] = <<"coll">>
      BY <2>2
    <3> QED BY <1>1, <2>0, <2>2, <3>1, <3>2 DEF FreshOk
  <2>3. CASE peer[h] = "flagged" /\ peer'[h] = "up" /\ inbox'[h] = Append(inbox[h], "team")
    <3>1. inbox'[h] # <<>>
      BY <1>1, <2>3, GrownByOne DEF Item
    <3>2. ASSUME inbox[h] = <<"coll">>
          PROVE  inbox'[h][1] = "coll" /\ inbox'[h][2] = "team" /\ Len(inbox'[h]) > 1
      BY <1>1, <2>3, <3>2, GrownByOne DEF Item
    <3> QED BY <1>1, <2>0, <2>3, <3>1, <3>2 DEF FreshOk
  <2>4. inbox \in [Handle -> Seq(Item)] /\ peer \in [Handle -> PeerState]
    BY <1>1
  <2> QED BY <1>4, <2>1, <2>2, <2>3, <2>4 DEF PeerHandshake
<1>5. CASE PeerSend(h) \/ PeerClose(h)
  <2>0. backlog' = backlog /\ (Fresh(h)' => Fresh(h))
    BY <1>2, <1>5 DEF PeerSend, PeerClose, Fresh
  <2>1. PICK r \in Seq(Item) : r # <<>> /\ inbox'[h] = inbox[h] \o r
    <3>1. <<"hdr", "pay">> \in Seq(Item) /\ <<"eos", "fin">> \in Seq(Item)
          /\ <<"hdr", "pay">> # <<>> /\ <<"eos", "fin">> # <<>>
      BY DEF Item
    <3>2. inbox'[h] = inbox[h] \o <<"hdr", "pay">> \/ inbox'[h] = inbox[h] \o <<"eos", "fin">>
      <4>1. inbox \in [Handle -> Seq(Item)]
        BY <1>1
      <4> QED BY <1>5, <4>1 DEF PeerSend, PeerClose
    <3> QED BY <3>1, <3>2
  <2>2. peer[h] = "up" /\ peer'[h] \in {"up", "closed"}
    BY <1>1, <1>5 DEF PeerSend, PeerClose
  <2>3. /\ inbox[h] # <<>> => inbox'[h] # <<>> /\ inbox'[h][1] = inbox[h][1]
        /\ Len(inbox[h]) > 1 => Len(inbox'[h]) > 1 /\ inbox'[h][2] = inbox[h][2]
    BY <1>1, <2>1, Grown
  <2> QED BY <1>1, <2>0, <2>2, <2>3 DEF FreshOk
<1>6. CASE PeerCrash(h)
  <2>1. peer'[h] = "dead"
    BY <1>1, <1>6 DEF PeerCrash
  <2>2. inbox'[h] # <<>>
    <3>1. <<"hdr", "fin">> \in Seq(Item) /\ "fin" \in Item /\ <<"hdr", "fin">> # <<>>
      BY DEF Item
    <3>2. Append(inbox[h], "fin") # <<>> /\ inbox[h] \o <<"hdr", "fin">> # <<>>
          /\ <<"rst">> # <<>>
      BY <1>1, <3>1, Grown, GrownByOne
    <3>3. \/ inbox'[h] = Append(inbox[h], "fin") \/ inbox'[h] = inbox[h] \o <<"hdr", "fin">>
          \/ inbox'[h] = <<"rst">>
      <4>1. inbox \in [Handle -> Seq(Item)]
        BY <1>1
      <4> QED BY <1>6, <4>1 DEF PeerCrash
    <3> QED BY <3>2, <3>3
  <2> QED BY <2>1, <2>2 DEF FreshOk
<1> QED BY <1>3, <1>4, <1>5, <1>6 DEF PeerNext

\* The peers do not move the handles of this process, and do not take back what
\* they sent.
LEMMA PeerReader ==
  ASSUME RInv, NEW h \in Handle, PeerNext(h)
  PROVE  RInv'
<1>1. UNCHANGED localVars
  BY DEF PeerNext, PeerConnect, PeerHandshake, PeerSend, PeerClose, PeerCrash
<1>2. /\ open' = open /\ lsn' = lsn /\ sock' = sock /\ connections' = connections
      /\ set' = set /\ fdmax' = fdmax /\ tmpset' = tmpset /\ listen_sck' = listen_sck
      /\ handleReady' = handleReady /\ groupsReady' = groupsReady /\ end' = end /\ io' = io
      /\ hd' = hd /\ user' = user /\ th' = th /\ nlisten' = nlisten
  BY <1>1 DEF localVars, osVars, selVars, mgrVars
<1>3. peer \in [Handle -> PeerState] /\ inbox \in [Handle -> Seq(Item)]
      /\ backlog \in [Fd -> SUBSET Handle] /\ lsn \subseteq Fd
  BY DEF RInv, SInv, IInv, TypeOK
<1>4. /\ \A g \in Handle : g # h => peer'[g] = peer[g] /\ inbox'[g] = inbox[g]
      /\ peer'[h] # "none" /\ peer[h] # "dead"
      /\ \A g \in Handle, f \in Fd : g # h => (g \in backlog'[f] <=> g \in backlog[f])
  <2>1. CASE PeerConnect(h)
    BY <1>3, <2>1 DEF PeerConnect
  <2>2. CASE PeerHandshake(h) \/ PeerSend(h) \/ PeerClose(h)
    BY <1>3, <2>2 DEF PeerHandshake, PeerSend, PeerClose
  <2>3. CASE PeerCrash(h)
    BY <1>3, <2>3 DEF PeerCrash
  <2> QED BY <2>1, <2>2, <2>3 DEF PeerNext
<1>5. \A g \in Handle : inbox[g] # <<>> => inbox'[g] # <<>>
  BY <1>4, PeerFresh
<1>6. SInv'
  BY PeerSafe DEF RInv
<1>7. ASSUME NEW g \in Handle
      PROVE  ReaderOk(g)'
  <2>1. ReaderOk(g)
    BY DEF RInv, ReaderInv
  <2>2. SamePlaces(g)
    BY <1>2 DEF SamePlaces, Watched, Yielding, Queued, Readers
  <2>3. Owed(g)' => Owed(g)
    BY <1>2, <1>4 DEF Owed
  <2>4. FreshOk(g)'
    <3>1. CASE g = h
      BY <3>1, PeerFresh
    <3>2. CASE g # h
      <4>1. Fresh(g)' => Fresh(g)
        BY <1>2, <1>4, <3>2 DEF Fresh
      <4>2. peer'[g] = peer[g] /\ inbox'[g] = inbox[g]
        BY <1>4, <3>2
      <4> QED BY <2>1, <4>1, <4>2 DEF ReaderOk, FreshOk
    <3> QED BY <3>1, <3>2
  <2> QED BY <1>2, <2>1, <2>2, <2>3, <2>4, PlacesKept DEF ReaderOk
<1>8. SetOk' /\ FdMaxOk' /\ TransitInv'
  BY <1>2 DEF RInv, SetOk, FdMaxOk, Listening, TransitInv, TransitOk
<1>9. EndpointInv'
  <2>1. \A t \in Thread : ListenOk(t)'
    BY <1>2 DEF RInv, EndpointInv, ListenOk, Listening
  <2>2. \E g \in Handle : peer'[g] # "none"
    BY <1>4
  <2> QED BY <1>2, <2>1, <2>2 DEF RInv, EndpointInv
<1>10. LoopOk'
  <2>1. ASSUME NEW f \in tmpset, io.pc \in InLoop, f >= io.idx
        PROVE  f \in set /\ (sock[f] # NoHandle => inbox'[sock[f]] # <<>>)
    <3>1. f \in set /\ (sock[f] # NoHandle => inbox[sock[f]] # <<>>)
      BY <2>1 DEF RInv, LoopOk
    <3>2. sock[f] # NoHandle => sock[f] \in Handle
      BY <3>1, WatchedAt
    <3> QED BY <1>5, <3>1, <3>2
  <2>2. io.pc = "select" => tmpset \subseteq set
    BY DEF RInv, LoopOk
  <2>3. io.pc = "ready" => io.idx \in tmpset /\ io.idx # listen_sck
    BY DEF RInv, LoopOk
  <2> QED BY <1>2, <2>1, <2>2, <2>3 DEF LoopOk
<1>11. ReadyHasData'
  <2>1. \A i \in DOMAIN handleReady : handleReady[i].h \in Handle
    BY QueuedCount DEF RInv
  <2> QED BY <1>2, <1>5, <2>1 DEF RInv, ReadyHasData
<1>12. ListenFirst /\ MaxListen <= 1
  BY DEF RInv
<1> QED BY <1>6, <1>7, <1>8, <1>9, <1>10, <1>11, <1>12 DEF RInv, ReaderInv

-----------------------------------------------------------------------------
(* The specification *)

\* Manager::init establishes the invariant,
LEMMA InitReader == ~Shared /\ ListenFirst /\ MaxListen <= 1 /\ Init => RInv
<1> SUFFICES ASSUME ~Shared, ListenFirst, MaxListen <= 1, Init PROVE RInv
  OBVIOUS
<1>1. /\ \A h \in Handle : hd[h].st = "none" /\ inbox[h] = <<>> /\ peer[h] = "none"
      /\ \A t \in Thread : th[t].pc = "idle"
      /\ \A f \in Fd : connections[f] = NoHandle /\ backlog[f] = {}
      /\ \A u \in User : user[u].h = NoHandle
      /\ io.pc = "top" /\ io.h = NoHandle /\ handleReady = <<>> /\ lsn = {}
      /\ set = {} /\ fdmax = -1
  BY DEF Init, Unborn, Idle, Empty, IoAt
<1>2. SInv
  BY InitSafe
<1>3. SetOk /\ FdMaxOk /\ TransitInv
  BY <1>1 DEF SetOk, FdMaxOk, TransitInv, TransitOk, Closing
<1>4. EndpointInv /\ LoopOk
  BY <1>1 DEF EndpointInv, ListenOk, Listening, LoopOk, InLoop
<1>5. ASSUME NEW h \in Handle
      PROVE  ReaderOk(h)
  <2>1. Watched(h) = {} /\ Yielding(h) = {} /\ Readers(h) = {}
    BY <1>1, HandleAssumption DEF Watched, Yielding, Readers
  <2>2. Queued(h) = {}
    BY <1>1 DEF Queued
  <2> QED BY <1>1, <2>1, <2>2, HandleAssumption DEF ReaderOk, PlaceOk, LiveOk, Owed, FreshOk, Fresh
<1>6. ReadyHasData
  BY <1>1 DEF ReadyHasData
<1> QED BY <1>2, <1>3, <1>4, <1>5, <1>6 DEF RInv, ReaderInv

\* a step that changes nothing keeps it,
LEMMA StutterReader ==
  ASSUME RInv, UNCHANGED vars
  PROVE  RInv'
<1>1. SInv'
  BY StutterSafe DEF RInv
<1>2. UNCHANGED <<open, lsn, sock, backlog, inbox, peer, set, tmpset, fdmax, listen_sck,
                  connections, io, handleReady, groupsReady, end, hd, user, th, nlisten>>
  BY DEF vars
<1>3. SetOk' /\ FdMaxOk' /\ TransitInv' /\ ReadyHasData'
  BY <1>2 DEF RInv, SetOk, FdMaxOk, Listening, TransitInv, TransitOk, ReadyHasData
<1>4. EndpointInv' /\ LoopOk'
  BY <1>2 DEF RInv, EndpointInv, ListenOk, Listening, LoopOk
<1>5. ASSUME NEW h \in Handle
      PROVE  ReaderOk(h)'
  <2>1. ReaderOk(h)
    BY DEF RInv, ReaderInv
  <2>2. SamePlaces(h)
    BY <1>2 DEF SamePlaces, Watched, Yielding, Queued, Readers
  <2>3. (Owed(h)' => Owed(h)) /\ io' = io
    BY <1>2 DEF Owed
  <2>4. FreshOk(h)'
    BY <1>2, <2>1 DEF ReaderOk, FreshOk, Fresh
  <2> QED BY <2>1, <2>2, <2>3, <2>4, PlacesKept DEF ReaderOk
<1>6. ListenFirst /\ MaxListen <= 1
  BY DEF RInv
<1> QED BY <1>1, <1>3, <1>4, <1>5, <1>6 DEF RInv, ReaderInv

\* and so does every step of the threads and the peers.
LEMMA NextReader == RInv /\ [Next]_vars => RInv'
<1> SUFFICES ASSUME RInv, [Next]_vars PROVE RInv'
  OBVIOUS
<1>1. CASE IoNext
  BY <1>1, IoNextReader
<1>2. ASSUME NEW t \in Thread, Start(t)
      PROVE  RInv'
  <2>1. ASSUME NEW u \in User,
               \/ GetNext(t, u) \/ Probe(t, u) \/ ProbeFail(t, u)
               \/ Receive(t, u) \/ Yield(t, u) \/ Close(t, u) \/ Drop(t, u)
        PROVE  RInv'
    BY <2>1, GetNextReader, ProbeReader, ProbeFailReader, ReceiveReader, YieldReader,
       CloseReader, DropReader
  <2>2. ASSUME NEW u \in User, NEW h \in Handle, Connect(t, u, h)
        PROVE  RInv'
    BY <2>2, ConnectReader
  <2>3. CASE Listen(t)
    BY <2>3, ListenReader
  <2>4. ASSUME NEW b \in BlockFlags, Finalize(t, b)
        PROVE  RInv'
    BY <2>4, FinalizeReader
  <2> QED BY <1>2, <2>1, <2>2, <2>3, <2>4 DEF Start
<1>3. ASSUME NEW t \in Thread, Continue(t)
      PROVE  RInv'
  <2>1. CASE DrainSpin(t)
    BY <2>1, StutterReader DEF DrainSpin
  <2>2. CASE ListenZero(t) \/ ListenSet(t) \/ ListenMax(t)
    BY <2>2, ListenStepReader
  <2>3. CASE ~DrainSpin(t) /\ ~(ListenZero(t) \/ ListenSet(t) \/ ListenMax(t))
    BY <1>3, <2>3, ConnectInsertReader, NotifyCloseReader, NotifyEraseReader,
       NotifyFdCloseReader, NotifyYieldReader, DropReleaseReader, FinalizeJoinReader,
       SetAsClosedReader, DrainReader, FinalizeEndReader DEF Continue
  <2> QED BY <2>1, <2>2, <2>3
<1>4. ASSUME NEW h \in Handle, PeerNext(h)
      PROVE  RInv'
  BY <1>4, PeerReader
<1>5. CASE Terminated
  BY <1>5, StutterReader DEF Terminated
<1>6. CASE UNCHANGED vars
  BY <1>6, StutterReader
<1> QED BY <1>1, <1>2, <1>3, <1>4, <1>5, <1>6 DEF Next

\* The invariant of the selector, the queue and the rights to read, when the
\* application calls listen once, before its first connection, and a Handle is
\* used by one thread at a time.
THEOREM ReaderSafe == ~Shared /\ ListenFirst /\ MaxListen <= 1 /\ Spec => []RInv
<1>1. ~Shared /\ ListenFirst /\ MaxListen <= 1 /\ Init => RInv
  BY InitReader
<1>2. RInv /\ [Next]_vars => RInv'
  BY NextReader
<1> QED BY <1>1, <1>2, PTL DEF Spec

\* A Handle is never handed to two readers: not watched by select while a thread
\* gives it back to notify_yield, not queued twice, not in the queue while a
\* HandleUser may read it; and it is never forgotten, as long as it is open and
\* its peer lives (tcp.hpp 255-330 and 404-413, protocolInterface.hpp: "the
\* ownership of h is transferred").
THEOREM ReaderIsUnique == ~Shared /\ ListenFirst /\ MaxListen <= 1 /\ Spec => []UniqueReader
<1>1. RInv => UniqueReader
  <2> SUFFICES ASSUME RInv, NEW h \in Handle
               PROVE  /\ \A p, q \in Places(h) : p = q
                      /\ Owed(h) => Places(h) # {}
    BY DEF UniqueReader, Owed
  <2>1. PlaceOk(h) /\ LiveOk(h)
    BY DEF RInv, ReaderInv, ReaderOk
  <2>2. \A e, f \in Watched(h) : e = f
    BY WatchedAlive
  <2>3. \A s, t \in Yielding(h) : s = t
    BY DEF RInv, SInv, OneInv, Yielding, Busy, Calling
  <2>4. (\A i, j \in Queued(h) : i = j) /\ (\A u, v \in Readers(h) : u = v)
    BY <2>1 DEF PlaceOk
  <2>5. \A p, q \in Places(h) : p = q
    <3> SUFFICES ASSUME NEW p \in Places(h), NEW q \in Places(h) PROVE p = q
      OBVIOUS
    <3>1. CASE Watched(h) # {}
      <4>1. Yielding(h) = {} /\ Queued(h) = {} /\ Readers(h) = {}
        BY <2>1, <3>1 DEF PlaceOk
      <4> QED BY <2>2, <4>1 DEF Places
    <3>2. CASE Yielding(h) # {}
      <4>1. Watched(h) = {} /\ Queued(h) = {} /\ Readers(h) = {}
        BY <2>1, <3>2 DEF PlaceOk
      <4> QED BY <2>3, <4>1 DEF Places
    <3>3. CASE Queued(h) # {}
      <4>1. Watched(h) = {} /\ Yielding(h) = {} /\ Readers(h) = {}
        BY <2>1, <3>3 DEF PlaceOk
      <4> QED BY <2>4, <4>1 DEF Places
    <3>4. CASE Watched(h) = {} /\ Yielding(h) = {} /\ Queued(h) = {}
      BY <2>4, <3>4 DEF Places
    <3> QED BY <3>1, <3>2, <3>3, <3>4
  <2>6. ASSUME Owed(h) PROVE Places(h) # {}
    <3>1. Watched(h) # {} \/ Yielding(h) # {} \/ Queued(h) # {} \/ Readers(h) # {}
      BY <2>1, <2>6 DEF LiveOk
    <3>2. CASE Watched(h) # {}
      <4>1. PICK x \in Watched(h) : TRUE
        BY <3>2
      <4>2. <<"watched", x>> \in Places(h)
        BY <4>1 DEF Places
      <4> QED BY <4>2
    <3>3. CASE Yielding(h) # {}
      <4>1. PICK x \in Yielding(h) : TRUE
        BY <3>3
      <4>2. <<"yielding", x>> \in Places(h)
        BY <4>1 DEF Places
      <4> QED BY <4>2
    <3>4. CASE Queued(h) # {}
      <4>1. PICK x \in Queued(h) : TRUE
        BY <3>4
      <4>2. <<"queued", x>> \in Places(h)
        BY <4>1 DEF Places
      <4> QED BY <4>2
    <3>5. CASE Readers(h) # {}
      <4>1. PICK x \in Readers(h) : TRUE
        BY <3>5
      <4>2. <<"reader", x>> \in Places(h)
        BY <4>1 DEF Places
      <4> QED BY <4>2
    <3> QED BY <3>1, <3>2, <3>3, <3>4, <3>5
  <2> QED BY <2>5, <2>6
<1> QED BY <1>1, ReaderSafe, PTL

\* select never sees a closed descriptor (tcp.hpp 269, EBADF), and a descriptor
\* that it reported is still watched when the loop of update gets to it, although
\* the loop works on a copy of the set and holds the lock only while it handles
\* one descriptor, so yields and closes come in between (tcp.hpp 279-328).
THEOREM SelectIsNotStale == ~Shared /\ ListenFirst /\ MaxListen <= 1 /\ Spec => []NoStaleSelect
<1>1. RInv => NoStaleSelect
  <2> SUFFICES ASSUME RInv PROVE NoStaleSelect
    OBVIOUS
  <2>1. set \subseteq open
    BY WatchedOpen
  <2>2. io.pc = "select" => tmpset \subseteq set
    BY DEF RInv, LoopOk
  <2>3. ASSUME io.pc \in InLoop, NEW f \in tmpset, f > io.idx \/ f = io.idx
        PROVE  f \in set
    <3>1. tmpset \subseteq Fd /\ io \in IoRec
      BY DEF RInv, SInv, IInv, TypeOK
    <3>2. f \in Int /\ io.idx \in Int
      BY <3>1, BoundAssumption DEF Fd, IoRec
    <3>3. f >= io.idx
      BY <2>3, <3>2
    <3> QED BY <2>3, <3>3 DEF RInv, LoopOk
  <2> QED BY <2>1, <2>2, <2>3 DEF NoStaleSelect, InLoop
<1> QED BY <1>1, ReaderSafe, PTL

\* fdmax is the greatest watched descriptor, or -1 when none is: select is given
\* a range that covers the set, whichever descriptor update, notify_close or
\* notify_yield added or removed last (tcp.hpp 308-320, 378-395, 409-412).
THEOREM FdMaxIsExact == ~Shared /\ ListenFirst /\ MaxListen <= 1 /\ Spec => []FdMaxExact
<1>1. RInv => FdMaxExact
  <2> SUFFICES ASSUME RInv, \A t \in Thread : ~Listening(t)
               PROVE  fdmax = Max(set \cup {-1})
    BY DEF FdMaxExact
  <2>1. set \subseteq Fd /\ fdmax \in Fd \cup {-1}
    BY DEF RInv, SInv, IInv, TypeOK
  <2>2. (\A f \in set : f <= fdmax) /\ fdmax \in set \cup {-1}
    BY DEF RInv, FdMaxOk
  <2>3. fdmax \in Int /\ fdmax >= -1 /\ \A f \in set : f \in Int
    BY <2>1, BoundAssumption DEF Fd
  <2>4. \A y \in set \cup {-1} : fdmax >= y
    BY <2>2, <2>3
  <2>5. ASSUME NEW x \in set \cup {-1}, \A y \in set \cup {-1} : x >= y
        PROVE  x = fdmax
    <3>1. x \in Int /\ x >= fdmax /\ fdmax >= x
      BY <2>2, <2>3, <2>4, <2>5
    <3> QED BY <2>3, <3>1
  <2>6. Max(set \cup {-1}) \in set \cup {-1}
        /\ \A y \in set \cup {-1} : Max(set \cup {-1}) >= y
    BY <2>2, <2>4 DEF Max
  <2> QED BY <2>5, <2>6
<1> QED BY <1>1, ReaderSafe, PTL

\* A Handle that getNext returns and that is not a new connection has something
\* to read: between the select that reported it and the push nobody else took the
\* data (manager.hpp 467-476, tcp.hpp 304-325).
THEOREM ReadyIsReadable == ~Shared /\ ListenFirst /\ MaxListen <= 1 /\ Spec => []ReadyHasData
<1>1. RInv => ReadyHasData
  BY DEF RInv
<1> QED BY <1>1, ReaderSafe, PTL

=============================================================================
