# A TLA+ verification of MTCL

MTCL (Multi-Transport Communication Library) is a header-only C++ library.  An
application registers transports with the `Manager`, listens, connects, and
exchanges messages through `HandleUser` objects; a `Manager` thread polls the
transports and puts the handles that are ready to be read in a queue from which
the application takes them with `getNext`.  Collectives (teams) are built on the
same point-to-point handles.  This directory models the parts of the library in
which threads and processes interact, checks them with TLC and proves the most
important facts with TLAPS.

Everything refers to the multi-threaded build (`SINGLE_IO_THREAD` not defined).
Paths are relative to the root of the repository.

## 1. The system

| Part | State it keeps | Operations | Interacts with |
|---|---|---|---|
| `Manager` (`include/manager.hpp`) | `protocolsMap`, `handleReady`, `groupsReady`, `contexts`, `createdTeams`, `end` | `init`, `listen`, `connect`, `getNext`, `createTeam`, `finalize`; I/O thread `getReadyBackend`; `addinQ`, `connectionHandshake` | calls `update`/`connect`/`listen`/`end` of each transport; transports call back `addinQ` |
| `Handle` (`include/handle.hpp`) | `closed_rd`, `closed_wr`, `probed`, `counter` | `close`, `yield`, reference counting, `setAsClosed` | calls `notify_close`, `notify_yield` of its transport |
| `HandleUser` (`include/handleUser.hpp`) | `realHandle`, `isReadable`, `newConnection` | `send`, `probe`, `receive`, `yield`, `close`, destructor | held by the application and by `handleReady` |
| `ConnTcp`, `HandleTCP` (`include/protocols/tcp.hpp`) | `connections`, `set`, `tmpset`, `fdmax`, `listen_sck`, the mutex `shm` | `listen`, `update`, `connect`, `notify_close`, `notify_yield`, `end` | the kernel: sockets, `select` |
| `shmBuffer` (`include/protocols/shm_buffer.hpp`) | one slot of shared memory with `guard`, `size`, `data` and a spinlock | `put`, `get`, `tryget`, `getsize`, `trygetsize`, `peek` | another process |
| `ConnSHM`, `ConnMPI`, `ConnMQTT`, `ConnUCX` and their handles (`include/protocols/`) | `connections` with the flag `to_manage`, headers read ahead, endpoints | as for `ConnTcp` | `shmBuffer`, MPI, the MQTT broker, UCX |
| `CollectiveContext`, generic collectives (`include/collectives/collectiveImpl.hpp`) | the participants' handles, `probed`, the current participant | `send`, `receive`, `probe`, `sendrecv`, `peek`, `close` | `Handle`, the I/O thread (`poll`), `finalize` |
| MPI and UCC collectives (`mpiImpl.hpp`, `uccImpl.hpp`) | groups, counts and displacements | creation over the handles of the team, calls of the library | MPI, UCC |
| Proxy (`proxy/proxy.cpp`) | `id2handle`, `loc2connID`, `connID2loc`, `connid2proxy`, `proc2proc`, the links to other proxies | forwards messages, connection requests and EOS between pools | uses the library as an application |

What is hard in this code, and hard to test:

* a handle goes round between the set given to `select`, the ready queue and the
  application; each of `update`, `notify_yield`, `notify_close`, `getNext` and
  the destructor moves it, in different threads, and the kernel reuses its
  descriptor number at once;
* the two directions of a connection are closed separately and in any order, by
  the application, by a failed `probe` and by `finalize`, and the object deletes
  itself;
* `update` holds the lock neither in `select` nor between two descriptors;
  `listen` and a part of `notify_close` never take it;
* peers die, in the handshake, between messages or inside one;
* `shmBuffer` passes a message in several chunks through one slot, with a chunk
  count computed in floating point;
* `createTeam` of the root waits for connections that arrive in any order and on
  another thread, with one condition variable for all teams;
* the members of a team run ahead of each other over FIFOs with no round number
  in a message, and a message of size 0 is the end of the stream;
* the share of a member in a buffer is computed again in every collective, in
  loops and in closed form, at the root and at the members;
* the message-based transports read headers ahead, in `update`, in a non-blocking
  `probe` and in a yield, and must remember them through a change of owner;
* a proxy keeps a connection in five maps under an identifier made from the
  address of a `Handle`, which is reused, and forgets it when the second of two
  ends of stream, which may cross, has passed.

`PROJECT.json` lists these hazards at their lines, with the properties that
would catch them.

## 2. Modules

| Module | Models |
|---|---|
| `ConnTcp` | one process: the I/O thread in `ConnTcp::update`, the application threads in `Handle`, `HandleUser` and `Manager`, the descriptor table of the kernel, the peers |
| `ShmBuffer` | `shmBuffer`: writers in several processes, one reader |
| `OneSlotChannel` | what a shared-memory buffer promises: a channel of whole messages |
| `TeamCreation` | `Manager::createTeam` over the processes of an application |
| `Collectives` | a team at work: generic collectives, polling and end of a team, creation of MPI and UCC collectives |
| `TeamPartition` | how the collectives cut a buffer: the loops of the generic, MPI and UCC implementations |
| `Connectors` | one process with one of the transports SHM, MPI, MQTT, UCX |
| `Proxy` | two proxies, their clients and the components these name |
| `MC*` | instances for TLC (definitions of constants, symmetry) |
| `ConnTcp_proofs`, `ShmBuffer_proofs`, `TeamCreation_proofs`, `TeamPartition_proofs`, `Collectives_proofs`, `CollectivesRounds_proofs`, `Connectors_proofs`, `Proxy_proofs` | theorems |

How they fit together: `TeamCreation` ends where `Collectives` begins, with a
context and its handles; `Collectives` uses of a `Handle` what `ConnTcp` shows
of it; `Connectors` passes whole messages through a shared-memory slot, which
`ShmBuffer` implements; the handshakes of `Proxy` are those of
`Manager::connect` and `createTeam`.

### ConnTcp

The variables are the fields of the classes under their own names (`set`,
`tmpset`, `fdmax`, `listen_sck`, `connections`, `handleReady`, `groupsReady`,
`end`), the kernel (`open`, `lsn`, `sock`, `backlog`, `inbox`), the objects
(`hd`, `user`) and the threads (`io`, `th`: program counter and locals).  `out`
records what this side wrote to end a stream.

A step ends where another thread can interleave: at the mutex `shm`, at `select`,
and between the unlocked accesses to a handle.  `update` is
`IoTop` (copy of the set under the lock), `IoSelect`, `IoLoopReady`/`IoAccept`
(the loop reaches a descriptor), `IoNewConnection` and `IoHandshake` (from
`ulock.lock()` to `unlock()` around `addinQ(true, ...)`; the lock is held while
the peer's handshake is awaited) and `IoReady` (the locked part for a readable
connection).  `Handle::close` is `StartClose` (EOS and the flags), `NotifyClose`
(`notify_close` up to its lock), `NotifyErase` (the locked part) and
`NotifyFdClose`.  `yield` and the destructor are `Yield`/`Drop`, `NotifyYield`
and `DropRelease`.  `listen` is the unlocked sequence `Listen`, `ListenZero`,
`ListenSet`, `ListenMax`.  `finalize` is `Finalize`, `FinalizeJoin`, then
`SetAsClosed` for each connection with the discarding loop `Drain`.

Of a message the model keeps that `probe` reads its header and `receive` its
payload; of the handshake, that it is one item for point-to-point connections
and two for collectives.  End of file and `ECONNRESET` are items that stay.  A
blocking `probe` on an empty stream is an action that is not enabled; a
non-blocking one that finds nothing changes nothing.  What this side sends,
other than EOS and FIN, is not followed.

The flags say how the application uses the library: `ListenFirst` (it listens
before the first connection, as the configuration file makes it do), `Shared`
(two threads may be inside operations of one `Handle`, as when one of them
writes to a connection whose reads another one gets from `getNext`).  Passing
runs have `ListenFirst` and not `Shared`; the run `shared_close` lifts `Shared`.
In all runs the application yields a `HandleUser` only while it may read from
it.

### ShmBuffer

`seg` is the segment, `w` and `r` the locals of `put` and `get`, `sent` and
`rcvd` history.  The code holds the spinlock from the test of `guard` to its
change, so `PutChunk`, `StartGet` and `GetChunk` are one step each; the busy
waits are their guards.  Contents are not modelled: a chunk is known by the
message it belongs to and its offset, which tells apart lost, repeated, swapped
and mixed chunks.  `NMsgs` is the conversion in the code: the size rounded to
the nearest float with a significand of `Mantissa` bits (division by the slot,
a power of two, is exact), then rounded up.

### TeamCreation

A team is known by its ID, a `Handle` by the process at its other end.
`Program` gives the calls of `createTeam` each thread makes.  `Enter` and
`Insert` are separate because nothing locks `createdTeams`.  The root's wait is
`Wait` (the predicate, under `group_mutex`), `asleep` and `Wake`; the I/O thread
of the root is `AddGroup`, which notifies one sleeping thread.  With `Failures`
a connection may fail or its handshake may be lost unnoticed.  `Misconfigured`
stands for all the error returns of lines 702-759.  `Install` has no error
return of its own: `setImplementation` (line 871) fails only for an
implementation that was not compiled in, which lines 739-752 have refused (the
macros they test are set together, `mtcl.hpp:5-20`), and `createContext` returns
a context for every type of a team.

### TeamPartition

The state is one call: which of the twelve loops (`cutter`), the team with the
rank of its root, the process that looks at the result (`rank`), the element count
and size, the part the loop has reached (`i`), its running remainder and
displacements, and what it has stored for each part.  Ranks are places in the
participants string.  The generic and MPI loops serve the root first, then the
others in the order of the string, so part k belongs to the process with
`GroupRank` k; the UCC loops go by rank (`Entry`).  `Cut` is one pass of the
loop, common to all; each loop has an action that gives `Cut` its own formulas
for the chunk and the remainder.  `GATHER_THRESHOLD_MSG_SIZE` and the two branches
of `GatherMPI` are kept.  The tests of buffer sizes that come before the loops are
in `Collectives` (`Refused`).  Sizes are below 2^31.

`MemberAgrees` compares what the root cuts for a process with what the process
itself decides, which the generic Gather, AllGather and Alltoall do by rank
(`collectiveImpl.hpp:570`) although the root counts root-first (`:552`).  The
property says exactly when the two agree: unless the remainder is not zero, the
root's place is behind it, and the process is the root or the last one before the
boundary (`Shifted`).

### Collectives

Slot 0 is the root and slot k the owner of the root's k-th handle; `RankOf` is
the rank `createTeam` gave it.  Each connection has two handles with a FIFO of
messages on the way, the flags of `Handle` and the `probed` size.  The data of a
message is a sequence of pieces (whose bytes, of which call, from where), which
tells lost, repeated, mixed and misplaced parts apart.

A `sendrecv` is one action for each message it sends or receives, since the
other processes run in between: `Spread` (the root's loop of sends), `Collect`
(its loop of receives), `LeafSends`, `LeafReceives`, and, for each collective,
an action for the root and one for the members that put them together in the
order of the code (`AllGatherRoot` is `Collect` then `Spread`).  `FanInProbe`
includes the choice of the next participant and its removal at the end of its
stream, `FanOutProbe` the closing of the handle.  `YieldTeam`, `PollTeam` and
`GetNextTeam` are the way of a context through the I/O thread, `CloseTeam` the
`close` of each collective, `FinalizeHandle` the wait of `finalize(true)`.
`MPICreateRoot`/`Leaf` and `OobRoot`/`Leaf` are the exchanges that create the
MPI and UCC collectives.

The handles are those of TCP.  Applications follow the repository's tests: one
side makes its calls and closes, the other calls until the end of the stream,
with buffers of the size `getTeamPartitionSize` announces.  There may be fewer
elements than processes; an empty part is a message of size 0, which its receiver
takes for the end of the stream.  With `Crashes` a member may die at any step.  Which implementation `setImplementation` chooses
is left out.

### Connectors

The four connectors have one shape (a table with `to_manage`, `update`,
`notify_yield`, `notify_close`, `end`), so they share the variables, and
`transport`, fixed by `Init`, says which one the process uses.  What differs is
an action or operator for each, named for it: `AcceptSHM`, `AcceptMPI`,
`AcceptMQTT`/`AckMQTT`, `AcceptUCX`, `Scan...` (the loop of `update` over
`connections`, `PollUCX` apart from `ScanUCX` because the lock is released
between them), `Probe...`, `Yield...`, `NotifyClose...`, `Connect...`, `End...`.
`io` is the I/O thread inside `update`.  A handle keeps what was read ahead
(`probed`, `header`, `is_probed`), whether its UCX endpoint is open (`ep`) and
what became of the EOS it owes its peer (`eos`: `"late"` when the endpoint was
closed already); a payload read as a header, or the reverse, becomes `"garbage"`.

Libraries deliver in order.  Peers run the same code, do not die, send what the
handshake needs, and read what this process sends, so that its sends return.  The
ready queue holds at most `MaxReady` copies of a handle, which bounds what ConnSHM
adds.

### Proxy

A handle of a proxy is known by an address, reused once the object is deleted,
and by the end it is connected to.  The five maps have their names.  Each step
is one turn of the event loop, for one message: from another proxy (`NewProxy`,
`ConnFromProxy`, `FwdFromProxy`, `EosFromProxy`), from a new client
(`DropClient`, `RefuseClient`, `OneHop`, `TwoHops`) or from a connected end
(`ForwardData`, `EndTwoHops`, `EndOneHop`, `EndUnknown`).  A proxy is built with
`ISPROXY`, so its own `Manager::connect` sends no handshake.  The hash that
makes identifiers has no collisions; the proxy a client enters by is an input,
since it is whatever answers at `proxyIp`; nobody dies.

## 3. Model checking

All runs finish with the whole state space explored.

| Run | Specification and instance | Shows |
|---|---|---|
| `crash` | `ConnTcp!Spec`, 2 handles, 1 place, 2 descriptors, peers that die, both kinds of `finalize` | `TypeOK`, `NoDangling`, `TableConsistent`, `EosThenFin`, `CloseOwnFd` |
| `threads` | `ConnTcp!Spec`, 2 handles, 2 places for a HandleUser, 2 threads, 3 descriptors, 1 message each | `UniqueReader`, `RefCountExact`, `ReadyHasData`, `NoStaleSelect`, `FdMaxExact` |
| `live` | `ConnTcp!ClosingSpec`, 2 handles, 3 descriptors, both kinds of `finalize` | `Delivered`, `Accepted`, `FinalizeReturns` |
| `fifo` | `ShmBuffer!FairSpec`, 1 writer, 3 messages, six sizes: 0, 1, one slot, one slot and a byte, a byte less than three slots, four slots | `TypeOK`, `Intact`, `NoOverrun`, `ImplementsChannel`, `AllReceived` |
| `teams` | `TeamCreation!FairSpec`, 3 processes, 3 teams with different roots, one of them misconfigured, connections that fail, repeated calls | `TypeOK`, `GroupComplete`, `CompleteTeamCreated` |
| `cuts` | `TeamPartition!Spec`, teams of 1 to 5 with the root at any place, up to 11 elements of 1 or 3 bytes, all twelve loops | `TypeOK`, `CutIsShare`, `Tiling`, `MemberAgrees` |
| `rounds` | `Collectives!FairSpec`, 3 processes, 9 kinds of exchange, the root at any place, 1 to 5 elements, 2 calls, members that die | `TypeOK`, `RoundIntact`, `NoSpuriousEnd`, `TeamEndComplete`, `DeletedUnused`, `AllFinalize` |
| `handoff` | `Connectors!FairSpec`, 4 transports, an accepted connection and one the application makes, 1 message each, both kinds of `finalize` | `TypeOK`, `SingleOwner`, `StreamIntact`, `FinalizeTells`, `Reported` |
| `hops` | `Proxy!FairSpec`, 2 proxies, 2 clients; one always asks for a component of the other pool, the other for every kind of destination, from either side | `TypeOK`, `EndToEnd`, `TablesAgree`, `Concluded` |

Each run takes between a few seconds and a few minutes with two workers.

Bounds.  Two connections and fewer descriptors than sockets are enough for a
number to be reused while an older use of it is still in some thread's locals,
which is what the table, the set and `fdmax` have to survive; with one
listening socket and `MaxFd = 1` the second connection always reuses the number
of the first or runs out of descriptors.  One message for each peer gives the
states before the header, between header and payload, and before EOS.  Three
messages of four chunks let a chunk of a message meet those of its predecessor
and its successor.  Two teams with different roots are the smallest case in
which a process is root and participant.  Teams of five and eleven elements give
every relation of element count and team size that the loops tell apart: fewer
elements than processes, a remainder of 0, of 1, of all but one.  Two members
beside the root, and two rounds, let one member be a call ahead of the other, and
let messages of three calls be on the way; one to five elements give empty parts,
an even cut and both remainders.  In `handoff` connections do not touch each
other except through the queue, the lock and the I/O thread, for which two are
enough; a message has a header and a payload, so that every place between them can
be interrupted, and `finalize` can come at each of them.  In `hops` the second client's
connection meets the first one's at each stage of its life, on the same and on
the opposite way through the link, at the address the first has left.

Symmetry of handles, places and threads is used in `crash` and `threads`,
which check safety properties only.

Fairness.  `FairSpec` of `ConnTcp`: the I/O thread and a thread inside a call
keep running, as the scheduler grants; a peer that has connected sends its
handshake, which `Manager::connect` and `createTeam` do without waiting for
anything.  `ClosingSpec` adds that peers end their streams; this is the
application's, and `finalize(true)` is documented to wait for it.  Calls the
application may or may not make have no fairness.  `ShmBuffer`: the processes
run, and the reader goes on to `get` after a probe.  `TeamCreation`: threads run
and the I/O thread reads what arrived; a spurious wakeup is possible and never
certain.  `Collectives`: each process goes on with its calls, and its I/O thread
with its polls; dying has no fairness.  `Connectors`: the I/O thread, the
end of a `yield` and the loop of `finalize` go on; a peer that has connected sends
its handshake, and the payload after a header, which are one call in the code.
While this process is in `finalize`, peers end their streams (`finalize(true)`,
and ConnMPI always, wait for that).  What the application calls otherwise has no
fairness.  `Proxy`: one condition for
the two event loops and for the applications' closing is enough because no
behaviour is infinite; the run has no deadlock check for the same reason.

### Disagreements between the code and what it says

Each of these runs checks one property and TLC violates it.

| Run | What happens |
|---|---|
| `shared_close` | a `probe` that reads EOS in one thread and a `close` in another both close the descriptor (`tcp.hpp:366`), the second after it was reused |
| `wakeup` | `notify_one` wakes the root thread of another team (`manager.hpp:191`) |
| `poll_once` | a message that arrives between the probe of ConnUCX's `notify_yield` and the moment the handle is managed, and is polled there, is never reported (`ucx.hpp:669`) |

### Known limits the properties exclude

The properties of the passing runs carry conditions, and the instances choices,
that leave out cases in which the code does not do what they say.  Each can be
reproduced by lifting what is named.

* `listen` empties the set of watched descriptors (`tcp.hpp:243`): with
  `ListenFirst = FALSE`, `UniqueReader` fails for a handle yielded before.
* `finalize(true)` spins when a stream ends without EOS (`handle.hpp:187`): with
  `Crashes = TRUE`, `FinalizeReturns` fails; `AllFinalize` says "unless a peer
  dies".
* A message of 2^24 + 1 bytes is got without its last chunk
  (`shm_buffer.hpp:180`): add the size to `Sizes`, and `Intact` fails.
* A `createTeam` that failed after `manager.hpp:681` cannot be repeated: the team
  is refused as already created.
* When the root is not the first of the participants string, the collectives that
  cut a buffer refuse calls or misplace parts, and the assertion at
  `mpiImpl.hpp:83` fails (`InRankOrder` in `RoundIntact`, `NoSpuriousEnd`,
  `DeletedUnused`).  `MemberAgrees` says at which ranks the sizes differ.
* A buffer with fewer elements than processes has empty parts, and an empty part is
  a message of size 0 (`collectiveImpl.hpp:304`), which its receiver takes for the
  end of the stream (`:71`) and closes its side.  `NoSpuriousEnd` allows the end to
  be reported there, and only there; the members of an AllGather or Alltoall then
  report success with data missing and go on with a handle that may be deleted, so
  `RoundIntact` and `DeletedUnused` leave out these two with such buffers.
* `HandleTCP::peek` turns -1 into true (`tcp.hpp:129`): the I/O thread reports a
  team none of whose members sent anything.
* The members of an AllGather or Alltoall return success when the root gave up
  (`collectiveImpl.hpp:717`, `851`); excluded from `RoundIntact` after a crash.
* `probe` of a fan-out uses the handle after the `close` that may delete it
  (`collectiveImpl.hpp:431-445`); excluded from `DeletedUnused`.
* ConnSHM queues a managed handle at every update (`shm.hpp:131-139`); excluded
  from `SingleOwner`.  ConnUCX may report a handle that has nothing left to read,
  and is excluded from `Reported` because of `poll_once`.
* `end` of ConnMQTT closes only the handles the runtime manages (`mqtt.hpp:384`);
  `FinalizeTells` is stated for those.
* A handle whose read side is closed is no longer in `connections`, so `end` of no
  connector ends its other direction: the peer waits for the application to close.
  `FinalizeTells` is about handles that are open for reading.
* ConnUCX closes the endpoint with the read side, when the peer's EOS is probed,
  also while the handle is open for writing (`ucx.hpp:691-694`).  What the
  application sends afterwards, and the EOS of its `close` (`handle.hpp:145`,
  `ucx.hpp:172`), goes to a closed endpoint (`eos = "late"` in the model).
* The decrement of the reference counter and the test that deletes the Handle
  (`handle.hpp:117-122`) are one step (`Release`, `Reap`).  With one thread at a
  time on a Handle nothing can come between them; the double deletion by two
  threads that both find zero is outside the model.
* `HandleMQTT::peek` takes a header out of the client and does not keep it
  (`mqtt.hpp:129-133`).  It is called for the handles of collectives, which in
  `Collectives` are those of TCP, and is not modelled.
* A client of `Manager::connect` sends the int before the destination, the proxy
  reads the destination first (`proxy.cpp:317`): its connection is dropped.
  `Concluded` is about members of teams (`Routable`).
* A finished one-hop connection leaves entries in the maps of its proxy
  (`proxy.cpp:451-461`); what `Concluded` says of the maps is about two hops.

## 4. Proofs

### ConnTcp_proofs: types

For any number of handles, threads, descriptors and messages and for both values
of every mode (`Shared`, `Crashes`, `ListenFirst`): `TypeCorrect`.  The types
are not inductive alone, because the code keeps descriptors and handles in
locals across its locks.  `IoInv` says that between `accept` and the end of the
handshake the I/O thread has a descriptor and a Handle, and that it stops only
at a descriptor; `ThInv` says the same of a thread inside `connect`, `close`,
`yield` or the destructor, and that `listen_sck` is a descriptor while `listen`
is under way.  The lemmas about `Min` and `Max` (that the scans for the lowest
free and the greatest watched descriptor end at a member of their set) rest on
the well-foundedness of the natural numbers.  No assumption goes beyond those
on the constants.

### ConnTcp_proofs: safety

For any number of handles, threads, descriptors and messages, with peers that
die and `finalize` at any moment, when a Handle is used by one thread at a time
(`~Shared`; the run `shared_close` shows what happens otherwise) and the
application has finitely many places for a HandleUser: `TableIsConsistent`,
`RefCountIsExact`, `NothingDangles`, `EosComesFirst` and `ClosesOwnFd`.  They
share the inductive invariant `SInv`.  Each property speaks of one table or one
counter; what makes it last is what the others say of the objects in between:

* `HandleOk` follows a Handle from the backlog to its deletion.  It has its
  descriptor until both directions are closed, and the socket of that descriptor
  is its own (`FdOk`); it is in the table while it is open for reading, and
  beyond that only while a close is about to remove it (`TableOk`); what was
  written to end the stream is what the flags say, up to the FIN that a close
  has yet to send (`OutOk`).  So no number can be reused while anybody still
  knows it under its old meaning.
* `CallOk`, `EndOk`: what a thread read before a lock still holds after it (the
  flags in `Handle::close`, the descriptor in `notify_close`), because
  `OneInv`, no other thread is inside a call on this Handle or this HandleUser,
  and because `finalize` works only on handles nobody is closing, after the I/O
  thread has stopped (`EndInv`).
* `CountInv`: the counter is the number of HandleUser objects, so a Handle with
  count 0 is with nobody; `NoDangling` is this and `TableOk`.

### ConnTcp_proofs: readers

Under two more conditions on the application, the ones `threads` is checked
with: `ListenFirst` (no connection before `listen` has returned) and
`MaxListen <= 1`.  Both are needed.  `listen` takes no lock and clears the whole
set (`FD_ZERO`), so a second `listen`, or one beside a connection, loses watched
connections.  Under them: `ReaderIsUnique`, `SelectIsNotStale`, `FdMaxIsExact`
and `ReadyIsReadable`.  The inductive invariant `RInv` adds to `SInv`:

* `PlaceOk`, `LiveOk`: a Handle is in one of the places `UniqueReader` names,
  and in none while it is with the I/O thread; `TransitOk` gives the thread that
  takes it to `notify_yield` its descriptor, and says that the HandleUser it
  comes from may not read any more;
* `SetOk`, `FdMaxOk`: what is watched is the listening socket or the socket of a
  Handle in the table, open for reading, and `fdmax` bounds it and is in it;
* `LoopOk`: what `select` reported and the loop has yet to visit is still
  watched and still readable.  It holds because only the reader of a Handle
  reads from it, closes its read side or takes it out of the set, and a watched
  Handle has no other reader than the loop; this is why the four properties are
  proved together;
* `FreshOk`: nobody has read from a connection before its handshake, so what
  `connectionHandshake` finds are the items of the handshake, in order;
* `EndpointInv`, `ListenOk`: the phase in which `listen` works on the set.

### ShmBuffer_proofs

For every slot size, significand, set of sizes and set of writers, under two
assumptions: `Exact` (for the sizes in use `NMsgs` is the number of chunks;
`ShortIsExact` proves it for all sizes below 2^Mantissa) and `NoMixing` (there
is one writer, or messages fit in one chunk: nothing in the code keeps the
chunks of two processes apart).  The inductive invariant `IInv` relates the
three places a message is in: while a put is under way the writer's message is
the last of `sent` and the slot holds its previous chunk or nothing (`SegInv`,
`WriterInv`), the reader has copied exactly the chunks before that one and
waits for as many as are left (`ReaderInv`), and every message before is
complete in `rcvd` (`RcvdInv`).  From it follow `TypeCorrect`, `IntactHolds`,
`NoOverrunHolds` and `Refinement`, that the buffer implements `OneSlotChannel`.

### TeamCreation_proofs

For all processes, threads, teams, programs and failures: `TypeCorrect` and
`GroupCompleteHolds`.  The invariant: what has arrived or is ready at the root
comes from participants that called `createTeam` (`Connected`); a thread inside
the call is at a position its role allows and, past the wait, has the handles
(`InCall`, `Installed`).  The key lemma, `FullIsAll`, is that a set of
participants with as many elements as there are participants is all of them;
`createTeam` compares nothing but the count.

### TeamPartition_proofs

For every set of team sizes, element counts, element sizes and every threshold,
the only assumption being `SizesAssumption` on the constants: `TypeCorrect`,
`CutsAreShares`, `PartsTile` and `MembersAgree`.  `CutIsShare` speaks of one pass
of a loop whose remainder was counted down by the passes before, so the
invariant `LoopInv` gives every local of the loop in closed form: the remainder
after i passes is the remainder of the division less i, or zero; the
displacement is `Lead(i)`, i whole shares and the lesser of i and the remainder;
the stored counts and displacements are those of the ranks below i.  The loops
differ only in the formula for the chunk, and a lemma for each says that it is
the share of index i; the rest of the proof is common.  `MembersAgree` compares
two indices of one process, its rank and its place in the root-first order:
`ShiftedSides` shows that they lie on different sides of the remainder exactly
when `Shifted` holds, and then the two parts differ by one element.

### Collectives_proofs, CollectivesRounds_proofs

For any number of processes and calls, any place of the root and any buffer,
with members that die: `CollectivesTypeCorrect` (in the first module, with the
lemmas about each operation) and, in the second, from the inductive invariant
`CInv` (`CollectivesInvariant`), `CollectivesRoundIntact`,
`CollectivesNoSpuriousEnd`, `CollectivesTeamEndComplete` and
`CollectivesDeletedUnused`.  Besides `TeamAssumption` there is one hypothesis,
written in three of the theorems: `EveryPart`, a buffer that is cut has an
element for every process.  The code needs it: an empty part is a message of
size 0, which is the end of the stream.  What the properties say of empty parts
is left to the run `rounds`.  A Broadcast, the fans and the creation
of the MPI and UCC collectives cut nothing and do not depend on it;
`TeamEndComplete` is proved without it.

`CInv` is `TInv`, the types, and `SInv`, what is on the way.

* `TInv`: which positions a process of each kind may be at (`PcTy`), what the
  root has in its buffer at each of them (`BufTy`), that what a fan-in probed is
  still there when it is received (`GotTy`), and that a handle is open until both
  directions are closed (`HandleTy`).
* `SInv` numbers the messages of a connection.  `Sent` and `Got` give, in closed
  form from the position of a process, its call and the index of its loop, how
  many messages it has sent into an end and taken from it, and `Data(e, i)` is
  what the i-th message of a stream has to carry.  `StreamOk`: the FIFO of an end
  holds messages `Got + 1` to `Sent` of its feed, then `EOS` if the peer has
  closed.  A message received is therefore that of the receiver's own call,
  however far ahead the sender is.  A fan-out deals in turn, so there `Sent` is
  the quotient `Dealt`; a fan-in counts what it has received from each member.
* `BufOk`: what the root has collected so far is what each member passed to this
  call, at its place; `ProcOk`: what a call returned is `Expected`; `PartsOk`:
  the participants a fan-in still listens to are those whose stream has not
  ended, each once.
* `CloseOk`, `EndOk`, `FanOk`: when nobody has died, who stops reading has seen
  the end of the stream, which its peer sends only after its last call.  `Quiet`,
  that only the last message of a FIFO is empty, is what keeps a message of the
  collective from being taken for it.

The invariant speaks of the runs the properties speak of (`Sound`): nothing is
cut unless the root is first, and nobody has died in an AllGather or Alltoall,
whose members report success after the root gave up.  Sizes and offsets are sums
over sets (`MapThenSumSet`) and closing a team folds over its ends; what they
compute is proved by induction on the number of elements, through the
well-foundedness of the natural numbers.

### Connectors_proofs

For each of the four transports, any number of connections and of messages, and
`finalize` at any moment: `ConnectorsTypeCorrect`, `OneOwner` and `StreamsIntact`,
from `ConnectorAssumption` alone.  The inductive invariant `CInv` has three parts,
besides the types:

* `PlaceOk`: a handle is nobody's before its handshake and in the table until
  its read side is closed; in between it has one owner.  `Copies` counts
  positions in a sequence that `SetToSeq` extends in an arbitrary order, so the
  lemmas about `At` (what appending, taking the head and queueing a set of
  handles do to the positions of one of them) come first.  ConnSHM is left out
  of the count, as in `SingleOwner`.
* `StreamOk`: a stream alternates headers and payloads (`Aligned`).  It begins
  with a payload exactly when the handle remembers a header whose payload it has
  not read (`Awaited`), and ends with a header exactly when the peer has yet to
  send the payload (`Owed`); so what is read next is what the handle expects.
  `HeaderOk` is what differs between the connectors: MQTT remembers a header in
  one of two places and `is_probed` says that it does, and a handle that is
  given back to the runtime has none, which is why `YieldMQTT` queues a probed
  handle; UCX may have a header the application has not asked for.
* `IoOk`, `ShakeOk`, `EndOk`, `EpOk`: the handle the I/O thread is about to hand
  over is in the phase the thread left it in, `end` closes only handles that are
  connected, and an endpoint is closed only with the read side, so that a second
  `notify_close`, which returns at once, leaves nothing in the table.

### Proxy_proofs

For any number of clients, requests, components and messages, whatever address a
new Handle gets: `ProxyTypeCorrect` and `TablesAlwaysAgree`, from
`ProxyAssumption`, of which the finiteness of `Clients` (finitely many
connections are ever opened) is used only for the bound on the addresses.  What
the tables of one proxy say depends on the messages the other has yet to read,
so the inductive invariant `PInv` speaks of both proxies and the link:

* `LocalOk`, of one proxy: an address in a map is that of a living Handle that
  is not closed in both directions (`Handles`), `loc2connID` and `connID2loc`
  are inverses and an identifier made here has the address of its Handle in it
  (`Remote`), `proc2proc` is symmetric until one of the two streams has ended
  (`Paired`).  A Handle receives only messages of its own end, and nothing after
  the end of the stream (`Clean`).
* `Cross`, of one identifier: how far the two proxies are in opening and closing
  the connection, and which `CONN` and `EOS` about it are on the links.  An
  address is free as soon as its Handle is deleted, so the same identifier may
  be announced again while the other proxy still knows its old meaning; `Cross`
  says that an `EOS` is then ahead of the `CONN`, which makes the other proxy
  forget it first.  The code relies on this without saying so: `insert` at the
  second proxy (`proxy.cpp:280`) would silently keep the old entry.
* `StageOk`, of one client: it is new at one proxy, or asked for on one link, or
  connected to its component, and never two of these, so no end is joined to two
  Handles.
* `CountOk`: the addresses in use are counted by the connections that were
  opened, which bounds `top`.

Model-checked only: liveness, `FinalizeTells` of `Connectors` included, which this
prover cannot reach; what the properties of `Collectives` say of empty parts; `EndToEnd` of
`Proxy`, which needs the contents of both queues and the link related message by
message.

## 5. Plan

`Proxy`: `EndToEnd`, on top of `PInv`.

## 6. Not modelled

* Configuration: parsing, addresses, the choice among several transports and
  implementations; sequential, and without state that changes later.  The second
  proxy branch of `connectHandle` (`manager.hpp:587`) cannot be reached.
* The single-threaded build, whose `update` runs inside `getNext`: the same code
  without locks.
* The libraries: MPI, UCX, UCC, the MQTT broker and its client, and the
  reconnection after a lost broker; they appear as FIFOs and polls, marked
  external.
* `ConnMPIP2P` and the helper that stops its accept (`stop_accept.cpp`).  The class
  cannot be instantiated: `connect(const std::string&)` (`mpip2p.hpp:272`) does not
  override the pure virtual `connect` of `protocolInterface.hpp:49`.
* The names of shared-memory segments, which are reused after
  `SHM_MAX_CONCURRENT_CONN` connections; creating, opening and unlinking them.
* Teams of one participant: their `createTeam` waits for ever
  (`manager.hpp:797`).
* Overflow of the `int` counts of the MPI and UCC collectives.
* Deaths of a proxy or of what it connects (with the uninitialised size at
  `proxy.cpp:432-436`); a `CONN` that fails at the second proxy is not reported
  to the first (`proxy.cpp:296`, a TODO there).
* Socket options, memory allocation, `errno` values other than those the code
  branches on; `send` of ConnTcp, whose only state is the peer's stream; move
  assignment of `HandleUser`.
