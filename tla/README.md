# Verification of ServerPluginCore

TLA+ models of ServerPluginCore, a plugin for the MetaTrader 4 server. The
plugin hooks the host's trading events, keeps a pool of TCP connections to a
back-end server, and opens trades through the host's dealing desk. The
repository also holds the socket library it is built on (`src/IOCP`): a socket
client with its own thread, an I/O-completion-port server and a thread pool.
The plugin itself uses the client; the server, its two protocols and the thread
pool are library classes that nothing in the plugin instantiates yet, so they
are modelled against any caller that respects their interface.

Contents: 1 inventory, 2 modules and how they follow the code, 3 runs, 4 bounds
and fairness, 5 proofs, 6 findings, 7 what is not modelled, 8 plan.

## 1. Inventory

| Component | State | Operations | Threads that meet in it |
|---|---|---|---|
| Connection pool and polling threads (`SocketConnectionPool`, `CProcessor::setupSocket/ThreadProcess/FuncProcess`, `MyIOCP`) | queue of connections, `current_size`, server/port/key, `m_heart_count` of each connection | `initPool`, `DestoryConnPool`, `setParams`, `GetConnection`, `ReleaseConnection`, `checkConnection`, `reNewPool` | check thread (5 s), function thread (1 s), host thread (configuration edits), the client thread of every connection |
| Dealing desk (`CProcessor`) | `requestsMadeByCode`, the lock `m_ContextLock` | `askLPtoOpenTrade`, `SrvDealerConfirm` and its detached thread, `OrdersOpen` | any host thread, one detached thread per confirmation, both polling threads (same lock) |
| Socket clients (`CTextIOCPClient`, `PackageIOCPClient`) | socket, `m_bIsConnected`, send queue, text or package being sent, receive buffer | `Connect`, `Send`, the select loop, destructor | owner, client thread, network |
| Thread pool (`CThreadPool`) | `m_functionList`, per thread `bFree` and an event, shutdown event | `Run`, `_ThreadProc`, `GetThreadProc`, `BusyNotify`, `FinishNotify`, `Destroy` | callers, pool threads, destroyer |
| IOCP server (`CBaseIOCPServer`) | contexts with `m_NumberOfPendingIO`, socket, send buffers; accept operations; connection count | `WorkerThread` and its handlers, `Send`, `CloseClient`, `Startup`, `Shutdown` | workers, senders, the thread that shuts down, clients |
| Text and package servers (`CTextIOCPServer`, `PackageIOCP`) | a map from client to receive buffer with a lock of its own; the text server counts references to a buffer | `NotifyNewConnection`, `NotifyReceivedPackage`, `NotifyDisconnectedClient` | workers, and the threads that close clients in `Send` or `Shutdown` |
| Context table (`table.c`) | hash chains | insert, find, erase, clear, enumerate | under `m_ContextLock`; the callback of an enumeration |
| Buffers (`CIOCPBuffer`, `IOCPBufferMngr`, `IOCPMemPool`) | data with a reference count that copies share; a pool; the manager, made when first used | construct, copy, assign, append, delete; take from the pool, give back | every thread of the library |
| Configuration (`CConfiguration`, `CProcessor::Initialize`) | sorted array of settings, file, the members the settings are copied to | `Load`, `Add`, `Set`, `Get*`, `Next`, `Delete`, `Save` | host threads; the server process may die |
| `threadpool` in `executePool.h`, `TaskManagement`, `TradeTask`, `Utils`, `md5` | - | - | never instantiated, empty, or pure |
| `nlohmann`, `spdlog` | - | - | third party |

How they interact. The host creates and edits the configuration; every edit
runs `Initialize`, which reads the settings back and calls `setupSocket`, which
(re)fills the pool. The pool creates, deletes and lends
`MyIOCP` objects, each a `CTextIOCPClient` with a thread that changes
`m_bIsConnected` and zeroes `m_heart_count` without the pool's lock. The host's
trade hook calls `askLPtoOpenTrade`, which queues a request with the host; the
host calls back `SrvDealerConfirm`. In the library, the server's workers call
the virtual `Notify...` functions of the two protocol servers, which may call
`Send` and `CloseClient` back.

What is hard in it:

- the pool's counter and its queue are read and changed in separate critical
  sections, by threads some of which hold another lock and some do not;
- statuses and heartbeat counters move under nobody's lock;
- a confirmation can arrive before the call that made the request has returned;
- wake-ups split over two critical sections (`Run`) and a reset decided in a
  third (`FinishNotify`);
- reference counts handed from a posted operation to the worker that takes its
  completion, with failures after the count was taken;
- decisions taken on a field read after the unlock (`OnClientIoWrite`), or on a
  select made before the lock;
- shutdown and destruction while everything is still running;
- callbacks that close the client they are called for, and disconnects that
  another thread reports meanwhile, under other locks;
- data shared by copies of a buffer in several threads, from a pool whose manager
  the first user makes without a lock;
- a stream the network cuts anywhere;
- a file rewritten line by line from a table several hooks edit, a read that
  adds an entry, and a server that may die in between.

What makes each component correct: every connection has one owner and their
number stays within the cap; a plugin request is always found when it is
confirmed and opens the deal that was queued; texts and packages pass whole,
once and in order, and the status of a client only moves as its users assume; no job is
lost or run twice; reference counts balance, nothing is used after it is
deleted, the connection limit holds, and what is closed is deleted; the
callbacks come in an order the protocol servers can rely on, and their buffers
go with the client; the data of a buffer is in one place at a time; the plugin
enters no setting twice, edits reach the file, and a restart finds one table.
`PROJECT.json` lists the hazards line by line with the properties aimed at them.

## 2. Modules

| Module | Models | Extends / instantiates |
|---|---|---|
| `ConnectionPool` | the pool, the three threads that use it, each connection's status | `SequencesExt` |
| `ConnectionStatus` | abstract: how the status of one connection may change | - |
| `TextClient` | what the two clients share, and the receiving of `CTextIOCPClient`: owner, client thread, network | `ConnectionStatus` by a refinement mapping |
| `SocketClients` | `PackageIOCPClient`'s receiving, and the specification of both clients | `TextClient` |
| `DealerRequests` | the dealing desk, the host's request queue, the lock | - |
| `ThreadPool` | `CThreadPool` | - |
| `ServerCallbacks` | abstract: which callbacks the server makes for a client, in which order | - |
| `IocpServer` | `CBaseIOCPServer` | `ServerCallbacks` by a refinement mapping |
| `ProtocolServer` | `CTextIOCPServer` and `PackageIOCP` on top of the server | `IocpServer` |
| `Configuration` | `CConfiguration`, its file, `CProcessor::Initialize`, crashes of the host | `Functions` |
| `Buffers` | `CIOCPBuffer`, `IOCPBufferMngr`, `IOCPMemPool` | - |
| `MC...` | values and symmetry for TLC | the module named |
| `..._proofs` | theorems and proofs | the module named, `TLAPS` |

Conventions. A variable has the name of the field it stands for; `pc`, `at` and
`owner` are positions in a function. A critical section is one action, and so
is every unlocked step between two of them that another thread could observe.
Locks that are held over several actions are variables (`procLock`) or follow
from the position (`Locked` in `TextClient`). The operators marked `mutant` are
small faults of the definition below them; no specification uses them. They
record, for each property, a bug that would break it.

**ConnectionPool.** `params`, `pool` and `current_size` are the fields of
`SocketConnectionPool`; `conn` gives, for each object, the settings it was
created with, its status, `m_heart_count` and whether a request is unanswered.
The check thread goes `Lock`, `CheckGet`, `CheckDrop` or `CheckCount`,
`CheckBeat`, `CheckAsk`, `CheckRelease`, `RenewSize`, `Renew`, `Unlock`:
`m_heart_count++` is two actions because `Answered` may come between, and
`RenewSize` is separate because the size is read outside the lock. The function
thread borrows and returns. The host runs `SetupSocket` ... `FillPool` and does
not take `procLock`. `GetConnection` is the disjunction of its four outcomes.
One host thread at a time is in `setupSocket`. `Configuration` lets several
hooks reach it at once; they would then assign the same `std::string` members
without a lock, which is undefined behaviour no model could follow. `Blank`
stands for any incomplete settings; a connection made with them may connect, for
it does not need the key.

**TextClient, SocketClients and ConnectionStatus.** `TextClient` follows one
client from its constructor through `Connect`, sends, and the destructor. Bytes are numbered, so
that order, loss and duplication can be told; a text is `TextLength` bytes, and
`Ends` says which of the peer's bytes are zero. The select is an action outside
the lock; the write part, the read part and each call of
`NotifyReceivedFormatPackage` under the lock are actions, and the network moves
between them. `ConnectionStatus` is what `ConnectionPool` assumes of a
connection (its actions `Connected`, `ConnectFailed`, `Disconnected`,
`PeerClosed` make the same changes); the mapping `Status` reads it off
`m_bIsConnected` and the socket. "zombie" is a client whose stream ended
in `recv`: the socket is closed and `m_bIsConnected` stays TRUE, so the pool
goes on lending it until the heartbeat gives it up. The two client classes
have the same code but for the loop over what was received. `SocketClients`
adds that of `PackageIOCPClient` and chooses a `protocol` in the initial state:
`PackageWait` is its two returns, `PackageIllegal` closes, `PackageDeliver`
takes a package off the buffer, and `PackageOverrun` copies past the buffer's
end, after which nothing is claimed (`overrun`). `PackageEnds` says where the
packages end in the peer's stream.

**DealerRequests.** A host thread goes `Quote`, `Enter`, `RequestsAdd...`,
`Record`; the host may call `SrvDealerConfirm` as soon as the request is queued,
and the detached thread it starts (`ConfirmThread`) runs whenever it gets the
lock. A trade is a deal (symbol, side, volume) and a price, because the host's
request carries the deal only. The price may be anything.

**ThreadPool.** `Run` is `Push` (front or back) and `Signal`; `_ThreadProc` is
`Wake`, `CheckThreadStop`, `GetThreadProc` or `GetNothing`, `BusyNotify`,
`RunJob`, `FinishNotify`; `Destroy` is five steps without the lock. Threads have
numeric ids because `Run` picks the first free one of an ordered map.

**IocpServer.** `client` holds for each context its life, socket, reference
count, send buffer and posted operations; a worker has a position, the context
or accept operation it works on, and where to go on after `CloseClient`.
Undefined behaviour ends the program: `crash` records a NULL reader
dereferenced, an accept operation used after `Shutdown` deleted it, and the
completion port's handle overwritten; after it nothing is claimed. `leaked` is a
ghost: contexts whose last reference nobody holds.

**ServerCallbacks.** What a derived class may rely on, with no workers,
completions or references in it: a client is accepted, then
`NotifyNewConnection` runs before any package; packages come one at a time; a
worker disconnects a client once, though perhaps during a callback; and the
context is deleted only when the client is closed and no callback uses it.
`Contact` in `IocpServer` reads this off the workers' positions: a `CloseClient`
called within a callback (`next` says which) belongs to that callback.

**ProtocolServer.** Extends `IocpServer` by the map of each protocol server.
`protocol` is fixed in the initial state: the bare server, the text server or
the package server. `NewObject`, `GetObject`, `UseObject`, `ReleaseObject`,
`EraseReleased` follow `UserBufferList` section by section; the package server
fetches its object without a reference (`GetObject`), and goes on using it after
the callback (`UseAgain`). A disconnect is `FindObject`, `ReleaseFound` and
`EraseFound` for the text server and `DelContext` for the package server, in
whichever thread closes the client (`leave`): a worker, or the thread that fails
in `Send` or runs `Shutdown`, which then holds the lock of the table
(`TableLocked`), so that the steps of `IocpServer` that need that lock wait. The
contents of packages are left open: `UseObject` may close the client or not. Two
more ways to leave defined behaviour are recorded in `crash`: a deleted object
is used or deleted again, and a package that has not arrived in full is copied.

**Configuration.** `cfg` and `cfg_max` are `m_cfg`, `m_cfg_total` and
`m_cfg_max`; names are numbers, whose order stands for `strcmp`. A section under
`m_sync` is one action; `Save` is several, because the process may die between
two lines (`SaveOpen` truncates, `SaveLine` writes one, either may fail). What a
host passes to `Set` and what the first file holds (`Lists`) is in any order and
may repeat a name: neither `Set` nor `Load` searches. `Arranged` is `qsort`, which
may leave entries of one name in any order, and `Search` finds any of them.
`Set` without an array (`SetTotal`) changes the count only. A
hook is its edit, then `Save`, then `Initialize`: `ReadFound`, or `ReadMissing`,
`AddDefault`, `Save`, `CopyDefault` for each wanted name. `Crash` forgets
everything but the file; `Load` sorts what it finds and drops blank values.

**Buffers.** A buffer is used by one thread at a time, copies of it by different
ones. `Construct` goes `GetInstance` (and `NewManager`), `AskLock`, `Enter`,
`Alloc`, `Leave`, `Constructed`; `Release` takes the same way through `GiveBack`.
`Allocate` calls `getInstance` for each of its three lines, so that a manager
replaced in between is met in the middle (`WrongManager`, which ends the
program). `serial` says whether the first buffer is made before others can be: the
plugin makes it, with the first connection, under the pool's lock; the library
does not ask for that.

## 3. Runs

| Run | Asks | Result |
|---|---|---|
| `connection_pool` | one owner per connection, the cap, old connections after a reconfiguration, which connections are dropped | holds; 1 388 563 states |
| `connection_pool_refusal` | is a refusal always due to POOL_MAX connections? | no (finding) |
| `socket_clients` | texts and packages whole and in order both ways, notifications, refinement of `ConnectionStatus`, everything leaves in the end, sockets closed | holds; 40 703 states |
| `dealer_requests` | is every plugin request found on confirmation, and do orders match? | holds; 33 600 states |
| `thread_pool` | no lost wake-up, each job once, jobs served | holds; 73 159 states |
| `thread_pool_destroy` | may `Destroy` be called at any time? | no (finding) |
| `iocp_server` | reference counts, last reference, use after delete, one reader per client, connection limit with two clients and a `Shutdown` at any moment | holds; 1 376 198 states |
| `protocol_servers` | refinement of `ServerCallbacks`, objects of both protocols; closed contexts are deleted | holds; 192 882 states |
| `configuration` | names entered twice, edits on the way to the file, restarts, settings in use | holds; 1 307 329 states |
| `buffers` | references, data in one place, lengths, one manager | holds; 491 990 states |
| `iocp_double_write` | is one write posted at a time? | no (finding) |
| `iocp_leak` | does a failed first read release the context? | no (finding) |

Deadlock is checked in `dealer_requests`, where it shows that the shared lock
is always given back. It is off in the others because the modelled system does
stop: the bounds of `connection_pool`, undefined behaviour, and the end of a
client, a pool or a server that was destroyed or shut down leave nothing to do.

## 4. Bounds and fairness

Every bound is a named constant of its module.

- `ConnectionPool`: POOL_MAX 2 with the pool refilled to 1 and started with 1,
  so that a refill beside a kept connection reaches the cap;
  three identities (one more than the cap, so that exceeding it would be seen),
  three reconfigurations (a start-up and two edits while running, also to blank
  settings), two servers, one failed `CreateConnection`, heartbeat limit 1. The
  refusal run uses the sizes of `SocketConnectionPool.h` (4, 2, 1, limit 2).
- `SocketClients`: two texts of two bytes (a partial send and a text behind it),
  four arriving bytes that hold a text of one byte, one of two and a
  beginning (several texts in one `recv`, texts cut in two); or packages of two
  and three bytes, a header being two: one without contents, one with, of which
  the last byte never arrives (a header cut, packages joined, a package cut).
- `DealerRequests`: two askers, two pollers, two ids, two confirmations of
  each request (a repeated one), a valid and an invalid deal, a positive and a
  zero price.
- `ThreadPool`: two threads and three jobs: one job more than threads, so that
  one must wait; both orders of free threads.
- `IocpServer`: two workers and two accepts; two contexts at a limit of one, so
  that one accept is refused, and one `Shutdown`. No buffer waits in the queue
  here (a second send meanwhile is left out): a waiting buffer holds no
  reference, and `protocol_servers` has one at its bare server, as
  `iocp_double_write` has. Nobody sends while a write is posted, since two posted
  writes are that finding, which needs only this bound to appear.
- `ProtocolServer`: two workers (one may receive while the other disconnects)
  and one client, since objects of two clients share only the map's lock. With a
  protocol, sends may fail but not succeed (`Senders`): a successful one changes
  nothing an object depends on, and the bare server has both.
- `Configuration`: two threads and three hook calls, two names in the plugin's
  order and not the table's, two values of which one is blank, room for one
  entry so that every insertion meets a full array, one failing write and one
  crash. A host passes, and the first file holds, both names in the wrong order, or
  one name with two values, one of them blank (`Load` skips the line); the empty table
  comes from `SetTotal` and from `Delete`.
- `Buffers`: two threads and three buffers (two copies and one to assign), data
  made one at a time so that the pool runs empty, three data and two managers (one
  more than there should be), lengths on both sides of an allocation.

Symmetry is used over model values that no definition orders or compares, and
never in a run with a liveness property.

Fairness. `ThreadPool`: Windows schedules every runnable thread, user functions
return, a caller between its two critical sections goes on (weak fairness of
`ThreadStep` and `Signal`); nobody has to call `Run` or `Destroy`.
`SocketClients`: the client thread runs (weak); a connect ends, by the TCP timeout
at the latest (weak); a peer that stays makes room again and again, so a
writable select and a send that takes bytes are strongly fair. `IocpServer`:
workers run (weak on `Handle`); the port hands out packets in order and an
operation on a closed socket completes, so a completion of a closed socket is
taken in the end although others keep arriving (strong); `ProtocolServer` adds
that a thread in `NotifyDisconnectedClient` goes on. The pool, the dealing desk
and the configuration have safety properties only: what they do in time depends
on the network, the dealer and the host.

## 5. Proofs

TLAPS proves, for every value of the constants that meets the named
assumptions:

- `DealerRequests_proofs`: `TypeCorrect`, `ConfirmationsFindTheirTrade`,
  `OrdersAreForRequests`, `RecordsStay`. None of the properties is inductive.
  The invariant is `TypeOK /\ AskerInv /\ RecordInv /\ ConfirmInv`: an asker past
  `Enter` holds the lock and knows its trade and id (`AskerInv`); a recorded
  trade has the deal that is queued, and a plugin request is recorded or its
  asker is about to do so under the lock (`RecordInv`); confirmations that are
  running or done never outnumber those made, and nothing was answered for a
  plugin request with "No request" (`ConfirmInv`). The lock is what carries it:
  a confirm thread runs only when no asker is between the call and the record.
- `ThreadPool_proofs`: `TypeCorrect`, `WakeupsAreNotLost`, `JobsRunOnce`. The
  invariant adds `EventInv` (a thread that is not free, or is awake, has its
  event set), from which `NoLostWakeup` becomes inductive, and `JobInv` (a
  thread holds a job exactly from `GetThreadProc` to the end of the user's
  function), which `EachJobOnce` needs. Three lemmas say what pushing and taking
  do to the list element by element. `NoJobIsLost` says where a job is until
  `Destroy` clears the list; with `NoLostWakeup` it gives `RestsWhenServed`: a
  pool that has come to rest has executed every job it was given. This is the
  safety half of `JobsServed`; that a pool comes to rest needs fairness.
- `SocketClients_proofs`: `StatusImplemented`, the refinement of
  `ConnectionStatus` by both clients, for texts, packages and streams of any
  length. `ClientSteps` says that a step of a client is one of `TextClient` or
  one that takes a package off the buffer, and `PackageTurns` what those leave
  alone; the lemmas about `Next` then serve both. The refinement needs
  `StatusInv`: the thread acts only on a socket that is there, nothing
  happens before `Connect`, and after the destructor only the network moves.
  `StatusIsNotified` and `ConnectedAreClosedHolds` follow from `NotifyInv`, which
  adds that a client that has been told of anything is connected or closed for
  good. `TypeCorrect`, `AllSentInOrder` and `AllDeliveredWhole` rest on
  `SendInv`, and on `ReceiveInv` for texts or `PackInv` for packages: bytes are
  numbered, so that "in order, none twice and none left out" is that every
  sequence of bytes `Follows` the one before it, from the network back to the list
  and from what was delivered on to the buffer; `FollowsSub` and `FollowsCat` say
  that cutting and joining keep it. The loop over `GetStringLen` is in it through
  `reading`: while the thread delivers, the buffer still begins at the byte
  `reading` before the end of what is delivered. `StringLengthIs` (from the
  well-ordering of the naturals) says that the zero byte found is the first.
  `FrontIsNext` says that the header a package client reads is always that of
  the next package, so that the length it tests is the right one to test.
  `PackagesStall` says what the reversed test does with it: once more has
  arrived than the front package, every later pass of the loop returns at once,
  because the front never changes and the buffer only grows.
- `ConnectionPool_proofs`: `TypeCorrect`, `ConnectionsAreOwned`,
  `OnlySilentAreDropped`, `CapIsKept`, `StaleAreGone`, for any number of
  connections, servers, reconfigurations and failures. `Positions` says that a
  polling thread inside a round holds `m_ContextLock`, so that at most one
  connection is borrowed, and not while `reNewPool` counts; `OneOwner` becomes
  inductive with it. `Unanswered` describes the instant between the `++` of the
  heartbeat counter and the request that follows, where `DroppedOnlySilent`
  alone says nothing. `CapIsKept` is about cardinalities: pooled plus borrowed
  connections, plus the one `reNewPool` is about to add, never exceed `Base` (what
  the plugin's threads keep) plus one refill (`SizeInv`); `current_size`, which
  drifts, does not occur in it. The theorem therefore has a hypothesis,
  `Base + MAN_POOL_SIZE_INIT <= POOL_MAX`, which the sizes of the code
  (`2 + 1 <= 4`) meet. Lemmas say what removing, appending and joining do to the
  queue. `CounterDrift` is an action property about the difference between
  `current_size` and the connections that exist (`Ahead`): a heartbeat drop
  raises it by one, and no other step raises it above zero. `ObjectsFollowStatus`
  joins the pool to the clients: between `CreateConnection` and the delete the
  status of every object moves by a step of `ConnectionStatus`, the
  specification both clients are proved to implement, so that neither module
  assumes of the other what it does not do.
- `Configuration_proofs`: `TypeCorrect`, `NamesEnteredOnce`, `EditsReachTheFile`,
  `RestartIsConsistent`, `SettingsAgree`, for any number of threads, names,
  lists from the host and the file, failures and crashes. The invariant adds
  `Locking` (who writes holds `m_sync`) and `Lines` (the file is the beginning of
  the image, as long as the writer has come). Lemmas say what appending, removing,
  replacing and sorting do to a table: `SortedTable` that `qsort` loses no entry
  and doubles none, from the bijection it is. `NamesEnteredOnce` uses them with
  `AddTable` and `DeleteTable`: although the two sections of `GetString` do not
  exclude each other, `Add` searches again. It is about the plugin's own edits; a
  name that the host or the file repeats stays repeated.
- `IocpServer_proofs`: `TypeCorrect`, `ReferencesAreCounted`,
  `LastReferenceIsClosed`, `NothingUsedAfterDelete`, `OneReaderPerClient`, for any
  number of workers, clients and accepts, any limit, with or without a
  `Shutdown`. Its some thirty actions are first sorted into twelve kinds by what they
  do to references (`StepKinds`: a worker walks on, hands its reference to an
  operation, gives it up, ...), and each conjunct of the invariant is proved
  for the kinds. The invariant needs, besides the properties: a worker has a
  live context exactly while it handles one (`Positions`); who deletes is alone
  (`Deleting`); identities without a client are referred to by nobody
  (`NotYet`), nor are deleted ones (`Gone`); and an open client always has a
  read, posted or being handled, or a worker on its way to close it
  (`Attended`), which is why the last reference cannot go while the socket is
  open. `ReferencesCounted` is a statement about cardinalities: `OneHolder` and
  `LastReference` turn "the count is 1" into "nobody else is here".
  `ConnectCountHolds` adds `CountInv`: the counter is the number of open clients
  and of workers between a change of that number and the counter's own
  (`Between`), and the limit bounds the open clients with those of them that
  have been admitted (`Admitted`).
  `CallbacksImplemented`, in the same module, is the refinement of
  `ServerCallbacks`. At most one worker is in a callback for a client, because
  the callback belongs to the one read (`OneAtATime`); a freed context has no
  open socket (`DeadAreClosed`). Each kind of step maps to one abstract action or
  a stutter.
  What the server does with operations rests on the same invariant.
  `QueueIsServed`: while the send queue of an open client holds anything, a write
  is posted or a worker is on the way to post one or to decide whether to
  (`Pushes`); since `SwapBuffer` and `Send` both work under the client's lock, no
  buffer is stranded. `NothingElseLeaks`: a context in the table is counted by
  somebody, unless it was leaked (`Doomed`: one without references is being
  deleted). `ClosedDrain` is the action property behind `ClosedAreFreed`: the
  references and operations of a closed client only become fewer.
  `AcceptsTakeTurns` and `LostAcceptsStayLost` are about the accept operations,
  whose steps `AcceptKinds` sorts into taking one, giving it back or losing it,
  and the rest. `ShutdownFaultsOnly` says that the port's handle is lost only
  once `Shutdown` has closed the clients, and a deleted accept operation used
  only once it frees them; for the rest see "Findings and their causes".
- `ProtocolServer_proofs`: every step of `ProtocolServer` is a step of
  `IocpServer`, leaves its variables alone, or stops the program
  (`ProtocolRefines`, `StopsKeeps`). What is proved of the server holds therefore
  below both protocols, whichever callbacks close clients:
  `ProtocolReferences`, `ProtocolUse`, `ProtocolCallbacks`,
  `ProtocolQueueIsServed`, `ProtocolNothingElseLeaks`, `ProtocolClosedDrain`.
  `ProtocolTypes`, `ReceiversAreProtected` and `ObjectsAreReleased` rest on
  `ObjectInv`, which says who may hold which reference to a client's object: the
  map has one until `NotifyDisconnectedClient` has given it up (`Kept`), the one
  receiver another (`Use`), and who takes the last away erases the object
  (`Erasing`, `Dropping`); an object exists exactly from `NotifyNewConnection` on
  (`Expected`); a client `Shutdown` closed before that keeps its object, and its
  context is leaked (`Missed`). `OneLeaver` and `OnlyReceiver` say that at most
  one thread disconnects a client and at most one receives from it. The proof has
  a lemma per action over common frames (`Calm`, `ReceiverKeeps`, `LeaverKeeps`,
  `EntersKeeps`, `ReadKeeps`, `TableKeeps`). When the context goes, nobody is left to
  hold a reference and nothing is `Kept`, so the count is 0 and somebody erased
  the object (`DeleteKeeps`). Workers and clients are taken to be different things
  (`AgentsAssumption`), since a client also stands for the thread that closes it
  from outside.

- `Buffers_proofs`: `TypeCorrect`, `BuffersAreCounted`, `DataIsInOnePlace`,
  `ManagerIsOne`, for any number of threads and buffers, any sizes, and however
  many managers race into being. The invariant adds where a thread's buffer and
  data are at each position (`Positions`), that no two threads work on a buffer
  (`Exclusive`), and `OnePlace`, which says place by place what
  `DataInOnePlace` counts; a live buffer has data with a reference (`Referred`, from
  the counts), so that a release never meets data that is in a pool. Each
  change of a place has a lemma (`ReleasePlaces`, `ReferPlaces`, `AllocPlaces`,
  ...). `TypeCorrect` contains that no buffer claims more bytes than its data has,
  from `AlignedUp`. `ManagerIsOne` needs `SerialInv`: while there is no manager, only
  the first user is under way.

Findings and their causes. A run shows that a property fails; a theorem says that
it fails in one way only. Each has the form "in every behaviour without this step
the property holds", where the step is an action of the model that other
behaviours take, and that a repair of the code would remove:

| Property | Holds of every behaviour without | Theorem |
|---|---|---|
| `RefusedOnlyWhenFull` | `CheckDrop`: `checkConnection` gives a silent connection up | `RefusedForDropsOnly` |
| `NoDeletedJobTaken` | `FreesBeside`: `Destroy` deletes the jobs while a thread is past `CheckThreadStop` | `DestroysBesideTakersOnly` |
| `OneWritePosted` | `SendsBeside`: a `Send` posts between a worker's unlock and its look at the reader | `WritesTakeTurns`, `ProtocolWritesTakeTurns` |
| `FailedPostReleases` | `FirstReadRefused`: a client is closed before its first read is posted | `LeaksAtFirstReadOnly`, `ProtocolLeaksAtFirstReadOnly` |
| no undefined behaviour of the server (`Running`) | `SendsBeside`, and a `Shutdown` | `ServesWithoutFault` (with `ReaderStays`) |
| the same of the text server | `SendsBeside`, a `Shutdown`, and an object fetched at count 0 (`reborn`) | `TextServerRuns` |
| no copy past the buffer of a package client (`Intact`) | `CutInside`: a `recv` that ends inside a package, behind its header | `OverrunsCutPackagesOnly` |

`ProtocolFaultsOnly` gives the cause of every undefined behaviour of the two
servers without any such hypothesis. The arguments: `NotAhead` (the counter is
not ahead of the connections); `DestroyInv` (nobody is about to take a job once
they are deleted); `Writing` (the write posted and the workers that handle one
exclude each other, and a worker that will use the reader finds it); `ErasedOnce`
with `ObjectInv` (who uses or deletes an object of the text server finds it,
unless it was fetched at count 0); `Fits` (a package client that reads a length
has the package).

Only model-checked: the liveness properties (`JobsServed`, `ClosedAreFreed`,
`AllLeave`), because the prover handles neither fairness nor `ENABLED`. What is
proved of them is their safety half: `RestsWhenServed`, `ClosedDrain` and
`NothingElseLeaks`, `AllSentInOrder`.

## 6. Findings

`PROJECT.json` gives each with its line and the sentence it contradicts.

1. `checkConnection` drops a silent connection without giving its slot back:
   `GetConnection` then refuses with fewer than POOL_MAX connections, even none.
2. `Destroy` deletes jobs that a thread may still take.
3. `OnClientIoWrite` reads `BufferReader` after the unlock: a `Send` in between
   gets its buffer posted twice, and the second completion finds no reader.
4. A first read that fails because the socket was closed meanwhile leaks the
   context.

Section 5 says of each what its only cause is.

Behaviour the models also show, which no document clearly denies: packages that
arrive together stay in the buffer for good and one that has arrived in part is
copied past its end, because the test for an incomplete package is reversed
(`PackageWait`, `PackageOverrun`, theorem `PackagesStall`; the server has the
same loop, `ShortPackage`); an accept operation whose next socket cannot be
created is never posted again, until nobody can connect (`LostAcceptsStayLost`);
a job can wait behind a busy thread while another sleeps, because the thread
`Run` wakes may be awake already (`Signal`); `IsConnected` stays
TRUE when the peer ends the stream; the destructor of a client that is still
connecting leaves its socket open; `current_size` goes below zero; `Shutdown`
can delete an accept operation a worker uses, or make it lose the port's handle;
the text server can hand out an object whose count has reached zero and is about
to be deleted (`reborn`); the package server goes on using an object its own
`CloseClient` has deleted; two first users of the buffers may make a manager each
(`serial`); looking up a client without an object leaves a NULL in the map for good;
`Delete` of a setting is not saved; a name that the host or the file repeats has
two entries, of which `Search` finds any and `Delete` removes one; a default may overwrite a value added
meanwhile, and a restart after a crash during `Save` finds part of the table.

## 7. Not modelled

`Create` of a thread pool in use and `Startup` after a `Shutdown`; a second
`Connect` of a client (the plugin never makes one); two host threads in `setupSocket` at
once; the destructor of the pool
(the process is ending); the hash chains of the context table, which are
sequential code under one lock (`IocpServer` has the table as the set of live
contexts); the contents of JSON messages, texts and packages;
memory layout, such as the allocation in `CreateConnection`; time, so that "too
slow" is "in any order"; the locks of the host; `ReleasePool` and
`SetAllocateCount`, which have no caller, and reading and writing at a position of a
buffer, which one thread does to data of its own; the thread pool of
`executePool.h`, of which no object is made; `md5`, `Utils` and resources.

Taken more coarsely or narrowly than the code has it:

- `Configuration`: `GetString` cuts a value that is longer than the member; values
  are short enough here. `Set` without an array may ask for more entries than
  the table has, up to the size of the array; beyond that the code reads past
  the array, and no host does so here (`TypeOK` relies on it).
- `ThreadPool`: the walk of `Destroy` that deletes the jobs, and its clearing of the
  list, are one step each, although neither has the lock. A thread may therefore
  also find a job whose `pData` is NULL already, or a list that is being changed;
  `NoDeletedJobTaken` fails without that.
- `SocketClients`: a package header has at least its own size as length. With a
  smaller one the client returns at it for good, as in `PackageWait`, since the test
  for an incomplete package is reversed and the buffer holds a whole header; the
  copy that would underflow is not reached.
- `IocpServer`: a failed `Send` closes and counts down in one step, and `Shutdown`
  closes all clients in one step (in the code one by one, under the lock of the
  table). The counter may differ from the open clients a little longer in the code;
  `ConnectCount` would have to allow for that thread as it does for workers.
- `ProtocolServer`: a `Send` to a context (not to its guid) from a callback does not
  hold the lock of the table in the code; when it fails it does here, so that no
  client is added to the table or taken out of it meanwhile. A derived class does
  not close the client in `NotifyNewConnection`; the bare server allows it.

Some hazards in `PROJECT.json` have no property: a pool that is polled faster than
the back-end answers needs real time, a host that calls the hooks under a lock of
its own needs the host, and of the two ways in which the server loses its accepts
or its port no document says anything a run could refute: theorems say when they
happen (`LostAcceptsStayLost`, `ShutdownFaultsOnly`).

Seven eighths of the repository's lines are vendored (`nlohmann/json`, `spdlog`):
its own code is about 6 000 of 46 000 lines. A map of the plugin's and its
library's code can therefore cover only a small share of the repository.

## 8. Plan

The order is by how much of the plugin's behaviour depends on a part.

1. Done: `ConnectionPool`, `DealerRequests`, `SocketClients` with
   `ConnectionStatus`, `ThreadPool`, `IocpServer` with `ServerCallbacks`,
   `ProtocolServer`, `Configuration`, `Buffers`, with proofs of all their safety
   properties that hold, and of the only causes of those that do not.
2. `Create` of a thread pool in use, and `Startup` after a `Shutdown`.
