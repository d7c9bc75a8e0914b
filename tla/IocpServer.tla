----------------------------- MODULE IocpServer -----------------------------
(***************************************************************************)
(* CBaseIOCPServer: worker threads take I/O completions from one port,     *)
(* accept clients up to a limit, and keep one read and at most one write   *)
(* posted per client.  A PER_SOCKET_CONTEXT lives as long as its           *)
(* m_NumberOfPendingIO: one reference per posted operation, handed to the  *)
(* worker that takes the completion.  Other threads send by guid; one      *)
(* thread shuts the server down.                                           *)
(* Each section under a context's m_Lock, each interlocked operation and   *)
(* each unlocked step between them is one action.  What runs under the     *)
(* table lock (AddContext, DeleteContext, Send(guid), the enumeration in   *)
(* Shutdown) excludes each other, so each of those is one action too.      *)
(***************************************************************************)
EXTENDS Integers, FiniteSets

CONSTANTS
  Contexts,    \* PER_SOCKET_CONTEXTs; bound: connections accepted in a behaviour
  Workers,     \* WorkerThread instances
  Accepts,     \* numbers of the PER_IO_CONTEXTs in m_vAcceptIOContext
  NoContext, NoAccept,
  Limit,       \* m_nLimitConnectCount
  MaxQueued,   \* bound: buffers waiting in m_SendBufferList
  MaxWrites,   \* bound: nobody sends while so many writes are posted
  MaxShutdowns \* bound: 1 if Shutdown is called, else 0

ASSUME SetsAssumption ==
  /\ IsFiniteSet(Contexts) /\ NoContext \notin Contexts
  /\ IsFiniteSet(Workers)
  /\ Accepts \subseteq Nat /\ NoAccept \notin Accepts
ASSUME LimitsAssumption == {Limit, MaxQueued, MaxWrites} \subseteq Nat /\ MaxShutdowns \in {0, 1}

VARIABLES
  client,     \* the socket context behind each identity
  acceptIo,   \* state of each accept operation
  pc, ctx, io,\* WorkerThread: position, socket context, accept operation
  next,       \* where a worker goes on after CloseClient
  count,      \* m_nCurrentConnectCount (a ULONG: -1 stands for 2^32 - 1)
  leaked,     \* ghost: contexts whose last reference nobody holds
  shutdown,   \* where Shutdown() is; m_bIsShutdown unless "no"
  crash       \* the undefined behaviour that ended the program, or "no"

vars == <<client, acceptIo, pc, ctx, io, next, count, leaked, shutdown, crash>>
workerVars == <<pc, ctx, io, next>>
serverVars == <<acceptIo, count, leaked, shutdown, crash>>

(* open: m_Socket is valid; pending: m_NumberOfPendingIO; reader: the send *)
(* context has a BufferReader; queued: length of m_SendBufferList; reads,  *)
(* writes: operations posted and not yet taken by a worker.  A live        *)
(* context is in the table.                                                *)
NoClient == [life |-> "none", open |-> FALSE, pending |-> 0, reader |-> FALSE,
             queued |-> 0, reads |-> 0, writes |-> 0]
Accepted == [NoClient EXCEPT !.life = "live", !.open = TRUE, !.pending = 1]
Freed(context) == [context EXCEPT !.life = "freed", !.reader = FALSE, !.queued = 0]

Live(c) == client[c].life = "live"
Open(c) == client[c].open

(* Startup has posted one accept per worker. *)
Init ==
  /\ client = [c \in Contexts |-> NoClient]
  /\ acceptIo = [a \in Accepts |-> "posted"]
  /\ pc = [w \in Workers |-> "idle"]
  /\ ctx = [w \in Workers |-> NoContext]
  /\ io = [w \in Workers |-> NoAccept]
  /\ next = [w \in Workers |-> "idle"]
  /\ count = 0
  /\ leaked = {}
  /\ shutdown = "no"
  /\ crash = "no"

Goto(w, here, there) ==
  /\ pc[w] = here /\ pc' = [pc EXCEPT ![w] = there]
  /\ ctx' = IF there = "idle" THEN [ctx EXCEPT ![w] = NoContext] ELSE ctx
  /\ UNCHANGED <<io, next>>

(* Go to CloseClient and from there to `there`. *)
GotoClose(w, here, there) ==
  /\ pc[w] = here /\ pc' = [pc EXCEPT ![w] = "close"]
  /\ next' = [next EXCEPT ![w] = there]
  /\ UNCHANGED <<ctx, io>>

-----------------------------------------------------------------------------
(* CloseClient: the socket is taken under the lock, the rest is done after.*)
CloseClient(w) ==
  /\ pc[w] = "close"
  /\ pc' = [pc EXCEPT ![w] = IF Open(ctx[w]) THEN "closed" ELSE next[w]]
  /\ next' = [next EXCEPT ![w] = IF Open(ctx[w]) THEN @ ELSE "idle"]
  /\ client' = [client EXCEPT ![ctx[w]].open = FALSE]
  /\ UNCHANGED <<ctx, io, serverVars>>

Disconnected(w) ==
  /\ pc[w] = "closed"
  /\ pc' = [pc EXCEPT ![w] = next[w]]
  /\ next' = [next EXCEPT ![w] = "idle"]
  /\ count' = count - 1
  /\ UNCHANGED <<client, ctx, io, acceptIo, leaked, shutdown, crash>>

(* ReleaseSocketContext: ExitIOLoop, then, for the last reference, the     *)
(* removal from the table and the delete.                                  *)
ExitIOLoopEarly(w) ==   \* mutant: deletes with one reference left
  /\ Goto(w, "release", IF client[ctx[w]].pending <= 2 THEN "delete" ELSE "idle")
  /\ client' = [client EXCEPT ![ctx[w]].pending = @ - 1]
  /\ UNCHANGED serverVars

ExitIOLoop(w) ==
  /\ Goto(w, "release", IF client[ctx[w]].pending = 1 THEN "delete" ELSE "idle")
  /\ client' = [client EXCEPT ![ctx[w]].pending = @ - 1]
  /\ UNCHANGED serverVars

DeleteContext(w) ==
  /\ Goto(w, "delete", "idle")
  /\ client' = [client EXCEPT ![ctx[w]] = Freed(@)]
  /\ UNCHANGED serverVars

(* PostClientIoRead, then what its three callers do with each result.      *)
(* OnClientIoAccept ("firstRead") ignores PostIoInvalicSocket.             *)
PostClientIoRead(w, here) ==
  /\ pc[w] = here
  /\ \/ /\ Open(ctx[w])
        /\ Goto(w, here, "idle")
        /\ client' = [client EXCEPT ![ctx[w]].reads = @ + 1]
        /\ UNCHANGED leaked
     \/ /\ Open(ctx[w]) \/ here = "nextRead"
        /\ GotoClose(w, here, "release")
        /\ UNCHANGED <<client, leaked>>
     \/ /\ ~Open(ctx[w]) /\ here = "firstRead"
        /\ Goto(w, here, "idle")
        /\ leaked' = leaked \cup {ctx[w]}
        /\ UNCHANGED client
  /\ UNCHANGED <<acceptIo, count, shutdown, crash>>

-----------------------------------------------------------------------------
(* WorkerThread: completions.  A client operation that failed, or that     *)
(* moved no bytes, closes the client.                                      *)
TakeReadUnclosed(w, c) ==   \* mutant: a failed read does not close the client
  /\ pc[w] = "idle" /\ client[c].reads > 0
  /\ client' = [client EXCEPT ![c].reads = @ - 1]
  /\ ctx' = [ctx EXCEPT ![w] = c]
  /\ pc' = [pc EXCEPT ![w] = "received"] \/ pc' = [pc EXCEPT ![w] = "release"]
  /\ UNCHANGED <<io, next, serverVars>>

TakeReadUnreleased(w, c) ==   \* mutant: a failed read keeps its reference
  /\ pc[w] = "idle" /\ client[c].reads > 0
  /\ client' = [client EXCEPT ![c].reads = @ - 1]
  /\ ctx' = [ctx EXCEPT ![w] = c]
  /\ pc' = [pc EXCEPT ![w] = "received"] \/ pc' = [pc EXCEPT ![w] = "close"]
  /\ UNCHANGED <<io, next, serverVars>>

TakeReadAhead(w, c) ==   \* mutant: the next read is posted before this one is handled
  /\ pc[w] = "idle" /\ client[c].reads > 0
  /\ client' = [client EXCEPT ![c].pending = @ + 1]
  /\ ctx' = [ctx EXCEPT ![w] = c]
  /\ \/ pc' = [pc EXCEPT ![w] = "received"] /\ UNCHANGED next
     \/ pc' = [pc EXCEPT ![w] = "close"] /\ next' = [next EXCEPT ![w] = "release"]
  /\ UNCHANGED <<io, serverVars>>

TakeRead(w, c) ==
  /\ pc[w] = "idle" /\ client[c].reads > 0
  /\ client' = [client EXCEPT ![c].reads = @ - 1]
  /\ ctx' = [ctx EXCEPT ![w] = c]
  /\ \/ pc' = [pc EXCEPT ![w] = "received"] /\ UNCHANGED next
     \/ pc' = [pc EXCEPT ![w] = "close"] /\ next' = [next EXCEPT ![w] = "release"]
  /\ UNCHANGED <<io, serverVars>>

TakeWrite(w, c) ==
  /\ pc[w] = "idle" /\ client[c].writes > 0
  /\ client' = [client EXCEPT ![c].writes = @ - 1]
  /\ ctx' = [ctx EXCEPT ![w] = c]
  /\ \/ pc' = [pc EXCEPT ![w] = "written"] /\ UNCHANGED next
     \/ pc' = [pc EXCEPT ![w] = "close"] /\ next' = [next EXCEPT ![w] = "release"]
  /\ UNCHANGED <<io, serverVars>>

(* The accept was completed by a client or by the end of the listen        *)
(* socket; its status is not looked at.                                    *)
TakeAccept(w, a) ==
  /\ pc[w] = "idle" /\ acceptIo[a] = "completed"
  /\ acceptIo' = [acceptIo EXCEPT ![a] = "taken"]
  /\ IF shutdown # "no"
       THEN UNCHANGED <<pc, io>>
       ELSE pc' = [pc EXCEPT ![w] = "accept"] /\ io' = [io EXCEPT ![w] = a]
  /\ UNCHANGED <<client, ctx, next, count, leaked, shutdown, crash>>

TakeNull(w) ==
  /\ shutdown = "exiting"
  /\ Goto(w, "idle", "exited")
  /\ UNCHANGED <<client, serverVars>>

-----------------------------------------------------------------------------
(* OnClientIoAccept. *)
CountAfter(w) ==   \* mutant: the limit is compared with the count before the accept
  /\ Goto(w, "accept", IF count > Limit THEN "reject" ELSE "repost")
  /\ acceptIo[io[w]] # "freed"
  /\ count' = count + 1
  /\ UNCHANGED <<client, acceptIo, leaked, shutdown, crash>>

Count(w) ==
  /\ Goto(w, "accept", IF count + 1 > Limit THEN "reject" ELSE "repost")
  /\ acceptIo[io[w]] # "freed"
  /\ count' = count + 1
  /\ UNCHANGED <<client, acceptIo, leaked, shutdown, crash>>

(* CreateAcceptSocket may fail, which its callers do not notice. *)
CreateAcceptSocket(a) ==
  \/ shutdown \in {"no", "flagged"} /\ acceptIo' = [acceptIo EXCEPT ![a] = "posted"]
  \/ UNCHANGED acceptIo

Repost(w, here, there) ==
  /\ pc[w] = here /\ pc' = [pc EXCEPT ![w] = there]
  /\ acceptIo[io[w]] # "freed"
  /\ CreateAcceptSocket(io[w])
  /\ io' = [io EXCEPT ![w] = NoAccept]
  /\ UNCHANGED <<client, ctx, next, leaked, shutdown, crash>>

Reject(w) == Repost(w, "reject", "idle") /\ count' = count - 1
PostNextAccept(w) == Repost(w, "repost", "allocate") /\ UNCHANGED count

AddContext(w, c) ==
  /\ pc[w] = "allocate" /\ pc' = [pc EXCEPT ![w] = "register"]
  /\ client[c].life = "none"
  /\ client' = [client EXCEPT ![c] = Accepted]
  /\ ctx' = [ctx EXCEPT ![w] = c]
  /\ UNCHANGED <<io, next, serverVars>>

UpdateCompletionPort(w) ==
  /\ Goto(w, "register", "announce")
  /\ Open(ctx[w])
  /\ UNCHANGED <<client, serverVars>>

(* The user's callbacks may close the client.  What they may send is       *)
(* covered by Send, which any thread may call meanwhile.                   *)
NotifyNewConnection(w) ==
  /\ Goto(w, "announce", "firstRead") \/ GotoClose(w, "announce", "firstRead")
  /\ UNCHANGED <<client, serverVars>>

NotifyReceivedPackage(w) ==
  /\ Goto(w, "received", "nextRead") \/ GotoClose(w, "received", "nextRead")
  /\ UNCHANGED <<client, serverVars>>

-----------------------------------------------------------------------------
(* OnClientIoWrite: the completion covers part of the buffer or the rest;  *)
(* in the second case the reader is replaced under the lock.  Whether to   *)
(* go on is decided by a look at the reader outside the lock.              *)
Written(w) ==
  /\ Goto(w, "written", "swap") \/ Goto(w, "written", "look")
  /\ client[ctx[w]].reader
  /\ UNCHANGED <<client, serverVars>>

SwapBufferBlind(w) ==   \* mutant: pops the queue without a look at its length
  /\ Goto(w, "swap", "look")
  /\ client[ctx[w]].reader
  /\ client' = [client EXCEPT ![ctx[w]].queued = @ - 1]
  /\ UNCHANGED serverVars

SwapBuffer(w) ==
  /\ Goto(w, "swap", "look")
  /\ client[ctx[w]].reader
  /\ client' = [client EXCEPT ![ctx[w]].reader = client[ctx[w]].queued > 0,
                              ![ctx[w]].queued = IF @ > 0 THEN @ - 1 ELSE 0]
  /\ UNCHANGED serverVars

LookAtReader(w) ==
  /\ Goto(w, "look", IF client[ctx[w]].reader THEN "write" ELSE "release")
  /\ UNCHANGED <<client, serverVars>>

PostClientIoWrite(w) ==
  /\ \/ /\ Goto(w, "write", "idle")
        /\ Open(ctx[w]) /\ client[ctx[w]].reader
        /\ client' = [client EXCEPT ![ctx[w]].writes = @ + 1]
     \/ /\ GotoClose(w, "write", "release")
        /\ Open(ctx[w]) => client[ctx[w]].reader
        /\ UNCHANGED client
  /\ UNCHANGED serverVars

(* Send(guid), also Send(ctx) from a callback: under the client's lock.  A *)
(* client's guid is known from NotifyNewConnection on.                     *)
Announced(c) == Live(c) /\ \A w \in Workers : ctx[w] = c => pc[w] # "register"

SendQueued(c) ==
  /\ client[c].reader /\ client[c].queued < MaxQueued
  /\ client' = [client EXCEPT ![c].queued = @ + 1]
  /\ UNCHANGED count

SendPostedUncounted(c) ==   \* mutant: no EnterIOLoop before the post
  /\ ~client[c].reader /\ client[c].writes < MaxWrites
  /\ client' = [client EXCEPT ![c].reader = TRUE, ![c].writes = @ + 1]
  /\ UNCHANGED count

SendPosted(c) ==
  /\ ~client[c].reader /\ client[c].writes < MaxWrites
  /\ client' = [client EXCEPT ![c].reader = TRUE, ![c].writes = @ + 1, ![c].pending = @ + 1]
  /\ UNCHANGED count

SendFailedUnreleased(c) ==   \* mutant: the reference of the failed post stays
  /\ ~client[c].reader
  /\ client' = [client EXCEPT ![c].reader = TRUE, ![c].open = FALSE, ![c].pending = @ + 1]
  /\ count' = count - 1

(* Closed, and the reference EnterIOLoop had just taken released.  The     *)
(* code closes the socket a little before it counts down.                  *)
SendFailed(c) ==
  /\ ~client[c].reader
  /\ client' = [client EXCEPT ![c] = IF @.pending = 0 THEN Freed(@)
                                     ELSE [@ EXCEPT !.reader = TRUE, !.open = FALSE]]
  /\ count' = count - 1

Send(c) ==
  /\ Announced(c) /\ Open(c)
  /\ SendQueued(c) \/ SendPosted(c) \/ SendFailed(c)
  /\ UNCHANGED <<workerVars, acceptIo, leaked, shutdown, crash>>

-----------------------------------------------------------------------------
(* A client connects. *)
AcceptCompletes(a) ==
  /\ acceptIo[a] = "posted"
  /\ acceptIo' = [acceptIo EXCEPT ![a] = "completed"]
  /\ UNCHANGED <<client, workerVars, count, leaked, shutdown, crash>>

(* Shutdown(). *)
ShutdownStep(here, there) == shutdown = here /\ shutdown' = there

Flag ==
  /\ ShutdownStep("no", "flagged")
  /\ MaxShutdowns = 1
  /\ UNCHANGED <<client, workerVars, acceptIo, count, leaked, crash>>

CloseListenSocket ==
  /\ ShutdownStep("flagged", "freeing")
  /\ acceptIo' = [a \in Accepts |-> IF acceptIo[a] = "posted" THEN "completed" ELSE acceptIo[a]]
  /\ UNCHANGED <<client, workerVars, count, leaked, crash>>

(* HasOverlappedIoCompleted holds as soon as the operation is complete,    *)
(* whether or not a worker has taken or even finished with it.             *)
FreeAccept(a) ==
  /\ shutdown = "freeing"
  /\ acceptIo[a] \in {"completed", "taken"}
  /\ \A b \in Accepts : b < a => acceptIo[b] = "freed"
  /\ acceptIo' = [acceptIo EXCEPT ![a] = "freed"]
  /\ UNCHANGED <<client, workerVars, count, leaked, shutdown, crash>>

(* CloseClients: one client after the other, but under the lock of the     *)
(* table; here in one step.                                                *)
CloseClients ==
  /\ \A a \in Accepts : acceptIo[a] = "freed"
  /\ ShutdownStep("freeing", "exiting")
  /\ client' = [c \in Contexts |-> [client[c] EXCEPT !.open = FALSE]]
  /\ count' = count - Cardinality({c \in Contexts : Open(c)})
  /\ UNCHANGED <<workerVars, acceptIo, leaked, crash>>

Reset ==
  /\ \A w \in Workers : pc[w] = "exited"
  /\ ShutdownStep("exiting", "done")
  /\ count' = 0
  /\ UNCHANGED <<client, workerVars, acceptIo, leaked, crash>>

-----------------------------------------------------------------------------
(* Undefined behaviour: a NULL BufferReader is dereferenced; Shutdown has  *)
(* deleted the accept operation a worker uses; the port's handle is        *)
(* overwritten with the NULL CreateIoCompletionPort returns for a closed   *)
(* socket.  The model stops there.                                         *)
UsesReader(w) == pc[w] \in {"written", "swap"} \/ (pc[w] = "write" /\ Open(ctx[w]))
NullReader(w) == UsesReader(w) /\ ~client[ctx[w]].reader /\ crash' = "null reader"
FreedAccept(w) ==
  /\ pc[w] \in {"accept", "reject", "repost"} /\ acceptIo[io[w]] = "freed"
  /\ crash' = "freed accept"
LostPort(w) == pc[w] = "register" /\ ~Open(ctx[w]) /\ crash' = "lost port"

Fault(w) ==
  /\ NullReader(w) \/ FreedAccept(w) \/ LostPort(w)
  /\ UNCHANGED <<client, workerVars, acceptIo, count, leaked, shutdown>>

-----------------------------------------------------------------------------
Take(w) ==
  \/ \E c \in Contexts : TakeRead(w, c) \/ TakeWrite(w, c)
  \/ \E a \in Accepts : TakeAccept(w, a)
  \/ TakeNull(w)

Handle(w) ==
  \/ CloseClient(w) \/ Disconnected(w) \/ ExitIOLoop(w) \/ DeleteContext(w)
  \/ PostClientIoRead(w, "firstRead") \/ PostClientIoRead(w, "nextRead")
  \/ Count(w) \/ Reject(w) \/ PostNextAccept(w)
  \/ \E c \in Contexts : AddContext(w, c)
  \/ UpdateCompletionPort(w) \/ NotifyNewConnection(w) \/ NotifyReceivedPackage(w)
  \/ Written(w) \/ SwapBuffer(w) \/ LookAtReader(w) \/ PostClientIoWrite(w)
  \/ Fault(w)

Shutdown ==
  \/ Flag \/ CloseListenSocket \/ CloseClients \/ Reset
  \/ \E a \in Accepts : FreeAccept(a)

Next ==
  /\ crash = "no"
  /\ \/ \E w \in Workers : Take(w) \/ Handle(w)
     \/ \E c \in Contexts : Send(c)
     \/ \E a \in Accepts : AcceptCompletes(a)
     \/ Shutdown

(* Worker threads run, the port hands out its packets in order, and an     *)
(* operation on a closed socket completes.                                 *)
Fairness ==
  /\ \A w \in Workers : WF_vars(crash = "no" /\ Handle(w))
  /\ \A c \in Contexts : SF_vars(crash = "no" /\ \E w \in Workers :
                                   ~Open(c) /\ (TakeRead(w, c) \/ TakeWrite(w, c)))

Spec == Init /\ [][Next]_vars /\ Fairness

-----------------------------------------------------------------------------
Context == [life : {"none", "live", "freed"}, open : BOOLEAN, pending : Nat,
            reader : BOOLEAN, queued : 0 .. MaxQueued, reads : Nat, writes : Nat]

WorkersTyped ==
  /\ pc \in [Workers -> {"idle", "exited", "close", "closed", "release", "delete", "accept",
                         "reject", "repost", "allocate", "register", "announce", "firstRead",
                         "received", "nextRead", "written", "swap", "look", "write"}]
  /\ ctx \in [Workers -> Contexts \cup {NoContext}]
  /\ io \in [Workers -> Accepts \cup {NoAccept}]
  /\ next \in [Workers -> {"idle", "release", "firstRead", "nextRead"}]

TypeOK ==
  /\ client \in [Contexts -> Context]
  /\ WorkersTyped
  /\ acceptIo \in [Accepts -> {"posted", "completed", "taken", "freed"}]
  /\ count \in Int
  /\ leaked \subseteq Contexts
  /\ shutdown \in {"no", "flagged", "freeing", "exiting", "done"}
  /\ crash \in {"no", "null reader", "freed accept", "lost port",
                "deleted object", "short package"}   \* these two in ProtocolServer

(* m_NumberOfPendingIO counts exactly the operations posted for the        *)
(* context and the workers that handle one, so EnterIOLoop and ExitIOLoop  *)
(* balance on every path of the handlers, Send and the failed posts.       *)
Holders(c) == {w \in Workers : ctx[w] = c /\ pc[w] # "delete"}
ReferencesCounted ==
  \A c \in Contexts : Live(c) =>
    client[c].pending = client[c].reads + client[c].writes + Cardinality(Holders(c))
                        + (IF c \in leaked THEN 1 ELSE 0)

(* ReleaseSocketContext never deletes a context that a worker or a posted  *)
(* operation still refers to, and deletes it once.                         *)
NoUseAfterFree ==
  \A c \in Contexts : client[c].life = "freed" =>
    /\ \A w \in Workers : ctx[w] # c
    /\ client[c].reads = 0 /\ client[c].writes = 0

(* When the last reference is gone the socket is closed.  Between          *)
(* ExitIOLoop and DeleteContext the context can still be found in the      *)
(* table; this is why Send(guid) cannot bring it back to life, and why no  *)
(* Send reaches DeleteContext while it holds the client's lock.            *)
LastReferenceClosed == \A c \in Contexts : Live(c) /\ client[c].pending = 0 => ~Open(c)

(* m_nCurrentConnectCount is the number of open clients, plus the accepts  *)
(* being handled and the disconnects not yet counted; and accepts racing   *)
(* on several workers never admit more clients than the limit.             *)
ConnectCount ==
  /\ shutdown # "done" =>
       count = Cardinality({c \in Contexts : Open(c)})
             + Cardinality({w \in Workers : pc[w] \in {"closed", "reject", "repost", "allocate"}})
  /\ Cardinality({c \in Contexts : Open(c)}) <= Limit

(* Callbacks, as the derived classes see them: NotifyNewConnection from    *)
(* AddContext on, NotifyReceivedPackage, and NotifyDisconnectedClient in a *)
(* worker; a CloseClient called in one of them belongs to it.              *)
Within(c, callback, then) ==
  \E w \in Workers : /\ ctx[w] = c
                     /\ pc[w] \in callback \/ (pc[w] \in {"close", "closed"} /\ next[w] = then)
Arriving(c) == Within(c, {"register", "announce"}, "firstRead")
Receiving(c) == Within(c, {"received"}, "nextRead")
Contact == [c \in Contexts |->
  [life |-> client[c].life,
   open |-> Open(c),
   callback |-> IF Arriving(c) THEN "arrival" ELSE IF Receiving(c) THEN "receipt" ELSE "none",
   leaving |-> \E w \in Workers : ctx[w] = c /\ pc[w] = "closed"]]
Callbacks == INSTANCE ServerCallbacks WITH contact <- Contact
ImplementsCallbacks == Callbacks!Spec

(* Each client has at most one read, posted or being handled: its receive  *)
(* buffer and what a derived class has received so far need no lock.       *)
Readers(c) == {w \in Workers : ctx[w] = c /\
                 (pc[w] \in {"received", "nextRead", "register", "announce", "firstRead"}
                  \/ (pc[w] \in {"close", "closed"} /\ next[w] # "release"))}
OneReader == \A c \in Contexts : client[c].reads + Cardinality(Readers(c)) <= 1

(* A closed client is eventually deleted, unless the server shuts down or  *)
(* a context is leaked.                                                    *)
ClosedAreFreed ==
  \A c \in Contexts : (Live(c) /\ ~Open(c)) ~>
    (client[c].life = "freed" \/ c \in leaked \/ shutdown # "no" \/ crash # "no")

(* "If posting fails here, close the socket and release the                *)
(* PER_SOCKET_CONTEXT" (comment in OnClientIoAccept): a context nobody     *)
(* works on and with nothing posted does not stay.                         *)
FailedPostReleases ==
  \A c \in Contexts : Live(c) =>
    client[c].reads + client[c].writes > 0 \/ \E w \in Workers : ctx[w] = c

(* "The buffer is sent completely, [...] take the next one and go on       *)
(* sending" (comment in OnClientIoWrite): one write at a time.             *)
OneWritePosted == \A c \in Contexts : client[c].writes <= 1
=============================================================================
