-------------------------- MODULE IocpServer_proofs --------------------------
(***************************************************************************)
(* Proofs about IocpServer for any number of workers, contexts and accept  *)
(* operations, any limit and any number of sends, with or without a        *)
(* Shutdown.                                                               *)
(***************************************************************************)
EXTENDS IocpServer, FiniteSetTheorems, TLAPS

Free == {"idle", "exited", "accept", "reject", "repost", "allocate"}

HasRead(w) == \/ pc[w] \in {"received", "nextRead", "register", "announce", "firstRead"}
              \/ pc[w] \in {"close", "closed"} /\ next[w] # "release"

(* A worker has a context exactly while it handles one, and that context   *)
(* is in the table; CloseClient knows where to go on.                      *)
Positions ==
  \A w \in Workers :
    /\ pc[w] \in Free => ctx[w] = NoContext
    /\ pc[w] \notin Free => ctx[w] \in Contexts /\ Live(ctx[w])
    /\ pc[w] \in {"close", "closed"} => next[w] # "idle"

(* Nothing refers to an identity that no client has had yet. *)
NotYet ==
  \A c \in Contexts : client[c].life = "none" =>
    /\ ~Open(c) /\ client[c].reads = 0 /\ client[c].writes = 0
    /\ c \notin leaked

(* A worker that deletes a context has taken its last reference, alone. *)
Deleting ==
  \A w \in Workers : pc[w] = "delete" =>
    /\ client[ctx[w]].pending = 0
    /\ \A u \in Workers : pc[u] = "delete" /\ ctx[u] = ctx[w] => u = w

(* What a freed context leaves behind. *)
Gone == \A c \in Contexts : client[c].life = "freed" => client[c].reads = 0 /\ client[c].writes = 0

(* An open client has a read, posted or being handled, or a worker is on   *)
(* its way to close it: the read's reference outlives the open socket.     *)
Attended ==
  \A c \in Contexts : Live(c) /\ Open(c) =>
    \/ client[c].reads > 0
    \/ \E w \in Workers : ctx[w] = c /\ (HasRead(w) \/ pc[w] = "close")

(* OneReader without cardinalities; a leaked context has no reader. *)
Reading ==
  \A c \in Contexts :
    /\ client[c].reads <= 1
    /\ c \in leaked => client[c].reads = 0
    /\ \A w \in Workers : ctx[w] = c /\ HasRead(w) =>
         /\ client[c].reads = 0 /\ c \notin leaked
         /\ \A u \in Workers : ctx[u] = c /\ HasRead(u) => u = w

IInv ==
  /\ TypeOK /\ Positions /\ NotYet /\ Deleting /\ Gone
  /\ ReferencesCounted /\ LastReferenceClosed /\ Attended /\ Reading

-----------------------------------------------------------------------------
(* What the steps do with references.  Handling: the worker holds one.     *)
Handling == {"close", "closed", "release", "register", "announce", "firstRead", "received",
             "nextRead", "written", "swap", "look", "write"}

Same(c) == /\ client'[c].life = client[c].life /\ client'[c].open = client[c].open
           /\ client'[c].pending = client[c].pending
           /\ client'[c].reads = client[c].reads /\ client'[c].writes = client[c].writes
Others(w) == \A u \in Workers \ {w} : pc'[u] = pc[u] /\ ctx'[u] = ctx[u] /\ next'[u] = next[u]
OtherClients(c) == \A d \in Contexts \ {c} : Same(d)
Busy(w) == pc'[w] \in Handling \ {"register"} /\ (pc'[w] \in {"close", "closed"} => next'[w] # "idle")

(* Nothing: only workers without a context move. *)
Aside ==
  /\ \A c \in Contexts : client'[c] = client[c]
  /\ leaked' = leaked
  /\ \A u \in Workers : /\ ctx'[u] = ctx[u] /\ next'[u] = next[u]
                        /\ pc'[u] = pc[u] \/ {pc[u], pc'[u]} \subseteq Free

(* A worker goes on with its context. *)
Walk(w) ==
  /\ pc[w] \in Handling /\ Busy(w) /\ ctx'[w] = ctx[w] /\ Others(w)
  /\ \A c \in Contexts : Same(c)
  /\ leaked' = leaked
  /\ HasRead(w)' => HasRead(w)
  /\ Open(ctx[w]) /\ (HasRead(w) \/ pc[w] = "close") => HasRead(w)' \/ pc'[w] = "close"

(* It closes the client. *)
Shut(w) ==
  /\ pc[w] \in Handling /\ Busy(w) /\ ctx'[w] = ctx[w] /\ Others(w)
  /\ LET c == ctx[w] IN
       /\ OtherClients(c)
       /\ client'[c].life = client[c].life /\ ~client'[c].open
       /\ client'[c].pending = client[c].pending
       /\ client'[c].reads = client[c].reads /\ client'[c].writes = client[c].writes
  /\ leaked' = leaked
  /\ HasRead(w)' => HasRead(w)

(* It takes over the reference of a completed operation. *)
Pick(w, c) ==
  /\ pc[w] = "idle" /\ Busy(w) /\ ctx'[w] = c /\ Others(w)
  /\ OtherClients(c)
  /\ client'[c].life = client[c].life /\ client'[c].open = client[c].open
  /\ client'[c].pending = client[c].pending
  /\ \/ /\ client[c].reads > 0 /\ client'[c].reads = client[c].reads - 1
        /\ client'[c].writes = client[c].writes
        /\ HasRead(w)' \/ pc'[w] = "close"
     \/ /\ client[c].writes > 0 /\ client'[c].writes = client[c].writes - 1
        /\ client'[c].reads = client[c].reads
        /\ ~HasRead(w)'
  /\ leaked' = leaked

(* It leaves its reference to an operation it posts. *)
HandOver(w) ==
  /\ pc[w] \in Handling /\ pc'[w] = "idle" /\ ctx'[w] = NoContext /\ Others(w)
  /\ LET c == ctx[w] IN
       /\ OtherClients(c) /\ Open(c)
       /\ client'[c].life = client[c].life /\ client'[c].open = client[c].open
       /\ client'[c].pending = client[c].pending
       /\ \/ /\ HasRead(w) /\ client'[c].reads = client[c].reads + 1
             /\ client'[c].writes = client[c].writes
          \/ /\ ~HasRead(w) /\ pc[w] # "close" /\ client'[c].writes = client[c].writes + 1
             /\ client'[c].reads = client[c].reads
  /\ leaked' = leaked

(* It forgets its reference. *)
Leak(w) ==
  /\ pc[w] \in Handling /\ pc'[w] = "idle" /\ ctx'[w] = NoContext /\ Others(w)
  /\ HasRead(w) /\ ~Open(ctx[w])
  /\ \A c \in Contexts : Same(c)
  /\ leaked' = leaked \cup {ctx[w]}

(* It gives its reference up; the last one takes it to the delete. *)
GiveUp(w) ==
  /\ pc[w] = "release" /\ Others(w)
  /\ LET c == ctx[w] IN
       /\ OtherClients(c)
       /\ client'[c].life = client[c].life /\ client'[c].open = client[c].open
       /\ client'[c].pending = client[c].pending - 1
       /\ client'[c].reads = client[c].reads /\ client'[c].writes = client[c].writes
       /\ IF client[c].pending = 1 THEN pc'[w] = "delete" /\ ctx'[w] = c
                                   ELSE pc'[w] = "idle" /\ ctx'[w] = NoContext
  /\ leaked' = leaked

Remove(w) ==
  /\ pc[w] = "delete" /\ pc'[w] = "idle" /\ ctx'[w] = NoContext /\ Others(w)
  /\ LET c == ctx[w] IN
       /\ OtherClients(c)
       /\ client'[c].life = "freed" /\ client'[c].open = client[c].open
       /\ client'[c].pending = client[c].pending
       /\ client'[c].reads = client[c].reads /\ client'[c].writes = client[c].writes
  /\ leaked' = leaked

Enter(w, c) ==
  /\ pc[w] = "allocate" /\ pc'[w] = "register" /\ ctx'[w] = c /\ Others(w)
  /\ client[c].life = "none" /\ OtherClients(c)
  /\ client'[c].life = "live" /\ client'[c].open /\ client'[c].pending = 1
  /\ client'[c].reads = 0 /\ client'[c].writes = 0
  /\ leaked' = leaked

Still == /\ \A u \in Workers : pc'[u] = pc[u] /\ ctx'[u] = ctx[u] /\ next'[u] = next[u]
         /\ leaked' = leaked

Write(c) ==
  /\ Still /\ Live(c) /\ Announced(c) /\ Open(c) /\ OtherClients(c)
  /\ client'[c].life = "live" /\ client'[c].open
  /\ client'[c].pending = client[c].pending + 1
  /\ client'[c].reads = client[c].reads /\ client'[c].writes = client[c].writes + 1

(* Clients are closed by a Send that fails or by Shutdown. *)
ShutOutside(S) ==
  /\ Still
  /\ (\A c \in S : Announced(c)) \/ shutdown' = "exiting"
  /\ \A c \in S : /\ client'[c].life = client[c].life /\ ~client'[c].open
                  /\ client'[c].pending = client[c].pending
                  /\ client'[c].reads = client[c].reads /\ client'[c].writes = client[c].writes
  /\ \A c \in Contexts \ S : Same(c)

(* Every step is one of these. *)
Kinds ==
  \/ Aside
  \/ Still /\ \A d \in Contexts : Same(d)
  \/ \E w \in Workers :
       \/ Walk(w) \/ Shut(w) \/ HandOver(w) \/ Leak(w) \/ GiveUp(w) \/ Remove(w)
       \/ \E c \in Contexts : Pick(w, c) \/ Enter(w, c)
  \/ \E c \in Contexts : Write(c)
  \/ \E S \in SUBSET Contexts : ShutOutside(S)

LEMMA StepKinds ==
  ASSUME TypeOK, Positions, LastReferenceClosed, [Next]_vars
  PROVE  Kinds
<1>1. ASSUME NEW w \in Workers, NEW c \in Contexts, TakeRead(w, c) PROVE Pick(w, c)
  <2>1. pc[w] = "idle" /\ ctx'[w] = c /\ Others(w) /\ leaked' = leaked
    BY <1>1 DEF TypeOK, WorkersTyped, TakeRead, workerVars, serverVars, Others
  <2>2. client[c].reads \in Nat /\ client' = [client EXCEPT ![c].reads = @ - 1] /\ client[c].reads > 0
    BY <1>1 DEF TypeOK, WorkersTyped, Context, TakeRead
  <2>3. Busy(w) /\ (HasRead(w)' \/ pc'[w] = "close")
    BY <1>1 DEF TypeOK, WorkersTyped, Context, TakeRead, Busy, Handling, HasRead
  <2>4. /\ OtherClients(c)
        /\ client'[c].life = client[c].life /\ client'[c].open = client[c].open
        /\ client'[c].pending = client[c].pending
        /\ client'[c].reads = client[c].reads - 1 /\ client'[c].writes = client[c].writes
    BY <2>2 DEF TypeOK, Context, OtherClients, Same
  <2> QED BY <2>1, <2>2, <2>3, <2>4 DEF Pick
<1>2. ASSUME NEW w \in Workers, NEW c \in Contexts, TakeWrite(w, c) PROVE Pick(w, c)
  <2>1. pc[w] = "idle" /\ ctx'[w] = c /\ Others(w) /\ leaked' = leaked
    BY <1>2 DEF TypeOK, WorkersTyped, TakeWrite, workerVars, serverVars, Others
  <2>2. client[c].writes \in Nat /\ client' = [client EXCEPT ![c].writes = @ - 1] /\ client[c].writes > 0
    BY <1>2 DEF TypeOK, WorkersTyped, Context, TakeWrite
  <2>3. Busy(w) /\ ~HasRead(w)'
    BY <1>2 DEF TypeOK, WorkersTyped, Context, TakeWrite, Busy, Handling, HasRead
  <2>4. /\ OtherClients(c)
        /\ client'[c].life = client[c].life /\ client'[c].open = client[c].open
        /\ client'[c].pending = client[c].pending
        /\ client'[c].writes = client[c].writes - 1 /\ client'[c].reads = client[c].reads
    BY <2>2 DEF TypeOK, Context, OtherClients, Same
  <2> QED BY <2>1, <2>2, <2>3, <2>4 DEF Pick
<1>3. ASSUME NEW w \in Workers, NEW a \in Accepts, TakeAccept(w, a) PROVE Aside
  BY <1>3, SetsAssumption DEF TypeOK, WorkersTyped, Positions, Free, TakeAccept, workerVars,
       serverVars, Aside
<1>4. ASSUME NEW w \in Workers, TakeNull(w) PROVE Aside
  BY <1>4, SetsAssumption DEF TypeOK, WorkersTyped, Positions, Free, TakeNull, Goto, workerVars,
       serverVars, Aside
<1>5. ASSUME NEW w \in Workers, CloseClient(w) PROVE (Walk(w) \/ Shut(w))
  <2>1. /\ pc[w] = "close" /\ ctx'[w] = ctx[w] /\ Others(w) /\ leaked' = leaked
        /\ ctx[w] \in Contexts
    BY <1>5 DEF TypeOK, WorkersTyped, Positions, Free, CloseClient, serverVars, Others
  <2>2. CASE Open(ctx[w])
    <3>1. pc'[w] = "closed" /\ next'[w] = next[w] /\ next[w] # "idle"
      BY <1>5, <2>1, <2>2 DEF TypeOK, WorkersTyped, Context, Positions, Free, CloseClient
    <3>2. client' = [client EXCEPT ![ctx[w]].open = FALSE]
      BY <1>5 DEF CloseClient
    <3> QED BY <2>1, <3>1, <3>2 DEF TypeOK, Context, Shut, Busy, Handling, HasRead, OtherClients,
         Same
  <2>3. CASE ~Open(ctx[w])
    <3>1. pc'[w] = next[w] /\ next[w] \in {"release", "firstRead", "nextRead"} /\ next'[w] = "idle"
      BY <1>5, <2>1, <2>3 DEF TypeOK, WorkersTyped, Context, Positions, Free, CloseClient
    <3>2. \A c \in Contexts : Same(c)
      <4>1. client' = [client EXCEPT ![ctx[w]].open = FALSE]
        BY <1>5 DEF CloseClient
      <4>2. client \in [Contexts -> Context] /\ client[ctx[w]].open = FALSE
        BY <2>1, <2>3 DEF TypeOK, Context, Open
      <4> QED BY <2>1, <4>1, <4>2 DEF Context, Same
    <3> QED BY <2>1, <2>3, <3>1, <3>2 DEF Walk, Busy, Handling, HasRead
  <2> QED BY <2>2, <2>3
<1>6. ASSUME NEW w \in Workers, Disconnected(w) PROVE Walk(w)
  BY <1>6, SetsAssumption DEF TypeOK, WorkersTyped, Positions, Free, Open, Disconnected,
       workerVars, serverVars, Walk, Busy, Handling, HasRead, Same, Others, OtherClients
<1>7. ASSUME NEW w \in Workers, ExitIOLoop(w) PROVE GiveUp(w)
  <2>1. pc[w] = "release" /\ ctx[w] \in Contexts /\ Others(w) /\ leaked' = leaked
    BY <1>7 DEF TypeOK, WorkersTyped, Positions, Free, ExitIOLoop, Goto, serverVars, Others
  <2>2. IF client[ctx[w]].pending = 1 THEN pc'[w] = "delete" /\ ctx'[w] = ctx[w]
                                     ELSE pc'[w] = "idle" /\ ctx'[w] = NoContext
    BY <1>7 DEF TypeOK, WorkersTyped, ExitIOLoop, Goto
  <2>3. client' = [client EXCEPT ![ctx[w]].pending = @ - 1]
    BY <1>7 DEF ExitIOLoop
  <2> QED BY <2>1, <2>2, <2>3 DEF TypeOK, Context, GiveUp, OtherClients, Same
<1>8. ASSUME NEW w \in Workers, DeleteContext(w) PROVE Remove(w)
  <2>1. /\ pc[w] = "delete" /\ pc'[w] = "idle" /\ ctx'[w] = NoContext
        /\ ctx[w] \in Contexts /\ Others(w) /\ leaked' = leaked
    BY <1>8 DEF TypeOK, WorkersTyped, Positions, Free, DeleteContext, Goto, serverVars, Others
  <2>2. \A c \in Contexts : client'[c] = IF c = ctx[w] THEN Freed(client[c]) ELSE client[c]
    BY <1>8 DEF TypeOK, WorkersTyped, Context, DeleteContext
  <2>3. client[ctx[w]] \in Context
    BY <2>1 DEF TypeOK, WorkersTyped, Context
  <2> QED BY <2>1, <2>2, <2>3 DEF Context, Freed, Remove, OtherClients, Same
<1>9. ASSUME NEW w \in Workers, NEW here \in {"firstRead", "nextRead"}, PostClientIoRead(w, here)
      PROVE (Walk(w) \/ HandOver(w) \/ Leak(w))
  <2>1. pc[w] = here /\ ctx[w] \in Contexts /\ HasRead(w) /\ pc[w] \in Handling
    BY <1>9 DEF TypeOK, WorkersTyped, Context, Positions, Free, PostClientIoRead, HasRead, Handling
  <2>2. CASE Open(ctx[w]) /\ Goto(w, here, "idle") /\ client' = [client EXCEPT ![ctx[w]].reads = @ + 1] /\ leaked' = leaked
    <3>1. pc'[w] = "idle" /\ ctx'[w] = NoContext /\ Others(w)
      BY <2>2 DEF TypeOK, WorkersTyped, Goto, Others
    <3> QED BY <2>1, <2>2, <3>1 DEF TypeOK, Context, HandOver, OtherClients, Same
  <2>3. CASE GotoClose(w, here, "release") /\ client' = client /\ leaked' = leaked
    <3>1. pc'[w] = "close" /\ next'[w] = "release" /\ ctx'[w] = ctx[w] /\ Others(w)
      BY <2>3 DEF TypeOK, WorkersTyped, GotoClose, Others
    <3> QED BY <2>1, <2>3, <3>1 DEF Walk, Busy, Handling, HasRead, Same
  <2>4. CASE ~Open(ctx[w]) /\ Goto(w, here, "idle") /\ leaked' = leaked \cup {ctx[w]} /\ client' = client
    <3>1. pc'[w] = "idle" /\ ctx'[w] = NoContext /\ Others(w)
      BY <2>4 DEF TypeOK, WorkersTyped, Goto, Others
    <3> QED BY <2>1, <2>4, <3>1 DEF Leak, Same
  <2> QED BY <1>9, <2>2, <2>3, <2>4 DEF PostClientIoRead
<1>10. ASSUME NEW w \in Workers, Count(w) PROVE Aside
  BY <1>10, SetsAssumption DEF TypeOK, WorkersTyped, Positions, Free, Count, Goto, workerVars,
       serverVars, Aside
<1>11. ASSUME NEW w \in Workers, Reject(w) PROVE Aside
  BY <1>11, SetsAssumption DEF TypeOK, WorkersTyped, Positions, Free, Reject, Repost,
       CreateAcceptSocket, workerVars, serverVars, Aside
<1>12. ASSUME NEW w \in Workers, PostNextAccept(w) PROVE Aside
  BY <1>12, SetsAssumption DEF TypeOK, WorkersTyped, Positions, Free, PostNextAccept, Repost,
       CreateAcceptSocket, workerVars, serverVars, Aside
<1>13. ASSUME NEW w \in Workers, NEW c \in Contexts, AddContext(w, c) PROVE Enter(w, c)
  BY <1>13, SetsAssumption DEF TypeOK, WorkersTyped, Context, Positions, Free, LastReferenceClosed,
       Live, Open, AddContext, Accepted, NoClient, workerVars, serverVars, Enter, Same, Others,
       OtherClients
<1>14. ASSUME NEW w \in Workers, UpdateCompletionPort(w) PROVE Walk(w)
  BY <1>14, SetsAssumption DEF TypeOK, WorkersTyped, Positions, Free, Open, UpdateCompletionPort,
       Goto, workerVars, serverVars, Walk, Busy, Handling, HasRead, Same, Others, OtherClients
<1>15. ASSUME NEW w \in Workers, NotifyNewConnection(w) PROVE Walk(w)
  BY <1>15, SetsAssumption DEF TypeOK, WorkersTyped, Positions, Free, Open, NotifyNewConnection,
       Goto, GotoClose, workerVars, serverVars, Walk, Busy, Handling, HasRead, Same, Others,
       OtherClients
<1>16. ASSUME NEW w \in Workers, NotifyReceivedPackage(w) PROVE Walk(w)
  BY <1>16, SetsAssumption DEF TypeOK, WorkersTyped, Positions, Free, Open, NotifyReceivedPackage,
       Goto, GotoClose, workerVars, serverVars, Walk, Busy, Handling, HasRead, Same, Others,
       OtherClients
<1>17. ASSUME NEW w \in Workers, Written(w) PROVE Walk(w)
  <2>1. pc[w] = "written" /\ ctx[w] \in Contexts
    BY <1>17 DEF Positions, Free, Written, Goto
  <2> QED BY <1>17, <2>1, SetsAssumption DEF TypeOK, WorkersTyped, Written, Goto, workerVars,
       serverVars, Walk, Busy, Handling, HasRead, Same, Others, OtherClients
<1>18. ASSUME NEW w \in Workers, SwapBuffer(w) PROVE Walk(w)
  <2>1. pc[w] = "swap" /\ pc'[w] = "look" /\ ctx'[w] = ctx[w] /\ Others(w) /\ leaked' = leaked
    BY <1>18 DEF TypeOK, WorkersTyped, SwapBuffer, Goto, serverVars, Others
  <2>2. \A c \in Contexts : Same(c)
    <3>1. PICK r, q : client' = [client EXCEPT ![ctx[w]].reader = r, ![ctx[w]].queued = q]
      BY <1>18 DEF SwapBuffer
    <3> TAKE c \in Contexts
    <3>2. client[c] \in Context /\ DOMAIN client = Contexts
      BY DEF TypeOK, WorkersTyped, Context
    <3>3. client'[c] = IF c = ctx[w] THEN [client[c] EXCEPT !.reader = r, !.queued = q] ELSE client[c]
      BY <3>1, <3>2
    <3> QED BY <3>2, <3>3 DEF Same, Context
  <2> QED BY <2>1, <2>2 DEF Walk, Busy, Handling, HasRead
<1>19. ASSUME NEW w \in Workers, LookAtReader(w) PROVE Walk(w)
  BY <1>19, SetsAssumption DEF TypeOK, WorkersTyped, Positions, Free, Open, LookAtReader, Goto,
       workerVars, serverVars, Walk, Busy, Handling, HasRead, Same, Others, OtherClients
<1>20. ASSUME NEW w \in Workers, PostClientIoWrite(w) PROVE (Walk(w) \/ HandOver(w))
  <2>1. pc[w] = "write" /\ ctx[w] \in Contexts /\ ~HasRead(w) /\ pc[w] \in Handling /\ leaked' = leaked
    BY <1>20 DEF TypeOK, WorkersTyped, Positions, Free, PostClientIoWrite, Goto, GotoClose,
         serverVars, HasRead, Handling
  <2>2. CASE Goto(w, "write", "idle") /\ Open(ctx[w]) /\ client' = [client EXCEPT ![ctx[w]].writes = @ + 1]
    <3>1. pc'[w] = "idle" /\ ctx'[w] = NoContext /\ Others(w)
      BY <2>2 DEF TypeOK, WorkersTyped, Goto, Others
    <3> QED BY <2>1, <2>2, <3>1 DEF TypeOK, Context, HandOver, OtherClients, Same
  <2>3. CASE GotoClose(w, "write", "release") /\ client' = client
    <3>1. pc'[w] = "close" /\ next'[w] = "release" /\ ctx'[w] = ctx[w] /\ Others(w)
      BY <2>3 DEF TypeOK, WorkersTyped, GotoClose, Others
    <3> QED BY <2>1, <2>3, <3>1 DEF Walk, Busy, Handling, HasRead, Same
  <2> QED BY <1>20, <2>2, <2>3 DEF PostClientIoWrite
<1>21. ASSUME NEW w \in Workers, Fault(w) PROVE Aside
  BY <1>21, SetsAssumption DEF TypeOK, WorkersTyped, Positions, Free, Fault, NullReader,
       FreedAccept, LostPort, workerVars, serverVars, Aside
<1>22. ASSUME NEW c \in Contexts, Send(c), SendQueued(c) PROVE Still /\ \A d \in Contexts : Same(d)
  <2>1. Still
    BY <1>22 DEF Send, workerVars, Still
  <2>2. client' = [client EXCEPT ![c].queued = @ + 1]
    BY <1>22 DEF SendQueued
  <2> QED BY <2>1, <2>2 DEF TypeOK, Context, Same
<1>23. ASSUME NEW c \in Contexts, Send(c), SendPosted(c) PROVE Write(c)
  <2>1. Still /\ Live(c) /\ Announced(c) /\ Open(c)
    BY <1>23 DEF Send, Announced, workerVars, Still
  <2>2. client' = [client EXCEPT ![c].reader = TRUE, ![c].writes = @ + 1, ![c].pending = @ + 1]
    BY <1>23 DEF SendPosted
  <2>3. client'[c] = [client[c] EXCEPT !.reader = TRUE, !.writes = @ + 1, !.pending = @ + 1]
    BY <2>2 DEF TypeOK
  <2>4. OtherClients(c)
    BY <2>2 DEF TypeOK, OtherClients, Same
  <2>5. client[c] \in Context
    BY DEF TypeOK
  <2> QED BY <2>1, <2>3, <2>4, <2>5 DEF Context, Write, Live, Open
<1>24. ASSUME NEW c \in Contexts, Send(c), SendFailed(c)
       PROVE \E S \in SUBSET Contexts : ShutOutside(S)
  <2>1. Still /\ Live(c) /\ Announced(c) /\ Open(c) /\ client[c] \in Context
    BY <1>24 DEF TypeOK, WorkersTyped, Context, Send, Announced, SendFailed, workerVars, Still
  <2>2. client[c].pending # 0
    BY <2>1 DEF LastReferenceClosed
  <2>3. client' = [client EXCEPT ![c] = [@ EXCEPT !.reader = TRUE, !.open = FALSE]]
    BY <1>24, <2>2 DEF SendFailed
  <2>4. ShutOutside({c})
    BY <2>1, <2>3 DEF TypeOK, Context, ShutOutside, Same
  <2> QED BY <2>4
<1>25. ASSUME NEW a \in Accepts, AcceptCompletes(a) PROVE Aside
  BY <1>25, SetsAssumption DEF TypeOK, WorkersTyped, Positions, Free, AcceptCompletes, workerVars,
       serverVars, Aside
<1>26. ASSUME Flag PROVE Aside
  BY <1>26, SetsAssumption DEF TypeOK, WorkersTyped, Positions, Free, Flag, ShutdownStep,
       workerVars, serverVars, Aside
<1>27. ASSUME CloseListenSocket PROVE Aside
  BY <1>27, SetsAssumption DEF TypeOK, WorkersTyped, Positions, Free, CloseListenSocket,
       ShutdownStep, workerVars, serverVars, Aside
<1>28. ASSUME NEW a \in Accepts, FreeAccept(a) PROVE Aside
  BY <1>28, SetsAssumption DEF TypeOK, WorkersTyped, Positions, Free, FreeAccept, workerVars,
       serverVars, Aside
<1>29. ASSUME CloseClients PROVE \E S \in SUBSET Contexts : ShutOutside(S)
  <2>1. Still /\ shutdown' = "exiting"
    BY <1>29 DEF CloseClients, ShutdownStep, workerVars, Still
  <2>2. \A c \in Contexts : client'[c] = [client[c] EXCEPT !.open = FALSE]
    BY <1>29 DEF CloseClients
  <2>3. \A c \in Contexts : /\ client'[c].life = client[c].life /\ ~client'[c].open
                            /\ client'[c].pending = client[c].pending
                            /\ client'[c].reads = client[c].reads /\ client'[c].writes = client[c].writes
    <3> TAKE c \in Contexts
    <3>1. client[c] \in Context
      BY DEF TypeOK, WorkersTyped, Context
    <3> QED BY <2>2, <3>1 DEF Context
  <2>4. ShutOutside(Contexts)
    BY <2>1, <2>3 DEF ShutOutside
  <2> QED BY <2>4
<1>30. ASSUME Reset PROVE Aside
  BY <1>30, SetsAssumption DEF TypeOK, WorkersTyped, Positions, Free, Reset, ShutdownStep,
       workerVars, serverVars, Aside
<1>31. CASE UNCHANGED vars
  <2>1. client' = client /\ pc' = pc /\ ctx' = ctx /\ next' = next /\ leaked' = leaked
    BY <1>31 DEF vars
  <2> QED BY <2>1 DEF Still, Same, Kinds
<1>32. ASSUME NEW w \in Workers, Take(w) PROVE Kinds
  BY <1>32, <1>1, <1>2, <1>3, <1>4 DEF Take, Kinds
<1>33. ASSUME NEW w \in Workers, Handle(w) PROVE Kinds
  BY <1>33, <1>5, <1>6, <1>7, <1>8, <1>9, <1>10, <1>11, <1>12, <1>13, <1>14, <1>15, <1>16, <1>17,
       <1>18, <1>19, <1>20, <1>21 DEF Handle, Kinds
<1>34. ASSUME NEW c \in Contexts, Send(c) PROVE Kinds
  BY <1>34, <1>22, <1>23, <1>24 DEF Send, Kinds
<1>35. ASSUME Shutdown PROVE Kinds
  BY <1>35, <1>26, <1>27, <1>28, <1>29, <1>30 DEF Shutdown, Kinds
<1> QED BY <1>25, <1>31, <1>32, <1>33, <1>34, <1>35 DEF Next, Kinds

-----------------------------------------------------------------------------
(* What ReferencesCounted says of the last reference. *)
LEMMA HoldersFinite ==
  ASSUME NEW c \in Contexts
  PROVE  IsFiniteSet(Holders(c)) /\ Cardinality(Holders(c)) \in Nat
<1>1. Holders(c) \subseteq Workers
  BY DEF Holders
<1> QED BY <1>1, SetsAssumption, FS_Subset, FS_CardinalityType

LEMMA OneHolder ==
  ASSUME NEW c \in Contexts, NEW w \in Holders(c)
  PROVE  /\ Cardinality(Holders(c)) >= 1
         /\ Cardinality(Holders(c)) = 1 => \A u \in Holders(c) : u = w
<1>1. {w} \subseteq Holders(c) /\ Cardinality({w}) = 1
  BY FS_Singleton
<1>2. Cardinality({w}) <= Cardinality(Holders(c))
  BY <1>1, HoldersFinite, FS_Subset
<1>3. Cardinality({w}) = Cardinality(Holders(c)) => {w} = Holders(c)
  BY <1>1, HoldersFinite, FS_Subset
<1> QED BY <1>1, <1>2, <1>3, HoldersFinite

LEMMA LastReference ==
  ASSUME TypeOK, Positions, Deleting, ReferencesCounted,
         NEW w \in Workers, pc[w] \in Handling, client[ctx[w]].pending <= 1
  PROVE  LET c == ctx[w] IN
         /\ client[c].pending = 1 /\ client[c].reads = 0 /\ client[c].writes = 0 /\ c \notin leaked
         /\ \A u \in Workers : ctx[u] = c => u = w
<1> DEFINE c == ctx[w]
<1>1. c \in Contexts /\ Live(c) /\ w \in Holders(c)
  BY DEF Positions, Free, Holders, Handling
<1>2. /\ client[c].reads \in Nat /\ client[c].writes \in Nat /\ client[c].pending \in Nat
      /\ Cardinality(Holders(c)) \in Nat
  BY <1>1, HoldersFinite DEF TypeOK, WorkersTyped, Context
<1>3. client[c].pending = client[c].reads + client[c].writes + Cardinality(Holders(c))
                          + (IF c \in leaked THEN 1 ELSE 0)
  BY <1>1 DEF ReferencesCounted
<1>4. Cardinality(Holders(c)) >= 1
  BY <1>1, OneHolder
<1>5. /\ client[c].pending = 1 /\ client[c].reads = 0 /\ client[c].writes = 0 /\ c \notin leaked
      /\ Cardinality(Holders(c)) = 1
  BY <1>2, <1>3, <1>4
<1>6. ASSUME NEW u \in Workers, ctx[u] = c PROVE u = w
  <2>1. pc[u] # "delete"
    BY <1>5, <1>6 DEF Deleting
  <2> QED BY <1>1, <1>5, <1>6, <2>1, OneHolder DEF Holders
<1> QED BY <1>5, <1>6

LEMMA NoReference ==
  ASSUME TypeOK, Positions, Deleting, ReferencesCounted,
         NEW w \in Workers, pc[w] = "delete", NEW c, c = ctx[w]
  PROVE  /\ c \in Contexts /\ Live(c) /\ c \notin leaked
         /\ client[c].pending = 0 /\ client[c].reads = 0 /\ client[c].writes = 0
         /\ \A u \in Workers : ctx[u] = c => u = w
<1>1. c \in Contexts /\ Live(c) /\ client[c].pending = 0
  BY DEF Positions, Deleting, Free
<1>2. /\ client[c].reads \in Nat /\ client[c].writes \in Nat /\ Cardinality(Holders(c)) \in Nat
  BY <1>1, HoldersFinite DEF TypeOK, WorkersTyped, Context
<1>3. 0 = client[c].reads + client[c].writes + Cardinality(Holders(c)) + (IF c \in leaked THEN 1 ELSE 0)
  BY <1>1 DEF ReferencesCounted
<1>4. client[c].reads = 0 /\ client[c].writes = 0 /\ c \notin leaked /\ Cardinality(Holders(c)) = 0
  BY <1>2, <1>3
<1>5. ASSUME NEW u \in Workers, ctx[u] = c PROVE u = w
  <2>1. u \notin Holders(c)
    BY <1>1, <1>4, OneHolder
  <2> QED BY <1>5, <2>1 DEF Holders, Deleting
<1> QED BY <1>1, <1>4, <1>5

-----------------------------------------------------------------------------

LEMMA Numbers ==
  ASSUME TypeOK, NEW c \in Contexts
  PROVE  /\ client[c].pending \in Nat /\ client[c].reads \in Nat /\ client[c].writes \in Nat
         /\ client[c].life \in {"none", "live", "freed"}
  BY DEF TypeOK, WorkersTyped, Context

LEMMA PickedIsLive ==
  ASSUME TypeOK, NotYet, Gone, NEW w \in Workers, NEW c \in Contexts, Pick(w, c)
  PROVE  Live(c)
<1>1. client[c].reads > 0 \/ client[c].writes > 0
  BY DEF Pick
<1> QED BY <1>1, Numbers DEF NotYet, Gone, Live

-----------------------------------------------------------------------------

(* A worker gets a context with a completion or a new client, and lets go *)
(* of it when it is done; a context is deleted by the only worker that has *)
(* it.                                                                     *)
LEMMA PositionsStep ==
  ASSUME TypeOK, Positions, NotYet, Gone, Deleting, ReferencesCounted, Kinds
  PROVE  Positions'
<1>1. ASSUME Aside PROVE Positions'
  BY <1>1, SetsAssumption DEF Positions, Free, Live, Aside
<1>2. ASSUME Still, \A d \in Contexts : Same(d) PROVE Positions'
  BY <1>2, SetsAssumption DEF Positions, Free, Live, Still, Same
<1>3. ASSUME NEW w \in Workers, Walk(w) PROVE Positions'
  BY <1>3, SetsAssumption DEF Positions, Free, Live, Walk, Same, Others, Busy, Handling
<1>4. ASSUME NEW w \in Workers, Shut(w) PROVE Positions'
  BY <1>4, SetsAssumption DEF Positions, Free, Live, Shut, Others, OtherClients, Same, Busy,
       Handling
<1>5. ASSUME NEW w \in Workers, HandOver(w) PROVE Positions'
  BY <1>5, SetsAssumption DEF Positions, Free, Live, HandOver, Others, OtherClients, Same, Handling
<1>6. ASSUME NEW w \in Workers, Leak(w) PROVE Positions'
  BY <1>6, SetsAssumption DEF Positions, Free, Live, Leak, Others, Same, Handling
<1>7. ASSUME NEW w \in Workers, GiveUp(w) PROVE Positions'
  BY <1>7, SetsAssumption DEF Positions, Free, Live, GiveUp, Others, OtherClients, Same
<1>8. ASSUME NEW w \in Workers, Remove(w) PROVE Positions'
  BY <1>8, SetsAssumption, NoReference DEF Positions, Free, Live, Remove, Others, OtherClients, Same
<1>9. ASSUME NEW w \in Workers, NEW c \in Contexts, Pick(w, c) PROVE Positions'
  BY <1>9, PickedIsLive, SetsAssumption DEF Positions, Free, Live, Pick, Others, OtherClients,
       Same, Busy, Handling
<1>10. ASSUME NEW w \in Workers, NEW c \in Contexts, Enter(w, c) PROVE Positions'
  BY <1>10, SetsAssumption DEF Positions, Free, Live, Enter, Others, OtherClients, Same
<1>11. ASSUME NEW c \in Contexts, Write(c) PROVE Positions'
  BY <1>11, SetsAssumption DEF Positions, Free, Live, Write, Still, OtherClients, Same
<1>12. ASSUME NEW S \in SUBSET Contexts, ShutOutside(S) PROVE Positions'
  BY <1>12, SetsAssumption DEF Positions, Free, Live, ShutOutside, Still, Same
<1> QED BY <1>1, <1>2, <1>3, <1>4, <1>5, <1>6, <1>7, <1>8, <1>9, <1>10, <1>11, <1>12 DEF Kinds

(* An identity is not referred to before its client arrives. *)
LEMMA NotYetStep ==
  ASSUME TypeOK, Positions, NotYet, Gone, Kinds
  PROVE  NotYet'
<1>1. ASSUME Aside PROVE NotYet'
  BY <1>1 DEF Positions, Free, Live, NotYet, Open, Aside
<1>2. ASSUME Still, \A d \in Contexts : Same(d) PROVE NotYet'
  BY <1>2 DEF Positions, Free, Live, NotYet, Open, Still, Same
<1>3. ASSUME NEW w \in Workers, Walk(w) PROVE NotYet'
  BY <1>3 DEF Positions, Free, Live, NotYet, Open, Walk, Same, Others, Busy, Handling
<1>4. ASSUME NEW w \in Workers, Shut(w) PROVE NotYet'
  BY <1>4 DEF Positions, Free, Live, NotYet, Open, Shut, Others, OtherClients, Same, Busy, Handling
<1>5. ASSUME NEW w \in Workers, HandOver(w) PROVE NotYet'
  BY <1>5 DEF Positions, Free, Live, NotYet, Open, HandOver, Others, OtherClients, Same, Handling
<1>6. ASSUME NEW w \in Workers, Leak(w) PROVE NotYet'
  BY <1>6 DEF Positions, Free, Live, NotYet, Open, Leak, Others, Same, Handling
<1>7. ASSUME NEW w \in Workers, GiveUp(w) PROVE NotYet'
  BY <1>7 DEF Positions, Free, Live, NotYet, Open, GiveUp, Others, OtherClients, Same
<1>8. ASSUME NEW w \in Workers, Remove(w) PROVE NotYet'
  BY <1>8 DEF Positions, Free, Live, NotYet, Open, Remove, Others, OtherClients, Same
<1>9. ASSUME NEW w \in Workers, NEW c \in Contexts, Pick(w, c) PROVE NotYet'
  BY <1>9, PickedIsLive DEF Live, NotYet, Open, Pick, Others, OtherClients, Same, Busy, Handling
<1>10. ASSUME NEW w \in Workers, NEW c \in Contexts, Enter(w, c) PROVE NotYet'
  BY <1>10 DEF Positions, Free, Live, NotYet, Open, Enter, Others, OtherClients, Same
<1>11. ASSUME NEW c \in Contexts, Write(c) PROVE NotYet'
  BY <1>11 DEF Positions, Free, Live, NotYet, Open, Write, Still, OtherClients, Same
<1>12. ASSUME NEW S \in SUBSET Contexts, ShutOutside(S) PROVE NotYet'
  BY <1>12 DEF Positions, Free, Live, NotYet, Open, ShutOutside, Still, Same
<1> QED BY <1>1, <1>2, <1>3, <1>4, <1>5, <1>6, <1>7, <1>8, <1>9, <1>10, <1>11, <1>12 DEF Kinds

(* Only ExitIOLoop leads to the delete, with the last reference. *)
LEMMA DeletingStep ==
  ASSUME TypeOK, Positions, NotYet, Gone, Deleting, LastReferenceClosed, ReferencesCounted, Kinds
  PROVE  Deleting'
<1>1. ASSUME Aside PROVE Deleting'
  BY <1>1 DEF Positions, Free, Deleting, Live, Open, Aside
<1>2. ASSUME Still, \A d \in Contexts : Same(d) PROVE Deleting'
  BY <1>2 DEF Positions, Free, Deleting, Live, Open, Still, Same
<1>3. ASSUME NEW w \in Workers, Walk(w) PROVE Deleting'
  BY <1>3 DEF Positions, Free, Deleting, Live, Open, Walk, Same, Others, Busy, Handling
<1>4. ASSUME NEW w \in Workers, Shut(w) PROVE Deleting'
  BY <1>4 DEF Positions, Free, Deleting, Live, Open, Shut, Others, OtherClients, Same, Busy,
       Handling
<1>5. ASSUME NEW w \in Workers, HandOver(w) PROVE Deleting'
  BY <1>5 DEF Positions, Free, Deleting, Live, Open, HandOver, Others, OtherClients, Same, Handling
<1>6. ASSUME NEW w \in Workers, Leak(w) PROVE Deleting'
  BY <1>6 DEF Positions, Free, Deleting, Live, Open, Leak, Others, Same, Handling
<1>7. ASSUME NEW w \in Workers, GiveUp(w) PROVE Deleting'
  <2>1. CASE client[ctx[w]].pending = 1
    <3>1. \A u \in Workers : ctx[u] = ctx[w] => u = w
      BY <1>7, <2>1, LastReference DEF Handling, GiveUp
    <3>2. client[ctx[w]].pending - 1 = 0 /\ ctx[w] \in Contexts
      BY <1>7, <2>1 DEF Positions, Free, GiveUp
    <3> QED BY <1>7, <2>1, <3>1, <3>2 DEF Deleting, Positions, Free, GiveUp, Others, OtherClients,
         Same
  <2>2. CASE client[ctx[w]].pending # 1
    <3>1. \A u \in Workers : pc[u] = "delete" => ctx[u] # ctx[w]
      <4>1. ASSUME NEW u \in Workers, pc[u] = "delete", ctx[u] = ctx[w] PROVE u = w
        BY <4>1, NoReference
      <4> QED BY <1>7, <4>1 DEF GiveUp
    <3> QED BY <1>7, <2>2, <3>1 DEF Deleting, Positions, Free, GiveUp, Others, OtherClients, Same
  <2> QED BY <2>1, <2>2
<1>8. ASSUME NEW w \in Workers, Remove(w) PROVE Deleting'
  BY <1>8, NoReference, SetsAssumption DEF Positions, Free, Deleting, Live, Open, Remove, Others,
       OtherClients, Same
<1>9. ASSUME NEW w \in Workers, NEW c \in Contexts, Pick(w, c) PROVE Deleting'
  BY <1>9 DEF Positions, Free, Deleting, Live, Open, Pick, Others, OtherClients, Same, Busy,
       Handling
<1>10. ASSUME NEW w \in Workers, NEW c \in Contexts, Enter(w, c) PROVE Deleting'
  BY <1>10 DEF Positions, Free, Deleting, Live, Open, Enter, Others, OtherClients, Same
<1>11. ASSUME NEW c \in Contexts, Write(c) PROVE Deleting'
  BY <1>11 DEF Positions, Free, Deleting, LastReferenceClosed, Live, Open, Write, Still,
       OtherClients, Same
<1>12. ASSUME NEW S \in SUBSET Contexts, ShutOutside(S) PROVE Deleting'
  BY <1>12 DEF Positions, Free, Deleting, Live, Open, ShutOutside, Still, Same
<1> QED BY <1>1, <1>2, <1>3, <1>4, <1>5, <1>6, <1>7, <1>8, <1>9, <1>10, <1>11, <1>12 DEF Kinds

(* What is deleted has nothing posted and is left alone. *)
LEMMA GoneStep ==
  ASSUME TypeOK, Positions, NotYet, Gone, Deleting, ReferencesCounted, Kinds
  PROVE  Gone'
<1>1. ASSUME Aside PROVE Gone'
  BY <1>1 DEF Positions, Free, Gone, Live, Aside
<1>2. ASSUME Still, \A d \in Contexts : Same(d) PROVE Gone'
  BY <1>2 DEF Positions, Free, Gone, Live, Still, Same
<1>3. ASSUME NEW w \in Workers, Walk(w) PROVE Gone'
  BY <1>3 DEF Positions, Free, Gone, Live, Walk, Same, Others, Busy, Handling
<1>4. ASSUME NEW w \in Workers, Shut(w) PROVE Gone'
  BY <1>4 DEF Positions, Free, Gone, Live, Shut, Others, OtherClients, Same, Busy, Handling
<1>5. ASSUME NEW w \in Workers, HandOver(w) PROVE Gone'
  BY <1>5 DEF Positions, Free, Gone, Live, HandOver, Others, OtherClients, Same, Handling
<1>6. ASSUME NEW w \in Workers, Leak(w) PROVE Gone'
  BY <1>6 DEF Positions, Free, Gone, Live, Leak, Others, Same, Handling
<1>7. ASSUME NEW w \in Workers, GiveUp(w) PROVE Gone'
  BY <1>7 DEF Positions, Free, Gone, Live, GiveUp, Others, OtherClients, Same
<1>8. ASSUME NEW w \in Workers, Remove(w) PROVE Gone'
  BY <1>8, NoReference DEF Gone, Remove, OtherClients, Same
<1>9. ASSUME NEW w \in Workers, NEW c \in Contexts, Pick(w, c) PROVE Gone'
  BY <1>9, PickedIsLive DEF Gone, Live, Pick, Others, OtherClients, Same, Busy, Handling
<1>10. ASSUME NEW w \in Workers, NEW c \in Contexts, Enter(w, c) PROVE Gone'
  BY <1>10 DEF Positions, Free, Gone, Live, Enter, Others, OtherClients, Same
<1>11. ASSUME NEW c \in Contexts, Write(c) PROVE Gone'
  BY <1>11 DEF Positions, Free, Gone, Live, Write, Still, OtherClients, Same
<1>12. ASSUME NEW S \in SUBSET Contexts, ShutOutside(S) PROVE Gone'
  BY <1>12 DEF Positions, Free, Gone, Live, ShutOutside, Still, Same
<1> QED BY <1>1, <1>2, <1>3, <1>4, <1>5, <1>6, <1>7, <1>8, <1>9, <1>10, <1>11, <1>12 DEF Kinds

(* The last reference is given up on a closed socket only. *)
LEMMA LastStep ==
  ASSUME TypeOK, Positions, NotYet, Gone, Deleting, ReferencesCounted, LastReferenceClosed, Attended, Kinds
  PROVE  LastReferenceClosed'
<1>1. ASSUME Aside PROVE LastReferenceClosed'
  BY <1>1 DEF Positions, Free, LastReferenceClosed, Live, Open, Aside
<1>2. ASSUME Still, \A d \in Contexts : Same(d) PROVE LastReferenceClosed'
  BY <1>2 DEF Positions, Free, LastReferenceClosed, Live, Open, Still, Same
<1>3. ASSUME NEW w \in Workers, Walk(w) PROVE LastReferenceClosed'
  BY <1>3 DEF Positions, Free, LastReferenceClosed, Live, Open, Walk, Same, Others, Busy, Handling
<1>4. ASSUME NEW w \in Workers, Shut(w) PROVE LastReferenceClosed'
  BY <1>4 DEF Positions, Free, LastReferenceClosed, Live, Open, Shut, Others, OtherClients, Same,
       Busy, Handling
<1>5. ASSUME NEW w \in Workers, HandOver(w) PROVE LastReferenceClosed'
  BY <1>5 DEF Positions, Free, LastReferenceClosed, Live, Open, HandOver, Others, OtherClients,
       Same, Handling
<1>6. ASSUME NEW w \in Workers, Leak(w) PROVE LastReferenceClosed'
  BY <1>6 DEF Positions, Free, LastReferenceClosed, Live, Open, Leak, Others, Same, Handling
<1>7. ASSUME NEW w \in Workers, GiveUp(w) PROVE LastReferenceClosed'
  <2>1. CASE client[ctx[w]].pending = 1
    <3>1. client[ctx[w]].reads = 0 /\ \A u \in Workers : ctx[u] = ctx[w] => u = w
      BY <1>7, <2>1, LastReference DEF Handling, GiveUp
    <3>2. ctx[w] \in Contexts /\ Live(ctx[w])
      BY <1>7 DEF Positions, Free, GiveUp
    <3>3. ~Open(ctx[w])
      BY <1>7, <3>1, <3>2 DEF Attended, HasRead, GiveUp
    <3> QED BY <1>7, <3>2, <3>3 DEF LastReferenceClosed, Live, Open, GiveUp, Others, OtherClients,
         Same
  <2>2. CASE client[ctx[w]].pending # 1
    <3>1. client[ctx[w]].pending \in Nat
      BY <1>7, Numbers DEF Positions, Free, GiveUp
    <3> QED BY <1>7, <2>2, <3>1 DEF LastReferenceClosed, Live, Open, GiveUp, Others, OtherClients,
         Same
  <2> QED BY <2>1, <2>2
<1>8. ASSUME NEW w \in Workers, Remove(w) PROVE LastReferenceClosed'
  BY <1>8 DEF Positions, Free, LastReferenceClosed, Live, Open, Remove, Others, OtherClients, Same
<1>9. ASSUME NEW w \in Workers, NEW c \in Contexts, Pick(w, c) PROVE LastReferenceClosed'
  BY <1>9 DEF Positions, Free, LastReferenceClosed, Live, Open, Pick, Others, OtherClients, Same,
       Busy, Handling
<1>10. ASSUME NEW w \in Workers, NEW c \in Contexts, Enter(w, c) PROVE LastReferenceClosed'
  BY <1>10 DEF Positions, Free, LastReferenceClosed, Live, Open, Enter, Others, OtherClients, Same
<1>11. ASSUME NEW c \in Contexts, Write(c) PROVE LastReferenceClosed'
  <2>1. client[c].pending + 1 # 0
    BY Numbers
  <2> QED BY <1>11, <2>1 DEF LastReferenceClosed, Live, Open, Write, Still, OtherClients, Same
<1>12. ASSUME NEW S \in SUBSET Contexts, ShutOutside(S) PROVE LastReferenceClosed'
  BY <1>12 DEF Positions, Free, LastReferenceClosed, Live, Open, ShutOutside, Still, Same
<1> QED BY <1>1, <1>2, <1>3, <1>4, <1>5, <1>6, <1>7, <1>8, <1>9, <1>10, <1>11, <1>12 DEF Kinds

(* No step leaves an open client without a read or somebody who closes it. *)
LEMMA AttendedStep ==
  ASSUME TypeOK, Positions, NotYet, Gone, Attended, Kinds
  PROVE  Attended'
<1>1. ASSUME Aside PROVE Attended'
  BY <1>1, Numbers DEF Positions, Free, Attended, HasRead, Live, Open, Aside
<1>2. ASSUME Still, \A d \in Contexts : Same(d) PROVE Attended'
  BY <1>2, Numbers DEF Positions, Free, Attended, HasRead, Live, Open, Still, Same
<1>3. ASSUME NEW w \in Workers, Walk(w) PROVE Attended'
  BY <1>3, Numbers DEF Positions, Free, Attended, HasRead, Live, Open, Walk, Same, Others, Busy,
       Handling
<1>4. ASSUME NEW w \in Workers, Shut(w) PROVE Attended'
  BY <1>4, Numbers DEF Positions, Free, Attended, HasRead, Live, Open, Shut, Others, OtherClients,
       Same, Busy, Handling
<1>5. ASSUME NEW w \in Workers, HandOver(w) PROVE Attended'
  BY <1>5, Numbers DEF Positions, Free, Attended, HasRead, Live, Open, HandOver, Others,
       OtherClients, Same, Handling
<1>6. ASSUME NEW w \in Workers, Leak(w) PROVE Attended'
  BY <1>6, Numbers DEF Positions, Free, Attended, HasRead, Live, Open, Leak, Others, Same, Handling
<1>7. ASSUME NEW w \in Workers, GiveUp(w) PROVE Attended'
  BY <1>7, Numbers DEF Positions, Free, Attended, HasRead, Live, Open, GiveUp, Others,
       OtherClients, Same
<1>8. ASSUME NEW w \in Workers, Remove(w) PROVE Attended'
  BY <1>8, Numbers DEF Positions, Free, Attended, HasRead, Live, Open, Remove, Others,
       OtherClients, Same
<1>9. ASSUME NEW w \in Workers, NEW c \in Contexts, Pick(w, c) PROVE Attended'
  BY <1>9, Numbers DEF Positions, Free, Attended, HasRead, Live, Open, Pick, Others, OtherClients,
       Same, Busy, Handling
<1>10. ASSUME NEW w \in Workers, NEW c \in Contexts, Enter(w, c) PROVE Attended'
  BY <1>10, Numbers DEF Positions, Free, Attended, HasRead, Live, Open, Enter, Others,
       OtherClients, Same
<1>11. ASSUME NEW c \in Contexts, Write(c) PROVE Attended'
  BY <1>11, Numbers DEF Positions, Free, Attended, HasRead, Live, Open, Write, Still, OtherClients,
       Same
<1>12. ASSUME NEW S \in SUBSET Contexts, ShutOutside(S) PROVE Attended'
  BY <1>12, Numbers DEF Positions, Free, Attended, HasRead, Live, Open, ShutOutside, Still, Same
<1> QED BY <1>1, <1>2, <1>3, <1>4, <1>5, <1>6, <1>7, <1>8, <1>9, <1>10, <1>11, <1>12 DEF Kinds

(* A read is posted only by the worker that had the last one. *)
LEMMA ReadingStep ==
  ASSUME TypeOK, Positions, NotYet, Gone, Reading, Kinds
  PROVE  Reading'
<1>1. ASSUME Aside PROVE Reading'
  BY <1>1, Numbers, SetsAssumption DEF Positions, Free, Reading, HasRead, Live, Aside
<1>2. ASSUME Still, \A d \in Contexts : Same(d) PROVE Reading'
  BY <1>2, Numbers, SetsAssumption DEF Positions, Free, Reading, HasRead, Live, Still, Same
<1>3. ASSUME NEW w \in Workers, Walk(w) PROVE Reading'
  BY <1>3, Numbers, SetsAssumption DEF Positions, Free, Reading, HasRead, Live, Walk, Same, Others,
       Busy, Handling
<1>4. ASSUME NEW w \in Workers, Shut(w) PROVE Reading'
  BY <1>4, Numbers, SetsAssumption DEF Positions, Free, Reading, HasRead, Live, Shut, Others,
       OtherClients, Same, Busy, Handling
<1>5. ASSUME NEW w \in Workers, HandOver(w) PROVE Reading'
  BY <1>5, Numbers, SetsAssumption DEF Positions, Free, Reading, HasRead, Live, HandOver, Others,
       OtherClients, Same, Handling
<1>6. ASSUME NEW w \in Workers, Leak(w) PROVE Reading'
  BY <1>6, Numbers, SetsAssumption DEF Positions, Free, Reading, HasRead, Live, Leak, Others, Same,
       Handling
<1>7. ASSUME NEW w \in Workers, GiveUp(w) PROVE Reading'
  BY <1>7, Numbers, SetsAssumption DEF Positions, Free, Reading, HasRead, Live, GiveUp, Others,
       OtherClients, Same
<1>8. ASSUME NEW w \in Workers, Remove(w) PROVE Reading'
  BY <1>8, Numbers, SetsAssumption DEF Positions, Free, Reading, HasRead, Live, Remove, Others,
       OtherClients, Same
<1>9. ASSUME NEW w \in Workers, NEW c \in Contexts, Pick(w, c) PROVE Reading'
  BY <1>9, Numbers, SetsAssumption DEF Positions, Free, Reading, HasRead, Live, Pick, Others,
       OtherClients, Same, Busy, Handling
<1>10. ASSUME NEW w \in Workers, NEW c \in Contexts, Enter(w, c) PROVE Reading'
  <2>1. c \notin leaked /\ \A u \in Workers \ {w} : ctx[u] # c
    BY <1>10, SetsAssumption DEF Positions, Free, NotYet, Live, Enter
  <2> QED BY <1>10, <2>1 DEF Reading, HasRead, Enter, Others, OtherClients, Same
<1>11. ASSUME NEW c \in Contexts, Write(c) PROVE Reading'
  BY <1>11, Numbers, SetsAssumption DEF Positions, Free, Reading, HasRead, Live, Write, Still,
       OtherClients, Same
<1>12. ASSUME NEW S \in SUBSET Contexts, ShutOutside(S) PROVE Reading'
  BY <1>12, Numbers, SetsAssumption DEF Positions, Free, Reading, HasRead, Live, ShutOutside,
       Still, Same
<1> QED BY <1>1, <1>2, <1>3, <1>4, <1>5, <1>6, <1>7, <1>8, <1>9, <1>10, <1>11, <1>12 DEF Kinds

Counted(c) == client[c].pending = client[c].reads + client[c].writes + Cardinality(Holders(c))
                                  + (IF c \in leaked THEN 1 ELSE 0)

(* Every step that moves a reference moves the count with it. *)
LEMMA CountedStep ==
  ASSUME TypeOK, Positions, NotYet, Gone, Deleting, ReferencesCounted, Reading, Kinds
  PROVE  ReferencesCounted'
<1>1. ASSUME Aside PROVE ReferencesCounted'
  <2>1. \A d \in Contexts : Holders(d)' = Holders(d)
    BY <1>1 DEF Holders, Positions, Free, Aside
  <2> QED BY <1>1, <2>1 DEF ReferencesCounted, Live, Aside
<1>2. ASSUME Still, \A d \in Contexts : Same(d) PROVE ReferencesCounted'
  <2>1. \A d \in Contexts : Holders(d)' = Holders(d)
    BY <1>2 DEF Holders, Positions, Free, Still, Same
  <2> QED BY <1>2, <2>1 DEF ReferencesCounted, Live, Still, Same
<1>3. ASSUME NEW w \in Workers, Walk(w) PROVE ReferencesCounted'
  <2>1. \A d \in Contexts : Holders(d)' = Holders(d)
    BY <1>3 DEF Holders, Positions, Free, Walk, Same, Others, Busy, Handling
  <2> QED BY <1>3, <2>1 DEF ReferencesCounted, Live, Walk, Same, Others, Busy, Handling
<1>4. ASSUME NEW w \in Workers, Shut(w) PROVE ReferencesCounted'
  <2>1. \A d \in Contexts : Holders(d)' = Holders(d)
    BY <1>4 DEF Holders, Positions, Free, Shut, Others, OtherClients, Same, Busy, Handling
  <2> QED BY <1>4, <2>1 DEF ReferencesCounted, Live, Shut, Others, OtherClients, Same, Busy,
       Handling
<1>5. ASSUME NEW w \in Workers, HandOver(w) PROVE ReferencesCounted'
  <2>1. PICK x \in Contexts : x = ctx[w] /\ Live(x)
    BY <1>5 DEF Positions, Free, Live, HandOver, Others, OtherClients, Same, Handling
  <2>2. /\ Holders(x)' = Holders(x) \ {w} /\ w \in Holders(x)
        /\ \A d \in Contexts \ {x} : Holders(d)' = Holders(d)
    BY <1>5, <2>1, SetsAssumption DEF Holders, Positions, Free, HandOver, Others, OtherClients,
         Same, Handling
  <2>3. Cardinality(Holders(x)') = Cardinality(Holders(x)) - 1
    <3>1. IsFiniteSet(Holders(x)) /\ w \in Holders(x)
      BY <2>2, HoldersFinite
    <3>2. Cardinality(Holders(x) \ {w}) = Cardinality(Holders(x)) - 1
      BY <3>1, FS_RemoveElement
    <3> QED BY <2>2, <3>2
  <2>4. Counted(x)
    BY <2>1 DEF ReferencesCounted, Counted
  <2>5. Counted(x)'
    BY <1>5, <2>1, <2>3, <2>4, HoldersFinite, Numbers DEF Counted, HasRead, Reading, HandOver,
         Others, OtherClients, Same, Handling
  <2>6. ASSUME NEW d \in Contexts, Live(d)', d # x PROVE Counted(d)'
    BY <1>5, <2>1, <2>2, <2>6 DEF ReferencesCounted, Counted, Live, HandOver, Others, OtherClients,
         Same, Handling
  <2> QED BY <2>5, <2>6 DEF ReferencesCounted, Counted
<1>6. ASSUME NEW w \in Workers, Leak(w) PROVE ReferencesCounted'
  <2>1. PICK x \in Contexts : x = ctx[w] /\ Live(x)
    BY <1>6 DEF Positions, Free, Live, Leak, Others, Same, Handling
  <2>2. /\ Holders(x)' = Holders(x) \ {w} /\ w \in Holders(x)
        /\ \A d \in Contexts \ {x} : Holders(d)' = Holders(d)
    BY <1>6, <2>1, SetsAssumption DEF Holders, Positions, Free, Leak, Others, Same, Handling
  <2>3. Cardinality(Holders(x)') = Cardinality(Holders(x)) - 1
    <3>1. IsFiniteSet(Holders(x)) /\ w \in Holders(x)
      BY <2>2, HoldersFinite
    <3>2. Cardinality(Holders(x) \ {w}) = Cardinality(Holders(x)) - 1
      BY <3>1, FS_RemoveElement
    <3> QED BY <2>2, <3>2
  <2>4. Counted(x)
    BY <2>1 DEF ReferencesCounted, Counted
  <2>5. Counted(x)'
    BY <1>6, <2>1, <2>3, <2>4, HoldersFinite, Numbers DEF Counted, HasRead, Reading, Leak, Others,
         Same, Handling
  <2>6. ASSUME NEW d \in Contexts, Live(d)', d # x PROVE Counted(d)'
    BY <1>6, <2>1, <2>2, <2>6 DEF ReferencesCounted, Counted, Live, Leak, Others, Same, Handling
  <2> QED BY <2>5, <2>6 DEF ReferencesCounted, Counted
<1>7. ASSUME NEW w \in Workers, GiveUp(w) PROVE ReferencesCounted'
  <2>1. PICK x \in Contexts : x = ctx[w] /\ Live(x)
    BY <1>7 DEF Positions, Free, Live, GiveUp, Others, OtherClients, Same
  <2>2. /\ Holders(x)' = Holders(x) \ {w} /\ w \in Holders(x)
        /\ \A d \in Contexts \ {x} : Holders(d)' = Holders(d)
    BY <1>7, <2>1, SetsAssumption DEF Holders, Positions, Free, GiveUp, Others, OtherClients, Same
  <2>3. Cardinality(Holders(x)') = Cardinality(Holders(x)) - 1
    <3>1. IsFiniteSet(Holders(x)) /\ w \in Holders(x)
      BY <2>2, HoldersFinite
    <3>2. Cardinality(Holders(x) \ {w}) = Cardinality(Holders(x)) - 1
      BY <3>1, FS_RemoveElement
    <3> QED BY <2>2, <3>2
  <2>4. Counted(x)
    BY <2>1 DEF ReferencesCounted, Counted
  <2>5. Counted(x)'
    BY <1>7, <2>1, <2>3, <2>4, HoldersFinite, Numbers DEF Counted, HasRead, Reading, GiveUp,
         Others, OtherClients, Same
  <2>6. ASSUME NEW d \in Contexts, Live(d)', d # x PROVE Counted(d)'
    BY <1>7, <2>1, <2>2, <2>6 DEF ReferencesCounted, Counted, Live, GiveUp, Others, OtherClients,
         Same
  <2> QED BY <2>5, <2>6 DEF ReferencesCounted, Counted
<1>8. ASSUME NEW w \in Workers, Remove(w) PROVE ReferencesCounted'
  <2>1. \A d \in Contexts \ {ctx[w]} : Holders(d)' = Holders(d)
    BY <1>8, SetsAssumption DEF Holders, Positions, Free, Remove, Others, OtherClients, Same
  <2> QED BY <1>8, <2>1 DEF ReferencesCounted, Live, Remove, Others, OtherClients, Same
<1>9. ASSUME NEW w \in Workers, NEW c \in Contexts, Pick(w, c) PROVE ReferencesCounted'
  <2>1. PICK x \in Contexts : x = c /\ ctx[w] = NoContext /\ Live(x)
    BY <1>9, PickedIsLive DEF Positions, Free, Live, Pick, Others, OtherClients, Same, Busy,
         Handling
  <2>2. /\ Holders(x)' = Holders(x) \cup {w} /\ w \notin Holders(x)
        /\ \A d \in Contexts \ {x} : Holders(d)' = Holders(d)
    BY <1>9, <2>1, SetsAssumption DEF Holders, Positions, Free, Pick, Others, OtherClients, Same,
         Busy, Handling
  <2>3. Cardinality(Holders(x)') = Cardinality(Holders(x)) + 1
    <3>1. IsFiniteSet(Holders(x)) /\ w \notin Holders(x)
      BY <2>2, HoldersFinite
    <3>2. Cardinality(Holders(x) \cup {w}) = Cardinality(Holders(x)) + 1
      BY <3>1, FS_AddElement
    <3> QED BY <2>2, <3>2
  <2>4. Counted(x)
    BY <2>1 DEF ReferencesCounted, Counted
  <2>5. Counted(x)'
    BY <1>9, <2>1, <2>3, <2>4, HoldersFinite, Numbers DEF Counted, HasRead, Reading, Pick, Others,
         OtherClients, Same, Busy, Handling
  <2>6. ASSUME NEW d \in Contexts, Live(d)', d # x PROVE Counted(d)'
    BY <1>9, <2>1, <2>2, <2>6 DEF ReferencesCounted, Counted, Live, Pick, Others, OtherClients,
         Same, Busy, Handling
  <2> QED BY <2>5, <2>6 DEF ReferencesCounted, Counted
<1>10. ASSUME NEW w \in Workers, NEW c \in Contexts, Enter(w, c) PROVE ReferencesCounted'
  <2>1. c \notin leaked /\ \A u \in Workers \ {w} : ctx[u] # c
    BY <1>10, SetsAssumption DEF Positions, Free, NotYet, Live, Enter
  <2>2. Holders(c)' = {w} /\ \A d \in Contexts \ {c} : Holders(d)' = Holders(d)
    BY <1>10, <2>1, SetsAssumption DEF Holders, Positions, Free, Enter, Others, OtherClients, Same
  <2>3. Cardinality(Holders(c)') = 1
    BY <2>2, FS_Singleton
  <2>4. Counted(c)'
    BY <1>10, <2>1, <2>3 DEF Counted, Enter, Others, OtherClients, Same
  <2>5. ASSUME NEW d \in Contexts, Live(d)', d # c PROVE Counted(d)'
    BY <1>10, <2>2, <2>5 DEF ReferencesCounted, Counted, Live, Enter, Others, OtherClients, Same
  <2> QED BY <2>4, <2>5 DEF ReferencesCounted, Counted
<1>11. ASSUME NEW c \in Contexts, Write(c) PROVE ReferencesCounted'
  <2>1. \A d \in Contexts : Holders(d)' = Holders(d)
    BY <1>11 DEF Holders, Write, Still, OtherClients, Same
  <2>2. Counted(c)
    BY <1>11 DEF ReferencesCounted, Counted, Write
  <2>3. Counted(c)'
    BY <1>11, <2>1, <2>2, HoldersFinite, Numbers DEF Counted, Write, Still, OtherClients, Same
  <2>4. ASSUME NEW d \in Contexts, Live(d)', d # c PROVE Counted(d)'
    BY <1>11, <2>1, <2>4 DEF ReferencesCounted, Counted, Live, Write, Still, OtherClients, Same
  <2> QED BY <2>3, <2>4 DEF ReferencesCounted, Counted
<1>12. ASSUME NEW S \in SUBSET Contexts, ShutOutside(S) PROVE ReferencesCounted'
  <2>1. \A d \in Contexts : Holders(d)' = Holders(d)
    BY <1>12 DEF Holders, Positions, Free, ShutOutside, Still, Same
  <2> QED BY <1>12, <2>1 DEF ReferencesCounted, Live, ShutOutside, Still, Same
<1> QED BY <1>1, <1>2, <1>3, <1>4, <1>5, <1>6, <1>7, <1>8, <1>9, <1>10, <1>11, <1>12 DEF Kinds

-----------------------------------------------------------------------------
(* Contexts as AddContext makes them and ReleaseSocketContext leaves them. *)
LEMMA FreedTyped ==
  ASSUME NEW r \in Context
  PROVE  Freed(r) \in Context
<1>1. 0 \in 0 .. MaxQueued
  BY LimitsAssumption
<1> QED BY <1>1 DEF Context, Freed

LEMMA AcceptedTyped == Accepted \in Context
<1>1. 0 \in 0 .. MaxQueued /\ 0 \in Nat /\ 1 \in Nat
  BY LimitsAssumption
<1>2. NoClient \in Context
  BY <1>1 DEF Context, NoClient
<1> QED BY <1>1, <1>2 DEF Context, Accepted

(* Every step keeps the types; a count is never decremented below zero. *)
LEMMA TypeStep ==
  ASSUME TypeOK, Positions, Deleting, ReferencesCounted, LastReferenceClosed, [Next]_vars
  PROVE  TypeOK'
<1>1. ASSUME NEW w \in Workers, NEW c \in Contexts, TakeRead(w, c) PROVE TypeOK'
  <2>1. WorkersTyped'
    BY <1>1, SetsAssumption DEF TypeOK, WorkersTyped, TakeRead, workerVars, serverVars
  <2>2. client' \in [Contexts -> Context]
    <3>1. client[c] \in Context
      BY DEF TypeOK
    <3>2. client[c].reads - 1 \in Nat
      BY <1>1, <3>1 DEF Context, TakeRead, workerVars, serverVars
    <3>3. [client[c] EXCEPT !.reads = @ - 1] \in Context
      BY <3>1, <3>2 DEF Context, NoClient, Accepted, Freed
    <3>4. client' = [client EXCEPT ![c] = [client[c] EXCEPT !.reads = @ - 1]]
      BY <1>1 DEF TakeRead, workerVars, serverVars
    <3> QED BY <3>1, <3>3, <3>4 DEF TypeOK
  <2>3. count' \in Int
    BY <1>1 DEF TypeOK, TakeRead, workerVars, serverVars
  <2>4. /\ acceptIo' \in [Accepts -> {"posted", "completed", "taken", "freed"}]
        /\ leaked' \subseteq Contexts /\ UNCHANGED crash
        /\ shutdown' \in {"no", "flagged", "freeing", "exiting", "done"}
    BY <1>1 DEF TypeOK, WorkersTyped, Positions, Free, TakeRead, workerVars, serverVars
  <2> QED BY <2>1, <2>2, <2>3, <2>4 DEF TypeOK
<1>2. ASSUME NEW w \in Workers, NEW c \in Contexts, TakeWrite(w, c) PROVE TypeOK'
  <2>1. WorkersTyped'
    BY <1>2, SetsAssumption DEF TypeOK, WorkersTyped, TakeWrite, workerVars, serverVars
  <2>2. client' \in [Contexts -> Context]
    <3>1. client[c] \in Context
      BY DEF TypeOK
    <3>2. client[c].writes - 1 \in Nat
      BY <1>2, <3>1 DEF Context, TakeWrite, workerVars, serverVars
    <3>3. [client[c] EXCEPT !.writes = @ - 1] \in Context
      BY <3>1, <3>2 DEF Context, NoClient, Accepted, Freed
    <3>4. client' = [client EXCEPT ![c] = [client[c] EXCEPT !.writes = @ - 1]]
      BY <1>2 DEF TakeWrite, workerVars, serverVars
    <3> QED BY <3>1, <3>3, <3>4 DEF TypeOK
  <2>3. count' \in Int
    BY <1>2 DEF TypeOK, TakeWrite, workerVars, serverVars
  <2>4. /\ acceptIo' \in [Accepts -> {"posted", "completed", "taken", "freed"}]
        /\ leaked' \subseteq Contexts /\ UNCHANGED crash
        /\ shutdown' \in {"no", "flagged", "freeing", "exiting", "done"}
    BY <1>2 DEF TypeOK, WorkersTyped, Positions, Free, TakeWrite, workerVars, serverVars
  <2> QED BY <2>1, <2>2, <2>3, <2>4 DEF TypeOK
<1>3. ASSUME NEW w \in Workers, NEW a \in Accepts, TakeAccept(w, a) PROVE TypeOK'
  <2>1. WorkersTyped'
    BY <1>3, SetsAssumption DEF TypeOK, WorkersTyped, TakeAccept, workerVars, serverVars
  <2> QED BY <1>3, <2>1 DEF TypeOK, TakeAccept, workerVars, serverVars
<1>4. ASSUME NEW w \in Workers, TakeNull(w) PROVE TypeOK'
  <2>1. WorkersTyped'
    BY <1>4, SetsAssumption DEF TypeOK, WorkersTyped, TakeNull, Goto, workerVars, serverVars
  <2> QED BY <1>4, <2>1 DEF TypeOK, TakeNull, Goto, workerVars, serverVars
<1>5. ASSUME NEW w \in Workers, CloseClient(w) PROVE TypeOK'
  <2>1. WorkersTyped'
    BY <1>5, SetsAssumption DEF TypeOK, WorkersTyped, CloseClient, workerVars, serverVars
  <2>2. client' \in [Contexts -> Context]
    <3>1. ctx[w] \in Contexts /\ client[ctx[w]] \in Context
      BY <1>5 DEF TypeOK, Positions, Free, CloseClient, workerVars, serverVars
    <3>3. [client[ctx[w]] EXCEPT !.open = FALSE] \in Context
      BY <3>1 DEF Context, NoClient, Accepted, Freed
    <3>4. client' = [client EXCEPT ![ctx[w]] = [client[ctx[w]] EXCEPT !.open = FALSE]]
      BY <1>5 DEF CloseClient, workerVars, serverVars
    <3> QED BY <3>1, <3>3, <3>4 DEF TypeOK
  <2>3. count' \in Int
    BY <1>5 DEF TypeOK, CloseClient, workerVars, serverVars
  <2>4. /\ acceptIo' \in [Accepts -> {"posted", "completed", "taken", "freed"}]
        /\ leaked' \subseteq Contexts /\ UNCHANGED crash
        /\ shutdown' \in {"no", "flagged", "freeing", "exiting", "done"}
    BY <1>5 DEF TypeOK, WorkersTyped, Positions, Free, CloseClient, workerVars, serverVars
  <2> QED BY <2>1, <2>2, <2>3, <2>4 DEF TypeOK
<1>6. ASSUME NEW w \in Workers, Disconnected(w) PROVE TypeOK'
  <2>1. WorkersTyped'
    BY <1>6, SetsAssumption DEF TypeOK, WorkersTyped, Disconnected, workerVars, serverVars
  <2>2. client' \in [Contexts -> Context]
    BY <1>6 DEF TypeOK, Disconnected, workerVars, serverVars
  <2>3. count' \in Int
    <3>1. count \in Int
      BY DEF TypeOK
    <3>2. count' = count - 1
      BY <1>6 DEF Disconnected, workerVars, serverVars
    <3> QED BY <3>1, <3>2
  <2>4. /\ acceptIo' \in [Accepts -> {"posted", "completed", "taken", "freed"}]
        /\ leaked' \subseteq Contexts /\ UNCHANGED crash
        /\ shutdown' \in {"no", "flagged", "freeing", "exiting", "done"}
    BY <1>6 DEF TypeOK, WorkersTyped, Positions, Free, Disconnected, workerVars, serverVars
  <2> QED BY <2>1, <2>2, <2>3, <2>4 DEF TypeOK
<1>7. ASSUME NEW w \in Workers, ExitIOLoop(w) PROVE TypeOK'
  <2>1. WorkersTyped'
    BY <1>7, SetsAssumption DEF TypeOK, WorkersTyped, ExitIOLoop, Goto, workerVars, serverVars
  <2>2. client' \in [Contexts -> Context]
    <3>1. ctx[w] \in Contexts /\ client[ctx[w]] \in Context
      BY <1>7 DEF TypeOK, Positions, Free, ExitIOLoop, Goto, workerVars, serverVars
    <3>2. client[ctx[w]].pending - 1 \in Nat
      <4>1. pc[w] \in Handling /\ client[ctx[w]].pending \in Nat
        BY <1>7, <3>1 DEF Context, Handling, ExitIOLoop, Goto
      <4>2. client[ctx[w]].pending # 0
        BY <4>1, LastReference
      <4> QED BY <4>1, <4>2
    <3>3. [client[ctx[w]] EXCEPT !.pending = @ - 1] \in Context
      BY <3>1, <3>2 DEF Context, NoClient, Accepted, Freed
    <3>4. client' = [client EXCEPT ![ctx[w]] = [client[ctx[w]] EXCEPT !.pending = @ - 1]]
      BY <1>7 DEF ExitIOLoop, Goto, workerVars, serverVars
    <3> QED BY <3>1, <3>3, <3>4 DEF TypeOK
  <2>3. count' \in Int
    BY <1>7 DEF TypeOK, ExitIOLoop, Goto, workerVars, serverVars
  <2>4. /\ acceptIo' \in [Accepts -> {"posted", "completed", "taken", "freed"}]
        /\ leaked' \subseteq Contexts /\ UNCHANGED crash
        /\ shutdown' \in {"no", "flagged", "freeing", "exiting", "done"}
    BY <1>7 DEF TypeOK, WorkersTyped, Positions, Free, ExitIOLoop, Goto, workerVars, serverVars
  <2> QED BY <2>1, <2>2, <2>3, <2>4 DEF TypeOK
<1>8. ASSUME NEW w \in Workers, DeleteContext(w) PROVE TypeOK'
  <2>1. WorkersTyped'
    BY <1>8, SetsAssumption DEF TypeOK, WorkersTyped, DeleteContext, Goto, Freed, workerVars,
         serverVars
  <2>2. client' \in [Contexts -> Context]
    <3>1. ctx[w] \in Contexts /\ client[ctx[w]] \in Context
      BY <1>8 DEF TypeOK, Positions, Free, DeleteContext, Goto, Freed, workerVars, serverVars
    <3>3. Freed(client[ctx[w]]) \in Context
      BY <3>1, FreedTyped
    <3>4. client' = [client EXCEPT ![ctx[w]] = Freed(client[ctx[w]])]
      BY <1>8 DEF DeleteContext, Goto, Freed, workerVars, serverVars
    <3> QED BY <3>1, <3>3, <3>4 DEF TypeOK
  <2>3. count' \in Int
    BY <1>8 DEF TypeOK, DeleteContext, Goto, Freed, workerVars, serverVars
  <2>4. /\ acceptIo' \in [Accepts -> {"posted", "completed", "taken", "freed"}]
        /\ leaked' \subseteq Contexts /\ UNCHANGED crash
        /\ shutdown' \in {"no", "flagged", "freeing", "exiting", "done"}
    BY <1>8 DEF TypeOK, WorkersTyped, Positions, Free, DeleteContext, Goto, Freed, workerVars,
         serverVars
  <2> QED BY <2>1, <2>2, <2>3, <2>4 DEF TypeOK
<1>9. ASSUME NEW w \in Workers, NEW here \in {"firstRead", "nextRead"}, PostClientIoRead(w, here)
      PROVE TypeOK'
  <2>1. WorkersTyped'
    BY <1>9, SetsAssumption DEF TypeOK, WorkersTyped, PostClientIoRead, Goto, GotoClose,
         workerVars, serverVars
  <2>2. client' \in [Contexts -> Context]
    <3>1. ctx[w] \in Contexts /\ client[ctx[w]] \in Context
      BY <1>9 DEF TypeOK, Positions, Free, PostClientIoRead
    <3>2. [client[ctx[w]] EXCEPT !.reads = @ + 1] \in Context
      BY <3>1 DEF Context
    <3>3. client' = client \/ client' = [client EXCEPT ![ctx[w]] = [client[ctx[w]] EXCEPT !.reads = @ + 1]]
      BY <1>9 DEF PostClientIoRead
    <3> QED BY <3>1, <3>2, <3>3 DEF TypeOK
  <2>3. count' \in Int
    BY <1>9 DEF TypeOK, PostClientIoRead, Goto, GotoClose, workerVars, serverVars
  <2>4. /\ acceptIo' \in [Accepts -> {"posted", "completed", "taken", "freed"}]
        /\ leaked' \subseteq Contexts /\ UNCHANGED crash
        /\ shutdown' \in {"no", "flagged", "freeing", "exiting", "done"}
    BY <1>9 DEF TypeOK, WorkersTyped, Positions, Free, PostClientIoRead, Goto, GotoClose,
         workerVars, serverVars
  <2> QED BY <2>1, <2>2, <2>3, <2>4 DEF TypeOK
<1>10. ASSUME NEW w \in Workers, Count(w) PROVE TypeOK'
  <2>1. WorkersTyped'
    BY <1>10, SetsAssumption DEF TypeOK, WorkersTyped, Count, Goto, workerVars, serverVars
  <2>2. client' \in [Contexts -> Context]
    BY <1>10 DEF TypeOK, Count, Goto, workerVars, serverVars
  <2>3. count' \in Int
    <3>1. count \in Int
      BY DEF TypeOK
    <3>2. count' = count + 1
      BY <1>10 DEF Count, Goto, workerVars, serverVars
    <3> QED BY <3>1, <3>2
  <2>4. /\ acceptIo' \in [Accepts -> {"posted", "completed", "taken", "freed"}]
        /\ leaked' \subseteq Contexts /\ UNCHANGED crash
        /\ shutdown' \in {"no", "flagged", "freeing", "exiting", "done"}
    BY <1>10 DEF TypeOK, WorkersTyped, Positions, Free, Count, Goto, workerVars, serverVars
  <2> QED BY <2>1, <2>2, <2>3, <2>4 DEF TypeOK
<1>11. ASSUME NEW w \in Workers, Reject(w) PROVE TypeOK'
  <2>1. WorkersTyped'
    BY <1>11, SetsAssumption DEF TypeOK, WorkersTyped, Reject, Repost, CreateAcceptSocket,
         workerVars, serverVars
  <2>2. client' \in [Contexts -> Context]
    BY <1>11 DEF TypeOK, Reject, Repost, CreateAcceptSocket, workerVars, serverVars
  <2>3. count' \in Int
    <3>1. count \in Int
      BY DEF TypeOK
    <3>2. count' = count - 1
      BY <1>11 DEF Reject, Repost, CreateAcceptSocket, workerVars, serverVars
    <3> QED BY <3>1, <3>2
  <2>4. /\ acceptIo' \in [Accepts -> {"posted", "completed", "taken", "freed"}]
        /\ leaked' \subseteq Contexts /\ UNCHANGED crash
        /\ shutdown' \in {"no", "flagged", "freeing", "exiting", "done"}
    BY <1>11 DEF TypeOK, WorkersTyped, Positions, Free, Reject, Repost, CreateAcceptSocket,
         workerVars, serverVars
  <2> QED BY <2>1, <2>2, <2>3, <2>4 DEF TypeOK
<1>12. ASSUME NEW w \in Workers, PostNextAccept(w) PROVE TypeOK'
  <2>1. WorkersTyped'
    BY <1>12, SetsAssumption DEF TypeOK, WorkersTyped, PostNextAccept, Repost, CreateAcceptSocket,
         workerVars, serverVars
  <2> QED BY <1>12, <2>1 DEF TypeOK, PostNextAccept, Repost, CreateAcceptSocket, workerVars,
       serverVars
<1>13. ASSUME NEW w \in Workers, NEW c \in Contexts, AddContext(w, c) PROVE TypeOK'
  <2>1. WorkersTyped'
    BY <1>13, SetsAssumption DEF TypeOK, WorkersTyped, AddContext, Accepted, NoClient, workerVars,
         serverVars
  <2>2. client' \in [Contexts -> Context]
    <3>1. client[c] \in Context
      BY DEF TypeOK
    <3>3. Accepted \in Context
      BY AcceptedTyped
    <3>4. client' = [client EXCEPT ![c] = Accepted]
      BY <1>13 DEF AddContext, Accepted, NoClient, workerVars, serverVars
    <3> QED BY <3>1, <3>3, <3>4 DEF TypeOK
  <2>3. count' \in Int
    BY <1>13 DEF TypeOK, AddContext, Accepted, NoClient, workerVars, serverVars
  <2>4. /\ acceptIo' \in [Accepts -> {"posted", "completed", "taken", "freed"}]
        /\ leaked' \subseteq Contexts /\ UNCHANGED crash
        /\ shutdown' \in {"no", "flagged", "freeing", "exiting", "done"}
    BY <1>13 DEF TypeOK, WorkersTyped, Positions, Free, AddContext, Accepted, NoClient, workerVars,
         serverVars
  <2> QED BY <2>1, <2>2, <2>3, <2>4 DEF TypeOK
<1>14. ASSUME NEW w \in Workers, UpdateCompletionPort(w) PROVE TypeOK'
  <2>1. WorkersTyped'
    BY <1>14, SetsAssumption DEF TypeOK, WorkersTyped, UpdateCompletionPort, Goto, workerVars,
         serverVars
  <2> QED BY <1>14, <2>1 DEF TypeOK, UpdateCompletionPort, Goto, workerVars, serverVars
<1>15. ASSUME NEW w \in Workers, NotifyNewConnection(w) PROVE TypeOK'
  <2>1. WorkersTyped'
    BY <1>15, SetsAssumption DEF TypeOK, WorkersTyped, NotifyNewConnection, Goto, GotoClose,
         workerVars, serverVars
  <2> QED BY <1>15, <2>1 DEF TypeOK, NotifyNewConnection, Goto, GotoClose, workerVars, serverVars
<1>16. ASSUME NEW w \in Workers, NotifyReceivedPackage(w) PROVE TypeOK'
  <2>1. WorkersTyped'
    BY <1>16, SetsAssumption DEF TypeOK, WorkersTyped, NotifyReceivedPackage, Goto, GotoClose,
         workerVars, serverVars
  <2> QED BY <1>16, <2>1 DEF TypeOK, NotifyReceivedPackage, Goto, GotoClose, workerVars, serverVars
<1>17. ASSUME NEW w \in Workers, Written(w) PROVE TypeOK'
  <2>1. WorkersTyped'
    BY <1>17, SetsAssumption DEF TypeOK, WorkersTyped, Written, Goto, workerVars, serverVars
  <2> QED BY <1>17, <2>1 DEF TypeOK, Written, Goto, workerVars, serverVars
<1>18. ASSUME NEW w \in Workers, SwapBuffer(w) PROVE TypeOK'
  <2>1. WorkersTyped'
    BY <1>18, SetsAssumption DEF TypeOK, WorkersTyped, SwapBuffer, Goto, workerVars, serverVars
  <2>2. client' \in [Contexts -> Context]
    <3>1. ctx[w] \in Contexts /\ client[ctx[w]] \in Context
      BY <1>18 DEF TypeOK, Positions, Free, SwapBuffer, Goto, workerVars, serverVars
    <3>2. PICK r \in BOOLEAN, q \in 0 .. MaxQueued : client' = [client EXCEPT ![ctx[w]].reader = r, ![ctx[w]].queued = q]
      <4>1. client[ctx[w]].queued \in 0 .. MaxQueued /\ MaxQueued \in Nat
        BY <3>1, LimitsAssumption DEF Context
      <4>2. (IF client[ctx[w]].queued > 0 THEN client[ctx[w]].queued - 1 ELSE 0) \in 0 .. MaxQueued
        BY <4>1
      <4>3. CASE client[ctx[w]].queued > 0
        <5>1. (client[ctx[w]].queued > 0) = TRUE
          BY <4>3
        <5> QED BY <1>18, <4>2, <5>1, Zenon DEF SwapBuffer
      <4>4. CASE ~(client[ctx[w]].queued > 0)
        <5>1. (client[ctx[w]].queued > 0) = FALSE
          BY <4>4
        <5> QED BY <1>18, <4>2, <5>1, Zenon DEF SwapBuffer
      <4> QED BY <4>3, <4>4
    <3>3. [client[ctx[w]] EXCEPT !.reader = r, !.queued = q] \in Context
      BY <3>1 DEF Context
    <3>4. client' = [client EXCEPT ![ctx[w]] = [client[ctx[w]] EXCEPT !.reader = r, !.queued = q]]
      BY <3>2
    <3> QED BY <3>1, <3>3, <3>4 DEF TypeOK
  <2>3. count' \in Int
    BY <1>18 DEF TypeOK, SwapBuffer, Goto, workerVars, serverVars
  <2>4. /\ acceptIo' \in [Accepts -> {"posted", "completed", "taken", "freed"}]
        /\ leaked' \subseteq Contexts /\ UNCHANGED crash
        /\ shutdown' \in {"no", "flagged", "freeing", "exiting", "done"}
    BY <1>18 DEF TypeOK, WorkersTyped, Positions, Free, SwapBuffer, Goto, workerVars, serverVars
  <2> QED BY <2>1, <2>2, <2>3, <2>4 DEF TypeOK
<1>19. ASSUME NEW w \in Workers, LookAtReader(w) PROVE TypeOK'
  <2>1. WorkersTyped'
    BY <1>19, SetsAssumption DEF TypeOK, WorkersTyped, LookAtReader, Goto, workerVars, serverVars
  <2> QED BY <1>19, <2>1 DEF TypeOK, LookAtReader, Goto, workerVars, serverVars
<1>20. ASSUME NEW w \in Workers, PostClientIoWrite(w) PROVE TypeOK'
  <2>1. WorkersTyped'
    BY <1>20, SetsAssumption DEF TypeOK, WorkersTyped, PostClientIoWrite, Goto, GotoClose,
         workerVars, serverVars
  <2>2. client' \in [Contexts -> Context]
    <3>1. ctx[w] \in Contexts /\ client[ctx[w]] \in Context
      BY <1>20 DEF TypeOK, Positions, Free, PostClientIoWrite, Goto, GotoClose
    <3>2. [client[ctx[w]] EXCEPT !.writes = @ + 1] \in Context
      BY <3>1 DEF Context
    <3>3. client' = client \/ client' = [client EXCEPT ![ctx[w]] = [client[ctx[w]] EXCEPT !.writes = @ + 1]]
      BY <1>20 DEF PostClientIoWrite
    <3> QED BY <3>1, <3>2, <3>3 DEF TypeOK
  <2>3. count' \in Int
    BY <1>20 DEF TypeOK, PostClientIoWrite, Goto, GotoClose, workerVars, serverVars
  <2>4. /\ acceptIo' \in [Accepts -> {"posted", "completed", "taken", "freed"}]
        /\ leaked' \subseteq Contexts /\ UNCHANGED crash
        /\ shutdown' \in {"no", "flagged", "freeing", "exiting", "done"}
    BY <1>20 DEF TypeOK, WorkersTyped, Positions, Free, PostClientIoWrite, Goto, GotoClose,
         workerVars, serverVars
  <2> QED BY <2>1, <2>2, <2>3, <2>4 DEF TypeOK
<1>21. ASSUME NEW w \in Workers, Fault(w) PROVE TypeOK'
  <2>1. WorkersTyped'
    BY <1>21, SetsAssumption DEF TypeOK, WorkersTyped, Fault, NullReader, FreedAccept, LostPort,
         workerVars, serverVars
  <2> QED BY <1>21, <2>1 DEF TypeOK, Fault, NullReader, FreedAccept, LostPort, workerVars,
       serverVars
<1>22. ASSUME NEW c \in Contexts, Send(c), SendQueued(c) PROVE TypeOK'
  <2>1. WorkersTyped'
    BY <1>22, SetsAssumption DEF TypeOK, WorkersTyped, SendQueued, Send, Announced, workerVars,
         serverVars
  <2>2. client' \in [Contexts -> Context]
    <3>1. client[c] \in Context
      BY DEF TypeOK
    <3>2. client[c].queued + 1 \in 0 .. MaxQueued
      BY <1>22, <3>1, LimitsAssumption DEF Context, SendQueued, Send, Announced, workerVars,
           serverVars
    <3>3. [client[c] EXCEPT !.queued = @ + 1] \in Context
      BY <3>1, <3>2 DEF Context, NoClient, Accepted, Freed
    <3>4. client' = [client EXCEPT ![c] = [client[c] EXCEPT !.queued = @ + 1]]
      BY <1>22 DEF SendQueued, Send, Announced, workerVars, serverVars
    <3> QED BY <3>1, <3>3, <3>4 DEF TypeOK
  <2>3. count' \in Int
    BY <1>22 DEF TypeOK, SendQueued, Send, Announced, workerVars, serverVars
  <2>4. /\ acceptIo' \in [Accepts -> {"posted", "completed", "taken", "freed"}]
        /\ leaked' \subseteq Contexts /\ UNCHANGED crash
        /\ shutdown' \in {"no", "flagged", "freeing", "exiting", "done"}
    BY <1>22 DEF TypeOK, WorkersTyped, Positions, Free, SendQueued, Send, Announced, workerVars,
         serverVars
  <2> QED BY <2>1, <2>2, <2>3, <2>4 DEF TypeOK
<1>23. ASSUME NEW c \in Contexts, Send(c), SendPosted(c) PROVE TypeOK'
  <2>1. WorkersTyped'
    BY <1>23, SetsAssumption DEF TypeOK, WorkersTyped, SendPosted, Send, Announced, workerVars,
         serverVars
  <2>2. client' \in [Contexts -> Context]
    <3>1. client[c] \in Context
      BY DEF TypeOK
    <3>3. [client[c] EXCEPT !.reader = TRUE, !.writes = @ + 1, !.pending = @ + 1] \in Context
      <4>1. client[c].writes + 1 \in Nat /\ client[c].pending + 1 \in Nat
        BY <3>1 DEF Context
      <4> QED BY <3>1, <4>1 DEF Context
    <3>4. client' = [client EXCEPT ![c] = [client[c] EXCEPT !.reader = TRUE, !.writes = @ + 1, !.pending = @ + 1]]
      BY <1>23 DEF SendPosted, Send, Announced, workerVars, serverVars
    <3> QED BY <3>1, <3>3, <3>4 DEF TypeOK
  <2>3. count' \in Int
    BY <1>23 DEF TypeOK, SendPosted, Send, Announced, workerVars, serverVars
  <2>4. /\ acceptIo' \in [Accepts -> {"posted", "completed", "taken", "freed"}]
        /\ leaked' \subseteq Contexts /\ UNCHANGED crash
        /\ shutdown' \in {"no", "flagged", "freeing", "exiting", "done"}
    BY <1>23 DEF TypeOK, WorkersTyped, Positions, Free, SendPosted, Send, Announced, workerVars,
         serverVars
  <2> QED BY <2>1, <2>2, <2>3, <2>4 DEF TypeOK
<1>24. ASSUME NEW c \in Contexts, Send(c), SendFailed(c) PROVE TypeOK'
  <2>1. WorkersTyped'
    BY <1>24, SetsAssumption DEF TypeOK, WorkersTyped, SendFailed, Send, Announced, Freed,
         workerVars, serverVars
  <2>2. client' \in [Contexts -> Context]
    <3>1. client[c] \in Context
      BY DEF TypeOK
    <3>2. Freed(client[c]) \in Context
      BY <3>1, FreedTyped
    <3>3. [client[c] EXCEPT !.reader = TRUE, !.open = FALSE] \in Context
      BY <3>1 DEF Context
    <3>4. \E r \in Context : client' = [client EXCEPT ![c] = r]
      BY <1>24, <3>2, <3>3 DEF SendFailed
    <3> QED BY <3>4 DEF TypeOK
  <2>3. count' \in Int
    <3>1. count \in Int
      BY DEF TypeOK
    <3>2. count' = count - 1
      BY <1>24 DEF SendFailed, Send, Announced, Freed, workerVars, serverVars
    <3> QED BY <3>1, <3>2
  <2>4. /\ acceptIo' \in [Accepts -> {"posted", "completed", "taken", "freed"}]
        /\ leaked' \subseteq Contexts /\ UNCHANGED crash
        /\ shutdown' \in {"no", "flagged", "freeing", "exiting", "done"}
    BY <1>24 DEF TypeOK, WorkersTyped, Positions, Free, SendFailed, Send, Announced, Freed,
         workerVars, serverVars
  <2> QED BY <2>1, <2>2, <2>3, <2>4 DEF TypeOK
<1>25. ASSUME NEW a \in Accepts, AcceptCompletes(a) PROVE TypeOK'
  <2>1. WorkersTyped'
    BY <1>25, SetsAssumption DEF TypeOK, WorkersTyped, AcceptCompletes, workerVars, serverVars
  <2> QED BY <1>25, <2>1 DEF TypeOK, AcceptCompletes, workerVars, serverVars
<1>26. ASSUME Flag PROVE TypeOK'
  <2>1. WorkersTyped'
    BY <1>26, SetsAssumption DEF TypeOK, WorkersTyped, Flag, ShutdownStep, workerVars, serverVars
  <2> QED BY <1>26, <2>1 DEF TypeOK, Flag, ShutdownStep, workerVars, serverVars
<1>27. ASSUME CloseListenSocket PROVE TypeOK'
  <2>1. WorkersTyped'
    BY <1>27, SetsAssumption DEF TypeOK, WorkersTyped, CloseListenSocket, ShutdownStep, workerVars,
         serverVars
  <2> QED BY <1>27, <2>1 DEF TypeOK, CloseListenSocket, ShutdownStep, workerVars, serverVars
<1>28. ASSUME NEW a \in Accepts, FreeAccept(a) PROVE TypeOK'
  <2>1. WorkersTyped'
    BY <1>28, SetsAssumption DEF TypeOK, WorkersTyped, FreeAccept, workerVars, serverVars
  <2> QED BY <1>28, <2>1 DEF TypeOK, FreeAccept, workerVars, serverVars
<1>29. ASSUME CloseClients PROVE TypeOK'
  <2>1. WorkersTyped'
    BY <1>29, SetsAssumption DEF TypeOK, WorkersTyped, CloseClients, ShutdownStep, workerVars,
         serverVars
  <2>2. client' \in [Contexts -> Context]
    <3>1. client \in [Contexts -> Context]
      BY DEF TypeOK
    <3>2. \A c \in Contexts : [client[c] EXCEPT !.open = FALSE] \in Context
      BY <3>1 DEF Context
    <3> QED BY <1>29, <3>2 DEF CloseClients
  <2>3. count' \in Int
    <3>1. {c \in Contexts : Open(c)} \subseteq Contexts
      OBVIOUS
    <3>2. Cardinality({c \in Contexts : Open(c)}) \in Nat
      BY <3>1, SetsAssumption, FS_Subset, FS_CardinalityType, Zenon
    <3>3. count \in Int
      BY DEF TypeOK
    <3>4. count' = count - Cardinality({c \in Contexts : Open(c)})
      BY <1>29 DEF CloseClients
    <3> QED BY <3>2, <3>3, <3>4
  <2>4. UNCHANGED <<acceptIo, leaked, crash>> /\ shutdown' = "exiting"
    BY <1>29 DEF CloseClients, ShutdownStep
  <2> QED BY <2>1, <2>2, <2>3, <2>4 DEF TypeOK
<1>30. ASSUME Reset PROVE TypeOK'
  <2>1. WorkersTyped'
    BY <1>30, SetsAssumption DEF TypeOK, WorkersTyped, Reset, ShutdownStep, workerVars, serverVars
  <2>2. client' \in [Contexts -> Context]
    BY <1>30 DEF TypeOK, Reset, ShutdownStep, workerVars, serverVars
  <2>3. count' \in Int
    <3>1. count \in Int
      BY DEF TypeOK
    <3>2. count' = 0
      BY <1>30 DEF Reset, ShutdownStep, workerVars, serverVars
    <3> QED BY <3>1, <3>2
  <2>4. /\ acceptIo' \in [Accepts -> {"posted", "completed", "taken", "freed"}]
        /\ leaked' \subseteq Contexts /\ UNCHANGED crash
        /\ shutdown' \in {"no", "flagged", "freeing", "exiting", "done"}
    BY <1>30 DEF TypeOK, WorkersTyped, Positions, Free, Reset, ShutdownStep, workerVars, serverVars
  <2> QED BY <2>1, <2>2, <2>3, <2>4 DEF TypeOK
<1>31. CASE UNCHANGED vars
  BY <1>31 DEF vars, TypeOK, WorkersTyped
<1> QED BY <1>1, <1>2, <1>3, <1>4, <1>5, <1>6, <1>7, <1>8, <1>9, <1>10, <1>11, <1>12, <1>13, <1>14,
     <1>15, <1>16, <1>17, <1>18, <1>19, <1>20, <1>21, <1>22, <1>23, <1>24, <1>25, <1>26, <1>27,
     <1>28, <1>29, <1>30, <1>31 DEF Next, Take, Handle, Send, Shutdown

LEMMA InitIInv == Init => IInv
<1> SUFFICES ASSUME Init PROVE IInv
  OBVIOUS
<1>1. 0 \in 0 .. MaxQueued /\ 0 \in Nat
  BY LimitsAssumption
<1>2. NoClient \in Context
  BY <1>1 DEF Context, NoClient
<1>3. TypeOK
  BY <1>1, <1>2 DEF Init, TypeOK, WorkersTyped
<1>4. Positions /\ NotYet /\ Deleting /\ Gone
  BY SetsAssumption DEF Init, Positions, NotYet, Deleting, Gone, Free, NoClient, Open
<1>5. ReferencesCounted /\ LastReferenceClosed /\ Attended /\ Reading
  BY SetsAssumption DEF Init, ReferencesCounted, LastReferenceClosed, Attended, Reading,
                        NoClient, Live, HasRead
<1> QED BY <1>3, <1>4, <1>5 DEF IInv

LEMMA StepIInv == IInv /\ [Next]_vars => IInv'
<1> SUFFICES ASSUME IInv, [Next]_vars PROVE IInv'
  OBVIOUS
<1>1. Kinds
  BY StepKinds DEF IInv
<1>2. TypeOK'
  BY TypeStep DEF IInv
<1>3. Positions' /\ NotYet' /\ Deleting' /\ Gone'
  BY <1>1, PositionsStep, NotYetStep, DeletingStep, GoneStep DEF IInv
<1>4. ReferencesCounted' /\ LastReferenceClosed' /\ Attended' /\ Reading'
  BY <1>1, CountedStep, LastStep, AttendedStep, ReadingStep DEF IInv
<1> QED BY <1>2, <1>3, <1>4 DEF IInv

THEOREM Inductive == Spec => []IInv
<1> QED BY InitIInv, StepIInv, PTL DEF Spec

-----------------------------------------------------------------------------
(* m_nCurrentConnectCount.  Between: workers that have counted a client    *)
(* that is not there yet, or closed one and not counted it; Admitted: the  *)
(* same without those who are about to take the count back.                *)
OpenOnes == {c \in Contexts : Open(c)}
Between == {w \in Workers : pc[w] \in {"closed", "reject", "repost", "allocate"}}
Admitted == {w \in Workers : pc[w] \in {"closed", "repost", "allocate"}}

CountInv ==
  /\ shutdown # "done" => count = Cardinality(OpenOnes) + Cardinality(Between)
  /\ shutdown = "done" => \A w \in Workers : pc[w] = "exited"
  /\ Cardinality(OpenOnes) + Cardinality(Admitted) <= Limit

(* What the steps do with the three sets and the count. *)
Quiet == OpenOnes' = OpenOnes /\ Between' = Between /\ Admitted' = Admitted /\ count' = count
Closes(w, c) ==
  /\ c \in OpenOnes /\ OpenOnes' = OpenOnes \ {c}
  /\ w \notin Between /\ Between' = Between \cup {w} /\ Admitted' = Admitted \cup {w}
  /\ count' = count
Discounts(w) ==
  /\ OpenOnes' = OpenOnes
  /\ w \in Between /\ Between' = Between \ {w} /\ Admitted' = Admitted \ {w}
  /\ count' = count - 1
Counts(w) ==
  /\ OpenOnes' = OpenOnes
  /\ w \notin Between /\ Between' = Between \cup {w}
  /\ Admitted' = Admitted \/ (Admitted' = Admitted \cup {w} /\ count + 1 <= Limit)
  /\ count' = count + 1
Opens(w, c) ==
  /\ c \notin OpenOnes /\ OpenOnes' = OpenOnes \cup {c}
  /\ w \in Admitted /\ Between' = Between \ {w} /\ Admitted' = Admitted \ {w}
  /\ count' = count
Loses(S) ==
  /\ S \subseteq OpenOnes /\ OpenOnes' = OpenOnes \ S
  /\ Between' = Between /\ Admitted' = Admitted
  /\ count' = count - Cardinality(S)
Finish ==
  /\ shutdown' = "done" /\ \A w \in Workers : pc'[w] = "exited"
  /\ OpenOnes' = OpenOnes /\ Admitted' = Admitted

CountKinds ==
  \/ Quiet \/ Finish
  \/ \E w \in Workers :
       \/ Discounts(w) \/ Counts(w)
       \/ \E c \in Contexts : Closes(w, c) \/ Opens(w, c)
  \/ \E S \in SUBSET Contexts : Loses(S)

LEMMA CountSteps ==
  ASSUME TypeOK, Positions, NotYet, LastReferenceClosed, [Next]_vars
  PROVE  CountKinds
<1>0. client \in [Contexts -> Context] /\ DOMAIN pc = Workers
  <2>1. client \in [Contexts -> Context]
    BY DEF TypeOK
  <2>2. DOMAIN pc = Workers
    BY DEF TypeOK, WorkersTyped
  <2> QED BY <2>1, <2>2
<1>next. \A w \in Workers : pc[w] = "closed" => next[w] \in {"release", "firstRead", "nextRead"}
  BY DEF TypeOK, WorkersTyped, Positions
<1>count. count \in Int /\ Limit \in Nat
  BY LimitsAssumption DEF TypeOK
<1>1. ASSUME NEW w \in Workers, NEW c \in Contexts, TakeRead(w, c) PROVE Quiet
  <2>1. OpenOnes' = OpenOnes
    BY <1>1, <1>0 DEF OpenOnes, Open, Context, TakeRead, workerVars, serverVars
  <2>2. Between' = Between /\ Admitted' = Admitted /\ count' = count
    BY <1>1, <1>0 DEF Between, Admitted, TakeRead, workerVars, serverVars
  <2> QED BY <2>1, <2>2 DEF Quiet
<1>2. ASSUME NEW w \in Workers, NEW c \in Contexts, TakeWrite(w, c) PROVE Quiet
  <2>1. OpenOnes' = OpenOnes
    BY <1>2, <1>0 DEF OpenOnes, Open, Context, TakeWrite, workerVars, serverVars
  <2>2. Between' = Between /\ Admitted' = Admitted /\ count' = count
    BY <1>2, <1>0 DEF Between, Admitted, TakeWrite, workerVars, serverVars
  <2> QED BY <2>1, <2>2 DEF Quiet
<1>3. ASSUME NEW w \in Workers, NEW a \in Accepts, TakeAccept(w, a) PROVE Quiet
  <2>1. OpenOnes' = OpenOnes
    BY <1>3 DEF OpenOnes, Open, TakeAccept, workerVars, serverVars
  <2>2. Between' = Between /\ Admitted' = Admitted /\ count' = count
    BY <1>3, <1>0 DEF Between, Admitted, TakeAccept, workerVars, serverVars
  <2> QED BY <2>1, <2>2 DEF Quiet
<1>4. ASSUME NEW w \in Workers, TakeNull(w) PROVE Quiet
  <2>1. OpenOnes' = OpenOnes
    BY <1>4 DEF OpenOnes, Open, TakeNull, Goto, workerVars, serverVars
  <2>2. Between' = Between /\ Admitted' = Admitted /\ count' = count
    BY <1>4, <1>0 DEF Between, Admitted, TakeNull, Goto, workerVars, serverVars
  <2> QED BY <2>1, <2>2 DEF Quiet
<1>5. ASSUME NEW w \in Workers, CloseClient(w) PROVE (Quiet \/ Closes(w, ctx[w]))
  <2>1. pc[w] = "close" /\ ctx[w] \in Contexts /\ next[w] \in {"release", "firstRead", "nextRead"} /\ count' = count
    BY <1>5 DEF TypeOK, WorkersTyped, Positions, Free, CloseClient, serverVars
  <2>2. client' = [client EXCEPT ![ctx[w]].open = FALSE]
    BY <1>5 DEF CloseClient
  <2>3. OpenOnes' = OpenOnes \ {ctx[w]}
    <3>1. \A c \in Contexts : client'[c].open = (IF c = ctx[w] THEN FALSE ELSE client[c].open)
      BY <1>0, <2>1, <2>2 DEF Context
    <3> QED BY <3>1 DEF OpenOnes, Open
  <2>4. CASE Open(ctx[w])
    <3>1. Between' = Between \cup {w} /\ Admitted' = Admitted \cup {w} /\ w \notin Between
      BY <1>5, <1>0, <2>1, <2>4 DEF CloseClient, Between, Admitted
    <3> QED BY <2>1, <2>3, <2>4, <3>1 DEF Closes, OpenOnes
  <2>5. CASE ~Open(ctx[w])
    <3>1. Between' = Between /\ Admitted' = Admitted
      BY <1>5, <1>0, <2>1, <2>5 DEF CloseClient, Between, Admitted
    <3> QED BY <2>1, <2>3, <2>5, <3>1 DEF Quiet, OpenOnes
  <2> QED BY <2>4, <2>5
<1>6. ASSUME NEW w \in Workers, Disconnected(w) PROVE Discounts(w)
  <2>1. OpenOnes' = OpenOnes
    BY <1>6 DEF OpenOnes, Open, Disconnected, workerVars, serverVars
  <2>2. pc[w] = "closed" /\ pc' = [pc EXCEPT ![w] = next[w]] /\ count' = count - 1
    BY <1>6 DEF Disconnected
  <2>3. w \in Between /\ Between' = Between \ {w} /\ Admitted' = Admitted \ {w}
    BY <1>6, <1>0, <1>next, <2>2 DEF Between, Admitted
  <2> QED BY <2>1, <2>2, <2>3 DEF Discounts
<1>7. ASSUME NEW w \in Workers, ExitIOLoop(w) PROVE Quiet
  <2>1. OpenOnes' = OpenOnes
    BY <1>7, <1>0 DEF OpenOnes, Open, Context, ExitIOLoop, Goto, workerVars, serverVars
  <2>2. Between' = Between /\ Admitted' = Admitted /\ count' = count
    BY <1>7, <1>0 DEF Between, Admitted, ExitIOLoop, Goto, workerVars, serverVars
  <2> QED BY <2>1, <2>2 DEF Quiet
<1>8. ASSUME NEW w \in Workers, DeleteContext(w) PROVE Quiet
  <2>1. OpenOnes' = OpenOnes
    BY <1>8, <1>0 DEF OpenOnes, Open, Context, DeleteContext, Goto, Freed, workerVars, serverVars
  <2>2. Between' = Between /\ Admitted' = Admitted /\ count' = count
    BY <1>8, <1>0 DEF Between, Admitted, DeleteContext, Goto, Freed, workerVars, serverVars
  <2> QED BY <2>1, <2>2 DEF Quiet
<1>9. ASSUME NEW w \in Workers, NEW here \in {"firstRead", "nextRead"}, PostClientIoRead(w, here)
      PROVE Quiet
  <2>1. OpenOnes' = OpenOnes
    BY <1>9, <1>0 DEF OpenOnes, Open, Context, PostClientIoRead, Goto, GotoClose, workerVars,
         serverVars
  <2>2. Between' = Between /\ Admitted' = Admitted /\ count' = count
    BY <1>9, <1>0 DEF Between, Admitted, PostClientIoRead, Goto, GotoClose, workerVars, serverVars
  <2> QED BY <2>1, <2>2 DEF Quiet
<1>10. ASSUME NEW w \in Workers, Count(w) PROVE Counts(w)
  <2>1. OpenOnes' = OpenOnes
    BY <1>10 DEF OpenOnes, Open, Count, Goto, workerVars, serverVars
  <2>2. pc[w] = "accept" /\ count' = count + 1 /\ pc' = [pc EXCEPT ![w] = IF count + 1 > Limit THEN "reject" ELSE "repost"]
    BY <1>10 DEF Count, Goto
  <2>3. CASE count + 1 > Limit
    <3>1. pc' = [pc EXCEPT ![w] = "reject"]
      BY <2>2, <2>3
    <3>2. w \notin Between /\ Between' = Between \cup {w} /\ Admitted' = Admitted
      BY <1>10, <1>0, <2>2, <3>1 DEF Between, Admitted
    <3> QED BY <2>1, <2>2, <3>2 DEF Counts
  <2>4. CASE count + 1 <= Limit
    <3>0. ~(count + 1 > Limit)
      BY <1>count, <2>4
    <3>1. pc' = [pc EXCEPT ![w] = "repost"]
      BY <2>2, <3>0
    <3>2. w \notin Between /\ Between' = Between \cup {w} /\ Admitted' = Admitted \cup {w}
      BY <1>10, <1>0, <2>2, <3>1 DEF Between, Admitted
    <3> QED BY <2>1, <2>2, <2>4, <3>2 DEF Counts
  <2> QED BY <1>count, <2>3, <2>4
<1>11. ASSUME NEW w \in Workers, Reject(w) PROVE Discounts(w)
  <2>1. OpenOnes' = OpenOnes
    BY <1>11 DEF OpenOnes, Open, Reject, Repost, CreateAcceptSocket, workerVars, serverVars
  <2>2. pc[w] = "reject" /\ pc' = [pc EXCEPT ![w] = "idle"] /\ count' = count - 1
    BY <1>11 DEF Reject, Repost
  <2>3. w \in Between /\ Between' = Between \ {w} /\ Admitted' = Admitted \ {w}
    BY <1>11, <1>0, <2>2 DEF Between, Admitted
  <2> QED BY <2>1, <2>2, <2>3 DEF Discounts
<1>12. ASSUME NEW w \in Workers, PostNextAccept(w) PROVE Quiet
  <2>1. OpenOnes' = OpenOnes
    BY <1>12 DEF OpenOnes, Open, PostNextAccept, Repost, CreateAcceptSocket, workerVars, serverVars
  <2>2. Between' = Between /\ Admitted' = Admitted /\ count' = count
    BY <1>12, <1>0 DEF Between, Admitted, PostNextAccept, Repost, CreateAcceptSocket, workerVars,
         serverVars
  <2> QED BY <2>1, <2>2 DEF Quiet
<1>13. ASSUME NEW w \in Workers, NEW c \in Contexts, AddContext(w, c) PROVE Opens(w, c)
  <2>1. c \notin OpenOnes
    BY <1>13 DEF NotYet, AddContext, OpenOnes
  <2>2. \A d \in Contexts : client'[d].open = (IF d = c THEN TRUE ELSE client[d].open)
    BY <1>13, <1>0 DEF AddContext, Accepted, NoClient
  <2>3. OpenOnes' = OpenOnes \cup {c}
    BY <2>2 DEF OpenOnes, Open
  <2>4. w \in Admitted /\ Between' = Between \ {w} /\ Admitted' = Admitted \ {w}
    BY <1>13, <1>0 DEF AddContext, Between, Admitted
  <2> QED BY <1>13, <2>1, <2>3, <2>4 DEF Opens, AddContext, serverVars
<1>14. ASSUME NEW w \in Workers, UpdateCompletionPort(w) PROVE Quiet
  <2>1. OpenOnes' = OpenOnes
    BY <1>14 DEF OpenOnes, Open, UpdateCompletionPort, Goto, workerVars, serverVars
  <2>2. Between' = Between /\ Admitted' = Admitted /\ count' = count
    BY <1>14, <1>0 DEF Between, Admitted, UpdateCompletionPort, Goto, workerVars, serverVars
  <2> QED BY <2>1, <2>2 DEF Quiet
<1>15. ASSUME NEW w \in Workers, NotifyNewConnection(w) PROVE Quiet
  <2>1. OpenOnes' = OpenOnes
    BY <1>15 DEF OpenOnes, Open, NotifyNewConnection, Goto, GotoClose, workerVars, serverVars
  <2>2. Between' = Between /\ Admitted' = Admitted /\ count' = count
    BY <1>15, <1>0 DEF Between, Admitted, NotifyNewConnection, Goto, GotoClose, workerVars,
         serverVars
  <2> QED BY <2>1, <2>2 DEF Quiet
<1>16. ASSUME NEW w \in Workers, NotifyReceivedPackage(w) PROVE Quiet
  <2>1. OpenOnes' = OpenOnes
    BY <1>16 DEF OpenOnes, Open, NotifyReceivedPackage, Goto, GotoClose, workerVars, serverVars
  <2>2. Between' = Between /\ Admitted' = Admitted /\ count' = count
    BY <1>16, <1>0 DEF Between, Admitted, NotifyReceivedPackage, Goto, GotoClose, workerVars,
         serverVars
  <2> QED BY <2>1, <2>2 DEF Quiet
<1>17. ASSUME NEW w \in Workers, Written(w) PROVE Quiet
  <2>1. OpenOnes' = OpenOnes
    BY <1>17 DEF OpenOnes, Open, Written, Goto, workerVars, serverVars
  <2>2. Between' = Between /\ Admitted' = Admitted /\ count' = count
    BY <1>17, <1>0 DEF Between, Admitted, Written, Goto, workerVars, serverVars
  <2> QED BY <2>1, <2>2 DEF Quiet
<1>18. ASSUME NEW w \in Workers, SwapBuffer(w) PROVE Quiet
  <2>1. OpenOnes' = OpenOnes
    BY <1>18, <1>0 DEF OpenOnes, Open, Context, SwapBuffer, Goto, workerVars, serverVars
  <2>2. Between' = Between /\ Admitted' = Admitted /\ count' = count
    BY <1>18, <1>0 DEF Between, Admitted, SwapBuffer, Goto, workerVars, serverVars
  <2> QED BY <2>1, <2>2 DEF Quiet
<1>19. ASSUME NEW w \in Workers, LookAtReader(w) PROVE Quiet
  <2>1. OpenOnes' = OpenOnes
    BY <1>19 DEF OpenOnes, Open, LookAtReader, Goto, workerVars, serverVars
  <2>2. Between' = Between /\ Admitted' = Admitted /\ count' = count
    BY <1>19, <1>0 DEF Between, Admitted, LookAtReader, Goto, workerVars, serverVars
  <2> QED BY <2>1, <2>2 DEF Quiet
<1>20. ASSUME NEW w \in Workers, PostClientIoWrite(w) PROVE Quiet
  <2>1. OpenOnes' = OpenOnes
    BY <1>20, <1>0 DEF OpenOnes, Open, Context, PostClientIoWrite, Goto, GotoClose, workerVars,
         serverVars
  <2>2. Between' = Between /\ Admitted' = Admitted /\ count' = count
    BY <1>20, <1>0 DEF Between, Admitted, PostClientIoWrite, Goto, GotoClose, workerVars, serverVars
  <2> QED BY <2>1, <2>2 DEF Quiet
<1>21. ASSUME NEW w \in Workers, Fault(w) PROVE Quiet
  <2>1. OpenOnes' = OpenOnes
    BY <1>21 DEF OpenOnes, Open, Fault, NullReader, FreedAccept, LostPort, workerVars, serverVars
  <2>2. Between' = Between /\ Admitted' = Admitted /\ count' = count
    BY <1>21, <1>0 DEF Between, Admitted, Fault, NullReader, FreedAccept, LostPort, workerVars,
         serverVars
  <2> QED BY <2>1, <2>2 DEF Quiet
<1>22. ASSUME NEW c \in Contexts, Send(c), SendQueued(c) PROVE Quiet
  <2>1. OpenOnes' = OpenOnes
    BY <1>22, <1>0 DEF OpenOnes, Open, Context, SendQueued, Send, Announced, workerVars, serverVars
  <2>2. Between' = Between /\ Admitted' = Admitted /\ count' = count
    BY <1>22, <1>0 DEF Between, Admitted, SendQueued, Send, Announced, workerVars, serverVars
  <2> QED BY <2>1, <2>2 DEF Quiet
<1>23. ASSUME NEW c \in Contexts, Send(c), SendPosted(c) PROVE Quiet
  <2>1. OpenOnes' = OpenOnes
    BY <1>23, <1>0 DEF OpenOnes, Open, Context, SendPosted, Send, Announced, workerVars, serverVars
  <2>2. Between' = Between /\ Admitted' = Admitted /\ count' = count
    BY <1>23, <1>0 DEF Between, Admitted, SendPosted, Send, Announced, workerVars, serverVars
  <2> QED BY <2>1, <2>2 DEF Quiet
<1>24. ASSUME NEW c \in Contexts, Send(c), SendFailed(c) PROVE Loses({c})
  <2>1. Live(c) /\ Open(c) /\ pc' = pc /\ count' = count - 1
    BY <1>24 DEF Send, Announced, SendFailed, workerVars
  <2>2. client[c].pending # 0
    BY <2>1 DEF LastReferenceClosed
  <2>3. client' = [client EXCEPT ![c] = [@ EXCEPT !.reader = TRUE, !.open = FALSE]]
    BY <1>24, <2>2 DEF SendFailed
  <2>4. \A d \in Contexts : client'[d].open = (IF d = c THEN FALSE ELSE client[d].open)
    BY <1>0, <2>3 DEF Context
  <2>5. OpenOnes' = OpenOnes \ {c} /\ {c} \subseteq OpenOnes
    BY <2>1, <2>4 DEF OpenOnes, Open
  <2>6. Between' = Between /\ Admitted' = Admitted
    BY <2>1 DEF Between, Admitted
  <2>7. Cardinality({c}) = 1
    BY FS_Singleton
  <2> QED BY <2>1, <2>5, <2>6, <2>7 DEF Loses
<1>25. ASSUME NEW a \in Accepts, AcceptCompletes(a) PROVE Quiet
  <2>1. OpenOnes' = OpenOnes
    BY <1>25 DEF OpenOnes, Open, AcceptCompletes, workerVars, serverVars
  <2>2. Between' = Between /\ Admitted' = Admitted /\ count' = count
    BY <1>25, <1>0 DEF Between, Admitted, AcceptCompletes, workerVars, serverVars
  <2> QED BY <2>1, <2>2 DEF Quiet
<1>26. ASSUME Flag PROVE Quiet
  <2>1. OpenOnes' = OpenOnes
    BY <1>26 DEF OpenOnes, Open, Flag, ShutdownStep, workerVars, serverVars
  <2>2. Between' = Between /\ Admitted' = Admitted /\ count' = count
    BY <1>26, <1>0 DEF Between, Admitted, Flag, ShutdownStep, workerVars, serverVars
  <2> QED BY <2>1, <2>2 DEF Quiet
<1>27. ASSUME CloseListenSocket PROVE Quiet
  <2>1. OpenOnes' = OpenOnes
    BY <1>27 DEF OpenOnes, Open, CloseListenSocket, ShutdownStep, workerVars, serverVars
  <2>2. Between' = Between /\ Admitted' = Admitted /\ count' = count
    BY <1>27, <1>0 DEF Between, Admitted, CloseListenSocket, ShutdownStep, workerVars, serverVars
  <2> QED BY <2>1, <2>2 DEF Quiet
<1>28. ASSUME NEW a \in Accepts, FreeAccept(a) PROVE Quiet
  <2>1. OpenOnes' = OpenOnes
    BY <1>28 DEF OpenOnes, Open, FreeAccept, workerVars, serverVars
  <2>2. Between' = Between /\ Admitted' = Admitted /\ count' = count
    BY <1>28, <1>0 DEF Between, Admitted, FreeAccept, workerVars, serverVars
  <2> QED BY <2>1, <2>2 DEF Quiet
<1>29. ASSUME CloseClients PROVE Loses(OpenOnes)
  <2>1. \A c \in Contexts : ~client'[c].open
    BY <1>29, <1>0 DEF CloseClients, Context
  <2>2. OpenOnes' = OpenOnes \ OpenOnes
    BY <2>1 DEF OpenOnes, Open
  <2>3. Between' = Between /\ Admitted' = Admitted /\ count' = count - Cardinality(OpenOnes)
    BY <1>29 DEF CloseClients, workerVars, Between, Admitted, OpenOnes
  <2> QED BY <2>2, <2>3 DEF Loses
<1>30. ASSUME Reset PROVE Finish
  BY <1>30 DEF Finish, OpenOnes, Open, Admitted, Reset, ShutdownStep, workerVars, serverVars
<1>31. CASE UNCHANGED vars
  <2>1. client' = client /\ pc' = pc /\ count' = count
    BY <1>31 DEF vars
  <2> QED BY <2>1 DEF Quiet, OpenOnes, Open, Between, Admitted, CountKinds
<1>32. ASSUME NEW w \in Workers, Take(w) PROVE CountKinds
  BY <1>32, <1>1, <1>2, <1>3, <1>4 DEF Take, CountKinds
<1>33. ASSUME NEW w \in Workers, Handle(w) PROVE CountKinds
  <2>1. ctx[w] \in Contexts \/ ~CloseClient(w)
    BY DEF Positions, Free, CloseClient
  <2> QED BY <1>33, <2>1, <1>5, <1>6, <1>7, <1>8, <1>9, <1>10, <1>11, <1>12, <1>13, <1>14, <1>15,
       <1>16, <1>17, <1>18, <1>19, <1>20, <1>21 DEF Handle, CountKinds
<1>34. ASSUME NEW c \in Contexts, Send(c) PROVE CountKinds
  <2>1. {c} \in SUBSET Contexts
    OBVIOUS
  <2> QED BY <1>34, <2>1, <1>22, <1>23, <1>24 DEF Send, CountKinds
<1>35. ASSUME Shutdown PROVE CountKinds
  <2>1. OpenOnes \in SUBSET Contexts
    BY DEF OpenOnes
  <2> QED BY <1>35, <2>1, <1>26, <1>27, <1>28, <1>29, <1>30 DEF Shutdown, CountKinds
<1> QED BY <1>25, <1>31, <1>32, <1>33, <1>34, <1>35 DEF Next, CountKinds

(* After Shutdown the workers are gone. *)
LEMMA DoneStays ==
  ASSUME TypeOK, CountInv, [Next]_vars
  PROVE  /\ shutdown' = "done" => \A w \in Workers : pc'[w] = "exited"
         /\ shutdown = "done" => shutdown' = "done" /\ Between' = {} /\ Between = {}
<1>1. CASE shutdown = "done"
  <2>1. \A w \in Workers : pc[w] = "exited"
    BY <1>1 DEF CountInv
  <2>2. pc' = pc /\ shutdown' = shutdown
    <3>1. ASSUME NEW w \in Workers, Take(w) PROVE FALSE
      BY <1>1, <2>1, <3>1 DEF Take, TakeRead, TakeWrite, TakeAccept, TakeNull
    <3>2. ASSUME NEW w \in Workers, Handle(w) PROVE FALSE
      BY <2>1, <3>2 DEF Handle, CloseClient, Disconnected, ExitIOLoop, DeleteContext,
           PostClientIoRead, Count, Reject, PostNextAccept, Repost, AddContext, UpdateCompletionPort,
           NotifyNewConnection, NotifyReceivedPackage, Written, SwapBuffer, LookAtReader,
           PostClientIoWrite, Fault, NullReader, UsesReader, FreedAccept, LostPort, Goto, GotoClose
    <3>3. ASSUME NEW c \in Contexts, Send(c) PROVE pc' = pc /\ shutdown' = shutdown
      BY <3>3 DEF Send, workerVars
    <3>4. ASSUME NEW x \in Accepts, AcceptCompletes(x) PROVE pc' = pc /\ shutdown' = shutdown
      BY <3>4 DEF AcceptCompletes, workerVars
    <3>5. ~Shutdown
      BY <1>1 DEF Shutdown, Flag, CloseListenSocket, CloseClients, Reset, FreeAccept, ShutdownStep
    <3>6. CASE UNCHANGED vars
      BY <3>6 DEF vars
    <3> QED BY <3>1, <3>2, <3>3, <3>4, <3>5, <3>6 DEF Next
  <2> QED BY <1>1, <2>1, <2>2 DEF Between
<1>2. CASE shutdown # "done"
  <2>1. shutdown' = "done" => \A w \in Workers : pc'[w] = "exited"
    <3>1. ASSUME NEW w \in Workers, Take(w) PROVE shutdown' = shutdown
      BY <3>1 DEF Take, TakeRead, TakeWrite, TakeAccept, TakeNull, serverVars
    <3>2. ASSUME NEW w \in Workers, Handle(w) PROVE shutdown' = shutdown
      BY <3>2 DEF Handle, CloseClient, Disconnected, ExitIOLoop, DeleteContext,
           PostClientIoRead, Count, Reject, PostNextAccept, Repost, AddContext, UpdateCompletionPort,
           NotifyNewConnection, NotifyReceivedPackage, Written, SwapBuffer, LookAtReader,
           PostClientIoWrite, Fault, serverVars
    <3>3. ASSUME NEW c \in Contexts, Send(c) PROVE shutdown' = shutdown
      BY <3>3 DEF Send
    <3>4. ASSUME NEW x \in Accepts, AcceptCompletes(x) PROVE shutdown' = shutdown
      BY <3>4 DEF AcceptCompletes
    <3>5. CASE Shutdown
      <4>1. CASE Reset
        BY <4>1 DEF Reset, workerVars
      <4>2. shutdown' \in {"flagged", "freeing", "exiting"} \/ shutdown' = shutdown \/ Reset
        BY <3>5 DEF Shutdown, Flag, CloseListenSocket, CloseClients, FreeAccept, ShutdownStep
      <4> QED BY <1>2, <4>1, <4>2
    <3>6. CASE UNCHANGED vars
      BY <1>2, <3>6 DEF vars
    <3> QED BY <1>2, <3>1, <3>2, <3>3, <3>4, <3>5, <3>6 DEF Next
  <2> QED BY <1>2, <2>1
<1> QED BY <1>1, <1>2

LEMMA CountFinite ==
  /\ IsFiniteSet(OpenOnes) /\ IsFiniteSet(Between) /\ IsFiniteSet(Admitted)
  /\ Cardinality(OpenOnes) \in Nat /\ Cardinality(Between) \in Nat /\ Cardinality(Admitted) \in Nat
  /\ Admitted \subseteq Between /\ Cardinality(Admitted) <= Cardinality(Between)
<1>1. OpenOnes \subseteq Contexts /\ Between \subseteq Workers /\ Admitted \subseteq Between
  BY DEF OpenOnes, Between, Admitted
<1>2. IsFiniteSet(OpenOnes) /\ IsFiniteSet(Between) /\ IsFiniteSet(Admitted)
  BY <1>1, SetsAssumption, FS_Subset
<1>3. Cardinality(Admitted) <= Cardinality(Between)
  BY <1>1, <1>2, FS_Subset
<1> QED BY <1>1, <1>2, <1>3, FS_CardinalityType

(* Every step that moves a client or a worker moves the count with it.     *)
LEMMA CountStep ==
  ASSUME TypeOK, Positions, NotYet, LastReferenceClosed, CountInv, [Next]_vars
  PROVE  CountInv'
<1> DEFINE o == Cardinality(OpenOnes)  b == Cardinality(Between)  a == Cardinality(Admitted)
<1> HIDE DEF o, b, a
<1>1. o \in Nat /\ b \in Nat /\ a \in Nat /\ a <= b /\ count \in Int /\ Limit \in Nat
  BY CountFinite, LimitsAssumption DEF TypeOK, o, b, a
<1>2. (shutdown # "done" => count = o + b) /\ o + a <= Limit
  BY DEF CountInv, o, b, a
<1>3. /\ shutdown' = "done" => \A w \in Workers : pc'[w] = "exited"
      /\ shutdown = "done" => shutdown' = "done" /\ Between' = {} /\ Between = {}
  BY DoneStays
<1>4. SUFFICES ASSUME NEW p, NEW q, NEW r, p = Cardinality(OpenOnes'), q = Cardinality(Between'), r = Cardinality(Admitted')
               PROVE  (shutdown' # "done" => count' = p + q) /\ p + r <= Limit
  BY <1>3 DEF CountInv
<1>5. CASE Quiet
  BY <1>1, <1>2, <1>3, <1>4, <1>5 DEF Quiet, o, b, a
<1>6. CASE Finish
  BY <1>1, <1>2, <1>4, <1>6 DEF Finish, o, a
<1>7. ASSUME NEW w \in Workers, Discounts(w)
      PROVE (shutdown' # "done" => count' = p + q) /\ p + r <= Limit
  <2>1. p = o /\ q = b - 1 /\ count' = count - 1
    BY <1>4, <1>7, CountFinite, FS_RemoveElement DEF Discounts, o, b
  <2>2. r \in Nat /\ r <= a
    <3>1. Admitted' \subseteq Admitted
      BY <1>7 DEF Discounts
    <3> QED BY <1>4, <3>1, CountFinite, FS_Subset, FS_CardinalityType DEF a
  <2> QED BY <1>1, <1>2, <1>3, <2>1, <2>2
<1>8. ASSUME NEW w \in Workers, Counts(w)
      PROVE (shutdown' # "done" => count' = p + q) /\ p + r <= Limit
  <2>1. shutdown # "done"
    BY <1>3, <1>8 DEF Counts
  <2>2. p = o /\ q = b + 1 /\ count' = count + 1
    BY <1>4, <1>8, CountFinite, FS_AddElement DEF Counts, o, b
  <2>3. r = a \/ (r <= a + 1 /\ r \in Nat /\ count + 1 <= Limit)
    <3>1. CASE Admitted' = Admitted
      BY <1>4, <3>1 DEF a
    <3>2. CASE Admitted' = Admitted \cup {w} /\ count + 1 <= Limit
      <4>1. w \notin Admitted
        BY <1>8, CountFinite DEF Counts
      <4>2. r = a + 1
        BY <1>4, <3>2, <4>1, CountFinite, FS_AddElement DEF a
      <4> QED BY <1>1, <3>2, <4>2
    <3> QED BY <1>8, <3>1, <3>2 DEF Counts
  <2>4. count = o + b
    BY <1>2, <2>1
  <2>5. p + r <= Limit
    BY <1>1, <1>2, <2>2, <2>3, <2>4
  <2> QED BY <1>1, <2>2, <2>4, <2>5
<1>9. ASSUME NEW w \in Workers, NEW c \in Contexts, Closes(w, c)
      PROVE (shutdown' # "done" => count' = p + q) /\ p + r <= Limit
  <2>0. p = o - 1
    BY <1>4, <1>9, CountFinite, FS_RemoveElement DEF Closes, o
  <2>1. q = b + 1 /\ count' = count
    BY <1>4, <1>9, CountFinite, FS_AddElement DEF Closes, b
  <2>2. r = a + 1
    <3>1. w \notin Admitted
      BY <1>9, CountFinite DEF Closes
    <3> QED BY <1>4, <1>9, <3>1, CountFinite, FS_AddElement DEF Closes, a
  <2> QED BY <1>1, <1>2, <1>3, <2>0, <2>1, <2>2
<1>10. ASSUME NEW w \in Workers, NEW c \in Contexts, Opens(w, c)
       PROVE (shutdown' # "done" => count' = p + q) /\ p + r <= Limit
  <2>1. w \in Between
    BY <1>10, CountFinite DEF Opens
  <2>0. p = o + 1
    BY <1>4, <1>10, CountFinite, FS_AddElement DEF Opens, o
  <2>2. q = b - 1 /\ r = a - 1 /\ count' = count
    BY <1>4, <1>10, <2>1, CountFinite, FS_RemoveElement DEF Opens, b, a
  <2> QED BY <1>1, <1>2, <1>3, <2>0, <2>2
<1>11. ASSUME NEW S \in SUBSET Contexts, Loses(S)
       PROVE (shutdown' # "done" => count' = p + q) /\ p + r <= Limit
  <2>1. OpenOnes \cap S = S /\ S \subseteq OpenOnes
    BY <1>11 DEF Loses
  <2>2. Cardinality(S) \in Nat /\ Cardinality(S) <= o
    BY <2>1, CountFinite, FS_Subset, FS_CardinalityType DEF o
  <2>3. p = o - Cardinality(S)
    BY <1>4, <1>11, <2>1, CountFinite, FS_Difference DEF Loses, o
  <2>4. q = b /\ r = a /\ count' = count - Cardinality(S)
    BY <1>4, <1>11 DEF Loses, b, a
  <2> QED BY <1>1, <1>2, <1>3, <2>2, <2>3, <2>4
<1> QED BY CountSteps, <1>5, <1>6, <1>7, <1>8, <1>9, <1>10, <1>11 DEF CountKinds

-----------------------------------------------------------------------------
(* Whatever the workers, the senders and Shutdown do, no position, no      *)
(* count and no context leaves its type; above all m_NumberOfPendingIO and *)
(* the numbers of posted operations never fall below zero.                 *)
THEOREM TypeCorrect == Spec => []TypeOK
<1>1. IInv => TypeOK
  BY DEF IInv
<1> QED BY <1>1, Inductive, PTL

(* EnterIOLoop and ExitIOLoop balance on every path, for any number of     *)
(* workers and clients: m_NumberOfPendingIO is the number of operations    *)
(* posted and of workers handling one.                                     *)
THEOREM ReferencesAreCounted == Spec => []ReferencesCounted
<1>1. IInv => ReferencesCounted
  BY DEF IInv
<1> QED BY <1>1, Inductive, PTL

(* A context without references is closed, so no Send finds it open and    *)
(* takes a new reference before it is deleted.                             *)
THEOREM LastReferenceIsClosed == Spec => []LastReferenceClosed
<1>1. IInv => LastReferenceClosed
  BY DEF IInv
<1> QED BY <1>1, Inductive, PTL

LEMMA UsesNothingFreed == IInv => NoUseAfterFree
<1> SUFFICES ASSUME IInv, NEW c \in Contexts, client[c].life = "freed"
             PROVE  /\ \A w \in Workers : ctx[w] # c
                    /\ client[c].reads = 0 /\ client[c].writes = 0
  BY DEF NoUseAfterFree
<1>1. ASSUME NEW w \in Workers, ctx[w] = c PROVE FALSE
  <2>1. c # NoContext
    BY SetsAssumption
  <2>2. Live(c)
    BY <1>1, <2>1 DEF IInv, Positions
  <2> QED BY <2>2 DEF Live
<1> QED BY <1>1 DEF IInv, Gone

(* Nothing refers to a context ReleaseSocketContext has deleted: no        *)
(* worker, no posted read or write.                                        *)
THEOREM NothingUsedAfterDelete == Spec => []NoUseAfterFree
  BY UsesNothingFreed, Inductive, PTL

(* A client's receive buffer is used by at most one worker or posted read, *)
(* however many workers take completions of that client.                   *)
THEOREM OneReaderPerClient == Spec => []OneReader
<1>1. IInv => OneReader
  <2> SUFFICES ASSUME IInv, NEW c \in Contexts
               PROVE  client[c].reads + Cardinality(Readers(c)) <= 1
    BY DEF OneReader
  <2>1. client[c].reads \in Nat /\ client[c].reads <= 1
    BY Numbers DEF IInv, Reading
  <2>2. Readers(c) = {w \in Workers : ctx[w] = c /\ HasRead(w)}
    BY DEF Readers, HasRead
  <2>3. CASE Readers(c) = {}
    BY <2>1, <2>3, FS_EmptySet
  <2>4. CASE Readers(c) # {}
    <3>1. PICK w \in Workers : w \in Readers(c)
      BY <2>2, <2>4
    <3>2. client[c].reads = 0 /\ Readers(c) = {w}
      BY <2>2, <3>1 DEF IInv, Reading
    <3> QED BY <3>2, FS_Singleton
  <2> QED BY <2>3, <2>4
<1> QED BY <1>1, Inductive, PTL

LEMMA InitCount == Init => CountInv
<1> SUFFICES ASSUME Init PROVE CountInv
  OBVIOUS
<1>1. OpenOnes = {} /\ Between = {} /\ Admitted = {}
  BY DEF Init, OpenOnes, Between, Admitted, Open, NoClient
<1>2. count = 0 /\ shutdown = "no"
  BY DEF Init
<1> QED BY <1>1, <1>2, FS_EmptySet, LimitsAssumption DEF CountInv

(* The count is the number of open clients and of workers that are about   *)
(* to add one or to take one off, and however many workers accept at once, *)
(* there are never more open clients than the limit.                       *)
THEOREM ConnectCountHolds == Spec => []ConnectCount
<1>1. Init => CountInv
  BY InitCount
<1>2. CountInv /\ IInv /\ [Next]_vars => CountInv'
  BY CountStep DEF IInv
<1>3. CountInv => ConnectCount
  <2> SUFFICES ASSUME CountInv PROVE ConnectCount
    OBVIOUS
  <2>1. Cardinality(OpenOnes) <= Limit
    BY CountFinite, LimitsAssumption DEF CountInv
  <2> QED BY <2>1 DEF CountInv, ConnectCount, OpenOnes, Between
<1> QED BY <1>1, <1>2, <1>3, Inductive, PTL DEF Spec

-----------------------------------------------------------------------------
(***************************************************************************)
(* CBaseIOCPServer keeps what ServerCallbacks promises the derived         *)
(* classes: each step is a step of ServerCallbacks or changes nothing      *)
(* there.                                                                  *)
(***************************************************************************)
(* A worker's part in what happens to a client. *)
Arrives(w, c) ==
  /\ ctx[w] = c
  /\ pc[w] \in {"register", "announce"} \/ (pc[w] \in {"close", "closed"} /\ next[w] = "firstRead")
Receives(w, c) ==
  /\ ctx[w] = c
  /\ pc[w] \in {"received"} \/ (pc[w] \in {"close", "closed"} /\ next[w] = "nextRead")
Leaves(w, c) == ctx[w] = c /\ pc[w] = "closed"

Callback(c) == IF Arriving(c) THEN "arrival" ELSE IF Receiving(c) THEN "receipt" ELSE "none"
Leaving(c) == \E w \in Workers : Leaves(w, c)

(* An identity that is free, or free again, has no open socket. *)
DeadAreClosed == \A c \in Contexts : client[c].life = "freed" => ~Open(c)

ContactOf(c) == [life |-> client[c].life, open |-> Open(c), callback |-> Callback(c), leaving |-> Leaving(c)]

LEMMA ContactIs ==
  /\ Contact = [c \in Contexts |-> ContactOf(c)]
  /\ Contact' = [c \in Contexts |-> ContactOf(c)']
  BY DEF Contact, ContactOf, Callback, Leaving, Leaves

LEMMA CallbackIs ==
  ASSUME NEW c \in Contexts
  PROVE  /\ Callback(c) = IF \E w \in Workers : Arrives(w, c) THEN "arrival"
                          ELSE IF \E w \in Workers : Receives(w, c) THEN "receipt" ELSE "none"
         /\ Callback(c)' = IF \E w \in Workers : Arrives(w, c)' THEN "arrival"
                           ELSE IF \E w \in Workers : Receives(w, c)' THEN "receipt" ELSE "none"
  BY DEF Callback, Arriving, Receiving, Within, Arrives, Receives

(* One worker at a time is in a callback of a client. *)
LEMMA OneAtATime ==
  ASSUME IInv, NEW c \in Contexts, NEW w \in Workers, NEW u \in Workers,
         Arrives(w, c) \/ Receives(w, c), Arrives(u, c) \/ Receives(u, c)
  PROVE  /\ u = w /\ (Arrives(w, c) => ~Receives(w, c))
         /\ client[c].reads = 0 /\ pc[w] \notin {"delete", "release"}
<1>1. ctx[w] = c /\ HasRead(w) /\ ctx[u] = c /\ HasRead(u)
  BY DEF Arrives, Receives, HasRead
<1>2. u = w /\ client[c].reads = 0
  BY <1>1 DEF IInv, Reading
<1> QED BY <1>2 DEF Arrives, Receives

-----------------------------------------------------------------------------
(* The steps, as far as the callbacks go. *)
SameSockets == \A c \in Contexts : client'[c].life = client[c].life /\ client'[c].open = client[c].open
SameParts(w, c) ==
  /\ Arrives(w, c)' <=> Arrives(w, c)
  /\ Receives(w, c)' <=> Receives(w, c)
  /\ Leaves(w, c)' <=> Leaves(w, c)
NoPart(w, c) == ~Arrives(w, c) /\ ~Receives(w, c) /\ ~Leaves(w, c)

(* Nobody's part changes. *)
Unmoved == \A u \in Workers, c \in Contexts : SameParts(u, c)

(* w's part in its client's callbacks goes on or is over, the others stay. *)
Settles(w) ==
  /\ SameSockets
  /\ \A u \in Workers, c \in Contexts : u # w => SameParts(u, c)
  /\ \A c \in Contexts : /\ Arrives(w, c)' => Arrives(w, c)
                         /\ Receives(w, c)' => Receives(w, c)
                         /\ Leaves(w, c)' => Leaves(w, c)

LEMMA SameContact ==
  ASSUME NEW c \in Contexts, \A u \in Workers : SameParts(u, c)
  PROVE  Callback(c)' = Callback(c) /\ Leaving(c)' = Leaving(c)
<1>1. Callback(c)' = Callback(c)
  BY CallbackIs DEF SameParts
<1>2. Leaving(c)' = Leaving(c)
  BY DEF SameParts, Leaving
<1> QED BY <1>1, <1>2

LEMMA UnmovedContact ==
  ASSUME SameSockets, Unmoved
  PROVE  Contact' = Contact
<1>1. \A c \in Contexts : Callback(c)' = Callback(c) /\ Leaving(c)' = Leaving(c)
  BY SameContact DEF Unmoved
<1>2. \A c \in Contexts : ContactOf(c)' = ContactOf(c)
  BY <1>1 DEF ContactOf, SameSockets, Open
<1> QED BY <1>2, ContactIs

LEMMA SettlesReturn ==
  ASSUME IInv, NEW w \in Workers, Settles(w)
  PROVE  [Callbacks!Next]_Contact
<1>1. CASE ctx[w] \notin Contexts
  <2>1. \A c \in Contexts : SameParts(w, c)
    BY <1>1 DEF Settles, SameParts, Arrives, Receives, Leaves
  <2>2. SameSockets /\ Unmoved
    BY <2>1 DEF Settles, Unmoved
  <2> QED BY <2>2, UnmovedContact
<1>2. CASE ctx[w] \in Contexts
  <2>0. PICK c \in Contexts : c = ctx[w]
    BY <1>2
  <2>1. ASSUME NEW d \in Contexts, d # c PROVE ContactOf(d)' = ContactOf(d)
    <3>1. NoPart(w, d)
      BY <2>0, <2>1 DEF NoPart, Arrives, Receives, Leaves
    <3>2. \A u \in Workers : SameParts(u, d)
      BY <3>1 DEF Settles, SameParts, NoPart
    <3> QED BY <3>2, SameContact DEF Settles, SameSockets, ContactOf, Open
  <2>2. Callback(c)' \in {"none", Callback(c)}
    <3>1. CASE \E u \in Workers : Arrives(u, c)
      <4>1. \A u \in Workers : ~Receives(u, c)
        BY <2>0, <3>1, OneAtATime
      <4>2. \A u \in Workers : ~Receives(u, c)'
        BY <2>0, <4>1 DEF Settles, SameParts
      <4> QED BY <2>0, <3>1, <4>2, CallbackIs
    <3>2. CASE \A u \in Workers : ~Arrives(u, c)
      <4>1. \A u \in Workers : ~Arrives(u, c)'
        BY <2>0, <3>2 DEF Settles, SameParts
      <4>2. (\E u \in Workers : Receives(u, c)') => \E u \in Workers : Receives(u, c)
        BY <2>0 DEF Settles, SameParts
      <4> QED BY <2>0, <3>2, <4>1, <4>2, CallbackIs
    <3> QED BY <3>1, <3>2
  <2>3. Leaving(c)' \in {FALSE, Leaving(c)}
    <3>1. Leaving(c)' => Leaving(c)
      BY <2>0 DEF Settles, SameParts, Leaving
    <3>2. Leaving(c) \in BOOLEAN /\ Leaving(c)' \in BOOLEAN
      BY DEF Leaving
    <3> QED BY <3>1, <3>2, Zenon
  <2>4. Contact[c] = ContactOf(c)
    BY <2>0, ContactIs
  <2>5. ContactOf(c)' = [life |-> Contact[c].life, open |-> Contact[c].open,
                         callback |-> Callback(c)', leaving |-> Leaving(c)']
    <3>1. client'[c].life = client[c].life /\ client'[c].open = client[c].open
      BY <2>0 DEF Settles, SameSockets
    <3>2. Contact[c].life = client[c].life /\ Contact[c].open = client[c].open
      BY <2>4 DEF ContactOf, Open
    <3> QED BY <3>1, <3>2 DEF ContactOf, Open
  <2>6. Contact' = [Contact EXCEPT ![c] = ContactOf(c)']
    BY <2>0, <2>1, ContactIs
  <2>7. Callbacks!Return(c)
    <3>1. Contact[c].callback = Callback(c) /\ Contact[c].leaving = Leaving(c)
      BY <2>4 DEF ContactOf
    <3>2. Callback(c)' \in {"none", Contact[c].callback} /\ Leaving(c)' \in {FALSE, Contact[c].leaving}
      BY <2>2, <2>3, <3>1
    <3> QED BY <2>5, <2>6, <3>2 DEF Callbacks!Return, Callbacks!Become, Callbacks!Is
  <2> QED BY <2>0, <2>7 DEF Callbacks!Next
<1> QED BY <1>1, <1>2

(* The usual step of a worker: to a place outside the callbacks. *)
Outside(w) ==
  /\ \A u \in Workers : u # w => pc'[u] = pc[u] /\ ctx'[u] = ctx[u] /\ next'[u] = next[u]
  /\ \/ pc'[w] \notin {"register", "announce", "received", "close", "closed"}
     \/ pc'[w] = "close" /\ next'[w] = "release"
(* And a step within NotifyNewConnection or NotifyReceivedPackage. *)
Inside(w, here, there) ==
  /\ \A u \in Workers : u # w => pc'[u] = pc[u] /\ ctx'[u] = ctx[u] /\ next'[u] = next[u]
  /\ ctx'[w] = ctx[w]
  /\ \/ pc[w] \in here /\ here \subseteq {"register", "announce"} /\ there = "firstRead"
     \/ pc[w] \in here /\ here = {"received"} /\ there = "nextRead"
  /\ pc'[w] \in here \/ (pc'[w] = "close" /\ next'[w] = there)

LEMMA OutsideSettles ==
  ASSUME NEW w \in Workers, Outside(w), SameSockets
  PROVE  Settles(w)
<1>1. \A u \in Workers, c \in Contexts : u # w => SameParts(u, c)
  BY DEF Outside, SameParts, Arrives, Receives, Leaves
<1>2. \A c \in Contexts : ~Arrives(w, c)' /\ ~Receives(w, c)' /\ ~Leaves(w, c)'
  BY DEF Outside, Arrives, Receives, Leaves
<1> QED BY <1>1, <1>2 DEF Settles

LEMMA InsideSettles ==
  ASSUME NEW w \in Workers, NEW here, NEW there, Inside(w, here, there), SameSockets
  PROVE  Settles(w)
<1>1. \A u \in Workers, c \in Contexts : u # w => SameParts(u, c)
  BY DEF Inside, SameParts, Arrives, Receives, Leaves
<1>2. CASE here = {"received"} /\ there = "nextRead"
  <2>1. pc[w] = "received" /\ ctx'[w] = ctx[w]
    BY <1>2 DEF Inside
  <2>2. pc'[w] = "received" \/ (pc'[w] = "close" /\ next'[w] = "nextRead")
    BY <1>2 DEF Inside
  <2>3. \A c \in Contexts : ~Arrives(w, c)' /\ ~Leaves(w, c)' /\ (Receives(w, c)' => Receives(w, c))
    BY <2>1, <2>2 DEF Arrives, Receives, Leaves
  <2> QED BY <1>1, <2>3 DEF Settles
<1>3. CASE here \subseteq {"register", "announce"} /\ there = "firstRead"
  <2>1. pc[w] \in {"register", "announce"} /\ ctx'[w] = ctx[w]
    BY <1>3 DEF Inside
  <2>2. pc'[w] \in {"register", "announce"} \/ (pc'[w] = "close" /\ next'[w] = "firstRead")
    BY <1>3 DEF Inside
  <2>3. \A c \in Contexts : ~Receives(w, c)' /\ ~Leaves(w, c)' /\ (Arrives(w, c)' => Arrives(w, c))
    BY <2>1, <2>2 DEF Arrives, Receives, Leaves
  <2> QED BY <1>1, <2>3 DEF Settles
<1> QED BY <1>2, <1>3 DEF Inside

-----------------------------------------------------------------------------
(* NotifyNewConnection is due from the moment a context is in the table.   *)
LEMMA AddContextAccepts ==
  ASSUME IInv, NEW w \in Workers, NEW c \in Contexts, AddContext(w, c)
  PROVE  Callbacks!Accept(c)
<1>1. pc[w] = "allocate" /\ client[c].life = "none" /\ ~Open(c)
  BY DEF AddContext, IInv, NotYet
<1>2. WorkersTyped /\ client \in [Contexts -> Context]
  BY DEF IInv, TypeOK
<1>3. pc' = [pc EXCEPT ![w] = "register"] /\ ctx' = [ctx EXCEPT ![w] = c] /\ next' = next
  BY DEF AddContext
<1>4. \A u \in Workers : ctx[u] # c
  <2>1. \A u \in Workers : ctx[u] = c => Live(c)
    BY SetsAssumption DEF IInv, Positions
  <2> QED BY <1>1, <2>1 DEF Live
<1>5. ctx[w] = NoContext
  BY <1>1 DEF IInv, Positions, Free
<1>6. ASSUME NEW d \in Contexts, d # c PROVE ContactOf(d)' = ContactOf(d)
  <2>1. ASSUME NEW u \in Workers, u # w PROVE SameParts(u, d)
    BY <1>2, <1>3, <2>1 DEF WorkersTyped, SameParts, Arrives, Receives, Leaves
  <2>2. ctx[w] # d /\ ctx'[w] # d
    BY <1>2, <1>3, <1>5, <1>6, SetsAssumption DEF WorkersTyped
  <2>3. SameParts(w, d)
    BY <2>2 DEF SameParts, Arrives, Receives, Leaves
  <2>4. client'[d] = client[d]
    BY <1>2, <1>6 DEF AddContext
  <2> QED BY <2>1, <2>3, <2>4, SameContact DEF ContactOf, Open
<1>7. Callback(c) = "none" /\ Leaving(c) = FALSE
  BY <1>4, CallbackIs DEF Arrives, Receives, Leaving, Leaves
<1>8. Callback(c)' = "arrival"
  <2>1. Arrives(w, c)'
    BY <1>2, <1>3 DEF WorkersTyped, Arrives
  <2> QED BY <2>1, CallbackIs
<1>9. Leaving(c)' = FALSE
  <2>1. ASSUME NEW u \in Workers PROVE ~Leaves(u, c)'
    <3>1. CASE u = w
      BY <1>2, <1>3, <3>1 DEF WorkersTyped, Leaves
    <3>2. CASE u # w
      BY <1>2, <1>3, <1>4, <3>2 DEF WorkersTyped, Leaves
    <3> QED BY <3>1, <3>2
  <2> QED BY <2>1 DEF Leaving
<1>10. client'[c].life = "live" /\ Open(c)' = TRUE
  BY <1>2 DEF AddContext, Accepted, NoClient, Open
<1>11. Open(c) = FALSE
  BY <1>1, <1>2 DEF Open, Context
<1>12. Contact[c] = Callbacks!NoContact
  BY <1>1, <1>7, <1>11, ContactIs DEF ContactOf, Callbacks!NoContact, Callbacks!Is
<1>13. ContactOf(c)' = [life |-> "live", open |-> TRUE, callback |-> "arrival", leaving |-> FALSE]
  BY <1>8, <1>9, <1>10 DEF ContactOf
<1>14. Contact' = [Contact EXCEPT ![c] = [life |-> "live", open |-> TRUE, callback |-> "arrival", leaving |-> FALSE]]
  BY <1>6, <1>13, ContactIs
<1> QED BY <1>12, <1>14 DEF Callbacks!Accept, Callbacks!Become, Callbacks!Is

(* A completed read of data: no other callback of the client is running,   *)
(* for the read was posted after it.                                       *)
LEMMA TakeReadReceives ==
  ASSUME IInv, NEW w \in Workers, NEW c \in Contexts, TakeRead(w, c)
  PROVE  [Callbacks!Next]_Contact
<1>1. pc[w] = "idle" /\ client[c].reads > 0 /\ ctx' = [ctx EXCEPT ![w] = c]
  BY DEF TakeRead
<1>2. WorkersTyped /\ client \in [Contexts -> Context]
  BY DEF IInv, TypeOK
<1>3. \A u \in Workers : u # w => pc'[u] = pc[u] /\ ctx'[u] = ctx[u] /\ next'[u] = next[u]
  BY <1>2 DEF TakeRead, WorkersTyped
<1>4. SameSockets
  BY <1>2 DEF TakeRead, Context, SameSockets
<1>5. CASE pc' = [pc EXCEPT ![w] = "close"] /\ next' = [next EXCEPT ![w] = "release"]
  <2>1. pc'[w] = "close" /\ next'[w] = "release"
    BY <1>2, <1>5 DEF WorkersTyped
  <2>2. Outside(w)
    BY <1>3, <2>1 DEF Outside
  <2> QED BY <1>4, <2>2, OutsideSettles, SettlesReturn
<1>6. CASE pc' = [pc EXCEPT ![w] = "received"]
  <2>1. pc'[w] = "received" /\ ctx'[w] = c
    BY <1>1, <1>2, <1>6 DEF WorkersTyped
  <2>2. \A u \in Workers : ~Arrives(u, c) /\ ~Receives(u, c)
    <3>1. client[c].reads # 0
      BY <1>1, <1>2 DEF Context
    <3> QED BY <3>1, OneAtATime
  <2>3. \A d \in Contexts : NoPart(w, d)
    BY <1>1 DEF NoPart, Arrives, Receives, Leaves
  <2>4. \A u \in Workers, d \in Contexts : u # w => SameParts(u, d)
    BY <1>3 DEF SameParts, Arrives, Receives, Leaves
  <2>5. \A d \in Contexts : d # c => SameParts(w, d)
    BY <2>1, <2>3 DEF NoPart, SameParts, Arrives, Receives, Leaves
  <2>6. ASSUME NEW d \in Contexts, d # c PROVE ContactOf(d)' = ContactOf(d)
    <3>1. \A u \in Workers : SameParts(u, d)
      BY <2>4, <2>5, <2>6
    <3> QED BY <1>4, <3>1, SameContact DEF SameSockets, ContactOf, Open
  <2>7. Callback(c) = "none"
    BY <2>2, CallbackIs
  <2>8. Callback(c)' = "receipt"
    <3>1. Receives(w, c)' /\ ~Arrives(w, c)'
      BY <2>1 DEF Receives, Arrives
    <3>2. \A u \in Workers : ~Arrives(u, c)'
      BY <2>2, <2>4, <3>1 DEF SameParts
    <3> QED BY <3>1, <3>2, CallbackIs
  <2>9. Leaving(c)' = Leaving(c)
    <3>1. ~Leaves(w, c)' /\ ~Leaves(w, c)
      BY <1>1, <2>1 DEF Leaves
    <3>2. \A u \in Workers : Leaves(u, c)' <=> Leaves(u, c)
      BY <2>4, <3>1 DEF SameParts
    <3> QED BY <3>2 DEF Leaving
  <2>10. Contact[c] = ContactOf(c)
    BY ContactIs
  <2>11. ContactOf(c)' = [Contact[c] EXCEPT !.callback = "receipt"]
    <3>1. client'[c].life = client[c].life /\ client'[c].open = client[c].open
      BY <1>4 DEF SameSockets
    <3> QED BY <2>8, <2>9, <2>10, <3>1 DEF ContactOf, Open
  <2>12. Contact' = [Contact EXCEPT ![c] = [Contact[c] EXCEPT !.callback = "receipt"]]
    BY <2>6, <2>11, ContactIs
  <2>13. Contact[c].life = "live" /\ Contact[c].callback = "none"
    <3>1. Live(c)
      BY <1>1, Numbers DEF IInv, NotYet, Gone, Live
    <3> QED BY <2>7, <2>10, <3>1 DEF ContactOf, Live
  <2> QED BY <2>12, <2>13 DEF Callbacks!Next, Callbacks!Receive, Callbacks!Become
<1> QED BY <1>5, <1>6 DEF TakeRead

(* The context goes when nobody is in a callback of its client. *)
LEMMA DeleteContextDeletes ==
  ASSUME IInv, NEW w \in Workers, DeleteContext(w)
  PROVE  Callbacks!Next
<1>1. pc[w] = "delete" /\ pc' = [pc EXCEPT ![w] = "idle"] /\ ctx' = [ctx EXCEPT ![w] = NoContext] /\ next' = next
  BY DEF DeleteContext, Goto
<1>2. WorkersTyped /\ client \in [Contexts -> Context]
  BY DEF IInv, TypeOK
<1>3. PICK c \in Contexts : c = ctx[w] /\ Live(c)
  BY <1>1 DEF IInv, Positions, Free
<1>4. client' = [client EXCEPT ![c] = Freed(@)]
  BY <1>3 DEF DeleteContext
<1>5. client[c].pending = 0
  BY <1>1, <1>3 DEF IInv, Deleting
<1>6. ~Open(c)
  BY <1>3, <1>5 DEF IInv, LastReferenceClosed
<1>7. \A u \in Workers : ctx[u] = c => u = w
  BY <1>1, <1>3, NoReference DEF IInv
<1>8. \A u \in Workers : u # w => pc'[u] = pc[u] /\ ctx'[u] = ctx[u] /\ next'[u] = next[u]
  BY <1>1, <1>2 DEF WorkersTyped
<1>9. \A u \in Workers, d \in Contexts : SameParts(u, d)
  <2>1. \A u \in Workers, d \in Contexts : u # w => SameParts(u, d)
    BY <1>8 DEF SameParts, Arrives, Receives, Leaves
  <2>2. pc'[w] = "idle"
    BY <1>1, <1>2 DEF WorkersTyped
  <2>3. \A d \in Contexts : SameParts(w, d)
    BY <1>1, <2>2 DEF SameParts, Arrives, Receives, Leaves
  <2> QED BY <2>1, <2>3
<1>10. \A d \in Contexts : Callback(d)' = Callback(d) /\ Leaving(d)' = Leaving(d)
  BY <1>9, SameContact
<1>11. \A d \in Contexts : d # c => ContactOf(d)' = ContactOf(d)
  BY <1>2, <1>4, <1>10 DEF ContactOf, Open
<1>12. \A u \in Workers : ~Arrives(u, c) /\ ~Receives(u, c) /\ ~Leaves(u, c)
  BY <1>1, <1>7 DEF Arrives, Receives, Leaves
<1>13. Callback(c) = "none" /\ Leaving(c) = FALSE
  BY <1>12, CallbackIs DEF Leaving
<1>14. Open(c) = FALSE /\ client[c].life = "live"
  BY <1>2, <1>3, <1>6 DEF Open, Live, Context
<1>15. Contact[c] = [life |-> "live", open |-> FALSE, callback |-> "none", leaving |-> FALSE]
  BY <1>13, <1>14, ContactIs DEF ContactOf
<1>16. ContactOf(c)' = [life |-> "freed", open |-> FALSE, callback |-> "none", leaving |-> FALSE]
  <2>1. client'[c].life = "freed" /\ client'[c].open = client[c].open
    BY <1>2, <1>4 DEF Freed, Context
  <2> QED BY <1>10, <1>13, <1>14, <2>1 DEF ContactOf, Open
<1>17. Contact' = [Contact EXCEPT ![c] = [life |-> "freed", open |-> FALSE, callback |-> "none", leaving |-> FALSE]]
  BY <1>11, <1>16, ContactIs
<1>19. Callbacks!Delete(c)
  BY <1>15, <1>17 DEF Callbacks!Delete, Callbacks!Become, Callbacks!Is
<1> QED BY <1>19 DEF Callbacks!Next

(* NotifyDisconnectedClient is called by the worker that finds the socket  *)
(* valid; in a callback of the client or outside.                          *)
LEMMA CloseClientCloses ==
  ASSUME IInv, NEW w \in Workers, CloseClient(w)
  PROVE  [Callbacks!Next]_Contact
<1>2. WorkersTyped /\ client \in [Contexts -> Context]
  BY DEF IInv, TypeOK
<1>1. pc[w] = "close" /\ ctx' = ctx
  BY DEF CloseClient
<1>3. PICK c \in Contexts : c = ctx[w] /\ Live(c)
  BY <1>1 DEF IInv, Positions, Free
<1>4. client' = [client EXCEPT ![c].open = FALSE]
  BY <1>3 DEF CloseClient
<1>5. \A u \in Workers : u # w => pc'[u] = pc[u] /\ ctx'[u] = ctx[u] /\ next'[u] = next[u]
  BY <1>2 DEF CloseClient, WorkersTyped
<1>6. CASE ~Open(c)
  <2>1. pc' = [pc EXCEPT ![w] = next[w]]
    BY <1>3, <1>6 DEF CloseClient
  <2>2. next[w] \in {"release", "firstRead", "nextRead"}
    BY <1>1, <1>2 DEF IInv, Positions, WorkersTyped
  <2>3. Outside(w)
    BY <1>2, <1>5, <2>1, <2>2 DEF Outside, WorkersTyped
  <2>4. client[c].open = FALSE
    BY <1>2, <1>6 DEF Open, Context
  <2>5. SameSockets
    BY <1>2, <1>4, <2>4 DEF SameSockets, Context
  <2> QED BY <2>3, <2>5, OutsideSettles, SettlesReturn
<1>7. CASE Open(c)
  <2>1. pc' = [pc EXCEPT ![w] = "closed"] /\ next'[w] = next[w]
    BY <1>2, <1>3, <1>7 DEF CloseClient, WorkersTyped
  <2>2. pc'[w] = "closed" /\ ctx'[w] = c
    BY <1>1, <1>2, <1>3, <2>1 DEF WorkersTyped
  <2>3. \A u \in Workers, d \in Contexts : u # w => SameParts(u, d)
    BY <1>5 DEF SameParts, Arrives, Receives, Leaves
  <2>4. \A d \in Contexts : (Arrives(w, d)' <=> Arrives(w, d)) /\ (Receives(w, d)' <=> Receives(w, d))
    BY <1>1, <2>1, <2>2 DEF Arrives, Receives
  <2>5. \A d \in Contexts : d # c => ~Leaves(w, d)' /\ ~Leaves(w, d)
    BY <1>3, <2>2 DEF Leaves
  <2>6. ASSUME NEW d \in Contexts, d # c PROVE ContactOf(d)' = ContactOf(d)
    <3>1. \A u \in Workers : SameParts(u, d)
      BY <2>3, <2>4, <2>5, <2>6 DEF SameParts
    <3>2. client'[d] = client[d]
      BY <1>2, <1>4, <2>6
    <3> QED BY <3>1, <3>2, SameContact DEF ContactOf, Open
  <2>7. Callback(c)' = Callback(c)
    BY <2>3, <2>4, CallbackIs DEF SameParts
  <2>8. Leaving(c)' = TRUE
    BY <2>2 DEF Leaving, Leaves
  <2>9. client'[c].open = FALSE /\ client'[c].life = "live" /\ client[c].life = "live"
    BY <1>2, <1>3, <1>4 DEF Context, Live
  <2>10. ContactOf(c)' = [life |-> "live", open |-> FALSE, callback |-> Callback(c), leaving |-> TRUE]
    BY <2>7, <2>8, <2>9 DEF ContactOf, Open
  <2>11. Contact[c].life = "live" /\ Contact[c].open /\ Contact[c].callback = Callback(c)
    BY <1>7, <2>9, ContactIs DEF ContactOf
  <2>12. Contact' = [Contact EXCEPT ![c] = [life |-> "live", open |-> FALSE, callback |-> Contact[c].callback, leaving |-> TRUE]]
    BY <2>6, <2>10, <2>11, ContactIs
  <2>13. Callbacks!Close(c)
    BY <2>11, <2>12 DEF Callbacks!Close, Callbacks!Become, Callbacks!Is
  <2> QED BY <2>13 DEF Callbacks!Next
<1> QED BY <1>6, <1>7

(* A failed Send and Shutdown close clients outside the workers. *)
LEMMA ClosedDisconnect ==
  ASSUME IInv, DeadAreClosed, NEW S \in SUBSET Contexts, \A c \in S : Open(c),
         pc' = pc, ctx' = ctx, next' = next,
         \A c \in Contexts : /\ client'[c].life = client[c].life
                             /\ client'[c].open = IF c \in S THEN FALSE ELSE client[c].open
  PROVE  Callbacks!Next
<1>1. \A u \in Workers, c \in Contexts : SameParts(u, c)
  BY DEF SameParts, Arrives, Receives, Leaves
<1>2. \A c \in Contexts : Callback(c)' = Callback(c) /\ Leaving(c)' = Leaving(c)
  BY <1>1, SameContact
<1>3. ASSUME NEW c \in S PROVE Contact[c].life = "live" /\ Contact[c].open
  <2>1. client[c].life \in {"none", "live", "freed"}
    BY Numbers DEF IInv
  <2>2. client[c].life = "live"
    BY <2>1 DEF IInv, NotYet, DeadAreClosed
  <2> QED BY <2>2, ContactIs DEF ContactOf
<1>4. ASSUME NEW c \in Contexts
      PROVE  ContactOf(c)' = IF c \in S THEN Callbacks!Is("live", FALSE, Contact[c].callback, Contact[c].leaving)
                                        ELSE Contact[c]
  <2>1. Contact[c] = ContactOf(c)
    BY ContactIs
  <2>2. Contact[c].callback = Callback(c) /\ Contact[c].leaving = Leaving(c) /\ Contact[c].life = client[c].life
    BY <2>1 DEF ContactOf
  <2>3. CASE c \in S
    BY <1>2, <1>3, <2>2, <2>3 DEF ContactOf, Open, Callbacks!Is
  <2>4. CASE c \notin S
    BY <1>2, <2>1, <2>4 DEF ContactOf, Open
  <2> QED BY <2>3, <2>4
<1>5. Contact' = [c \in Contexts |->
        IF c \in S THEN Callbacks!Is("live", FALSE, Contact[c].callback, Contact[c].leaving) ELSE Contact[c]]
  BY <1>4, ContactIs
<1>6. Callbacks!Disconnect(S)
  BY <1>3, <1>5 DEF Callbacks!Disconnect
<1> QED BY <1>6 DEF Callbacks!Next

-----------------------------------------------------------------------------
LEMMA CallbacksStep ==
  ASSUME IInv, DeadAreClosed, [Next]_vars
  PROVE  [Callbacks!Next]_Contact
<1>0. WorkersTyped /\ client \in [Contexts -> Context] /\ NoContext \notin Contexts
  BY SetsAssumption DEF IInv, TypeOK
<1>next. \A w \in Workers : pc[w] = "closed" => next[w] \in {"release", "firstRead", "nextRead"}
  BY DEF IInv, TypeOK, WorkersTyped, Positions
<1>1. ASSUME NEW w \in Workers, NEW c \in Contexts, TakeRead(w, c) PROVE [Callbacks!Next]_Contact
  BY <1>1, TakeReadReceives
<1>2. ASSUME NEW w \in Workers, NEW c \in Contexts, TakeWrite(w, c) PROVE [Callbacks!Next]_Contact
  <2>1. Outside(w)
    BY <1>2, <1>0 DEF WorkersTyped, Outside, TakeWrite, workerVars, serverVars
  <2>2. SameSockets
    BY <1>2, <1>0 DEF SameSockets, Context, TakeWrite, workerVars, serverVars
  <2> QED BY <2>1, <2>2, OutsideSettles, SettlesReturn
<1>3. ASSUME NEW w \in Workers, NEW a \in Accepts, TakeAccept(w, a) PROVE [Callbacks!Next]_Contact
  <2>1. Outside(w)
    BY <1>3, <1>0 DEF WorkersTyped, Outside, TakeAccept, workerVars, serverVars
  <2>2. SameSockets
    BY <1>3, <1>0 DEF SameSockets, TakeAccept, workerVars, serverVars
  <2> QED BY <2>1, <2>2, OutsideSettles, SettlesReturn
<1>4. ASSUME NEW w \in Workers, TakeNull(w) PROVE [Callbacks!Next]_Contact
  <2>1. Outside(w)
    BY <1>4, <1>0 DEF WorkersTyped, Outside, TakeNull, Goto, workerVars, serverVars
  <2>2. SameSockets
    BY <1>4, <1>0 DEF SameSockets, TakeNull, Goto, workerVars, serverVars
  <2> QED BY <2>1, <2>2, OutsideSettles, SettlesReturn
<1>5. ASSUME NEW w \in Workers, CloseClient(w) PROVE [Callbacks!Next]_Contact
  BY <1>5, CloseClientCloses
<1>6. ASSUME NEW w \in Workers, Disconnected(w) PROVE [Callbacks!Next]_Contact
  <2>1. Outside(w)
    BY <1>6, <1>0, <1>next DEF WorkersTyped, Outside, Disconnected, workerVars, serverVars
  <2>2. SameSockets
    BY <1>6, <1>0 DEF SameSockets, Disconnected, workerVars, serverVars
  <2> QED BY <2>1, <2>2, OutsideSettles, SettlesReturn
<1>7. ASSUME NEW w \in Workers, ExitIOLoop(w) PROVE [Callbacks!Next]_Contact
  <2>1. Outside(w)
    BY <1>7, <1>0 DEF WorkersTyped, Outside, ExitIOLoop, Goto, workerVars, serverVars
  <2>2. SameSockets
    BY <1>7, <1>0 DEF SameSockets, Context, ExitIOLoop, Goto, workerVars, serverVars
  <2> QED BY <2>1, <2>2, OutsideSettles, SettlesReturn
<1>8. ASSUME NEW w \in Workers, DeleteContext(w) PROVE [Callbacks!Next]_Contact
  BY <1>8, DeleteContextDeletes
<1>9. ASSUME NEW w \in Workers, NEW here \in {"firstRead", "nextRead"}, PostClientIoRead(w, here)
      PROVE [Callbacks!Next]_Contact
  <2>1. Outside(w)
    BY <1>9, <1>0 DEF WorkersTyped, Outside, PostClientIoRead, Goto, GotoClose, workerVars,
         serverVars
  <2>2. SameSockets
    BY <1>9, <1>0 DEF SameSockets, Context, PostClientIoRead, Goto, GotoClose, workerVars,
         serverVars
  <2> QED BY <2>1, <2>2, OutsideSettles, SettlesReturn
<1>10. ASSUME NEW w \in Workers, Count(w) PROVE [Callbacks!Next]_Contact
  <2>1. Outside(w)
    BY <1>10, <1>0 DEF WorkersTyped, Outside, Count, Goto, workerVars, serverVars
  <2>2. SameSockets
    BY <1>10, <1>0 DEF SameSockets, Count, Goto, workerVars, serverVars
  <2> QED BY <2>1, <2>2, OutsideSettles, SettlesReturn
<1>11. ASSUME NEW w \in Workers, Reject(w) PROVE [Callbacks!Next]_Contact
  <2>1. Outside(w)
    BY <1>11, <1>0 DEF WorkersTyped, Outside, Reject, Repost, CreateAcceptSocket, workerVars,
         serverVars
  <2>2. SameSockets
    BY <1>11, <1>0 DEF SameSockets, Reject, Repost, CreateAcceptSocket, workerVars, serverVars
  <2> QED BY <2>1, <2>2, OutsideSettles, SettlesReturn
<1>12. ASSUME NEW w \in Workers, PostNextAccept(w) PROVE [Callbacks!Next]_Contact
  <2>1. Outside(w)
    BY <1>12, <1>0 DEF WorkersTyped, Outside, PostNextAccept, Repost, CreateAcceptSocket,
         workerVars, serverVars
  <2>2. SameSockets
    BY <1>12, <1>0 DEF SameSockets, PostNextAccept, Repost, CreateAcceptSocket, workerVars,
         serverVars
  <2> QED BY <2>1, <2>2, OutsideSettles, SettlesReturn
<1>13. ASSUME NEW w \in Workers, NEW c \in Contexts, AddContext(w, c) PROVE [Callbacks!Next]_Contact
  <2>1. Callbacks!Accept(c)
    BY <1>13, AddContextAccepts
  <2> QED BY <2>1 DEF Callbacks!Next
<1>14. ASSUME NEW w \in Workers, UpdateCompletionPort(w) PROVE [Callbacks!Next]_Contact
  <2>1. SameSockets
    BY <1>14 DEF SameSockets, UpdateCompletionPort, Goto, workerVars, serverVars
  <2>2. Inside(w, {"register", "announce"}, "firstRead")
    BY <1>14, <1>0 DEF WorkersTyped, Inside, UpdateCompletionPort, Goto, workerVars, serverVars
  <2> QED BY <2>1, <2>2, InsideSettles, SettlesReturn
<1>15. ASSUME NEW w \in Workers, NotifyNewConnection(w) PROVE [Callbacks!Next]_Contact
  <2>1. SameSockets
    BY <1>15 DEF SameSockets, NotifyNewConnection, Goto, GotoClose, workerVars, serverVars
  <2>2. CASE Goto(w, "announce", "firstRead")
    <3>1. Outside(w)
      BY <1>0, <2>2 DEF WorkersTyped, Outside, Goto
    <3> QED BY <2>1, <3>1, OutsideSettles, SettlesReturn
  <2>3. CASE GotoClose(w, "announce", "firstRead")
    <3>1. Inside(w, {"register", "announce"}, "firstRead")
      BY <1>0, <2>3 DEF WorkersTyped, Inside, GotoClose
    <3> QED BY <2>1, <3>1, InsideSettles, SettlesReturn
  <2> QED BY <1>15, <2>2, <2>3 DEF NotifyNewConnection
<1>16. ASSUME NEW w \in Workers, NotifyReceivedPackage(w) PROVE [Callbacks!Next]_Contact
  <2>1. SameSockets
    BY <1>16 DEF SameSockets, NotifyReceivedPackage, Goto, GotoClose, workerVars, serverVars
  <2>2. CASE Goto(w, "received", "nextRead")
    <3>1. Outside(w)
      BY <1>0, <2>2 DEF WorkersTyped, Outside, Goto
    <3> QED BY <2>1, <3>1, OutsideSettles, SettlesReturn
  <2>3. CASE GotoClose(w, "received", "nextRead")
    <3>1. Inside(w, {"received"}, "nextRead")
      BY <1>0, <2>3 DEF WorkersTyped, Inside, GotoClose
    <3> QED BY <2>1, <3>1, InsideSettles, SettlesReturn
  <2> QED BY <1>16, <2>2, <2>3 DEF NotifyReceivedPackage
<1>17. ASSUME NEW w \in Workers, Written(w) PROVE [Callbacks!Next]_Contact
  <2>1. Outside(w)
    BY <1>17, <1>0 DEF WorkersTyped, Outside, Written, Goto, workerVars, serverVars
  <2>2. SameSockets
    BY <1>17, <1>0 DEF SameSockets, Written, Goto, workerVars, serverVars
  <2> QED BY <2>1, <2>2, OutsideSettles, SettlesReturn
<1>18. ASSUME NEW w \in Workers, SwapBuffer(w) PROVE [Callbacks!Next]_Contact
  <2>1. Outside(w)
    BY <1>18, <1>0 DEF WorkersTyped, Outside, SwapBuffer, Goto, workerVars, serverVars
  <2>2. SameSockets
    BY <1>18, <1>0 DEF SameSockets, Context, SwapBuffer, Goto, workerVars, serverVars
  <2> QED BY <2>1, <2>2, OutsideSettles, SettlesReturn
<1>19. ASSUME NEW w \in Workers, LookAtReader(w) PROVE [Callbacks!Next]_Contact
  <2>1. Outside(w)
    BY <1>19, <1>0 DEF WorkersTyped, Outside, LookAtReader, Goto, workerVars, serverVars
  <2>2. SameSockets
    BY <1>19, <1>0 DEF SameSockets, LookAtReader, Goto, workerVars, serverVars
  <2> QED BY <2>1, <2>2, OutsideSettles, SettlesReturn
<1>20. ASSUME NEW w \in Workers, PostClientIoWrite(w) PROVE [Callbacks!Next]_Contact
  <2>1. Outside(w)
    BY <1>20, <1>0 DEF WorkersTyped, Outside, PostClientIoWrite, Goto, GotoClose, workerVars,
         serverVars
  <2>2. SameSockets
    BY <1>20, <1>0 DEF SameSockets, Context, PostClientIoWrite, Goto, GotoClose, workerVars,
         serverVars
  <2> QED BY <2>1, <2>2, OutsideSettles, SettlesReturn
<1>21. ASSUME NEW w \in Workers, Fault(w) PROVE [Callbacks!Next]_Contact
  <2>1. SameSockets
    BY <1>21, <1>0 DEF SameSockets, Fault, NullReader, FreedAccept, LostPort, workerVars, serverVars
  <2>2. Unmoved
    BY <1>21 DEF Unmoved, SameParts, Arrives, Receives, Leaves, Fault, NullReader, FreedAccept,
         LostPort, workerVars, serverVars
  <2> QED BY <2>1, <2>2, UnmovedContact
<1>22. ASSUME NEW c \in Contexts, Send(c), SendQueued(c) PROVE [Callbacks!Next]_Contact
  <2>1. SameSockets
    BY <1>22, <1>0 DEF SameSockets, Context, SendQueued, Send, Announced, workerVars, serverVars
  <2>2. Unmoved
    BY <1>22 DEF Unmoved, SameParts, Arrives, Receives, Leaves, SendQueued, Send, Announced,
         workerVars, serverVars
  <2> QED BY <2>1, <2>2, UnmovedContact
<1>23. ASSUME NEW c \in Contexts, Send(c), SendPosted(c) PROVE [Callbacks!Next]_Contact
  <2>1. SameSockets
    BY <1>23, <1>0 DEF SameSockets, Context, SendPosted, Send, Announced, workerVars, serverVars
  <2>2. Unmoved
    BY <1>23 DEF Unmoved, SameParts, Arrives, Receives, Leaves, SendPosted, Send, Announced,
         workerVars, serverVars
  <2> QED BY <2>1, <2>2, UnmovedContact
<1>24. ASSUME NEW c \in Contexts, Send(c), SendFailed(c) PROVE [Callbacks!Next]_Contact
  <2>1. Live(c) /\ Open(c) /\ pc' = pc /\ ctx' = ctx /\ next' = next
    BY <1>24 DEF Send, Announced, SendFailed, workerVars
  <2>2. client[c].pending # 0
    BY <2>1 DEF IInv, LastReferenceClosed
  <2>3. client' = [client EXCEPT ![c] = [@ EXCEPT !.reader = TRUE, !.open = FALSE]]
    BY <1>24, <2>2 DEF SendFailed
  <2>4. \A d \in Contexts : /\ client'[d].life = client[d].life
                            /\ client'[d].open = IF d \in {c} THEN FALSE ELSE client[d].open
    BY <1>0, <2>3 DEF Context
  <2>5. {c} \in SUBSET Contexts /\ \A d \in {c} : Open(d)
    BY <2>1
  <2> QED BY <2>1, <2>4, <2>5, ClosedDisconnect
<1>25. ASSUME NEW a \in Accepts, AcceptCompletes(a) PROVE [Callbacks!Next]_Contact
  <2>1. SameSockets
    BY <1>25, <1>0 DEF SameSockets, AcceptCompletes, workerVars, serverVars
  <2>2. Unmoved
    BY <1>25 DEF Unmoved, SameParts, Arrives, Receives, Leaves, AcceptCompletes, workerVars,
         serverVars
  <2> QED BY <2>1, <2>2, UnmovedContact
<1>26. ASSUME Flag PROVE [Callbacks!Next]_Contact
  <2>1. SameSockets
    BY <1>26, <1>0 DEF SameSockets, Flag, ShutdownStep, workerVars, serverVars
  <2>2. Unmoved
    BY <1>26 DEF Unmoved, SameParts, Arrives, Receives, Leaves, Flag, ShutdownStep, workerVars,
         serverVars
  <2> QED BY <2>1, <2>2, UnmovedContact
<1>27. ASSUME CloseListenSocket PROVE [Callbacks!Next]_Contact
  <2>1. SameSockets
    BY <1>27, <1>0 DEF SameSockets, CloseListenSocket, ShutdownStep, workerVars, serverVars
  <2>2. Unmoved
    BY <1>27 DEF Unmoved, SameParts, Arrives, Receives, Leaves, CloseListenSocket, ShutdownStep,
         workerVars, serverVars
  <2> QED BY <2>1, <2>2, UnmovedContact
<1>28. ASSUME NEW a \in Accepts, FreeAccept(a) PROVE [Callbacks!Next]_Contact
  <2>1. SameSockets
    BY <1>28, <1>0 DEF SameSockets, FreeAccept, workerVars, serverVars
  <2>2. Unmoved
    BY <1>28 DEF Unmoved, SameParts, Arrives, Receives, Leaves, FreeAccept, workerVars, serverVars
  <2> QED BY <2>1, <2>2, UnmovedContact
<1>29. ASSUME CloseClients PROVE [Callbacks!Next]_Contact
  <2> DEFINE S == {c \in Contexts : client[c].open}
  <2>1. \A c \in Contexts : client'[c].life = client[c].life /\ client'[c].open = FALSE
    BY <1>29, <1>0 DEF CloseClients, Context
  <2>2. \A c \in Contexts : client[c].open \in BOOLEAN
    BY <1>0 DEF Context
  <2>3. \A c \in Contexts : client'[c].open = IF c \in S THEN FALSE ELSE client[c].open
    BY <2>1, <2>2
  <2>4. pc' = pc /\ ctx' = ctx /\ next' = next
    BY <1>29 DEF CloseClients, workerVars
  <2>5. S \in SUBSET Contexts /\ \A c \in S : Open(c)
    BY DEF Open
  <2> HIDE DEF S
  <2> QED BY <2>1, <2>3, <2>4, <2>5, ClosedDisconnect
<1>30. ASSUME Reset PROVE [Callbacks!Next]_Contact
  <2>1. SameSockets
    BY <1>30, <1>0 DEF SameSockets, Reset, ShutdownStep, workerVars, serverVars
  <2>2. Unmoved
    BY <1>30 DEF Unmoved, SameParts, Arrives, Receives, Leaves, Reset, ShutdownStep, workerVars,
         serverVars
  <2> QED BY <2>1, <2>2, UnmovedContact
<1>31. CASE UNCHANGED vars
  <2>1. SameSockets /\ Unmoved
    BY <1>31 DEF vars, SameSockets, Unmoved, SameParts, Arrives, Receives, Leaves
  <2> QED BY <2>1, UnmovedContact
<1> QED BY <1>1, <1>2, <1>3, <1>4, <1>5, <1>6, <1>7, <1>8, <1>9, <1>10, <1>11, <1>12, <1>13, <1>14,
     <1>15, <1>16, <1>17, <1>18, <1>19, <1>20, <1>21, <1>22, <1>23, <1>24, <1>25, <1>26, <1>27,
     <1>28, <1>29, <1>30, <1>31 DEF Next, Take, Handle, Send, Shutdown

(* ServerCallbacks lets a context go when its client is closed, and nobody *)
(* opens it again.                                                         *)
LEMMA DeadStep ==
  ASSUME IInv, DeadAreClosed, [Callbacks!Next]_Contact
  PROVE  DeadAreClosed'
<1>1. \A c \in Contexts : /\ Contact[c].life = client[c].life /\ Contact[c].open = client[c].open
                          /\ Contact'[c].life = client'[c].life /\ Contact'[c].open = client'[c].open
  BY ContactIs DEF ContactOf, Open
<1>2. \A c \in Contexts : Contact[c].life = "freed" => ~Contact[c].open
  BY <1>1 DEF DeadAreClosed, Open
<1>3. SUFFICES ASSUME NEW c \in Contexts, Contact'[c].life = "freed" PROVE ~Contact'[c].open
  BY <1>1 DEF DeadAreClosed, Open
<1>4. DOMAIN Contact = Contexts
  BY ContactIs
<1>5. CASE UNCHANGED Contact
  BY <1>2, <1>3, <1>5
<1>6. ASSUME NEW d \in Contexts, Callbacks!Accept(d) \/ Callbacks!Receive(d) \/ Callbacks!Close(d)
      PROVE  ~Contact'[c].open
  <2>1. Contact'[d].life = "live"
    <3>1. CASE Callbacks!Accept(d) \/ Callbacks!Close(d)
      BY <1>4, <3>1 DEF Callbacks!Accept, Callbacks!Close, Callbacks!Become, Callbacks!Is
    <3>2. CASE Callbacks!Receive(d)
      <4>1. Contact[d].life = "live" /\ Contact'[d] = [Contact[d] EXCEPT !.callback = "receipt"]
        BY <1>4, <3>2 DEF Callbacks!Receive, Callbacks!Become
      <4>2. Contact[d] = ContactOf(d)
        BY ContactIs
      <4> QED BY <4>1, <4>2 DEF ContactOf
    <3> QED BY <1>6, <3>1, <3>2
  <2>2. c # d => Contact'[c] = Contact[c]
    BY <1>4, <1>6 DEF Callbacks!Accept, Callbacks!Receive, Callbacks!Close, Callbacks!Become
  <2> QED BY <1>2, <1>3, <2>1, <2>2
<1>7. ASSUME NEW d \in Contexts, Callbacks!Return(d) PROVE ~Contact'[c].open
  <2>1. Contact'[c].life = Contact[c].life /\ Contact'[c].open = Contact[c].open
    BY <1>4, <1>7 DEF Callbacks!Return, Callbacks!Become, Callbacks!Is
  <2> QED BY <1>2, <1>3, <2>1
<1>8. ASSUME NEW d \in Contexts, Callbacks!Delete(d) PROVE ~Contact'[c].open
  <2>1. Contact'[d].open = FALSE /\ (c # d => Contact'[c] = Contact[c])
    BY <1>4, <1>8 DEF Callbacks!Delete, Callbacks!Become, Callbacks!Is
  <2> QED BY <1>2, <1>3, <2>1
<1>9. ASSUME NEW S \in SUBSET Contexts, Callbacks!Disconnect(S) PROVE ~Contact'[c].open
  BY <1>2, <1>3, <1>9 DEF Callbacks!Disconnect, Callbacks!Is
<1> QED BY <1>5, <1>6, <1>7, <1>8, <1>9 DEF Callbacks!Next

-----------------------------------------------------------------------------
LEMMA InitCallbacks == Init => Callbacks!Init /\ DeadAreClosed
<1> SUFFICES ASSUME Init PROVE Callbacks!Init /\ DeadAreClosed
  OBVIOUS
<1>1. \A c \in Contexts : client[c].life = "none" /\ client[c].open = FALSE
  BY DEF Init, NoClient
<1>2. \A w \in Workers : pc[w] = "idle"
  BY DEF Init
<1>3. \A c \in Contexts : Callback(c) = "none" /\ Leaving(c) = FALSE
  BY <1>2, CallbackIs DEF Arrives, Receives, Leaving, Leaves
<1>4. \A c \in Contexts : ContactOf(c) = Callbacks!NoContact
  BY <1>1, <1>3 DEF ContactOf, Open, Callbacks!NoContact, Callbacks!Is
<1> QED BY <1>1, <1>4, ContactIs DEF Callbacks!Init, DeadAreClosed

(* Whatever the workers, the senders and Shutdown do, a derived class sees *)
(* NotifyNewConnection first, then one package at a time, and its client's *)
(* context stays until the last callback has returned.                     *)
THEOREM CallbacksImplemented == Spec => ImplementsCallbacks
<1>1. Init => Callbacks!Init /\ DeadAreClosed
  BY InitCallbacks
<1>2. IInv /\ DeadAreClosed /\ [Next]_vars => [Callbacks!Next]_Contact /\ DeadAreClosed'
  BY CallbacksStep, DeadStep
<1> QED BY <1>1, <1>2, Inductive, PTL DEF Spec, ImplementsCallbacks, Callbacks!Spec

-----------------------------------------------------------------------------
(* FailedPostReleases, and the one way it fails.                           *)

(* A context without references is about to be deleted. *)
Doomed ==
  \A c \in Contexts : Live(c) /\ client[c].pending = 0 =>
    \E w \in Workers : ctx[w] = c /\ pc[w] = "delete"

LEMMA DoomedStep ==
  ASSUME TypeOK, Positions, Doomed, Kinds
  PROVE  Doomed'
<1>1. ASSUME Aside PROVE Doomed'
  BY <1>1 DEF Doomed, Live, Free, Aside
<1>2. ASSUME Still, \A d \in Contexts : Same(d) PROVE Doomed'
  BY <1>2 DEF Doomed, Live, Still, Same
<1>3. ASSUME NEW w \in Workers, Walk(w) PROVE Doomed'
  BY <1>3 DEF Doomed, Live, Walk, Same, Others, Handling
<1>4. ASSUME NEW w \in Workers, Shut(w) PROVE Doomed'
  BY <1>4 DEF Doomed, Live, Shut, Same, Others, OtherClients, Handling
<1>5. ASSUME NEW w \in Workers, HandOver(w) PROVE Doomed'
  BY <1>5 DEF Doomed, Live, HandOver, Same, Others, OtherClients, Handling
<1>6. ASSUME NEW w \in Workers, Leak(w) PROVE Doomed'
  BY <1>6 DEF Doomed, Live, Leak, Same, Others, Handling
<1>7. ASSUME NEW w \in Workers, GiveUp(w) PROVE Doomed'
  <2>1. ctx[w] \in Contexts /\ client[ctx[w]].pending \in Nat
    BY <1>7, Numbers DEF Positions, Free, GiveUp
  <2>2. CASE client[ctx[w]].pending = 1
    <3>1. pc'[w] = "delete" /\ ctx'[w] = ctx[w]
      BY <1>7, <2>2 DEF GiveUp
    <3>2. ASSUME NEW c \in Contexts, c # ctx[w], Live(c)', client'[c].pending = 0
          PROVE  \E u \in Workers : ctx'[u] = c /\ pc'[u] = "delete"
      <4>1. PICK u \in Workers : ctx[u] = c /\ pc[u] = "delete"
        BY <1>7, <3>2 DEF Doomed, Live, GiveUp, Same, OtherClients
      <4> QED BY <1>7, <4>1 DEF GiveUp, Others
    <3> QED BY <3>1, <3>2 DEF Doomed
  <2>3. CASE client[ctx[w]].pending # 1
    <3>1. client'[ctx[w]].pending # 0
      BY <1>7, <2>1, <2>3 DEF GiveUp
    <3>2. ASSUME NEW c \in Contexts, c # ctx[w], Live(c)', client'[c].pending = 0
          PROVE  \E u \in Workers : ctx'[u] = c /\ pc'[u] = "delete"
      <4>1. PICK u \in Workers : ctx[u] = c /\ pc[u] = "delete"
        BY <1>7, <3>2 DEF Doomed, Live, GiveUp, Same, OtherClients
      <4> QED BY <1>7, <4>1 DEF GiveUp, Others
    <3> QED BY <3>1, <3>2 DEF Doomed
  <2> QED BY <2>2, <2>3
<1>8. ASSUME NEW w \in Workers, Remove(w) PROVE Doomed'
  BY <1>8 DEF Doomed, Live, Remove, Same, Others, OtherClients
<1>9. ASSUME NEW w \in Workers, NEW c \in Contexts, Pick(w, c) PROVE Doomed'
  BY <1>9 DEF Doomed, Live, Pick, Same, Others, OtherClients
<1>10. ASSUME NEW w \in Workers, NEW c \in Contexts, Enter(w, c) PROVE Doomed'
  BY <1>10 DEF Doomed, Live, Enter, Same, Others, OtherClients
<1>11. ASSUME NEW c \in Contexts, Write(c) PROVE Doomed'
  <2>1. client'[c].pending # 0
    BY <1>11, Numbers DEF Write
  <2> QED BY <1>11, <2>1 DEF Doomed, Live, Write, Still, Same, OtherClients
<1>12. ASSUME NEW S \in SUBSET Contexts, ShutOutside(S) PROVE Doomed'
  BY <1>12 DEF Doomed, Live, ShutOutside, Still, Same
<1> QED BY <1>1, <1>2, <1>3, <1>4, <1>5, <1>6, <1>7, <1>8, <1>9, <1>10, <1>11, <1>12 DEF Kinds

(* FailedPostReleases for the contexts not in leaked. *)
Attached ==
  \A c \in Contexts : Live(c) /\ c \notin leaked =>
    client[c].reads + client[c].writes > 0 \/ \E w \in Workers : ctx[w] = c

LEMMA CountedAreAttached ==
  ASSUME IInv, Doomed
  PROVE  Attached
<1> SUFFICES ASSUME NEW c \in Contexts, Live(c), c \notin leaked, \A w \in Workers : ctx[w] # c
             PROVE  client[c].reads + client[c].writes > 0
  BY DEF Attached
<1>1. client[c].pending \in Nat /\ client[c].reads \in Nat /\ client[c].writes \in Nat
  BY Numbers DEF IInv
<1>2. Holders(c) = {}
  BY DEF Holders
<1>3. Cardinality(Holders(c)) = 0
  BY <1>2, FS_EmptySet
<1>4. client[c].pending = client[c].reads + client[c].writes
  BY <1>1, <1>3 DEF IInv, ReferencesCounted
<1>5. client[c].pending # 0
  BY DEF Doomed
<1> QED BY <1>1, <1>4, <1>5

(* Every context in the table has an operation posted, or a worker that    *)
(* handles it, or is one of the leaked ones: EnterIOLoop and ExitIOLoop    *)
(* never leave a context behind on any other path.                         *)
THEOREM NothingElseLeaks == Spec => []Attached
<1>1. Init => IInv /\ Doomed
  <2>1. Init => Doomed
    BY DEF Init, Doomed, Live, NoClient
  <2> QED BY <2>1, InitIInv
<1>2. IInv /\ Doomed /\ [Next]_vars => IInv' /\ Doomed'
  BY StepIInv, StepKinds, DoomedStep DEF IInv
<1>3. IInv /\ Doomed => Attached
  BY CountedAreAttached
<1> QED BY <1>1, <1>2, <1>3, PTL DEF Spec

(* OnClientIoAccept posts the first read of a client that has been closed  *)
(* since AddContext, and ignores PostIoInvalicSocket.                      *)
FirstReadRefused == \E w \in Workers : PostClientIoRead(w, "firstRead") /\ ~Open(ctx[w])

LEMMA LeakedStep ==
  ASSUME [Next]_vars, ~FirstReadRefused
  PROVE  leaked' = leaked
<1>1. ASSUME NEW w \in Workers, Take(w) PROVE leaked' = leaked
  BY <1>1 DEF Take, TakeRead, TakeWrite, TakeAccept, TakeNull, serverVars
<1>2. ASSUME NEW w \in Workers, PostClientIoRead(w, "firstRead") PROVE leaked' = leaked
  BY <1>2 DEF FirstReadRefused, PostClientIoRead
<1>3. ASSUME NEW w \in Workers, PostClientIoRead(w, "nextRead") PROVE leaked' = leaked
  BY <1>3 DEF PostClientIoRead
<1>4. ASSUME NEW w \in Workers, Handle(w) PROVE leaked' = leaked
  BY <1>2, <1>3, <1>4 DEF Handle, CloseClient, Disconnected, ExitIOLoop, DeleteContext,
       Count, Reject, PostNextAccept, Repost, AddContext, UpdateCompletionPort,
       NotifyNewConnection, NotifyReceivedPackage, Written, SwapBuffer, LookAtReader,
       PostClientIoWrite, Fault, serverVars
<1>5. ASSUME NEW c \in Contexts, Send(c) PROVE leaked' = leaked
  BY <1>5 DEF Send
<1>6. ASSUME NEW a \in Accepts, AcceptCompletes(a) PROVE leaked' = leaked
  BY <1>6 DEF AcceptCompletes
<1>7. ASSUME Shutdown PROVE leaked' = leaked
  BY <1>7 DEF Shutdown, Flag, CloseListenSocket, CloseClients, Reset, FreeAccept
<1>8. CASE UNCHANGED vars
  BY <1>8 DEF vars
<1> QED BY <1>1, <1>4, <1>5, <1>6, <1>7, <1>8 DEF Next

NoLeak == leaked = {}
LEMMA NoLeakKept == NoLeak /\ [Next]_vars /\ [~FirstReadRefused]_vars => NoLeak'
<1>1. NoLeak /\ [Next]_vars /\ ~FirstReadRefused => NoLeak'
  BY LeakedStep DEF NoLeak
<1>2. NoLeak /\ UNCHANGED vars => NoLeak'
  BY DEF vars, NoLeak
<1> QED BY <1>1, <1>2

(* The comment in OnClientIoAccept holds of every behaviour in which no    *)
(* client is closed between AddContext and its first read: nothing else    *)
(* makes run iocp_leak fail.                                               *)
THEOREM LeaksAtFirstReadOnly == Spec /\ [][~FirstReadRefused]_vars => []FailedPostReleases
<1>1. Init => NoLeak
  BY DEF Init, NoLeak
<1>2. Attached /\ NoLeak => FailedPostReleases
  BY DEF Attached, FailedPostReleases, NoLeak
<1> QED BY <1>1, <1>2, NoLeakKept, NothingElseLeaks, PTL DEF Spec

-----------------------------------------------------------------------------
(* A closed client drains. *)
Winding(c) == Live(c) /\ ~Open(c)
WindsDown(c) ==
  Winding(c) => /\ ~Open(c)'
                /\ client'[c].pending <= client[c].pending
                /\ client'[c].reads <= client[c].reads
                /\ client'[c].writes <= client[c].writes

LEMMA WindingStep ==
  ASSUME IInv, [Next]_vars, NEW c \in Contexts
  PROVE  WindsDown(c)
<1> SUFFICES ASSUME Winding(c)
             PROVE  /\ ~Open(c)'
                    /\ client'[c].pending <= client[c].pending
                    /\ client'[c].reads <= client[c].reads
                    /\ client'[c].writes <= client[c].writes
  BY DEF WindsDown
<1>1. Kinds
  BY StepKinds DEF IInv
<1>2. client[c].pending \in Nat /\ client[c].reads \in Nat /\ client[c].writes \in Nat
  BY Numbers DEF IInv
<1>3. CASE client'[c] = client[c] \/ Same(c)
  BY <1>2, <1>3 DEF Winding, Open, Same
<1>4. ASSUME Aside PROVE client'[c] = client[c]
  BY <1>4 DEF Aside
<1>5. ASSUME NEW w \in Workers, Walk(w) \/ Leak(w) PROVE Same(c)
  BY <1>5 DEF Walk, Leak
<1>6. ASSUME NEW w \in Workers, HandOver(w) PROVE Same(c)
  BY <1>6 DEF HandOver, OtherClients, Winding
<1>7. ASSUME NEW d \in Contexts, Write(d) PROVE Same(c)
  BY <1>7 DEF Write, OtherClients, Winding
<1>8. ASSUME NEW w \in Workers, NEW d \in Contexts, Enter(w, d) PROVE Same(c)
  BY <1>8 DEF Enter, OtherClients, Winding, Live
<1>9. ASSUME NEW w \in Workers, Shut(w), ~Same(c)
      PROVE /\ ~Open(c)' /\ client'[c].pending = client[c].pending
            /\ client'[c].reads = client[c].reads /\ client'[c].writes = client[c].writes
  BY <1>9 DEF Shut, OtherClients, Open
<1>10. ASSUME NEW w \in Workers, Remove(w), ~Same(c)
       PROVE /\ ~Open(c)' /\ client'[c].pending = client[c].pending
             /\ client'[c].reads = client[c].reads /\ client'[c].writes = client[c].writes
  BY <1>10 DEF Remove, OtherClients, Open, Winding
<1>11. ASSUME NEW w \in Workers, GiveUp(w), ~Same(c)
       PROVE /\ ~Open(c)' /\ client'[c].pending = client[c].pending - 1
             /\ client'[c].reads = client[c].reads /\ client'[c].writes = client[c].writes
  BY <1>11 DEF GiveUp, OtherClients, Open, Winding
<1>12. ASSUME NEW w \in Workers, NEW d \in Contexts, Pick(w, d), ~Same(c)
       PROVE /\ ~Open(c)' /\ client'[c].pending = client[c].pending
             /\ client'[c].reads \in {client[c].reads, client[c].reads - 1}
             /\ client'[c].writes \in {client[c].writes, client[c].writes - 1}
  BY <1>12 DEF Pick, OtherClients, Open, Winding
<1>13. ASSUME NEW S \in SUBSET Contexts, ShutOutside(S), ~Same(c)
       PROVE /\ ~Open(c)' /\ client'[c].pending = client[c].pending
             /\ client'[c].reads = client[c].reads /\ client'[c].writes = client[c].writes
  BY <1>13 DEF ShutOutside, Open
<1> QED BY <1>1, <1>2, <1>3, <1>4, <1>5, <1>6, <1>7, <1>8, <1>9, <1>10, <1>11, <1>12,
     <1>13 DEF Kinds

(* Once a client is closed, nothing opens it again, takes a reference or   *)
(* posts an operation for it: its references and operations only become    *)
(* fewer, until ReleaseSocketContext deletes it.                           *)
THEOREM ClosedDrain == Spec => [][\A c \in Contexts : WindsDown(c)]_vars
<1>1. IInv /\ [Next]_vars => [\A c \in Contexts : WindsDown(c)]_vars
  BY WindingStep
<1> QED BY <1>1, Inductive, PTL DEF Spec

-----------------------------------------------------------------------------
(* What Shutdown does to the workers.  UpdateCompletionPort works on a     *)
(* client nobody else can reach yet, so only CloseClients closes it.       *)
Exiting == shutdown \in {"exiting", "done"}
Registering ==
  \A w \in Workers : pc[w] = "register" =>
    client[ctx[w]].pending = 1 /\ (Exiting \/ Open(ctx[w]))

LEMMA ExitingStays ==
  ASSUME [Next]_vars, Exiting
  PROVE  Exiting'
<1>1. ASSUME NEW w \in Workers, Take(w) PROVE shutdown' = shutdown
  BY <1>1 DEF Take, TakeRead, TakeWrite, TakeAccept, TakeNull, serverVars
<1>2. ASSUME NEW w \in Workers, Handle(w) PROVE shutdown' = shutdown
  BY <1>2 DEF Handle, CloseClient, Disconnected, ExitIOLoop, DeleteContext,
       PostClientIoRead, Count, Reject, PostNextAccept, Repost, AddContext, UpdateCompletionPort,
       NotifyNewConnection, NotifyReceivedPackage, Written, SwapBuffer, LookAtReader,
       PostClientIoWrite, Fault, serverVars
<1>3. ASSUME NEW c \in Contexts, Send(c) PROVE shutdown' = shutdown
  BY <1>3 DEF Send
<1>4. ASSUME NEW a \in Accepts, AcceptCompletes(a) PROVE shutdown' = shutdown
  BY <1>4 DEF AcceptCompletes
<1>5. CASE Shutdown
  BY <1>5 DEF Shutdown, Flag, CloseListenSocket, CloseClients, FreeAccept, Reset, ShutdownStep,
       Exiting
<1>6. CASE UNCHANGED vars
  BY <1>6 DEF vars, Exiting
<1> QED BY <1>1, <1>2, <1>3, <1>4, <1>5, <1>6 DEF Next, Exiting

LEMMA RegisteringStep ==
  ASSUME IInv, Registering, [Next]_vars
  PROVE  Registering'
<1>1. Kinds /\ (Exiting => Exiting')
  BY StepKinds, ExitingStays DEF IInv
<1> SUFFICES ASSUME NEW u \in Workers, pc'[u] = "register"
             PROVE  client'[ctx'[u]].pending = 1 /\ (Exiting' \/ Open(ctx[u])')
  BY DEF Registering
<1>2. ASSUME NEW w \in Workers, NEW c \in Contexts, Enter(w, c), u = w
      PROVE  client'[ctx'[u]].pending = 1 /\ (Exiting' \/ Open(ctx[u])')
  BY <1>2 DEF Enter, Open
<1>3. ASSUME pc[u] = "register", ctx'[u] = ctx[u], Same(ctx[u])
      PROVE  client'[ctx'[u]].pending = 1 /\ (Exiting' \/ Open(ctx[u])')
  BY <1>1, <1>3 DEF Registering, Same, Open
<1>4. ASSUME pc[u] = "register"
      PROVE  /\ ctx[u] \in Contexts /\ Live(ctx[u])
             /\ client[ctx[u]].reads = 0 /\ client[ctx[u]].writes = 0
             /\ \A w \in Workers : ctx[w] = ctx[u] => w = u
  <2>1. pc[u] \in Handling /\ client[ctx[u]].pending <= 1
    BY <1>4 DEF Registering, Handling
  <2> QED BY <1>4, <2>1, LastReference DEF IInv, Positions, Free
<1>5. ASSUME NEW w \in Workers, u # w, pc[u] = "register", ctx[w] \in Contexts, OtherClients(ctx[w])
      PROVE  Same(ctx[u])
  BY <1>4, <1>5 DEF OtherClients
<1>6. CASE Aside
  <2>1. pc[u] = "register" /\ ctx'[u] = ctx[u]
    BY <1>6 DEF Aside, Free
  <2> QED BY <1>3, <1>4, <1>6, <2>1 DEF Aside, Same
<1>7. CASE Still /\ \A d \in Contexts : Same(d)
  BY <1>3, <1>4, <1>7 DEF Still
<1>8. ASSUME NEW w \in Workers,
             Walk(w) \/ Shut(w) \/ HandOver(w) \/ Leak(w) \/ GiveUp(w) \/ Remove(w)
      PROVE  client'[ctx'[u]].pending = 1 /\ (Exiting' \/ Open(ctx[u])')
  <2>1. u # w /\ pc[u] = "register" /\ ctx'[u] = ctx[u]
    BY <1>8 DEF Walk, Shut, HandOver, Leak, GiveUp, Remove, Busy, Others
  <2>2. ctx[w] \in Contexts
    BY <1>8 DEF IInv, Positions, Free, Handling, Walk, Shut, HandOver, Leak, GiveUp, Remove
  <2>3. OtherClients(ctx[w])
    BY <1>8, <2>2 DEF Walk, Shut, HandOver, Leak, GiveUp, Remove, OtherClients
  <2> QED BY <1>3, <1>5, <2>1, <2>2, <2>3
<1>9. ASSUME NEW w \in Workers, NEW c \in Contexts, Pick(w, c)
      PROVE  client'[ctx'[u]].pending = 1 /\ (Exiting' \/ Open(ctx[u])')
  <2>1. pc[u] = "register" /\ ctx'[u] = ctx[u]
    BY <1>9 DEF Pick, Busy, Others
  <2>2. ctx[u] # c
    BY <1>4, <1>9, <2>1 DEF Pick
  <2> QED BY <1>3, <1>4, <1>9, <2>1, <2>2 DEF Pick, OtherClients
<1>10. ASSUME NEW w \in Workers, NEW c \in Contexts, Enter(w, c), u # w
       PROVE  client'[ctx'[u]].pending = 1 /\ (Exiting' \/ Open(ctx[u])')
  <2>1. pc[u] = "register" /\ ctx'[u] = ctx[u]
    BY <1>10 DEF Enter, Others
  <2>2. ctx[u] # c
    BY <1>4, <1>10, <2>1 DEF Enter, Live
  <2> QED BY <1>3, <1>4, <1>10, <2>1, <2>2 DEF Enter, OtherClients
<1>11. ASSUME NEW c \in Contexts, Write(c)
       PROVE  client'[ctx'[u]].pending = 1 /\ (Exiting' \/ Open(ctx[u])')
  <2>1. pc[u] = "register" /\ ctx'[u] = ctx[u]
    BY <1>11 DEF Write, Still
  <2>2. ctx[u] # c
    BY <1>11, <2>1 DEF Write, Announced
  <2> QED BY <1>3, <1>4, <1>11, <2>1, <2>2 DEF Write, OtherClients
<1>12. ASSUME NEW S \in SUBSET Contexts, ShutOutside(S)
       PROVE  client'[ctx'[u]].pending = 1 /\ (Exiting' \/ Open(ctx[u])')
  <2>1. pc[u] = "register" /\ ctx'[u] = ctx[u]
    BY <1>12 DEF ShutOutside, Still
  <2>2. client'[ctx[u]].pending = client[ctx[u]].pending
    BY <1>4, <1>12, <2>1 DEF ShutOutside, Same
  <2>3. CASE shutdown' = "exiting"
    BY <2>1, <2>2, <2>3 DEF Registering, Exiting
  <2>4. CASE \A c \in S : Announced(c)
    <3>1. ctx[u] \notin S
      BY <2>1, <2>4 DEF Announced
    <3> QED BY <1>3, <1>4, <1>12, <2>1, <3>1 DEF ShutOutside
  <2> QED BY <1>12, <2>3, <2>4 DEF ShutOutside
<1> QED BY <1>1, <1>2, <1>6, <1>7, <1>8, <1>9, <1>10, <1>11, <1>12, <1>3, <1>4 DEF Kinds

(* The accept operations: only Shutdown deletes one, and a worker that     *)
(* handles an accept has one.                                              *)
Freeing == shutdown \in {"freeing", "exiting", "done"}
AcceptsKept ==
  /\ \A a \in Accepts : acceptIo[a] = "freed" => Freeing
  /\ \A w \in Workers : pc[w] \in {"accept", "reject", "repost"} => io[w] \in Accepts

LEMMA AcceptsStep ==
  ASSUME TypeOK, AcceptsKept, [Next]_vars
  PROVE  AcceptsKept'
<1>1. ASSUME NEW w \in Workers, NEW c \in Contexts, TakeRead(w, c) PROVE AcceptsKept'
  BY <1>1 DEF TypeOK, WorkersTyped, AcceptsKept, TakeRead, serverVars, Freeing
<1>2. ASSUME NEW w \in Workers, NEW c \in Contexts, TakeWrite(w, c) PROVE AcceptsKept'
  BY <1>2 DEF TypeOK, WorkersTyped, AcceptsKept, TakeWrite, serverVars, Freeing
<1>3. ASSUME NEW w \in Workers, NEW a \in Accepts, TakeAccept(w, a) PROVE AcceptsKept'
  <2>1. \A b \in Accepts : acceptIo'[b] = "freed" => acceptIo[b] = "freed"
    BY <1>3 DEF TypeOK, TakeAccept
  <2> QED BY <1>3, <2>1 DEF TypeOK, WorkersTyped, AcceptsKept, TakeAccept, Freeing
<1>4. ASSUME NEW w \in Workers, Reject(w) \/ PostNextAccept(w) PROVE AcceptsKept'
  <2>1. \A b \in Accepts : acceptIo'[b] = "freed" => acceptIo[b] = "freed"
    BY <1>4 DEF TypeOK, Reject, PostNextAccept, Repost, CreateAcceptSocket
  <2>2. pc'[w] \in {"idle", "allocate"}
    BY <1>4 DEF TypeOK, WorkersTyped, Reject, PostNextAccept, Repost
  <2>3. \A u \in Workers \ {w} : pc'[u] = pc[u] /\ io'[u] = io[u]
    BY <1>4 DEF TypeOK, WorkersTyped, Reject, PostNextAccept, Repost
  <2>4. shutdown' = shutdown
    BY <1>4 DEF Reject, PostNextAccept, Repost
  <2> QED BY <2>1, <2>2, <2>3, <2>4 DEF AcceptsKept, Freeing
<1>5. ASSUME NEW w \in Workers, Count(w) PROVE AcceptsKept'
  BY <1>5 DEF TypeOK, WorkersTyped, AcceptsKept, Count, Goto, Freeing
<1>6. ASSUME NEW w \in Workers, Handle(w), ~Count(w), ~Reject(w), ~PostNextAccept(w)
      PROVE  AcceptsKept'
  <2>1. acceptIo' = acceptIo /\ io' = io /\ shutdown' = shutdown
    BY <1>6 DEF Handle, CloseClient, Disconnected, ExitIOLoop, DeleteContext, Goto, GotoClose,
         PostClientIoRead, AddContext, UpdateCompletionPort,
         NotifyNewConnection, NotifyReceivedPackage, Written, SwapBuffer, LookAtReader,
         PostClientIoWrite, Fault, workerVars, serverVars
  <2>2. \A u \in Workers : pc'[u] \in {"accept", "reject", "repost"} => pc'[u] = pc[u]
    <3>1. CASE CloseClient(w) \/ Disconnected(w)
      BY <3>1 DEF TypeOK, WorkersTyped, CloseClient, Disconnected
    <3>2. CASE ExitIOLoop(w) \/ DeleteContext(w)
      BY <3>2 DEF TypeOK, WorkersTyped, ExitIOLoop, DeleteContext, Goto
    <3>3. CASE PostClientIoRead(w, "firstRead") \/ PostClientIoRead(w, "nextRead")
      BY <3>3 DEF TypeOK, WorkersTyped, PostClientIoRead, Goto, GotoClose
    <3>4. CASE \E c \in Contexts : AddContext(w, c)
      BY <3>4 DEF TypeOK, WorkersTyped, AddContext
    <3>5. CASE UpdateCompletionPort(w) \/ NotifyNewConnection(w) \/ NotifyReceivedPackage(w)
      BY <3>5 DEF TypeOK, WorkersTyped, UpdateCompletionPort, NotifyNewConnection,
           NotifyReceivedPackage, Goto, GotoClose
    <3>6. CASE Written(w) \/ SwapBuffer(w) \/ LookAtReader(w) \/ PostClientIoWrite(w)
      BY <3>6 DEF TypeOK, WorkersTyped, Written, SwapBuffer, LookAtReader, PostClientIoWrite,
           Goto, GotoClose
    <3>7. CASE Fault(w)
      BY <3>7 DEF Fault, workerVars
    <3> QED BY <1>6, <3>1, <3>2, <3>3, <3>4, <3>5, <3>6, <3>7 DEF Handle
  <2> QED BY <2>1, <2>2 DEF AcceptsKept, Freeing
<1>7. ASSUME NEW w \in Workers, TakeNull(w) PROVE AcceptsKept'
  BY <1>7 DEF TypeOK, WorkersTyped, AcceptsKept, TakeNull, Goto, serverVars, Freeing
<1>8. ASSUME NEW c \in Contexts, Send(c) PROVE AcceptsKept'
  BY <1>8 DEF AcceptsKept, Send, workerVars, Freeing
<1>9. ASSUME NEW a \in Accepts, AcceptCompletes(a) PROVE AcceptsKept'
  <2>1. \A b \in Accepts : acceptIo'[b] = "freed" => acceptIo[b] = "freed"
    BY <1>9 DEF TypeOK, AcceptCompletes
  <2> QED BY <1>9, <2>1 DEF AcceptsKept, AcceptCompletes, workerVars, Freeing
<1>10. CASE Shutdown
  <2>1. pc' = pc /\ io' = io
    BY <1>10 DEF Shutdown, Flag, CloseListenSocket, CloseClients, FreeAccept, Reset, workerVars
  <2>2. Freeing \/ shutdown \in {"no", "flagged"}
    BY DEF TypeOK, Freeing
  <2>3. CASE Freeing
    <3>1. Freeing'
      BY <1>10, <2>3 DEF Shutdown, Flag, CloseListenSocket, CloseClients, FreeAccept, Reset,
           ShutdownStep, Freeing
    <3> QED BY <2>1, <3>1 DEF AcceptsKept
  <2>4. CASE shutdown \in {"no", "flagged"}
    <3>1. \A b \in Accepts : acceptIo'[b] = "freed" => acceptIo[b] = "freed"
      BY <1>10, <2>4 DEF Shutdown, Flag, CloseListenSocket, CloseClients, FreeAccept, Reset,
           ShutdownStep
    <3> QED BY <2>1, <2>4, <3>1 DEF AcceptsKept, Freeing
  <2> QED BY <2>2, <2>3, <2>4
<1>11. CASE UNCHANGED vars
  BY <1>11 DEF vars, AcceptsKept, Freeing
<1> QED BY <1>1, <1>2, <1>3, <1>4, <1>5, <1>6, <1>7, <1>8, <1>9, <1>10, <1>11 DEF Next, Take

(* How the program can end. *)
Crashes ==
  /\ crash \in {"no", "null reader", "freed accept", "lost port"}
  /\ crash = "lost port" => Exiting
  /\ crash = "freed accept" => Freeing

LEMMA CrashStep ==
  ASSUME IInv, Registering, AcceptsKept, Crashes, [Next]_vars
  PROVE  Crashes'
<1>1. ASSUME crash' = crash, crash = "no" PROVE Crashes'
  BY <1>1 DEF Crashes
<1>2. CASE UNCHANGED vars
  BY <1>2 DEF Crashes, vars, Exiting, Freeing
<1>3. ASSUME NEW w \in Workers, Fault(w) PROVE Crashes'
  <2>1. shutdown' = shutdown
    BY <1>3 DEF Fault
  <2>2. LostPort(w) => Exiting
    BY DEF LostPort, Registering
  <2>3. FreedAccept(w) => Freeing
    BY DEF FreedAccept, AcceptsKept
  <2> QED BY <1>3, <2>1, <2>2, <2>3 DEF Fault, NullReader, FreedAccept, LostPort, Crashes, Exiting,
       Freeing
<1>4. ASSUME NEW w \in Workers, Handle(w), ~Fault(w) PROVE crash' = crash
  BY <1>4 DEF Handle, CloseClient, Disconnected, ExitIOLoop, DeleteContext,
       PostClientIoRead, Count, Reject, PostNextAccept, Repost, AddContext, UpdateCompletionPort,
       NotifyNewConnection, NotifyReceivedPackage, Written, SwapBuffer, LookAtReader,
       PostClientIoWrite, serverVars
<1>5. ASSUME NEW w \in Workers, Take(w) PROVE crash' = crash
  BY <1>5 DEF Take, TakeRead, TakeWrite, TakeAccept, TakeNull, serverVars
<1>6. ASSUME NEW c \in Contexts, Send(c) PROVE crash' = crash
  BY <1>6 DEF Send
<1>7. ASSUME NEW a \in Accepts, AcceptCompletes(a) PROVE crash' = crash
  BY <1>7 DEF AcceptCompletes
<1>8. ASSUME Shutdown PROVE crash' = crash
  BY <1>8 DEF Shutdown, Flag, CloseListenSocket, CloseClients, FreeAccept, Reset
<1> QED BY <1>1, <1>2, <1>3, <1>4, <1>5, <1>6, <1>7, <1>8 DEF Next

LEMMA InitCrashes == Init => Registering /\ AcceptsKept /\ Crashes
  BY DEF Init, Registering, AcceptsKept, Crashes

(* A worker loses the port's handle or uses a deleted accept operation     *)
(* only while Shutdown runs: the first once it has closed the clients, the *)
(* second once it frees the operations.                                    *)
THEOREM ShutdownFaultsOnly == Spec => []Crashes
<1>1. IInv /\ Registering /\ AcceptsKept /\ [Next]_vars => Registering' /\ AcceptsKept'
  BY RegisteringStep, AcceptsStep DEF IInv
<1>2. IInv /\ Registering /\ AcceptsKept /\ Crashes /\ [Next]_vars => Crashes'
  BY CrashStep
<1> QED BY <1>1, <1>2, InitCrashes, Inductive, PTL DEF Spec

-----------------------------------------------------------------------------
(* One write at a time.  Serves: the worker handles a completed write.     *)
Serves(w, c) == ctx[w] = c /\ pc[w] \in {"written", "swap", "look", "write"}
Writing ==
  \A c \in Contexts :
    /\ client[c].writes <= 1
    /\ client[c].writes > 0 => client[c].reader
    /\ \A w \in Workers : Serves(w, c) =>
         /\ client[c].writes = 0
         /\ pc[w] # "look" => client[c].reader
         /\ \A u \in Workers : Serves(u, c) => u = w

(* Send(guid) finds no reader and posts a write while the worker that has  *)
(* just taken the reader away is about to look at it outside the lock.     *)
SendsBeside ==
  \E c \in Contexts : /\ Send(c) /\ SendPosted(c)
                      /\ \E w \in Workers : ctx[w] = c /\ pc[w] = "look"

(* Steps that have nothing to do with writes. *)
Unwritten ==
  /\ \A c \in Contexts : client'[c].reader = client[c].reader /\ client'[c].writes = client[c].writes
  /\ \A u \in Workers, c \in Contexts :
       Serves(u, c)' => Serves(u, c) /\ (pc'[u] # "look" => pc[u] # "look")

LEMMA UnwrittenKeeps ==
  ASSUME Writing, Unwritten
  PROVE  Writing'
<1> SUFFICES ASSUME NEW c \in Contexts
             PROVE  /\ client'[c].writes <= 1
                    /\ client'[c].writes > 0 => client'[c].reader
                    /\ \A w \in Workers : Serves(w, c)' =>
                         /\ client'[c].writes = 0
                         /\ pc'[w] # "look" => client'[c].reader
                         /\ \A u \in Workers : Serves(u, c)' => u = w
  BY DEF Writing
<1> QED BY DEF Writing, Unwritten

(* A step of one worker that leaves the writes alone, unless it handles one. *)
Elsewhere(w) ==
  /\ \A u \in Workers \ {w} : pc'[u] = pc[u] /\ ctx'[u] = ctx[u]
  /\ pc'[w] \notin {"written", "swap", "look", "write"}
  /\ \A c \in Contexts : client'[c].reader = client[c].reader /\ client'[c].writes = client[c].writes

LEMMA ElsewhereUnwritten ==
  ASSUME NEW w \in Workers, Elsewhere(w)
  PROVE  Unwritten
<1>1. ASSUME NEW u \in Workers, NEW c \in Contexts, Serves(u, c)'
      PROVE  Serves(u, c) /\ (pc'[u] # "look" => pc[u] # "look")
  <2>1. u # w
    BY <1>1 DEF Elsewhere, Serves
  <2> QED BY <1>1, <2>1 DEF Elsewhere, Serves
<1> QED BY <1>1 DEF Elsewhere, Unwritten

(* A worker goes on with a completed write. *)
LEMMA WorkerWrites ==
  ASSUME Writing, NEW w \in Workers, NEW x \in Contexts, Serves(w, x),
         \A u \in Workers \ {w} : pc'[u] = pc[u] /\ ctx'[u] = ctx[u],
         \A c \in Contexts \ {x} : client'[c].reader = client[c].reader /\ client'[c].writes = client[c].writes,
         \/ /\ client'[x].writes = 0
            /\ Serves(w, x)' \/ pc'[w] \notin {"written", "swap", "look", "write"}
            /\ client'[x].reader \/ pc'[w] \in {"look", "release"}
         \/ /\ client'[x].writes = 1 /\ client'[x].reader
            /\ pc'[w] \notin {"written", "swap", "look", "write"}
  PROVE  Writing'
<1> SUFFICES ASSUME NEW c \in Contexts
             PROVE  /\ client'[c].writes <= 1
                    /\ client'[c].writes > 0 => client'[c].reader
                    /\ \A v \in Workers : Serves(v, c)' =>
                         /\ client'[c].writes = 0
                         /\ pc'[v] # "look" => client'[c].reader
                         /\ \A u \in Workers : Serves(u, c)' => u = v
  BY DEF Writing
<1>1. \A u \in Workers \ {w} : ~Serves(u, x) /\ ~Serves(u, x)'
  BY DEF Writing, Serves
<1>2. CASE c = x
  BY <1>1, <1>2 DEF Serves
<1>3. CASE c # x
  <2>1. \A u \in Workers : Serves(u, c)' => Serves(u, c) /\ u # w
    BY <1>3 DEF Serves
  <2> QED BY <1>3, <2>1 DEF Writing
<1> QED BY <1>2, <1>3

LEMMA WritingStep ==
  ASSUME IInv, Writing, [Next]_vars, ~SendsBeside
  PROVE  Writing'
<1> USE DEF IInv
<1>1. \A c \in Contexts : client[c] \in Context /\ client[c].writes \in Nat
  BY DEF TypeOK, Context
<1>2. ASSUME NEW w \in Workers, NEW c \in Contexts, TakeRead(w, c) PROVE Elsewhere(w)
  <2>1. client' = [client EXCEPT ![c].reads = @ - 1]
    BY <1>2 DEF TakeRead
  <2>2. \A d \in Contexts : client'[d].reader = client[d].reader /\ client'[d].writes = client[d].writes
    BY <1>1, <2>1 DEF TypeOK, Context
  <2> QED BY <1>2, <2>2 DEF TypeOK, WorkersTyped, TakeRead, Elsewhere
<1>3. ASSUME NEW w \in Workers, NEW x \in Contexts, TakeWrite(w, x) PROVE Writing'
  <2>1. /\ \A u \in Workers \ {w} : pc'[u] = pc[u] /\ ctx'[u] = ctx[u]
        /\ pc[w] = "idle" /\ pc'[w] \in {"written", "close"}
    BY <1>3 DEF TypeOK, WorkersTyped, TakeWrite
  <2>2. client' = [client EXCEPT ![x].writes = @ - 1] /\ client[x].writes > 0
    BY <1>3 DEF TakeWrite
  <2>3. /\ \A c \in Contexts \ {x} : client'[c].reader = client[c].reader /\ client'[c].writes = client[c].writes
        /\ client'[x].reader = client[x].reader /\ client'[x].writes = client[x].writes - 1
    BY <1>1, <2>2 DEF TypeOK, Context
  <2>4. client[x].writes = 1 /\ client[x].reader /\ \A u \in Workers : ~Serves(u, x)
    BY <1>1, <2>2 DEF Writing
  <2>5. ASSUME NEW c \in Contexts
        PROVE  /\ client'[c].writes <= 1
               /\ client'[c].writes > 0 => client'[c].reader
               /\ \A v \in Workers : Serves(v, c)' =>
                    /\ client'[c].writes = 0
                    /\ pc'[v] # "look" => client'[c].reader
                    /\ \A u \in Workers : Serves(u, c)' => u = v
    <3>1. CASE c = x
      <4>1. \A u \in Workers : Serves(u, c)' => u = w
        BY <2>1, <2>4, <3>1 DEF Serves
      <4>2. client'[c].writes = 0
        BY <2>3, <2>4, <3>1
      <4>3. client'[c].reader
        BY <2>3, <2>4, <3>1, Zenon
      <4> QED BY <4>1, <4>2, <4>3
    <3>2. CASE c # x
      <4>1. ctx'[w] = x
        BY <1>3 DEF TypeOK, WorkersTyped, TakeWrite
      <4>2. \A u \in Workers : Serves(u, c)' => Serves(u, c) /\ u # w
        BY <2>1, <3>2, <4>1 DEF Serves
      <4> QED BY <2>1, <2>3, <3>2, <4>2 DEF Writing
    <3> QED BY <3>1, <3>2
  <2> QED BY <2>5 DEF Writing
<1>4. ASSUME NEW w \in Workers, NEW a \in Accepts, TakeAccept(w, a) PROVE Unwritten
  BY <1>4 DEF TypeOK, WorkersTyped, TakeAccept, Unwritten, Serves
<1>5. ASSUME NEW w \in Workers, TakeNull(w) PROVE Elsewhere(w)
  BY <1>5 DEF TypeOK, WorkersTyped, TakeNull, Goto, Elsewhere
<1>6. ASSUME NEW w \in Workers, CloseClient(w) PROVE Elsewhere(w)
  <2>1. ctx[w] \in Contexts /\ client' = [client EXCEPT ![ctx[w]].open = FALSE]
    BY <1>6 DEF Positions, Free, CloseClient
  <2>2. \A d \in Contexts : client'[d].reader = client[d].reader /\ client'[d].writes = client[d].writes
    BY <1>1, <2>1 DEF TypeOK, Context
  <2> QED BY <1>6, <2>2 DEF TypeOK, WorkersTyped, CloseClient, Elsewhere
<1>7. ASSUME NEW w \in Workers, Disconnected(w) PROVE Elsewhere(w)
  BY <1>7 DEF TypeOK, WorkersTyped, Disconnected, Elsewhere
<1>8. ASSUME NEW w \in Workers, ExitIOLoop(w) PROVE Elsewhere(w)
  <2>1. ctx[w] \in Contexts /\ client' = [client EXCEPT ![ctx[w]].pending = @ - 1]
    BY <1>8 DEF Positions, Free, ExitIOLoop, Goto
  <2>2. \A d \in Contexts : client'[d].reader = client[d].reader /\ client'[d].writes = client[d].writes
    BY <1>1, <2>1 DEF TypeOK, Context
  <2> QED BY <1>8, <2>2 DEF TypeOK, WorkersTyped, ExitIOLoop, Goto, Elsewhere
<1>9. ASSUME NEW w \in Workers, DeleteContext(w) PROVE Writing'
  <2>1. PICK x \in Contexts : x = ctx[w] /\ pc[w] = "delete"
    BY <1>9 DEF Positions, Free, DeleteContext, Goto
  <2>2. client[x].writes = 0 /\ \A u \in Workers : ctx[u] = x => u = w
    BY <2>1, NoReference
  <2>3. /\ \A u \in Workers \ {w} : pc'[u] = pc[u] /\ ctx'[u] = ctx[u]
        /\ pc'[w] = "idle"
    BY <1>9 DEF TypeOK, WorkersTyped, DeleteContext, Goto
  <2>4. client' = [client EXCEPT ![x] = Freed(@)]
    BY <1>9, <2>1 DEF DeleteContext
  <2>5. client'[x].writes = 0 /\ \A c \in Contexts \ {x} : client'[c] = client[c]
    BY <1>1, <2>2, <2>4 DEF TypeOK, Context, Freed
  <2>6. \A u \in Workers : ~Serves(u, x)'
    BY <2>1, <2>2, <2>3 DEF Serves
  <2>7. \A u \in Workers, c \in Contexts : Serves(u, c)' => Serves(u, c) /\ pc'[u] = pc[u]
    BY <2>3 DEF Serves
  <2> QED BY <2>5, <2>6, <2>7 DEF Writing
<1>10. ASSUME NEW w \in Workers, PostClientIoRead(w, "firstRead") \/ PostClientIoRead(w, "nextRead")
       PROVE  Elsewhere(w)
  <2>1. ctx[w] \in Contexts
    BY <1>10 DEF Positions, Free, PostClientIoRead
  <2>2. client' = client \/ client' = [client EXCEPT ![ctx[w]].reads = @ + 1]
    BY <1>10 DEF PostClientIoRead
  <2>3. \A d \in Contexts : client'[d].reader = client[d].reader /\ client'[d].writes = client[d].writes
    <3>1. CASE client' = client
      BY <3>1
    <3>2. CASE client' = [client EXCEPT ![ctx[w]].reads = @ + 1]
      BY <1>1, <2>1, <3>2 DEF TypeOK, Context
    <3> QED BY <2>2, <3>1, <3>2
  <2>4. \A u \in Workers \ {w} : pc'[u] = pc[u] /\ ctx'[u] = ctx[u]
    BY <1>10 DEF TypeOK, WorkersTyped, PostClientIoRead, Goto, GotoClose
  <2>5. pc'[w] \in {"idle", "close"}
    BY <1>10 DEF TypeOK, WorkersTyped, PostClientIoRead, Goto, GotoClose
  <2> QED BY <2>3, <2>4, <2>5 DEF Elsewhere
<1>11. ASSUME NEW w \in Workers, Count(w) \/ Reject(w) \/ PostNextAccept(w) PROVE Elsewhere(w)
  BY <1>11 DEF TypeOK, WorkersTyped, Count, Reject, PostNextAccept, Repost, Goto, Elsewhere
<1>12. ASSUME NEW w \in Workers, NEW x \in Contexts, AddContext(w, x) PROVE Writing'
  <2>1. client[x].life = "none" /\ client' = [client EXCEPT ![x] = Accepted]
    BY <1>12 DEF AddContext
  <2>2. client'[x].writes = 0 /\ \A c \in Contexts \ {x} : client'[c] = client[c]
    BY <1>1, <2>1 DEF TypeOK, Accepted, NoClient
  <2>3. /\ \A u \in Workers \ {w} : pc'[u] = pc[u] /\ ctx'[u] = ctx[u]
        /\ pc'[w] = "register"
    BY <1>12 DEF TypeOK, WorkersTyped, AddContext
  <2>4. \A u \in Workers : ~Serves(u, x)
    BY <2>1 DEF Serves, Positions, Free, Live
  <2>5. \A u \in Workers, c \in Contexts : Serves(u, c)' => Serves(u, c) /\ pc'[u] = pc[u]
    BY <2>3 DEF Serves
  <2> QED BY <2>2, <2>4, <2>5 DEF Writing
<1>13. ASSUME NEW w \in Workers,
              UpdateCompletionPort(w) \/ NotifyNewConnection(w) \/ NotifyReceivedPackage(w)
       PROVE  Elsewhere(w)
  BY <1>13 DEF TypeOK, WorkersTyped, UpdateCompletionPort, NotifyNewConnection,
       NotifyReceivedPackage,
       Goto, GotoClose, Elsewhere
<1>14. ASSUME NEW w \in Workers, Written(w) \/ SwapBuffer(w) \/ LookAtReader(w) \/ PostClientIoWrite(w)
       PROVE  Writing'
  <2>1. PICK x \in Contexts : x = ctx[w] /\ Serves(w, x)
    BY <1>14 DEF Positions, Free, Written, SwapBuffer, LookAtReader, PostClientIoWrite, Goto,
         GotoClose, Serves
  <2>2. \A u \in Workers \ {w} : pc'[u] = pc[u] /\ ctx'[u] = ctx[u]
    BY <1>14 DEF TypeOK, WorkersTyped, Written, SwapBuffer, LookAtReader, PostClientIoWrite, Goto,
         GotoClose
  <2>3. client[x].writes = 0 /\ client[x] \in Context
    BY <1>1, <2>1 DEF Writing
  <2>4. CASE Written(w)
    <3>1. client' = client /\ client[x].reader /\ pc'[w] \in {"swap", "look"} /\ ctx'[w] = x
      BY <2>1, <2>4 DEF TypeOK, WorkersTyped, Written, Goto
    <3> QED BY <2>1, <2>2, <2>3, <3>1, WorkerWrites DEF Serves
  <2>5. CASE SwapBuffer(w)
    <3>1. pc'[w] = "look" /\ ctx'[w] = x
      BY <2>1, <2>5 DEF TypeOK, WorkersTyped, SwapBuffer, Goto
    <3>2. PICK r, q : client' = [client EXCEPT ![x].reader = r, ![x].queued = q]
      BY <2>1, <2>5 DEF SwapBuffer
    <3>3. client'[x].writes = 0 /\ \A c \in Contexts \ {x} : client'[c] = client[c]
      BY <2>3, <3>2 DEF TypeOK, Context
    <3> QED BY <2>1, <2>2, <3>1, <3>3, WorkerWrites DEF Serves
  <2>6. CASE LookAtReader(w)
    <3>1. client' = client
      BY <2>6 DEF LookAtReader
    <3>2. \/ pc'[w] = "write" /\ ctx'[w] = x /\ client[x].reader
          \/ pc'[w] = "release"
      BY <2>1, <2>6 DEF TypeOK, WorkersTyped, LookAtReader, Goto
    <3> QED BY <2>1, <2>2, <2>3, <3>1, <3>2, WorkerWrites DEF Serves
  <2>7. CASE PostClientIoWrite(w)
    <3>1. pc[w] = "write" /\ client[x].reader
      BY <2>1, <2>7 DEF PostClientIoWrite, Goto, GotoClose, Writing
    <3>2. CASE pc'[w] = "close" /\ client' = client
      BY <2>1, <2>2, <2>3, <3>1, <3>2, WorkerWrites
    <3>3. CASE pc'[w] = "idle" /\ client' = [client EXCEPT ![x].writes = @ + 1]
      <4>1. client'[x] = [client[x] EXCEPT !.writes = @ + 1] /\ \A c \in Contexts \ {x} : client'[c] = client[c]
        BY <3>3 DEF TypeOK
      <4>2. client'[x].writes = 1 /\ client'[x].reader
        BY <2>3, <3>1, <4>1 DEF Context
      <4> QED BY <2>1, <2>2, <3>3, <4>1, <4>2, WorkerWrites
    <3>4. \/ pc'[w] = "close" /\ client' = client
          \/ pc'[w] = "idle" /\ client' = [client EXCEPT ![x].writes = @ + 1]
      BY <2>1, <2>7 DEF TypeOK, WorkersTyped, PostClientIoWrite, Goto, GotoClose
    <3> QED BY <3>2, <3>3, <3>4
  <2> QED BY <1>14, <2>4, <2>5, <2>6, <2>7
<1>15. ASSUME NEW w \in Workers, Fault(w) PROVE Unwritten
  BY <1>15 DEF Fault, workerVars, Unwritten, Serves
<1>16. ASSUME NEW x \in Contexts, Send(x) PROVE Writing'
  <2>1. pc' = pc /\ ctx' = ctx
    BY <1>16 DEF Send, workerVars
  <2>2. \A u \in Workers, c \in Contexts : Serves(u, c)' <=> Serves(u, c)
    BY <2>1 DEF Serves
  <2>3. CASE SendQueued(x)
    <3>1. client' = [client EXCEPT ![x].queued = @ + 1]
      BY <2>3 DEF SendQueued
    <3>2. \A d \in Contexts : client'[d].reader = client[d].reader /\ client'[d].writes = client[d].writes
      BY <1>1, <3>1 DEF TypeOK, Context
    <3>3. Unwritten
      BY <2>1, <2>2, <3>2 DEF Unwritten
    <3> QED BY <3>3, UnwrittenKeeps
  <2>4. CASE SendPosted(x)
    <3>1. ~client[x].reader /\ client' = [client EXCEPT ![x].reader = TRUE, ![x].writes = @ + 1, ![x].pending = @ + 1]
      BY <2>4 DEF SendPosted
    <3>2. client'[x] = [client[x] EXCEPT !.reader = TRUE, !.writes = @ + 1, !.pending = @ + 1]
          /\ \A c \in Contexts \ {x} : client'[c] = client[c]
      BY <3>1 DEF TypeOK
    <3>3. client[x].writes = 0
      BY <1>1, <3>1 DEF Writing
    <3>4. client'[x].writes = 1 /\ client'[x].reader
      BY <1>1, <3>2, <3>3 DEF Context
    <3>5. \A u \in Workers : ~Serves(u, x)
      <4> SUFFICES ASSUME NEW u \in Workers, Serves(u, x) PROVE FALSE
        OBVIOUS
      <4>1. pc[u] = "look" /\ ctx[u] = x
        BY <3>1 DEF Writing, Serves
      <4> QED BY <1>16, <2>4, <4>1 DEF SendsBeside
    <3>6. \A u \in Workers : ~Serves(u, x)'
      BY <2>2, <3>5
    <3>7. ASSUME NEW c \in Contexts
          PROVE  /\ client'[c].writes <= 1
                 /\ client'[c].writes > 0 => client'[c].reader
                 /\ \A v \in Workers : Serves(v, c)' =>
                      /\ client'[c].writes = 0
                      /\ pc'[v] # "look" => client'[c].reader
                      /\ \A u \in Workers : Serves(u, c)' => u = v
      <4>1. CASE c = x
        BY <3>4, <3>6, <4>1
      <4>2. CASE c # x
        BY <2>1, <2>2, <3>2, <4>2 DEF Writing
      <4> QED BY <4>1, <4>2
    <3> QED BY <3>7 DEF Writing
  <2>5. CASE SendFailed(x)
    <3>1. client[x].pending # 0
      BY <1>16 DEF Send, Announced, LastReferenceClosed
    <3>2. client' = [client EXCEPT ![x] = [@ EXCEPT !.reader = TRUE, !.open = FALSE]]
      BY <2>5, <3>1 DEF SendFailed
    <3>3. /\ client'[x].reader /\ client'[x].writes = client[x].writes
          /\ \A c \in Contexts \ {x} : client'[c] = client[c]
      BY <1>1, <3>2 DEF TypeOK, Context
    <3> QED BY <2>1, <2>2, <3>3 DEF Writing
  <2> QED BY <1>16, <2>3, <2>4, <2>5 DEF Send
<1>17. ASSUME NEW a \in Accepts, AcceptCompletes(a) PROVE Unwritten
  BY <1>17 DEF AcceptCompletes, workerVars, Unwritten, Serves
<1>18. ASSUME CloseClients PROVE Unwritten
  <2>1. \A c \in Contexts : client'[c] = [client[c] EXCEPT !.open = FALSE]
    BY <1>18 DEF CloseClients
  <2>2. \A c \in Contexts : client'[c].reader = client[c].reader /\ client'[c].writes = client[c].writes
    BY <1>1, <2>1 DEF Context
  <2> QED BY <1>18, <2>2 DEF CloseClients, workerVars, Unwritten, Serves
<1>19. ASSUME Flag \/ CloseListenSocket \/ Reset \/ \E a \in Accepts : FreeAccept(a)
       PROVE  Unwritten
  BY <1>19 DEF Flag, CloseListenSocket, Reset, FreeAccept, workerVars, Unwritten, Serves
<1>20. ASSUME UNCHANGED vars PROVE Unwritten
  BY <1>20 DEF vars, Unwritten, Serves
<1>21. ASSUME NEW w \in Workers, Take(w) PROVE Writing'
  BY <1>21, <1>2, <1>3, <1>4, <1>5, ElsewhereUnwritten, UnwrittenKeeps DEF Take
<1>22. ASSUME NEW w \in Workers, Handle(w) PROVE Writing'
  BY <1>22, <1>6, <1>7, <1>8, <1>9, <1>10, <1>11, <1>12, <1>13, <1>14, <1>15, ElsewhereUnwritten,
       UnwrittenKeeps DEF Handle
<1> QED BY <1>16, <1>17, <1>18, <1>19, <1>20, <1>21, <1>22, UnwrittenKeeps DEF Next, Shutdown

LEMMA InitWriting == Init => Writing
  BY DEF Init, Writing, Serves, NoClient

LEMMA WritingKept == IInv /\ Writing /\ [Next]_vars /\ [~SendsBeside]_vars => Writing'
<1>1. IInv /\ Writing /\ [Next]_vars /\ ~SendsBeside => Writing'
  BY WritingStep
<1>2. Writing /\ UNCHANGED vars => Writing'
  BY DEF Writing, Serves, vars
<1> QED BY <1>1, <1>2

(* The comment in OnClientIoWrite holds of every behaviour in which no     *)
(* Send posts a write while a worker of that client, its reader taken      *)
(* away, is about to look at it: nothing else makes run iocp_double_write  *)
(* fail.                                                                   *)
THEOREM WritesTakeTurns == Spec /\ [][~SendsBeside]_vars => []OneWritePosted
<1>1. Writing => OneWritePosted
  BY DEF Writing, OneWritePosted
<1> QED BY <1>1, InitIInv, StepIInv, InitWriting, WritingKept, PTL DEF Spec

(* OnClientIoWrite has its BufferReader. *)
ReaderFound == crash # "null reader"
LEMMA ReaderStep ==
  ASSUME IInv, Writing, ReaderFound, [Next]_vars
  PROVE  ReaderFound'
<1>1. ASSUME NEW w \in Workers, Fault(w) PROVE ReaderFound'
  <2>1. ~NullReader(w)
    <3> SUFFICES ASSUME NullReader(w) PROVE FALSE
      OBVIOUS
    <3>1. ctx[w] \in Contexts
      BY DEF NullReader, UsesReader, IInv, Positions, Free
    <3>2. Serves(w, ctx[w]) /\ pc[w] # "look"
      BY DEF NullReader, UsesReader, Serves
    <3> QED BY <3>1, <3>2 DEF NullReader, Writing
  <2> QED BY <1>1, <2>1 DEF Fault, FreedAccept, LostPort, ReaderFound
<1>2. ASSUME NEW w \in Workers, Handle(w), ~Fault(w) PROVE crash' = crash
  BY <1>2 DEF Handle, CloseClient, Disconnected, ExitIOLoop, DeleteContext,
       PostClientIoRead, Count, Reject, PostNextAccept, Repost, AddContext, UpdateCompletionPort,
       NotifyNewConnection, NotifyReceivedPackage, Written, SwapBuffer, LookAtReader,
       PostClientIoWrite, serverVars
<1>3. ASSUME NEW w \in Workers, Take(w) PROVE crash' = crash
  BY <1>3 DEF Take, TakeRead, TakeWrite, TakeAccept, TakeNull, serverVars
<1>4. ASSUME NEW c \in Contexts, Send(c) PROVE crash' = crash
  BY <1>4 DEF Send
<1>5. ASSUME NEW a \in Accepts, AcceptCompletes(a) PROVE crash' = crash
  BY <1>5 DEF AcceptCompletes
<1>6. ASSUME Shutdown PROVE crash' = crash
  BY <1>6 DEF Shutdown, Flag, CloseListenSocket, CloseClients, FreeAccept, Reset
<1>7. CASE UNCHANGED vars
  BY <1>7 DEF ReaderFound, vars
<1> QED BY <1>1, <1>2, <1>3, <1>4, <1>5, <1>6, <1>7 DEF Next, ReaderFound

(* In those behaviours OnClientIoWrite always finds its BufferReader.      *)
THEOREM ReaderStays == Spec /\ [][~SendsBeside]_vars => []ReaderFound
<1>1. Init => ReaderFound
  BY DEF Init, ReaderFound
<1>2. IInv /\ Writing /\ ReaderFound /\ [Next]_vars => ReaderFound'
  BY ReaderStep
<1> QED BY <1>1, <1>2, InitIInv, StepIInv, InitWriting, WritingKept, PTL DEF Spec

(* So a server that is not shut down never ends in one of the modelled     *)
(* faults, whatever clients and workers do, unless a Send posts beside a   *)
(* worker that is about to post the next write.                            *)
Serving == shutdown = "no"
Running == crash = "no"
THEOREM ServesWithoutFault == Spec /\ [][~SendsBeside]_vars /\ []Serving => []Running
<1>1. Crashes /\ ReaderFound /\ Serving => Running
  BY DEF Crashes, ReaderFound, Serving, Running, Exiting, Freeing
<1> QED BY <1>1, ShutdownFaultsOnly, ReaderStays, PTL

-----------------------------------------------------------------------------
(* The send queue has no lost wakeup.  Pushes: the worker handles a        *)
(* completed write of the client, or closes it.                            *)
Pushes(w, c) == ctx[w] = c /\ pc[w] \in {"written", "swap", "look", "write", "close"}
Sends(c) ==
  Live(c) => /\ client[c].queued > 0 => client[c].reader
             /\ Open(c) /\ client[c].reader =>
                  client[c].writes > 0 \/ \E w \in Workers : Pushes(w, c)
Sending == \A c \in Contexts : Sends(c)

(* A step that leaves the client's queue alone. *)
QueueKept(c) ==
  /\ client'[c].life = client[c].life
  /\ client'[c].open => client[c].open
  /\ client'[c].reader = client[c].reader /\ client'[c].queued = client[c].queued
  /\ client'[c].writes = client[c].writes
  /\ client'[c].open => \A u \in Workers : Pushes(u, c) => Pushes(u, c)'

LEMMA QueueKeptSends ==
  ASSUME NEW c \in Contexts, Sends(c), QueueKept(c)
  PROVE  Sends(c)'
BY DEF Sends, QueueKept, Live, Open

(* A step of a worker that pushes no write before it, or closes its client. *)
Aloof(w) ==
  /\ \A u \in Workers \ {w} : pc'[u] = pc[u] /\ ctx'[u] = ctx[u]
  /\ \A c \in Contexts :
       /\ client'[c].life = client[c].life
       /\ client'[c].open => client[c].open
       /\ client'[c].reader = client[c].reader /\ client'[c].queued = client[c].queued
       /\ client'[c].writes = client[c].writes
       /\ Pushes(w, c) => ~client'[c].open

LEMMA AloofSends ==
  ASSUME NEW w \in Workers, Aloof(w), Sending
  PROVE  Sending'
<1> SUFFICES ASSUME NEW c \in Contexts PROVE QueueKept(c)
  BY QueueKeptSends DEF Sending
<1> QED BY DEF Aloof, QueueKept, Pushes

LEMMA SendingStep ==
  ASSUME IInv, Sending, [Next]_vars
  PROVE  Sending'
<1>1. TypeOK /\ Positions /\ \A c \in Contexts : client[c] \in Context
  BY DEF IInv, TypeOK
<1>2. ASSUME NEW w \in Workers, NEW x \in Contexts, TakeRead(w, x) PROVE Sending'
  <2>1. client' = [client EXCEPT ![x].reads = @ - 1]
    BY <1>2 DEF TakeRead
  <2>2. \A c \in Contexts : /\ client'[c].life = client[c].life /\ client'[c].open = client[c].open
                            /\ client'[c].reader = client[c].reader /\ client'[c].queued = client[c].queued
                            /\ client'[c].writes = client[c].writes
    BY <1>1, <2>1 DEF TypeOK, Context
  <2>3. \A c \in Contexts : ~Pushes(w, c)
    BY <1>2 DEF TakeRead, Pushes
  <2>4. \A u \in Workers \ {w} : pc'[u] = pc[u] /\ ctx'[u] = ctx[u]
    BY <1>1, <1>2 DEF TypeOK, WorkersTyped, TakeRead
  <2> QED BY <2>2, <2>3, <2>4, AloofSends DEF Aloof
<1>3. ASSUME NEW w \in Workers, NEW x \in Contexts, TakeWrite(w, x) PROVE Sending'
  <2>1. client' = [client EXCEPT ![x].writes = @ - 1] /\ pc[w] = "idle"
    BY <1>3 DEF TakeWrite
  <2>2. /\ client'[x].life = client[x].life /\ client'[x].open = client[x].open
        /\ client'[x].reader = client[x].reader /\ client'[x].queued = client[x].queued
        /\ \A c \in Contexts \ {x} : client'[c] = client[c]
    BY <1>1, <2>1 DEF TypeOK, Context
  <2>3. /\ \A u \in Workers \ {w} : pc'[u] = pc[u] /\ ctx'[u] = ctx[u]
        /\ Pushes(w, x)'
    BY <1>1, <1>3 DEF TypeOK, WorkersTyped, TakeWrite, Pushes
  <2>4. ASSUME NEW c \in Contexts, c # x PROVE Sends(c)'
    <3>1. QueueKept(c)
      BY <2>1, <2>2, <2>3, <2>4 DEF QueueKept, Pushes
    <3> QED BY <3>1, QueueKeptSends DEF Sending
  <2>5. Sends(x)'
    BY <2>2, <2>3 DEF Sending, Sends, Live, Open
  <2> QED BY <2>4, <2>5 DEF Sending
<1>4. ASSUME NEW w \in Workers, (\E a \in Accepts : TakeAccept(w, a)) \/ TakeNull(w) PROVE Aloof(w)
  <2>1. client' = client /\ pc[w] = "idle"
    BY <1>4 DEF TakeAccept, TakeNull, Goto
  <2>2. \A u \in Workers \ {w} : pc'[u] = pc[u] /\ ctx'[u] = ctx[u]
    BY <1>1, <1>4 DEF TypeOK, WorkersTyped, TakeAccept, TakeNull, Goto
  <2> QED BY <2>1, <2>2 DEF Aloof, Pushes
<1>5. ASSUME NEW w \in Workers, CloseClient(w) PROVE Aloof(w)
  <2>1. ctx[w] \in Contexts /\ client' = [client EXCEPT ![ctx[w]].open = FALSE]
    BY <1>1, <1>5 DEF Positions, Free, CloseClient
  <2>2. ~client'[ctx[w]].open
    BY <1>1, <2>1 DEF TypeOK, Context
  <2>3. \A c \in Contexts : /\ client'[c].life = client[c].life /\ (client'[c].open => client[c].open)
                            /\ client'[c].reader = client[c].reader /\ client'[c].queued = client[c].queued
                            /\ client'[c].writes = client[c].writes
    BY <1>1, <2>1 DEF TypeOK, Context
  <2>4. \A u \in Workers \ {w} : pc'[u] = pc[u] /\ ctx'[u] = ctx[u]
    BY <1>1, <1>5 DEF TypeOK, WorkersTyped, CloseClient
  <2> QED BY <2>2, <2>3, <2>4 DEF Aloof, Pushes
<1>6. ASSUME NEW w \in Workers, Disconnected(w) \/ Count(w) \/ Reject(w) \/ PostNextAccept(w)
      PROVE Aloof(w)
  <2>1. client' = client /\ pc[w] \in {"closed", "accept", "reject", "repost"}
    BY <1>6 DEF Disconnected, Count, Reject, PostNextAccept, Repost, Goto
  <2>2. \A u \in Workers \ {w} : pc'[u] = pc[u] /\ ctx'[u] = ctx[u]
    BY <1>1, <1>6 DEF TypeOK, WorkersTyped, Disconnected, Count, Reject, PostNextAccept, Repost,
         Goto
  <2> QED BY <2>1, <2>2 DEF Aloof, Pushes
<1>7. ASSUME NEW w \in Workers, ExitIOLoop(w) PROVE Aloof(w)
  <2>1. ctx[w] \in Contexts /\ pc[w] = "release" /\ client' = [client EXCEPT ![ctx[w]].pending = @ - 1]
    BY <1>1, <1>7 DEF Positions, Free, ExitIOLoop, Goto
  <2>2. \A c \in Contexts : /\ client'[c].life = client[c].life /\ client'[c].open = client[c].open
                            /\ client'[c].reader = client[c].reader /\ client'[c].queued = client[c].queued
                            /\ client'[c].writes = client[c].writes
    BY <1>1, <2>1 DEF TypeOK, Context
  <2>3. \A u \in Workers \ {w} : pc'[u] = pc[u] /\ ctx'[u] = ctx[u]
    BY <1>1, <1>7 DEF TypeOK, WorkersTyped, ExitIOLoop, Goto
  <2> QED BY <2>1, <2>2, <2>3 DEF Aloof, Pushes
<1>8. ASSUME NEW w \in Workers, DeleteContext(w) PROVE Sending'
  <2>1. PICK x \in Contexts : x = ctx[w] /\ pc[w] = "delete"
    BY <1>1, <1>8 DEF Positions, Free, DeleteContext, Goto
  <2>2. client'[x] = Freed(client[x]) /\ \A c \in Contexts \ {x} : client'[c] = client[c]
    BY <1>1, <1>8, <2>1 DEF TypeOK, DeleteContext
  <2>3. client'[x].life = "freed"
    BY <1>1, <2>2 DEF Context, Freed
  <2>4. \A u \in Workers \ {w} : pc'[u] = pc[u] /\ ctx'[u] = ctx[u]
    BY <1>1, <1>8 DEF TypeOK, WorkersTyped, DeleteContext, Goto
  <2>5. ASSUME NEW c \in Contexts, c # x PROVE Sends(c)'
    <3>1. QueueKept(c)
      BY <2>1, <2>2, <2>4, <2>5 DEF QueueKept, Pushes
    <3> QED BY <3>1, QueueKeptSends DEF Sending
  <2>6. Sends(x)'
    BY <2>3 DEF Sends, Live
  <2> QED BY <2>5, <2>6 DEF Sending
<1>9. ASSUME NEW w \in Workers, NEW here \in {"firstRead", "nextRead"}, PostClientIoRead(w, here)
      PROVE  Aloof(w)
  <2>1. ctx[w] \in Contexts /\ pc[w] = here
    BY <1>1, <1>9 DEF Positions, Free, PostClientIoRead
  <2>2. client' = client \/ client' = [client EXCEPT ![ctx[w]].reads = @ + 1]
    BY <1>9 DEF PostClientIoRead
  <2>3. \A c \in Contexts : /\ client'[c].life = client[c].life /\ client'[c].open = client[c].open
                            /\ client'[c].reader = client[c].reader /\ client'[c].queued = client[c].queued
                            /\ client'[c].writes = client[c].writes
    <3>1. CASE client' = client
      BY <3>1
    <3>2. CASE client' = [client EXCEPT ![ctx[w]].reads = @ + 1]
      BY <1>1, <2>1, <3>2 DEF TypeOK, Context
    <3> QED BY <2>2, <3>1, <3>2
  <2>4. \A u \in Workers \ {w} : pc'[u] = pc[u] /\ ctx'[u] = ctx[u]
    BY <1>1, <1>9 DEF TypeOK, WorkersTyped, PostClientIoRead, Goto, GotoClose
  <2> QED BY <2>1, <2>3, <2>4 DEF Aloof, Pushes
<1>10. ASSUME NEW w \in Workers, NEW x \in Contexts, AddContext(w, x) PROVE Sending'
  <2>1. client'[x] = Accepted /\ \A c \in Contexts \ {x} : client'[c] = client[c]
    BY <1>1, <1>10 DEF TypeOK, AddContext
  <2>2. pc[w] = "allocate" /\ \A u \in Workers \ {w} : pc'[u] = pc[u] /\ ctx'[u] = ctx[u]
    BY <1>1, <1>10 DEF TypeOK, WorkersTyped, AddContext
  <2>3. ASSUME NEW c \in Contexts, c # x PROVE Sends(c)'
    <3>1. QueueKept(c)
      BY <2>1, <2>2, <2>3 DEF QueueKept, Pushes
    <3> QED BY <3>1, QueueKeptSends DEF Sending
  <2>4. Sends(x)'
    BY <2>1 DEF Sends, Accepted, NoClient
  <2> QED BY <2>3, <2>4 DEF Sending
<1>11. ASSUME NEW w \in Workers,
              UpdateCompletionPort(w) \/ NotifyNewConnection(w) \/ NotifyReceivedPackage(w)
       PROVE  Aloof(w)
  <2>1. client' = client /\ pc[w] \in {"register", "announce", "received"}
    BY <1>11 DEF UpdateCompletionPort, NotifyNewConnection, NotifyReceivedPackage, Goto, GotoClose
  <2>2. \A u \in Workers \ {w} : pc'[u] = pc[u] /\ ctx'[u] = ctx[u]
    BY <1>1, <1>11 DEF TypeOK, WorkersTyped, UpdateCompletionPort, NotifyNewConnection,
         NotifyReceivedPackage, Goto, GotoClose
  <2> QED BY <2>1, <2>2 DEF Aloof, Pushes
<1>12. ASSUME NEW w \in Workers, Written(w) \/ SwapBuffer(w) \/ LookAtReader(w) \/ PostClientIoWrite(w)
       PROVE  Sending'
  <2>1. PICK x \in Contexts : x = ctx[w] /\ pc[w] \in {"written", "swap", "look", "write"}
    BY <1>1, <1>12 DEF Positions, Free, Written, SwapBuffer, LookAtReader, PostClientIoWrite, Goto,
         GotoClose
  <2>2. \A u \in Workers \ {w} : pc'[u] = pc[u] /\ ctx'[u] = ctx[u]
    BY <1>1, <1>12 DEF TypeOK, WorkersTyped, Written, SwapBuffer, LookAtReader, PostClientIoWrite,
         Goto, GotoClose
  <2>3. \A c \in Contexts \ {x} : client'[c] = client[c]
    BY <1>1, <1>12, <2>1 DEF TypeOK, Written, SwapBuffer, LookAtReader, PostClientIoWrite
  <2>4. ASSUME NEW c \in Contexts, c # x PROVE Sends(c)'
    <3>1. QueueKept(c)
      BY <2>1, <2>2, <2>3, <2>4 DEF QueueKept, Pushes
    <3> QED BY <3>1, QueueKeptSends DEF Sending
  <2>5. Sends(x) /\ client[x] \in Context
    BY <1>1 DEF Sending
  <2>6. CASE Written(w)
    <3>1. client' = client /\ Pushes(w, x)'
      BY <1>1, <2>1, <2>6 DEF TypeOK, WorkersTyped, Written, Goto, Pushes
    <3>2. Sends(x)'
      BY <2>5, <3>1 DEF Sends, Live, Open
    <3> QED BY <2>4, <3>2 DEF Sending
  <2>7. CASE SwapBuffer(w)
    <3>1. Pushes(w, x)'
      BY <1>1, <2>1, <2>7 DEF TypeOK, WorkersTyped, SwapBuffer, Goto, Pushes
    <3>2. client'[x] = [client[x] EXCEPT !.reader = client[x].queued > 0,
                                         !.queued = IF @ > 0 THEN @ - 1 ELSE 0]
      BY <1>1, <2>1, <2>7 DEF TypeOK, SwapBuffer
    <3>3. client[x].queued \in Nat
      BY <2>5 DEF Context
    <3>4. client'[x].queued > 0 => client[x].queued > 0
      BY <2>5, <3>2, <3>3 DEF Context
    <3>5. client'[x].reader = (client[x].queued > 0)
      BY <2>5, <3>2 DEF Context
    <3>6. client'[x].queued > 0 => client'[x].reader
      BY <3>4, <3>5, Zenon
    <3>7. Sends(x)'
      BY <3>1, <3>6 DEF Sends
    <3> QED BY <2>4, <3>7 DEF Sending
  <2>8. CASE LookAtReader(w)
    <3>1. client' = client /\ (client[x].reader => Pushes(w, x)')
      BY <1>1, <2>1, <2>8 DEF TypeOK, WorkersTyped, LookAtReader, Goto, Pushes
    <3>2. Sends(x)'
      BY <2>5, <3>1 DEF Sends, Live, Open
    <3> QED BY <2>4, <3>2 DEF Sending
  <2>9. CASE PostClientIoWrite(w)
    <3>1. CASE GotoClose(w, "write", "release") /\ client' = client
      <4>1. Pushes(w, x)'
        BY <1>1, <2>1, <3>1 DEF TypeOK, WorkersTyped, GotoClose, Pushes
      <4>2. Sends(x)'
        BY <2>5, <3>1, <4>1 DEF Sends, Live, Open
      <4> QED BY <2>4, <4>2 DEF Sending
    <3>2. CASE client' = [client EXCEPT ![ctx[w]].writes = @ + 1]
      <4>1. client'[x] = [client[x] EXCEPT !.writes = @ + 1]
        BY <1>1, <2>1, <3>2 DEF TypeOK
      <4>2. /\ client'[x].life = client[x].life
            /\ client'[x].queued = client[x].queued /\ client'[x].reader = client[x].reader
        BY <2>5, <4>1 DEF Context
      <4>3. client'[x].writes > 0
        BY <2>5, <4>1 DEF Context
      <4>4. Sends(x)'
        BY <2>5, <4>2, <4>3 DEF Sends, Live
      <4> QED BY <2>4, <4>4 DEF Sending
    <3> QED BY <2>9, <3>1, <3>2 DEF PostClientIoWrite
  <2> QED BY <1>12, <2>6, <2>7, <2>8, <2>9
<1>13. ASSUME UNCHANGED <<client, pc, ctx>> PROVE Sending'
  BY <1>13 DEF Sending, Sends, Pushes, Live, Open
<1>14. ASSUME NEW x \in Contexts, Send(x) PROVE Sending'
  <2>1. pc' = pc /\ ctx' = ctx
    BY <1>14 DEF Send, workerVars
  <2>2. Sends(x) /\ client[x] \in Context
    BY <1>1 DEF Sending
  <2>3. ASSUME NEW r, client' = [client EXCEPT ![x] = r], r.life = "live" => r.reader,
               r.life = "live" /\ r.open =>
                 \/ r.writes > 0
                 \/ /\ Live(x) /\ Open(x) /\ client[x].reader
                    /\ r.writes = client[x].writes
        PROVE  Sending'
    <3>1. client'[x] = r /\ \A c \in Contexts \ {x} : client'[c] = client[c]
      BY <1>1, <2>3 DEF TypeOK
    <3>2. ASSUME NEW c \in Contexts, c # x PROVE Sends(c)'
      <4>1. QueueKept(c)
        BY <2>1, <3>1, <3>2 DEF QueueKept, Pushes
      <4> QED BY <4>1, QueueKeptSends DEF Sending
    <3>3. Sends(x)'
      BY <2>1, <2>2, <2>3, <3>1 DEF Sends, Live, Open, Pushes
    <3> QED BY <3>2, <3>3 DEF Sending
  <2>4. CASE SendQueued(x)
    <3> DEFINE r == [client[x] EXCEPT !.queued = @ + 1]
    <3>1. client' = [client EXCEPT ![x] = r] /\ client[x].reader
      BY <2>4 DEF SendQueued
    <3>2. r.life = client[x].life /\ r.open = client[x].open /\ r.reader = client[x].reader /\ r.writes = client[x].writes
      BY <2>2 DEF Context
    <3>3. Live(x) /\ Open(x)
      BY <1>14 DEF Send, Announced
    <3> HIDE DEF r
    <3> QED BY <2>2, <2>3, <3>1, <3>2, <3>3
  <2>5. CASE SendPosted(x)
    <3> DEFINE r == [client[x] EXCEPT !.reader = TRUE, !.writes = @ + 1, !.pending = @ + 1]
    <3>1. client' = [client EXCEPT ![x] = r]
      BY <1>1, <2>5 DEF SendPosted
    <3>2. r.reader
      BY <2>2 DEF Context
    <3>3. r.writes > 0
      BY <2>2 DEF Context
    <3> HIDE DEF r
    <3>4. r.life = "live" => r.reader
      BY <3>2, Zenon
    <3>5. r.life = "live" /\ r.open => r.writes > 0
      BY <3>3, Zenon
    <3> QED BY <2>3, <3>1, <3>4, <3>5, Zenon
  <2>6. CASE SendFailed(x)
    <3> DEFINE r == IF client[x].pending = 0 THEN Freed(client[x])
                    ELSE [client[x] EXCEPT !.reader = TRUE, !.open = FALSE]
    <3>1. client' = [client EXCEPT ![x] = r]
      BY <2>6 DEF SendFailed
    <3>2. (r.life = "live" => r.reader /\ ~r.open)
      BY <2>2 DEF Context, Freed
    <3> HIDE DEF r
    <3> QED BY <2>3, <3>1, <3>2
  <2> QED BY <1>14, <2>4, <2>5, <2>6 DEF Send
<1>15. CASE CloseClients
  <2>1. \A c \in Contexts : client'[c] = [client[c] EXCEPT !.open = FALSE]
    BY <1>15 DEF CloseClients
  <2>2. ASSUME NEW c \in Contexts PROVE Sends(c)'
    <3>1. /\ client'[c].life = client[c].life /\ ~client'[c].open
          /\ client'[c].reader = client[c].reader /\ client'[c].queued = client[c].queued
      BY <1>1, <2>1 DEF Context
    <3> QED BY <3>1 DEF Sending, Sends, Live, Open
  <2> QED BY <2>2 DEF Sending
<1>16. ASSUME NEW w \in Workers, Fault(w) PROVE UNCHANGED <<client, pc, ctx>>
  BY <1>16 DEF Fault, workerVars
<1>17. ASSUME NEW a \in Accepts, AcceptCompletes(a) PROVE UNCHANGED <<client, pc, ctx>>
  BY <1>17 DEF AcceptCompletes, workerVars
<1>18. ASSUME Flag \/ CloseListenSocket \/ Reset \/ \E a \in Accepts : FreeAccept(a)
       PROVE  UNCHANGED <<client, pc, ctx>>
  BY <1>18 DEF Flag, CloseListenSocket, Reset, FreeAccept, workerVars
<1>19. ASSUME UNCHANGED vars PROVE UNCHANGED <<client, pc, ctx>>
  BY <1>19 DEF vars
<1>20. ASSUME NEW w \in Workers, Take(w) PROVE Sending'
  BY <1>20, <1>2, <1>3, <1>4, AloofSends DEF Take
<1>21. ASSUME NEW w \in Workers, Handle(w) PROVE Sending'
  BY <1>21, <1>5, <1>6, <1>7, <1>8, <1>9, <1>10, <1>11, <1>12, <1>13, <1>16, AloofSends DEF Handle
<1> QED BY <1>13, <1>14, <1>15, <1>17, <1>18, <1>19, <1>20, <1>21 DEF Next, Shutdown

(* Whatever is waiting to be sent to an open client, a write is posted, or *)
(* a worker handles one and has not yet decided to stop, or the client is  *)
(* being closed: no Send leaves its buffer in the queue after the last     *)
(* write has been handled, however the two interleave.                     *)
THEOREM QueueIsServed == Spec => []Sending
<1>1. Init => Sending
  BY DEF Init, Sending, Sends, Live, NoClient
<1> QED BY <1>1, InitIInv, StepIInv, SendingStep, PTL DEF Spec

-----------------------------------------------------------------------------
(* An accept operation is handled by at most one worker, and nobody else   *)
(* has it meanwhile: it is neither posted nor completed.                   *)
HandlesAccept == {"accept", "reject", "repost"}
AcceptHeldByOne ==
  \A w \in Workers : io[w] \in Accepts =>
    /\ pc[w] \in HandlesAccept
    /\ acceptIo[io[w]] \in {"taken", "freed"}
    /\ \A u \in Workers : io[u] = io[w] => u = w

(* What the steps do with the operations: a worker takes one, a worker     *)
(* gives one back or loses it, or none changes hands.                      *)
Holds(w, a) ==
  /\ acceptIo[a] = "completed" /\ acceptIo' = [acceptIo EXCEPT ![a] = "taken"]
  /\ pc[w] = "idle" /\ pc' = [pc EXCEPT ![w] = "accept"]
  /\ io' = [io EXCEPT ![w] = a]

GivesBack(w) ==
  /\ pc[w] \in {"reject", "repost"}
  /\ pc' = [pc EXCEPT ![w] = IF pc[w] = "reject" THEN "idle" ELSE "allocate"]
  /\ io' = [io EXCEPT ![w] = NoAccept]
  /\ acceptIo[io[w]] # "freed"
  /\ CreateAcceptSocket(io[w])

Onward == {<<"posted", "completed">>, <<"completed", "taken">>,
           <<"completed", "freed">>, <<"taken", "freed">>}
Keeps ==
  /\ io' = io
  /\ \A u \in Workers : \/ pc'[u] = pc[u] \/ {pc[u], pc'[u]} \subseteq HandlesAccept
                        \/ pc[u] \notin HandlesAccept /\ pc'[u] \notin HandlesAccept
  /\ \A u \in Workers : pc'[u] = "allocate" => pc[u] = "allocate"
  /\ \A a \in Accepts : acceptIo'[a] = acceptIo[a] \/ <<acceptIo[a], acceptIo'[a]>> \in Onward

LEMMA AcceptKinds ==
  ASSUME TypeOK, [Next]_vars
  PROVE  \/ Keeps
         \/ \E w \in Workers : GivesBack(w) \/ \E a \in Accepts : Holds(w, a)
<1>0. ASSUME \A u \in Workers : pc'[u] = pc[u], io' = io, acceptIo' = acceptIo PROVE Keeps
  BY <1>0 DEF Keeps
<1>1. ASSUME NEW w \in Workers, NEW c \in Contexts, TakeRead(w, c) \/ TakeWrite(w, c) PROVE Keeps
  BY <1>1 DEF TypeOK, WorkersTyped, TakeRead, TakeWrite, serverVars, Keeps, HandlesAccept
<1>2. ASSUME NEW w \in Workers, NEW a \in Accepts, TakeAccept(w, a) PROVE Keeps \/ Holds(w, a)
  <2>1. \A b \in Accepts : acceptIo'[b] = acceptIo[b] \/ <<acceptIo[b], acceptIo'[b]>> \in Onward
    BY <1>2 DEF TypeOK, TakeAccept, Onward
  <2>2. CASE shutdown # "no"
    BY <1>2, <2>1, <2>2 DEF TakeAccept, Keeps
  <2>3. CASE shutdown = "no"
    BY <1>2, <2>3 DEF TakeAccept, Holds
  <2> QED BY <2>2, <2>3
<1>3. ASSUME NEW w \in Workers, TakeNull(w) PROVE Keeps
  BY <1>3 DEF TypeOK, WorkersTyped, TakeNull, Goto, serverVars, Keeps, HandlesAccept
<1>4. ASSUME NEW w \in Workers, Reject(w) \/ PostNextAccept(w) PROVE GivesBack(w)
  BY <1>4 DEF Reject, PostNextAccept, Repost, GivesBack
<1>5. ASSUME NEW w \in Workers, Count(w) PROVE Keeps
  BY <1>5 DEF TypeOK, WorkersTyped, Count, Goto, Keeps, HandlesAccept
<1>6. ASSUME NEW w \in Workers, CloseClient(w) \/ Disconnected(w) PROVE Keeps
  BY <1>6 DEF TypeOK, WorkersTyped, CloseClient, Disconnected, serverVars, Keeps, HandlesAccept
<1>7. ASSUME NEW w \in Workers, ExitIOLoop(w) \/ DeleteContext(w) PROVE Keeps
  BY <1>7 DEF TypeOK, WorkersTyped, ExitIOLoop, DeleteContext, Goto, serverVars, Keeps,
       HandlesAccept
<1>8. ASSUME NEW w \in Workers,
             PostClientIoRead(w, "firstRead") \/ PostClientIoRead(w, "nextRead")
      PROVE  Keeps
  BY <1>8 DEF TypeOK, WorkersTyped, PostClientIoRead, Goto, GotoClose, Keeps, HandlesAccept
<1>9. ASSUME NEW w \in Workers, NEW c \in Contexts, AddContext(w, c) PROVE Keeps
  BY <1>9 DEF TypeOK, WorkersTyped, AddContext, serverVars, Keeps, HandlesAccept
<1>10. ASSUME NEW w \in Workers,
              UpdateCompletionPort(w) \/ NotifyNewConnection(w) \/ NotifyReceivedPackage(w)
       PROVE  Keeps
  BY <1>10 DEF TypeOK, WorkersTyped, UpdateCompletionPort, NotifyNewConnection,
       NotifyReceivedPackage, Goto, GotoClose, serverVars, Keeps, HandlesAccept
<1>11. ASSUME NEW w \in Workers,
              Written(w) \/ SwapBuffer(w) \/ LookAtReader(w) \/ PostClientIoWrite(w)
       PROVE  Keeps
  BY <1>11 DEF TypeOK, WorkersTyped, Written, SwapBuffer, LookAtReader, PostClientIoWrite, Goto,
       GotoClose, serverVars, Keeps, HandlesAccept
<1>12. ASSUME NEW w \in Workers, Fault(w) PROVE Keeps
  BY <1>0, <1>12 DEF Fault, workerVars
<1>13. ASSUME NEW w \in Workers, Take(w) \/ Handle(w)
       PROVE  Keeps \/ GivesBack(w) \/ \E a \in Accepts : Holds(w, a)
  BY <1>1, <1>2, <1>3, <1>4, <1>5, <1>6, <1>7, <1>8, <1>9, <1>10, <1>11, <1>12, <1>13
     DEF Take, Handle
<1>14. ASSUME NEW c \in Contexts, Send(c) PROVE Keeps
  BY <1>0, <1>14 DEF Send, workerVars
<1>15. ASSUME NEW a \in Accepts, AcceptCompletes(a) PROVE Keeps
  BY <1>15 DEF TypeOK, AcceptCompletes, workerVars, Keeps, Onward
<1>16. ASSUME Shutdown PROVE Keeps
  <2>1. CASE Flag \/ CloseClients \/ Reset
    BY <1>0, <2>1 DEF Flag, CloseClients, Reset, workerVars
  <2>2. CASE CloseListenSocket
    BY <2>2 DEF TypeOK, CloseListenSocket, workerVars, Keeps, Onward
  <2>3. ASSUME NEW a \in Accepts, FreeAccept(a) PROVE Keeps
    BY <2>3 DEF TypeOK, FreeAccept, workerVars, Keeps, Onward
  <2> QED BY <1>16, <2>1, <2>2, <2>3 DEF Shutdown
<1>17. CASE UNCHANGED vars
  BY <1>0, <1>17 DEF vars
<1> QED BY <1>13, <1>14, <1>15, <1>16, <1>17 DEF Next

LEMMA HeldStep ==
  ASSUME TypeOK, AcceptsKept, AcceptHeldByOne, [Next]_vars
  PROVE  AcceptHeldByOne'
<1>1. CASE Keeps
  <2> SUFFICES ASSUME NEW w \in Workers, io'[w] \in Accepts
               PROVE  /\ pc'[w] \in HandlesAccept
                      /\ acceptIo'[io'[w]] \in {"taken", "freed"}
                      /\ \A u \in Workers : io'[u] = io'[w] => u = w
    BY DEF AcceptHeldByOne
  <2>1. io' = io
    BY <1>1 DEF Keeps
  <2>2. pc'[w] \in HandlesAccept
    BY <1>1, <2>1 DEF Keeps, AcceptHeldByOne
  <2>3. acceptIo'[io[w]] \in {"taken", "freed"}
    BY <1>1, <2>1 DEF Keeps, AcceptHeldByOne, Onward
  <2> QED BY <2>1, <2>2, <2>3 DEF AcceptHeldByOne
<1>2. ASSUME NEW w \in Workers, GivesBack(w) PROVE AcceptHeldByOne'
  <2>1. io[w] \in Accepts
    BY <1>2 DEF GivesBack, AcceptsKept
  <2>2. \A u \in Workers \ {w} : pc'[u] = pc[u] /\ io'[u] = io[u]
    BY <1>2 DEF TypeOK, WorkersTyped, GivesBack
  <2>3. io'[w] \notin Accepts
    BY <1>2, SetsAssumption DEF TypeOK, WorkersTyped, GivesBack
  <2>4. \A a \in Accepts \ {io[w]} : acceptIo'[a] = acceptIo[a]
    BY <1>2 DEF TypeOK, GivesBack, CreateAcceptSocket
  <2>5. \A u \in Workers \ {w} : io[u] # io[w]
    BY <2>1 DEF AcceptHeldByOne
  <2> QED BY <2>2, <2>3, <2>4, <2>5 DEF AcceptHeldByOne
<1>3. ASSUME NEW w \in Workers, NEW a \in Accepts, Holds(w, a) PROVE AcceptHeldByOne'
  <2>1. \A u \in Workers \ {w} : pc'[u] = pc[u] /\ io'[u] = io[u]
    BY <1>3 DEF TypeOK, WorkersTyped, Holds
  <2>2. pc'[w] = "accept" /\ io'[w] = a
    BY <1>3 DEF TypeOK, WorkersTyped, Holds
  <2>3. acceptIo'[a] = "taken" /\ \A b \in Accepts \ {a} : acceptIo'[b] = acceptIo[b]
    BY <1>3 DEF TypeOK, Holds
  <2>4. \A u \in Workers : io[u] # a
    BY <1>3 DEF Holds, AcceptHeldByOne
  <2> QED BY <2>1, <2>2, <2>3, <2>4 DEF AcceptHeldByOne, HandlesAccept
<1> QED BY <1>1, <1>2, <1>3, AcceptKinds

(* No two workers handle the same accept, with or without a Shutdown that  *)
(* runs beside them: none is posted twice at once, and none is taken from  *)
(* the port while a worker still handles it.                               *)
THEOREM AcceptsTakeTurns == Spec => []AcceptHeldByOne
<1>1. Init => AcceptHeldByOne /\ AcceptsKept
  BY SetsAssumption DEF Init, AcceptHeldByOne, AcceptsKept
<1>2. IInv /\ AcceptsKept /\ [Next]_vars => AcceptsKept'
  BY AcceptsStep DEF IInv
<1>3. IInv /\ AcceptsKept /\ AcceptHeldByOne /\ [Next]_vars => AcceptHeldByOne'
  BY HeldStep DEF IInv
<1> QED BY <1>1, <1>2, <1>3, Inductive, PTL DEF Spec

(* An operation that was taken, and that nobody handles any more.          *)
Lost(a) == acceptIo[a] \in {"taken", "freed"} /\ \A w \in Workers : io[w] # a

LEMMA LostStays ==
  ASSUME TypeOK, AcceptsKept, [Next]_vars, NEW a \in Accepts, Lost(a)
  PROVE  Lost(a)'
<1>1. CASE Keeps
  BY <1>1 DEF Keeps, Lost, Onward
<1>2. ASSUME NEW w \in Workers, GivesBack(w) PROVE Lost(a)'
  <2>1. io[w] \in Accepts \ {a}
    BY <1>2 DEF GivesBack, AcceptsKept, Lost
  <2>2. acceptIo'[a] = acceptIo[a]
    BY <1>2, <2>1 DEF TypeOK, GivesBack, CreateAcceptSocket
  <2>3. \A u \in Workers : io'[u] # a
    BY <1>2, SetsAssumption DEF TypeOK, WorkersTyped, GivesBack, Lost
  <2> QED BY <2>2, <2>3 DEF Lost
<1>3. ASSUME NEW w \in Workers, NEW b \in Accepts, Holds(w, b) PROVE Lost(a)'
  <2>1. a # b
    BY <1>3 DEF Holds, Lost
  <2>2. acceptIo'[a] = acceptIo[a]
    BY <1>3, <2>1 DEF TypeOK, Holds
  <2>3. \A u \in Workers : io'[u] # a
    BY <1>3, <2>1 DEF TypeOK, WorkersTyped, Holds, Lost
  <2> QED BY <2>2, <2>3 DEF Lost
<1> QED BY <1>1, <1>2, <1>3, AcceptKinds

(* Once every operation is lost and no worker is about to make a context,  *)
(* no client is accepted any more.                                         *)
Deaf == (\A a \in Accepts : Lost(a)) /\ (\A w \in Workers : pc[w] # "allocate")
AcceptsNobody == \A c \in Contexts : client[c].life = "none" => client'[c].life = "none"

LEMMA DeafStays ==
  ASSUME TypeOK, AcceptsKept, [Next]_vars, Deaf
  PROVE  Deaf'
<1>1. \A a \in Accepts : Lost(a)'
  BY LostStays DEF Deaf
<1>2. CASE Keeps
  BY <1>1, <1>2 DEF Keeps, Deaf
<1>3. ASSUME NEW w \in Workers, GivesBack(w) PROVE FALSE
  <2>1. io[w] \in Accepts
    BY <1>3 DEF GivesBack, AcceptsKept
  <2> QED BY <2>1 DEF Deaf, Lost
<1>4. ASSUME NEW w \in Workers, NEW b \in Accepts, Holds(w, b) PROVE FALSE
  BY <1>4 DEF Holds, Deaf, Lost
<1> QED BY <1>2, <1>3, <1>4, AcceptKinds

LEMMA DeafAcceptsNobody ==
  ASSUME IInv, [Next]_vars, Deaf
  PROVE  AcceptsNobody
<1> SUFFICES ASSUME NEW c \in Contexts, client[c].life = "none"
             PROVE  client'[c].life = "none"
  BY DEF AcceptsNobody
<1>1. Kinds
  BY StepKinds DEF IInv
<1>2. CASE Aside
  BY <1>2 DEF Aside
<1>3. CASE Still /\ \A d \in Contexts : Same(d)
  BY <1>3 DEF Same
<1>4. ASSUME NEW w \in Workers, Walk(w) \/ Shut(w) \/ HandOver(w) \/ Leak(w) \/ GiveUp(w)
      PROVE  client'[c].life = "none"
  <2>1. client'[c].life = client[c].life
    BY <1>4 DEF Walk, Shut, HandOver, Leak, GiveUp, OtherClients, Same
  <2> QED BY <2>1
<1>5. ASSUME NEW w \in Workers, Remove(w) PROVE client'[c].life = "none"
  <2>1. ctx[w] # c
    BY <1>5 DEF Remove, IInv, Positions, Free, Live
  <2> QED BY <1>5, <2>1 DEF Remove, OtherClients, Same
<1>6. ASSUME NEW w \in Workers, NEW d \in Contexts, Pick(w, d) PROVE client'[c].life = "none"
  BY <1>6 DEF Pick, OtherClients, Same
<1>7. ASSUME NEW w \in Workers, NEW d \in Contexts, Enter(w, d) PROVE FALSE
  BY <1>7 DEF Enter, Deaf
<1>8. ASSUME NEW d \in Contexts, Write(d) PROVE client'[c].life = "none"
  BY <1>8 DEF Write, OtherClients, Same, Live
<1>9. ASSUME NEW S \in SUBSET Contexts, ShutOutside(S) PROVE client'[c].life = "none"
  BY <1>9 DEF ShutOutside, Same
<1> QED BY <1>1, <1>2, <1>3, <1>4, <1>5, <1>6, <1>7, <1>8, <1>9 DEF Kinds

(* CreateAcceptSocket's result is ignored: an operation whose socket could *)
(* not be made is posted by nobody, ever; and a server that has lost all   *)
(* of them accepts no further client, though it runs on.                   *)
THEOREM LostAcceptsStayLost ==
  Spec => [][/\ \A a \in Accepts : Lost(a) => Lost(a)'
             /\ Deaf => Deaf' /\ AcceptsNobody]_vars
<1>1. Init => AcceptsKept
  BY DEF Init, AcceptsKept
<1>2. IInv /\ AcceptsKept /\ [Next]_vars => AcceptsKept'
  BY AcceptsStep DEF IInv
<1>3. IInv /\ AcceptsKept /\ [Next]_vars
      => [/\ \A a \in Accepts : Lost(a) => Lost(a)'
          /\ Deaf => Deaf' /\ AcceptsNobody]_vars
  BY LostStays, DeafStays, DeafAcceptsNobody DEF IInv
<1> QED BY <1>1, <1>2, <1>3, Inductive, PTL DEF Spec
=============================================================================
