------------------------ MODULE ProtocolServer_proofs ------------------------
(***************************************************************************)
(* The text and the package server are CBaseIOCPServers: their callbacks   *)
(* narrow what the base server may do and never add to it.  So what is     *)
(* proved of IocpServer holds with them, up to the undefined behaviour     *)
(* they have themselves, for any number of workers, clients and accepts.   *)
(* On that stands an invariant of their objects: who may hold which        *)
(* reference while a client arrives, is received from and is closed; and   *)
(* who erases one, which settles what can stop the two servers, and when.  *)
(***************************************************************************)
EXTENDS ProtocolServer, IocpServer_proofs

(* Undefined behaviour in a derived class stops the program. *)
Stops ==
  /\ crash' \in {"deleted object", "short package"}
  /\ UNCHANGED <<client, workerVars, acceptIo, count, leaked, shutdown>>

LEMMA TakeRefines ==
  ASSUME NEW w \in Workers, ProtocolTake(w)
  PROVE  Take(w)
  BY DEF ProtocolTake, TakeReceived, Take

(* The steps of the callbacks are steps of the worker that calls them, or  *)
(* leave the base server alone.                                            *)
LEMMA HandleRefines ==
  ASSUME NEW w \in Workers, ProtocolHandle(w)
  PROVE  Handle(w) \/ Take(w) \/ UNCHANGED vars
<1>1. CASE NewObject(w) \/ GetObject(w) \/ UseObject(w) \/ UseAgain(w) \/ ReleaseObject(w)
  BY <1>1 DEF NewObject, GetObject, UseObject, UseAgain, ReleaseObject, Handle
<1>2. CASE EraseReleased(w) \/ NothingReceived(w)
  BY <1>2 DEF EraseReleased, NothingReceived, Handle
<1>3. CASE Close(w) \/ ReadOn(w)
  BY <1>3 DEF Close, ReadOn, Handle
<1>4. CASE Unlocked(w)
  BY <1>4 DEF Unlocked, Handle, Take
<1>5. CASE BareCallback(w) \/ Untouched(w)
  BY <1>5 DEF BareCallback, Untouched, Handle
<1> QED BY <1>1, <1>2, <1>3, <1>4, <1>5 DEF ProtocolHandle

LEMMA AdvanceRefines ==
  ASSUME NEW a \in Agents, Advance(a)
  PROVE  (\E w \in Workers : Handle(w) \/ Take(w)) \/ UNCHANGED vars \/ ProtocolFault(a)
<1>1. CASE a \in Workers /\ ProtocolHandle(a)
  BY <1>1, HandleRefines
<1>2. CASE Disconnecting(a)
  BY <1>2 DEF Disconnecting, FindObject, ReleaseFound, EraseFound, DelContext
<1> QED BY <1>1, <1>2 DEF Advance

LEMMA ProtocolSteps ==
  ASSUME [ProtocolNext]_allVars
  PROVE  [Next]_vars \/ (crash = "no" /\ \E a \in Agents : ProtocolFault(a))
<1>1. CASE UNCHANGED allVars
  BY <1>1 DEF allVars
<1>2. CASE ProtocolNext
  <2>0. crash = "no"
    BY <1>2 DEF ProtocolNext
  <2>1. ASSUME NEW w \in Workers, ProtocolTake(w) PROVE Next
    BY <2>0, <2>1, TakeRefines DEF Next
  <2>2. ASSUME NEW a \in Agents, Advance(a) PROVE [Next]_vars \/ ProtocolFault(a)
    BY <2>0, <2>2, AdvanceRefines DEF Next
  <2>3. ASSUME NEW c \in Contexts, SendTo(c) PROVE Next
    BY <2>0, <2>3 DEF SendTo, Next
  <2>4. CASE CloseAll \/ Flag \/ CloseListenSocket \/ Reset
    BY <2>0, <2>4 DEF CloseAll, Shutdown, Next
  <2>5. ASSUME NEW a \in Accepts, FreeAccept(a) \/ AcceptCompletes(a) PROVE Next
    BY <2>0, <2>5 DEF Shutdown, Next
  <2> QED BY <1>2, <2>0, <2>1, <2>2, <2>3, <2>4, <2>5 DEF ProtocolNext
<1> QED BY <1>1, <1>2

LEMMA ProtocolRefines ==
  ASSUME [ProtocolNext]_allVars
  PROVE  [Next]_vars \/ Stops
<1>1. ASSUME NEW a \in Agents, ProtocolFault(a) PROVE Stops
  BY <1>1 DEF ProtocolFault, DeletedObject, ShortPackage, Stops
<1> QED BY <1>1, ProtocolSteps

(* No invariant of the base server depends on why the program stopped.     *)
LEMMA StopsKeeps ==
  ASSUME IInv, CountInv, DeadAreClosed, Stops
  PROVE  IInv' /\ CountInv' /\ DeadAreClosed' /\ UNCHANGED Contact
<1>0. /\ client' = client /\ acceptIo' = acceptIo /\ pc' = pc /\ ctx' = ctx /\ io' = io
      /\ next' = next /\ count' = count /\ leaked' = leaked /\ shutdown' = shutdown
  BY DEF Stops, workerVars
<1>1. TypeOK'
  BY <1>0 DEF Stops, IInv, TypeOK, WorkersTyped
<1>2. Positions' /\ NotYet' /\ Deleting' /\ Gone'
  BY <1>0 DEF IInv, Positions, NotYet, Deleting, Gone, Live, Open
<1>3. ReferencesCounted' /\ LastReferenceClosed'
  BY <1>0 DEF IInv, ReferencesCounted, LastReferenceClosed, Holders, Live, Open
<1>4. Attended' /\ Reading'
  BY <1>0 DEF IInv, Attended, Reading, HasRead, Live, Open
<1>5. CountInv' /\ DeadAreClosed'
  BY <1>0 DEF CountInv, DeadAreClosed, OpenOnes, Between, Admitted, Open
<1>6. UNCHANGED Contact
  BY <1>0 DEF Contact, Arriving, Receiving, Within, Open
<1> QED BY <1>1, <1>2, <1>3, <1>4, <1>5, <1>6 DEF IInv

LEMMA BaseInvariant ==
  ProtocolSpec => []IInv /\ []CountInv /\ []DeadAreClosed /\ [][Callbacks!Next]_Contact
<1>1. ProtocolInit => IInv /\ CountInv /\ DeadAreClosed
  BY InitIInv, InitCount, InitCallbacks DEF ProtocolInit
<1>2. IInv /\ CountInv /\ DeadAreClosed /\ [ProtocolNext]_allVars
      => IInv' /\ CountInv' /\ DeadAreClosed' /\ [Callbacks!Next]_Contact
  <2> SUFFICES ASSUME IInv, CountInv, DeadAreClosed, [ProtocolNext]_allVars
               PROVE  IInv' /\ CountInv' /\ DeadAreClosed' /\ [Callbacks!Next]_Contact
    OBVIOUS
  <2>1. CASE [Next]_vars
    <3>1. IInv' /\ CountInv'
      BY <2>1, StepIInv, CountStep DEF IInv
    <3>2. [Callbacks!Next]_Contact
      BY <2>1, CallbacksStep
    <3> QED BY <3>1, <3>2, DeadStep
  <2>2. CASE Stops
    BY <2>2, StopsKeeps
  <2> QED BY <2>1, <2>2, ProtocolRefines
<1> QED BY <1>1, <1>2, PTL DEF ProtocolSpec

-----------------------------------------------------------------------------
(* With the callbacks of the text and the package server, whichever of     *)
(* them close their client, m_NumberOfPendingIO still counts exactly the   *)
(* posted operations and the workers that handle one.                      *)
THEOREM ProtocolReferences == ProtocolSpec => []ReferencesCounted
<1>1. IInv => ReferencesCounted
  BY DEF IInv
<1> QED BY <1>1, BaseInvariant, PTL

(* Nor does a callback ever run on a PER_SOCKET_CONTEXT that is deleted.   *)
THEOREM ProtocolUse == ProtocolSpec => []NoUseAfterFree
<1> QED BY UsesNothingFreed, BaseInvariant, PTL

(* Both servers keep the order of callbacks the base server promises them, *)
(* although the callbacks take several steps and close clients.            *)
THEOREM ProtocolCallbacks == ProtocolSpec => ImplementsCallbacks
<1>1. ProtocolInit => Callbacks!Init
  BY InitCallbacks DEF ProtocolInit
<1> QED BY <1>1, BaseInvariant, PTL DEF ProtocolSpec, ImplementsCallbacks, Callbacks!Spec
-----------------------------------------------------------------------------
(* The objects of the two servers.                                         *)

(* A worker in NotifyReceivedPackage or on its way to the next read. *)
InReceipt(w) ==
  \/ pc[w] \in {"received", "nextRead"}
  \/ pc[w] \in {"close", "closed"} /\ next[w] = "nextRead"

(* Who is where in the callbacks. *)
Places ==
  /\ \A w \in Workers :
       /\ receive[w] # "no" => protocol # "base" /\ InReceipt(w)
       /\ leave[w] # "no" => pc[w] = "closed"
       /\ protocol # "base" /\ pc[w] \in {"close", "closed"} => next[w] # "firstRead"
  /\ \A c \in Contexts : leave[c] # "no" => Live(c)
  /\ \A a \in Agents :
       /\ leave[a] # "no" => protocol # "base" /\ ~Open(Client(a))
       /\ leave[a] \in {"found", "erase"} => protocol = "text"

(* A client is closed, and NotifyDisconnectedClient called, once. *)
OneLeaver ==
  \A a, b \in Agents :
    leave[a] # "no" /\ leave[b] # "no" /\ Client(a) = Client(b) => a = b

(* NotifyNewConnection has yet to run. *)
Entering(w, c) == ctx[w] = c /\ pc[w] \in {"register", "announce"}
Expected(c) == client[c].life = "none" \/ \E w \in Workers : Entering(w, c)

(* Shutdown closed the client before NotifyNewConnection entered its       *)
(* object: nobody will disconnect it again, and its context is leaked.     *)
Missed(c) == c \in leaked \/ \E w \in Workers : ctx[w] = c /\ pc[w] = "firstRead"

(* Who is busy with a client's object. *)
Seeking(c) == \E a \in Agents : Client(a) = c /\ leave[a] \in {"find", "found"}
Erasing(c) == \E a \in Agents : Client(a) = c /\ leave[a] = "erase"
Using(c) == \E w \in Workers : ctx[w] = c /\ receive[w] \in {"using", "again"}
Dropping(c) == \E w \in Workers : ctx[w] = c /\ receive[w] = "erase"

(* The text server: the map has a reference until NotifyDisconnectedClient *)
(* has given it up, a receiver has one; who has taken the last one erases  *)
(* the object, and only until then it can be fetched again.                *)
Kept(c) == Open(c) \/ Seeking(c)
Use(c) == IF Using(c) THEN 1 ELSE 0

TextObject(c) ==
  /\ object[c] # "none" =>
       \/ refs[c] = Use(c) + 1 /\ (Kept(c) \/ Missed(c))
       \/ refs[c] = Use(c) /\ ~Kept(c)
  /\ Erasing(c) \/ Dropping(c) \/ object[c] = "deleted" =>
       object[c] # "none" /\ ~Kept(c) /\ (c \notin reborn => refs[c] = 0)
  /\ Alive(c) /\ refs[c] = 0 /\ c \notin reborn => Erasing(c) \/ Dropping(c)
  /\ c \in reborn => object[c] = "deleted" \/ Erasing(c)

(* The package server: the object is there until the client is closed and  *)
(* NotifyDisconnectedClient has run.                                       *)
PackageObject(c) == Alive(c) /\ ~Open(c) => Missed(c) \/ Seeking(c)

Object(c) ==
  /\ entry[c] = "object" <=> Alive(c)
  /\ object[c] = "none" <=> Expected(c)
  /\ client[c].life = "freed" => object[c] = "deleted"
  /\ protocol = "text" => TextObject(c)
  /\ protocol = "package" => PackageObject(c)

ObjectTypes ==
  /\ protocol \in {"base", "text", "package"}
  /\ object \in [Contexts -> {"none", "alive", "deleted"}]
  /\ refs \in [Contexts -> Nat]
  /\ entry \in [Contexts -> {"none", "null", "object"}]
  /\ receive \in [Workers -> {"no", "get", "using", "again", "erase", "done"}]
  /\ leave \in [Agents -> {"no", "find", "found", "erase"}]
  /\ reborn \subseteq Contexts

Objects == protocol # "base" => \A c \in Contexts : Object(c)

ObjectInv == ObjectTypes /\ Places /\ OneLeaver /\ Objects

-----------------------------------------------------------------------------
(* Frames: what a step may leave alone. *)
SameUsers(c) ==
  /\ Seeking(c)' <=> Seeking(c)
  /\ Erasing(c)' <=> Erasing(c)
  /\ Using(c)' <=> Using(c)
  /\ Dropping(c)' <=> Dropping(c)
SameClient(c) ==
  /\ client'[c].life = client[c].life /\ client'[c].open = client[c].open
  /\ ~Open(c) /\ Missed(c) => Missed(c)'
  /\ Expected(c)' <=> Expected(c)
SameObject(c) ==
  /\ object'[c] = object[c] /\ refs'[c] = refs[c]
  /\ entry'[c] = "object" <=> entry[c] = "object"
  /\ c \in reborn' <=> c \in reborn

LEMMA PartsKept ==
  ASSUME NEW c \in Contexts, Object(c), SameUsers(c), SameObject(c), protocol' = protocol,
         Open(c)' = Open(c), ~Open(c) /\ Missed(c) => Missed(c)'
  PROVE  /\ protocol = "text" => TextObject(c)'
         /\ protocol = "package" => PackageObject(c)'
<1>1. Alive(c)' = Alive(c) /\ Use(c)' = Use(c)
  BY DEF SameObject, SameUsers, Alive, Use
<1>2. Kept(c)' <=> Kept(c)
  BY DEF SameUsers, Kept
<1>3. protocol = "text" => TextObject(c)'
  <2> SUFFICES ASSUME TextObject(c) PROVE TextObject(c)'
    BY DEF Object
  <2>1. object[c] # "none" =>
          \/ refs[c] = Use(c) + 1 /\ (Kept(c) \/ Missed(c)')
          \/ refs[c] = Use(c) /\ ~Kept(c)
    BY DEF TextObject, Kept
  <2> QED BY <1>1, <1>2, <2>1 DEF TextObject, SameUsers, SameObject
<1>4. protocol = "package" => PackageObject(c)'
  BY <1>1 DEF Object, PackageObject, SameUsers
<1> QED BY <1>3, <1>4

LEMMA ObjectKept ==
  ASSUME NEW c \in Contexts, Object(c), SameUsers(c), SameClient(c), SameObject(c),
         protocol' = protocol
  PROVE  Object(c)'
<1>1. Open(c)' = Open(c) /\ Alive(c)' = Alive(c)
  BY DEF SameClient, SameObject, Open, Alive
<1>2. (protocol = "text" => TextObject(c)') /\ (protocol = "package" => PackageObject(c)')
  BY <1>1, PartsKept DEF SameClient
<1> QED BY <1>1, <1>2 DEF Object, SameClient, SameObject

(* The callbacks of everybody stay as they are. *)
Steady ==
  /\ protocol' = protocol
  /\ \A u \in Workers : receive'[u] = receive[u] /\ (receive[u] # "no" => ctx'[u] = ctx[u])
  /\ \A a \in Agents : leave'[a] = leave[a] /\ (leave[a] # "no" => Client(a)' = Client(a))

LEMMA SteadyUsers ==
  ASSUME Steady, NEW c \in Contexts
  PROVE  SameUsers(c)
<1>1. Seeking(c)' <=> Seeking(c)
  BY DEF Steady, Seeking
<1>2. Erasing(c)' <=> Erasing(c)
  BY DEF Steady, Erasing
<1>3. Using(c)' <=> Using(c)
  BY DEF Steady, Using
<1>4. Dropping(c)' <=> Dropping(c)
  BY DEF Steady, Dropping
<1> QED BY <1>1, <1>2, <1>3, <1>4 DEF SameUsers

LEMMA SteadyLeaver == OneLeaver /\ Steady => OneLeaver'
  BY DEF Steady, OneLeaver

(* Whoever is in NotifyDisconnectedClient, its client is in the table. *)
LEMMA ClientIs ==
  ASSUME IInv, Places, NEW a \in Agents, leave[a] # "no"
  PROVE  Client(a) \in Contexts /\ Live(Client(a))
<1>1. CASE a \in Workers
  BY <1>1 DEF Places, IInv, Positions, Free, Client
<1>2. CASE a \notin Workers
  BY <1>2 DEF Places, Agents, Client
<1> QED BY <1>1, <1>2

(* One worker at a time receives from a client, and not before it is       *)
(* announced.                                                              *)
LEMMA OnlyReceiver ==
  ASSUME IInv, Places, NEW w \in Workers, InReceipt(w)
  PROVE  /\ ctx[w] \in Contexts /\ Live(ctx[w])
         /\ \A u \in Workers : ctx[u] = ctx[w] /\ InReceipt(u) => u = w
         /\ ~Expected(ctx[w])
<1>1. ctx[w] \in Contexts /\ Live(ctx[w])
  BY DEF InReceipt, IInv, Positions, Free
<1>2. HasRead(w)
  BY DEF InReceipt, HasRead
<1>3. \A u \in Workers : ctx[u] = ctx[w] /\ HasRead(u) => u = w
  BY <1>1, <1>2 DEF IInv, Reading
<1>4. \A u \in Workers : InReceipt(u) => HasRead(u)
  BY DEF InReceipt, HasRead
<1>5. \A u \in Workers : ~Entering(u, ctx[w])
  <2> SUFFICES ASSUME NEW u \in Workers, Entering(u, ctx[w]) PROVE FALSE
    OBVIOUS
  <2>1. HasRead(u) /\ ctx[u] = ctx[w]
    BY DEF Entering, HasRead
  <2>2. u = w
    BY <1>3, <2>1
  <2> QED BY <2>2 DEF Entering, InReceipt
<1> QED BY <1>1, <1>3, <1>4, <1>5 DEF Expected, Live

(* One receiver's place changes. *)
LEMMA ReceiveMoves ==
  ASSUME IInv, ObjectTypes, Places, NEW w \in Workers, receive[w] # "no", NEW there,
         receive' = [receive EXCEPT ![w] = there], leave' = leave, ctx' = ctx,
         NEW c, c = ctx[w]
  PROVE  /\ c \in Contexts /\ Live(c) /\ ~Expected(c)
         /\ \A d \in Contexts : d # c => SameUsers(d)
         /\ Seeking(c)' <=> Seeking(c)
         /\ Erasing(c)' <=> Erasing(c)
         /\ Using(c) <=> receive[w] \in {"using", "again"}
         /\ Dropping(c) <=> receive[w] = "erase"
         /\ Using(c)' <=> there \in {"using", "again"}
         /\ Dropping(c)' <=> there = "erase"
<1>1. InReceipt(w)
  BY DEF Places
<1>2. c \in Contexts /\ Live(c) /\ ~Expected(c) /\ \A u \in Workers : ctx[u] = c /\ InReceipt(u) => u = w
  BY <1>1, OnlyReceiver
<1>3. \A u \in Workers : ctx[u] = c /\ receive[u] # "no" => u = w
  BY <1>2 DEF Places
<1>4. receive'[w] = there /\ \A u \in Workers : u # w => receive'[u] = receive[u]
  BY DEF ObjectTypes
<1>5. \A a \in Agents : Client(a)' = Client(a)
  BY DEF Client
<1>6. \A d \in Contexts : (Seeking(d)' <=> Seeking(d)) /\ (Erasing(d)' <=> Erasing(d))
  BY <1>5 DEF Seeking, Erasing
<1>7. ASSUME NEW d \in Contexts, d # c PROVE SameUsers(d)
  BY <1>4, <1>6, <1>7 DEF SameUsers, Using, Dropping
<1>8. Using(c) <=> receive[w] \in {"using", "again"}
  BY <1>3 DEF Using
<1>9. Dropping(c) <=> receive[w] = "erase"
  BY <1>3 DEF Dropping
<1>10. Using(c)' <=> there \in {"using", "again"}
  BY <1>3, <1>4 DEF Using
<1>11. Dropping(c)' <=> there = "erase"
  BY <1>3, <1>4 DEF Dropping
<1> QED BY <1>2, <1>6, <1>7, <1>8, <1>9, <1>10, <1>11

(* The place of the thread in NotifyDisconnectedClient changes. *)
LEMMA LeaveMoves ==
  ASSUME IInv, ObjectTypes, Places, OneLeaver, NEW a \in Agents, leave[a] # "no", NEW there,
         leave' = [leave EXCEPT ![a] = there], receive' = receive, ctx' = ctx,
         NEW c, c = Client(a)
  PROVE  /\ c \in Contexts /\ Live(c) /\ ~Open(c)
         /\ \A d \in Contexts : d # c => SameUsers(d)
         /\ Using(c)' <=> Using(c)
         /\ Dropping(c)' <=> Dropping(c)
         /\ Seeking(c) <=> leave[a] \in {"find", "found"}
         /\ Erasing(c) <=> leave[a] = "erase"
         /\ Seeking(c)' <=> there \in {"find", "found"}
         /\ Erasing(c)' <=> there = "erase"
<1>1. c \in Contexts /\ Live(c) /\ ~Open(c)
  BY ClientIs DEF Places
<1>2. \A b \in Agents : Client(b) = c /\ leave[b] # "no" => b = a
  BY DEF OneLeaver
<1>3. \A b \in Agents : Client(b)' = Client(b)
  BY DEF Client
<1>4. leave'[a] = there /\ \A b \in Agents : b # a => leave'[b] = leave[b]
  BY DEF ObjectTypes
<1>5. \A d \in Contexts : (Using(d)' <=> Using(d)) /\ (Dropping(d)' <=> Dropping(d))
  BY DEF Using, Dropping
<1>6. ASSUME NEW d \in Contexts, d # c PROVE SameUsers(d)
  BY <1>3, <1>4, <1>5, <1>6 DEF SameUsers, Seeking, Erasing
<1>7. Seeking(c) <=> leave[a] \in {"find", "found"}
  BY <1>2 DEF Seeking
<1>8. Erasing(c) <=> leave[a] = "erase"
  BY <1>2 DEF Erasing
<1>9. Seeking(c)' <=> there \in {"find", "found"}
  BY <1>2, <1>3, <1>4 DEF Seeking
<1>10. Erasing(c)' <=> there = "erase"
  BY <1>2, <1>3, <1>4 DEF Erasing
<1> QED BY <1>1, <1>5, <1>6, <1>7, <1>8, <1>9, <1>10

-----------------------------------------------------------------------------
(* Steps of the base server the callbacks do not notice. *)
Calm(w) ==
  /\ \A u \in Workers \ {w} : pc'[u] = pc[u] /\ ctx'[u] = ctx[u] /\ next'[u] = next[u]
  /\ SameSockets
  /\ leaked \subseteq leaked'
  /\ receive[w] # "no" => ctx'[w] = ctx[w] /\ InReceipt(w)'
  /\ leave[w] = "no"
  /\ protocol # "base" /\ pc'[w] \in {"close", "closed"} => next'[w] # "firstRead"
  /\ \A c \in Contexts : Entering(w, c)' <=> Entering(w, c)
  /\ pc[w] = "firstRead" /\ ~Open(ctx[w]) => ctx[w] \in leaked'

LEMMA CalmKeeps ==
  ASSUME IInv, ObjectInv, UNCHANGED protocolVars, NEW w \in Workers, Calm(w)
  PROVE  ObjectInv'
<1>1. /\ ObjectTypes /\ Places /\ OneLeaver /\ Objects
      /\ protocol' = protocol /\ object' = object /\ refs' = refs /\ entry' = entry
      /\ reborn' = reborn /\ receive' = receive /\ leave' = leave
  BY DEF ObjectInv, protocolVars, mapVars
<1>2. ASSUME NEW u \in Workers, u # w
      PROVE  pc'[u] = pc[u] /\ ctx'[u] = ctx[u] /\ next'[u] = next[u]
  BY <1>2 DEF Calm
<1>3. ASSUME NEW a \in Agents, leave[a] # "no" PROVE Client(a)' = Client(a)
  <2>1. a # w
    BY <1>3 DEF Calm
  <2> QED BY <1>2, <2>1 DEF Client
<1>4. Steady
  <2>1. \A u \in Workers : receive[u] # "no" => ctx'[u] = ctx[u]
    BY <1>2 DEF Calm
  <2> QED BY <1>1, <1>3, <2>1 DEF Steady
<1>5. ObjectTypes'
  BY <1>1 DEF ObjectTypes
<1>6. Places'
  <2>1. ASSUME NEW u \in Workers
        PROVE  /\ receive'[u] # "no" => protocol' # "base" /\ InReceipt(u)'
               /\ leave'[u] # "no" => pc'[u] = "closed"
               /\ protocol' # "base" /\ pc'[u] \in {"close", "closed"} => next'[u] # "firstRead"
    <3>1. CASE u = w
      BY <1>1, <3>1 DEF Calm, Places
    <3>2. CASE u # w
      BY <1>1, <1>2, <3>2 DEF Places, InReceipt
    <3> QED BY <3>1, <3>2
  <2>2. ASSUME NEW c \in Contexts, leave'[c] # "no" PROVE Live(c)'
    BY <1>1, <2>2 DEF Calm, SameSockets, Places, Live
  <2>3. ASSUME NEW a \in Agents
        PROVE  /\ leave'[a] # "no" => protocol' # "base" /\ ~Open(Client(a))'
               /\ leave'[a] \in {"found", "erase"} => protocol' = "text"
    <3>1. CASE leave[a] = "no"
      BY <1>1, <3>1
    <3>2. CASE leave[a] # "no"
      <4>1. Client(a) \in Contexts /\ Client(a)' = Client(a)
        BY <1>1, <1>3, <3>2, ClientIs
      <4>2. Open(Client(a))' = Open(Client(a))
        BY <4>1 DEF Calm, SameSockets, Open
      <4> QED BY <1>1, <3>2, <4>2 DEF Places
    <3> QED BY <3>1, <3>2
  <2> QED BY <2>1, <2>2, <2>3 DEF Places
<1>7. OneLeaver'
  BY <1>1, <1>4, SteadyLeaver
<1>8. ASSUME NEW c \in Contexts, Object(c) PROVE Object(c)'
  <2>1. client'[c].life = client[c].life /\ client'[c].open = client[c].open
    BY DEF Calm, SameSockets
  <2>2. ASSUME ~Open(c), Missed(c) PROVE Missed(c)'
    <3>1. CASE c \in leaked
      BY <3>1 DEF Calm, Missed
    <3>2. ASSUME NEW u \in Workers, ctx[u] = c, pc[u] = "firstRead" PROVE Missed(c)'
      BY <1>2, <2>2, <3>2 DEF Calm, Missed
    <3> QED BY <2>2, <3>1, <3>2 DEF Missed
  <2>3. \A u \in Workers : Entering(u, c)' <=> Entering(u, c)
    BY <1>2 DEF Calm, Entering
  <2>4. Expected(c)' <=> Expected(c)
    BY <2>1, <2>3 DEF Expected
  <2>5. SameClient(c)
    BY <2>1, <2>2, <2>4 DEF SameClient
  <2>6. SameObject(c) /\ SameUsers(c)
    BY <1>1, <1>4, SteadyUsers DEF SameObject
  <2> QED BY <1>1, <1>8, <2>5, <2>6, ObjectKept
<1> QED BY <1>1, <1>5, <1>6, <1>7, <1>8 DEF ObjectInv, Objects

(* Nothing moves that matters here. *)
LEMMA StillKeeps ==
  ASSUME ObjectInv, UNCHANGED <<client, pc, ctx, next, leaked, protocolVars>>
  PROVE  ObjectInv'
<1>1. /\ protocol' = protocol /\ object' = object /\ refs' = refs /\ entry' = entry
      /\ reborn' = reborn /\ receive' = receive /\ leave' = leave
  BY DEF protocolVars, mapVars
<1>2. ObjectTypes' /\ OneLeaver'
  BY <1>1 DEF ObjectInv, ObjectTypes, OneLeaver, Client
<1>3. Places'
  BY <1>1 DEF ObjectInv, Places, InReceipt, Live, Open, Client
<1>4. Objects'
  <2> SUFFICES ASSUME NEW c \in Contexts, protocol # "base" PROVE Object(c)'
    BY <1>1 DEF Objects
  <2>1. Object(c)
    BY DEF ObjectInv, Objects
  <2>2. Steady
    BY <1>1 DEF Steady, Client
  <2>3. SameClient(c) /\ SameObject(c)
    BY <1>1 DEF SameClient, SameObject, Missed, Expected, Entering, Open
  <2> QED BY <1>1, <2>1, <2>2, <2>3, SteadyUsers, ObjectKept
<1> QED BY <1>2, <1>3, <1>4 DEF ObjectInv

(* Most steps of a worker are calm: it is in no callback. *)
LEMMA UntouchedCalm ==
  ASSUME IInv, ObjectInv, NEW w \in Workers, Untouched(w)
  PROVE  Calm(w) \/ UNCHANGED <<client, pc, ctx, next, leaked>>
<1>0. /\ ctx \in [Workers -> Contexts \cup {NoContext}]
      /\ next \in [Workers -> {"idle", "release", "firstRead", "nextRead"}]
      /\ client \in [Contexts -> Context] /\ DOMAIN pc = Workers
      /\ Places
  BY DEF IInv, TypeOK, WorkersTyped, ObjectInv
<1>1. CASE leave[w] = "no" /\ Disconnected(w)
  <2>1. /\ pc[w] = "closed" /\ pc'[w] = next[w] /\ next'[w] = "idle" /\ ctx' = ctx
        /\ client' = client /\ leaked' = leaked
        /\ \A u \in Workers \ {w} : pc'[u] = pc[u] /\ next'[u] = next[u]
    BY <1>0, <1>1 DEF Disconnected
  <2>2. \A c \in Contexts : ~Entering(w, c) /\ ~Entering(w, c)'
    BY <1>0, <2>1 DEF Entering
  <2>3. receive[w] # "no" => InReceipt(w)'
    BY <1>0, <2>1 DEF Places, InReceipt
  <2>4. next[w] # "firstRead" \/ protocol = "base"
    BY <1>0, <2>1 DEF Places
  <2> QED BY <1>0, <1>1, <2>1, <2>2, <2>3, <2>4 DEF Calm, SameSockets
<1>2. CASE ExitIOLoop(w) \/ PostClientIoRead(w, "firstRead") \/ Written(w) \/ SwapBuffer(w)
           \/ LookAtReader(w) \/ PostClientIoWrite(w)
  <2>1. pc[w] \in {"release", "firstRead", "written", "swap", "look", "write"}
    BY <1>2 DEF ExitIOLoop, PostClientIoRead, Written, SwapBuffer, LookAtReader, PostClientIoWrite,
               Goto, GotoClose
  <2>2. ctx[w] \in Contexts
    BY <2>1 DEF IInv, Positions, Free
  <2>3. receive[w] = "no" /\ leave[w] = "no" /\ \A c \in Contexts : ~Entering(w, c)
    BY <1>0, <2>1 DEF Places, InReceipt, Entering
  <2>4. \A u \in Workers \ {w} : pc'[u] = pc[u] /\ ctx'[u] = ctx[u] /\ next'[u] = next[u]
    BY <1>0, <1>2 DEF ExitIOLoop, PostClientIoRead, Written, SwapBuffer, LookAtReader,
                      PostClientIoWrite, Goto, GotoClose
  <2>5. pc'[w] \notin {"closed", "register", "announce"} /\ (pc'[w] = "close" => next'[w] = "release")
    BY <1>0, <1>2 DEF ExitIOLoop, PostClientIoRead, Written, SwapBuffer, LookAtReader,
                      PostClientIoWrite, Goto, GotoClose
  <2>6. SameSockets
    <3>1. CASE ExitIOLoop(w)
      BY <1>0, <2>2, <3>1 DEF ExitIOLoop, SameSockets, Context
    <3>2. CASE PostClientIoRead(w, "firstRead")
      BY <1>0, <2>2, <3>2 DEF PostClientIoRead, SameSockets, Context
    <3>3. CASE SwapBuffer(w)
      BY <1>0, <2>2, <3>3 DEF SwapBuffer, SameSockets, Context
    <3>4. CASE PostClientIoWrite(w)
      BY <1>0, <2>2, <3>4 DEF PostClientIoWrite, SameSockets, Context
    <3>5. CASE Written(w) \/ LookAtReader(w)
      BY <3>5 DEF Written, LookAtReader, SameSockets
    <3> QED BY <1>2, <3>1, <3>2, <3>3, <3>4, <3>5
  <2>7. /\ leaked \subseteq leaked'
        /\ pc[w] = "firstRead" /\ ~Open(ctx[w]) => ctx[w] \in leaked'
    <3>1. CASE PostClientIoRead(w, "firstRead")
      BY <3>1 DEF PostClientIoRead
    <3>2. CASE ~PostClientIoRead(w, "firstRead")
      BY <1>2, <3>2 DEF ExitIOLoop, Written, SwapBuffer, LookAtReader, PostClientIoWrite, Goto,
                        GotoClose, serverVars
    <3> QED BY <3>1, <3>2
  <2>8. \A c \in Contexts : ~Entering(w, c)'
    BY <2>5 DEF Entering
  <2> QED BY <2>3, <2>4, <2>5, <2>6, <2>7, <2>8 DEF Calm
<1>3. CASE Count(w) \/ Reject(w) \/ PostNextAccept(w)
  <2>1. pc[w] \in {"accept", "reject", "repost"} /\ pc'[w] \in {"reject", "repost", "idle", "allocate"}
        /\ client' = client /\ leaked' = leaked /\ next' = next
        /\ \A u \in Workers \ {w} : pc'[u] = pc[u] /\ ctx'[u] = ctx[u]
    BY <1>0, <1>3 DEF Count, Reject, PostNextAccept, Repost, Goto
  <2>2. receive[w] = "no" /\ leave[w] = "no"
    BY <1>0, <2>1 DEF Places, InReceipt
  <2> QED BY <2>1, <2>2 DEF Calm, SameSockets, Entering
<1>4. CASE UpdateCompletionPort(w)
  <2>1. pc[w] = "register" /\ pc'[w] = "announce" /\ ctx' = ctx
        /\ client' = client /\ leaked' = leaked /\ next' = next
        /\ \A u \in Workers \ {w} : pc'[u] = pc[u]
    BY <1>0, <1>4 DEF UpdateCompletionPort, Goto, serverVars
  <2>2. receive[w] = "no" /\ leave[w] = "no"
    BY <1>0, <2>1 DEF Places, InReceipt
  <2> QED BY <2>1, <2>2 DEF Calm, SameSockets, Entering
<1>5. CASE Fault(w)
  BY <1>5 DEF Fault, workerVars
<1> QED BY <1>1, <1>2, <1>3, <1>4, <1>5 DEF Untouched

(* So is taking a completed write or accept, or the order to exit. *)
LEMMA TakeCalm ==
  ASSUME IInv, ObjectInv, NEW w \in Workers,
         (\E c \in Contexts : TakeWrite(w, c)) \/ (\E a \in Accepts : TakeAccept(w, a)) \/ TakeNull(w)
  PROVE  Calm(w)
<1>0. /\ ctx \in [Workers -> Contexts \cup {NoContext}]
      /\ next \in [Workers -> {"idle", "release", "firstRead", "nextRead"}]
      /\ client \in [Contexts -> Context] /\ DOMAIN pc = Workers
      /\ Places /\ pc[w] = "idle"
  BY DEF IInv, TypeOK, WorkersTyped, ObjectInv, TakeWrite, TakeAccept, TakeNull, Goto
<1>1. receive[w] = "no" /\ leave[w] = "no" /\ \A c \in Contexts : ~Entering(w, c)
  BY <1>0 DEF Places, InReceipt, Entering
<1>2. ASSUME NEW c \in Contexts, TakeWrite(w, c) PROVE Calm(w)
  <2>1. /\ pc'[w] \in {"written", "close"} /\ (pc'[w] = "close" => next'[w] = "release")
        /\ leaked' = leaked
        /\ \A u \in Workers \ {w} : pc'[u] = pc[u] /\ ctx'[u] = ctx[u] /\ next'[u] = next[u]
    BY <1>0, <1>2 DEF TakeWrite, serverVars
  <2>2. SameSockets
    BY <1>0, <1>2 DEF TakeWrite, SameSockets, Context
  <2> QED BY <1>0, <1>1, <2>1, <2>2 DEF Calm, Entering
<1>3. CASE (\E a \in Accepts : TakeAccept(w, a)) \/ TakeNull(w)
  <2>1. /\ pc'[w] \in {"idle", "accept", "exited"}
        /\ leaked' = leaked /\ client' = client /\ next' = next
        /\ \A u \in Workers \ {w} : pc'[u] = pc[u] /\ ctx'[u] = ctx[u]
    BY <1>0, <1>3 DEF TakeAccept, TakeNull, Goto, serverVars
  <2> QED BY <1>0, <1>1, <2>1 DEF Calm, Entering, SameSockets
<1> QED BY <1>2, <1>3

-----------------------------------------------------------------------------
(* NotifyReceivedPackage.  Only the worker's place moves, and it stays on  *)
(* its way to the next read.                                               *)
ReceiverStep(w, there) ==
  /\ UNCHANGED <<protocol, leave, ctx, client, leaked>>
  /\ receive[w] # "no" /\ receive' = [receive EXCEPT ![w] = there]
  /\ \A u \in Workers \ {w} : pc'[u] = pc[u] /\ next'[u] = next[u]
  /\ \/ pc'[w] = pc[w] /\ next'[w] = next[w]
     \/ /\ pc[w] = "received"
        /\ pc'[w] = "nextRead" \/ (pc'[w] = "close" /\ next'[w] = "nextRead")

LEMMA ReceiverKeeps ==
  ASSUME IInv, ObjectInv, NEW w \in Workers, NEW there, ReceiverStep(w, there),
         there \in {"get", "using", "again", "erase", "done"},
         object' \in [Contexts -> {"none", "alive", "deleted"}], refs' \in [Contexts -> Nat],
         entry' \in [Contexts -> {"none", "null", "object"}], reborn' \subseteq Contexts,
         \A d \in Contexts : d # ctx[w] => SameObject(d),
         \A d \in Contexts : SameClient(d) /\ d = ctx[w] /\ Object(d) => Object(d)'
  PROVE  ObjectInv'
<1>1. /\ ObjectTypes /\ Places /\ OneLeaver /\ Objects
      /\ protocol' = protocol /\ leave' = leave /\ ctx' = ctx /\ client' = client /\ leaked' = leaked
      /\ receive[w] # "no" /\ receive' = [receive EXCEPT ![w] = there]
  BY DEF ObjectInv, ReceiverStep
<1>2. protocol # "base" /\ InReceipt(w) /\ InReceipt(w)'
  BY <1>1 DEF Places, ReceiverStep, InReceipt
<1>3. ASSUME NEW u \in Workers, u # w
      PROVE  pc'[u] = pc[u] /\ next'[u] = next[u] /\ receive'[u] = receive[u]
  BY <1>1, <1>3 DEF ReceiverStep, ObjectTypes
<1>4. ObjectTypes'
  BY <1>1 DEF ObjectTypes
<1>5. OneLeaver'
  BY <1>1 DEF OneLeaver, Client
<1>6. Places'
  <2>1. ASSUME NEW u \in Workers
        PROVE  /\ receive'[u] # "no" => protocol' # "base" /\ InReceipt(u)'
               /\ leave'[u] # "no" => pc'[u] = "closed"
               /\ protocol' # "base" /\ pc'[u] \in {"close", "closed"} => next'[u] # "firstRead"
    <3>1. CASE u = w
      BY <1>1, <1>2, <3>1 DEF ReceiverStep, Places
    <3>2. CASE u # w
      BY <1>1, <1>3, <3>2 DEF Places, InReceipt
    <3> QED BY <3>1, <3>2
  <2> QED BY <1>1, <2>1 DEF Places, Live, Open, Client
<1>7. ASSUME NEW d \in Contexts PROVE SameClient(d)
  <2>1. \A u \in Workers : Entering(u, d)' <=> Entering(u, d)
    BY <1>1 DEF ReceiverStep, Entering
  <2>2. Expected(d)' <=> Expected(d)
    BY <1>1, <2>1 DEF Expected
  <2>3. Missed(d) => Missed(d)'
    BY <1>1 DEF ReceiverStep, Missed
  <2> QED BY <1>1, <2>2, <2>3 DEF SameClient
<1>8. ASSUME NEW d \in Contexts PROVE Object(d)'
  <2>1. Object(d)
    BY <1>1, <1>2 DEF Objects
  <2>2. CASE d = ctx[w]
    BY <1>7, <2>1, <2>2
  <2>3. CASE d # ctx[w]
    <3>1. SameUsers(d)
      BY <1>1, <2>3, ReceiveMoves
    <3> QED BY <1>1, <1>7, <2>1, <2>3, <3>1, ObjectKept
  <2> QED BY <2>2, <2>3
<1> QED BY <1>4, <1>5, <1>6, <1>8 DEF ObjectInv, Objects

LEMMA GetKeeps ==
  ASSUME IInv, ObjectInv, NEW w \in Workers, GetObject(w)
  PROVE  ObjectInv'
<1>0. PICK c : c = ctx[w]
  OBVIOUS
<1> DEFINE there == IF entry[c] = "object" THEN "using" ELSE "done"
<1>1. /\ ObjectTypes /\ Places /\ OneLeaver /\ Objects
      /\ protocol' = protocol /\ leave' = leave /\ object' = object
      /\ receive[w] = "get" /\ receive' = [receive EXCEPT ![w] = there]
      /\ entry' = [entry EXCEPT ![c] = IF @ = "none" THEN "null" ELSE @]
      /\ UNCHANGED <<client, leaked, ctx, pc, next>>
  BY <1>0 DEF ObjectInv, GetObject, Receive, vars
<1>2. ReceiverStep(w, there)
  BY <1>1 DEF ReceiverStep
<1>3. /\ c \in Contexts /\ Live(c) /\ ~Expected(c) /\ (Seeking(c)' <=> Seeking(c))
      /\ (Erasing(c)' <=> Erasing(c)) /\ ~Using(c) /\ ~Dropping(c)
      /\ (Using(c)' <=> there \in {"using", "again"}) /\ (Dropping(c)' <=> there = "erase")
  BY <1>0, <1>1, ReceiveMoves
<1>4. protocol # "base"
  BY <1>1 DEF Places
<1>5. CASE entry[c] # "object"
  <2>1. refs' = refs /\ reborn' = reborn
    BY <1>0, <1>5 DEF GetObject
  <2>2. \A d \in Contexts : SameObject(d)
    BY <1>1, <1>3, <1>5, <2>1 DEF SameObject, ObjectTypes
  <2>3. SameUsers(c)
    BY <1>3, <1>5 DEF SameUsers
  <2>4. entry' \in [Contexts -> {"none", "null", "object"}]
    BY <1>1, <1>3 DEF ObjectTypes
  <2>5. \A d \in Contexts : SameClient(d) /\ d = c /\ Object(d) => Object(d)'
    BY <1>1, <2>2, <2>3, ObjectKept
  <2>6. there \in {"get", "using", "again", "erase", "done"}
    OBVIOUS
  <2> QED BY <1>0, <1>1, <1>2, <2>1, <2>2, <2>4, <2>5, <2>6, ReceiverKeeps DEF ObjectTypes
<1>6. CASE entry[c] = "object"
  <2>1. /\ refs' = IF protocol = "text" THEN [refs EXCEPT ![c] = @ + 1] ELSE refs
        /\ reborn' = IF refs[c] = 0 THEN reborn \cup {c} ELSE reborn
    BY <1>0, <1>6 DEF GetObject
  <2>2. \A d \in Contexts : d # c => SameObject(d)
    BY <1>1, <1>3, <2>1 DEF SameObject, ObjectTypes
  <2>3. entry' = entry
    BY <1>1, <1>3, <1>6 DEF ObjectTypes
  <2>4. refs' \in [Contexts -> Nat] /\ reborn' \subseteq Contexts
    BY <1>1, <1>3, <2>1 DEF ObjectTypes
  <2>5. Object(c) /\ Alive(c) /\ refs[c] \in Nat
    BY <1>1, <1>3, <1>4, <1>6 DEF Objects, Object, ObjectTypes
  <2>6. ASSUME SameClient(c) PROVE Object(c)'
    <3>1. Open(c)' = Open(c) /\ Alive(c)' /\ (Kept(c)' <=> Kept(c)) /\ Use(c) = 0 /\ Use(c)' = 1
      BY <1>1, <1>3, <1>6, <2>5 DEF Open, Alive, Kept, Use
    <3>2. (Erasing(c)' <=> Erasing(c)) /\ ~Dropping(c)'
      BY <1>3, <1>6
    <3>3. ~Open(c) /\ Missed(c) => Missed(c)'
      BY <2>6 DEF SameClient
    <3>4. ASSUME protocol = "text" PROVE TextObject(c)'
      <4>1. refs'[c] = refs[c] + 1 /\ (refs[c] = 0 => c \in reborn') /\ (c \in reborn => c \in reborn')
        BY <1>1, <1>3, <2>1, <3>4 DEF ObjectTypes
      <4>2. TextObject(c) /\ object[c] = "alive"
        BY <2>5, <3>4 DEF Object, Alive
      <4>3. \/ refs[c] = 1 /\ (Kept(c) \/ Missed(c))
            \/ refs[c] = 0 /\ ~Kept(c)
        BY <3>1, <4>2 DEF TextObject
      <4>4. \/ refs'[c] = 2 /\ (Kept(c)' \/ Missed(c)')
            \/ refs'[c] = 1 /\ ~Kept(c)'
        BY <3>1, <3>3, <4>1, <4>3 DEF Kept
      <4>5. refs[c] = 0 /\ c \notin reborn => Erasing(c)
        BY <1>3, <4>2 DEF TextObject, Alive
      <4>6. c \in reborn' => Erasing(c)
        <5>1. c \in reborn => Erasing(c)
          BY <4>2 DEF TextObject
        <5> QED BY <2>1, <4>5, <5>1
      <4>7. Erasing(c) => ~Kept(c) /\ c \in reborn'
        BY <4>1, <4>2 DEF TextObject
      <4>8. object'[c] = "alive" /\ refs'[c] # 0
        BY <1>1, <4>2, <4>4
      <4> QED BY <3>1, <3>2, <4>4, <4>6, <4>7, <4>8 DEF TextObject
    <3>5. protocol = "package" => PackageObject(c)'
      BY <1>3, <2>5, <3>1, <3>3 DEF Object, PackageObject
    <3>6. client'[c].life = client[c].life /\ (Expected(c)' <=> Expected(c)) /\ object'[c] = object[c]
      BY <1>1, <2>6 DEF SameClient
    <3> QED BY <1>1, <1>6, <2>3, <2>5, <3>1, <3>4, <3>5, <3>6 DEF Object
  <2>8. \A d \in Contexts : SameClient(d) /\ d = c /\ Object(d) => Object(d)'
    BY <2>6
  <2>7. there \in {"get", "using", "again", "erase", "done"}
    OBVIOUS
  <2> QED BY <1>0, <1>1, <1>2, <2>2, <2>3, <2>4, <2>7, <2>8, ReceiverKeeps DEF ObjectTypes
<1> QED BY <1>5, <1>6

(* The object is used: nothing about it changes but who uses it, which     *)
(* only the text server takes note of.                                     *)
LEMMA UserKeeps ==
  ASSUME IInv, ObjectInv, NEW w \in Workers, NEW there \in {"again", "done"}, ReceiverStep(w, there),
         UNCHANGED mapVars, receive[w] \in {"using", "again"}, there = "again" \/ protocol = "package"
  PROVE  ObjectInv'
<1>0. PICK c : c = ctx[w]
  OBVIOUS
<1>1. /\ ObjectTypes /\ Places /\ OneLeaver
      /\ protocol' = protocol /\ leave' = leave /\ ctx' = ctx
      /\ receive' = [receive EXCEPT ![w] = there]
      /\ object' = object /\ refs' = refs /\ entry' = entry /\ reborn' = reborn
  BY DEF ObjectInv, ReceiverStep, mapVars
<1>2. /\ c \in Contexts /\ (Seeking(c)' <=> Seeking(c)) /\ (Erasing(c)' <=> Erasing(c))
      /\ Using(c) /\ ~Dropping(c) /\ (Using(c)' <=> there = "again") /\ ~Dropping(c)'
  BY <1>0, <1>1, ReceiveMoves
<1>3. \A d \in Contexts : SameObject(d)
  BY <1>1 DEF SameObject
<1>4. ASSUME SameClient(c), Object(c) PROVE Object(c)'
  <2>1. CASE there = "again"
    BY <1>1, <1>2, <1>3, <1>4, <2>1, ObjectKept DEF SameUsers
  <2>2. CASE protocol = "package"
    BY <1>1, <1>2, <1>4, <2>2 DEF Object, PackageObject, SameClient, Alive, Open
  <2> QED BY <2>1, <2>2
<1>5. \A d \in Contexts : SameClient(d) /\ d = c /\ Object(d) => Object(d)'
  BY <1>4
<1> QED BY <1>0, <1>1, <1>3, <1>5, ReceiverKeeps DEF ObjectTypes

LEMMA UseKeeps ==
  ASSUME IInv, ObjectInv, NEW w \in Workers, UseObject(w) \/ UseAgain(w)
  PROVE  ObjectInv'
<1>0. ObjectTypes /\ WorkersTyped
  BY DEF ObjectInv, IInv, TypeOK
<1>1. CASE UseObject(w)
  <2>1. PICK there \in {"again", "done"} :
          /\ receive[w] = "using" /\ receive' = [receive EXCEPT ![w] = there]
          /\ there = "again" \/ protocol = "package"
    BY <1>1 DEF UseObject, Receive
  <2>2. UNCHANGED mapVars /\ UNCHANGED <<protocol, leave>> /\ NotifyReceivedPackage(w)
    BY <1>1 DEF UseObject
  <2>3. UNCHANGED <<ctx, client, leaked>>
    BY <2>2 DEF NotifyReceivedPackage, Goto, GotoClose, serverVars
  <2>4. /\ pc[w] = "received" /\ \A u \in Workers \ {w} : pc'[u] = pc[u] /\ next'[u] = next[u]
        /\ pc'[w] = "nextRead" \/ (pc'[w] = "close" /\ next'[w] = "nextRead")
    BY <1>0, <2>2 DEF NotifyReceivedPackage, Goto, GotoClose, WorkersTyped
  <2>5. ReceiverStep(w, there)
    BY <2>1, <2>2, <2>3, <2>4 DEF ReceiverStep
  <2> QED BY <2>1, <2>2, <2>5, UserKeeps
<1>2. CASE UseAgain(w)
  <2>1. /\ UNCHANGED mapVars /\ protocol = "package"
        /\ receive[w] = "again" /\ ReceiverStep(w, "done")
    BY <1>2 DEF UseAgain, Receive, ReceiverStep, vars
  <2> QED BY <2>1, UserKeeps
<1> QED BY <1>1, <1>2

(* The last reference a receiver gives up is the last of all, so the       *)
(* receiver erases the object.                                             *)
LEMMA ReleaseKeeps ==
  ASSUME IInv, ObjectInv, NEW w \in Workers, ReleaseObject(w)
  PROVE  ObjectInv'
<1>0. PICK c : c = ctx[w]
  OBVIOUS
<1> DEFINE there == IF refs[c] = 1 THEN "erase" ELSE "done"
<1>1. /\ ObjectTypes /\ Places /\ OneLeaver /\ Objects
      /\ protocol' = protocol /\ leave' = leave /\ object' = object /\ entry' = entry
      /\ reborn' = reborn /\ refs' = [refs EXCEPT ![c] = @ - 1]
      /\ protocol = "text" /\ Alive(c)
      /\ receive[w] = "again" /\ receive' = [receive EXCEPT ![w] = there]
      /\ UNCHANGED <<client, leaked, ctx, pc, next>>
  BY <1>0 DEF ObjectInv, ReleaseObject, Receive, vars
<1>2. ReceiverStep(w, there)
  BY <1>1 DEF ReceiverStep
<1>3. /\ c \in Contexts /\ (Seeking(c)' <=> Seeking(c)) /\ (Erasing(c)' <=> Erasing(c))
      /\ Using(c) /\ ~Dropping(c)
      /\ (Using(c)' <=> there \in {"using", "again"}) /\ (Dropping(c)' <=> there = "erase")
  BY <1>0, <1>1, ReceiveMoves
<1>4. Object(c) /\ TextObject(c) /\ object[c] = "alive" /\ refs[c] \in Nat
  BY <1>1, <1>3 DEF Objects, Object, Alive, ObjectTypes
<1>5. Use(c) = 1 /\ Use(c)' = 0 /\ (Dropping(c)' <=> refs[c] = 1)
  BY <1>3 DEF Use
<1>6. \/ refs[c] = 2 /\ (Kept(c) \/ Missed(c))
      \/ refs[c] = 1 /\ ~Kept(c)
  BY <1>4, <1>5 DEF TextObject
<1>7. refs'[c] = refs[c] - 1 /\ \A d \in Contexts : d # c => SameObject(d)
  BY <1>1, <1>3 DEF ObjectTypes, SameObject
<1>8. refs' \in [Contexts -> Nat]
  BY <1>1, <1>3, <1>6 DEF ObjectTypes
<1>9. ASSUME SameClient(c) PROVE Object(c)'
  <2>1. (Open(c)' <=> Open(c)) /\ Alive(c)' /\ (Kept(c)' <=> Kept(c)) /\ (Kept(c) \/ Missed(c) => Kept(c) \/ Missed(c)')
    BY <1>1, <1>3, <1>4, <1>9 DEF Open, Alive, Kept, SameClient
  <2>2. \/ refs'[c] = 1 /\ (Kept(c)' \/ Missed(c)') /\ ~Dropping(c)'
        \/ refs'[c] = 0 /\ ~Kept(c)' /\ Dropping(c)'
    BY <1>5, <1>6, <1>7, <2>1
  <2>3. c \in reborn => Erasing(c)
    BY <1>4 DEF TextObject
  <2>4. Erasing(c) => ~Kept(c) /\ c \in reborn
    BY <1>4, <1>6 DEF TextObject
  <2>5. TextObject(c)'
    BY <1>1, <1>3, <1>4, <1>5, <2>1, <2>2, <2>3, <2>4 DEF TextObject
  <2>6. client'[c].life = client[c].life /\ (Expected(c)' <=> Expected(c))
    BY <1>9 DEF SameClient
  <2> QED BY <1>1, <1>4, <2>1, <2>5, <2>6 DEF Object
<1>10. \A d \in Contexts : SameClient(d) /\ d = c /\ Object(d) => Object(d)'
  BY <1>9
<1>11. there \in {"get", "using", "again", "erase", "done"}
  OBVIOUS
<1> QED BY <1>0, <1>1, <1>2, <1>7, <1>8, <1>10, <1>11, ReceiverKeeps DEF ObjectTypes

(* An object that goes out of the map is nobody's any more. *)
LEMMA EraseObject ==
  ASSUME NEW c \in Contexts, Object(c), SameClient(c), protocol' = protocol,
         Alive(c), Erasing(c) \/ Dropping(c), Seeking(c)' <=> Seeking(c), Using(c)' <=> Using(c),
         object'[c] = "deleted", refs'[c] = refs[c], c \in reborn' <=> c \in reborn,
         entry'[c] # "object"
  PROVE  Object(c)'
<1>1. Open(c)' = Open(c) /\ Use(c)' = Use(c) /\ ~Alive(c)'
  BY DEF SameClient, Open, Use, Alive
<1>2. Kept(c)' <=> Kept(c)
  BY <1>1 DEF Kept
<1>3. ASSUME protocol = "text" PROVE TextObject(c)'
  <2>1. TextObject(c) /\ object[c] # "none"
    BY <1>3 DEF Object, Alive
  <2>2. ~Kept(c) /\ (c \notin reborn => refs[c] = 0)
    BY <2>1 DEF TextObject
  <2>3. \/ refs[c] = Use(c) + 1 /\ Missed(c)'
        \/ refs[c] = Use(c)
    BY <2>1, <2>2 DEF TextObject, SameClient, Kept
  <2> QED BY <1>1, <1>2, <2>2, <2>3 DEF TextObject
<1>4. protocol = "package" => PackageObject(c)'
  BY <1>1 DEF PackageObject
<1> QED BY <1>1, <1>3, <1>4 DEF Object, SameClient, Alive

LEMMA EraseReleasedKeeps ==
  ASSUME IInv, ObjectInv, NEW w \in Workers, EraseReleased(w)
  PROVE  ObjectInv'
<1>0. PICK c : c = ctx[w]
  OBVIOUS
<1>1. /\ ObjectTypes /\ Places /\ OneLeaver
      /\ protocol' = protocol /\ leave' = leave /\ refs' = refs /\ reborn' = reborn
      /\ object' = [object EXCEPT ![c] = "deleted"] /\ entry' = [entry EXCEPT ![c] = "none"]
      /\ Alive(c)
      /\ receive[w] = "erase" /\ receive' = [receive EXCEPT ![w] = "done"]
      /\ UNCHANGED <<client, leaked, ctx, pc, next>>
  BY <1>0 DEF ObjectInv, EraseReleased, Erase, Receive, vars
<1>2. ReceiverStep(w, "done")
  BY <1>1 DEF ReceiverStep
<1>3. c \in Contexts /\ (Seeking(c)' <=> Seeking(c)) /\ Dropping(c) /\ ~Using(c) /\ ~Using(c)'
  <2> DEFINE there == "done"
  <2>1. receive' = [receive EXCEPT ![w] = there] /\ receive[w] # "no"
    BY <1>1
  <2> HIDE DEF there
  <2>2. /\ c \in Contexts /\ (Seeking(c)' <=> Seeking(c))
        /\ Dropping(c) /\ ~Using(c) /\ (Using(c)' <=> there \in {"using", "again"})
    BY <1>0, <1>1, <2>1, ReceiveMoves
  <2> QED BY <2>2 DEF there
<1>4. /\ object' \in [Contexts -> {"none", "alive", "deleted"}]
      /\ entry' \in [Contexts -> {"none", "null", "object"}]
      /\ object'[c] = "deleted" /\ entry'[c] = "none"
      /\ \A d \in Contexts : d # c => SameObject(d)
  BY <1>1, <1>3 DEF ObjectTypes, SameObject
<1>5. ASSUME SameClient(c), Object(c) PROVE Object(c)'
  BY <1>1, <1>3, <1>4, <1>5, EraseObject
<1>6. \A d \in Contexts : SameClient(d) /\ d = c /\ Object(d) => Object(d)'
  BY <1>5
<1> QED BY <1>0, <1>1, <1>2, <1>4, <1>6, ReceiverKeeps DEF ObjectTypes

LEMMA NothingCalm ==
  ASSUME IInv, ObjectInv, NEW w \in Workers, NothingReceived(w)
  PROVE  Calm(w)
<1>1. /\ pc[w] = "received" /\ pc'[w] = "nextRead" /\ SameSockets /\ ctx' = ctx /\ leaked' = leaked
      /\ \A u \in Workers \ {w} : pc'[u] = pc[u] /\ next'[u] = next[u]
  BY DEF NothingReceived, NotifyReceivedPackage, Goto, GotoClose, serverVars, SameSockets,
         IInv, TypeOK, WorkersTyped
<1>2. leave[w] = "no"
  BY <1>1 DEF ObjectInv, Places
<1> QED BY <1>1, <1>2 DEF Calm, InReceipt, Entering

-----------------------------------------------------------------------------
(* NotifyDisconnectedClient. *)
LEMMA LeaverKeeps ==
  ASSUME IInv, ObjectInv, NEW a \in Agents, leave[a] # "no",
         NEW there, there \in {"no", "found", "erase"}, there = "no" \/ protocol = "text",
         leave' = [leave EXCEPT ![a] = there], UNCHANGED <<vars, protocol, receive>>,
         object' \in [Contexts -> {"none", "alive", "deleted"}], refs' \in [Contexts -> Nat],
         entry' \in [Contexts -> {"none", "null", "object"}], reborn' = reborn,
         NEW c, c = Client(a), SameClient(c) /\ Object(c) => Object(c)',
         \A d \in Contexts : d # c => SameObject(d)
  PROVE  ObjectInv'
<1>1. /\ ObjectTypes /\ Places /\ OneLeaver /\ Objects
      /\ protocol' = protocol /\ receive' = receive
      /\ client' = client /\ leaked' = leaked /\ ctx' = ctx /\ pc' = pc /\ next' = next
  BY DEF ObjectInv, vars
<1>2. protocol # "base" /\ c \in Contexts
  BY <1>1, ClientIs DEF Places
<1>3. \A b \in Agents : leave'[b] = IF b = a THEN there ELSE leave[b]
  BY <1>1 DEF ObjectTypes
<1>4. \A b \in Agents : Client(b)' = Client(b) /\ (leave'[b] # "no" => leave[b] # "no")
  BY <1>1, <1>3 DEF Client
<1>5. ObjectTypes'
  BY <1>1 DEF ObjectTypes
<1>6. OneLeaver'
  BY <1>1, <1>4 DEF OneLeaver
<1>7. Places'
  <2>1. ASSUME NEW u \in Workers
        PROVE  /\ receive'[u] # "no" => protocol' # "base" /\ InReceipt(u)'
               /\ leave'[u] # "no" => pc'[u] = "closed"
               /\ protocol' # "base" /\ pc'[u] \in {"close", "closed"} => next'[u] # "firstRead"
    BY <1>1, <1>4 DEF Places, InReceipt, Agents
  <2>2. \A d \in Contexts : leave'[d] # "no" => Live(d)'
    BY <1>1, <1>4 DEF Places, Live, Agents
  <2>3. ASSUME NEW b \in Agents
        PROVE  /\ leave'[b] # "no" => protocol' # "base" /\ ~Open(Client(b))'
               /\ leave'[b] \in {"found", "erase"} => protocol' = "text"
    <3>1. Open(Client(b))' = Open(Client(b))
      BY <1>1, <1>4 DEF Open
    <3> QED BY <1>1, <1>3, <1>4, <3>1 DEF Places
  <2> QED BY <2>1, <2>2, <2>3 DEF Places
<1>8. ASSUME NEW d \in Contexts PROVE Object(d)'
  <2>1. Object(d) /\ SameClient(d)
    BY <1>1, <1>2 DEF Objects, SameClient, Missed, Expected, Entering
  <2>2. CASE d = c
    BY <2>1, <2>2
  <2>3. CASE d # c
    <3>1. SameUsers(d)
      BY <1>1, <2>3, LeaveMoves
    <3> QED BY <1>1, <2>1, <2>3, <3>1, ObjectKept
  <2> QED BY <2>2, <2>3
<1> QED BY <1>5, <1>6, <1>7, <1>8 DEF ObjectInv, Objects

(* The object is not in the map only if it has not been entered yet. *)
LEMMA FindKeeps ==
  ASSUME IInv, ObjectInv, NEW a \in Agents, FindObject(a)
  PROVE  ObjectInv'
<1>0. PICK c : c = Client(a)
  OBVIOUS
<1> DEFINE there == IF entry[c] = "object" THEN "found" ELSE "no"
<1>1. /\ ObjectTypes /\ Places /\ OneLeaver /\ Objects
      /\ UNCHANGED <<vars, protocol, receive>> /\ ctx' = ctx
      /\ object' = object /\ refs' = refs /\ entry' = entry /\ reborn' = reborn
      /\ protocol = "text"
      /\ leave[a] = "find" /\ leave' = [leave EXCEPT ![a] = there]
  BY <1>0 DEF ObjectInv, FindObject, Leave, vars, mapVars
<1>2. /\ c \in Contexts /\ Live(c) /\ (Using(c)' <=> Using(c)) /\ (Dropping(c)' <=> Dropping(c))
      /\ Seeking(c) /\ ~Erasing(c)
      /\ (Seeking(c)' <=> there \in {"find", "found"}) /\ (Erasing(c)' <=> there = "erase")
  BY <1>0, <1>1, LeaveMoves
<1>3. \A d \in Contexts : SameObject(d)
  BY <1>1 DEF SameObject
<1>4. ASSUME SameClient(c), Object(c) PROVE Object(c)'
  <2>1. CASE entry[c] = "object"
    <3>1. SameUsers(c)
      BY <1>2, <2>1 DEF SameUsers
    <3> QED BY <1>1, <1>2, <1>3, <1>4, <3>1, ObjectKept
  <2>2. CASE entry[c] # "object"
    <3>1. TextObject(c) /\ ~Alive(c) /\ Kept(c)
      BY <1>1, <1>2, <1>4, <2>2 DEF Object, Kept
    <3>2. object[c] = "none" /\ ~Dropping(c) /\ c \notin reborn
      BY <1>1, <1>2, <3>1 DEF TextObject, Alive, ObjectTypes
    <3>3. TextObject(c)'
      BY <1>1, <1>2, <2>2, <3>2 DEF TextObject, Alive
    <3>4. ~Alive(c)'
      BY <1>1, <3>2 DEF Alive
    <3>5. client'[c].life = client[c].life /\ (Expected(c)' <=> Expected(c))
      BY <1>4 DEF SameClient
    <3> QED BY <1>1, <1>4, <2>2, <3>3, <3>4, <3>5 DEF Object
  <2> QED BY <2>1, <2>2
<1>5. there \in {"no", "found", "erase"}
  OBVIOUS
<1> QED BY <1>0, <1>1, <1>3, <1>4, <1>5, LeaverKeeps DEF ObjectTypes

LEMMA ReleaseFoundKeeps ==
  ASSUME IInv, ObjectInv, NEW a \in Agents, ReleaseFound(a)
  PROVE  ObjectInv'
<1>0. PICK c : c = Client(a)
  OBVIOUS
<1> DEFINE there == IF refs[c] = 1 THEN "erase" ELSE "no"
<1>1. /\ ObjectTypes /\ Places /\ OneLeaver /\ Objects
      /\ UNCHANGED <<vars, protocol, receive>> /\ ctx' = ctx /\ protocol' = protocol
      /\ object' = object /\ entry' = entry /\ reborn' = reborn
      /\ refs' = [refs EXCEPT ![c] = @ - 1] /\ Alive(c)
      /\ leave[a] = "found" /\ leave' = [leave EXCEPT ![a] = there]
  BY <1>0 DEF ObjectInv, ReleaseFound, Leave, vars
<1>2. /\ c \in Contexts /\ ~Open(c) /\ (Using(c)' <=> Using(c)) /\ (Dropping(c)' <=> Dropping(c))
      /\ Seeking(c) /\ ~Erasing(c)
      /\ (Seeking(c)' <=> there \in {"find", "found"}) /\ (Erasing(c)' <=> there = "erase")
  BY <1>0, <1>1, LeaveMoves
<1>3. protocol = "text"
  BY <1>1 DEF Places
<1>4. Object(c) /\ TextObject(c) /\ object[c] = "alive" /\ refs[c] \in Nat /\ Kept(c)
  BY <1>1, <1>2, <1>3 DEF Objects, Object, Alive, Kept, ObjectTypes
<1>5. Use(c)' = Use(c) /\ Use(c) \in {0, 1} /\ ~Seeking(c)'
  BY <1>2 DEF Use
<1>6. refs[c] = Use(c) + 1 /\ ~Dropping(c) /\ c \notin reborn
  BY <1>2, <1>4 DEF TextObject
<1>7. refs'[c] = Use(c) /\ \A d \in Contexts : d # c => SameObject(d)
  BY <1>1, <1>2, <1>5, <1>6 DEF ObjectTypes, SameObject
<1>8. refs' \in [Contexts -> Nat]
  BY <1>1, <1>2, <1>5, <1>6 DEF ObjectTypes
<1>9. ASSUME SameClient(c) PROVE Object(c)'
  <2>1. ~Open(c)' /\ Alive(c)' /\ ~Kept(c)' /\ (Expected(c)' <=> Expected(c))
        /\ client'[c].life = client[c].life
    BY <1>1, <1>2, <1>5, <1>9 DEF Open, Alive, Kept, SameClient
  <2>2. Erasing(c)' <=> refs'[c] = 0
    BY <1>2, <1>5, <1>6, <1>7
  <2>3. ~Dropping(c)' /\ c \notin reborn' /\ object'[c] = "alive" /\ refs'[c] = Use(c)'
    BY <1>1, <1>2, <1>4, <1>5, <1>6, <1>7
  <2>4. TextObject(c)'
    BY <2>1, <2>2, <2>3 DEF TextObject
  <2> QED BY <1>1, <1>3, <1>4, <2>1, <2>4 DEF Object
<1>10. there \in {"no", "found", "erase"}
  OBVIOUS
<1> QED BY <1>0, <1>1, <1>3, <1>7, <1>8, <1>9, <1>10, LeaverKeeps DEF ObjectTypes

LEMMA EraseFoundKeeps ==
  ASSUME IInv, ObjectInv, NEW a \in Agents, EraseFound(a)
  PROVE  ObjectInv'
<1>0. PICK c : c = Client(a)
  OBVIOUS
<1> DEFINE there == "no"
<1>1. /\ ObjectTypes /\ Places /\ OneLeaver
      /\ UNCHANGED <<vars, protocol, receive>> /\ ctx' = ctx /\ protocol' = protocol
      /\ refs' = refs /\ reborn' = reborn /\ Alive(c)
      /\ object' = [object EXCEPT ![c] = "deleted"] /\ entry' = [entry EXCEPT ![c] = "none"]
      /\ leave[a] = "erase" /\ leave[a] # "no" /\ leave' = [leave EXCEPT ![a] = there]
  BY <1>0 DEF ObjectInv, EraseFound, Erase, Leave, vars
<1>2. there \in {"no", "found", "erase"} /\ there \notin {"find", "found"} /\ there = "no"
  OBVIOUS
<1> HIDE DEF there
<1>3. /\ c \in Contexts /\ (Using(c)' <=> Using(c)) /\ Erasing(c) /\ ~Seeking(c)
      /\ (Seeking(c)' <=> there \in {"find", "found"})
  BY <1>0, <1>1, LeaveMoves
<1>4. /\ object' \in [Contexts -> {"none", "alive", "deleted"}]
      /\ entry' \in [Contexts -> {"none", "null", "object"}]
      /\ object'[c] = "deleted" /\ entry'[c] = "none"
      /\ \A d \in Contexts : d # c => SameObject(d)
  BY <1>1, <1>3 DEF ObjectTypes, SameObject
<1>5. ASSUME SameClient(c), Object(c) PROVE Object(c)'
  BY <1>1, <1>2, <1>3, <1>4, <1>5, EraseObject
<1>6. refs' \in [Contexts -> Nat] /\ UNCHANGED <<vars, protocol, receive>>
  BY <1>1 DEF ObjectTypes
<1>7. leave[a] # "no" /\ leave' = [leave EXCEPT ![a] = there] /\ reborn' = reborn
  BY <1>1
<1>8. SameClient(c) /\ Object(c) => Object(c)'
  BY <1>5
<1> QED BY ONLY IInv, ObjectInv, a \in Agents, <1>0, <1>2, <1>4, <1>6, <1>7, <1>8, LeaverKeeps

LEMMA DelKeeps ==
  ASSUME IInv, ObjectInv, NEW a \in Agents, DelContext(a)
  PROVE  ObjectInv'
<1>0. PICK c : c = Client(a)
  OBVIOUS
<1> DEFINE there == "no"
<1>1. /\ ObjectTypes /\ Places /\ OneLeaver /\ Objects
      /\ UNCHANGED <<vars, protocol, receive>> /\ ctx' = ctx /\ protocol' = protocol
      /\ refs' = refs /\ reborn' = reborn /\ protocol = "package"
      /\ object' = IF entry[c] = "object" THEN [object EXCEPT ![c] = "deleted"] ELSE object
      /\ entry' = [entry EXCEPT ![c] = "none"]
      /\ leave[a] = "find" /\ leave[a] # "no" /\ leave' = [leave EXCEPT ![a] = there]
  BY <1>0 DEF ObjectInv, DelContext, Leave, vars
<1>2. there \in {"no", "found", "erase"} /\ there = "no"
  OBVIOUS
<1> HIDE DEF there
<1>3. c \in Contexts /\ Live(c)
  BY <1>0, <1>1, LeaveMoves
<1>4. /\ object' \in [Contexts -> {"none", "alive", "deleted"}]
      /\ entry' \in [Contexts -> {"none", "null", "object"}]
      /\ entry'[c] = "none"
      /\ object'[c] = IF entry[c] = "object" THEN "deleted" ELSE object[c]
      /\ \A d \in Contexts : d # c => SameObject(d)
  BY <1>1, <1>3 DEF ObjectTypes, SameObject
<1>5. ASSUME SameClient(c), Object(c) PROVE Object(c)'
  <2>1. object'[c] # "alive" /\ (object'[c] = "none" <=> object[c] = "none")
    BY <1>4, <1>5 DEF Object, Alive
  <2>2. client'[c].life = "live" /\ (Expected(c)' <=> Expected(c))
    BY <1>3, <1>5 DEF SameClient, Live
  <2> QED BY <1>1, <1>4, <1>5, <2>1, <2>2 DEF Object, PackageObject, Alive
<1>6. refs' \in [Contexts -> Nat] /\ UNCHANGED <<vars, protocol, receive>>
  BY <1>1 DEF ObjectTypes
<1>7. leave[a] # "no" /\ leave' = [leave EXCEPT ![a] = there] /\ reborn' = reborn
  BY <1>1
<1>8. SameClient(c) /\ Object(c) => Object(c)'
  BY <1>5
<1> QED BY ONLY IInv, ObjectInv, a \in Agents, <1>0, <1>2, <1>4, <1>6, <1>7, <1>8, LeaverKeeps

-----------------------------------------------------------------------------
(* The threads N enter NotifyDisconnectedClient, each for a client of its  *)
(* own that it has just closed.                                            *)
Enters(N) ==
  /\ N \subseteq Agents
  /\ UNCHANGED <<protocol, mapVars, receive, ctx, leaked>>
  /\ \A a \in N : Client(a) \in Contexts /\ Live(Client(a)) /\ Open(Client(a)) /\ leave'[a] = "find"
  /\ \A a, b \in N : Client(a) = Client(b) => a = b
  /\ leave' \in [Agents -> {"no", "find", "found", "erase"}]
  /\ \A a \in Agents \ N : leave'[a] = leave[a]
  /\ \A d \in Contexts :
       /\ client'[d].life = client[d].life
       /\ (\E a \in N : Client(a) = d) => ~client'[d].open
       /\ (\A a \in N : Client(a) # d) => client'[d].open = client[d].open
  /\ \A u \in Workers :
       /\ next'[u] = next[u]
       /\ u \in N => pc[u] = "close" /\ pc'[u] = "closed"
       /\ u \notin N => pc'[u] = pc[u]

LEMMA EntersKeeps ==
  ASSUME IInv, ObjectInv, NEW N, Enters(N), protocol # "base"
  PROVE  ObjectInv'
<1>1. /\ ObjectTypes /\ Places /\ OneLeaver /\ Objects
      /\ protocol' = protocol /\ receive' = receive /\ ctx' = ctx /\ leaked' = leaked
      /\ object' = object /\ refs' = refs /\ entry' = entry /\ reborn' = reborn
  BY DEF ObjectInv, Enters, mapVars
<1>2. \A a \in Agents : Client(a)' = Client(a)
  BY <1>1 DEF Client
<1>3. \A a \in N : a \in Agents /\ leave[a] = "no" /\ leave'[a] = "find"
  BY <1>1 DEF Enters, Places
<1>4. \A a \in Agents : leave'[a] # leave[a] => a \in N
  BY DEF Enters
<1>5. ASSUME NEW a \in N, NEW b \in Agents, leave'[b] # "no", Client(a) = Client(b) PROVE a = b
  <2>1. CASE b \in N
    BY <1>5, <2>1 DEF Enters
  <2>2. CASE b \notin N
    <3>1. leave[b] # "no"
      BY <1>4, <1>5, <2>2
    <3> QED BY <1>1, <1>5, <3>1 DEF Enters, Places
  <2> QED BY <2>1, <2>2
<1>6. OneLeaver'
  <2> SUFFICES ASSUME NEW a \in Agents, NEW b \in Agents, leave'[a] # "no", leave'[b] # "no",
                      Client(a) = Client(b)
               PROVE  a = b
    BY <1>2 DEF OneLeaver
  <2>1. CASE a \in N \/ b \in N
    BY <1>5, <2>1
  <2>2. CASE a \notin N /\ b \notin N
    BY <1>1, <1>4, <2>2 DEF OneLeaver
  <2> QED BY <2>1, <2>2
<1>7. ObjectTypes'
  BY <1>1 DEF ObjectTypes, Enters
<1>8. \A d \in Contexts : Open(d)' => Open(d)
  BY DEF Enters, Open
<1>9. Places'
  <2>1. ASSUME NEW u \in Workers
        PROVE  /\ receive'[u] # "no" => protocol' # "base" /\ InReceipt(u)'
               /\ leave'[u] # "no" => pc'[u] = "closed"
               /\ protocol' # "base" /\ pc'[u] \in {"close", "closed"} => next'[u] # "firstRead"
    <3>1. u \in Agents
      BY DEF Agents
    <3>2. CASE u \in N
      BY <1>1, <3>2 DEF Enters, Places, InReceipt
    <3>3. CASE u \notin N
      BY <1>1, <1>4, <3>1, <3>3 DEF Enters, Places, InReceipt
    <3> QED BY <3>2, <3>3
  <2>2. ASSUME NEW d \in Contexts, leave'[d] # "no" PROVE Live(d)'
    <3>1. d \in Agents /\ (d \notin Workers => Client(d) = d)
      BY DEF Agents, Client
    <3>2. d \notin Workers
      BY AgentsAssumption
    <3>3. CASE d \in N
      BY <3>1, <3>2, <3>3 DEF Enters, Live
    <3>4. CASE d \notin N
      BY <1>1, <1>4, <2>2, <3>1, <3>4 DEF Enters, Places, Live
    <3> QED BY <3>3, <3>4
  <2>3. ASSUME NEW b \in Agents
        PROVE  /\ leave'[b] # "no" => protocol' # "base" /\ ~Open(Client(b))'
               /\ leave'[b] \in {"found", "erase"} => protocol' = "text"
    <3>1. CASE b \in N
      <4>1. Client(b) \in Contexts /\ ~client'[Client(b)].open
        BY <3>1 DEF Enters
      <4>2. ~Open(Client(b))'
        BY <1>2, <1>3, <3>1, <4>1 DEF Open
      <4> QED BY <1>1, <1>3, <3>1, <4>2
    <3>2. CASE b \notin N /\ leave[b] # "no"
      <4>1. Client(b) \in Contexts /\ ~Open(Client(b)) /\ Client(b)' = Client(b)
        BY <1>1, <1>2, <3>2, ClientIs DEF Places
      <4>2. ~Open(Client(b))'
        BY <4>1 DEF Enters, Open
      <4> QED BY <1>1, <1>4, <3>2, <4>2 DEF Places
    <3>3. CASE b \notin N /\ leave[b] = "no"
      BY <1>4, <3>3
    <3> QED BY <3>1, <3>2, <3>3
  <2> QED BY <2>1, <2>2, <2>3 DEF Places
<1>10. ASSUME NEW d \in Contexts PROVE Object(d)'
  <2>1. Object(d)
    BY <1>1 DEF Objects
  <2>2. (Using(d)' <=> Using(d)) /\ (Dropping(d)' <=> Dropping(d))
    BY <1>1 DEF Using, Dropping
  <2>3. Erasing(d)' <=> Erasing(d)
    BY <1>2, <1>3, <1>4 DEF Erasing
  <2>4. /\ Seeking(d) => Seeking(d)'
        /\ (\A a \in N : Client(a) # d) => (Seeking(d)' => Seeking(d))
        /\ (\E a \in N : Client(a) = d) => Seeking(d)'
    BY <1>2, <1>3, <1>4 DEF Seeking
  <2>5. (Missed(d) => Missed(d)') /\ (Expected(d)' <=> Expected(d)) /\ client'[d].life = client[d].life
    BY <1>1 DEF Enters, Missed, Expected, Entering
  <2>6. SameObject(d)
    BY <1>1 DEF SameObject
  <2>7. CASE \A a \in N : Client(a) # d
    <3>1. client'[d].open = client[d].open
      BY <2>7 DEF Enters
    <3>2. SameUsers(d)
      BY <2>2, <2>3, <2>4, <2>7 DEF SameUsers
    <3>3. SameClient(d)
      BY <2>5, <3>1 DEF SameClient
    <3> QED BY <1>1, <2>1, <2>6, <3>2, <3>3, ObjectKept
  <2>8. CASE \E a \in N : Client(a) = d
    <3>1. Open(d) /\ Kept(d) /\ Seeking(d)' /\ Kept(d)' /\ Use(d)' = Use(d)
      BY <2>2, <2>4, <2>8 DEF Enters, Kept, Use
    <3>2. ASSUME protocol = "text" PROVE TextObject(d)'
      BY <1>1, <2>1, <2>2, <2>3, <3>1, <3>2 DEF Object, TextObject, Alive
    <3>3. PackageObject(d)'
      BY <3>1 DEF PackageObject
    <3> QED BY <1>1, <2>1, <2>5, <3>2, <3>3 DEF Object, Alive
  <2> QED BY <2>7, <2>8
<1> QED BY <1>6, <1>7, <1>9, <1>10 DEF ObjectInv, Objects

-----------------------------------------------------------------------------
(* The bare server has no objects. *)
LEMMA BareKeeps ==
  ASSUME ObjectInv, protocol = "base", protocol' = protocol, UNCHANGED mapVars,
         receive' = receive \/ \E w \in Workers : receive' = [receive EXCEPT ![w] = "no"],
         leave' = leave \/ (leave' \in [Agents -> {"no"}])
  PROVE  ObjectInv'
<1>1. /\ ObjectTypes /\ Places
      /\ object' = object /\ refs' = refs /\ entry' = entry /\ reborn' = reborn
  BY DEF ObjectInv, mapVars
<1>2. /\ \A w \in Workers : receive[w] = "no"
      /\ \A a \in Agents : leave[a] = "no"
  BY <1>1 DEF Places
<1>3. /\ receive' \in [Workers -> {"no"}]
      /\ leave' \in [Agents -> {"no"}]
  BY <1>1, <1>2 DEF ObjectTypes
<1>4. ObjectTypes'
  BY <1>1, <1>3 DEF ObjectTypes
<1>5. (\A w \in Workers : receive'[w] = "no") /\ (\A a \in Agents : leave'[a] = "no")
  BY <1>3
<1>6. Places' /\ OneLeaver'
  BY <1>5 DEF Places, OneLeaver, Agents
<1> QED BY <1>4, <1>6 DEF ObjectInv, Objects

LEMMA OpenIsLive ==
  ASSUME IInv, DeadAreClosed, NEW c \in Contexts, Open(c)
  PROVE  Live(c)
  BY DEF IInv, TypeOK, Context, NotYet, DeadAreClosed, Live, Open

(* CloseClient. *)
LEMMA CloseKeeps ==
  ASSUME IInv, ObjectInv, NEW w \in Workers, Close(w)
  PROVE  ObjectInv'
<1>0. /\ ObjectTypes /\ Places /\ client \in [Contexts -> Context]
      /\ next \in [Workers -> {"idle", "release", "firstRead", "nextRead"}] /\ DOMAIN pc = Workers
      /\ protocol' = protocol /\ UNCHANGED mapVars /\ receive' = receive
  BY DEF ObjectInv, IInv, TypeOK, WorkersTyped, Close
<1>1. /\ pc[w] = "close" /\ ctx[w] \in Contexts /\ Live(ctx[w]) /\ ctx' = ctx /\ leaked' = leaked
      /\ next[w] # "idle" /\ Client(w) = ctx[w] /\ w \in Agents /\ leave[w] = "no"
  <2>1. pc[w] = "close" /\ ctx' = ctx /\ leaked' = leaked
    BY DEF Close, CloseClient, serverVars
  <2> QED BY <1>0, <2>1 DEF IInv, Positions, Free, Client, Agents, Places
<1>2. /\ pc' = [pc EXCEPT ![w] = IF Open(ctx[w]) THEN "closed" ELSE next[w]]
      /\ next' = [next EXCEPT ![w] = IF Open(ctx[w]) THEN @ ELSE "idle"]
      /\ leave' = [leave EXCEPT ![w] = IF Open(ctx[w]) THEN Called ELSE "no"]
  BY DEF Close, CloseClient
<1>3. \A d \in Contexts : /\ client'[d].life = client[d].life
                          /\ d = ctx[w] => ~client'[d].open
                          /\ d # ctx[w] => client'[d].open = client[d].open
  BY <1>0, <1>1 DEF Close, CloseClient, Context
<1>4. CASE protocol = "base"
  <2>1. \A a \in Agents : leave[a] = "no"
    BY <1>0, <1>4 DEF Places
  <2>2. leave' \in [Agents -> {"no"}]
    BY <1>0, <1>1, <1>2, <1>4, <2>1 DEF Called, ObjectTypes
  <2> QED BY <1>0, <1>4, <2>2, BareKeeps
<1>5. CASE protocol # "base" /\ Open(ctx[w])
  <2> DEFINE N == {w}
  <2>1. /\ leave' \in [Agents -> {"no", "find", "found", "erase"}] /\ leave'[w] = "find"
        /\ \A a \in Agents : a # w => leave'[a] = leave[a]
    BY <1>0, <1>1, <1>2, <1>5 DEF Called, ObjectTypes
  <2>2. \A u \in Workers : /\ next'[u] = next[u]
                           /\ u = w => pc[u] = "close" /\ pc'[u] = "closed"
                           /\ u # w => pc'[u] = pc[u]
    BY <1>0, <1>1, <1>2, <1>5
  <2>3. \A d \in Contexts : /\ client'[d].life = client[d].life
                            /\ (\E a \in N : Client(a) = d) => ~client'[d].open
                            /\ (\A a \in N : Client(a) # d) => client'[d].open = client[d].open
    BY <1>1, <1>3
  <2>4. Enters(N)
    BY <1>0, <1>1, <1>5, <2>1, <2>2, <2>3 DEF Enters
  <2> QED BY <1>5, <2>4, EntersKeeps
<1>6. CASE protocol # "base" /\ ~Open(ctx[w])
  <2>1. pc'[w] = next[w] /\ next'[w] = "idle" /\ leave' = leave
        /\ \A u \in Workers \ {w} : pc'[u] = pc[u] /\ next'[u] = next[u]
    BY <1>0, <1>1, <1>2, <1>6 DEF ObjectTypes
  <2>2. SameSockets
    <3>1. ~client[ctx[w]].open /\ client[ctx[w]].open \in BOOLEAN /\ client'[ctx[w]].open = FALSE
      BY <1>0, <1>1, <1>6 DEF Context, Open, Close, CloseClient
    <3> QED BY <1>3, <3>1 DEF SameSockets
  <2>3. next[w] \in {"release", "nextRead"}
    BY <1>0, <1>1, <1>6 DEF Places
  <2>4. receive[w] # "no" => next[w] = "nextRead"
    BY <1>0, <1>1 DEF Places, InReceipt
  <2>5. UNCHANGED protocolVars
    BY <1>0, <2>1 DEF protocolVars
  <2>6. Calm(w)
    BY <1>1, <2>1, <2>2, <2>3, <2>4 DEF Calm, InReceipt, Entering
  <2> QED BY <2>5, <2>6, CalmKeeps
<1> QED BY <1>4, <1>5, <1>6

(* A failed Send, or Shutdown. *)
LEMMA OutsideKeeps ==
  ASSUME IInv, ObjectInv, DeadAreClosed, ClosedOutside, ~TableLocked,
         UNCHANGED <<protocol, mapVars, receive, workerVars, leaked>>,
         \A d \in Contexts : /\ client'[d].life = client[d].life
                             /\ client'[d].open = client[d].open \/ client'[d].open = FALSE
  PROVE  ObjectInv'
<1>0. /\ ObjectTypes /\ Places /\ client \in [Contexts -> Context]
      /\ protocol' = protocol /\ UNCHANGED mapVars /\ receive' = receive
      /\ pc' = pc /\ ctx' = ctx /\ next' = next /\ leaked' = leaked
  BY DEF ObjectInv, IInv, TypeOK, workerVars
<1> DEFINE N == {a \in Contexts : Open(a) /\ ~Open(a)'}
<1>1. leave' = [a \in Agents |-> IF a \in N THEN Called ELSE leave[a]]
  BY DEF ClosedOutside
<1>2. \A a \in N : a \in Agents /\ a \notin Workers /\ Client(a) = a
  BY AgentsAssumption DEF Agents, Client
<1>3. CASE protocol = "base"
  <2>1. \A a \in Agents : leave[a] = "no"
    BY <1>0, <1>3 DEF Places
  <2>2. leave' \in [Agents -> {"no"}]
    BY <1>1, <1>3, <2>1 DEF Called
  <2> QED BY <1>0, <1>3, <2>2, BareKeeps
<1>4. CASE protocol # "base"
  <2>1. /\ leave' \in [Agents -> {"no", "find", "found", "erase"}]
        /\ \A a \in Agents : a \in N => leave'[a] = "find"
        /\ \A a \in Agents : a \notin N => leave'[a] = leave[a]
    BY <1>0, <1>1, <1>4 DEF Called, ObjectTypes
  <2>2. \A a \in N : a \in Contexts /\ Open(a) /\ Live(a)
    BY OpenIsLive
  <2>3. ASSUME NEW d \in Contexts
        PROVE  /\ (\E a \in N : Client(a) = d) => ~client'[d].open
               /\ (\A a \in N : Client(a) # d) => client'[d].open = client[d].open
    <3>1. (\E a \in N : Client(a) = d) <=> d \in N
      BY <1>2
    <3>2. d \in N => ~client'[d].open
      BY DEF Open
    <3>3. client[d].open \in BOOLEAN
      BY <1>0 DEF Context
    <3>4. d \notin N => client'[d].open = client[d].open
      <4>1. CASE client'[d].open = client[d].open
        BY <4>1
      <4>2. CASE client'[d].open = FALSE /\ d \notin N
        BY <3>3, <4>2 DEF Open
      <4> QED BY <4>1, <4>2
    <3> QED BY <3>1, <3>2, <3>4
  <2> HIDE DEF N
  <2>4. Enters(N)
    BY <1>0, <1>2, <2>1, <2>2, <2>3 DEF Enters
  <2> QED BY <1>4, <2>4, EntersKeeps
<1> QED BY <1>3, <1>4

LEMMA SendKeeps ==
  ASSUME IInv, ObjectInv, DeadAreClosed, NEW c \in Contexts, SendTo(c)
  PROVE  ObjectInv'
<1>0. client \in [Contexts -> Context] /\ Send(c) /\ Open(c) /\ Live(c)
  BY DEF IInv, TypeOK, SendTo, Send, Announced
<1>1. client[c].pending # 0
  BY <1>0 DEF IInv, LastReferenceClosed
<1>2. ASSUME NEW d \in Contexts
      PROVE  /\ client'[d].life = client[d].life
             /\ client'[d].open = client[d].open \/ client'[d].open = FALSE
  <2>1. CASE SendQueued(c)
    BY <1>0, <2>1 DEF SendQueued, Context
  <2>2. CASE SendPosted(c)
    BY <1>0, <2>2 DEF SendPosted, Context
  <2>3. CASE SendFailed(c)
    <3>1. client' = [client EXCEPT ![c] = [@ EXCEPT !.reader = TRUE, !.open = FALSE]]
      BY <1>1, <2>3 DEF SendFailed
    <3> QED BY <1>0, <3>1 DEF Context
  <2> QED BY <1>0, <2>1, <2>2, <2>3 DEF Send
<1>3. UNCHANGED <<protocol, mapVars, receive, workerVars, leaked>>
  BY DEF SendTo, Send
<1> QED BY <1>2, <1>3, OutsideKeeps DEF SendTo

LEMMA CloseAllKeeps ==
  ASSUME IInv, ObjectInv, DeadAreClosed, CloseAll
  PROVE  ObjectInv'
<1>1. ASSUME NEW d \in Contexts
      PROVE  /\ client'[d].life = client[d].life
             /\ client'[d].open = client[d].open \/ client'[d].open = FALSE
  BY DEF CloseAll, CloseClients, IInv, TypeOK, Context
<1>2. UNCHANGED <<protocol, mapVars, receive, workerVars, leaked>>
  BY DEF CloseAll, CloseClients
<1> QED BY <1>1, <1>2, OutsideKeeps DEF CloseAll

-----------------------------------------------------------------------------
(* A worker enters NotifyReceivedPackage, or leaves it.                    *)
ReadStep(w, there) ==
  /\ UNCHANGED <<protocol, mapVars, leave, leaked>>
  /\ \A u \in Workers \ {w} : pc'[u] = pc[u] /\ ctx'[u] = ctx[u] /\ next'[u] = next[u]
  /\ SameSockets
  /\ leave[w] = "no" /\ receive[w] \in {"no", "done"}
  /\ receive' = [receive EXCEPT ![w] = there]
  /\ there = "no" \/ (there = "get" /\ protocol # "base" /\ pc'[w] = "received")
  /\ {pc[w], pc'[w]} \cap {"register", "announce", "firstRead", "closed"} = {}
  /\ pc'[w] = "close" => next'[w] = "release"

LEMMA ReadKeeps ==
  ASSUME IInv, ObjectInv, NEW w \in Workers, NEW there, ReadStep(w, there)
  PROVE  ObjectInv'
<1>1. /\ ObjectTypes /\ Places /\ OneLeaver /\ Objects
      /\ protocol' = protocol /\ leave' = leave /\ leaked' = leaked
      /\ object' = object /\ refs' = refs /\ entry' = entry /\ reborn' = reborn
      /\ leave[w] = "no"
  BY DEF ObjectInv, ReadStep, mapVars
<1>2. ASSUME NEW u \in Workers, u # w
      PROVE  /\ pc'[u] = pc[u] /\ ctx'[u] = ctx[u] /\ next'[u] = next[u]
             /\ receive'[u] = receive[u]
  BY <1>1, <1>2 DEF ReadStep, ObjectTypes
<1>3. receive'[w] = there /\ there \in {"no", "get"} /\ receive[w] \in {"no", "done"}
  BY <1>1 DEF ReadStep, ObjectTypes
<1>4. ASSUME NEW a \in Agents, leave[a] # "no" PROVE Client(a)' = Client(a)
  <2>1. a # w
    BY <1>1, <1>4
  <2> QED BY <1>2, <2>1 DEF Client
<1>5. ObjectTypes'
  BY <1>1, <1>3 DEF ObjectTypes, ReadStep
<1>6. OneLeaver'
  BY <1>1, <1>4 DEF OneLeaver
<1>7. Places'
  <2>1. ASSUME NEW u \in Workers
        PROVE  /\ receive'[u] # "no" => protocol' # "base" /\ InReceipt(u)'
               /\ leave'[u] # "no" => pc'[u] = "closed"
               /\ protocol' # "base" /\ pc'[u] \in {"close", "closed"} => next'[u] # "firstRead"
    <3>1. CASE u = w
      BY <1>1, <1>3, <3>1 DEF ReadStep, InReceipt
    <3>2. CASE u # w
      BY <1>1, <1>2, <3>2 DEF Places, InReceipt
    <3> QED BY <3>1, <3>2
  <2>2. ASSUME NEW d \in Contexts, leave'[d] # "no" PROVE Live(d)'
    BY <1>1, <2>2 DEF ReadStep, SameSockets, Places, Live
  <2>3. ASSUME NEW a \in Agents
        PROVE  /\ leave'[a] # "no" => protocol' # "base" /\ ~Open(Client(a))'
               /\ leave'[a] \in {"found", "erase"} => protocol' = "text"
    <3>1. CASE leave[a] = "no"
      BY <1>1, <3>1
    <3>2. CASE leave[a] # "no"
      <4>1. Client(a) \in Contexts /\ Client(a)' = Client(a)
        BY <1>1, <1>4, <3>2, ClientIs
      <4>2. Open(Client(a))' = Open(Client(a))
        BY <4>1 DEF ReadStep, SameSockets, Open
      <4> QED BY <1>1, <3>2, <4>2 DEF Places
    <3> QED BY <3>1, <3>2
  <2> QED BY <2>1, <2>2, <2>3 DEF Places
<1>8. ASSUME NEW c \in Contexts, Object(c) PROVE Object(c)'
  <2>1. (Seeking(c)' <=> Seeking(c)) /\ (Erasing(c)' <=> Erasing(c))
    BY <1>1, <1>4 DEF Seeking, Erasing
  <2>2. (Using(c)' <=> Using(c)) /\ (Dropping(c)' <=> Dropping(c))
    BY <1>2, <1>3 DEF Using, Dropping
  <2>3. \A u \in Workers : Entering(u, c)' <=> Entering(u, c)
    BY <1>2 DEF ReadStep, Entering
  <2>4. Missed(c) => Missed(c)'
    BY <1>1, <1>2 DEF ReadStep, Missed
  <2>5. SameClient(c)
    BY <2>3, <2>4 DEF ReadStep, SameSockets, SameClient, Expected
  <2>6. SameObject(c) /\ SameUsers(c)
    BY <1>1, <2>1, <2>2 DEF SameObject, SameUsers
  <2> QED BY <1>1, <1>8, <2>5, <2>6, ObjectKept
<1> QED BY <1>1, <1>5, <1>6, <1>7, <1>8 DEF ObjectInv, Objects

LEMMA TakeReceivedKeeps ==
  ASSUME IInv, ObjectInv, NEW w \in Workers, NEW c \in Contexts, TakeReceived(w, c)
  PROVE  ObjectInv'
<1> DEFINE there == IF protocol # "base" /\ pc'[w] = "received" THEN "get" ELSE "no"
<1>0. /\ client \in [Contexts -> Context] /\ DOMAIN pc = Workers /\ DOMAIN ctx = Workers
      /\ DOMAIN next = Workers /\ Places
  BY DEF IInv, TypeOK, WorkersTyped, ObjectInv
<1>1. /\ pc[w] = "idle" /\ leaked' = leaked /\ UNCHANGED <<protocol, mapVars, leave>>
      /\ client' = [client EXCEPT ![c].reads = @ - 1]
      /\ ctx' = [ctx EXCEPT ![w] = c] /\ receive' = [receive EXCEPT ![w] = there]
  BY DEF TakeReceived, TakeRead, serverVars
<1>2. /\ \A u \in Workers \ {w} : pc'[u] = pc[u] /\ next'[u] = next[u]
      /\ pc'[w] = "received" \/ (pc'[w] = "close" /\ next'[w] = "release")
  BY <1>0 DEF TakeReceived, TakeRead
<1>3. SameSockets
  BY <1>0, <1>1 DEF SameSockets, Context
<1>4. leave[w] = "no" /\ receive[w] = "no"
  BY <1>0, <1>1 DEF Places, InReceipt
<1>5. \A u \in Workers \ {w} : ctx'[u] = ctx[u]
  BY <1>0, <1>1
<1>6. there = "no" \/ (there = "get" /\ protocol # "base" /\ pc'[w] = "received")
  OBVIOUS
<1>7. ReadStep(w, there)
  BY <1>1, <1>2, <1>3, <1>4, <1>5, <1>6 DEF ReadStep
<1> QED BY <1>7, ReadKeeps

LEMMA ReadOnKeeps ==
  ASSUME IInv, ObjectInv, NEW w \in Workers, ReadOn(w)
  PROVE  ObjectInv'
<1>0. /\ client \in [Contexts -> Context] /\ DOMAIN pc = Workers /\ DOMAIN ctx = Workers
      /\ DOMAIN next = Workers /\ Places
  BY DEF IInv, TypeOK, WorkersTyped, ObjectInv
<1>1. /\ pc[w] = "nextRead" /\ leaked' = leaked /\ UNCHANGED <<protocol, mapVars, leave>>
      /\ receive[w] \in {"no", "done"} /\ receive' = [receive EXCEPT ![w] = "no"]
  BY DEF ReadOn, PostClientIoRead
<1>2. /\ \A u \in Workers \ {w} : pc'[u] = pc[u] /\ ctx'[u] = ctx[u] /\ next'[u] = next[u]
      /\ pc'[w] = "idle" \/ (pc'[w] = "close" /\ next'[w] = "release")
  BY <1>0 DEF ReadOn, PostClientIoRead, Goto, GotoClose
<1>3. SameSockets
  BY <1>0 DEF ReadOn, PostClientIoRead, SameSockets, Context
<1>4. leave[w] = "no"
  BY <1>0, <1>1 DEF Places
<1>5. ReadStep(w, "no")
  BY <1>1, <1>2, <1>3, <1>4 DEF ReadStep
<1> QED BY <1>5, ReadKeeps

-----------------------------------------------------------------------------
(* The life of a client and of its object. *)

(* The table changes: a worker begins or ends with a client in no callback.*)
TableStep(w, c) ==
  /\ UNCHANGED protocolVars
  /\ \A u \in Workers \ {w} : pc'[u] = pc[u] /\ ctx'[u] = ctx[u] /\ next'[u] = next[u]
  /\ {pc[w], pc'[w]} \subseteq {"allocate", "register", "delete", "idle"}
  /\ \A d \in Contexts : d # c => client'[d].life = client[d].life /\ client'[d].open = client[d].open
  /\ leaked' = leaked
  /\ \A d \in Contexts : d # c => (Entering(w, d)' <=> Entering(w, d))

LEMMA TableKeeps ==
  ASSUME IInv, ObjectInv, NEW w \in Workers, NEW c \in Contexts, TableStep(w, c),
         \A a \in Agents : Client(a) = c => leave[a] = "no",
         protocol # "base" /\ SameUsers(c) => Object(c)'
  PROVE  ObjectInv'
<1>1. /\ ObjectTypes /\ Places /\ OneLeaver /\ Objects
      /\ protocol' = protocol /\ object' = object /\ refs' = refs /\ entry' = entry
      /\ reborn' = reborn /\ receive' = receive /\ leave' = leave
  BY DEF ObjectInv, TableStep, protocolVars, mapVars
<1>2. ASSUME NEW u \in Workers, u # w
      PROVE  pc'[u] = pc[u] /\ ctx'[u] = ctx[u] /\ next'[u] = next[u]
  BY <1>2 DEF TableStep
<1>3. /\ receive[w] = "no" /\ leave[w] = "no"
      /\ pc'[w] \notin {"close", "closed"}
  BY <1>1 DEF TableStep, Places, InReceipt
<1>4. ASSUME NEW a \in Agents, leave[a] # "no"
      PROVE  Client(a)' = Client(a) /\ Client(a) \in Contexts /\ Client(a) # c
  <2>1. a # w
    BY <1>3, <1>4
  <2>2. Client(a)' = Client(a)
    BY <1>2, <2>1 DEF Client
  <2> QED BY <1>1, <1>4, <2>2, ClientIs
<1>5. Steady
  <2>1. \A u \in Workers : receive[u] # "no" => ctx'[u] = ctx[u]
    BY <1>2, <1>3
  <2> QED BY <1>1, <1>4, <2>1 DEF Steady
<1>6. ObjectTypes' /\ OneLeaver'
  BY <1>1, <1>5, SteadyLeaver DEF ObjectTypes
<1>7. Places'
  <2>1. ASSUME NEW u \in Workers
        PROVE  /\ receive'[u] # "no" => protocol' # "base" /\ InReceipt(u)'
               /\ leave'[u] # "no" => pc'[u] = "closed"
               /\ protocol' # "base" /\ pc'[u] \in {"close", "closed"} => next'[u] # "firstRead"
    <3>1. CASE u = w
      BY <1>1, <1>3, <3>1
    <3>2. CASE u # w
      BY <1>1, <1>2, <3>2 DEF Places, InReceipt
    <3> QED BY <3>1, <3>2
  <2>2. ASSUME NEW d \in Contexts, leave'[d] # "no" PROVE Live(d)'
    <3>1. d \in Agents /\ Client(d) = d
      BY AgentsAssumption DEF Agents, Client
    <3>2. d # c
      BY <1>1, <1>4, <2>2, <3>1
    <3> QED BY <1>1, <2>2, <3>2 DEF TableStep, Places, Live
  <2>3. ASSUME NEW a \in Agents
        PROVE  /\ leave'[a] # "no" => protocol' # "base" /\ ~Open(Client(a))'
               /\ leave'[a] \in {"found", "erase"} => protocol' = "text"
    <3>1. CASE leave[a] = "no"
      BY <1>1, <3>1
    <3>2. CASE leave[a] # "no"
      <4>1. Open(Client(a))' = Open(Client(a))
        BY <1>4, <3>2 DEF TableStep, Open
      <4> QED BY <1>1, <3>2, <4>1 DEF Places
    <3> QED BY <3>1, <3>2
  <2> QED BY <2>1, <2>2, <2>3 DEF Places
<1>8. ASSUME NEW d \in Contexts, protocol # "base" PROVE Object(d)'
  <2>1. Object(d) /\ SameUsers(d) /\ SameObject(d)
    BY <1>1, <1>5, <1>8, SteadyUsers DEF Objects, SameObject
  <2>2. CASE d = c
    BY <1>8, <2>1, <2>2
  <2>3. CASE d # c
    <3>1. \A u \in Workers : Entering(u, d)' <=> Entering(u, d)
      BY <1>2, <2>3 DEF TableStep, Entering
    <3>2. Missed(d) => Missed(d)'
      BY <1>2 DEF TableStep, Missed
    <3>3. SameClient(d)
      BY <2>3, <3>1, <3>2 DEF TableStep, SameClient, Expected
    <3> QED BY <1>1, <2>1, <3>3, ObjectKept
  <2> QED BY <2>2, <2>3
<1> QED BY <1>1, <1>6, <1>7, <1>8 DEF ObjectInv, Objects

(* AddContext: the object is still to come. *)
LEMMA AddKeeps ==
  ASSUME IInv, ObjectInv, NEW w \in Workers, NEW c \in Contexts, AddContext(w, c),
         UNCHANGED protocolVars
  PROVE  ObjectInv'
<1>0. /\ ObjectTypes /\ Places /\ Objects
      /\ protocol' = protocol /\ object' = object /\ refs' = refs /\ entry' = entry
      /\ reborn' = reborn
      /\ client \in [Contexts -> Context] /\ DOMAIN pc = Workers /\ DOMAIN ctx = Workers
      /\ ctx[w] \notin Contexts
  BY SetsAssumption DEF ObjectInv, IInv, TypeOK, WorkersTyped, Positions, Free, AddContext,
                        protocolVars, mapVars
<1>1. /\ pc[w] = "allocate" /\ pc'[w] = "register" /\ ctx'[w] = c /\ next' = next /\ leaked' = leaked
      /\ client[c].life = "none" /\ client' = [client EXCEPT ![c] = Accepted]
      /\ \A u \in Workers \ {w} : pc'[u] = pc[u] /\ ctx'[u] = ctx[u]
  BY <1>0 DEF AddContext, serverVars
<1>2. client'[c].life = "live" /\ \A d \in Contexts : d # c => client'[d] = client[d]
  BY <1>0, <1>1 DEF Accepted, NoClient
<1>3. TableStep(w, c)
  BY <1>0, <1>1, <1>2 DEF TableStep, Entering
<1>4. \A a \in Agents : Client(a) = c => leave[a] = "no"
  BY <1>0, <1>1, ClientIs DEF Live
<1>5. ASSUME protocol # "base", SameUsers(c) PROVE Object(c)'
  <2>1. Object(c) /\ object[c] = "none" /\ ~Alive(c)
    BY <1>0, <1>1, <1>5 DEF Objects, Object, Expected, Alive
  <2>2. Expected(c)'
    BY <1>1 DEF Expected, Entering
  <2>3. protocol = "text" => TextObject(c)'
    <3>1. protocol = "text" => ~Erasing(c) /\ ~Dropping(c) /\ c \notin reborn
      BY <2>1 DEF Object, TextObject
    <3> QED BY <1>0, <1>5, <2>1, <3>1 DEF SameUsers, TextObject, Alive
  <2>4. PackageObject(c)'
    BY <1>0, <2>1 DEF PackageObject, Alive
  <2> QED BY <1>0, <1>2, <2>1, <2>2, <2>3, <2>4 DEF Object, Alive
<1> QED BY <1>3, <1>4, <1>5, TableKeeps

(* DeleteContext: nobody is left who could use the object, so it has been  *)
(* deleted.                                                                *)
LEMMA DeleteKeeps ==
  ASSUME IInv, ObjectInv, NEW w \in Workers, DeleteContext(w), ~TableLocked,
         UNCHANGED protocolVars
  PROVE  ObjectInv'
<1>0. PICK c : c = ctx[w]
  OBVIOUS
<1>1. /\ ObjectTypes /\ Places /\ Objects
      /\ protocol' = protocol /\ object' = object /\ refs' = refs /\ entry' = entry
      /\ reborn' = reborn
      /\ client \in [Contexts -> Context] /\ DOMAIN pc = Workers /\ DOMAIN ctx = Workers
      /\ pc[w] = "delete" /\ pc'[w] = "idle" /\ next' = next /\ leaked' = leaked
      /\ client' = [client EXCEPT ![c] = Freed(@)]
      /\ \A u \in Workers \ {w} : pc'[u] = pc[u] /\ ctx'[u] = ctx[u]
  BY <1>0 DEF ObjectInv, IInv, TypeOK, WorkersTyped, DeleteContext, Goto, serverVars,
              protocolVars, mapVars
<1>2. /\ c \in Contexts /\ Live(c) /\ c \notin leaked /\ client[c].pending = 0
      /\ \A u \in Workers : ctx[u] = c => u = w
  BY <1>0, <1>1, NoReference DEF IInv
<1>3. ~Open(c)
  BY <1>2 DEF IInv, LastReferenceClosed
<1>4. /\ client'[c].life = "freed" /\ client'[c].open = client[c].open
      /\ \A d \in Contexts : d # c => client'[d] = client[d]
  BY <1>1, <1>2 DEF Freed, Context
<1>5. TableStep(w, c)
  BY <1>1, <1>4 DEF TableStep, Entering
<1>6. \A a \in Agents : Client(a) = c => leave[a] = "no"
  <2> SUFFICES ASSUME NEW a \in Agents, Client(a) = c, leave[a] # "no" PROVE FALSE
    OBVIOUS
  <2>1. CASE a \in Workers
    BY <1>1, <1>2, <2>1 DEF Client, Places
  <2>2. CASE a \notin Workers
    BY <2>2 DEF Agents, TableLocked
  <2> QED BY <2>1, <2>2
<1>7. /\ ~Seeking(c) /\ ~Erasing(c) /\ ~Kept(c)
  BY <1>3, <1>6 DEF Seeking, Erasing, Kept
<1>8. ~Using(c) /\ ~Dropping(c) /\ ~Missed(c) /\ ~Expected(c) /\ ~Expected(c)'
  <2>1. receive[w] = "no"
    BY <1>1 DEF Places, InReceipt
  <2>2. ~Using(c) /\ ~Dropping(c)
    BY <1>2, <2>1 DEF Using, Dropping
  <2>3. ~Missed(c) /\ ~Expected(c)
    BY <1>1, <1>2 DEF Missed, Expected, Entering, Live
  <2>4. ~Expected(c)'
    BY <1>1, <1>2, <1>4 DEF Expected, Entering
  <2> QED BY <2>2, <2>3, <2>4
<1>9. ASSUME protocol # "base", SameUsers(c) PROVE Object(c)'
  <2>1. Object(c) /\ object[c] # "none"
    BY <1>1, <1>2, <1>8, <1>9 DEF Objects, Object
  <2>2. ~Alive(c)
    <3>1. CASE protocol = "text"
      <4>1. TextObject(c) /\ Use(c) = 0
        BY <1>8, <2>1, <3>1 DEF Object, Use
      <4>2. refs[c] = 0
        BY <1>7, <1>8, <2>1, <4>1 DEF TextObject
      <4> QED BY <1>7, <1>8, <4>1, <4>2 DEF TextObject, Alive
    <3>2. CASE protocol = "package"
      BY <1>3, <1>7, <1>8, <2>1, <3>2 DEF Object, PackageObject
    <3> QED BY <1>1, <1>9, <3>1, <3>2 DEF ObjectTypes
  <2>3. object[c] = "deleted"
    BY <1>1, <1>2, <2>1, <2>2 DEF ObjectTypes, Alive
  <2>4. /\ protocol = "text" => TextObject(c)'
        /\ protocol = "package" => PackageObject(c)'
    <3>1. SameObject(c) /\ Open(c)' = Open(c)
      BY <1>1, <1>4 DEF SameObject, Open
    <3> QED BY <1>1, <1>2, <1>8, <1>9, <2>1, <3>1, PartsKept
  <2> QED BY <1>1, <1>8, <2>1, <2>3, <2>4 DEF Object, Alive
<1> QED BY <1>2, <1>5, <1>6, <1>9, TableKeeps

(* NotifyNewConnection enters the object, with the map's reference.        *)
LEMMA NewKeeps ==
  ASSUME IInv, ObjectInv, NEW w \in Workers, NewObject(w)
  PROVE  ObjectInv'
<1>0. PICK c : c = ctx[w]
  OBVIOUS
<1>1. /\ ObjectTypes /\ Places /\ OneLeaver /\ Objects
      /\ protocol # "base" /\ protocol' = protocol /\ receive' = receive /\ leave' = leave
      /\ reborn' = reborn
      /\ object' = [object EXCEPT ![c] = "alive"] /\ refs' = [refs EXCEPT ![c] = 1]
      /\ entry' = [entry EXCEPT ![c] = "object"]
      /\ client' = client /\ leaked' = leaked /\ DOMAIN pc = Workers
  BY <1>0 DEF ObjectInv, NewObject, NotifyNewConnection, serverVars, IInv, TypeOK, WorkersTyped
<1>2. /\ pc[w] = "announce" /\ pc'[w] = "firstRead" /\ ctx' = ctx /\ next' = next
      /\ \A u \in Workers \ {w} : pc'[u] = pc[u]
  BY <1>1 DEF NewObject, NotifyNewConnection, Goto, GotoClose
<1>3. c \in Contexts /\ Live(c) /\ HasRead(w)
  BY <1>0, <1>2 DEF IInv, Positions, Free, HasRead
<1>4. \A u \in Workers : ctx[u] = c /\ HasRead(u) => u = w
  BY <1>0, <1>3 DEF IInv, Reading
<1>5. Steady
  BY <1>1, <1>2 DEF Steady, Client
<1>6. receive[w] = "no" /\ leave[w] = "no"
  BY <1>1, <1>2 DEF Places, InReceipt
<1>7. /\ ObjectTypes' /\ OneLeaver' /\ object'[c] = "alive" /\ refs'[c] = 1 /\ entry'[c] = "object"
      /\ \A d \in Contexts : d # c => SameObject(d)
  BY <1>1, <1>3, <1>5, SteadyLeaver DEF ObjectTypes, SameObject
<1>8. Places'
  <2>1. ASSUME NEW u \in Workers
        PROVE  /\ receive'[u] # "no" => protocol' # "base" /\ InReceipt(u)'
               /\ leave'[u] # "no" => pc'[u] = "closed"
               /\ protocol' # "base" /\ pc'[u] \in {"close", "closed"} => next'[u] # "firstRead"
    <3>1. CASE u = w
      BY <1>1, <1>2, <1>6, <3>1
    <3>2. CASE u # w
      BY <1>1, <1>2, <3>2 DEF Places, InReceipt
    <3> QED BY <3>1, <3>2
  <2> QED BY <1>1, <1>2, <2>1 DEF Places, Live, Open, Client
<1>9. ASSUME NEW d \in Contexts PROVE Object(d)'
  <2>1. Object(d) /\ SameUsers(d)
    BY <1>1, <1>5, <1>9, SteadyUsers DEF Objects
  <2>2. CASE d # c
    <3>1. \A u \in Workers : Entering(u, d)' <=> Entering(u, d)
      BY <1>0, <1>2, <2>2 DEF Entering
    <3>2. Missed(d) => Missed(d)'
      BY <1>0, <1>1, <1>2, <2>2 DEF Missed
    <3>3. SameClient(d)
      BY <1>1, <3>1, <3>2 DEF SameClient, Expected
    <3> QED BY <1>1, <1>7, <2>1, <2>2, <3>3, ObjectKept
  <2>3. CASE d = c
    <3>1. Expected(c) /\ object[c] = "none"
      BY <1>0, <1>2, <1>9, <2>1, <2>3 DEF Object, Expected, Entering
    <3>2. ~Expected(c)' /\ client'[c].life = "live"
      <4>1. \A u \in Workers : ~Entering(u, c)'
        <5> SUFFICES ASSUME NEW u \in Workers, ctx'[u] = c, pc'[u] \in {"register", "announce"}
                     PROVE  FALSE
          BY DEF Entering
        <5>1. u # w
          BY <1>2
        <5>2. ctx[u] = c /\ HasRead(u)
          BY <1>2, <5>1 DEF HasRead
        <5> QED BY <1>4, <5>1, <5>2
      <4> QED BY <1>1, <1>3, <4>1 DEF Expected, Live
    <3>3. Missed(c)'
      BY <1>0, <1>2 DEF Missed
    <3>4. ~Using(c)
      <4> SUFFICES ASSUME NEW u \in Workers, ctx[u] = c, receive[u] # "no" PROVE FALSE
        BY DEF Using
      <4>1. InReceipt(u)
        BY <1>1 DEF Places
      <4>2. u = w
        BY <1>4, <4>1 DEF InReceipt, HasRead
      <4> QED BY <1>6, <4>2
    <3>5. Use(c)' = 0
      BY <2>1, <2>3, <3>4 DEF SameUsers, Use
    <3>6. ASSUME protocol = "text" PROVE TextObject(c)'
      <4>1. ~Erasing(c) /\ ~Dropping(c) /\ c \notin reborn
        BY <2>1, <2>3, <3>1, <3>6 DEF Object, TextObject
      <4>2. ~Erasing(c)' /\ ~Dropping(c)' /\ c \notin reborn'
        BY <1>1, <2>1, <2>3, <4>1 DEF SameUsers
      <4> QED BY <1>7, <3>3, <3>5, <4>2 DEF TextObject, Alive
    <3>7. PackageObject(c)'
      BY <3>3 DEF PackageObject
    <3> QED BY <1>1, <1>7, <2>3, <3>2, <3>6, <3>7 DEF Object, Alive
  <2> QED BY <2>2, <2>3
<1> QED BY <1>1, <1>7, <1>8, <1>9 DEF ObjectInv, Objects

-----------------------------------------------------------------------------
LEMMA HandleKeeps ==
  ASSUME IInv, ObjectInv, NEW w \in Workers, ProtocolHandle(w)
  PROVE  ObjectInv'
<1>1. CASE NewObject(w) \/ GetObject(w) \/ UseObject(w) \/ UseAgain(w)
  BY <1>1, NewKeeps, GetKeeps, UseKeeps
<1>2. CASE ReleaseObject(w) \/ EraseReleased(w)
  BY <1>2, ReleaseKeeps, EraseReleasedKeeps
<1>3. CASE NothingReceived(w)
  BY <1>3, NothingCalm, CalmKeeps DEF NothingReceived
<1>4. CASE Close(w) \/ ReadOn(w)
  BY <1>4, CloseKeeps, ReadOnKeeps
<1>5. CASE Unlocked(w) /\ UNCHANGED protocolVars
  <2>1. ASSUME NEW c \in Contexts, AddContext(w, c) PROVE ObjectInv'
    BY <1>5, <2>1, AddKeeps
  <2>2. CASE DeleteContext(w)
    BY <1>5, <2>2, DeleteKeeps DEF Unlocked
  <2>3. CASE TakeNull(w)
    BY <1>5, <2>3, TakeCalm, CalmKeeps
  <2> QED BY <1>5, <2>1, <2>2, <2>3 DEF Unlocked
<1>6. CASE BareCallback(w) /\ UNCHANGED protocolVars
  BY <1>6, BareKeeps DEF BareCallback, protocolVars
<1>7. CASE Untouched(w) /\ UNCHANGED protocolVars
  <2>1. CASE Calm(w)
    BY <1>7, <2>1, CalmKeeps
  <2>2. CASE UNCHANGED <<client, pc, ctx, next, leaked>>
    BY <1>7, <2>2, StillKeeps
  <2> QED BY <1>7, <2>1, <2>2, UntouchedCalm
<1> QED BY <1>1, <1>2, <1>3, <1>4, <1>5, <1>6, <1>7 DEF ProtocolHandle

LEMMA AdvanceKeeps ==
  ASSUME IInv, ObjectInv, NEW a \in Agents, Advance(a)
  PROVE  ObjectInv'
<1>1. CASE a \in Workers /\ ProtocolHandle(a)
  BY <1>1, HandleKeeps
<1>2. CASE Disconnecting(a)
  BY <1>2, FindKeeps, ReleaseFoundKeeps, EraseFoundKeeps, DelKeeps DEF Disconnecting
<1>3. CASE ProtocolFault(a)
  BY <1>3, StillKeeps DEF ProtocolFault, workerVars
<1> QED BY <1>1, <1>2, <1>3 DEF Advance

LEMMA ObjectStep ==
  ASSUME IInv, ObjectInv, DeadAreClosed, [ProtocolNext]_allVars
  PROVE  ObjectInv'
<1>1. ASSUME NEW w \in Workers, ProtocolTake(w) PROVE ObjectInv'
  <2>1. ASSUME NEW c \in Contexts, TakeReceived(w, c) PROVE ObjectInv'
    BY <2>1, TakeReceivedKeeps
  <2>2. CASE ((\E c \in Contexts : TakeWrite(w, c)) \/ (\E a \in Accepts : TakeAccept(w, a)))
             /\ UNCHANGED protocolVars
    BY <2>2, TakeCalm, CalmKeeps
  <2> QED BY <1>1, <2>1, <2>2 DEF ProtocolTake
<1>2. ASSUME NEW c \in Contexts, SendTo(c) PROVE ObjectInv'
  BY <1>2, SendKeeps
<1>3. CASE (Flag \/ CloseListenSocket \/ Reset) /\ UNCHANGED protocolVars
  BY <1>3, StillKeeps DEF Flag, CloseListenSocket, Reset, workerVars
<1>4. ASSUME NEW a \in Accepts, FreeAccept(a) \/ AcceptCompletes(a), UNCHANGED protocolVars
      PROVE  ObjectInv'
  BY <1>4, StillKeeps DEF FreeAccept, AcceptCompletes, workerVars
<1>5. CASE UNCHANGED allVars
  BY <1>5, StillKeeps DEF allVars, vars
<1> QED BY <1>1, <1>2, <1>3, <1>4, <1>5, AdvanceKeeps, CloseAllKeeps DEF ProtocolNext

LEMMA InitObject == ProtocolInit => ObjectInv
<1> SUFFICES ASSUME ProtocolInit PROVE ObjectInv
  OBVIOUS
<1>1. /\ protocol \in {"base", "text", "package"}
      /\ \A c \in Contexts : /\ object[c] = "none" /\ refs[c] = 0 /\ entry[c] = "none"
                             /\ client[c].life = "none"
      /\ \A w \in Workers : receive[w] = "no" /\ pc[w] = "idle"
      /\ \A a \in Agents : leave[a] = "no"
      /\ reborn = {} /\ leaked = {}
  BY DEF ProtocolInit, Init, NoClient
<1>2. ObjectTypes
  BY DEF ProtocolInit, ObjectTypes
<1>3. Places /\ OneLeaver
  BY <1>1 DEF Places, OneLeaver, Agents
<1>4. ASSUME NEW c \in Contexts PROVE Object(c)
  BY <1>1 DEF Object, TextObject, PackageObject, Alive, Expected, Erasing, Dropping
<1> QED BY <1>2, <1>3, <1>4 DEF ObjectInv, Objects

LEMMA ProtocolInductive == ProtocolSpec => []ObjectInv
<1>1. IInv /\ DeadAreClosed /\ ObjectInv /\ [ProtocolNext]_allVars => ObjectInv'
  BY ObjectStep
<1> QED BY <1>1, InitObject, BaseInvariant, PTL DEF ProtocolSpec

(* The states of the two servers' objects and callbacks are the declared   *)
(* ones; in particular no count of references ever goes below 0.           *)
THEOREM ProtocolTypes == ProtocolSpec => []ProtocolTypeOK
<1>1. IInv /\ ObjectInv => ProtocolTypeOK
  BY DEF IInv, ObjectInv, ObjectTypes, ProtocolTypeOK
<1> QED BY <1>1, BaseInvariant, ProtocolInductive, PTL

(* However receives, disconnects, failed sends and Shutdown interleave on  *)
(* any number of workers, the text server's count protects every receiver  *)
(* from the delete, but for objects fetched at count 0.                    *)
THEOREM ReceiversAreProtected == ProtocolSpec => []UsedAreAlive
<1>1. IInv /\ ObjectInv => UsedAreAlive
  <2> SUFFICES ASSUME IInv, ObjectInv, protocol = "text",
                      NEW w \in Workers, receive[w] \in {"using", "again"}
               PROVE  Alive(ctx[w]) \/ ctx[w] \in reborn
    BY DEF UsedAreAlive
  <2>1. ObjectTypes /\ Places /\ Objects
    BY DEF ObjectInv
  <2>2. InReceipt(w)
    BY <2>1 DEF Places
  <2>3. PICK c \in Contexts : c = ctx[w] /\ ~Expected(c)
    BY <2>1, <2>2, OnlyReceiver
  <2>4. object[c] # "none" /\ TextObject(c)
    BY <2>1, <2>3 DEF Objects, Object
  <2>5. Use(c) = 1
    BY <2>3 DEF Use, Using
  <2>6. refs[c] # 0
    BY <2>4, <2>5 DEF TextObject
  <2>7. object[c] = "deleted" => c \in reborn
    BY <2>4, <2>6 DEF TextObject
  <2> QED BY <2>1, <2>3, <2>4, <2>7 DEF ObjectTypes, Alive
<1> QED BY <1>1, BaseInvariant, ProtocolInductive, PTL

(* Both servers delete the object of every client whose context goes, and  *)
(* their maps never lead to a deleted one.                                 *)
THEOREM ObjectsAreReleased == ProtocolSpec => []ObjectsFollowClients
<1>1. ObjectInv => ObjectsFollowClients
  <2> SUFFICES ASSUME ObjectInv, protocol # "base", NEW c \in Contexts, client[c].life = "freed"
               PROVE  object[c] = "deleted" /\ entry[c] # "object"
    BY DEF ObjectsFollowClients
  <2>1. Object(c)
    BY DEF ObjectInv, Objects
  <2> QED BY <2>1 DEF Object, Alive
<1> QED BY <1>1, ProtocolInductive, PTL

-----------------------------------------------------------------------------
(* The base server's promises about sends, leaks and faults, with the      *)
(* callbacks of the two servers.                                           *)
LEMMA StopsKeepsPromises ==
  ASSUME Stops
  PROVE  /\ Sending => Sending'
         /\ Doomed => Doomed'
         /\ Writing => Writing'
         /\ leaked' = leaked
         /\ Registering => Registering'
         /\ AcceptsKept => AcceptsKept'
<1>0. /\ client' = client /\ acceptIo' = acceptIo /\ pc' = pc /\ ctx' = ctx /\ io' = io
      /\ next' = next /\ count' = count /\ leaked' = leaked /\ shutdown' = shutdown
  BY DEF Stops, workerVars
<1>1. Sending => Sending'
  BY <1>0 DEF Sending, Sends, Pushes, Live, Open
<1>2. (Doomed => Doomed') /\ (Writing => Writing')
  BY <1>0 DEF Doomed, Writing, Serves, Live
<1>3. (Registering => Registering') /\ (AcceptsKept => AcceptsKept')
  BY <1>0 DEF Registering, Exiting, Open, AcceptsKept, Freeing
<1> QED BY <1>0, <1>1, <1>2, <1>3

(* Nor can a callback of the text or the package server strand a buffer in *)
(* the send queue of an open client.                                       *)
THEOREM ProtocolQueueIsServed == ProtocolSpec => []Sending
<1>1. ProtocolInit => Sending
  BY DEF ProtocolInit, Init, Sending, Sends, Live, NoClient
<1>2. IInv /\ Sending /\ [ProtocolNext]_allVars => Sending'
  BY SendingStep, ProtocolRefines, StopsKeepsPromises
<1> QED BY <1>1, <1>2, BaseInvariant, PTL DEF ProtocolSpec

(* Both servers leave a context behind only where the base server does.    *)
THEOREM ProtocolNothingElseLeaks == ProtocolSpec => []Attached
<1>1. ProtocolInit => Doomed
  BY DEF ProtocolInit, Init, Doomed, Live, NoClient
<1>2. IInv /\ Doomed /\ [ProtocolNext]_allVars => Doomed'
  BY StepKinds, DoomedStep, ProtocolRefines, StopsKeepsPromises DEF IInv
<1>3. IInv /\ Doomed => Attached
  BY CountedAreAttached
<1> QED BY <1>1, <1>2, <1>3, BaseInvariant, PTL DEF ProtocolSpec

-----------------------------------------------------------------------------
(* Who erases an object of the text server.                                *)

(* One thread erases an object, once, unless it was fetched at count 0.    *)
Once(c) ==
  c \notin reborn =>
    /\ ~(Erasing(c) /\ Dropping(c))
    /\ object[c] = "deleted" => ~Erasing(c) /\ ~Dropping(c)
ErasedOnce == protocol = "text" => \A c \in Contexts : Once(c)

LEMMA FewerErasers ==
  ASSUME ErasedOnce, protocol' = protocol, reborn \subseteq reborn',
         \A c \in Contexts : object'[c] = "deleted" => object[c] = "deleted",
         \A u \in Workers : receive'[u] = "erase" => receive[u] = "erase" /\ ctx'[u] = ctx[u],
         \A a \in Agents : leave'[a] = "erase" => leave[a] = "erase" /\ Client(a)' = Client(a)
  PROVE  ErasedOnce'
<1> SUFFICES ASSUME protocol = "text", NEW c \in Contexts PROVE Once(c)'
  BY DEF ErasedOnce
<1>1. Erasing(c)' => Erasing(c)
  BY DEF Erasing
<1>2. Dropping(c)' => Dropping(c)
  BY DEF Dropping
<1> QED BY <1>1, <1>2 DEF ErasedOnce, Once

(* A worker moves that erases nothing. *)
LEMMA NoEraserMoves ==
  ASSUME ErasedOnce, UNCHANGED protocolVars, NEW w \in Workers,
         \A u \in Workers : u # w => ctx'[u] = ctx[u],
         ctx'[w] = ctx[w] \/ (receive[w] # "erase" /\ leave[w] # "erase")
  PROVE  ErasedOnce'
<1>1. /\ protocol' = protocol /\ object' = object /\ reborn' = reborn
      /\ receive' = receive /\ leave' = leave
  BY DEF protocolVars, mapVars
<1>2. \A u \in Workers : receive[u] = "erase" \/ leave[u] = "erase" => ctx'[u] = ctx[u]
  OBVIOUS
<1>3. \A a \in Agents : leave[a] = "erase" => Client(a)' = Client(a)
  BY <1>2 DEF Client
<1> QED BY <1>1, <1>2, <1>3, FewerErasers

(* The callbacks of a worker that receives leave others' contexts alone. *)
LEMMA SameContexts ==
  ASSUME ErasedOnce, protocol' = protocol, reborn \subseteq reborn', ctx' = ctx,
         \A c \in Contexts : object'[c] = "deleted" => object[c] = "deleted",
         \A u \in Workers : receive'[u] = "erase" => receive[u] = "erase",
         \A a \in Agents : leave'[a] = "erase" => leave[a] = "erase"
  PROVE  ErasedOnce'
<1>1. \A a \in Agents : Client(a)' = Client(a)
  BY DEF Client
<1> QED BY <1>1, FewerErasers

(* The last reference leads one thread to the erase: whoever takes it      *)
(* finds no other that has.                                                *)
LEMMA LastReleaseOnce ==
  ASSUME IInv, ObjectInv, ErasedOnce, NEW w \in Workers, ReleaseObject(w)
  PROVE  ErasedOnce'
<1>0. PICK c : c = ctx[w]
  OBVIOUS
<1> DEFINE there == IF refs[c] = 1 THEN "erase" ELSE "done"
<1>1. /\ ObjectTypes /\ Places /\ Objects
      /\ protocol' = protocol /\ leave' = leave /\ object' = object /\ reborn' = reborn
      /\ protocol = "text" /\ Alive(c) /\ ctx' = ctx
      /\ receive[w] = "again" /\ receive' = [receive EXCEPT ![w] = there]
  BY <1>0 DEF ObjectInv, ReleaseObject, Receive, vars
<1>2. there = "erase" <=> refs[c] = 1
  OBVIOUS
<1>3. /\ c \in Contexts /\ (Erasing(c)' <=> Erasing(c)) /\ Using(c)
      /\ (Dropping(c)' <=> there = "erase")
      /\ \A d \in Contexts : d # c => SameUsers(d)
  BY <1>0, <1>1, ReceiveMoves
<1> HIDE DEF there
<1>4. TextObject(c) /\ Use(c) = 1 /\ object[c] = "alive"
  BY <1>1, <1>3 DEF Objects, Object, Use, Alive
<1>5. c \notin reborn /\ refs[c] = 1 => ~Erasing(c)
  BY <1>4 DEF TextObject
<1>6. Once(c)'
  BY <1>1, <1>2, <1>3, <1>4, <1>5 DEF Once
<1>7. ASSUME NEW d \in Contexts, d # c PROVE Once(d)'
  BY <1>1, <1>3, <1>7 DEF Once, ErasedOnce, SameUsers
<1> QED BY <1>6, <1>7 DEF ErasedOnce

LEMMA LastLeaveOnce ==
  ASSUME IInv, ObjectInv, ErasedOnce, NEW a \in Agents, ReleaseFound(a)
  PROVE  ErasedOnce'
<1>0. PICK c : c = Client(a)
  OBVIOUS
<1> DEFINE there == IF refs[c] = 1 THEN "erase" ELSE "no"
<1>1. /\ ObjectTypes /\ Places /\ OneLeaver /\ Objects
      /\ protocol' = protocol /\ receive' = receive /\ object' = object /\ reborn' = reborn
      /\ Alive(c) /\ ctx' = ctx
      /\ leave[a] = "found" /\ leave' = [leave EXCEPT ![a] = there]
  BY <1>0 DEF ObjectInv, ReleaseFound, Leave, vars
<1>3. /\ c \in Contexts /\ (Dropping(c)' <=> Dropping(c)) /\ Seeking(c)
      /\ \A d \in Contexts : d # c => SameUsers(d)
  BY <1>0, <1>1, LeaveMoves
<1>4. protocol = "text" /\ TextObject(c) /\ Kept(c) /\ object[c] = "alive"
  BY <1>1, <1>3 DEF Places, Objects, Object, Kept, Alive
<1>5. ~Dropping(c)
  BY <1>4 DEF TextObject
<1>6. Once(c)'
  BY <1>1, <1>3, <1>4, <1>5 DEF Once
<1>7. ASSUME NEW d \in Contexts, d # c PROVE Once(d)'
  BY <1>1, <1>3, <1>4, <1>7 DEF Once, ErasedOnce, SameUsers
<1> QED BY <1>6, <1>7 DEF ErasedOnce

(* Whoever erases was the only one to. *)
LEMMA EraseOnce ==
  ASSUME ErasedOnce, protocol = "text", protocol' = protocol, reborn' = reborn, NEW c \in Contexts,
         \A d \in Contexts : d # c => object'[d] = object[d] /\ SameUsers(d),
         \/ Erasing(c) /\ ~Erasing(c)' /\ (Dropping(c)' <=> Dropping(c))
         \/ Dropping(c) /\ ~Dropping(c)' /\ (Erasing(c)' <=> Erasing(c))
  PROVE  ErasedOnce'
<1>1. Once(c)'
  BY DEF ErasedOnce, Once
<1>2. ASSUME NEW d \in Contexts, d # c PROVE Once(d)'
  BY <1>2 DEF ErasedOnce, Once, SameUsers
<1> QED BY <1>1, <1>2 DEF ErasedOnce

LEMMA EraseReleasedOnce ==
  ASSUME IInv, ObjectInv, ErasedOnce, protocol = "text", NEW w \in Workers, EraseReleased(w)
  PROVE  ErasedOnce'
<1>0. PICK c : c = ctx[w]
  OBVIOUS
<1> DEFINE there == "done"
<1>1. /\ ObjectTypes /\ Places
      /\ protocol' = protocol /\ leave' = leave /\ reborn' = reborn /\ ctx' = ctx
      /\ object' = [object EXCEPT ![c] = "deleted"]
      /\ receive[w] = "erase" /\ receive' = [receive EXCEPT ![w] = there] /\ receive[w] # "no"
  BY <1>0 DEF ObjectInv, EraseReleased, Erase, Receive, vars
<1>2. there # "erase"
  OBVIOUS
<1> HIDE DEF there
<1>3. /\ c \in Contexts /\ (Erasing(c)' <=> Erasing(c)) /\ Dropping(c) /\ ~Dropping(c)'
      /\ \A d \in Contexts : d # c => SameUsers(d)
  BY <1>0, <1>1, <1>2, ReceiveMoves
<1>4. \A d \in Contexts : d # c => object'[d] = object[d]
  BY <1>1 DEF ObjectTypes
<1> QED BY <1>1, <1>3, <1>4, EraseOnce

LEMMA EraseFoundOnce ==
  ASSUME IInv, ObjectInv, ErasedOnce, NEW a \in Agents, EraseFound(a)
  PROVE  ErasedOnce'
<1>0. PICK c : c = Client(a)
  OBVIOUS
<1> DEFINE there == "no"
<1>1. /\ ObjectTypes /\ Places /\ OneLeaver
      /\ protocol' = protocol /\ receive' = receive /\ reborn' = reborn /\ ctx' = ctx
      /\ object' = [object EXCEPT ![c] = "deleted"]
      /\ leave[a] = "erase" /\ leave' = [leave EXCEPT ![a] = there] /\ leave[a] # "no"
  BY <1>0 DEF ObjectInv, EraseFound, Erase, Leave, vars
<1>2. there # "erase" /\ protocol = "text"
  BY <1>1 DEF Places
<1> HIDE DEF there
<1>3. /\ c \in Contexts /\ (Dropping(c)' <=> Dropping(c)) /\ Erasing(c) /\ ~Erasing(c)'
      /\ \A d \in Contexts : d # c => SameUsers(d)
  BY <1>0, <1>1, <1>2, LeaveMoves
<1>4. \A d \in Contexts : d # c => object'[d] = object[d]
  BY <1>1 DEF ObjectTypes
<1> QED BY <1>1, <1>2, <1>3, <1>4, EraseOnce

LEMMA HandleOnce ==
  ASSUME IInv, ObjectInv, ErasedOnce, protocol = "text", NEW w \in Workers, ProtocolHandle(w)
  PROVE  ErasedOnce'
<1>0. /\ ObjectTypes /\ Places
      /\ ctx \in [Workers -> Contexts \cup {NoContext}] /\ w \in Agents
  BY DEF ObjectInv, IInv, TypeOK, WorkersTyped, Agents
<1>1. CASE NewObject(w)
  <2>1. /\ protocol' = protocol /\ reborn' = reborn /\ receive' = receive /\ leave' = leave
        /\ ctx' = ctx /\ object' = [object EXCEPT ![ctx[w]] = "alive"]
    BY <1>1 DEF NewObject, NotifyNewConnection, Goto, GotoClose
  <2>2. \A c \in Contexts : object'[c] = "deleted" => object[c] = "deleted"
    BY <1>0, <2>1 DEF ObjectTypes
  <2> QED BY <2>1, <2>2, SameContexts
<1>2. CASE GetObject(w)
  <2>1. /\ protocol' = protocol /\ reborn \subseteq reborn' /\ leave' = leave /\ object' = object
        /\ ctx' = ctx
        /\ receive' = [receive EXCEPT ![w] = "using"] \/ receive' = [receive EXCEPT ![w] = "done"]
    BY <1>2 DEF GetObject, Receive, vars
  <2>2. \A u \in Workers : receive'[u] = "erase" => receive[u] = "erase"
    BY <1>0, <2>1 DEF ObjectTypes
  <2> QED BY <2>1, <2>2, SameContexts
<1>3. CASE UseObject(w)
  <2>1. /\ protocol' = protocol /\ reborn' = reborn /\ leave' = leave /\ object' = object
        /\ ctx' = ctx
        /\ receive' = [receive EXCEPT ![w] = "again"] \/ receive' = [receive EXCEPT ![w] = "done"]
    BY <1>3 DEF UseObject, Receive, NotifyReceivedPackage, Goto, GotoClose, mapVars
  <2>2. \A u \in Workers : receive'[u] = "erase" => receive[u] = "erase"
    BY <1>0, <2>1 DEF ObjectTypes
  <2> QED BY <2>1, <2>2, SameContexts
<1>4. CASE ReleaseObject(w)
  BY <1>4, LastReleaseOnce
<1>5. CASE EraseReleased(w)
  BY <1>5, EraseReleasedOnce
<1>6. CASE NothingReceived(w)
  <2>1. ctx' = ctx /\ UNCHANGED protocolVars
    BY <1>6 DEF NothingReceived, NotifyReceivedPackage, Goto, GotoClose
  <2> QED BY <2>1, NoEraserMoves
<1>7. CASE Close(w)
  <2>1. /\ ctx' = ctx /\ protocol' = protocol /\ UNCHANGED mapVars /\ receive' = receive
        /\ leave' = [leave EXCEPT ![w] = IF Open(ctx[w]) THEN Called ELSE "no"]
    BY <1>7 DEF Close, CloseClient
  <2>2. \A a \in Agents : leave'[a] = "erase" => leave[a] = "erase"
    BY <1>0, <2>1 DEF ObjectTypes, Called
  <2> QED BY <2>1, <2>2, SameContexts DEF mapVars
<1>8. CASE ReadOn(w)
  <2>1. /\ protocol' = protocol /\ UNCHANGED mapVars /\ leave' = leave
        /\ receive' = [receive EXCEPT ![w] = "no"] /\ pc[w] = "nextRead"
        /\ \A u \in Workers : u # w => ctx'[u] = ctx[u]
    BY <1>0, <1>8 DEF ReadOn, PostClientIoRead, Goto, GotoClose
  <2>2. \A u \in Workers : receive'[u] = "erase" => receive[u] = "erase" /\ u # w
    BY <1>0, <2>1 DEF ObjectTypes
  <2>3. leave[w] = "no"
    BY <1>0, <2>1 DEF Places
  <2>4. \A a \in Agents : leave[a] = "erase" => Client(a)' = Client(a)
    BY <2>1, <2>3 DEF Client
  <2> QED BY <2>1, <2>2, <2>4, FewerErasers DEF mapVars
<1>9. CASE (Unlocked(w) \/ Untouched(w)) /\ UNCHANGED protocolVars
  <2>1. \A u \in Workers : u # w => ctx'[u] = ctx[u]
    BY <1>0, <1>9 DEF Unlocked, Untouched, DeleteContext, TakeNull, AddContext, Disconnected,
         ExitIOLoop,
         PostClientIoRead, Count, Reject, PostNextAccept, Repost, UpdateCompletionPort, Written,
         SwapBuffer, LookAtReader, PostClientIoWrite, Fault, Goto, GotoClose, workerVars
  <2>2. ctx' = ctx \/ (~InReceipt(w) /\ pc[w] # "closed")
    <3>1. CASE DeleteContext(w) \/ TakeNull(w) \/ ExitIOLoop(w) \/ LookAtReader(w) \/ PostClientIoWrite(w)
      BY <3>1 DEF DeleteContext, TakeNull, ExitIOLoop, LookAtReader, PostClientIoWrite,
                  Goto, GotoClose, InReceipt
    <3>2. CASE PostClientIoRead(w, "firstRead") \/ \E c \in Contexts : AddContext(w, c)
      BY <3>2 DEF PostClientIoRead, AddContext, InReceipt
    <3>3. CASE Disconnected(w) \/ Reject(w) \/ PostNextAccept(w)
      BY <3>3 DEF Disconnected, Reject, PostNextAccept, Repost
    <3>5. CASE Fault(w)
      BY <3>5 DEF Fault, workerVars
    <3>4. CASE Count(w) \/ UpdateCompletionPort(w) \/ Written(w) \/ SwapBuffer(w)
      BY <3>4 DEF Count, UpdateCompletionPort, Written, SwapBuffer, Goto, InReceipt
    <3> QED BY <1>9, <3>1, <3>2, <3>3, <3>4, <3>5 DEF Unlocked, Untouched
  <2>3. ctx'[w] = ctx[w] \/ (receive[w] # "erase" /\ leave[w] # "erase")
    BY <1>0, <2>2 DEF Places
  <2> QED BY <1>9, <2>1, <2>3, NoEraserMoves
<1>10. CASE UseAgain(w)
  BY <1>10 DEF UseAgain
<1>11. CASE BareCallback(w)
  BY <1>11 DEF BareCallback
<1> QED BY <1>1, <1>2, <1>3, <1>4, <1>5, <1>6, <1>7, <1>8, <1>9, <1>10, <1>11 DEF ProtocolHandle

LEMMA OnceStep ==
  ASSUME IInv, ObjectInv, ErasedOnce, [ProtocolNext]_allVars
  PROVE  ErasedOnce'
<1>0. /\ ObjectTypes /\ Places
      /\ ctx \in [Workers -> Contexts \cup {NoContext}]
  BY DEF ObjectInv, IInv, TypeOK, WorkersTyped
<1> SUFFICES ASSUME protocol' = "text" PROVE ErasedOnce'
  BY DEF ErasedOnce
<1>1. protocol = "text"
  <2>1. CASE UNCHANGED protocol
    BY <2>1
  <2>2. UNCHANGED protocol
    BY DEF ProtocolNext, ProtocolTake, TakeReceived, Advance, ProtocolHandle, NewObject, GetObject,
           UseObject, UseAgain, ReleaseObject, EraseReleased, NothingReceived, Close, ReadOn,
           Disconnecting, FindObject, ReleaseFound, EraseFound, DelContext, ProtocolFault,
           SendTo, CloseAll, protocolVars, allVars
  <2> QED BY <2>1, <2>2
<1>2. ASSUME NEW w \in Workers, ProtocolTake(w) PROVE ErasedOnce'
  <2>1. pc[w] = "idle" /\ \A u \in Workers : u # w => ctx'[u] = ctx[u]
    BY <1>0, <1>2 DEF ProtocolTake, TakeReceived, TakeRead, TakeWrite, TakeAccept
  <2>2. receive[w] = "no" /\ leave[w] = "no" /\ w \in Agents
    BY <1>0, <2>1 DEF Places, InReceipt, Agents
  <2>3. CASE UNCHANGED protocolVars
    BY <2>1, <2>2, <2>3, NoEraserMoves
  <2>4. ASSUME NEW c \in Contexts, TakeReceived(w, c) PROVE ErasedOnce'
    <3>1. /\ protocol' = protocol /\ UNCHANGED mapVars /\ leave' = leave
          /\ receive' = [receive EXCEPT ![w] = "get"] \/ receive' = [receive EXCEPT ![w] = "no"]
      BY <2>4 DEF TakeReceived
    <3>2. \A u \in Workers : receive'[u] = "erase" => receive[u] = "erase" /\ u # w
      BY <1>0, <3>1 DEF ObjectTypes
    <3>3. \A a \in Agents : leave[a] = "erase" => Client(a)' = Client(a)
      BY <2>1, <2>2 DEF Client
    <3> QED BY <2>1, <3>1, <3>2, <3>3, FewerErasers DEF mapVars
  <2> QED BY <1>2, <2>3, <2>4 DEF ProtocolTake
<1>3. ASSUME NEW a \in Agents, Disconnecting(a) PROVE ErasedOnce'
  <2>1. CASE FindObject(a)
    <3>1. /\ protocol' = protocol /\ UNCHANGED mapVars /\ receive' = receive /\ ctx' = ctx
          /\ leave' = [leave EXCEPT ![a] = "found"] \/ leave' = [leave EXCEPT ![a] = "no"]
      BY <2>1 DEF FindObject, Leave, vars
    <3>2. \A b \in Agents : leave'[b] = "erase" => leave[b] = "erase"
      BY <1>0, <3>1 DEF ObjectTypes
    <3> QED BY <3>1, <3>2, SameContexts DEF mapVars
  <2>2. CASE ReleaseFound(a)
    BY <2>2, LastLeaveOnce
  <2>3. CASE EraseFound(a)
    BY <2>3, EraseFoundOnce
  <2>4. CASE DelContext(a)
    BY <1>1, <2>4 DEF DelContext
  <2> QED BY <1>3, <2>1, <2>2, <2>3, <2>4 DEF Disconnecting
<1>4. ASSUME NEW a \in Agents, ProtocolFault(a) PROVE ErasedOnce'
  BY <1>4, SameContexts DEF ProtocolFault, workerVars, protocolVars, mapVars
<1>5. ASSUME CloseAll \/ \E c \in Contexts : SendTo(c) PROVE ErasedOnce'
  <2>1. /\ protocol' = protocol /\ UNCHANGED mapVars /\ receive' = receive /\ ctx' = ctx
        /\ ClosedOutside
    BY <1>5 DEF CloseAll, SendTo, CloseClients, Send, workerVars
  <2>2. \A a \in Agents : leave'[a] = "erase" => leave[a] = "erase"
    BY <2>1 DEF ClosedOutside, Called
  <2> QED BY <2>1, <2>2, SameContexts DEF mapVars
<1>6. ASSUME UNCHANGED <<ctx, protocolVars>> PROVE ErasedOnce'
  BY <1>6, SameContexts DEF protocolVars, mapVars
<1>7. ASSUME (Flag \/ CloseListenSocket \/ Reset) /\ UNCHANGED protocolVars
      PROVE  UNCHANGED <<ctx, protocolVars>>
  BY <1>7 DEF Flag, CloseListenSocket, Reset, workerVars
<1>8. ASSUME NEW a \in Accepts, (FreeAccept(a) \/ AcceptCompletes(a)) /\ UNCHANGED protocolVars
      PROVE  UNCHANGED <<ctx, protocolVars>>
  BY <1>8 DEF FreeAccept, AcceptCompletes, workerVars
<1>9. ASSUME UNCHANGED allVars PROVE UNCHANGED <<ctx, protocolVars>>
  BY <1>9 DEF allVars, vars
<1>10. ASSUME NEW a \in Agents, Advance(a) PROVE ErasedOnce'
  BY <1>1, <1>3, <1>4, <1>10, HandleOnce DEF Advance
<1> QED BY <1>2, <1>5, <1>6, <1>7, <1>8, <1>9, <1>10 DEF ProtocolNext

(* No object is given up twice, in the text server. *)
LEMMA ErasedOnceHolds == ProtocolSpec => []ErasedOnce
<1>1. ProtocolInit => ErasedOnce
  BY DEF ProtocolInit, ErasedOnce, Once, Erasing, Dropping
<1>2. IInv /\ ObjectInv /\ ErasedOnce /\ [ProtocolNext]_allVars => ErasedOnce'
  BY OnceStep
<1> QED BY <1>1, <1>2, BaseInvariant, ProtocolInductive, PTL DEF ProtocolSpec

(* What may have stopped the program, and when. *)
Faults ==
  /\ crash \in {"no", "null reader", "freed accept", "lost port", "deleted object", "short package"}
  /\ crash = "lost port" => Exiting
  /\ crash = "freed accept" => Freeing
  /\ crash = "deleted object" => protocol = "package" \/ (protocol = "text" /\ reborn # {})
  /\ crash = "short package" => protocol = "package"

(* A receiver's object has been deleted. *)
LEMMA ReceiverFinds ==
  ASSUME IInv, ObjectInv, ErasedOnce, protocol = "text", NEW w \in Workers,
         receive[w] \in {"using", "again", "erase"}, object[ctx[w]] = "deleted"
  PROVE  ctx[w] \in reborn
<1>1. ObjectTypes /\ Places /\ Objects
  BY DEF ObjectInv
<1>2. InReceipt(w)
  BY <1>1 DEF Places
<1>3. PICK c \in Contexts : c = ctx[w] /\ ~Expected(c)
  BY <1>1, <1>2, OnlyReceiver
<1>4. object[c] # "none" /\ TextObject(c) /\ Once(c)
  BY <1>1, <1>3 DEF Objects, Object, ErasedOnce
<1>5. CASE receive[w] = "erase"
  BY <1>3, <1>4, <1>5 DEF Once, Dropping
<1>6. CASE receive[w] # "erase"
  <2>1. Use(c) = 1
    BY <1>3, <1>6 DEF Use, Using
  <2>2. refs[c] # 0
    BY <1>4, <2>1 DEF TextObject
  <2> QED BY <1>3, <1>4, <2>2 DEF TextObject
<1> QED BY <1>5, <1>6

(* The object NotifyDisconnectedClient has found has been deleted. *)
LEMMA LeaverFinds ==
  ASSUME IInv, ObjectInv, ErasedOnce, NEW a \in Agents,
         leave[a] \in {"found", "erase"}, object[Client(a)] = "deleted"
  PROVE  protocol = "text" /\ Client(a) \in reborn
<1>1. ObjectTypes /\ Places /\ Objects
  BY DEF ObjectInv
<1>2. PICK c \in Contexts : c = Client(a)
  BY <1>1, ClientIs
<1>3. protocol = "text" /\ TextObject(c) /\ Once(c)
  BY <1>1, <1>2 DEF Places, Objects, Object, ErasedOnce
<1>4. leave[a] # "found"
  BY <1>2, <1>3 DEF TextObject, Kept, Seeking
<1> QED BY <1>2, <1>3, <1>4 DEF Once, Erasing

LEMMA FaultsStep ==
  ASSUME IInv, ObjectInv, ErasedOnce, Registering, AcceptsKept, Faults, [ProtocolNext]_allVars
  PROVE  Faults'
<1>0. /\ ObjectTypes /\ Places
      /\ \A a \in Agents : ProtocolFault(a) => protocol' = protocol /\ reborn' = reborn
  BY DEF ObjectInv, ProtocolFault, protocolVars, mapVars
<1>1. ASSUME NEW a \in Agents, DeletedObject(a)
      PROVE  protocol = "package" \/ (protocol = "text" /\ reborn # {})
  <2>1. ASSUME a \in Workers, Touches(a)
        PROVE protocol = "package" \/ (protocol = "text" /\ reborn # {})
    <3>1. protocol # "base"
      BY <1>0, <2>1 DEF Touches, Places
    <3>2. object[ctx[a]] = "deleted"
      BY <1>1, <2>1 DEF DeletedObject, Client
    <3> QED BY <1>0, <2>1, <3>1, <3>2, ReceiverFinds DEF ObjectTypes, Touches
  <2>2. CASE leave[a] \in {"found", "erase"}
    BY <1>1, <2>2, LeaverFinds DEF DeletedObject
  <2> QED BY <1>1, <2>1, <2>2 DEF DeletedObject
<1>2. ASSUME NEW a \in Agents, ProtocolFault(a) PROVE Faults'
  <2>1. CASE DeletedObject(a)
    <3>1. crash' = "deleted object"
      BY <2>1 DEF DeletedObject
    <3> QED BY <1>0, <1>1, <1>2, <2>1, <3>1 DEF Faults
  <2>2. CASE a \in Workers /\ ShortPackage(a)
    BY <1>0, <1>2, <2>2 DEF ShortPackage, Faults
  <2> QED BY <1>2, <2>1, <2>2 DEF ProtocolFault
<1>3. ASSUME crash = "no", [Next]_vars PROVE Faults'
  <2>1. Crashes'
    BY <1>3, CrashStep DEF Crashes
  <2> QED BY <2>1 DEF Crashes, Faults, Exiting, Freeing
<1>4. CASE UNCHANGED allVars
  BY <1>4 DEF Faults, Exiting, Freeing, allVars, vars, protocolVars, mapVars
<1> QED BY <1>2, <1>3, <1>4, ProtocolSteps DEF ProtocolNext

(* Besides the base server's faults, the text server uses or deletes an    *)
(* object that is gone only after one was fetched at count 0; everything   *)
(* else of the kind happens to the package server alone.                   *)
THEOREM ProtocolFaultsOnly == ProtocolSpec => []Faults
<1>1. ProtocolInit => Registering /\ AcceptsKept /\ Faults
  BY InitCrashes DEF ProtocolInit, Init, Faults
<1>2. IInv /\ Registering /\ AcceptsKept /\ [ProtocolNext]_allVars => Registering' /\ AcceptsKept'
  BY RegisteringStep, AcceptsStep, ProtocolRefines, StopsKeepsPromises DEF IInv
<1>3. IInv /\ ObjectInv /\ ErasedOnce /\ Registering /\ AcceptsKept /\ Faults /\ [ProtocolNext]_allVars
      => Faults'
  BY FaultsStep
<1> QED BY <1>1, <1>2, <1>3, BaseInvariant, ProtocolInductive, ErasedOnceHolds, PTL DEF ProtocolSpec

-----------------------------------------------------------------------------
(* What the base server promises under a condition.                        *)
LEMMA ProtocolWriting ==
  /\ ProtocolInit => Writing
  /\ IInv /\ Writing /\ [ProtocolNext]_allVars /\ [~SendsBeside]_vars => Writing'
<1>1. ProtocolInit => Writing
  BY InitWriting DEF ProtocolInit
<1>2. IInv /\ Writing /\ [ProtocolNext]_allVars /\ [~SendsBeside]_vars => Writing'
  BY WritingKept, ProtocolRefines, StopsKeepsPromises
<1> QED BY <1>1, <1>2

(* The two servers too have one write posted at a time unless a Send posts *)
(* beside a worker that is about to look at the reader.                    *)
THEOREM ProtocolWritesTakeTurns == ProtocolSpec /\ [][~SendsBeside]_vars => []OneWritePosted
<1>1. Writing => OneWritePosted
  BY DEF Writing, OneWritePosted
<1> QED BY <1>1, ProtocolWriting, BaseInvariant, PTL DEF ProtocolSpec

LEMMA ProtocolReader == ProtocolSpec /\ [][~SendsBeside]_vars => []ReaderFound
<1>1. ProtocolInit => ReaderFound
  BY DEF ProtocolInit, Init, ReaderFound
<1>2. IInv /\ Writing /\ ReaderFound /\ [ProtocolNext]_allVars => ReaderFound'
  BY ReaderStep, ProtocolRefines DEF Stops, ReaderFound
<1> QED BY <1>1, <1>2, ProtocolWriting, BaseInvariant, PTL DEF ProtocolSpec

(* The text server that is not shut down never comes to undefined          *)
(* behaviour, however many clients and workers it has, unless a Send posts *)
(* beside a worker about to post the next write, or a receiver fetches an  *)
(* object between the last decrement of its count and its removal from the *)
(* map.                                                                    *)
Untroubled == protocol # "package" /\ reborn = {} /\ Serving
THEOREM TextServerRuns == ProtocolSpec /\ [][~SendsBeside]_vars /\ []Untroubled => []Running
<1>1. Faults /\ ReaderFound /\ Untroubled => Running
  BY DEF Faults, ReaderFound, Untroubled, Serving, Running, Exiting, Freeing
<1> QED BY <1>1, ProtocolFaultsOnly, ProtocolReader, PTL

(* They leave a context behind only when the first read of a client that   *)
(* was closed since AddContext is refused.                                 *)
THEOREM ProtocolLeaksAtFirstReadOnly ==
  ProtocolSpec /\ [][~FirstReadRefused]_vars => []FailedPostReleases
<1>1. ProtocolInit => NoLeak
  BY DEF ProtocolInit, Init, NoLeak
<1>2. NoLeak /\ [ProtocolNext]_allVars /\ [~FirstReadRefused]_vars => NoLeak'
  BY NoLeakKept, ProtocolRefines DEF Stops, NoLeak
<1>3. Attached /\ NoLeak => FailedPostReleases
  BY DEF Attached, FailedPostReleases, NoLeak
<1> QED BY <1>1, <1>2, <1>3, ProtocolNothingElseLeaks, PTL DEF ProtocolSpec

(* A client either of them has closed only drains. *)
THEOREM ProtocolClosedDrain == ProtocolSpec => [][\A c \in Contexts : WindsDown(c)]_vars
<1>1. IInv /\ [ProtocolNext]_allVars => [\A c \in Contexts : WindsDown(c)]_vars
  <2> SUFFICES ASSUME IInv, [ProtocolNext]_allVars, NEW c \in Contexts PROVE WindsDown(c)
    OBVIOUS
  <2>1. CASE Stops
    <3>1. client[c].pending \in Nat /\ client[c].reads \in Nat /\ client[c].writes \in Nat
      BY Numbers DEF IInv
    <3>2. client' = client /\ (Open(c)' <=> Open(c))
      BY <2>1 DEF Stops, Open
    <3> QED BY <3>1, <3>2 DEF WindsDown, Winding
  <2> QED BY <2>1, ProtocolRefines, WindingStep
<1> QED BY <1>1, BaseInvariant, PTL DEF ProtocolSpec
=============================================================================
