--------------------------- MODULE ProtocolServer ---------------------------
(***************************************************************************)
(* CTextIOCPServer and PackageIOCP on top of CBaseIOCPServer.  Each keeps, *)
(* in a map from guid to object with a lock of its own, what it has        *)
(* received from a client so far: NotifyNewConnection enters an object,    *)
(* NotifyReceivedPackage fetches and uses it, NotifyDisconnectedClient     *)
(* gives it up.  The text server counts references to its objects; the     *)
(* package server does not.  protocol "base" is the bare server.           *)
(* The steps under the map's lock, each interlocked operation and each use *)
(* of an object between them is an action.  NotifyNewConnection is that of *)
(* the two classes, which does not close the client.                       *)
(***************************************************************************)
EXTENDS IocpServer

CONSTANT Senders   \* bound: the protocols in which a Send may succeed

ASSUME AgentsAssumption == Workers \cap Contexts = {}

VARIABLES
  protocol,  \* "base", "text" or "package"
  object,    \* UserBufferObject or PackageUserContext of each client
  refs,      \* its m_nRefs (text)
  entry,     \* what the map holds for the client's guid
  receive,   \* workers in NotifyReceivedPackage: where they are
  leave,     \* NotifyDisconnectedClient: where a worker, or the thread that
             \* closes the client in Send or Shutdown, is
  reborn     \* ghost: clients whose object was fetched when its count was 0

mapVars == <<object, refs, entry, reborn>>
protocolVars == <<protocol, mapVars, receive, leave>>
allVars == <<vars, protocolVars>>

Agents == Workers \cup Contexts   \* a client stands for the thread that closes it
Client(a) == IF a \in Workers THEN ctx[a] ELSE a

ProtocolInit ==
  /\ Init
  /\ protocol \in {"base", "text", "package"}
  /\ object = [c \in Contexts |-> "none"]
  /\ refs = [c \in Contexts |-> 0]
  /\ entry = [c \in Contexts |-> "none"]
  /\ receive = [w \in Workers |-> "no"]
  /\ leave = [a \in Agents |-> "no"]
  /\ reborn = {}

Alive(c) == object[c] = "alive"
Receive(w, here, there) == receive[w] = here /\ receive' = [receive EXCEPT ![w] = there]
Leave(a, here, there) == leave[a] = here /\ leave' = [leave EXCEPT ![a] = there]

(* Delete the object and take the client out of the map. *)
Erase(c) ==
  /\ Alive(c)
  /\ object' = [object EXCEPT ![c] = "deleted"]
  /\ entry' = [entry EXCEPT ![c] = "none"]

-----------------------------------------------------------------------------
(* NotifyNewConnection: AllocateBufferObject, AddContext. *)
NewObjectUncounted(w) ==   \* mutant: m_nRefs stays 0
  /\ protocol # "base"
  /\ NotifyNewConnection(w) /\ pc'[w] = "firstRead"
  /\ object' = [object EXCEPT ![ctx[w]] = "alive"]
  /\ refs' = [refs EXCEPT ![ctx[w]] = 0]
  /\ entry' = [entry EXCEPT ![ctx[w]] = "object"]
  /\ UNCHANGED <<protocol, receive, leave, reborn>>

NewObject(w) ==
  /\ protocol # "base"
  /\ NotifyNewConnection(w) /\ pc'[w] = "firstRead"
  /\ object' = [object EXCEPT ![ctx[w]] = "alive"]
  /\ refs' = [refs EXCEPT ![ctx[w]] = 1]
  /\ entry' = [entry EXCEPT ![ctx[w]] = "object"]
  /\ UNCHANGED <<protocol, receive, leave, reborn>>

-----------------------------------------------------------------------------
(* NotifyReceivedPackage: GetBufferObject, GetContext.  Looking up a guid  *)
(* that is not in the map enters a NULL.                                   *)
GetObjectUncounted(w) ==   \* mutant: the text server takes no reference
  /\ pc[w] = "received"
  /\ IF entry[ctx[w]] = "object"
       THEN Receive(w, "get", "using")
       ELSE Receive(w, "get", "done")
  /\ entry' = [entry EXCEPT ![ctx[w]] = IF @ = "none" THEN "null" ELSE @]
  /\ UNCHANGED <<vars, protocol, object, refs, leave, reborn>>

GetObject(w) ==
  /\ pc[w] = "received"
  /\ IF entry[ctx[w]] = "object"
       THEN /\ Receive(w, "get", "using")
            /\ refs' = IF protocol = "text" THEN [refs EXCEPT ![ctx[w]] = @ + 1] ELSE refs
            /\ reborn' = IF refs[ctx[w]] = 0 THEN reborn \cup {ctx[w]} ELSE reborn
       ELSE Receive(w, "get", "done") /\ UNCHANGED <<refs, reborn>>
  /\ entry' = [entry EXCEPT ![ctx[w]] = IF @ = "none" THEN "null" ELSE @]
  /\ UNCHANGED <<vars, protocol, object, leave>>

(* The object is written to and taken apart; which texts or packages come  *)
(* out is left open.  The client may be closed: too much is buffered,      *)
(* the title is wrong, or NotifyReceivedFormatPackage does it.  The text   *)
(* server then releases the object; the package server returns at once or  *)
(* uses it again, for the package is removed after the callback.           *)
UseObject(w) ==
  /\ \/ Receive(w, "using", "again")
     \/ protocol = "package" /\ Receive(w, "using", "done")
  /\ Alive(ctx[w])
  /\ NotifyReceivedPackage(w)
  /\ UNCHANGED <<protocol, mapVars, leave>>

UseAgain(w) ==
  /\ pc[w] = "nextRead"
  /\ protocol = "package" /\ Receive(w, "again", "done")
  /\ Alive(ctx[w])
  /\ UNCHANGED <<vars, protocol, mapVars, leave>>

(* ReleaseBufferObject(object), called by a receiver. *)
ReleaseObject(w) ==
  /\ pc[w] = "nextRead"
  /\ protocol = "text" /\ Alive(ctx[w])
  /\ Receive(w, "again", IF refs[ctx[w]] = 1 THEN "erase" ELSE "done")
  /\ refs' = [refs EXCEPT ![ctx[w]] = @ - 1]
  /\ UNCHANGED <<vars, protocol, object, entry, leave, reborn>>

EraseReleased(w) ==
  /\ Receive(w, "erase", "done")
  /\ Erase(ctx[w])
  /\ UNCHANGED <<vars, protocol, refs, leave, reborn>>

(* NotifyReceivedPackage has returned without an object. *)
NothingReceived(w) ==
  /\ receive[w] = "done"
  /\ NotifyReceivedPackage(w) /\ pc'[w] = "nextRead"
  /\ UNCHANGED protocolVars

-----------------------------------------------------------------------------
(* NotifyDisconnectedClient: the text server finds the object under the    *)
(* map's lock, decrements its count and erases it outside; the package     *)
(* server does all under the lock.                                         *)
FindObject(a) ==
  /\ protocol = "text"
  /\ Leave(a, "find", IF entry[Client(a)] = "object" THEN "found" ELSE "no")
  /\ UNCHANGED <<vars, protocol, mapVars, receive>>

ReleaseFound(a) ==
  /\ Leave(a, "found", IF refs[Client(a)] = 1 THEN "erase" ELSE "no")
  /\ Alive(Client(a))
  /\ refs' = [refs EXCEPT ![Client(a)] = @ - 1]
  /\ UNCHANGED <<vars, protocol, object, entry, receive, reborn>>

EraseFoundInMap(a) ==   \* mutant: the entry stays in the map
  /\ Leave(a, "erase", "no")
  /\ Alive(Client(a))
  /\ object' = [object EXCEPT ![Client(a)] = "deleted"]
  /\ UNCHANGED <<vars, protocol, refs, entry, receive, reborn>>

EraseFound(a) ==
  /\ Leave(a, "erase", "no")
  /\ Erase(Client(a))
  /\ UNCHANGED <<vars, protocol, refs, receive, reborn>>

DelContext(a) ==
  /\ protocol = "package"
  /\ Leave(a, "find", "no")
  /\ entry' = [entry EXCEPT ![Client(a)] = "none"]
  /\ object' = IF entry[Client(a)] = "object" THEN [object EXCEPT ![Client(a)] = "deleted"] ELSE object
  /\ UNCHANGED <<vars, protocol, refs, receive, reborn>>

Disconnecting(a) == FindObject(a) \/ ReleaseFound(a) \/ EraseFound(a) \/ DelContext(a)

-----------------------------------------------------------------------------
(* The steps of the server that call the callbacks or wait for them.       *)
Called == IF protocol = "base" THEN "no" ELSE "find"

Close(w) ==
  /\ CloseClient(w)
  /\ leave' = [leave EXCEPT ![w] = IF Open(ctx[w]) THEN Called ELSE "no"]
  /\ UNCHANGED <<protocol, mapVars, receive>>

(* A failed Send, or Shutdown, closes clients: the thread is in            *)
(* NotifyDisconnectedClient for each, with the lock of the table; a Send   *)
(* to the context itself has that lock too here, though not in the code.   *)
ClosedOutside ==
  leave' = [a \in Agents |-> IF a \in Contexts /\ Open(a) /\ ~Open(a)' THEN Called ELSE leave[a]]

TableLocked == \E c \in Contexts : leave[c] # "no"

SendTo(c) ==
  /\ ~TableLocked
  /\ protocol # "base" => ~Arriving(c)
  /\ Send(c) /\ ClosedOutside
  /\ protocol \in Senders \/ ~Open(c)'
  /\ UNCHANGED <<protocol, mapVars, receive>>

CloseAll ==
  /\ ~TableLocked
  /\ CloseClients /\ ClosedOutside
  /\ UNCHANGED <<protocol, mapVars, receive>>

TakeReceived(w, c) ==
  /\ TakeRead(w, c)
  /\ receive' = [receive EXCEPT ![w] = IF protocol # "base" /\ pc'[w] = "received" THEN "get" ELSE "no"]
  /\ UNCHANGED <<protocol, mapVars, leave>>

ReadOn(w) ==
  /\ receive[w] \in {"no", "done"} /\ receive' = [receive EXCEPT ![w] = "no"]
  /\ PostClientIoRead(w, "nextRead")
  /\ UNCHANGED <<protocol, mapVars, leave>>

Unlocked(w) ==   \* the steps that take the lock of the table
  /\ ~TableLocked
  /\ DeleteContext(w) \/ TakeNull(w) \/ \E c \in Contexts : AddContext(w, c)

BareCallback(w) == protocol = "base" /\ (NotifyNewConnection(w) \/ NotifyReceivedPackage(w))

Untouched(w) ==
  \/ leave[w] = "no" /\ Disconnected(w)
  \/ ExitIOLoop(w) \/ PostClientIoRead(w, "firstRead")
  \/ Count(w) \/ Reject(w) \/ PostNextAccept(w) \/ UpdateCompletionPort(w)
  \/ Written(w) \/ SwapBuffer(w) \/ LookAtReader(w) \/ PostClientIoWrite(w) \/ Fault(w)

(* Undefined behaviour: an object is used after it was deleted, or deleted *)
(* again; the package server copies a package that has not arrived in full.*)
Touches(w) == receive[w] \in {"using", "again", "erase"} /\ pc[w] \in {"received", "nextRead"}
DeletedObject(a) ==
  /\ (a \in Workers /\ Touches(a)) \/ leave[a] \in {"found", "erase"}
  /\ object[Client(a)] = "deleted"
  /\ crash' = "deleted object"
ShortPackage(w) ==
  /\ protocol = "package" /\ receive[w] = "using" /\ Alive(ctx[w])
  /\ crash' = "short package"

ProtocolFault(a) ==
  /\ DeletedObject(a) \/ (a \in Workers /\ ShortPackage(a))
  /\ UNCHANGED <<client, workerVars, acceptIo, count, leaked, shutdown, protocolVars>>

-----------------------------------------------------------------------------
ProtocolTake(w) ==
  \/ \E c \in Contexts : TakeReceived(w, c) \/ (TakeWrite(w, c) /\ UNCHANGED protocolVars)
  \/ \E a \in Accepts : TakeAccept(w, a) /\ UNCHANGED protocolVars

ProtocolHandle(w) ==
  \/ NewObject(w) \/ GetObject(w) \/ UseObject(w) \/ UseAgain(w) \/ ReleaseObject(w)
  \/ EraseReleased(w) \/ NothingReceived(w)
  \/ Close(w) \/ ReadOn(w)
  \/ (Unlocked(w) \/ BareCallback(w) \/ Untouched(w)) /\ UNCHANGED protocolVars

Advance(a) == (a \in Workers /\ ProtocolHandle(a)) \/ Disconnecting(a) \/ ProtocolFault(a)

ProtocolNext ==
  /\ crash = "no"
  /\ \/ \E w \in Workers : ProtocolTake(w)
     \/ \E a \in Agents : Advance(a)
     \/ \E c \in Contexts : SendTo(c)
     \/ CloseAll
     \/ (Flag \/ CloseListenSocket \/ Reset) /\ UNCHANGED protocolVars
     \/ \E a \in Accepts : (FreeAccept(a) \/ AcceptCompletes(a)) /\ UNCHANGED protocolVars

(* As in IocpServer; and a thread in NotifyDisconnectedClient goes on. *)
ProtocolFairness ==
  /\ \A a \in Agents : WF_allVars(crash = "no" /\ Advance(a))
  /\ \A c \in Contexts : SF_allVars(crash = "no" /\ \E w \in Workers :
       ~Open(c) /\ (TakeReceived(w, c) \/ (TakeWrite(w, c) /\ UNCHANGED protocolVars)))

ProtocolSpec == ProtocolInit /\ [][ProtocolNext]_allVars /\ ProtocolFairness

-----------------------------------------------------------------------------
ProtocolTypeOK ==
  /\ TypeOK
  /\ protocol \in {"base", "text", "package"}
  /\ object \in [Contexts -> {"none", "alive", "deleted"}]
  /\ refs \in [Contexts -> Nat]
  /\ entry \in [Contexts -> {"none", "null", "object"}]
  /\ receive \in [Workers -> {"no", "get", "using", "again", "erase", "done"}]
  /\ leave \in [Agents -> {"no", "find", "found", "erase"}]
  /\ reborn \subseteq Contexts

(* The text server deletes an object only when nobody uses it; except for  *)
(* one whose count a receiver brought back from 0: between the decrement   *)
(* and the removal from the map it can still be found.                     *)
UsedAreAlive ==
  protocol = "text" =>
    \A w \in Workers : receive[w] \in {"using", "again"} => Alive(ctx[w]) \/ ctx[w] \in reborn

(* When a PER_SOCKET_CONTEXT is deleted, the object kept for its client    *)
(* has been too, once, and the map does not lead to it any more, however   *)
(* the disconnect met NotifyNewConnection and receives.                    *)
ObjectsFollowClients ==
  protocol # "base" =>
    \A c \in Contexts : client[c].life = "freed" => object[c] = "deleted" /\ entry[c] # "object"
=============================================================================
