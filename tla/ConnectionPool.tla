--------------------------- MODULE ConnectionPool ---------------------------
(***************************************************************************)
(* SocketConnectionPool and the three threads that use it:                 *)
(*   "check" - CProcessor::ThreadProcess, which pings one connection every *)
(*             5 s (checkConnection) and tops the pool up (reNewPool);     *)
(*   "func"  - CProcessor::FuncProcess, which borrows and returns one      *)
(*             connection every second;                                    *)
(*   "host"  - the MetaTrader server thread that runs CProcessor::         *)
(*             setupSocket at start-up and after every configuration edit. *)
(* The two plugin threads hold CProcessor::m_ContextLock (procLock) around *)
(* each round; the host does not take it.  A critical section of the       *)
(* pool's own m_ContextLock is one action; what the code reads outside it  *)
(* (the pool size in reNewPool, the heartbeat counter) is an action of its *)
(* own.  The network and each connection's client thread change the        *)
(* connection status between any two actions.  One host thread at a time   *)
(* is in setupSocket: two would assign the same strings without a lock.    *)
(***************************************************************************)
EXTENDS Integers, Sequences, FiniteSets, SequencesExt

CONSTANTS
  Conns,                \* identities of MyIOCP objects
  NoConn,               \* the NULL pointer
  Servers,              \* complete (server, port, key) settings
  Blank,                \* settings with an empty server or key, or port 0
  POOL_MAX,
  MAN_POOL_SIZE,
  MAN_POOL_SIZE_INIT,
  MAX_BEAT_HEART_COUNT,
  MaxReconfigs,         \* bound: setupSocket runs at most this often
  MaxFailures           \* bound: CreateConnection fails at most this often

ASSUME SizesAssumption ==
  /\ POOL_MAX \in Nat \ {0}
  /\ MAN_POOL_SIZE \in 0 .. POOL_MAX
  /\ MAN_POOL_SIZE_INIT \in 0 .. POOL_MAX
  /\ MAX_BEAT_HEART_COUNT \in Nat
ASSUME BoundsAssumption == MaxReconfigs \in Nat /\ MaxFailures \in Nat
ASSUME IdsAssumption == NoConn \notin Conns /\ Blank \notin Servers

VARIABLES
  params,        \* SocketConnectionPool::server, port and key
  pool,          \* SocketConnectionPool::pool, front first
  current_size,  \* SocketConnectionPool::current_size
  conn,          \* the MyIOCP object behind each identity, Deleted when none
  made,          \* CProcessor::pool # NULL
  pc,            \* where each thread is
  held,          \* the connection a plugin thread has borrowed
  beat,          \* m_heart_count as "check" read it for its ++
  target,        \* m_ip, m_port and m_key as setupSocket passes them
  procLock,      \* holder of CProcessor::m_ContextLock
  reconfigs, failures

vars == <<params, pool, current_size, conn, made, pc, held, beat, target,
          procLock, reconfigs, failures>>
poolVars == <<params, pool, current_size, conn, failures>>
hostVars == <<made, target, reconfigs>>

Workers == {"check", "func"}
Threads == Workers \cup {"host"}
Settings == Servers \cup {Blank}
Free == "free"

-----------------------------------------------------------------------------
(* A connection object: the settings it was created with; its status;      *)
(* m_heart_count; and whether a request sent on it is still unanswered.    *)
(* Status "closed" covers a failed connect and a noticed disconnect        *)
(* (m_bIsConnected FALSE).  "zombie" is what AsyncProcessReceive leaves    *)
(* when recv reports the end of the stream: the socket is closed and       *)
(* m_bIsConnected stays TRUE.                                              *)
MyIOCP(to, status, heart_count, asked) ==
  [to |-> to, status |-> status, heart_count |-> heart_count, asked |-> asked]
Deleted == MyIOCP(Blank, "deleted", 0, FALSE)
Fresh(s) == MyIOCP(s, "connecting", 0, FALSE)
Statuses == {"deleted", "connecting", "connected", "closed", "zombie"}

Alive == {c \in Conns : conn[c].status # "deleted"}
IsConnected(c) == conn[c].status \in {"connected", "zombie"}
Pooled == ToSet(pool)
Borrowed == {held[w] : w \in Workers} \ {NoConn}

Become(c, status, heart_count, asked) ==
  conn' = [conn EXCEPT ![c] = MyIOCP(conn[c].to, status, heart_count, asked)]

-----------------------------------------------------------------------------
Init ==
  /\ params = Blank
  /\ pool = <<>>
  /\ current_size = 0
  /\ conn = [c \in Conns |-> Deleted]
  /\ made = FALSE
  /\ pc = [t \in Threads |-> "idle"]
  /\ held = [w \in Workers |-> NoConn]
  /\ beat = 0
  /\ target = Blank
  /\ procLock = Free
  /\ reconfigs = 0
  /\ failures = 0

Goto(t, here, there) == pc[t] = here /\ pc' = [pc EXCEPT ![t] = there]

(* CreateConnection with the outcome c: a new object connecting to the     *)
(* current settings, or NULL when the host name does not resolve.  `gone`  *)
(* is the set of connections the caller deletes in the same section.       *)
CreateConnection(c, gone) ==
  LET rest == [d \in Conns |-> IF d \in gone THEN Deleted ELSE conn[d]]
  IN  \/ /\ c = NoConn
         /\ failures < MaxFailures
         /\ failures' = failures + 1
         /\ conn' = rest
      \/ /\ c \in Conns
         /\ rest[c] = Deleted
         /\ conn' = [rest EXCEPT ![c] = Fresh(params)]
         /\ UNCHANGED failures

TakeConnectedKept(c) ==   \* mutant: the connection is not popped
  /\ pool # <<>> /\ c = Head(pool) /\ IsConnected(c)
  /\ UNCHANGED <<pool, current_size, conn, failures>>

(* GetConnection returning c to thread w. *)
TakeConnected(c) ==
  /\ pool # <<>> /\ c = Head(pool) /\ IsConnected(c)
  /\ pool' = Tail(pool)
  /\ UNCHANGED <<current_size, conn, failures>>

ReplaceDisconnected(c) ==
  /\ pool # <<>> /\ ~IsConnected(Head(pool))
  /\ CreateConnection(c, {Head(pool)})
  /\ pool' = Tail(pool)
  /\ current_size' = IF c = NoConn THEN current_size - 1 ELSE current_size

OpenAnother(c) ==
  /\ pool = <<>> /\ current_size < POOL_MAX
  /\ CreateConnection(c, {})
  /\ current_size' = IF c = NoConn THEN current_size ELSE current_size + 1
  /\ UNCHANGED pool

Refuse(c) ==
  /\ pool = <<>> /\ current_size >= POOL_MAX
  /\ c = NoConn
  /\ UNCHANGED <<pool, current_size, conn, failures>>

GetConnection(w) ==
  \E c \in Conns \cup {NoConn} :
    /\ \/ TakeConnected(c)
       \/ ReplaceDisconnected(c)
       \/ OpenAnother(c)
       \/ Refuse(c)
    /\ held' = [held EXCEPT ![w] = c]
    /\ UNCHANGED params

(* ReleaseConnection: a NULL pointer decrements the counter. *)
ReleaseConnection(w) ==
  /\ IF held[w] = NoConn
       THEN current_size' = current_size - 1 /\ UNCHANGED pool
       ELSE pool' = Append(pool, held[w]) /\ UNCHANGED current_size
  /\ held' = [held EXCEPT ![w] = NoConn]
  /\ UNCHANGED <<params, conn, failures>>

Delete(gone) == conn' = [c \in Conns |-> IF c \in gone THEN Deleted ELSE conn[c]]

-----------------------------------------------------------------------------
(* CProcessor::ThreadProcess and SocketConnectionPool::checkConnection.    *)

LockIgnored(w) ==   \* mutant: the plugin threads do not exclude each other
  /\ Goto(w, "idle", "get")
  /\ made
  /\ procLock' = w
  /\ UNCHANGED <<poolVars, hostVars, held, beat>>

Lock(w) ==
  /\ Goto(w, "idle", "get")
  /\ made
  /\ procLock = Free
  /\ procLock' = w
  /\ UNCHANGED <<poolVars, hostVars, held, beat>>

Unlock(w) ==
  /\ Goto(w, "sleep", "idle")
  /\ procLock' = Free
  /\ UNCHANGED <<poolVars, hostVars, held, beat>>

CheckGet ==
  /\ pc["check"] = "get"
  /\ GetConnection("check")
  /\ pc' = [pc EXCEPT !["check"] = IF held'["check"] = NoConn THEN "sleep" ELSE "count"]
  /\ UNCHANGED <<hostVars, beat, procLock>>

CheckDrop ==
  /\ Goto("check", "count", "sleep")
  /\ conn[held["check"]].heart_count > MAX_BEAT_HEART_COUNT
  /\ Delete({held["check"]})
  /\ held' = [held EXCEPT !["check"] = NoConn]
  /\ UNCHANGED <<params, pool, current_size, failures, hostVars, beat, procLock>>

CheckCountUnlimited ==   \* mutant: a silent connection is never given up
  /\ Goto("check", "count", "beat")
  /\ beat' = conn[held["check"]].heart_count
  /\ UNCHANGED <<poolVars, hostVars, held, procLock>>

(* m_heart_count++ is a read and a write: NotifyReceivedFormatPackage      *)
(* zeroes the counter from the client thread without a lock in common.     *)
CheckCount ==
  /\ Goto("check", "count", "beat")
  /\ conn[held["check"]].heart_count <= MAX_BEAT_HEART_COUNT
  /\ beat' = conn[held["check"]].heart_count
  /\ UNCHANGED <<poolVars, hostVars, held, procLock>>

CheckBeat ==
  /\ Goto("check", "beat", "ask")
  /\ LET c == held["check"] IN Become(c, conn[c].status, beat + 1, conn[c].asked)
  /\ beat' = 0
  /\ UNCHANGED <<params, pool, current_size, failures, hostVars, held, procLock>>

CheckAsk ==
  /\ Goto("check", "ask", "release")
  /\ LET c == held["check"] IN Become(c, conn[c].status, conn[c].heart_count, TRUE)
  /\ UNCHANGED <<params, pool, current_size, failures, hostVars, held, beat, procLock>>

CheckRelease ==
  /\ Goto("check", "release", "size")
  /\ ReleaseConnection("check")
  /\ UNCHANGED <<hostVars, beat, procLock>>

RenewSizeUnlimited ==   \* mutant: reNewPool always adds a connection
  /\ Goto("check", "size", "renew")
  /\ UNCHANGED <<poolVars, hostVars, held, beat, procLock>>

RenewSize ==
  /\ pc["check"] = "size"
  /\ pc' = [pc EXCEPT !["check"] = IF Len(pool) < MAN_POOL_SIZE THEN "renew" ELSE "sleep"]
  /\ UNCHANGED <<poolVars, hostVars, held, beat, procLock>>

Renew ==
  /\ Goto("check", "renew", "sleep")
  /\ \E c \in Conns \cup {NoConn} :
       /\ CreateConnection(c, {})
       /\ IF c = NoConn
            THEN UNCHANGED <<pool, current_size>>
            ELSE pool' = Append(pool, c) /\ current_size' = Len(pool)
  /\ UNCHANGED <<params, hostVars, held, beat, procLock>>

(* CProcessor::FuncProcess. *)
FuncGet ==
  /\ Goto("func", "get", "release")
  /\ GetConnection("func")
  /\ UNCHANGED <<hostVars, beat, procLock>>

FuncRelease ==
  /\ Goto("func", "release", "sleep")
  /\ ReleaseConnection("func")
  /\ UNCHANGED <<hostVars, beat, procLock>>

-----------------------------------------------------------------------------
(* CProcessor::setupSocket on the host thread. *)
SetupSocket ==
  /\ Goto("host", "idle", "checkParams")
  /\ reconfigs < MaxReconfigs
  /\ reconfigs' = reconfigs + 1
  /\ made' = TRUE
  /\ target' \in Settings
  /\ UNCHANGED <<poolVars, held, beat, procLock>>

NeedsRestart == params = Blank \/ params # target

CheckParams ==
  /\ pc["host"] = "checkParams"
  /\ pc' = [pc EXCEPT !["host"] = IF NeedsRestart THEN "setParams" ELSE "idle"]
  /\ UNCHANGED <<poolVars, hostVars, held, beat, procLock>>

SetParams ==
  /\ Goto("host", "setParams", "initPool")
  /\ params' = target
  /\ UNCHANGED <<pool, current_size, conn, failures, hostVars, held, beat, procLock>>

InitPool ==
  /\ pc["host"] = "initPool"
  /\ pc' = [pc EXCEPT !["host"] = IF params = Blank THEN "idle" ELSE "destroy"]
  /\ UNCHANGED <<poolVars, hostVars, held, beat, procLock>>

DestoryConnPool ==
  /\ Goto("host", "destroy", "fill")
  /\ Delete(Pooled)
  /\ pool' = <<>>
  /\ current_size' = 0
  /\ UNCHANGED <<params, failures, hostVars, held, beat, procLock>>

(* The loop of initPool, one critical section: `fresh` lists the           *)
(* connections whose creation succeeded, in the order they are pushed.     *)
FillPool ==
  /\ Goto("host", "fill", "idle")
  /\ \E n \in 0 .. MAN_POOL_SIZE_INIT : \E fresh \in [1 .. n -> Conns \ Alive] :
       /\ IsInjective(fresh)
       /\ failures' = failures + (MAN_POOL_SIZE_INIT - n)
       /\ failures' <= MaxFailures
       /\ conn' = [c \in Conns |-> IF c \in ToSet(fresh) THEN Fresh(params) ELSE conn[c]]
       /\ pool' = pool \o fresh
       /\ current_size' = current_size + n
  /\ UNCHANGED <<params, hostVars, held, beat, procLock>>

-----------------------------------------------------------------------------
(* The client thread of a connection (CTextIOCPClient) and the peer.       *)

StatusStep(c, from, to) ==
  /\ conn[c].status = from
  /\ Become(c, to, conn[c].heart_count, conn[c].asked)
  /\ UNCHANGED <<params, pool, current_size, failures, hostVars, pc, held, beat, procLock>>

Connected(c) == StatusStep(c, "connecting", "connected")
ConnectFailed(c) == StatusStep(c, "connecting", "closed")
Disconnected(c) == StatusStep(c, "connected", "closed")
PeerClosed(c) == StatusStep(c, "connected", "zombie")

AnsweredUncounted(c) ==   \* mutant: an answer does not zero the counter
  /\ conn[c].status = "connected"
  /\ conn[c].asked
  /\ Become(c, "connected", conn[c].heart_count, FALSE)
  /\ UNCHANGED <<params, pool, current_size, failures, hostVars, pc, held, beat, procLock>>

(* NotifyReceivedFormatPackage: any package zeroes the counter. *)
Answered(c) ==
  /\ conn[c].status = "connected"
  /\ conn[c].asked \/ conn[c].heart_count > 0
  /\ Become(c, "connected", 0, FALSE)
  /\ UNCHANGED <<params, pool, current_size, failures, hostVars, pc, held, beat, procLock>>

Next ==
  \/ \E w \in Workers : Lock(w) \/ Unlock(w)
  \/ CheckGet \/ CheckDrop \/ CheckCount \/ CheckBeat \/ CheckAsk
  \/ CheckRelease \/ RenewSize \/ Renew
  \/ FuncGet \/ FuncRelease
  \/ SetupSocket \/ CheckParams \/ SetParams \/ InitPool \/ DestoryConnPool \/ FillPool
  \/ \E c \in Conns : \/ Connected(c) \/ ConnectFailed(c)
                      \/ Disconnected(c) \/ PeerClosed(c) \/ Answered(c)

Spec == Init /\ [][Next]_vars

-----------------------------------------------------------------------------
TypeOK ==
  /\ params \in Settings /\ target \in Settings
  /\ pool \in Seq(Conns)
  /\ current_size \in Int
  /\ conn \in [Conns -> [to : Settings, status : Statuses,
                         heart_count : 0 .. MAX_BEAT_HEART_COUNT + 1, asked : BOOLEAN]]
  /\ made \in BOOLEAN
  /\ pc \in [Threads -> {"idle", "get", "count", "beat", "ask", "release", "size", "renew",
                         "sleep", "checkParams", "setParams", "initPool", "destroy", "fill"}]
  /\ held \in [Workers -> Conns \cup {NoConn}]
  /\ beat \in 0 .. MAX_BEAT_HEART_COUNT
  /\ procLock \in Workers \cup {Free}
  /\ reconfigs \in Nat /\ failures \in Nat

(* Every MyIOCP object has exactly one owner: it is in the pool once, or   *)
(* one thread has borrowed it.  So initPool, the replacement in            *)
(* GetConnection and the heartbeat drop never delete an object another     *)
(* thread still uses, nothing is deleted twice, and nothing leaks.         *)
OneOwner ==
  /\ IsInjective(pool)
  /\ Pooled \cap Borrowed = {}
  /\ \A v, w \in Workers : v # w /\ held[v] # NoConn => held[v] # held[w]
  /\ Alive = Pooled \cup Borrowed

(* The pool never keeps more than POOL_MAX connections open.  The counter  *)
(* GetConnection tests does not ensure it (it drifts, see below): what     *)
(* does is that reNewPool and initPool stop early and that procLock lets   *)
(* one thread borrow at a time.                                            *)
WithinCap == Cardinality(Alive) <= POOL_MAX

(* Outside a reconfiguration at most one connection to a server that is no *)
(* longer configured is left: the one a plugin thread had borrowed when    *)
(* initPool emptied the pool.                                              *)
Stale == {c \in Alive : conn[c].to # params}
AtMostOneStale ==
  pc["host"] = "idle" /\ params # Blank => Cardinality(Stale) <= 1

(* checkConnection gives up (heart_count > MAX_BEAT_HEART_COUNT) only on a *)
(* connection with a request the server has not answered, although the     *)
(* increment can overwrite the reset an answer makes.                      *)
DroppedOnlySilent ==
  \A c \in Pooled : conn[c].heart_count > 0 => conn[c].asked

(* "the conn count > maxSize" is the comment on the branch of              *)
(* GetConnection that refuses an empty pool.  Read as a claim: a thread is *)
(* refused only when POOL_MAX connections exist.                           *)
RefusedOnlyWhenFull ==
  \A w \in Workers :
    pc[w] = "get" /\ pool = <<>> /\ current_size >= POOL_MAX => Cardinality(Alive) >= POOL_MAX
=============================================================================
