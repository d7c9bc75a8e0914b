------------------------------ MODULE Buffers ------------------------------
(***************************************************************************)
(* CIOCPBuffer and IOCPBufferMngr: the bytes of a buffer are in an         *)
(* IOCPBufferData, which the copies of the buffer share and count; data    *)
(* nobody refers to goes back to the pool of the one manager, which        *)
(* getInstance makes when it is first asked for.                           *)
(* A CIOCPBuffer is used by one thread at a time (its user's locks see to  *)
(* that), copies of it by different threads.  Each interlocked operation   *)
(* and each call of the manager's lock, its pool and getInstance is one    *)
(* action; what a thread does to data only it can reach is part of the     *)
(* action before.                                                          *)
(***************************************************************************)
EXTENDS Naturals, Sequences, FiniteSets

CONSTANTS
  Threads, Buffers,
  NoBuffer,
  AllocSize,      \* IOCP_BUFFER_ALLOC_SIZE
  AllocateCount,  \* m_dwAllocateCount: data made at once when the pool is empty
  MaxManagers,    \* bound: runs of the manager's constructor
  MaxData,        \* bound: IOCPBufferData made
  Lengths         \* bound: lengths buffers are given

ASSUME SetsAssumption == IsFiniteSet(Threads) /\ IsFiniteSet(Buffers) /\ NoBuffer \notin Buffers
ASSUME SizesAssumption ==
  /\ {AllocSize, AllocateCount} \subseteq Nat \ {0}
  /\ {MaxManagers, MaxData} \cup Lengths \subseteq Nat

Managers == 1 .. MaxManagers
Data == 1 .. MaxData   \* 0 stands for no manager and no data

VARIABLES
  m_Instance,
  pool,             \* of each manager: m_BufferMemPool
  holder,           \* of each manager: who is in m_MutexLock
  managers, made,   \* how many managers and data have been made
  m_nRefs, m_dwAllocLength, m_dwDataLength,   \* of each data
  m_pData,          \* of each CIOCPBuffer; 0: there is no such object now
  at, using, from,  \* where a thread is, on which buffer, assigning which
  asked,            \* the length it constructs a buffer with
  hand,             \* the data it takes from the pool or gives back
  locked,           \* the manager whose lock it has asked for
  serial,           \* the first buffer is made under a lock of its users
  broken            \* a lock was left, or a pool used, by a thread not in it

dataVars == <<m_nRefs, m_dwAllocLength, m_dwDataLength>>
managerVars == <<m_Instance, pool, holder, managers, made>>
threadVars == <<at, using, from, asked, hand, locked>>
vars == <<dataVars, managerVars, m_pData, threadVars, serial, broken>>

AlignDown(n) == n - (n % AllocSize)   \* mutant: rounds down

(* IOCP_BUFFER_ALIGN_MEMORY *)
Align(n) == n + (AllocSize - (IF n % AllocSize # 0 THEN n % AllocSize ELSE AllocSize))
Grown(d, n) == IF m_dwAllocLength[d] < n THEN Align(n) ELSE m_dwAllocLength[d]
NewData == [i \in 1 .. AllocateCount |-> made + i]

Init ==
  /\ m_Instance = 0 /\ managers = 0 /\ made = 0
  /\ pool = [m \in Managers |-> <<>>] /\ holder = [m \in Managers |-> {}]
  /\ m_nRefs = [d \in Data |-> 0]
  /\ m_dwAllocLength = [d \in Data |-> AllocSize]
  /\ m_dwDataLength = [d \in Data |-> 0]
  /\ m_pData = [b \in Buffers |-> 0]
  /\ at = [t \in Threads |-> "idle"]
  /\ using = [t \in Threads |-> NoBuffer] /\ from = [t \in Threads |-> NoBuffer]
  /\ asked = [t \in Threads |-> 0] /\ hand = [t \in Threads |-> 0]
  /\ locked = [t \in Threads |-> 0]
  /\ serial \in BOOLEAN /\ broken = FALSE

InUse(b) == \E t \in Threads : using[t] = b \/ from[t] = b
Idle(t, b) == at[t] = "idle" /\ ~InUse(b)
Live(b) == m_pData[b] # 0
Go(t, there) == at' = [at EXCEPT ![t] = there]

-----------------------------------------------------------------------------
(* The operations of a CIOCPBuffer. *)
Construct(t, b, n) ==
  /\ Idle(t, b) /\ ~Live(b)
  /\ serial /\ m_Instance = 0 => \A u \in Threads : at[u] = "idle"
  /\ using' = [using EXCEPT ![t] = b] /\ asked' = [asked EXCEPT ![t] = n]
  /\ Go(t, "instance")
  /\ UNCHANGED <<dataVars, managerVars, m_pData, from, hand, locked, serial, broken>>

Copy(t, b, rhs) ==
  /\ Idle(t, b) /\ ~Live(b) /\ ~InUse(rhs) /\ Live(rhs)
  /\ m_nRefs' = [m_nRefs EXCEPT ![m_pData[rhs]] = @ + 1]
  /\ m_pData' = [m_pData EXCEPT ![b] = m_pData[rhs]]
  /\ UNCHANGED <<m_dwAllocLength, m_dwDataLength, managerVars, threadVars, serial, broken>>

ReleaseEarly(t, d) ==   \* mutant: the data goes back when one reference is left
  /\ m_nRefs' = [m_nRefs EXCEPT ![d] = @ - 1]
  /\ IF m_nRefs[d] <= 2
       THEN Go(t, "instance") /\ hand' = [hand EXCEPT ![t] = d]
       ELSE Go(t, "idle") /\ UNCHANGED hand

(* Who counts down to 0 gives the data back. *)
Release(t, d) ==
  /\ m_nRefs' = [m_nRefs EXCEPT ![d] = @ - 1]
  /\ IF m_nRefs[d] = 1
       THEN Go(t, "instance") /\ hand' = [hand EXCEPT ![t] = d]
       ELSE Go(t, "idle") /\ UNCHANGED hand

Destroy(t, b) ==
  /\ Idle(t, b) /\ Live(b)
  /\ Release(t, m_pData[b])
  /\ m_pData' = [m_pData EXCEPT ![b] = 0]
  /\ UNCHANGED <<m_dwAllocLength, m_dwDataLength, managerVars, using, from, asked, locked, serial, broken>>

AssignUncounted(t, b, rhs) ==   \* mutant: operator= without AddRef
  /\ Idle(t, b) /\ Live(b) /\ ~InUse(rhs) /\ Live(rhs)
  /\ using' = [using EXCEPT ![t] = b] /\ from' = [from EXCEPT ![t] = rhs]
  /\ Go(t, "assign")
  /\ UNCHANGED <<dataVars, managerVars, m_pData, asked, hand, locked, serial, broken>>

Assign(t, b, rhs) ==
  /\ Idle(t, b) /\ Live(b) /\ ~InUse(rhs) /\ Live(rhs)
  /\ m_nRefs' = [m_nRefs EXCEPT ![m_pData[rhs]] = @ + 1]
  /\ using' = [using EXCEPT ![t] = b] /\ from' = [from EXCEPT ![t] = rhs]
  /\ Go(t, "assign")
  /\ UNCHANGED <<m_dwAllocLength, m_dwDataLength, managerVars, m_pData, asked, hand, locked, serial, broken>>

(* The new data is stored after the old has gone back: nobody looks at the *)
(* buffer meanwhile.                                                       *)
AssignRelease(t) ==
  /\ at[t] = "assign"
  /\ Release(t, m_pData[using[t]])
  /\ m_pData' = [m_pData EXCEPT ![using[t]] = m_pData[from[t]]]
  /\ using' = [using EXCEPT ![t] = NoBuffer] /\ from' = [from EXCEPT ![t] = NoBuffer]
  /\ UNCHANGED <<m_dwAllocLength, m_dwDataLength, managerVars, asked, locked, serial, broken>>

(* Append, Reallocate and the lengths their users set: all of them do it   *)
(* to a buffer that has no copy.                                           *)
SetLength(t, b, n) ==
  /\ Idle(t, b) /\ Live(b)
  /\ LET d == m_pData[b] IN
       /\ m_nRefs[d] = 1
       /\ m_dwAllocLength' = [m_dwAllocLength EXCEPT ![d] = Grown(d, n)]
       /\ m_dwDataLength' = [m_dwDataLength EXCEPT ![d] = n]
  /\ UNCHANGED <<m_nRefs, managerVars, m_pData, threadVars, serial, broken>>

-----------------------------------------------------------------------------
GetInstanceBlind(t) ==   \* mutant: makes a manager each time
  /\ at[t] = "instance" /\ Go(t, "new")
  /\ UNCHANGED <<dataVars, managerVars, m_pData, using, from, asked, hand, locked, serial, broken>>

(* getInstance: two threads may find no manager and make one each. *)
GetInstance(t) ==
  /\ at[t] = "instance"
  /\ Go(t, IF m_Instance = 0 THEN "new" ELSE "lock")
  /\ UNCHANGED <<dataVars, managerVars, m_pData, using, from, asked, hand, locked, serial, broken>>

NewManager(t) ==
  /\ at[t] = "new" /\ managers < MaxManagers /\ made + AllocateCount <= MaxData
  /\ managers' = managers + 1 /\ made' = made + AllocateCount
  /\ m_Instance' = managers + 1
  /\ pool' = [pool EXCEPT ![managers + 1] = NewData]
  /\ Go(t, "lock")
  /\ UNCHANGED <<dataVars, holder, m_pData, using, from, asked, hand, locked, serial, broken>>

(* Allocate and Free: each call of getInstance reads m_Instance anew. *)
AskLock(t) ==
  /\ at[t] = "lock"
  /\ locked' = [locked EXCEPT ![t] = m_Instance]
  /\ Go(t, "waiting")
  /\ UNCHANGED <<dataVars, managerVars, m_pData, using, from, asked, hand, serial, broken>>

Enter(t) ==
  /\ at[t] = "waiting" /\ holder[locked[t]] = {}
  /\ holder' = [holder EXCEPT ![locked[t]] = {t}]
  /\ Go(t, "inside")
  /\ UNCHANGED <<dataVars, m_Instance, pool, managers, made, m_pData, using, from, asked, hand,
                 locked, serial, broken>>

Alloc(t) ==
  /\ at[t] = "inside" /\ locked[t] = m_Instance /\ hand[t] = 0
  /\ LET full == IF pool[m_Instance] = <<>> THEN NewData ELSE pool[m_Instance] IN
       /\ pool[m_Instance] = <<>> => made + AllocateCount <= MaxData
       /\ made' = IF pool[m_Instance] = <<>> THEN made + AllocateCount ELSE made
       /\ hand' = [hand EXCEPT ![t] = Head(full)]
       /\ pool' = [pool EXCEPT ![m_Instance] = Tail(full)]
  /\ Go(t, "unlock")
  /\ UNCHANGED <<dataVars, m_Instance, holder, managers, m_pData, using, from, asked, locked,
                 serial, broken>>

GiveBack(t) ==
  /\ at[t] = "inside" /\ locked[t] = m_Instance /\ hand[t] # 0
  /\ pool' = [pool EXCEPT ![m_Instance] = Append(@, hand[t])]
  /\ hand' = [hand EXCEPT ![t] = 0]
  /\ Go(t, "unlock")
  /\ UNCHANGED <<dataVars, m_Instance, holder, managers, made, m_pData, using, from, asked, locked,
                 serial, broken>>

Leave(t) ==
  /\ at[t] = "unlock" /\ locked[t] = m_Instance
  /\ holder' = [holder EXCEPT ![m_Instance] = {}]
  /\ locked' = [locked EXCEPT ![t] = 0]
  /\ Go(t, IF hand[t] = 0 THEN "idle" ELSE "taken")
  /\ UNCHANGED <<dataVars, m_Instance, pool, managers, made, m_pData, using, from, asked, hand,
                 serial, broken>>

(* The manager has been replaced under the thread: the end of the program  *)
(* as far as C++ tells.                                                    *)
WrongManager(t) ==
  /\ at[t] \in {"inside", "unlock"} /\ locked[t] # m_Instance
  /\ broken' = TRUE
  /\ UNCHANGED <<dataVars, managerVars, m_pData, threadVars, serial>>

(* The rest of Allocate and of the constructor: the data is t's alone. *)
Constructed(t) ==
  /\ at[t] = "taken"
  /\ LET d == hand[t] IN
       /\ m_dwAllocLength' = [m_dwAllocLength EXCEPT ![d] = Grown(d, asked[t])]
       /\ m_dwDataLength' = [m_dwDataLength EXCEPT ![d] = asked[t]]
       /\ m_nRefs' = [m_nRefs EXCEPT ![d] = @ + 1]
       /\ m_pData' = [m_pData EXCEPT ![using[t]] = d]
  /\ using' = [using EXCEPT ![t] = NoBuffer] /\ asked' = [asked EXCEPT ![t] = 0]
  /\ hand' = [hand EXCEPT ![t] = 0]
  /\ Go(t, "idle")
  /\ UNCHANGED <<managerVars, from, locked, serial, broken>>

-----------------------------------------------------------------------------
Operation(t, b) ==
  \/ \E n \in Lengths : Construct(t, b, n) \/ SetLength(t, b, n)
  \/ Destroy(t, b)
  \/ \E rhs \in Buffers : Copy(t, b, rhs) \/ Assign(t, b, rhs)

ManagerStep(t) ==
  \/ GetInstance(t) \/ NewManager(t) \/ AskLock(t) \/ Enter(t) \/ Alloc(t) \/ GiveBack(t)
  \/ Leave(t) \/ WrongManager(t)

Next ==
  /\ ~broken
  /\ \E t \in Threads :
       \/ \E b \in Buffers : Operation(t, b)
       \/ ManagerStep(t) \/ Constructed(t) \/ AssignRelease(t)

Spec == Init /\ [][Next]_vars

-----------------------------------------------------------------------------
(* The variables keep their types, and a buffer never claims more bytes    *)
(* than its data has room for, also when the data had other users before.  *)
TypeOK ==
  /\ m_Instance \in 0 .. managers /\ managers \in 0 .. MaxManagers /\ made \in 0 .. MaxData
  /\ pool \in [Managers -> Seq(1 .. made)]
  /\ holder \in [Managers -> {{}} \cup {{t} : t \in Threads}]
  /\ m_nRefs \in [Data -> Nat]
  /\ m_dwAllocLength \in [Data -> {AllocSize} \cup {Align(n) : n \in Lengths}]
  /\ m_dwDataLength \in [Data -> {0} \cup Lengths]
  /\ m_pData \in [Buffers -> 0 .. made]
  /\ at \in [Threads -> {"idle", "assign", "instance", "new", "lock", "waiting", "inside", "unlock",
                         "taken"}]
  /\ using \in [Threads -> Buffers \cup {NoBuffer}] /\ from \in [Threads -> Buffers \cup {NoBuffer}]
  /\ asked \in [Threads -> {0} \cup Lengths] /\ hand \in [Threads -> 0 .. made]
  /\ locked \in [Threads -> 0 .. managers]
  /\ serial \in BOOLEAN /\ broken \in BOOLEAN
  /\ \A d \in Data : m_dwDataLength[d] <= m_dwAllocLength[d]

(* m_nRefs is the number of buffers that refer to the data and of the      *)
(* assignments that are about to: no copy can lose it, none keeps it.      *)
ReferencesCounted ==
  \A d \in Data :
    m_nRefs[d] = Cardinality({b \in Buffers : m_pData[b] = d})
                 + Cardinality({t \in Threads : at[t] = "assign" /\ m_pData[from[t]] = d})

(* Data is in one place at a time: referred to, with one thread on its way *)
(* from or to a pool, or in a pool, once.  So nothing is taken from a pool *)
(* that a buffer still uses, none is given back twice and none gets lost.  *)
Slots(d) == UNION {{m} \X {i \in DOMAIN pool[m] : pool[m][i] = d} : m \in Managers}
Places(d) ==
  (IF m_nRefs[d] > 0 THEN 1 ELSE 0)
  + Cardinality({t \in Threads : hand[t] = d}) + Cardinality(Slots(d))
DataInOnePlace == \A d \in 1 .. made : Places(d) = 1

(* If the first buffer is made before others can be, there is one manager, *)
(* and who leaves its lock is the one who entered it.                      *)
OneManager == serial => managers <= 1 /\ ~broken
=============================================================================
