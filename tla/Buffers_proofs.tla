--------------------------- MODULE Buffers_proofs ---------------------------
(***************************************************************************)
(* The buffers and their pool keep what Buffers states, for any number of  *)
(* threads and buffers, any sizes and however many managers and data the   *)
(* bounds allow.                                                           *)
(***************************************************************************)
EXTENDS Buffers, FiniteSetTheorems, SequenceTheorems, TLAPS

(* Where a thread is says which buffer and which data it works on. *)
Positions == \A t \in Threads :
  /\ at[t] # "assign" => from[t] = NoBuffer
  /\ at[t] = "idle" => using[t] = NoBuffer /\ hand[t] = 0
  /\ at[t] = "assign" => /\ {using[t], from[t]} \subseteq Buffers /\ hand[t] = 0
                         /\ m_pData[using[t]] # 0 /\ m_pData[from[t]] # 0
  /\ using[t] # NoBuffer /\ at[t] # "assign" => m_pData[using[t]] = 0
  /\ at[t] \in {"instance", "new", "lock", "waiting", "inside"}
       => (hand[t] = 0 <=> using[t] # NoBuffer)
  /\ at[t] = "unlock" => (hand[t] # 0 <=> using[t] # NoBuffer)
  /\ at[t] = "taken" => hand[t] # 0 /\ using[t] # NoBuffer
  /\ at[t] \in {"lock", "waiting", "inside", "unlock"} => m_Instance # 0
  /\ at[t] \in {"waiting", "inside", "unlock"} => locked[t] # 0

(* A buffer a thread changes is no other thread's business. *)
Exclusive == \A t, u \in Threads :
  t # u /\ using[t] # NoBuffer => using[t] # using[u] /\ using[t] # from[u]

(* The references to data: the buffers that have it, the assignments that  *)
(* have counted theirs already.                                            *)
Referring(d) == {b \in Buffers : m_pData[b] = d}
Assigning(d) == {t \in Threads : at[t] = "assign" /\ m_pData[from[t]] = d}

Referred == \A b \in Buffers : m_pData[b] # 0 => m_nRefs[m_pData[b]] \in Nat \ {0}

-----------------------------------------------------------------------------
(* Sizes and lengths. *)
LEMMA AlignedUp ==
  ASSUME NEW n \in Nat
  PROVE  Align(n) \in Nat /\ Align(n) >= n
<1>1. AllocSize \in Nat \ {0} /\ n % AllocSize \in 0 .. AllocSize - 1
  BY SizesAssumption
<1> DEFINE r == n % AllocSize
<1>2. Align(n) = n + (AllocSize - (IF r # 0 THEN r ELSE AllocSize))
  BY DEF Align
<1> HIDE DEF r
<1> QED BY <1>1, <1>2 DEF r

LEMMA LengthsFit ==
  ASSUME TypeOK, NEW d \in Data, NEW n \in Lengths \cup {0}
  PROVE  /\ Grown(d, n) \in {AllocSize} \cup {Align(k) : k \in Lengths}
         /\ n <= Grown(d, n)
<1>1. Lengths \subseteq Nat /\ AllocSize \in Nat \ {0}
  BY SizesAssumption
<1>2. \A k \in Lengths : Align(k) \in Nat /\ Align(k) >= k
  BY <1>1, AlignedUp
<1>3. m_dwAllocLength[d] \in {AllocSize} \cup {Align(k) : k \in Lengths}
  BY DEF TypeOK
<1>4. m_dwAllocLength[d] \in Nat
  BY <1>1, <1>2, <1>3
<1>5. CASE m_dwAllocLength[d] < n
  <2>1. n \in Lengths
    BY <1>1, <1>4, <1>5
  <2> QED BY <1>2, <1>5, <2>1 DEF Grown
<1>6. CASE ~(m_dwAllocLength[d] < n)
  BY <1>1, <1>3, <1>4, <1>6 DEF Grown
<1> QED BY <1>5, <1>6

LEMMA NewDataIs ==
  ASSUME made \in Nat
  PROVE  /\ NewData \in Seq(1 .. made + AllocateCount) /\ NewData # <<>>
         /\ Len(NewData) = AllocateCount
         /\ \A i \in 1 .. AllocateCount : NewData[i] = made + i
<1>1. AllocateCount \in Nat \ {0}
  BY SizesAssumption
<1>2. \A i \in 1 .. AllocateCount : made + i \in 1 .. made + AllocateCount
  BY <1>1
<1>3. NewData \in [1 .. AllocateCount -> 1 .. made + AllocateCount]
  BY <1>2 DEF NewData
<1>4. NewData \in Seq(1 .. made + AllocateCount) /\ Len(NewData) = AllocateCount
  BY <1>1, <1>3
<1>5. \A i \in 1 .. AllocateCount : NewData[i] = made + i
  BY DEF NewData
<1> QED BY <1>1, <1>4, <1>5

-----------------------------------------------------------------------------
(* Types. *)
LEMMA NewDataStep ==
  ASSUME TypeOK, made + AllocateCount <= MaxData
  PROVE  /\ made + AllocateCount \in 0 .. MaxData
         /\ Seq(1 .. made) \subseteq Seq(1 .. made + AllocateCount)
         /\ \A x : x \in 0 .. made => x \in 0 .. made + AllocateCount
<1>1. made \in Nat /\ AllocateCount \in Nat /\ MaxData \in Nat
  BY SizesAssumption DEF TypeOK
<1>2. 1 .. made \subseteq 1 .. made + AllocateCount
  BY <1>1
<1>3. Seq(1 .. made) \subseteq Seq(1 .. made + AllocateCount)
  BY <1>2, SeqMonotonic
<1> QED BY <1>1, <1>3

(* The lengths of the data are typed apart from the rest. *)
AllocLengths == {AllocSize} \cup {Align(n) : n \in Lengths}
LengthsTyped ==
  /\ m_dwAllocLength \in [Data -> AllocLengths]
  /\ m_dwDataLength \in [Data -> {0} \cup Lengths]
  /\ \A d \in Data : m_dwDataLength[d] <= m_dwAllocLength[d]
ManagersTyped ==
  /\ m_Instance \in 0 .. managers /\ managers \in 0 .. MaxManagers /\ made \in 0 .. MaxData
  /\ pool \in [Managers -> Seq(1 .. made)]
  /\ holder \in [Managers -> {{}} \cup {{t} : t \in Threads}]
ThreadsTyped ==
  /\ m_nRefs \in [Data -> Nat]
  /\ m_pData \in [Buffers -> 0 .. made]
  /\ at \in [Threads -> {"idle", "assign", "instance", "new", "lock", "waiting", "inside", "unlock",
                         "taken"}]
  /\ using \in [Threads -> Buffers \cup {NoBuffer}] /\ from \in [Threads -> Buffers \cup {NoBuffer}]
  /\ asked \in [Threads -> {0} \cup Lengths] /\ hand \in [Threads -> 0 .. made]
  /\ locked \in [Threads -> 0 .. managers]
  /\ serial \in BOOLEAN /\ broken \in BOOLEAN

LEMMA TypeIs ==
  /\ TypeOK <=> ManagersTyped /\ ThreadsTyped /\ LengthsTyped
  /\ TypeOK' <=> ManagersTyped' /\ ThreadsTyped' /\ LengthsTyped'
<1>1. TypeOK <=> ManagersTyped /\ ThreadsTyped /\ LengthsTyped
  BY DEF TypeOK, ManagersTyped, ThreadsTyped, LengthsTyped, AllocLengths
<1> QED BY <1>1, PTL

LEMMA TypeInit == Init => TypeOK
<1> SUFFICES ASSUME Init PROVE TypeOK
  OBVIOUS
<1>1. /\ Lengths \subseteq Nat /\ AllocSize \in Nat \ {0} /\ MaxManagers \in Nat /\ MaxData \in Nat
      /\ <<>> \in Seq(1 .. 0)
  BY SizesAssumption
<1>2. ManagersTyped
  BY <1>1 DEF Init, ManagersTyped
<1>3. ThreadsTyped
  <2>1. 0 \in 0 .. made /\ 0 \in 0 .. managers
    BY DEF Init
  <2>2. /\ at \in [Threads -> {"idle", "assign", "instance", "new", "lock", "waiting", "inside",
                            "unlock", "taken"}]
        /\ using \in [Threads -> Buffers \cup {NoBuffer}]
        /\ from \in [Threads -> Buffers \cup {NoBuffer}]
    BY DEF Init
  <2>3. /\ m_nRefs \in [Data -> Nat] /\ m_pData \in [Buffers -> 0 .. made]
        /\ asked \in [Threads -> {0} \cup Lengths] /\ hand \in [Threads -> 0 .. made]
        /\ locked \in [Threads -> 0 .. managers] /\ serial \in BOOLEAN /\ broken \in BOOLEAN
    BY <2>1 DEF Init
  <2> QED BY <2>2, <2>3 DEF ThreadsTyped
<1>4. LengthsTyped
  BY <1>1 DEF Init, LengthsTyped, AllocLengths
<1> QED BY <1>2, <1>3, <1>4, TypeIs

(* What Allocate takes from the pool, and what it leaves there. *)
LEMMA FullPool ==
  ASSUME TypeOK, Positions, NEW t \in Threads, Alloc(t)
  PROVE  /\ m_Instance \in Managers /\ made' \in 0 .. MaxData
         /\ Seq(1 .. made) \subseteq Seq(1 .. made') /\ 0 .. made \subseteq 0 .. made'
         /\ \E full \in Seq(1 .. made') :
              /\ full # <<>> /\ Head(full) = full[1]
              /\ full = IF pool[m_Instance] = <<>> THEN NewData ELSE pool[m_Instance]
              /\ hand' = [hand EXCEPT ![t] = Head(full)] /\ hand'[t] \in 1 .. made'
              /\ pool' = [pool EXCEPT ![m_Instance] = Tail(full)]
              /\ Tail(full) \in Seq(1 .. made') /\ Len(Tail(full)) = Len(full) - 1
              /\ Len(full) \in Nat \ {0}
              /\ \A i \in 1 .. Len(Tail(full)) : Tail(full)[i] = full[i + 1]
<1> DEFINE full == IF pool[m_Instance] = <<>> THEN NewData ELSE pool[m_Instance]
<1>0. managers \in Nat /\ made \in Nat /\ MaxManagers \in Nat /\ MaxData \in Nat
  BY SizesAssumption DEF TypeOK
<1>1. m_Instance \in Managers
  BY <1>0 DEF TypeOK, Managers, Positions, Alloc
<1>2. /\ made' \in 0 .. MaxData /\ Seq(1 .. made) \subseteq Seq(1 .. made')
      /\ 0 .. made \subseteq 0 .. made'
  BY NewDataStep DEF Alloc, TypeOK
<1>3. full \in Seq(1 .. made') /\ full # <<>>
  <2>1. CASE pool[m_Instance] = <<>>
    BY <1>0, <2>1, NewDataIs DEF Alloc
  <2>2. CASE pool[m_Instance] # <<>>
    BY <1>1, <1>2, <2>2 DEF TypeOK
  <2> QED BY <2>1, <2>2
<1>4. /\ hand' = [hand EXCEPT ![t] = Head(full)]
      /\ pool' = [pool EXCEPT ![m_Instance] = Tail(full)]
  BY DEF Alloc
<1> HIDE DEF full
<1>5. /\ Head(full) \in 1 .. made' /\ Tail(full) \in Seq(1 .. made')
      /\ Len(Tail(full)) = Len(full) - 1
      /\ \A i \in 1 .. Len(Tail(full)) : Tail(full)[i] = full[i + 1]
  BY <1>3, HeadTailProperties
<1>6. Len(full) \in Nat \ {0} /\ Head(full) = full[1]
  BY <1>3, EmptySeq
<1>7. hand'[t] \in 1 .. made'
  BY <1>4, <1>5 DEF TypeOK
<1> QED BY <1>1, <1>2, <1>3, <1>4, <1>5, <1>6, <1>7 DEF full

LEMMA TypeStep ==
  ASSUME TypeOK, Positions, Referred, Next
  PROVE  TypeOK'
<1> USE DEF dataVars, managerVars, threadVars, Go
<1> SUFFICES ManagersTyped' /\ ThreadsTyped' /\ LengthsTyped'
  BY TypeIs
<1>0. ManagersTyped /\ ThreadsTyped /\ LengthsTyped
  BY TypeIs
<1>1. /\ Lengths \subseteq Nat /\ AllocateCount \in Nat \ {0}
      /\ managers \in Nat /\ made \in Nat /\ MaxManagers \in Nat /\ MaxData \in Nat
  BY SizesAssumption DEF TypeOK
<1>2. PICK t \in Threads : \/ \E b \in Buffers : Operation(t, b)
                           \/ ManagerStep(t) \/ Constructed(t) \/ AssignRelease(t)
  BY DEF Next
<1>a. UNCHANGED <<m_dwAllocLength, m_dwDataLength>> => LengthsTyped'
  BY <1>0 DEF LengthsTyped
<1>b. UNCHANGED managerVars => ManagersTyped'
  BY <1>0 DEF ManagersTyped
<1>3. ASSUME NEW b \in Buffers, NEW n \in Lengths, Construct(t, b, n)
      PROVE  ManagersTyped' /\ ThreadsTyped' /\ LengthsTyped'
  <2>1. ThreadsTyped'
    BY <1>0, <1>3 DEF ThreadsTyped, Construct
  <2> QED BY <1>a, <1>b, <1>3, <2>1 DEF Construct
<1>4. ASSUME NEW b \in Buffers, NEW n \in Lengths, SetLength(t, b, n)
      PROVE  ManagersTyped' /\ ThreadsTyped' /\ LengthsTyped'
  <2>1. m_pData[b] \in Data
    BY <1>0, <1>1, <1>4 DEF ThreadsTyped, ManagersTyped, SetLength, Live, Data
  <2>2. Grown(m_pData[b], n) \in AllocLengths /\ n <= Grown(m_pData[b], n)
    BY <2>1, LengthsFit DEF AllocLengths
  <2>3. LengthsTyped'
    BY <1>0, <1>4, <2>1, <2>2 DEF LengthsTyped, SetLength
  <2>4. ThreadsTyped'
    BY <1>0, <1>4 DEF ThreadsTyped, SetLength
  <2> QED BY <1>b, <1>4, <2>3, <2>4 DEF SetLength
<1>5. ASSUME NEW b \in Buffers, Destroy(t, b)
      PROVE  ManagersTyped' /\ ThreadsTyped' /\ LengthsTyped'
  <2>1. m_pData[b] \in Data /\ m_nRefs[m_pData[b]] - 1 \in Nat /\ m_pData[b] \in 0 .. made
    BY <1>0, <1>1, <1>5 DEF ThreadsTyped, ManagersTyped, Destroy, Live, Data, Referred
  <2>2. ThreadsTyped'
    BY <1>0, <1>1, <1>5, <2>1 DEF ThreadsTyped, Destroy, Release
  <2> QED BY <1>a, <1>b, <1>5, <2>2 DEF Destroy, Release
<1>6. ASSUME NEW b \in Buffers, NEW rhs \in Buffers, Copy(t, b, rhs)
      PROVE  ManagersTyped' /\ ThreadsTyped' /\ LengthsTyped'
  <2>1. m_pData[rhs] \in Data /\ m_pData[rhs] \in 0 .. made
    BY <1>0, <1>1, <1>6 DEF ThreadsTyped, ManagersTyped, Copy, Live, Data
  <2>2. ThreadsTyped'
    BY <1>0, <1>6, <2>1 DEF ThreadsTyped, Copy
  <2> QED BY <1>a, <1>b, <1>6, <2>2 DEF Copy
<1>7. ASSUME NEW b \in Buffers, NEW rhs \in Buffers, Assign(t, b, rhs)
      PROVE  ManagersTyped' /\ ThreadsTyped' /\ LengthsTyped'
  <2>1. m_pData[rhs] \in Data
    BY <1>0, <1>1, <1>7 DEF ThreadsTyped, ManagersTyped, Assign, Live, Data
  <2>2. ThreadsTyped'
    BY <1>0, <1>7, <2>1 DEF ThreadsTyped, Assign
  <2> QED BY <1>a, <1>b, <1>7, <2>2 DEF Assign
<1>8. CASE GetInstance(t)
  BY <1>0, <1>a, <1>b, <1>8 DEF ThreadsTyped, GetInstance
<1>9. CASE NewManager(t)
  <2>1. NewData \in Seq(1 .. made')
    BY <1>1, <1>9, NewDataIs DEF NewManager
  <2>2. /\ made' \in 0 .. MaxData /\ Seq(1 .. made) \subseteq Seq(1 .. made')
        /\ 0 .. made \subseteq 0 .. made'
    BY <1>9, NewDataStep DEF NewManager
  <2>3. pool' \in [Managers -> Seq(1 .. made')]
    BY <1>0, <1>9, <2>1, <2>2 DEF ManagersTyped, NewManager
  <2>4. /\ managers' \in 0 .. MaxManagers /\ m_Instance' \in 0 .. managers'
        /\ 0 .. managers \subseteq 0 .. managers'
    BY <1>1, <1>9 DEF NewManager
  <2>5. ManagersTyped'
    BY <1>0, <1>9, <2>2, <2>3, <2>4 DEF ManagersTyped, NewManager
  <2>6. ThreadsTyped'
    BY <1>0, <1>9, <2>2, <2>4 DEF ThreadsTyped, NewManager
  <2> QED BY <1>a, <1>9, <2>5, <2>6 DEF NewManager
<1>10. CASE AskLock(t)
  BY <1>0, <1>a, <1>b, <1>10 DEF ThreadsTyped, ManagersTyped, AskLock
<1>11. CASE Enter(t)
  BY <1>0, <1>a, <1>11 DEF ThreadsTyped, ManagersTyped, Enter
<1>12. CASE Alloc(t)
  <2>1. /\ made' \in 0 .. MaxData /\ Seq(1 .. made) \subseteq Seq(1 .. made')
        /\ 0 .. made \subseteq 0 .. made' /\ m_Instance \in Managers
    BY <1>12, FullPool
  <2>2. PICK full \in Seq(1 .. made') :
          /\ pool' = [pool EXCEPT ![m_Instance] = Tail(full)] /\ Tail(full) \in Seq(1 .. made')
          /\ hand' = [hand EXCEPT ![t] = Head(full)] /\ hand'[t] \in 1 .. made'
    BY <1>12, FullPool
  <2>a. pool' \in [Managers -> Seq(1 .. made')]
    BY <1>0, <2>1, <2>2 DEF ManagersTyped
  <2>3. ManagersTyped'
    BY <1>0, <1>12, <2>1, <2>a DEF ManagersTyped, Alloc
  <2>4. hand' \in [Threads -> 0 .. made']
    BY <1>0, <2>1, <2>2 DEF ThreadsTyped
  <2>5. ThreadsTyped'
    BY <1>0, <1>12, <2>1, <2>4 DEF ThreadsTyped, Alloc
  <2> QED BY <1>a, <1>12, <2>3, <2>5 DEF Alloc
<1>13. CASE GiveBack(t)
  <2>1. m_Instance \in Managers /\ hand[t] \in 1 .. made
    BY <1>1, <1>13 DEF TypeOK, Managers, Positions, GiveBack
  <2>2. Append(pool[m_Instance], hand[t]) \in Seq(1 .. made)
    BY <2>1 DEF TypeOK
  <2>3. ManagersTyped'
    BY <1>0, <1>13, <2>1, <2>2 DEF ManagersTyped, GiveBack
  <2>4. ThreadsTyped'
    BY <1>0, <1>1, <1>13 DEF ThreadsTyped, GiveBack
  <2> QED BY <1>a, <1>13, <2>3, <2>4 DEF GiveBack
<1>14. CASE Leave(t)
  <2>1. ManagersTyped'
    BY <1>0, <1>14 DEF ManagersTyped, Leave
  <2>2. ThreadsTyped'
    BY <1>0, <1>1, <1>14 DEF ThreadsTyped, Leave
  <2> QED BY <1>a, <1>14, <2>1, <2>2 DEF Leave
<1>15. CASE WrongManager(t)
  BY <1>0, <1>a, <1>b, <1>15 DEF ThreadsTyped, WrongManager
<1>16. CASE Constructed(t)
  <2>1. hand[t] \in 1 .. made
    BY <1>0, <1>1, <1>16 DEF ThreadsTyped, Constructed, Positions
  <2>2. hand[t] \in Data /\ asked[t] \in Lengths \cup {0}
    BY <1>0, <1>1, <1>16, <2>1 DEF ThreadsTyped, ManagersTyped, Data
  <2>3. Grown(hand[t], asked[t]) \in AllocLengths /\ asked[t] <= Grown(hand[t], asked[t])
    BY <2>2, LengthsFit DEF AllocLengths
  <2>4. LengthsTyped'
    BY <1>0, <1>16, <2>2, <2>3 DEF LengthsTyped, Constructed
  <2>5. /\ m_nRefs' = [m_nRefs EXCEPT ![hand[t]] = @ + 1]
        /\ m_pData' = [m_pData EXCEPT ![using[t]] = hand[t]]
        /\ hand' = [hand EXCEPT ![t] = 0] /\ made' = made
    BY <1>16 DEF Constructed
  <2>a. m_nRefs' \in [Data -> Nat]
    BY <1>0, <2>2, <2>5 DEF ThreadsTyped
  <2>c. {0, hand[t]} \subseteq 0 .. made' /\ 0 .. made' = 0 .. made
    BY <1>1, <2>1, <2>5
  <2>d. m_pData' \in [Buffers -> 0 .. made']
    BY <1>0, <2>c, <2>5 DEF ThreadsTyped
  <2>b. m_pData' \in [Buffers -> 0 .. made'] /\ hand' \in [Threads -> 0 .. made']
    BY <1>0, <2>c, <2>d, <2>5 DEF ThreadsTyped
  <2>6. ThreadsTyped'
    BY <1>0, <1>16, <2>a, <2>b DEF ThreadsTyped, Constructed
  <2> QED BY <1>b, <1>16, <2>4, <2>6 DEF Constructed
<1>17. CASE AssignRelease(t)
  <2>1. /\ using[t] \in Buffers /\ from[t] \in Buffers /\ m_pData[using[t]] # 0
        /\ m_pData[using[t]] \in 0 .. made
    BY <1>0, <1>17 DEF ThreadsTyped, AssignRelease, Positions
  <2>2. m_pData[using[t]] \in Data /\ m_nRefs[m_pData[using[t]]] - 1 \in Nat
    BY <1>0, <1>1, <2>1 DEF ThreadsTyped, ManagersTyped, Data, Referred
  <2>3. ThreadsTyped'
    BY <1>0, <1>1, <1>17, <2>1, <2>2 DEF ThreadsTyped, AssignRelease, Release
  <2> QED BY <1>a, <1>b, <1>17, <2>3 DEF AssignRelease, Release
<1> QED BY <1>2, <1>3, <1>4, <1>5, <1>6, <1>7, <1>8, <1>9, <1>10, <1>11, <1>12, <1>13, <1>14,
           <1>15, <1>16, <1>17 DEF Operation, ManagerStep

-----------------------------------------------------------------------------
(* Positions. *)
LEMMA PositionsStep ==
  ASSUME TypeOK, Positions, Exclusive, Next
  PROVE  Positions' /\ Exclusive'
<1> SUFFICES ASSUME NEW t \in Threads, \/ \E b \in Buffers : Operation(t, b)
                                       \/ ManagerStep(t) \/ Constructed(t) \/ AssignRelease(t)
             PROVE  Positions' /\ Exclusive'
  BY DEF Next
<1> USE DEF Go, dataVars, managerVars, threadVars
<1>0. NoBuffer \notin Buffers
  BY SetsAssumption
<1>1. ASSUME NEW b \in Buffers, NEW n \in Lengths, Construct(t, b, n)
      PROVE  Positions' /\ Exclusive'
  BY <1>0, <1>1 DEF TypeOK, Positions, Exclusive, Construct, Idle, InUse, Live
<1>2. ASSUME NEW b \in Buffers, NEW n \in Lengths, SetLength(t, b, n)
      PROVE  Positions' /\ Exclusive'
  BY <1>2 DEF Positions, Exclusive, SetLength
<1>3. ASSUME NEW b \in Buffers, Destroy(t, b)
      PROVE  Positions' /\ Exclusive'
  BY <1>0, <1>3 DEF TypeOK, Positions, Exclusive, Destroy, Release, Idle, InUse, Live
<1>4. ASSUME NEW b \in Buffers, NEW rhs \in Buffers, Copy(t, b, rhs)
      PROVE  Positions' /\ Exclusive'
  BY <1>0, <1>4 DEF TypeOK, Positions, Exclusive, Copy, Idle, InUse, Live
<1>5. ASSUME NEW b \in Buffers, NEW rhs \in Buffers, Assign(t, b, rhs)
      PROVE  Positions' /\ Exclusive'
  BY <1>0, <1>5 DEF TypeOK, Positions, Exclusive, Assign, Idle, InUse, Live
<1>6. CASE GetInstance(t)
  BY <1>6 DEF TypeOK, Positions, Exclusive, GetInstance
<1>7. CASE NewManager(t)
  BY <1>7 DEF TypeOK, Positions, Exclusive, NewManager
<1>8. CASE AskLock(t)
  BY <1>8 DEF TypeOK, Positions, Exclusive, AskLock
<1>9. CASE Enter(t)
  BY <1>9 DEF TypeOK, Positions, Exclusive, Enter
<1>10. CASE Alloc(t)
  <2>1. hand' = [hand EXCEPT ![t] = hand'[t]] /\ hand'[t] \in 1 .. made'
    BY <1>10, FullPool DEF TypeOK
  <2>2. hand'[t] # 0
    BY <1>10, <2>1, FullPool
  <2> QED BY <1>10, <2>1, <2>2 DEF TypeOK, Positions, Exclusive, Alloc
<1>11. CASE GiveBack(t)
  BY <1>11 DEF TypeOK, Positions, Exclusive, GiveBack
<1>12. CASE Leave(t)
  BY <1>12 DEF TypeOK, Positions, Exclusive, Leave
<1>13. CASE WrongManager(t)
  BY <1>13 DEF Positions, Exclusive, WrongManager
<1>14. CASE Constructed(t)
  BY <1>0, <1>14 DEF TypeOK, Positions, Exclusive, Constructed
<1>15. CASE AssignRelease(t)
  BY <1>0, <1>15 DEF TypeOK, Positions, Exclusive, AssignRelease, Release
<1> QED BY <1>1, <1>2, <1>3, <1>4, <1>5, <1>6, <1>7, <1>8, <1>9, <1>10, <1>11, <1>12, <1>13, <1>14,
           <1>15 DEF Operation, ManagerStep

-----------------------------------------------------------------------------
(* Counts. *)
LEMMA CountsAre ==
  /\ ReferencesCounted <=>
       \A d \in Data : m_nRefs[d] = Cardinality(Referring(d)) + Cardinality(Assigning(d))
  /\ ReferencesCounted' <=>
       \A d \in Data : m_nRefs'[d] = Cardinality(Referring(d)') + Cardinality(Assigning(d)')
  BY DEF ReferencesCounted, Referring, Assigning

LEMMA CountsFinite ==
  ASSUME NEW d
  PROVE  /\ IsFiniteSet(Referring(d)) /\ Cardinality(Referring(d)) \in Nat
         /\ IsFiniteSet(Assigning(d)) /\ Cardinality(Assigning(d)) \in Nat
<1>1. Referring(d) \subseteq Buffers /\ Assigning(d) \subseteq Threads
  BY DEF Referring, Assigning
<1>2. IsFiniteSet(Referring(d)) /\ IsFiniteSet(Assigning(d))
  BY <1>1, SetsAssumption, FS_Subset
<1> QED BY <1>2, FS_CardinalityType

LEMMA AreReferred ==
  ASSUME TypeOK, ReferencesCounted
  PROVE  Referred
<1> SUFFICES ASSUME NEW b \in Buffers, m_pData[b] # 0
             PROVE  m_nRefs[m_pData[b]] \in Nat \ {0}
  BY DEF Referred
<1>0. made \in 0 .. MaxData /\ MaxData \in Nat /\ m_pData[b] \in 0 .. made
  BY SizesAssumption DEF TypeOK
<1>1. m_pData[b] \in Data
  BY <1>0 DEF Data
<1>2. Cardinality(Referring(m_pData[b])) # 0
  BY CountsFinite, FS_EmptySet DEF Referring
<1> QED BY <1>1, <1>2, CountsAre, CountsFinite

(* What a step does to the references to one data. *)
LEMMA OneMore ==
  ASSUME NEW S, NEW x, IsFiniteSet(S), x \notin S
  PROVE  Cardinality(S \cup {x}) = Cardinality(S) + 1
  BY FS_AddElement

LEMMA OneLess ==
  ASSUME NEW S, NEW x, IsFiniteSet(S), x \in S
  PROVE  Cardinality(S \ {x}) = Cardinality(S) - 1
  BY FS_RemoveElement

LEMMA CountedStep ==
  ASSUME TypeOK, Positions, Exclusive, ReferencesCounted, Next
  PROVE  ReferencesCounted'
<1> SUFFICES ASSUME NEW d \in Data
             PROVE  m_nRefs'[d] = Cardinality(Referring(d)') + Cardinality(Assigning(d)')
  BY CountsAre
<1> SUFFICES ASSUME NEW t \in Threads, \/ \E b \in Buffers : Operation(t, b)
                                       \/ ManagerStep(t) \/ Constructed(t) \/ AssignRelease(t)
             PROVE  m_nRefs'[d] = Cardinality(Referring(d)') + Cardinality(Assigning(d)')
  BY DEF Next
<1> USE DEF Go, dataVars, managerVars, threadVars
<1> DEFINE Counted == m_nRefs'[d] = Cardinality(Referring(d)') + Cardinality(Assigning(d)')
<1>1. /\ m_nRefs[d] = Cardinality(Referring(d)) + Cardinality(Assigning(d))
      /\ m_nRefs[d] \in Nat /\ d # 0
  BY CountsAre DEF TypeOK, Data
<1>2. /\ IsFiniteSet(Referring(d)) /\ Cardinality(Referring(d)) \in Nat
      /\ IsFiniteSet(Assigning(d)) /\ Cardinality(Assigning(d)) \in Nat
  BY CountsFinite
<1>3. NoBuffer \notin Buffers
  BY SetsAssumption
<1>4. ASSUME UNCHANGED m_pData, m_nRefs'[d] = m_nRefs[d], UNCHANGED from, at'[t] # "assign",
             at' = [at EXCEPT ![t] = at'[t]], at[t] # "assign"
      PROVE  Counted
  <2>1. Referring(d)' = Referring(d)
    BY <1>4 DEF Referring
  <2>2. Assigning(d)' = Assigning(d)
    BY <1>4 DEF TypeOK, Assigning
  <2> QED BY <1>1, <1>4, <2>1, <2>2
<1>5. ASSUME NEW b \in Buffers, NEW n \in Lengths, Construct(t, b, n) \/ SetLength(t, b, n)
      PROVE  Counted
  BY <1>4, <1>5 DEF TypeOK, Construct, SetLength, Idle
<1>6. ASSUME NEW b \in Buffers, Destroy(t, b)
      PROVE  Counted
  <2>1. Assigning(d)' = Assigning(d)
    BY <1>3, <1>6 DEF TypeOK, Positions, Destroy, Release, Idle, InUse, Assigning
  <2>2. CASE d = m_pData[b]
    <3>1. Referring(d)' = Referring(d) \ {b} /\ b \in Referring(d)
      BY <1>1, <1>6, <2>2 DEF TypeOK, Destroy, Referring
    <3>2. m_nRefs'[d] = m_nRefs[d] - 1
      BY <1>6, <2>2 DEF TypeOK, Destroy, Release
    <3>3. Cardinality(Referring(d)') = Cardinality(Referring(d)) - 1
      BY <1>2, <3>1, OneLess
    <3> QED BY <1>1, <1>2, <2>1, <3>2, <3>3
  <2>3. CASE d # m_pData[b]
    <3>1. Referring(d)' = Referring(d)
      BY <1>1, <1>6, <2>3 DEF TypeOK, Destroy, Referring
    <3>2. m_nRefs'[d] = m_nRefs[d]
      BY <1>6, <2>3 DEF TypeOK, Destroy, Release
    <3> QED BY <1>1, <2>1, <3>1, <3>2
  <2> QED BY <2>2, <2>3
<1>7. ASSUME NEW b \in Buffers, NEW rhs \in Buffers, Copy(t, b, rhs)
      PROVE  Counted
  <2>1. Assigning(d)' = Assigning(d)
    BY <1>3, <1>7 DEF TypeOK, Positions, Copy, Idle, InUse, Assigning
  <2>2. CASE d = m_pData[rhs]
    <3>1. Referring(d)' = Referring(d) \cup {b} /\ b \notin Referring(d)
      BY <1>1, <1>7, <2>2 DEF TypeOK, Copy, Live, Referring
    <3>2. m_nRefs'[d] = m_nRefs[d] + 1
      BY <1>7, <2>2 DEF TypeOK, Copy
    <3>3. Cardinality(Referring(d)') = Cardinality(Referring(d)) + 1
      BY <1>2, <3>1, OneMore
    <3> QED BY <1>1, <1>2, <2>1, <3>2, <3>3
  <2>3. CASE d # m_pData[rhs]
    <3>1. Referring(d)' = Referring(d)
      BY <1>1, <1>7, <2>3 DEF TypeOK, Copy, Live, Referring
    <3>2. m_nRefs'[d] = m_nRefs[d]
      BY <1>7, <2>3 DEF TypeOK, Copy
    <3> QED BY <1>1, <2>1, <3>1, <3>2
  <2> QED BY <2>2, <2>3
<1>8. ASSUME NEW b \in Buffers, NEW rhs \in Buffers, Assign(t, b, rhs)
      PROVE  Counted
  <2>1. Referring(d)' = Referring(d)
    BY <1>8 DEF Assign, Referring
  <2>2. CASE d = m_pData[rhs]
    <3>1. Assigning(d)' = Assigning(d) \cup {t} /\ t \notin Assigning(d)
      BY <1>8, <2>2 DEF TypeOK, Assign, Idle, Assigning
    <3>2. m_nRefs'[d] = m_nRefs[d] + 1
      BY <1>8, <2>2 DEF TypeOK, Assign
    <3>3. Cardinality(Assigning(d)') = Cardinality(Assigning(d)) + 1
      BY <1>2, <3>1, OneMore
    <3> QED BY <1>1, <1>2, <2>1, <3>2, <3>3
  <2>3. CASE d # m_pData[rhs]
    <3>1. Assigning(d)' = Assigning(d)
      BY <1>8, <2>3 DEF TypeOK, Assign, Idle, Assigning
    <3>2. m_nRefs'[d] = m_nRefs[d]
      BY <1>8, <2>3 DEF TypeOK, Assign
    <3> QED BY <1>1, <2>1, <3>1, <3>2
  <2> QED BY <2>2, <2>3
<1>9. CASE ManagerStep(t)
  BY <1>4, <1>9 DEF TypeOK, ManagerStep, GetInstance, NewManager, AskLock, Enter, Alloc, GiveBack, Leave,
     WrongManager
<1>10. CASE Constructed(t)
  <2>1. using[t] \in Buffers /\ m_pData[using[t]] = 0 /\ from[t] = NoBuffer /\ hand[t] # 0
    BY <1>10 DEF TypeOK, Positions, Constructed
  <2>2. \A u \in Threads : at[u] = "assign" => from[u] # using[t]
    BY <1>3, <1>10, <2>1 DEF Exclusive, Positions, Constructed
  <2>3. Assigning(d)' = Assigning(d)
    BY <1>10, <2>1, <2>2 DEF TypeOK, Positions, Constructed, Assigning
  <2>4. CASE d = hand[t]
    <3>1. Referring(d)' = Referring(d) \cup {using[t]} /\ using[t] \notin Referring(d)
      BY <1>1, <1>10, <2>1, <2>4 DEF TypeOK, Constructed, Referring
    <3>2. m_nRefs'[d] = m_nRefs[d] + 1
      BY <1>10, <2>4 DEF TypeOK, Constructed
    <3>3. Cardinality(Referring(d)') = Cardinality(Referring(d)) + 1
      BY <1>2, <3>1, OneMore
    <3> QED BY <1>1, <1>2, <2>3, <3>2, <3>3
  <2>5. CASE d # hand[t]
    <3>1. Referring(d)' = Referring(d)
      BY <1>1, <1>10, <2>1, <2>5 DEF TypeOK, Constructed, Referring
    <3>2. m_nRefs'[d] = m_nRefs[d]
      BY <1>10, <2>5 DEF TypeOK, Constructed
    <3> QED BY <1>1, <2>3, <3>1, <3>2
  <2> QED BY <2>4, <2>5
<1>11. CASE AssignRelease(t)
  <2> DEFINE old == m_pData[using[t]]
             new == m_pData[from[t]]
  <2>1. using[t] \in Buffers /\ from[t] \in Buffers /\ old # 0 /\ new # 0 /\ at[t] = "assign"
    BY <1>11 DEF Positions, AssignRelease
  <2>2. \A u \in Threads : u # t /\ at[u] = "assign" => from[u] # using[t]
    BY <1>3, <2>1 DEF Exclusive, Positions
  <2>3. /\ m_nRefs' = [m_nRefs EXCEPT ![old] = @ - 1]
        /\ m_pData' = [m_pData EXCEPT ![using[t]] = new]
        /\ from' = [from EXCEPT ![t] = NoBuffer]
        /\ at' = [at EXCEPT ![t] = at'[t]] /\ at'[t] # "assign"
    BY <1>11 DEF TypeOK, AssignRelease, Release
  <2> HIDE DEF old, new
  <2>4. Assigning(d)' = IF d = new THEN Assigning(d) \ {t} ELSE Assigning(d)
    BY <2>1, <2>2, <2>3 DEF TypeOK, Positions, Assigning, new
  <2>5. d = new => t \in Assigning(d)
    BY <2>1 DEF Assigning, new
  <2>6. CASE old = new
    <3>1. Referring(d)' = Referring(d)
      BY <2>1, <2>3, <2>6 DEF TypeOK, Referring, old
    <3>2. m_nRefs'[d] = IF d = new THEN m_nRefs[d] - 1 ELSE m_nRefs[d]
      BY <2>3, <2>6 DEF TypeOK
    <3>3. d = new => Cardinality(Assigning(d)') = Cardinality(Assigning(d)) - 1
      BY <1>2, <2>4, <2>5, OneLess
    <3> QED BY <1>1, <1>2, <2>4, <3>1, <3>2, <3>3
  <2>7. CASE old # new /\ d = old
    <3>1. Referring(d)' = Referring(d) \ {using[t]} /\ using[t] \in Referring(d)
      BY <2>1, <2>3, <2>7 DEF TypeOK, Referring, old
    <3>2. m_nRefs'[d] = m_nRefs[d] - 1
      BY <2>3, <2>7 DEF TypeOK
    <3>3. Cardinality(Referring(d)') = Cardinality(Referring(d)) - 1
      BY <1>2, <3>1, OneLess
    <3> QED BY <1>1, <1>2, <2>4, <2>7, <3>2, <3>3
  <2>8. CASE old # new /\ d = new
    <3>1. Referring(d)' = Referring(d) \cup {using[t]} /\ using[t] \notin Referring(d)
      BY <2>1, <2>3, <2>8 DEF TypeOK, Referring, old
    <3>2. m_nRefs'[d] = m_nRefs[d]
      BY <2>3, <2>8 DEF TypeOK
    <3>3. Cardinality(Assigning(d)') = Cardinality(Assigning(d)) - 1
      BY <1>2, <2>4, <2>5, <2>8, OneLess
    <3>4. Cardinality(Referring(d)') = Cardinality(Referring(d)) + 1
      BY <1>2, <3>1, OneMore
    <3> QED BY <1>1, <1>2, <3>2, <3>3, <3>4
  <2>9. CASE d # old /\ d # new
    <3>1. Referring(d)' = Referring(d)
      BY <2>1, <2>3, <2>9 DEF TypeOK, Referring, old
    <3> QED BY <1>1, <2>3, <2>4, <2>9, <3>1 DEF TypeOK
  <2> QED BY <2>6, <2>7, <2>8, <2>9
<1> QED BY <1>5, <1>6, <1>7, <1>8, <1>9, <1>10, <1>11 DEF Operation

-----------------------------------------------------------------------------
(* Places. *)
HandAlone == \A t, u \in Threads : hand[t] # 0 /\ hand[t] = hand[u] => t = u
SlotAlone ==
  \A m, n \in Managers : \A i \in 1 .. Len(pool[m]), j \in 1 .. Len(pool[n]) :
    pool[m][i] = pool[n][j] => m = n /\ i = j
HandOrSlot == \A t \in Threads, m \in Managers : \A i \in 1 .. Len(pool[m]) : hand[t] # pool[m][i]
Unreferenced ==
  /\ \A t \in Threads : hand[t] # 0 => m_nRefs[hand[t]] = 0
  /\ \A m \in Managers : \A i \in 1 .. Len(pool[m]) : m_nRefs[pool[m][i]] = 0
Somewhere == \A d \in 1 .. made :
  \/ m_nRefs[d] > 0
  \/ \E t \in Threads : hand[t] = d
  \/ \E m \in Managers : \E i \in 1 .. Len(pool[m]) : pool[m][i] = d
NotYet ==
  /\ \A m \in Managers : m > managers => pool[m] = <<>>
  /\ \A d \in Data : d > made => m_nRefs[d] = 0
OnePlace == HandAlone /\ SlotAlone /\ HandOrSlot /\ Unreferenced /\ Somewhere /\ NotYet

LEMMA PlaceTypes ==
  ASSUME TypeOK
  PROVE  /\ made \in Nat /\ MaxData \in Nat /\ made <= MaxData /\ 1 .. made \subseteq Data
         /\ m_nRefs \in [Data -> Nat] /\ hand \in [Threads -> 0 .. made]
         /\ pool \in [Managers -> Seq(1 .. made)] /\ managers \in Nat /\ MaxManagers \in Nat
         /\ AllocateCount \in Nat \ {0} /\ Data \subseteq Nat /\ Managers \subseteq Nat
<1>1. MaxData \in Nat /\ MaxManagers \in Nat /\ AllocateCount \in Nat \ {0}
  BY SizesAssumption
<1>2. /\ made \in 0 .. MaxData /\ managers \in 0 .. MaxManagers
      /\ m_nRefs \in [Data -> Nat] /\ hand \in [Threads -> 0 .. made]
      /\ pool \in [Managers -> Seq(1 .. made)]
  BY DEF TypeOK
<1>3. Data \subseteq Nat /\ Managers \subseteq Nat /\ 1 .. made \subseteq Data
  BY <1>1, <1>2 DEF Data, Managers
<1> QED BY <1>1, <1>2, <1>3

LEMMA ReleasePlaces ==
  ASSUME TypeOK, OnePlace, NEW t \in Threads, hand[t] = 0,
         NEW d \in 1 .. made, m_nRefs[d] \in Nat \ {0}, Release(t, d), UNCHANGED managerVars
  PROVE  OnePlace'
<1> USE DEF managerVars
<1>0. /\ made \in Nat /\ MaxData \in Nat /\ made <= MaxData /\ 1 .. made \subseteq Data
      /\ m_nRefs \in [Data -> Nat] /\ hand \in [Threads -> 0 .. made]
      /\ pool \in [Managers -> Seq(1 .. made)]
  BY PlaceTypes
<1>1. /\ m_nRefs' = [m_nRefs EXCEPT ![d] = @ - 1]
      /\ hand' = IF m_nRefs[d] = 1 THEN [hand EXCEPT ![t] = d] ELSE hand
  BY DEF Release
<1>2. /\ \A u \in Threads : hand[u] # d
      /\ \A m \in Managers : \A i \in 1 .. Len(pool[m]) : pool[m][i] # d
  BY <1>0 DEF OnePlace, Unreferenced
<1>3. /\ \A e \in Data : e # d => m_nRefs'[e] = m_nRefs[e]
      /\ m_nRefs'[d] = m_nRefs[d] - 1 /\ d # 0
  BY <1>0, <1>1
<1>4. HandAlone' /\ HandOrSlot'
  BY <1>0, <1>1, <1>2 DEF OnePlace, HandAlone, HandOrSlot
<1>5. Unreferenced'
  <2>1. \A m \in Managers : \A i \in 1 .. Len(pool[m]) : pool[m][i] \in Data
    BY <1>0
  <2>2. \A u \in Threads : hand'[u] # 0 => m_nRefs'[hand'[u]] = 0
    BY <1>0, <1>1, <1>2, <1>3 DEF OnePlace, Unreferenced
  <2> QED BY <1>2, <1>3, <2>1, <2>2 DEF OnePlace, Unreferenced
<1>6. Somewhere'
  <2> SUFFICES ASSUME NEW e \in 1 .. made
               PROVE  \/ m_nRefs'[e] > 0
                      \/ \E u \in Threads : hand'[u] = e
                      \/ \E m \in Managers : \E i \in 1 .. Len(pool[m]) : pool[m][i] = e
    BY DEF Somewhere
  <2>1. CASE e = d
    BY <1>0, <1>1, <1>3, <2>1
  <2>2. CASE e # d
    BY <1>0, <1>1, <1>3, <2>2 DEF OnePlace, Somewhere
  <2> QED BY <2>1, <2>2
<1>7. SlotAlone' /\ NotYet'
  BY <1>0, <1>3 DEF OnePlace, SlotAlone, NotYet
<1> QED BY <1>4, <1>5, <1>6, <1>7 DEF OnePlace

LEMMA ReferPlaces ==
  ASSUME TypeOK, OnePlace, NEW d \in 1 .. made, m_nRefs[d] \in Nat \ {0},
         m_nRefs' = [m_nRefs EXCEPT ![d] = @ + 1], UNCHANGED <<hand, managerVars>>
  PROVE  OnePlace'
<1> USE DEF managerVars
<1>0. /\ made \in Nat /\ MaxData \in Nat /\ made <= MaxData /\ 1 .. made \subseteq Data
      /\ m_nRefs \in [Data -> Nat] /\ hand \in [Threads -> 0 .. made]
      /\ pool \in [Managers -> Seq(1 .. made)]
  BY PlaceTypes
<1>1. /\ \A u \in Threads : hand[u] # d
      /\ \A m \in Managers : \A i \in 1 .. Len(pool[m]) : pool[m][i] # d
  BY <1>0 DEF OnePlace, Unreferenced
<1>2. /\ \A e \in Data : e # d => m_nRefs'[e] = m_nRefs[e]
      /\ m_nRefs'[d] > 0
  BY <1>0
<1>3. HandAlone' /\ HandOrSlot' /\ SlotAlone' /\ NotYet'
  BY <1>0, <1>2 DEF OnePlace, HandAlone, HandOrSlot, SlotAlone, NotYet
<1>4. Unreferenced'
  <2>1. /\ \A m \in Managers : \A i \in 1 .. Len(pool[m]) : pool[m][i] \in Data
        /\ \A u \in Threads : hand[u] # 0 => hand[u] \in Data
    BY <1>0
  <2> QED BY <1>1, <1>2, <2>1 DEF OnePlace, Unreferenced
<1>5. Somewhere'
  <2>1. \A e \in 1 .. made : m_nRefs[e] > 0 => m_nRefs'[e] > 0
    BY <1>0, <1>2
  <2> QED BY <2>1 DEF OnePlace, Somewhere
<1> QED BY <1>3, <1>4, <1>5 DEF OnePlace

LEMMA NewManagerPlaces ==
  ASSUME TypeOK, OnePlace, NEW t \in Threads, NewManager(t)
  PROVE  OnePlace'
<1>0. /\ made \in Nat /\ MaxData \in Nat /\ made <= MaxData /\ 1 .. made \subseteq Data
      /\ m_nRefs \in [Data -> Nat] /\ hand \in [Threads -> 0 .. made]
      /\ pool \in [Managers -> Seq(1 .. made)] /\ managers \in Nat /\ MaxManagers \in Nat
      /\ AllocateCount \in Nat \ {0} /\ Data \subseteq Nat /\ Managers \subseteq Nat
  BY PlaceTypes
<1> DEFINE new == managers + 1
<1>1. /\ made' = made + AllocateCount /\ made' <= MaxData /\ managers' = new
      /\ pool' = [pool EXCEPT ![new] = NewData] /\ UNCHANGED <<hand, m_nRefs>>
  BY DEF NewManager, dataVars
<1>2. new \in Managers /\ pool[new] = <<>>
  BY <1>0 DEF NewManager, Managers, OnePlace, NotYet
<1>3. /\ Len(NewData) = AllocateCount
      /\ \A i \in 1 .. AllocateCount : NewData[i] = made + i
  BY <1>0, NewDataIs
<1>4. \A m \in Managers : m # new => pool'[m] = pool[m]
  BY <1>0, <1>1
<1>5. pool'[new] = NewData
  BY <1>0, <1>1, <1>2
<1> HIDE DEF new
<1>6. \A m \in Managers : Len(pool[m]) \in Nat /\ \A i \in 1 .. Len(pool[m]) : pool[m][i] \in 1 .. made
  BY <1>0
<1>7. \A m \in Managers : \A i \in 1 .. Len(pool'[m]) :
        \/ m = new /\ i \in 1 .. AllocateCount /\ pool'[m][i] = made + i
        \/ m # new /\ i \in 1 .. Len(pool[m]) /\ pool'[m][i] = pool[m][i] /\ pool'[m][i] <= made
  <2> SUFFICES ASSUME NEW m \in Managers, NEW i \in 1 .. Len(pool'[m])
               PROVE  \/ m = new /\ i \in 1 .. AllocateCount /\ pool'[m][i] = made + i
                      \/ /\ m # new /\ i \in 1 .. Len(pool[m])
                         /\ pool'[m][i] = pool[m][i] /\ pool'[m][i] <= made
    OBVIOUS
  <2>1. CASE m = new
    BY <1>3, <1>5, <2>1
  <2>2. CASE m # new
    <3>1. i \in 1 .. Len(pool[m]) /\ pool'[m][i] = pool[m][i] /\ pool[m][i] \in 1 .. made
      BY <1>4, <1>6, <2>2
    <3> QED BY <1>0, <2>2, <3>1
  <2> QED BY <2>1, <2>2
<1>8. HandAlone'
  BY <1>1 DEF OnePlace, HandAlone
<1>9. SlotAlone'
  <2> SUFFICES ASSUME NEW m \in Managers, NEW n \in Managers,
                      NEW i \in 1 .. Len(pool'[m]), NEW j \in 1 .. Len(pool'[n]),
                      pool'[m][i] = pool'[n][j]
               PROVE  m = n /\ i = j
    BY DEF SlotAlone
  <2>1. CASE m = new \/ n = new
    <3>a. ASSUME NEW k \in Managers, NEW l \in 1 .. Len(pool'[k])
          PROVE  /\ k = new => l \in Nat \ {0} /\ pool'[k][l] = made + l
                 /\ k # new => pool'[k][l] \in 1 .. made
      <4>1. CASE k = new
        BY <1>0, <1>7, <4>1
      <4>2. CASE k # new
        BY <1>6, <1>7, <4>2
      <4> QED BY <4>1, <4>2
    <3>1. /\ m = new => i \in Nat \ {0} /\ pool'[m][i] = made + i
          /\ n = new => j \in Nat \ {0} /\ pool'[n][j] = made + j
          /\ m # new => pool'[m][i] \in 1 .. made
          /\ n # new => pool'[n][j] \in 1 .. made
      BY <3>a
    <3>2. m = new /\ n = new
      BY <1>0, <2>1, <3>1
    <3> QED BY <1>0, <3>1, <3>2
  <2>2. CASE m # new /\ n # new
    <3>1. /\ i \in 1 .. Len(pool[m]) /\ j \in 1 .. Len(pool[n])
          /\ pool[m][i] = pool[n][j]
      BY <1>7, <2>2
    <3> QED BY <3>1 DEF OnePlace, SlotAlone
  <2> QED BY <2>1, <2>2
<1>10. HandOrSlot'
  BY <1>0, <1>1, <1>7 DEF OnePlace, HandOrSlot
<1>11. Unreferenced'
  <2>1. \A i \in 1 .. AllocateCount : made + i \in Data /\ made + i > made
    BY <1>0, <1>1 DEF Data
  <2> QED BY <1>1, <1>7, <2>1 DEF OnePlace, Unreferenced, NotYet
<1>12. Somewhere'
  <2> SUFFICES ASSUME NEW e \in 1 .. made'
               PROVE  \/ m_nRefs[e] > 0
                      \/ \E u \in Threads : hand[u] = e
                      \/ \E m \in Managers : \E i \in 1 .. Len(pool'[m]) : pool'[m][i] = e
    BY <1>1 DEF Somewhere
  <2>1. CASE e <= made
    <3>1. \A m \in Managers : \A i \in 1 .. Len(pool[m]) :
            m # new /\ i \in 1 .. Len(pool'[m]) /\ pool'[m][i] = pool[m][i]
      BY <1>2, <1>4, <1>6
    <3>2. e \in 1 .. made
      BY <1>0, <1>1, <2>1
    <3> QED BY <3>1, <3>2 DEF OnePlace, Somewhere
  <2>2. CASE e > made
    <3>1. e - made \in 1 .. AllocateCount /\ made + (e - made) = e
      BY <1>0, <1>1, <2>2
    <3>2. pool'[new][e - made] = e /\ e - made \in 1 .. Len(pool'[new])
      BY <1>3, <1>5, <3>1
    <3> QED BY <1>2, <3>2
  <2> QED BY <1>0, <1>1, <2>1, <2>2
<1>13. NotYet'
  <2>1. \A m \in Managers : m > managers' => pool'[m] = <<>>
    <3>1. \A m \in Managers : m > managers' => m > managers /\ m # new
      BY <1>0, <1>1 DEF new
    <3> QED BY <1>4, <3>1 DEF OnePlace, NotYet
  <2>2. \A d \in Data : d > made' => d > made
    BY <1>0, <1>1
  <2> QED BY <1>1, <2>1, <2>2 DEF OnePlace, NotYet
<1> QED BY <1>8, <1>9, <1>10, <1>11, <1>12, <1>13 DEF OnePlace

LEMMA AllocPlaces ==
  ASSUME TypeOK, Positions, OnePlace, NEW t \in Threads, Alloc(t)
  PROVE  OnePlace'
<1>0. /\ made \in Nat /\ MaxData \in Nat /\ made <= MaxData /\ 1 .. made \subseteq Data
      /\ m_nRefs \in [Data -> Nat] /\ hand \in [Threads -> 0 .. made]
      /\ pool \in [Managers -> Seq(1 .. made)] /\ managers \in Nat
      /\ AllocateCount \in Nat \ {0} /\ Data \subseteq Nat /\ Managers \subseteq Nat
  BY PlaceTypes
<1> DEFINE here == m_Instance
<1>a. here \in Managers /\ made' \in 0 .. MaxData /\ 0 .. made \subseteq 0 .. made'
  BY FullPool
<1>b. made' \in Nat /\ made <= made'
  <2>1. made \in 0 .. made
    BY <1>0
  <2>2. made \in 0 .. made' /\ made' \in 0 .. MaxData
    BY <1>a, <2>1
  <2> QED BY <1>0, <2>2
<1>c. hand[t] = 0 /\ UNCHANGED <<m_nRefs, managers, m_Instance>>
  BY DEF Alloc, dataVars
<1>d. ~(here > managers)
  BY <1>0 DEF TypeOK
<1>1. /\ here \in Managers /\ made' \in Nat /\ made <= made'
      /\ hand[t] = 0 /\ UNCHANGED <<m_nRefs, managers, m_Instance>> /\ ~(here > managers)
  BY <1>a, <1>b, <1>c, <1>d
<1>2. PICK full \in Seq(1 .. made') :
        /\ full # <<>> /\ Head(full) = full[1]
        /\ full = IF pool[m_Instance] = <<>> THEN NewData ELSE pool[m_Instance]
        /\ hand' = [hand EXCEPT ![t] = Head(full)] /\ hand'[t] \in 1 .. made'
        /\ pool' = [pool EXCEPT ![m_Instance] = Tail(full)]
        /\ Tail(full) \in Seq(1 .. made') /\ Len(Tail(full)) = Len(full) - 1
        /\ Len(full) \in Nat \ {0}
        /\ \A i \in 1 .. Len(Tail(full)) : Tail(full)[i] = full[i + 1]
  BY FullPool
(* What is in full is new or was in this pool, all of it once. *)
<1>3. /\ \A i, j \in 1 .. Len(full) : full[i] = full[j] => i = j
      /\ \A i \in 1 .. Len(full) : full[i] \in Data /\ full[i] # 0
      /\ \A i \in 1 .. Len(full) : m_nRefs[full[i]] = 0
      /\ \A i \in 1 .. Len(full), u \in Threads : full[i] # hand[u]
      /\ \A i \in 1 .. Len(full), m \in Managers \ {here} :
           \A j \in 1 .. Len(pool[m]) : full[i] # pool[m][j]
      /\ \A j \in 1 .. Len(pool[here]) : \E i \in 1 .. Len(full) : full[i] = pool[here][j]
      /\ \A d \in 1 .. made' : ~(d <= made) => \E i \in 1 .. Len(full) : full[i] = d
  <2>1. CASE pool[here] = <<>>
    <3>1. full = NewData /\ made' = made + AllocateCount /\ made' <= MaxData
      BY <1>2, <2>1 DEF Alloc
    <3>2. /\ Len(full) = AllocateCount
          /\ \A i \in 1 .. AllocateCount : full[i] = made + i
      BY <1>0, <3>1, NewDataIs
    <3>3. \A i \in 1 .. Len(full) : /\ i \in Nat \ {0} /\ full[i] = made + i
                                    /\ full[i] > made /\ full[i] \in Data /\ full[i] # 0
      <4> SUFFICES ASSUME NEW i \in 1 .. Len(full)
                   PROVE  /\ i \in Nat \ {0} /\ full[i] = made + i
                          /\ full[i] > made /\ full[i] \in Data /\ full[i] # 0
        OBVIOUS
      <4>1. i \in 1 .. AllocateCount /\ full[i] = made + i
        BY <3>2
      <4> QED BY <1>0, <3>1, <4>1 DEF Data
    <3>4. \A i, j \in 1 .. Len(full) : full[i] = full[j] => i = j
      BY <1>0, <3>3
    <3>5. \A i \in 1 .. Len(full) : m_nRefs[full[i]] = 0
      BY <3>3 DEF OnePlace, NotYet
    <3>6. \A u \in Threads : hand[u] \in 0 .. made
      BY <1>0
    <3>7. \A i \in 1 .. Len(full), u \in Threads : full[i] # hand[u]
      BY <1>0, <3>3, <3>6
    <3>8. \A m \in Managers : \A j \in 1 .. Len(pool[m]) : pool[m][j] \in 1 .. made
      BY <1>0
    <3>9. \A i \in 1 .. Len(full), m \in Managers \ {here} :
            \A j \in 1 .. Len(pool[m]) : full[i] # pool[m][j]
      BY <1>0, <3>3, <3>8
    <3>10. \A j \in 1 .. Len(pool[here]) : \E i \in 1 .. Len(full) : full[i] = pool[here][j]
      BY <2>1
    <3>11. \A d \in 1 .. made' : ~(d <= made) => \E i \in 1 .. Len(full) : full[i] = d
      <4> SUFFICES ASSUME NEW d \in 1 .. made', ~(d <= made)
                   PROVE  \E i \in 1 .. Len(full) : full[i] = d
        OBVIOUS
      <4>1. d - made \in 1 .. AllocateCount /\ made + (d - made) = d
        BY <1>0, <3>1
      <4> QED BY <3>2, <4>1
    <3> QED BY <3>3, <3>4, <3>5, <3>7, <3>9, <3>10, <3>11
  <2>2. CASE pool[here] # <<>>
    <3>1. full = pool[here] /\ made' = made
      BY <1>2, <2>2 DEF Alloc
    <3>2. \A i \in 1 .. Len(full) : full[i] \in Data /\ full[i] # 0
      BY <1>0, <1>1, <3>1
    <3>3. \A i, j \in 1 .. Len(full) : full[i] = full[j] => i = j
      BY <1>1, <3>1 DEF OnePlace, SlotAlone
    <3>4. /\ \A i \in 1 .. Len(full) : m_nRefs[full[i]] = 0
          /\ \A i \in 1 .. Len(full), u \in Threads : full[i] # hand[u]
      BY <1>1, <3>1 DEF OnePlace, Unreferenced, HandOrSlot
    <3>5. \A i \in 1 .. Len(full), m \in Managers \ {here} :
            \A j \in 1 .. Len(pool[m]) : full[i] # pool[m][j]
      BY <1>1, <3>1 DEF OnePlace, SlotAlone
    <3> QED BY <1>0, <3>1, <3>2, <3>3, <3>4, <3>5
  <2> QED BY <2>1, <2>2
<1>4. /\ \A m \in Managers : m # here => pool'[m] = pool[m]
      /\ pool'[here] = Tail(full)
      /\ \A u \in Threads : hand'[u] = IF u = t THEN full[1] ELSE hand[u]
      /\ 1 \in 1 .. Len(full)
  BY <1>0, <1>1, <1>2
<1> HIDE DEF here
<1>5. \A i \in 1 .. Len(pool'[here]) :
        pool'[here][i] = full[i + 1] /\ i + 1 \in 1 .. Len(full) /\ i + 1 # 1 /\ i \in Nat
  <2>1. Len(pool'[here]) = Len(full) - 1 /\ Len(full) \in Nat \ {0}
    BY <1>2, <1>4
  <2>2. \A i \in 1 .. Len(pool'[here]) : pool'[here][i] = full[i + 1]
    BY <1>2, <1>4
  <2>3. \A i \in 1 .. Len(pool'[here]) : i + 1 \in 1 .. Len(full) /\ i + 1 # 1 /\ i \in Nat
    BY <2>1
  <2> QED BY <2>2, <2>3
<1>6. HandAlone'
  BY <1>3, <1>4 DEF OnePlace, HandAlone
<1>7. SlotAlone'
  <2> SUFFICES ASSUME NEW m \in Managers, NEW n \in Managers,
                      NEW i \in 1 .. Len(pool'[m]), NEW j \in 1 .. Len(pool'[n]),
                      pool'[m][i] = pool'[n][j]
               PROVE  m = n /\ i = j
    BY DEF SlotAlone
  <2>1. CASE m = here /\ n = here
    <3>1. i + 1 = j + 1 /\ i \in Nat /\ j \in Nat
      BY <1>3, <1>5, <2>1
    <3> QED BY <2>1, <3>1
  <2>2. CASE m = here /\ n # here
    <3>1. pool'[m][i] = full[i + 1] /\ i + 1 \in 1 .. Len(full)
      BY <1>5, <2>2
    <3>2. j \in 1 .. Len(pool[n]) /\ pool'[n][j] = pool[n][j] /\ n \in Managers \ {here}
      BY <1>4, <2>2
    <3>3. full[i + 1] # pool[n][j]
      BY <1>3, <3>1, <3>2
    <3> QED BY <3>1, <3>2, <3>3
  <2>3. CASE m # here /\ n = here
    <3>1. pool'[n][j] = full[j + 1] /\ j + 1 \in 1 .. Len(full)
      BY <1>5, <2>3
    <3>2. i \in 1 .. Len(pool[m]) /\ pool'[m][i] = pool[m][i] /\ m \in Managers \ {here}
      BY <1>4, <2>3
    <3>3. full[j + 1] # pool[m][i]
      BY <1>3, <3>1, <3>2
    <3> QED BY <3>1, <3>2, <3>3
  <2>4. CASE m # here /\ n # here
    BY <1>4, <2>4 DEF OnePlace, SlotAlone
  <2> QED BY <2>1, <2>2, <2>3, <2>4
<1>8. HandOrSlot'
  <2> SUFFICES ASSUME NEW u \in Threads, NEW m \in Managers, NEW i \in 1 .. Len(pool'[m])
               PROVE  hand'[u] # pool'[m][i]
    BY DEF HandOrSlot
  <2>1. CASE m = here
    BY <1>3, <1>4, <1>5, <2>1
  <2>2. CASE m # here
    BY <1>3, <1>4, <2>2 DEF OnePlace, HandOrSlot
  <2> QED BY <2>1, <2>2
<1>9. Unreferenced'
  <2>1. \A u \in Threads : hand'[u] # 0 => m_nRefs[hand'[u]] = 0
    BY <1>3, <1>4 DEF OnePlace, Unreferenced
  <2>2. \A m \in Managers : \A i \in 1 .. Len(pool'[m]) : m_nRefs[pool'[m][i]] = 0
    <3>1. \A i \in 1 .. Len(pool'[here]) : m_nRefs[pool'[here][i]] = 0
      BY <1>3, <1>5
    <3>2. \A m \in Managers : m # here =>
            \A i \in 1 .. Len(pool'[m]) : m_nRefs[pool'[m][i]] = 0
      BY <1>4 DEF OnePlace, Unreferenced
    <3> QED BY <3>1, <3>2
  <2> QED BY <1>1, <2>1, <2>2 DEF Unreferenced
<1>10. Somewhere'
  <2> SUFFICES ASSUME NEW d \in 1 .. made'
               PROVE  \/ m_nRefs[d] > 0
                      \/ \E u \in Threads : hand'[u] = d
                      \/ \E m \in Managers : \E i \in 1 .. Len(pool'[m]) : pool'[m][i] = d
    BY <1>1 DEF Somewhere
  <2>1. ASSUME NEW i \in 1 .. Len(full), full[i] = d
        PROVE  \/ \E u \in Threads : hand'[u] = d
               \/ \E m \in Managers : \E j \in 1 .. Len(pool'[m]) : pool'[m][j] = d
    <3>1. CASE i = 1
      BY <1>4, <2>1, <3>1
    <3>2. CASE i # 1
      <4>1. i - 1 \in 1 .. Len(pool'[here]) /\ (i - 1) + 1 = i
        <5>1. Len(pool'[here]) = Len(full) - 1 /\ Len(full) \in Nat
          BY <1>2, <1>4
        <5> QED BY <3>2, <5>1
      <4> QED BY <1>1, <1>5, <2>1, <4>1
    <3> QED BY <3>1, <3>2
  <2>2. CASE d <= made
    <3>1. d \in 1 .. made
      BY <1>0, <1>1, <2>2
    <3>2. CASE \E u \in Threads : hand[u] = d
      <4>1. d # 0
        BY <3>1
      <4> QED BY <1>1, <1>4, <3>2, <4>1
    <3>3. CASE \E m \in Managers : \E i \in 1 .. Len(pool[m]) : pool[m][i] = d
      <4>a. PICK m \in Managers : \E j \in 1 .. Len(pool[m]) : pool[m][j] = d
        BY <3>3
      <4>1. PICK j \in 1 .. Len(pool[m]) : pool[m][j] = d
        BY <4>a
      <4>2. CASE m = here
        <5>1. \E i \in 1 .. Len(full) : full[i] = d
          BY <1>3, <4>1, <4>2
        <5> QED BY <2>1, <5>1
      <4>3. CASE m # here
        BY <1>4, <4>1, <4>3
      <4> QED BY <4>2, <4>3
    <3> QED BY <3>1, <3>2, <3>3 DEF OnePlace, Somewhere
  <2>3. CASE ~(d <= made)
    BY <1>3, <2>1, <2>3
  <2> QED BY <2>2, <2>3
<1>11. NotYet'
  <2>1. \A d \in Data : d > made' => d > made
    BY <1>0, <1>1
  <2>2. \A m \in Managers : m > managers => pool'[m] = <<>>
    BY <1>1, <1>4 DEF OnePlace, NotYet
  <2> QED BY <1>1, <2>1, <2>2 DEF OnePlace, NotYet
<1> QED BY <1>6, <1>7, <1>8, <1>9, <1>10, <1>11 DEF OnePlace

LEMMA GiveBackPlaces ==
  ASSUME TypeOK, Positions, OnePlace, NEW t \in Threads, GiveBack(t)
  PROVE  OnePlace'
<1>0. /\ made \in Nat /\ hand \in [Threads -> 0 .. made]
      /\ pool \in [Managers -> Seq(1 .. made)] /\ managers \in Nat /\ Managers \subseteq Nat
  BY PlaceTypes
<1> DEFINE here == m_Instance
           d == hand[t]
<1>1. /\ pool' = [pool EXCEPT ![here] = Append(@, d)] /\ hand' = [hand EXCEPT ![t] = 0]
      /\ UNCHANGED <<m_nRefs, managers, made>> /\ d # 0
  BY DEF GiveBack, dataVars
<1>2. here \in 0 .. managers /\ managers \in 0 .. MaxManagers /\ MaxManagers \in Nat /\ here # 0
  BY SizesAssumption DEF TypeOK, GiveBack, Positions
<1>3. here \in Managers /\ ~(here > managers)
  BY <1>0, <1>2 DEF Managers
<1>4. d \in 1 .. made
  BY <1>0, <1>1
<1> HIDE DEF here, d
<1>5. /\ \A m \in Managers : m # here => pool'[m] = pool[m]
      /\ pool'[here] = Append(pool[here], d) /\ pool[here] \in Seq(1 .. made)
      /\ \A u \in Threads : hand'[u] = IF u = t THEN 0 ELSE hand[u]
  BY <1>0, <1>1, <1>3
<1>6. /\ Len(pool'[here]) = Len(pool[here]) + 1 /\ Len(pool[here]) \in Nat
      /\ \A i \in 1 .. Len(pool[here]) : pool'[here][i] = pool[here][i]
      /\ pool'[here][Len(pool[here]) + 1] = d
  BY <1>4, <1>5, AppendProperties, LenProperties
<1> DEFINE last == Len(pool[here]) + 1
<1>7. \A m \in Managers : \A i \in 1 .. Len(pool'[m]) :
        \/ m = here /\ i = last /\ pool'[m][i] = d
        \/ i \in 1 .. Len(pool[m]) /\ pool'[m][i] = pool[m][i]
  <2>1. \A i \in 1 .. Len(pool'[here]) : i = last \/ i \in 1 .. Len(pool[here])
    BY <1>6
  <2> QED BY <1>5, <1>6, <2>1
<1>8. /\ last \in 1 .. Len(pool'[here]) /\ pool'[here][last] = d
      /\ \A m \in Managers : \A i \in 1 .. Len(pool[m]) :
           i \in 1 .. Len(pool'[m]) /\ pool'[m][i] = pool[m][i]
  <2>1. /\ \A i \in 1 .. Len(pool[here]) : i \in 1 .. Len(pool'[here])
        /\ last \in 1 .. Len(pool'[here])
    BY <1>6
  <2> QED BY <1>5, <1>6, <2>1
<1> HIDE DEF last
<1>9. /\ \A m \in Managers : \A i \in 1 .. Len(pool[m]) : pool[m][i] # d
      /\ \A u \in Threads : u # t => hand[u] # d
      /\ m_nRefs[d] = 0
  BY <1>1 DEF OnePlace, HandOrSlot, HandAlone, Unreferenced, d
<1>10. HandAlone'
  BY <1>5 DEF OnePlace, HandAlone
<1>11. SlotAlone'
  <2> SUFFICES ASSUME NEW m \in Managers, NEW n \in Managers,
                      NEW i \in 1 .. Len(pool'[m]), NEW j \in 1 .. Len(pool'[n]),
                      pool'[m][i] = pool'[n][j]
               PROVE  m = n /\ i = j
    BY DEF SlotAlone
  <2>1. CASE pool'[m][i] = d
    <3>1. m = here /\ i = last
      BY <1>7, <1>9, <2>1
    <3>2. pool'[n][j] = d
      BY <2>1
    <3>3. n = here /\ j = last
      BY <1>7, <1>9, <3>2
    <3> QED BY <3>1, <3>3
  <2>2. CASE pool'[m][i] # d
    <3>1. i \in 1 .. Len(pool[m]) /\ pool'[m][i] = pool[m][i]
      BY <1>7, <2>2
    <3>2. j \in 1 .. Len(pool[n]) /\ pool'[n][j] = pool[n][j]
      BY <1>7, <2>2
    <3>3. pool[m][i] = pool[n][j]
      BY <3>1, <3>2
    <3> QED BY <3>1, <3>2, <3>3 DEF OnePlace, SlotAlone
  <2> QED BY <2>1, <2>2
<1>12. HandOrSlot'
  <2>1. \A m \in Managers : \A i \in 1 .. Len(pool[m]) : pool[m][i] # 0
    BY <1>0
  <2> QED BY <1>1, <1>5, <1>7, <1>9, <2>1 DEF OnePlace, HandOrSlot
<1>13. Unreferenced'
  BY <1>1, <1>5, <1>7, <1>9 DEF OnePlace, Unreferenced
<1>14. Somewhere'
  <2> SUFFICES ASSUME NEW e \in 1 .. made
               PROVE  \/ m_nRefs[e] > 0
                      \/ \E u \in Threads : hand'[u] = e
                      \/ \E m \in Managers : \E i \in 1 .. Len(pool'[m]) : pool'[m][i] = e
    BY <1>1 DEF Somewhere
  <2>1. CASE e = d
    BY <1>3, <1>8, <2>1
  <2>2. CASE e # d
    <3>1. \A u \in Threads : hand[u] = e => hand'[u] = e
      BY <1>5, <2>2 DEF d
    <3>2. \A m \in Managers : \A i \in 1 .. Len(pool[m]) :
            pool[m][i] = e => i \in 1 .. Len(pool'[m]) /\ pool'[m][i] = e
      BY <1>8
    <3>3. \/ m_nRefs[e] > 0
          \/ \E u \in Threads : hand[u] = e
          \/ \E m \in Managers : \E i \in 1 .. Len(pool[m]) : pool[m][i] = e
      BY DEF OnePlace, Somewhere
    <3> QED BY <3>1, <3>2, <3>3
  <2> QED BY <2>1, <2>2
<1>15. NotYet'
  <2>1. \A m \in Managers : m > managers => m # here
    BY <1>3
  <2> QED BY <1>1, <1>5, <2>1 DEF OnePlace, NotYet
<1> QED BY <1>10, <1>11, <1>12, <1>13, <1>14, <1>15 DEF OnePlace

LEMMA ConstructedPlaces ==
  ASSUME TypeOK, Positions, OnePlace, NEW t \in Threads, Constructed(t)
  PROVE  OnePlace'
<1> DEFINE d == hand[t]
<1>0. /\ made \in Nat /\ 1 .. made \subseteq Data
      /\ m_nRefs \in [Data -> Nat] /\ hand \in [Threads -> 0 .. made]
      /\ pool \in [Managers -> Seq(1 .. made)] /\ Data \subseteq Nat
  BY PlaceTypes
<1>1. /\ m_nRefs' = [m_nRefs EXCEPT ![d] = @ + 1] /\ hand' = [hand EXCEPT ![t] = 0]
      /\ UNCHANGED <<pool, managers, made>> /\ d # 0
  BY DEF Constructed, managerVars, Positions
<1>2. d \in 1 .. made /\ d \in Data
  BY <1>0, <1>1
<1>3. /\ \A u \in Threads : u # t => hand[u] # d
      /\ \A m \in Managers : \A i \in 1 .. Len(pool[m]) : pool[m][i] # d
  BY <1>1 DEF OnePlace, HandAlone, HandOrSlot
<1>4. /\ \A e \in Data : e # d => m_nRefs'[e] = m_nRefs[e]
      /\ m_nRefs'[d] > 0
      /\ \A u \in Threads : hand'[u] = IF u = t THEN 0 ELSE hand[u]
  BY <1>0, <1>1, <1>2
<1>5. /\ \A m \in Managers : \A i \in 1 .. Len(pool[m]) : pool[m][i] \in Data /\ pool[m][i] # 0
      /\ \A u \in Threads : hand[u] # 0 => hand[u] \in Data
  BY <1>0
<1> HIDE DEF d
<1>6. HandAlone' /\ SlotAlone' /\ HandOrSlot'
  BY <1>1, <1>4, <1>5 DEF OnePlace, HandAlone, SlotAlone, HandOrSlot
<1>7. Unreferenced'
  BY <1>1, <1>3, <1>4, <1>5 DEF OnePlace, Unreferenced
<1>8. Somewhere'
  <2> SUFFICES ASSUME NEW e \in 1 .. made
               PROVE  \/ m_nRefs'[e] > 0
                      \/ \E u \in Threads : hand'[u] = e
                      \/ \E m \in Managers : \E i \in 1 .. Len(pool[m]) : pool[m][i] = e
    BY <1>1 DEF Somewhere
  <2>1. CASE e = d
    BY <1>4, <2>1
  <2>2. CASE e # d
    <3>1. m_nRefs'[e] = m_nRefs[e]
      BY <1>0, <1>4, <2>2
    <3>2. \A u \in Threads : hand[u] = e => hand'[u] = e
      BY <1>4, <2>2 DEF d
    <3> QED BY <3>1, <3>2 DEF OnePlace, Somewhere
  <2> QED BY <2>1, <2>2
<1>9. NotYet'
  <2>1. \A e \in Data : e > made => e # d
    BY <1>0, <1>2
  <2> QED BY <1>1, <1>4, <2>1 DEF OnePlace, NotYet
<1> QED BY <1>6, <1>7, <1>8, <1>9 DEF OnePlace

LEMMA OnePlaceStep ==
  ASSUME TypeOK, Positions, Referred, OnePlace, Next
  PROVE  OnePlace'
<1> SUFFICES ASSUME NEW t \in Threads, \/ \E b \in Buffers : Operation(t, b)
                                       \/ ManagerStep(t) \/ Constructed(t) \/ AssignRelease(t)
             PROVE  OnePlace'
  BY DEF Next
<1>0. /\ \A b \in Buffers : m_pData[b] # 0 => m_pData[b] \in 1 .. made
      /\ \A b \in Buffers : m_pData[b] # 0 => m_nRefs[m_pData[b]] \in Nat \ {0}
  BY PlaceTypes DEF TypeOK, Referred
<1>1. UNCHANGED <<m_nRefs, hand, pool, managers, made>> => OnePlace'
  BY DEF OnePlace, HandAlone, SlotAlone, HandOrSlot, Unreferenced, Somewhere, NotYet
<1>2. ASSUME NEW b \in Buffers, NEW n \in Lengths, Construct(t, b, n) \/ SetLength(t, b, n)
      PROVE  OnePlace'
  BY <1>1, <1>2 DEF Construct, SetLength, dataVars, managerVars, threadVars
<1>3. ASSUME NEW b \in Buffers, Destroy(t, b)
      PROVE  OnePlace'
  <2>1. hand[t] = 0
    BY <1>3 DEF Destroy, Idle, Positions
  <2> QED BY <1>0, <1>3, <2>1, ReleasePlaces DEF Destroy, Live
<1>4. ASSUME NEW b \in Buffers, NEW rhs \in Buffers, Copy(t, b, rhs) \/ Assign(t, b, rhs)
      PROVE  OnePlace'
  BY <1>0, <1>4, ReferPlaces DEF Copy, Assign, Live, threadVars
<1>5. CASE ManagerStep(t)
  <2>1. CASE NewManager(t) \/ Alloc(t) \/ GiveBack(t)
    BY <2>1, NewManagerPlaces, AllocPlaces, GiveBackPlaces
  <2>2. CASE GetInstance(t) \/ AskLock(t) \/ Enter(t) \/ Leave(t) \/ WrongManager(t)
    BY <1>1, <2>2 DEF GetInstance, AskLock, Enter, Leave, WrongManager, dataVars, managerVars, threadVars
  <2> QED BY <1>5, <2>1, <2>2 DEF ManagerStep
<1>6. CASE Constructed(t)
  BY <1>6, ConstructedPlaces
<1>7. CASE AssignRelease(t)
  <2>1. hand[t] = 0 /\ using[t] \in Buffers /\ m_pData[using[t]] # 0
    BY <1>7 DEF AssignRelease, Positions
  <2> QED BY <1>0, <1>7, <2>1, ReleasePlaces DEF AssignRelease
<1> QED BY <1>2, <1>3, <1>4, <1>5, <1>6, <1>7 DEF Operation

-----------------------------------------------------------------------------
(* The manager. *)
SerialInv == serial =>
  /\ managers <= 1 /\ m_Instance = managers /\ ~broken
  /\ m_Instance = 0 => /\ \A b \in Buffers : m_pData[b] = 0
                       /\ \A t \in Threads : at[t] \in {"idle", "instance", "new"}
                       /\ \A t, u \in Threads : at[t] # "idle" /\ at[u] # "idle" => t = u
  /\ \A t \in Threads : at[t] = "new" => m_Instance = 0
  /\ \A t \in Threads : at[t] \in {"waiting", "inside", "unlock"} => locked[t] = 1

LEMMA SerialStep ==
  ASSUME TypeOK, Positions, SerialInv, Next
  PROVE  SerialInv'
<1> SUFFICES ASSUME NEW t \in Threads, \/ \E b \in Buffers : Operation(t, b)
                                       \/ ManagerStep(t) \/ Constructed(t) \/ AssignRelease(t)
             PROVE  SerialInv'
  BY DEF Next
<1> USE DEF Go, dataVars, managerVars, threadVars
<1>0. /\ managers \in Nat /\ m_Instance \in Nat /\ at = [u \in Threads |-> at[u]]
      /\ locked \in [Threads -> Nat]
  <2>1. managers \in Nat
    BY PlaceTypes
  <2>2. m_Instance \in 0 .. managers /\ locked \in [Threads -> 0 .. managers]
    BY DEF TypeOK
  <2>3. at = [u \in Threads |-> at[u]]
    BY DEF TypeOK
  <2> QED BY <2>1, <2>2, <2>3
<1>1. ASSUME NEW b \in Buffers, NEW n \in Lengths, Construct(t, b, n)
      PROVE  SerialInv'
  BY <1>0, <1>1 DEF SerialInv, Construct, Idle
<1>2. ASSUME NEW b \in Buffers, NEW n \in Lengths, SetLength(t, b, n)
      PROVE  SerialInv'
  BY <1>2 DEF SerialInv, SetLength
<1>3. ASSUME NEW b \in Buffers, Destroy(t, b)
      PROVE  SerialInv'
  BY <1>0, <1>3 DEF SerialInv, Destroy, Release, Idle, Live
<1>4. ASSUME NEW b \in Buffers, NEW rhs \in Buffers, Copy(t, b, rhs) \/ Assign(t, b, rhs)
      PROVE  SerialInv'
  BY <1>0, <1>4 DEF SerialInv, Copy, Assign, Idle, Live
<1>5. CASE GetInstance(t)
  BY <1>0, <1>5 DEF SerialInv, GetInstance
<1>6. CASE NewManager(t)
  BY <1>0, <1>6 DEF SerialInv, NewManager
<1>7. CASE AskLock(t)
  BY <1>0, <1>7 DEF SerialInv, AskLock
<1>8. CASE Enter(t)
  BY <1>0, <1>8 DEF SerialInv, Enter
<1>9. CASE Alloc(t) \/ GiveBack(t)
  BY <1>0, <1>9 DEF SerialInv, Alloc, GiveBack
<1>10. CASE Leave(t)
  BY <1>0, <1>10 DEF SerialInv, Leave
<1>11. CASE WrongManager(t)
  BY <1>0, <1>11 DEF SerialInv, WrongManager, Positions
<1>12. CASE Constructed(t)
  BY <1>0, <1>12 DEF SerialInv, Constructed
<1>13. CASE AssignRelease(t)
  BY <1>0, <1>13 DEF SerialInv, AssignRelease, Release
<1> QED BY <1>1, <1>2, <1>3, <1>4, <1>5, <1>6, <1>7, <1>8, <1>9, <1>10, <1>11, <1>12,
           <1>13 DEF Operation, ManagerStep

-----------------------------------------------------------------------------
(* The invariant: each part needs the one before. *)
IInv == TypeOK /\ Positions /\ Exclusive /\ ReferencesCounted /\ OnePlace /\ SerialInv

LEMMA Inductive == Spec => []IInv
<1>1. Init => IInv
  <2> SUFFICES ASSUME Init PROVE IInv
    OBVIOUS
  <2>1. TypeOK /\ made = 0 /\ MaxData \in Nat
    BY TypeInit, SizesAssumption DEF Init
  <2>2. Positions /\ Exclusive
    BY SetsAssumption DEF Init, Positions, Exclusive
  <2>3. ReferencesCounted
    <3> SUFFICES ASSUME NEW d \in Data
                 PROVE  m_nRefs[d] = Cardinality(Referring(d)) + Cardinality(Assigning(d))
      BY CountsAre
    <3>1. d # 0 /\ m_nRefs[d] = 0
      BY <2>1 DEF Init, Data
    <3>2. Referring(d) = {} /\ Assigning(d) = {}
      BY <3>1 DEF Init, Referring, Assigning
    <3> QED BY <3>1, <3>2, FS_EmptySet
  <2>4. OnePlace
    BY <2>1 DEF Init, OnePlace, HandAlone, SlotAlone, HandOrSlot, Unreferenced, Somewhere, NotYet
  <2>5. SerialInv
    BY DEF Init, SerialInv
  <2> QED BY <2>1, <2>2, <2>3, <2>4, <2>5 DEF IInv
<1>2. IInv /\ [Next]_vars => IInv'
  <2> SUFFICES ASSUME IInv, [Next]_vars PROVE IInv'
    OBVIOUS
  <2>1. CASE Next
    <3>1. Referred
      BY AreReferred DEF IInv
    <3> QED BY <2>1, <3>1, TypeStep, PositionsStep, CountedStep, OnePlaceStep, SerialStep DEF IInv
  <2>2. CASE UNCHANGED vars
    <3> USE <2>2 DEF IInv, vars, dataVars, managerVars, threadVars
    <3>1. TypeOK'
      BY TypeIs DEF ManagersTyped, ThreadsTyped, LengthsTyped
    <3>2. Positions' /\ Exclusive' /\ SerialInv'
      BY DEF Positions, Exclusive, SerialInv
    <3>3. ReferencesCounted'
      BY DEF ReferencesCounted
    <3>4. OnePlace'
      BY DEF OnePlace, HandAlone, SlotAlone, HandOrSlot, Unreferenced, Somewhere, NotYet
    <3> QED BY <3>1, <3>2, <3>3, <3>4
  <2> QED BY <2>1, <2>2
<1> QED BY <1>1, <1>2, PTL DEF Spec

(* What OnePlace says one place at a time, DataInOnePlace counts. *)
LEMMA PlacesCounted ==
  ASSUME IInv
  PROVE  DataInOnePlace
<1> SUFFICES ASSUME NEW d \in 1 .. made PROVE Places(d) = 1
  BY DEF DataInOnePlace
<1> DEFINE hands == {t \in Threads : hand[t] = d}
<1>0. /\ d # 0 /\ d \in Data /\ m_nRefs[d] \in Nat
      /\ pool \in [Managers -> Seq(1 .. made)]
  <2>1. TypeOK
    BY DEF IInv
  <2>2. /\ made \in Nat /\ 1 .. made \subseteq Data /\ m_nRefs \in [Data -> Nat]
        /\ pool \in [Managers -> Seq(1 .. made)]
    BY <2>1, PlaceTypes
  <2> QED BY <2>2
<1>1. \A s : s \in Slots(d) <=>
        \E m \in Managers : \E i \in 1 .. Len(pool[m]) : pool[m][i] = d /\ s = <<m, i>>
  <2>1. \A m \in Managers : DOMAIN pool[m] = 1 .. Len(pool[m])
    BY <1>0
  <2> QED BY <2>1 DEF Slots
<1>2. Places(d) = (IF m_nRefs[d] > 0 THEN 1 ELSE 0) + Cardinality(hands) + Cardinality(Slots(d))
  BY DEF Places
<1>3. CASE m_nRefs[d] > 0
  <2>1. hands = {} /\ Slots(d) = {}
    BY <1>0, <1>1, <1>3 DEF IInv, OnePlace, Unreferenced
  <2> QED BY <1>2, <1>3, <2>1, FS_EmptySet
<1>4. ASSUME NEW t \in Threads, hand[t] = d PROVE Places(d) = 1
  <2>1. hands = {t} /\ Slots(d) = {} /\ ~(m_nRefs[d] > 0)
    BY <1>0, <1>1, <1>4 DEF IInv, OnePlace, HandAlone, HandOrSlot, Unreferenced
  <2>2. Cardinality(hands) = 1 /\ Cardinality(Slots(d)) = 0
    BY <2>1, FS_EmptySet, FS_Singleton
  <2> QED BY <1>2, <2>1, <2>2
<1>5. ASSUME NEW m \in Managers, NEW i \in 1 .. Len(pool[m]), pool[m][i] = d PROVE Places(d) = 1
  <2>1. hands = {} /\ ~(m_nRefs[d] > 0)
    BY <1>0, <1>5 DEF IInv, OnePlace, HandOrSlot, Unreferenced
  <2>2. Slots(d) = {<<m, i>>}
    BY <1>1, <1>5 DEF IInv, OnePlace, SlotAlone
  <2>3. Cardinality(hands) = 0 /\ Cardinality(Slots(d)) = 1
    BY <2>1, <2>2, FS_EmptySet, FS_Singleton
  <2> QED BY <1>2, <2>1, <2>3
<1> QED BY <1>3, <1>4, <1>5 DEF IInv, OnePlace, Somewhere

(* The variables keep their types, and no buffer claims more bytes than    *)
(* its data has room for, whatever lengths the users ask for and whoever   *)
(* had the data before: Align never rounds down.                           *)
THEOREM TypeCorrect == Spec => []TypeOK
BY Inductive, PTL DEF IInv

(* m_nRefs counts the buffers that share the data and the assignments on   *)
(* their way to it, whichever threads copy, assign and destroy.            *)
THEOREM BuffersAreCounted == Spec => []ReferencesCounted
BY Inductive, PTL DEF IInv

(* IOCPBufferData is referred to, with one thread, or in a pool once, even *)
(* when threads that race in getInstance make a manager each.              *)
THEOREM DataIsInOnePlace == Spec => []DataInOnePlace
<1>1. IInv => DataInOnePlace
  BY PlacesCounted
<1> QED BY <1>1, Inductive, PTL

(* Making the first buffer before there are others to race with is enough  *)
(* for there to be one manager, whose lock is left by who is in it.        *)
THEOREM ManagerIsOne == Spec => []OneManager
<1>1. IInv => OneManager
  BY DEF IInv, SerialInv, OneManager
<1> QED BY <1>1, Inductive, PTL
=============================================================================
