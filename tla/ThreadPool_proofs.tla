-------------------------- MODULE ThreadPool_proofs --------------------------
(***************************************************************************)
(* Proofs about ThreadPool for any number of pool threads and callers.     *)
(***************************************************************************)
EXTENDS ThreadPool, TLAPS

(* A thread that is marked busy, or that is past its wait, has its event   *)
(* set: only the thread itself resets it, on its way back to the wait.     *)
EventInv ==
  \A t \in Threads :
    /\ ~bFree[t] => event[t]
    /\ at[t] \notin {"wait", "exited"} => event[t]

LEMMA TypeStep == TypeOK /\ (\A t \in Threads : at[t] = "run" => job[t] \in Jobs) /\ [Next]_vars
                  => TypeOK'
<1> SUFFICES ASSUME TypeOK, \A t \in Threads : at[t] = "run" => job[t] \in Jobs, [Next]_vars
             PROVE  TypeOK'
  OBVIOUS
<1> USE DEF TypeOK, Goto, threadVars, destroyVars
<1>1. ASSUME NEW j \in Jobs, Push(j) PROVE TypeOK'
  <2>1. Append(list, j) \in Seq(Jobs) /\ <<j>> \o list \in Seq(Jobs)
    <3>1. <<j>> \in Seq(Jobs)
      OBVIOUS
    <3> QED BY <3>1
  <2> QED BY <1>1, <2>1 DEF Push
<1>2. ASSUME NEW j \in Jobs, Signal(j) PROVE TypeOK'
  BY <1>2 DEF Signal
<1>3. ASSUME NEW t \in Threads, Wake(t) \/ Exit(t) \/ CheckThreadStop(t) \/ GetNothing(t)
      PROVE  TypeOK'
  BY <1>3 DEF Wake, Exit, CheckThreadStop, GetNothing
<1>4. ASSUME NEW t \in Threads, GetThreadProc(t) PROVE TypeOK'
  BY <1>4 DEF GetThreadProc
<1>5. ASSUME NEW t \in Threads, BusyNotify(t) PROVE TypeOK'
  BY <1>5 DEF BusyNotify
<1>6. ASSUME NEW t \in Threads, RunJob(t) PROVE TypeOK'
  BY <1>6 DEF RunJob
<1>7. ASSUME NEW t \in Threads, FinishNotify(t) PROVE TypeOK'
  BY <1>7 DEF FinishNotify
<1>8. CASE Destroy
  <2>1. {list[i] : i \in DOMAIN list} \subseteq Jobs
    OBVIOUS
  <2>2. CASE FreeJobs
    BY <2>1, <2>2 DEF FreeJobs, DestroyStep
  <2>3. CASE Flag \/ NotifyShutdown \/ CloseHandles
    BY <2>3 DEF Flag, NotifyShutdown, CloseHandles, DestroyStep
  <2>4. CASE ClearAll
    BY <2>4 DEF ClearAll, DestroyStep
  <2> QED BY <1>8, <2>2, <2>3, <2>4 DEF Destroy
<1>9. CASE UNCHANGED vars
  BY <1>9 DEF vars
<1> HIDE DEF TypeOK, Goto
<1> QED BY <1>1, <1>2, <1>3, <1>4, <1>5, <1>6, <1>7, <1>8, <1>9 DEF Next, ThreadStep

LEMMA EventStep == TypeOK /\ EventInv /\ [Next]_vars => EventInv'
<1> SUFFICES ASSUME TypeOK, EventInv, [Next]_vars PROVE EventInv'
  OBVIOUS
<1> USE DEF TypeOK, EventInv, Goto, threadVars, destroyVars
<1>1. ASSUME NEW j \in Jobs, Push(j) PROVE EventInv'
  BY <1>1 DEF Push
<1>2. ASSUME NEW j \in Jobs, Signal(j) PROVE EventInv'
  BY <1>2 DEF Signal
<1>3. ASSUME NEW t \in Threads, Wake(t) \/ Exit(t) \/ CheckThreadStop(t) \/ GetNothing(t)
      PROVE  EventInv'
  BY <1>3 DEF Wake, Exit, CheckThreadStop, GetNothing
<1>4. ASSUME NEW t \in Threads, GetThreadProc(t) PROVE EventInv'
  BY <1>4 DEF GetThreadProc
<1>5. ASSUME NEW t \in Threads, BusyNotify(t) PROVE EventInv'
  BY <1>5 DEF BusyNotify
<1>6. ASSUME NEW t \in Threads, RunJob(t) PROVE EventInv'
  BY <1>6 DEF RunJob
<1>7. ASSUME NEW t \in Threads, FinishNotify(t) PROVE EventInv'
  BY <1>7 DEF FinishNotify
<1>8. CASE Destroy
  BY <1>8 DEF Destroy, Flag, NotifyShutdown, CloseHandles, FreeJobs, ClearAll
<1>9. CASE UNCHANGED vars
  BY <1>9 DEF vars
<1> QED BY <1>1, <1>2, <1>3, <1>4, <1>5, <1>6, <1>7, <1>8, <1>9 DEF Next, ThreadStep

LEMMA WakeStep == TypeOK /\ EventInv /\ NoLostWakeup /\ [Next]_vars => NoLostWakeup'
<1> SUFFICES ASSUME TypeOK, EventInv, NoLostWakeup, [Next]_vars PROVE NoLostWakeup'
  OBVIOUS
<1> USE DEF TypeOK, EventInv, NoLostWakeup, Goto, threadVars, destroyVars
<1>1. ASSUME NEW j \in Jobs, Push(j) PROVE NoLostWakeup'
  BY <1>1 DEF Push
<1>2. ASSUME NEW j \in Jobs, Signal(j) PROVE NoLostWakeup'
  (* Either a thread was woken just now, or none is free. *)
  BY <1>2, ThreadsAssumption DEF Signal, Known
<1>3. ASSUME NEW t \in Threads, Wake(t) \/ Exit(t) \/ CheckThreadStop(t) \/ GetNothing(t)
      PROVE  NoLostWakeup'
  BY <1>3 DEF Wake, Exit, CheckThreadStop, GetNothing
<1>4. ASSUME NEW t \in Threads, GetThreadProc(t) PROVE NoLostWakeup'
  BY <1>4 DEF GetThreadProc
<1>5. ASSUME NEW t \in Threads, BusyNotify(t) PROVE NoLostWakeup'
  BY <1>5 DEF BusyNotify
<1>6. ASSUME NEW t \in Threads, RunJob(t) PROVE NoLostWakeup'
  BY <1>6 DEF RunJob
<1>7. ASSUME NEW t \in Threads, FinishNotify(t) PROVE NoLostWakeup'
  (* The event is reset only if the list is empty. *)
  BY <1>7 DEF FinishNotify
<1>8. CASE Destroy
  BY <1>8 DEF Destroy, DestroyStep, Flag, NotifyShutdown, CloseHandles, FreeJobs, ClearAll
<1>9. CASE UNCHANGED vars
  BY <1>9 DEF vars
<1> QED BY <1>1, <1>2, <1>3, <1>4, <1>5, <1>6, <1>7, <1>8, <1>9 DEF Next, ThreadStep

-----------------------------------------------------------------------------
(* Where each job is.  A thread holds a job exactly from GetThreadProc to  *)
(* the return of the user's function.                                      *)
JobInv ==
  /\ \A t \in Threads : job[t] # NoJob <=> at[t] \in {"busy", "run"}
  /\ \A t \in Threads : job[t] # NoJob => caller[job[t]] # "new"
  /\ \A j \in Jobs : ran[j] > 0 => caller[j] # "new"

(* What a step does to the list, element by element. *)
LEMMA AppendElements ==
  ASSUME NEW S, NEW s \in Seq(S), NEW x \in S
  PROVE  /\ DOMAIN Append(s, x) = 1 .. Len(s) + 1
         /\ \A n \in 1 .. Len(s) : Append(s, x)[n] = s[n]
         /\ Append(s, x)[Len(s) + 1] = x
  OBVIOUS

LEMMA PrependElements ==
  ASSUME NEW S, NEW s \in Seq(S), NEW x \in S
  PROVE  /\ DOMAIN (<<x>> \o s) = 1 .. Len(s) + 1
         /\ (<<x>> \o s)[1] = x
         /\ \A n \in 2 .. Len(s) + 1 : (<<x>> \o s)[n] = s[n - 1]
  OBVIOUS

LEMMA TailElements ==
  ASSUME NEW S, NEW s \in Seq(S), s # <<>>
  PROVE  /\ DOMAIN Tail(s) = 1 .. Len(s) - 1
         /\ \A n \in 1 .. Len(s) - 1 : Tail(s)[n] = s[n + 1]
         /\ Head(s) = s[1] /\ 1 \in DOMAIN s
  OBVIOUS

LEMMA JobStep == TypeOK /\ JobInv /\ EachJobOnce /\ [Next]_vars => JobInv' /\ EachJobOnce'
<1> SUFFICES ASSUME TypeOK, JobInv, EachJobOnce, [Next]_vars PROVE JobInv' /\ EachJobOnce'
  OBVIOUS
<1> USE JobsAssumption DEF TypeOK, JobInv, EachJobOnce, Goto, threadVars, destroyVars
<1>1. ASSUME NEW j \in Jobs, Push(j) PROVE JobInv' /\ EachJobOnce'
  <2>1. /\ \A n \in DOMAIN list : list[n] # j
        /\ \A t \in Threads : job[t] # j
        /\ ran[j] = 0
    BY <1>1 DEF Push
  <2>2. /\ \A n \in DOMAIN list' : list'[n] \in Jobs /\ (list'[n] = j \/ \E m \in DOMAIN list : list'[n] = list[m])
        /\ \A m, n \in DOMAIN list' : list'[m] = list'[n] => m = n
    <3>1. CASE list' = Append(list, j)
      <4>1. /\ DOMAIN list' = 1 .. Len(list) + 1
            /\ \A n \in 1 .. Len(list) : list'[n] = list[n]
            /\ list'[Len(list) + 1] = j
            /\ DOMAIN list = 1 .. Len(list) /\ Len(list) \in Nat
        BY <3>1, AppendElements
      <4>2. \A n \in DOMAIN list' : n \in DOMAIN list \/ n = Len(list) + 1
        BY <4>1
      <4>3. \A n \in DOMAIN list' : list'[n] \in Jobs /\ (list'[n] = j \/ \E m \in DOMAIN list : list'[n] = list[m])
        BY <4>1, <4>2
      <4>4. ASSUME NEW m \in DOMAIN list', NEW n \in DOMAIN list', list'[m] = list'[n] PROVE m = n
        BY <2>1, <4>1, <4>2, <4>4
      <4> QED BY <4>3, <4>4
    <3>2. CASE list' = <<j>> \o list
      <4>1. /\ DOMAIN list' = 1 .. Len(list) + 1
            /\ list'[1] = j
            /\ \A n \in 2 .. Len(list) + 1 : list'[n] = list[n - 1]
            /\ DOMAIN list = 1 .. Len(list) /\ Len(list) \in Nat
        BY <3>2, PrependElements
      <4>2. \A n \in DOMAIN list' : n = 1 \/ (n - 1 \in DOMAIN list /\ list'[n] = list[n - 1])
        BY <4>1
      <4>3. \A n \in DOMAIN list' : list'[n] \in Jobs /\ (list'[n] = j \/ \E m \in DOMAIN list : list'[n] = list[m])
        BY <4>1, <4>2
      <4>4. ASSUME NEW m \in DOMAIN list', NEW n \in DOMAIN list', list'[m] = list'[n] PROVE m = n
        <5>1. CASE m = 1 \/ n = 1
          BY <2>1, <4>1, <4>2, <4>4, <5>1
        <5>2. CASE m # 1 /\ n # 1
          <6>1. m - 1 \in DOMAIN list /\ n - 1 \in DOMAIN list /\ list[m - 1] = list[n - 1]
            BY <4>2, <4>4, <5>2
          <6>2. m - 1 = n - 1
            BY <6>1
          <6> QED BY <4>1, <6>2
        <5> QED BY <5>1, <5>2
      <4> QED BY <4>3, <4>4
    <3>3. list' = Append(list, j) \/ list' = <<j>> \o list
      BY <1>1 DEF Push
    <3> QED BY <3>1, <3>2, <3>3
  <2>3. /\ caller[j] = "new" /\ caller' = [caller EXCEPT ![j] = "pushed"]
        /\ UNCHANGED <<at, job, ran>>
    BY <1>1 DEF Push
  <2>4. JobInv'
    BY <2>3
  <2>5. \A n \in DOMAIN list' : ran'[list'[n]] = 0 /\ caller'[list'[n]] # "new"
    BY <2>1, <2>2, <2>3
  <2>6. \A t \in Threads : job'[t] # NoJob => \A n \in DOMAIN list' : list'[n] # job'[t]
    BY <2>1, <2>2, <2>3
  <2> QED BY <2>2, <2>3, <2>4, <2>5, <2>6
<1>2. ASSUME NEW j \in Jobs, Signal(j) PROVE JobInv' /\ EachJobOnce'
  BY <1>2 DEF Signal
<1>3. ASSUME NEW t \in Threads, Wake(t) \/ Exit(t) \/ CheckThreadStop(t) \/ GetNothing(t)
      PROVE  JobInv' /\ EachJobOnce'
  BY <1>3 DEF Wake, Exit, CheckThreadStop, GetNothing
<1>4. ASSUME NEW t \in Threads, GetThreadProc(t) PROVE JobInv' /\ EachJobOnce'
  <2>1. /\ Head(list) = list[1] /\ 1 \in DOMAIN list /\ list[1] \in Jobs
        /\ DOMAIN list' = 1 .. Len(list) - 1
        /\ \A n \in DOMAIN list' : list'[n] = list[n + 1] /\ n + 1 \in DOMAIN list
    BY <1>4, TailElements DEF GetThreadProc
  <2>2. \A n \in DOMAIN list' : list'[n] # list[1]
    BY <2>1
  <2>3. \A m, n \in DOMAIN list' : list'[m] = list'[n] => m = n
    BY <2>1
  <2>4. \A u \in Threads \ {t} : job[u] # list[1]
    BY <2>1
  <2> QED BY <1>4, <2>1, <2>2, <2>3, <2>4 DEF GetThreadProc
<1>5. ASSUME NEW t \in Threads, BusyNotify(t) PROVE JobInv' /\ EachJobOnce'
  BY <1>5 DEF BusyNotify
<1>6. ASSUME NEW t \in Threads, RunJob(t) PROVE JobInv' /\ EachJobOnce'
  BY <1>6 DEF RunJob
<1>7. ASSUME NEW t \in Threads, FinishNotify(t) PROVE JobInv' /\ EachJobOnce'
  BY <1>7 DEF FinishNotify
<1>8. CASE Destroy
  BY <1>8 DEF Destroy, Flag, NotifyShutdown, CloseHandles, FreeJobs, ClearAll
<1>9. CASE UNCHANGED vars
  BY <1>9 DEF vars
<1> HIDE DEF TypeOK, JobInv, EachJobOnce, Goto
<1> QED BY <1>1, <1>2, <1>3, <1>4, <1>5, <1>6, <1>7, <1>8, <1>9 DEF Next, ThreadStep

IInv == TypeOK /\ JobInv /\ EachJobOnce /\ EventInv /\ NoLostWakeup

LEMMA Invariance == Spec => []IInv
<1>1. Init => IInv
  <2> SUFFICES ASSUME Init PROVE IInv
    OBVIOUS
  <2> USE DEF Init
  <2>1. TypeOK
    <3>1. list \in Seq(Jobs)
      OBVIOUS
    <3>2. /\ bFree \in [Threads -> BOOLEAN] /\ event \in [Threads -> BOOLEAN]
          /\ job \in [Threads -> Jobs \cup {NoJob}] /\ ran \in [Jobs -> Nat]
      OBVIOUS
    <3>3. at \in [Threads -> {"wait", "check", "get", "busy", "run", "finish", "exited"}]
      OBVIOUS
    <3>4. caller \in [Jobs -> {"new", "pushed", "returned"}]
      OBVIOUS
    <3> QED BY <3>1, <3>2, <3>3, <3>4 DEF TypeOK
  <2>2. JobInv
    BY DEF JobInv
  <2>3. EachJobOnce
    <3>1. DOMAIN list = {}
      OBVIOUS
    <3> QED BY <3>1, JobsAssumption DEF EachJobOnce
  <2>4. EventInv /\ NoLostWakeup
    BY DEF EventInv, NoLostWakeup
  <2> QED BY <2>1, <2>2, <2>3, <2>4 DEF IInv
<1>2. IInv /\ [Next]_vars => IInv'
  <2> SUFFICES ASSUME IInv, [Next]_vars PROVE IInv'
    OBVIOUS
  <2>1. \A t \in Threads : at[t] = "run" => job[t] \in Jobs
    BY DEF IInv, TypeOK, JobInv
  <2>2. TypeOK'
    BY <2>1, TypeStep DEF IInv
  <2> QED BY <2>2, JobStep, EventStep, WakeStep DEF IInv
<1> QED BY <1>1, <1>2, PTL DEF Spec

-----------------------------------------------------------------------------
(* The variables of ThreadPool keep their types. *)
THEOREM TypeCorrect == Spec => []TypeOK
<1>1. IInv => TypeOK
  BY DEF IInv
<1> QED BY Invariance, <1>1, PTL

(* CThreadPool::Run never loses a wake-up, however the callers' two        *)
(* critical sections interleave with the threads' FinishNotify.            *)
THEOREM WakeupsAreNotLost == Spec => []NoLostWakeup
<1>1. IInv => NoLostWakeup
  BY DEF IInv
<1> QED BY Invariance, <1>1, PTL

(* No job is in the list twice, taken by two threads, or executed twice,   *)
(* not even while Destroy() runs beside the threads.                       *)
THEOREM JobsRunOnce == Spec => []EachJobOnce
<1>1. IInv => EachJobOnce
  BY DEF IInv
<1> QED BY Invariance, <1>1, PTL

-----------------------------------------------------------------------------
(* Where a job handed to Run() is. *)
Waits(j) == \E n \in DOMAIN list : list[n] = j
Taken(j) == \E t \in Threads : job[t] = j
Dropped == destroy = "done"

(* Only the last step of Destroy() takes a job out of the list that no     *)
(* thread has taken.                                                       *)
JobsKept == \A j \in Jobs : caller[j] # "new" => Waits(j) \/ Taken(j) \/ ran[j] = 1 \/ Dropped

LEMMA KeptStep ==
  ASSUME TypeOK, JobInv, EachJobOnce, JobsKept, [Next]_vars
  PROVE  JobsKept'
<1>1. ASSUME caller' = caller, list' = list, ran' = ran, job' = job, Dropped => Dropped'
      PROVE JobsKept'
  BY <1>1 DEF JobsKept, Waits, Taken
<1>2. ASSUME NEW j \in Jobs, Push(j) PROVE JobsKept'
  <2>1. /\ ran' = ran /\ job' = job /\ destroy' = destroy
        /\ \A i \in Jobs : i # j => caller'[i] = caller[i]
    BY <1>2 DEF Push, TypeOK, threadVars, destroyVars
  <2>2. Waits(j)' /\ \A i \in Jobs : Waits(i) => Waits(i)'
    <3>1. CASE list' = Append(list, j)
      <4>1. /\ DOMAIN list' = 1 .. Len(list) + 1
            /\ \A n \in 1 .. Len(list) : list'[n] = list[n]
            /\ list'[Len(list) + 1] = j
            /\ DOMAIN list = 1 .. Len(list) /\ Len(list) \in Nat
        BY <3>1, AppendElements DEF TypeOK
      <4>2. Len(list) + 1 \in DOMAIN list' /\ \A n \in DOMAIN list : n \in DOMAIN list' /\ list'[n] = list[n]
        BY <4>1
      <4> QED BY <4>1, <4>2 DEF Waits
    <3>2. CASE list' = <<j>> \o list
      <4>1. /\ DOMAIN list' = 1 .. Len(list) + 1
            /\ list'[1] = j
            /\ \A n \in 2 .. Len(list) + 1 : list'[n] = list[n - 1]
            /\ DOMAIN list = 1 .. Len(list) /\ Len(list) \in Nat
        BY <3>2, PrependElements DEF TypeOK
      <4>2. 1 \in DOMAIN list' /\ \A n \in DOMAIN list : n + 1 \in DOMAIN list' /\ list'[n + 1] = list[n]
        BY <4>1
      <4> QED BY <4>1, <4>2 DEF Waits
    <3> QED BY <1>2, <3>1, <3>2 DEF Push
  <2> QED BY <2>1, <2>2 DEF JobsKept, Taken, Dropped
<1>3. ASSUME NEW j \in Jobs, Signal(j) PROVE JobsKept'
  <2>1. /\ list' = list /\ ran' = ran /\ job' = job /\ destroy' = destroy
        /\ \A i \in Jobs : caller'[i] # "new" => caller[i] # "new"
    BY <1>3 DEF Signal, TypeOK, threadVars, destroyVars
  <2> QED BY <2>1 DEF JobsKept, Waits, Taken, Dropped
<1>4. ASSUME NEW t \in Threads, GetThreadProc(t) PROVE JobsKept'
  <2>1. /\ caller' = caller /\ ran' = ran /\ destroy' = destroy
        /\ job[t] = NoJob /\ job' = [job EXCEPT ![t] = list[1]]
        /\ DOMAIN list' = 1 .. Len(list) - 1
        /\ \A n \in 1 .. Len(list) - 1 : list'[n] = list[n + 1]
        /\ DOMAIN list = 1 .. Len(list) /\ Len(list) \in Nat
    <3>1. /\ caller' = caller /\ ran' = ran /\ destroy' = destroy /\ at[t] = "get"
          /\ list # <<>> /\ job' = [job EXCEPT ![t] = Head(list)] /\ list' = Tail(list)
      BY <1>4 DEF GetThreadProc, Goto, destroyVars
    <3>2. job[t] = NoJob
      BY <3>1 DEF JobInv
    <3>3. list \in Seq(Jobs)
      BY DEF TypeOK
    <3> QED BY <3>1, <3>2, <3>3, TailElements
  <2>2. \A n \in DOMAIN list : n = 1 \/ (n - 1 \in DOMAIN list' /\ list'[n - 1] = list[n])
    BY <2>1
  <2>3. \A i \in Jobs : Taken(i) => Taken(i)'
    BY <2>1, JobsAssumption DEF Taken, TypeOK
  <2>4. \A i \in Jobs : Waits(i) => Waits(i)' \/ Taken(i)'
    BY <2>1, <2>2 DEF Waits, Taken, TypeOK
  <2> QED BY <2>1, <2>3, <2>4 DEF JobsKept, Dropped
<1>5. ASSUME NEW t \in Threads, RunJob(t) PROVE JobsKept'
  <2>1. /\ caller' = caller /\ list' = list /\ destroy' = destroy
        /\ job' = [job EXCEPT ![t] = NoJob] /\ ran' = [ran EXCEPT ![job[t]] = @ + 1]
        /\ job[t] \in Jobs /\ ran[job[t]] = 0
    BY <1>5 DEF RunJob, TypeOK, JobInv, EachJobOnce, Goto, destroyVars
  <2>2. ran'[job[t]] = 1 /\ \A i \in Jobs : i # job[t] => ran'[i] = ran[i] /\ (Taken(i) => Taken(i)')
    BY <2>1 DEF TypeOK, Taken
  <2> QED BY <2>1, <2>2 DEF JobsKept, Waits, Dropped
<1>6. ASSUME NEW t \in Threads, ThreadStep(t), ~GetThreadProc(t), ~RunJob(t)
      PROVE  caller' = caller /\ list' = list /\ ran' = ran /\ job' = job /\ destroy' = destroy
  BY <1>6 DEF ThreadStep, Wake, Exit, CheckThreadStop, GetNothing, BusyNotify, FinishNotify,
       destroyVars
<1>7. CASE Destroy
  <2>1. CASE ClearAll
    BY <2>1 DEF ClearAll, DestroyStep, JobsKept, Dropped
  <2>2. CASE ~ClearAll
    <3>1. caller' = caller /\ list' = list /\ ran' = ran /\ job' = job /\ ~Dropped
      BY <1>7, <2>2 DEF Destroy, DestroyStep, Flag, NotifyShutdown, CloseHandles, FreeJobs,
           threadVars, Dropped
    <3> QED BY <1>1, <3>1
  <2> QED BY <2>1, <2>2
<1>8. CASE UNCHANGED vars
  BY <1>1, <1>8 DEF vars, Dropped
<1> QED BY <1>1, <1>2, <1>3, <1>4, <1>5, <1>6, <1>7, <1>8 DEF Next, Dropped

(* A job handed to Run() is never lost: it waits in the list, a thread has *)
(* it, or it was executed, until Destroy() clears the list.                *)
THEOREM NoJobIsLost == Spec => []JobsKept
<1>1. Init => JobsKept
  BY DEF Init, JobsKept
<1>2. IInv /\ JobsKept /\ [Next]_vars => JobsKept'
  BY KeptStep DEF IInv
<1> QED BY <1>1, <1>2, Invariance, PTL DEF Spec

(* Nothing is left to do: nobody is in Run() and every thread sleeps.      *)
Quiet ==
  /\ destroy = "none"
  /\ \A j \in Jobs : caller[j] # "pushed"
  /\ \A t \in Threads : at[t] = "wait" /\ ~event[t]

(* A pool that has come to rest has executed, once, every job it was given.*)
THEOREM RestsWhenServed == Spec => [](Quiet => \A j \in Jobs : caller[j] # "new" => ran[j] = 1)
<1> DEFINE Served == Quiet => \A j \in Jobs : caller[j] # "new" => ran[j] = 1
<1>1. IInv /\ JobsKept => Served
  <2> SUFFICES ASSUME IInv, JobsKept, Quiet, NEW j \in Jobs, caller[j] # "new" PROVE ran[j] = 1
    OBVIOUS
  <2>1. list = <<>>
    BY DEF Quiet, IInv, NoLostWakeup
  <2>2. ~Waits(j)
    BY <2>1 DEF Waits
  <2>3. ~Taken(j)
    BY JobsAssumption DEF Taken, Quiet, IInv, JobInv
  <2> QED BY <2>2, <2>3 DEF JobsKept, Quiet, Dropped
<1> QED BY <1>1, Invariance, NoJobIsLost, PTL

-----------------------------------------------------------------------------
(* Destroy() deletes the data of the jobs in the list while a thread is    *)
(* past its look at m_bPoolIsDestroying and about to take one.             *)
FreesBeside == FreeJobs /\ \E t \in Threads : at[t] = "get"

DestroyInv ==
  /\ destroy # "none" => destroying
  /\ destroy \notin {"freed", "done"} => freed = {}
  /\ destroy \in {"freed", "done"} => \A t \in Threads : at[t] # "get"

LEMMA DeletedStep ==
  ASSUME TypeOK, EachJobOnce, DestroyInv, NoDeletedJobTaken, [Next]_vars, [~FreesBeside]_vars
  PROVE  DestroyInv' /\ NoDeletedJobTaken'
<1> USE DEF DestroyInv, NoDeletedJobTaken
<1>1. ASSUME destroying' = destroying, destroy' = destroy, freed' = freed,
             \A t \in Threads : at'[t] = "get" => at[t] = "get" \/ ~destroying,
             \A t \in Threads : job'[t] = job[t] \/ job'[t] \notin freed
      PROVE  DestroyInv' /\ NoDeletedJobTaken'
  BY <1>1
<1>2. ASSUME NEW t \in Threads, GetThreadProc(t) PROVE DestroyInv' /\ NoDeletedJobTaken'
  <2>1. freed = {} /\ UNCHANGED destroyVars /\ \A u \in Threads : at'[u] = "get" => at[u] = "get"
    BY <1>2 DEF GetThreadProc, Goto, TypeOK, destroyVars
  <2> QED BY <1>1, <2>1 DEF destroyVars
<1>3. ASSUME NEW t \in Threads, RunJob(t) PROVE DestroyInv' /\ NoDeletedJobTaken'
  <2>1. /\ UNCHANGED destroyVars /\ NoJob \notin freed
        /\ \A u \in Threads : at'[u] = "get" => at[u] = "get"
        /\ \A u \in Threads : job'[u] = job[u] \/ job'[u] = NoJob
    BY <1>3, JobsAssumption DEF RunJob, Goto, TypeOK, destroyVars
  <2> QED BY <1>1, <2>1 DEF destroyVars
<1>4. ASSUME NEW t \in Threads, ThreadStep(t), ~GetThreadProc(t), ~RunJob(t)
      PROVE  DestroyInv' /\ NoDeletedJobTaken'
  <2>1. UNCHANGED destroyVars /\ job' = job /\ \A u \in Threads : at'[u] = "get" => at[u] = "get" \/ ~destroying
    BY <1>4 DEF ThreadStep, Wake, Exit, CheckThreadStop, GetNothing, BusyNotify, FinishNotify,
         Goto, TypeOK
  <2> QED BY <1>1, <2>1 DEF destroyVars
<1>5. ASSUME NEW j \in Jobs, Push(j) \/ Signal(j) PROVE DestroyInv' /\ NoDeletedJobTaken'
  BY <1>1, <1>5 DEF Push, Signal, threadVars, destroyVars
<1>6. CASE FreeJobs
  <2>1. freed' = {list[i] : i \in DOMAIN list} /\ UNCHANGED threadVars /\ destroying' = destroying
        /\ destroy = "closed" /\ destroy' = "freed"
    BY <1>6 DEF FreeJobs, DestroyStep
  <2>2. ~FreesBeside
    BY <2>1 DEF vars
  <2>3. \A t \in Threads : job[t] \notin freed'
    BY <2>1, JobsAssumption DEF TypeOK, EachJobOnce
  <2> QED BY <1>6, <2>1, <2>2, <2>3 DEF FreesBeside, threadVars
<1>7. CASE Flag \/ NotifyShutdown \/ CloseHandles \/ ClearAll
  BY <1>7 DEF Flag, NotifyShutdown, CloseHandles, ClearAll, DestroyStep, threadVars
<1>8. CASE UNCHANGED vars
  BY <1>1, <1>8 DEF vars
<1> QED BY <1>2, <1>3, <1>4, <1>5, <1>6, <1>7, <1>8 DEF Next, Destroy

(* "It is possible to destroy the pool whenever you want" (ThreadPool.h)   *)
(* holds of every behaviour in which no thread is about to take a job when *)
(* Destroy() deletes them: nothing else makes run thread_pool_destroy fail.*)
THEOREM DestroysBesideTakersOnly == Spec /\ [][~FreesBeside]_vars => []NoDeletedJobTaken
<1>1. Init => DestroyInv /\ NoDeletedJobTaken
  BY DEF Init, DestroyInv, NoDeletedJobTaken
<1>2. IInv /\ DestroyInv /\ NoDeletedJobTaken /\ [Next]_vars /\ [~FreesBeside]_vars
      => DestroyInv' /\ NoDeletedJobTaken'
  BY DeletedStep DEF IInv
<1> QED BY <1>1, <1>2, Invariance, PTL DEF Spec
=============================================================================
