----------------------------- MODULE ThreadPool -----------------------------
(***************************************************************************)
(* CThreadPool: a list of jobs (m_functionList), one manual-reset event    *)
(* and one bFree flag per pool thread (m_threads), and a shutdown event.   *)
(* Run() pushes a job in one critical section of m_cs and picks a thread   *)
(* to wake in a second; a pool thread takes jobs until it finds the list   *)
(* empty.  Each critical section, wait and unlocked step is one action.    *)
(* The pool is created, used by any number of callers, and destroyed once  *)
(* while callers and threads are still at work.                            *)
(***************************************************************************)
EXTENDS Naturals, Sequences

CONSTANTS
  Threads,   \* ids of the pool threads: m_threads is ordered by them
  Jobs,      \* functions or run objects; one Run() call each
  NoJob

ASSUME ThreadsAssumption == Threads \subseteq Nat /\ Threads # {}
ASSUME JobsAssumption == NoJob \notin Jobs

VARIABLES
  list,        \* m_functionList
  bFree,       \* _ThreadData::bFree
  event,       \* _ThreadData::WaitHandle is signalled
  at,          \* where each pool thread is in _ThreadProc
  job,         \* the job a thread has taken
  caller,      \* where the Run() call of each job is
  ran,         \* how often each job was executed
  destroying,  \* m_bPoolIsDestroying
  destroy,     \* where Destroy() is; its "signal" step sets m_hNotifyShutdown
  freed        \* jobs whose data Destroy() deleted

vars == <<list, bFree, event, at, job, caller, ran, destroying, destroy, freed>>
threadVars == <<at, job, ran>>
destroyVars == <<destroying, destroy, freed>>

Init ==
  /\ list = <<>>
  /\ bFree = [t \in Threads |-> TRUE]
  /\ event = [t \in Threads |-> FALSE]
  /\ at = [t \in Threads |-> "wait"]
  /\ job = [t \in Threads |-> NoJob]
  /\ caller = [j \in Jobs |-> "new"]
  /\ ran = [j \in Jobs |-> 0]
  /\ destroying = FALSE
  /\ destroy = "none"
  /\ freed = {}

Goto(t, here, there) == at[t] = here /\ at' = [at EXCEPT ![t] = there]

(* Destroy() clears m_threads in its last step: no thread is found there   *)
(* afterwards.                                                             *)
Known == IF destroy = "done" THEN {} ELSE Threads
HandlesClosed == destroy \in {"closed", "freed", "done"}
ShutdownSet == destroy \notin {"none", "flagged"}

-----------------------------------------------------------------------------
PushUnset(j) ==   \* mutant: the entry is pushed before its function is set
  /\ caller[j] = "new" /\ destroy # "done"
  /\ caller' = [caller EXCEPT ![j] = "pushed"]
  /\ list' = Append(list, NoJob)
  /\ UNCHANGED <<bFree, event, threadVars, destroyVars>>

(* Run(): the job goes to the back (Low priority) or the front (High).     *)
Push(j) ==
  /\ caller[j] = "new" /\ destroy # "done"
  /\ caller' = [caller EXCEPT ![j] = "pushed"]
  /\ list' = Append(list, j) \/ list' = <<j>> \o list
  /\ UNCHANGED <<bFree, event, threadVars, destroyVars>>

(* The first thread of m_threads that is free is marked busy and woken; if *)
(* none is free nobody is.                                                 *)
FirstFree(t) == t \in Known /\ bFree[t] /\ \A u \in Threads : u < t => ~bFree[u]

SignalNobody(j) ==   \* mutant: the thread is marked busy but not woken
  /\ caller[j] = "pushed"
  /\ caller' = [caller EXCEPT ![j] = "returned"]
  /\ \/ \E t \in Threads : FirstFree(t) /\ bFree' = [bFree EXCEPT ![t] = FALSE]
     \/ (\A t \in Known : ~bFree[t]) /\ UNCHANGED bFree
  /\ UNCHANGED <<list, event, threadVars, destroyVars>>

Signal(j) ==
  /\ caller[j] = "pushed"
  /\ caller' = [caller EXCEPT ![j] = "returned"]
  /\ \/ \E t \in Threads :
          /\ FirstFree(t)
          /\ bFree' = [bFree EXCEPT ![t] = FALSE]
          /\ event' = [event EXCEPT ![t] = TRUE]
     \/ (\A t \in Known : ~bFree[t]) /\ UNCHANGED <<bFree, event>>
  /\ UNCHANGED <<list, threadVars, destroyVars>>

-----------------------------------------------------------------------------
(* _ThreadProc.  WaitForMultipleObjects reports the lower index first, the *)
(* thread's own event; it fails on closed handles.                         *)
Wake(t) ==
  /\ event[t] /\ ~HandlesClosed
  /\ Goto(t, "wait", "check")
  /\ UNCHANGED <<list, bFree, event, job, ran, caller, destroyVars>>

Exit(t) ==
  /\ (ShutdownSet /\ ~event[t]) \/ HandlesClosed
  /\ Goto(t, "wait", "exited")
  /\ UNCHANGED <<list, bFree, event, job, ran, caller, destroyVars>>

CheckThreadStop(t) ==
  /\ at[t] = "check"
  /\ at' = [at EXCEPT ![t] = IF destroying THEN "exited" ELSE "get"]
  /\ UNCHANGED <<list, bFree, event, job, ran, caller, destroyVars>>

GetThreadProcKept(t) ==   \* mutant: the job is not popped
  /\ Goto(t, "get", "busy")
  /\ list # <<>>
  /\ job' = [job EXCEPT ![t] = Head(list)]
  /\ UNCHANGED <<list, bFree, event, ran, caller, destroyVars>>

GetThreadProc(t) ==
  /\ Goto(t, "get", "busy")
  /\ list # <<>>
  /\ job' = [job EXCEPT ![t] = Head(list)]
  /\ list' = Tail(list)
  /\ UNCHANGED <<bFree, event, ran, caller, destroyVars>>

GetNothing(t) ==
  /\ Goto(t, "get", "finish")
  /\ list = <<>>
  /\ UNCHANGED <<list, bFree, event, job, ran, caller, destroyVars>>

BusyNotify(t) ==
  /\ Goto(t, "busy", "run")
  /\ bFree' = [bFree EXCEPT ![t] = IF t \in Known THEN FALSE ELSE @]
  /\ UNCHANGED <<list, event, job, ran, caller, destroyVars>>

(* The user's function returns. *)
RunJob(t) ==
  /\ Goto(t, "run", "wait")
  /\ ran' = [ran EXCEPT ![job[t]] = @ + 1]
  /\ job' = [job EXCEPT ![t] = NoJob]
  /\ UNCHANGED <<list, bFree, event, caller, destroyVars>>

FinishNotifyBlind(t) ==   \* mutant: the event is reset without a look at the list
  /\ Goto(t, "finish", "wait")
  /\ bFree' = [bFree EXCEPT ![t] = IF t \in Known THEN TRUE ELSE @]
  /\ event' = [event EXCEPT ![t] = FALSE]
  /\ UNCHANGED <<list, job, ran, caller, destroyVars>>

FinishNotify(t) ==
  /\ Goto(t, "finish", "wait")
  /\ IF t \in Known
       THEN /\ bFree' = [bFree EXCEPT ![t] = TRUE]
            /\ event' = [event EXCEPT ![t] = event[t] /\ list # <<>>]
       ELSE UNCHANGED <<bFree, event>>
  /\ UNCHANGED <<list, job, ran, caller, destroyVars>>

-----------------------------------------------------------------------------
(* Destroy(), none of it under m_cs.  The sleep that gives busy threads a  *)
(* last chance takes time and changes nothing.                             *)
DestroyStep(here, there) == destroy = here /\ destroy' = there

Flag ==
  /\ DestroyStep("none", "flagged")
  /\ destroying' = TRUE
  /\ UNCHANGED <<list, bFree, event, threadVars, caller, freed>>

NotifyShutdown ==
  /\ DestroyStep("flagged", "signalled")
  /\ UNCHANGED <<list, bFree, event, threadVars, caller, destroying, freed>>

CloseHandles ==
  /\ DestroyStep("signalled", "closed")
  /\ UNCHANGED <<list, bFree, event, threadVars, caller, destroying, freed>>

(* The walk that deletes the jobs and the clearing of the list are one     *)
(* step each, although neither has the lock: a thread that pops in the     *)
(* middle of one finds the list as it was before or after (in the code it  *)
(* may also run a job whose pData is NULL by then).                        *)
FreeJobs ==
  /\ DestroyStep("closed", "freed")
  /\ freed' = {list[i] : i \in DOMAIN list}
  /\ UNCHANGED <<list, bFree, event, threadVars, caller, destroying>>

ClearAll ==
  /\ DestroyStep("freed", "done")
  /\ list' = <<>>
  /\ UNCHANGED <<bFree, event, threadVars, caller, destroying, freed>>

-----------------------------------------------------------------------------
ThreadStep(t) ==
  \/ Wake(t) \/ Exit(t) \/ CheckThreadStop(t) \/ GetThreadProc(t) \/ GetNothing(t)
  \/ BusyNotify(t) \/ RunJob(t) \/ FinishNotify(t)

Destroy == Flag \/ NotifyShutdown \/ CloseHandles \/ FreeJobs \/ ClearAll

Next ==
  \/ \E j \in Jobs : Push(j) \/ Signal(j)
  \/ \E t \in Threads : ThreadStep(t)
  \/ Destroy

(* Windows schedules every runnable thread, user functions return, and a   *)
(* caller that has pushed its job goes on; nobody has to call Run or       *)
(* Destroy.                                                                *)
Fairness ==
  /\ \A t \in Threads : WF_vars(ThreadStep(t))
  /\ \A j \in Jobs : WF_vars(Signal(j))

Spec == Init /\ [][Next]_vars /\ Fairness

-----------------------------------------------------------------------------
TypeOK ==
  /\ list \in Seq(Jobs)
  /\ bFree \in [Threads -> BOOLEAN]
  /\ event \in [Threads -> BOOLEAN]
  /\ at \in [Threads -> {"wait", "check", "get", "busy", "run", "finish", "exited"}]
  /\ job \in [Threads -> Jobs \cup {NoJob}]
  /\ caller \in [Jobs -> {"new", "pushed", "returned"}]
  /\ ran \in [Jobs -> Nat]
  /\ destroying \in BOOLEAN
  /\ destroy \in {"none", "flagged", "signalled", "closed", "freed", "done"}
  /\ freed \subseteq Jobs

(* Run() never loses a wake-up: while the pool lives, if jobs wait and no  *)
(* caller is between its two critical sections, some thread's event is     *)
(* set, so it will look at the list again.  FinishNotify resets an event   *)
(* only if it sees the list empty under the lock, and a thread that is not *)
(* free always has its event set.                                          *)
NoLostWakeup ==
  destroy = "none" /\ list # <<>> /\ (\A j \in Jobs : caller[j] # "pushed")
  => \E t \in Threads : event[t]

(* A job is at one place: waiting in the list once, taken by one thread,   *)
(* or executed, once.                                                      *)
EachJobOnce ==
  /\ \A m, n \in DOMAIN list : list[m] = list[n] => m = n
  /\ \A n \in DOMAIN list : ran[list[n]] = 0 /\ caller[list[n]] # "new"
  /\ \A t \in Threads : job[t] # NoJob =>
       /\ ran[job[t]] = 0
       /\ \A n \in DOMAIN list : list[n] # job[t]
       /\ \A u \in Threads \ {t} : job[u] # job[t]
  /\ \A j \in Jobs : ran[j] <= 1

(* Every job handed to Run() is executed unless the pool is destroyed.     *)
JobsServed ==
  \A j \in Jobs : caller[j] = "pushed" ~> (ran[j] = 1 \/ destroying)

(* "It is possible to destroy the pool whenever you want by calling the    *)
(* Destroy() method" (ThreadPool.h): no thread runs a job whose data       *)
(* Destroy() has deleted.                                                  *)
NoDeletedJobTaken == \A t \in Threads : job[t] \notin freed
=============================================================================
