--------------------------- MODULE Configuration ---------------------------
(***************************************************************************)
(* CConfiguration, the plugin's table of settings and its file, and        *)
(* CProcessor::Initialize, which copies the settings it wants into the     *)
(* members m_ip, m_port, ... after every edit.  Host threads call the      *)
(* MtSrvPluginCfg... hooks, several at a time; the server may die at any   *)
(* moment and is started again on the file it left.                        *)
(* A section under m_sync is one action.  Save holds m_sync while it       *)
(* truncates the file and writes it line by line, so it is several; Add    *)
(* and Set call it in a section of its own, and so does the branch of      *)
(* GetString that adds a default.                                          *)
(***************************************************************************)
EXTENDS Integers, Sequences, FiniteSets, Functions

CONSTANTS
  Names,       \* setting names; their order as numbers stands for strcmp
  Values,      \* setting values
  Blank,       \* the empty value, which Load skips
  Wanted,      \* the names Initialize reads, in its order
  Default(_),  \* the default it passes for a name
  Lists,       \* what a host may pass to Set and what the first file may hold
  Room,        \* entries added when the array is full (64 in the code)
  Threads, Nobody,
  MaxCalls,    \* bound: hooks called in a behaviour
  MaxCrashes,  \* bound: how often the server dies
  MaxFailures  \* bound: file operations that fail

ASSUME NamesAssumption == Names \subseteq Nat /\ IsFiniteSet(Names) /\ Wanted \in Seq(Names)
ASSUME ValuesAssumption == Blank \in Values /\ \A n \in Names : Default(n) \in Values
ASSUME ListsAssumption == Lists \subseteq Seq([name : Names, value : Values])
ASSUME ThreadsAssumption == Nobody \notin Threads
ASSUME BoundsAssumption == Room \in Nat \ {0} /\ {MaxCalls, MaxCrashes, MaxFailures} \subseteq Nat

VARIABLES
  cfg,       \* m_cfg, up to m_cfg_total
  cfg_max,   \* m_cfg_max
  file,      \* the lines of the configuration file
  sync,      \* who holds m_sync across actions
  settings,  \* m_ip, m_port, ... by the name they are read from
  pc, at,    \* host threads: position, index in Wanted of the name being read
  next,      \* where a thread goes on after Save
  up,        \* the server process: "down", "starting" or "up"
  calls, crashes, failures,
  image,     \* ghost: the table the last Save began to write, or Load found
  removed,   \* ghost: the table has lost entries since then
  failed,    \* ghost: the last Save could not write everything
  late       \* ghost: names whose member got a default that an edit had overtaken

tableVars == <<cfg, cfg_max, removed>>
fileVars == <<file, image, failed, failures>>
initVars == <<settings, late>>
threadVars == <<pc, at, next>>
boundVars == <<calls, crashes>>
vars == <<tableVars, fileVars, initVars, threadVars, boundVars, sync, up>>

Entry == [name : Names, value : Values]

Unread == [n \in Names |-> Blank]   \* the members of a new process

Init ==
  /\ cfg = <<>> /\ cfg_max = 0 /\ removed = FALSE
  /\ file \in Lists /\ image = file /\ failed = FALSE
  /\ sync = Nobody
  /\ settings = Unread /\ late = {}
  /\ pc = [t \in Threads |-> "idle"]
  /\ at = [t \in Threads |-> 1]
  /\ next = [t \in Threads |-> "idle"]
  /\ up = "down"
  /\ calls = 0 /\ crashes = 0 /\ failures = 0

-----------------------------------------------------------------------------
(* The array. *)
Search(n) == {i \in DOMAIN cfg : cfg[i].name = n}
Without(s, i) == [k \in 1 .. Len(s) - 1 |-> IF k < i THEN s[k] ELSE s[k + 1]]

(* The entries of s with an index in K as qsort leaves them: it is not     *)
(* stable, so entries of one name may come in any order.                   *)
Arranged(s, K) ==
  {[k \in DOMAIN f |-> s[f[k]]] :
     f \in {f \in Bijection(1 .. Cardinality(K), K) :
             \A i, j \in DOMAIN f : i < j => s[f[i]].name <= s[f[j]].name}}
Sorted(s) == Arranged(s, DOMAIN s)
Kept(s) == {i \in DOMAIN s : s[i].value # Blank}   \* the lines Load keeps

AddFull(n, v) ==   \* mutant: compares with > and so writes past a full array
  /\ removed' = removed
  /\ IF Search(n) # {}
       THEN \E i \in Search(n) : cfg' = [cfg EXCEPT ![i].value = v] /\ UNCHANGED cfg_max
       ELSE /\ cfg' \in Sorted(Append(cfg, [name |-> n, value |-> v]))
            /\ cfg_max' = IF cfg_max = 0 \/ Len(cfg) > cfg_max THEN Len(cfg) + Room ELSE cfg_max

AddUnsearched(n, v) ==   \* for the mutant AddDefaultUnsearched: appends in any case
  /\ removed' = removed
  /\ cfg' \in Sorted(Append(cfg, [name |-> n, value |-> v]))
  /\ cfg_max' = IF Len(cfg) >= cfg_max THEN Len(cfg) + Room ELSE cfg_max

(* The first section of Add: replace the entry, or append it and sort. *)
Add(n, v) ==
  /\ removed' = removed
  /\ IF Search(n) # {}
       THEN \E i \in Search(n) : cfg' = [cfg EXCEPT ![i].value = v] /\ UNCHANGED cfg_max
       ELSE /\ cfg' \in Sorted(Append(cfg, [name |-> n, value |-> v]))
            /\ cfg_max' = IF Len(cfg) >= cfg_max THEN Len(cfg) + Room ELSE cfg_max

(* The first section of Set: what the host passes is copied, not searched. *)
Set(values) ==
  /\ removed' = removed
  /\ cfg' \in Sorted(values)
  /\ cfg_max' = IF values # <<>> /\ Len(values) >= cfg_max THEN Len(values) + Room ELSE cfg_max

(* Set(NULL, total): the count is changed, the array is not.  A host that  *)
(* asks for more than the array holds makes the code read past it.         *)
SetTotal(total) ==
  /\ removed' = removed
  /\ \E more \in [1 .. IF total > Len(cfg) THEN total - Len(cfg) ELSE 0 -> Entry] :
       cfg' \in Sorted(SubSeq(cfg \o more, 1, total))
  /\ UNCHANGED cfg_max

Delete(n) ==
  /\ IF Search(n) # {}
       THEN \E i \in Search(n) : cfg' \in Sorted(Without(cfg, i)) /\ removed' = TRUE
       ELSE UNCHANGED <<cfg, removed>>
  /\ UNCHANGED cfg_max

-----------------------------------------------------------------------------
Goto(t, here, there) ==
  /\ pc[t] = here /\ pc' = [pc EXCEPT ![t] = there]
  /\ UNCHANGED <<at, next>>

(* To Save, and from there to `there`. *)
GotoSave(t, here, there) ==
  /\ pc[t] = here /\ pc' = [pc EXCEPT ![t] = "save"]
  /\ next' = [next EXCEPT ![t] = there]

(* To the beginning of Initialize. *)
GotoInitialize(t, here) ==
  /\ pc[t] = here /\ pc' = [pc EXCEPT ![t] = "read"]
  /\ at' = [at EXCEPT ![t] = 1]
  /\ UNCHANGED next

Called == up = "up" /\ sync = Nobody /\ calls < MaxCalls /\ calls' = calls + 1

(* MtSrvPluginCfgAdd, ...Set, ...Delete: the edit, then Initialize. *)
CfgAdd(t, n, v) ==
  /\ Called
  /\ GotoSave(t, "idle", "read")
  /\ at' = [at EXCEPT ![t] = 1]
  /\ Add(n, v)
  /\ UNCHANGED <<fileVars, initVars, crashes, sync, up>>

CfgSetUnsaved(t, values) ==   \* mutant: Set leaves the file alone
  /\ Called
  /\ GotoInitialize(t, "idle")
  /\ Set(values)
  /\ UNCHANGED <<fileVars, initVars, crashes, sync, up>>

CfgSet(t, values) ==
  /\ Called
  /\ GotoSave(t, "idle", "read")
  /\ at' = [at EXCEPT ![t] = 1]
  /\ Set(values)
  /\ UNCHANGED <<fileVars, initVars, crashes, sync, up>>

CfgSetTotal(t, total) ==
  /\ Called
  /\ GotoSave(t, "idle", "read")
  /\ at' = [at EXCEPT ![t] = 1]
  /\ SetTotal(total)
  /\ UNCHANGED <<fileVars, initVars, crashes, sync, up>>

CfgDeleteOnly(t, n) ==   \* mutant: the settings in use are not read again
  /\ Called
  /\ Goto(t, "idle", "idle")
  /\ Delete(n)
  /\ UNCHANGED <<fileVars, initVars, crashes, sync, up>>

CfgDelete(t, n) ==
  /\ Called
  /\ GotoInitialize(t, "idle")
  /\ Delete(n)
  /\ UNCHANGED <<fileVars, initVars, crashes, sync, up>>

-----------------------------------------------------------------------------
(* Save: CREATE_ALWAYS empties the file, then one write for each entry.    *)
SaveOpenUnlocked(t) ==   \* mutant: Save does not take m_sync
  /\ Goto(t, "save", "write")
  /\ sync = Nobody
  /\ file' = <<>> /\ image' = cfg /\ removed' = FALSE /\ failed' = FALSE
  /\ UNCHANGED <<cfg, cfg_max, failures, initVars, boundVars, sync, up>>

SaveOpen(t) ==
  /\ Goto(t, "save", "write")
  /\ sync = Nobody /\ sync' = t
  /\ file' = <<>> /\ image' = cfg /\ removed' = FALSE /\ failed' = FALSE
  /\ UNCHANGED <<cfg, cfg_max, failures, initVars, boundVars, up>>

SaveNotOpened(t) ==
  /\ Goto(t, "save", next[t])
  /\ sync = Nobody
  /\ failures < MaxFailures /\ failures' = failures + 1
  /\ failed' = TRUE
  /\ UNCHANGED <<tableVars, file, image, initVars, boundVars, sync, up>>

SaveLine(t) ==
  /\ Goto(t, "write", "write")
  /\ Len(file) < Len(cfg)
  /\ file' = Append(file, cfg[Len(file) + 1])
  /\ UNCHANGED <<tableVars, image, failed, failures, initVars, boundVars, sync, up>>

SaveLineFails(t) ==
  /\ Goto(t, "write", next[t])
  /\ Len(file) < Len(cfg)
  /\ failures < MaxFailures /\ failures' = failures + 1
  /\ failed' = TRUE /\ sync' = Nobody
  /\ UNCHANGED <<tableVars, file, image, initVars, boundVars, up>>

SaveClose(t) ==
  /\ Goto(t, "write", next[t])
  /\ Len(file) >= Len(cfg)
  /\ sync' = Nobody
  /\ UNCHANGED <<tableVars, fileVars, initVars, boundVars, up>>

Save(t) == SaveOpen(t) \/ SaveNotOpened(t) \/ SaveLine(t) \/ SaveLineFails(t) \/ SaveClose(t)

-----------------------------------------------------------------------------
(* Initialize: GetString for each wanted name.  The value is copied into   *)
(* the member under m_sync if the name is found; if not, the default is    *)
(* added, saved and copied, with m_sync free in between.  A value longer   *)
(* than the member is cut there; values here are short enough.             *)
Reading(t) == pc[t] = "read" /\ at[t] <= Len(Wanted)

ReadFound(t) ==
  /\ Reading(t)
  /\ sync = Nobody
  /\ \E i \in Search(Wanted[at[t]]) : settings' = [settings EXCEPT ![Wanted[at[t]]] = cfg[i].value]
  /\ late' = late \ {Wanted[at[t]]}
  /\ at' = [at EXCEPT ![t] = @ + 1]
  /\ UNCHANGED <<pc, next, tableVars, fileVars, boundVars, sync, up>>

ReadMissing(t) ==
  /\ Reading(t)
  /\ sync = Nobody
  /\ Search(Wanted[at[t]]) = {}
  /\ Goto(t, "read", "missing")
  /\ UNCHANGED <<tableVars, fileVars, initVars, boundVars, sync, up>>

AddDefaultUnsearched(t) ==   \* mutant: relies on the search made before m_sync was given up
  /\ GotoSave(t, "missing", "default")
  /\ sync = Nobody
  /\ AddUnsearched(Wanted[at[t]], Default(Wanted[at[t]]))
  /\ UNCHANGED <<at, fileVars, initVars, boundVars, sync, up>>

AddDefault(t) ==
  /\ GotoSave(t, "missing", "default")
  /\ sync = Nobody
  /\ Add(Wanted[at[t]], Default(Wanted[at[t]]))
  /\ UNCHANGED <<at, fileVars, initVars, boundVars, sync, up>>

CopyDefault(t) ==
  /\ pc[t] = "default" /\ pc' = [pc EXCEPT ![t] = "read"]
  /\ LET n == Wanted[at[t]] IN
       /\ settings' = [settings EXCEPT ![n] = Default(n)]
       /\ late' = IF \E i \in Search(n) : cfg[i].value = Default(n) THEN late \ {n} ELSE late \cup {n}
  /\ at' = [at EXCEPT ![t] = @ + 1]
  /\ UNCHANGED <<next, tableVars, fileVars, boundVars, sync, up>>

(* What setupSocket does with the members is in ConnectionPool. *)
SetupSocket(t) ==
  /\ at[t] > Len(Wanted)
  /\ Goto(t, "read", "idle")
  /\ up' = "up"
  /\ UNCHANGED <<tableVars, fileVars, initVars, boundVars, sync>>

Initialize(t) ==
  ReadFound(t) \/ ReadMissing(t) \/ AddDefault(t) \/ CopyDefault(t) \/ SetupSocket(t)

-----------------------------------------------------------------------------
(* The server starts: DllMain loads the file, MtSrvStartup initializes. *)
Load(t) ==
  /\ up = "down" /\ up' = "starting"
  /\ GotoInitialize(t, "idle")
  /\ cfg' \in Arranged(file, Kept(file))
  /\ cfg_max' = IF cfg' = <<>> THEN 0 ELSE Room * ((Len(cfg') + Room - 1) \div Room)
  /\ image' = file /\ removed' = (cfg' # file) /\ failed' = FALSE
  /\ UNCHANGED <<file, failures, initVars, boundVars, sync>>

(* It dies: what was written stays, all else is gone. *)
Crash ==
  /\ up # "down" /\ up' = "down"
  /\ crashes < MaxCrashes /\ crashes' = crashes + 1
  /\ cfg' = <<>> /\ cfg_max' = 0 /\ removed' = FALSE
  /\ sync' = Nobody
  /\ settings' = Unread /\ late' = {}
  /\ pc' = [t \in Threads |-> "idle"]
  /\ UNCHANGED <<at, next, fileVars, calls>>

Next ==
  \/ \E t \in Threads :
       \/ \E n \in Names : CfgDelete(t, n) \/ \E v \in Values : CfgAdd(t, n, v)
       \/ \E values \in Lists : CfgSet(t, values)
       \/ \E total \in 0 .. cfg_max : CfgSetTotal(t, total)
       \/ Save(t) \/ Initialize(t) \/ Load(t)
  \/ Crash

Spec == Init /\ [][Next]_vars

-----------------------------------------------------------------------------
TypeOK ==
  /\ cfg \in Seq(Entry) /\ cfg_max \in Nat /\ Len(cfg) <= cfg_max
  /\ file \in Seq(Entry) /\ image \in Seq(Entry)
  /\ sync \in Threads \cup {Nobody}
  /\ settings \in [Names -> Values] /\ late \subseteq Names
  /\ pc \in [Threads -> {"idle", "save", "write", "read", "missing", "default"}]
  /\ at \in [Threads -> 1 .. Len(Wanted) + 1]
  /\ next \in [Threads -> {"idle", "read", "default"}]
  /\ up \in {"down", "starting", "up"}
  /\ calls \in Nat /\ crashes \in Nat /\ failures \in Nat
  /\ removed \in BOOLEAN /\ failed \in BOOLEAN

(* The host and a file may repeat a name (Set and Load do not search), the *)
(* plugin does not: GetString looks for a name in one section and adds its *)
(* default in another, but whatever hooks come in between, no edit of its  *)
(* own gives a second entry to a name that has one.  Search would find     *)
(* either of the two, and Delete remove one of them only.                  *)
OneEntry(n) == \A i, j \in Search(n) : i = j
OwnEdit ==
  \E t \in Threads :
    AddDefault(t) \/ \E n \in Names : CfgDelete(t, n) \/ \E v \in Values : CfgAdd(t, n, v)
Doubled == \E n \in Names : OneEntry(n) /\ ~OneEntry(n)'
NoNameEnteredTwice == [][Doubled => ~OwnEdit]_vars

(* Every edit made by Add, Set or a default is in the file, or a thread    *)
(* still has to call Save: however the sections of several hooks mix, no   *)
(* Save leaves an older table behind.  Delete is the exception, it does    *)
(* not save; and a Save that could not write is not repeated.              *)
EditsAreSaved ==
  up # "down" /\ ~failed /\ sync = Nobody /\ (\A t \in Threads : pc[t] # "save") =>
    /\ file = image
    /\ ~removed => cfg = image

(* A crash at any moment leaves the beginning of one table that was in     *)
(* memory as a whole: never lines of two tables, never two saves mixed.    *)
RestartFindsOneTable == Len(file) <= Len(image) /\ file = SubSeq(image, 1, Len(file))

(* The members Initialize fills agree with the table once nobody has to    *)
(* read that name again; the exception is a default that is copied outside *)
(* the lock after somebody has edited the name.                            *)
WillRead(t, n) == pc[t] # "idle" /\ \E i \in at[t] .. Len(Wanted) : Wanted[i] = n
SettingsFollow ==
  up # "down" =>
    \A k \in DOMAIN Wanted :
      \/ \E i \in Search(Wanted[k]) : cfg[i].value = settings[Wanted[k]]
      \/ Wanted[k] \in late
      \/ \E t \in Threads : WillRead(t, Wanted[k])
=============================================================================
