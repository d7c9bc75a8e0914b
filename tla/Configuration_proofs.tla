------------------------ MODULE Configuration_proofs ------------------------
(***************************************************************************)
(* Proofs about Configuration for any number of host threads, names,       *)
(* values, hooks, crashes and failing file operations.                     *)
(***************************************************************************)
EXTENDS Configuration, FiniteSetTheorems, SequenceTheorems, TLAPS

(* s has the value v for n; s has no two entries of n. *)
Holds(s, n, v) == \E i \in DOMAIN s : s[i].name = n /\ s[i].value = v
Once(s, n) == \A i, j \in DOMAIN s : s[i].name = n /\ s[j].name = n => i = j

-----------------------------------------------------------------------------
(* What the operations on the array do. *)

LEMMA EntryFields ==
  ASSUME NEW e \in Entry
  PROVE  e.name \in Names /\ e.value \in Values
  BY DEF Entry

LEMMA TableShape ==
  ASSUME NEW s \in Seq(Entry)
  PROVE  /\ Len(s) \in Nat /\ DOMAIN s = 1 .. Len(s)
         /\ \A i \in 1 .. Len(s) : s[i] \in Entry
  BY LenProperties, ElementOfSeq

(* An arrangement has the entries it is made of, each of them once. *)
LEMMA ArrangedShape ==
  ASSUME NEW s \in Seq(Entry), NEW K \in SUBSET DOMAIN s, NEW t \in Arranged(s, K)
  PROVE  /\ t \in Seq(Entry) /\ Len(t) = Cardinality(K)
         /\ \E f \in Bijection(1 .. Len(t), K) : t = [k \in 1 .. Len(t) |-> s[f[k]]]
<1>1. PICK l \in Nat : l = Len(s)
  BY TableShape
<1>2. DOMAIN s = 1 .. l /\ \A k \in 1 .. l : s[k] \in Entry
  BY <1>1, TableShape
<1>3. IsFiniteSet(K)
  <2>1. IsFiniteSet(1 .. l)
    BY FS_Interval
  <2> QED BY <1>2, <2>1, FS_Subset
<1>4. PICK m \in Nat : m = Cardinality(K)
  BY <1>3, FS_CardinalityType
<1>5. PICK f \in Bijection(1 .. m, K) : t = [k \in DOMAIN f |-> s[f[k]]]
  BY <1>4 DEF Arranged
<1>6. f \in [1 .. m -> K] /\ DOMAIN f = 1 .. m
  BY <1>5 DEF Bijection, Injection
<1>7. t = [k \in 1 .. m |-> s[f[k]]] /\ \A k \in 1 .. m : s[f[k]] \in Entry
  BY <1>2, <1>5, <1>6
<1>8. t \in [1 .. m -> Entry]
  BY <1>7
<1>9. t \in Seq(Entry) /\ Len(t) = m
  BY <1>8
<1> QED BY <1>4, <1>5, <1>7, <1>9

(* qsort loses no entry and doubles none. *)
LEMMA SortedTable ==
  ASSUME NEW s \in Seq(Entry), NEW t \in Sorted(s)
  PROVE  /\ t \in Seq(Entry) /\ Len(t) = Len(s)
         /\ \A n, v : Holds(s, n, v) => Holds(t, n, v)
         /\ \A n : Once(s, n) => Once(t, n)
<1>1. PICK l \in Nat : l = Len(s)
  BY TableShape
<1>2. DOMAIN s = 1 .. l /\ DOMAIN s \in SUBSET DOMAIN s /\ t \in Arranged(s, DOMAIN s)
  BY <1>1, TableShape DEF Sorted
<1>3. Cardinality(1 .. l) = l
  BY FS_Interval
<1>4. t \in Seq(Entry) /\ Len(t) = l
  BY <1>2, <1>3, ArrangedShape
<1>5. PICK f \in Bijection(1 .. l, 1 .. l) : t = [k \in 1 .. l |-> s[f[k]]]
  BY <1>2, <1>4, ArrangedShape
<1>6. /\ f \in [1 .. l -> 1 .. l]
      /\ \A i, j \in 1 .. l : f[i] = f[j] => i = j
      /\ \A i \in 1 .. l : \E k \in 1 .. l : f[k] = i
  BY <1>5 DEF Bijection, Injection, Surjection, IsInjective
<1>7. DOMAIN t = 1 .. l /\ \A k \in 1 .. l : t[k] = s[f[k]]
  BY <1>5
<1>8. ASSUME NEW n, NEW v, Holds(s, n, v) PROVE Holds(t, n, v)
  <2>1. PICK i \in 1 .. l : s[i].name = n /\ s[i].value = v
    BY <1>2, <1>8 DEF Holds
  <2>2. PICK k \in 1 .. l : f[k] = i
    BY <1>6
  <2> QED BY <1>7, <2>1, <2>2 DEF Holds
<1>9. ASSUME NEW n, Once(s, n) PROVE Once(t, n)
  <2> SUFFICES ASSUME NEW i \in 1 .. l, NEW j \in 1 .. l, t[i].name = n, t[j].name = n
               PROVE  i = j
    BY <1>7 DEF Once
  <2>1. /\ f[i] \in 1 .. l /\ s[f[i]].name = n
        /\ f[j] \in 1 .. l /\ s[f[j]].name = n
    BY <1>6, <1>7
  <2>2. f[i] = f[j]
    BY <1>2, <1>9, <2>1, Zenon DEF Once
  <2> QED BY <1>6, <2>2
<1> QED BY <1>1, <1>4, <1>8, <1>9

LEMMA AppendedTable ==
  ASSUME NEW s \in Seq(Entry), NEW e \in Entry, \A i \in DOMAIN s : s[i].name # e.name
  PROVE  LET t == Append(s, e) IN
         /\ t \in Seq(Entry) /\ Len(t) = Len(s) + 1
         /\ \A n, v : Holds(s, n, v) => Holds(t, n, v)
         /\ \A n : Once(s, n) => Once(t, n)
<1>1. PICK l \in Nat : l = Len(s)
  BY TableShape
<1> DEFINE t == Append(s, e)
<1>2. t \in Seq(Entry) /\ Len(t) = l + 1 /\ t[l + 1] = e /\ \A i \in 1 .. l : t[i] = s[i]
  BY <1>1, AppendProperties
<1> HIDE DEF t
<1>3. DOMAIN s = 1 .. l /\ DOMAIN t = 1 .. l + 1
  BY <1>1, <1>2, TableShape
<1>4. ASSUME NEW n, NEW v, Holds(s, n, v) PROVE Holds(t, n, v)
  BY <1>2, <1>3, <1>4 DEF Holds
<1>5. ASSUME NEW n, Once(s, n) PROVE Once(t, n)
  <2> SUFFICES ASSUME NEW i \in 1 .. l + 1, NEW j \in 1 .. l + 1, t[i].name = n, t[j].name = n
               PROVE  i = j
    BY <1>3 DEF Once
  <2>1. CASE i \in 1 .. l /\ j \in 1 .. l
    BY <1>2, <1>3, <1>5, <2>1 DEF Once
  <2>2. CASE i = l + 1 \/ j = l + 1
    BY <1>2, <1>3, <2>2
  <2> QED BY <2>1, <2>2
<1> QED BY <1>1, <1>2, <1>4, <1>5 DEF t

LEMMA WithoutTable ==
  ASSUME NEW s \in Seq(Entry), NEW i \in DOMAIN s
  PROVE  /\ Without(s, i) \in Seq(Entry) /\ Len(Without(s, i)) = Len(s) - 1
         /\ \A n : Once(s, n) => Once(Without(s, i), n)
<1>1. PICK l \in Nat : l = Len(s)
  BY TableShape
<1>2. DOMAIN s = 1 .. l /\ i \in 1 .. l /\ \A k \in 1 .. l : s[k] \in Entry
  BY <1>1, TableShape
<1> DEFINE t == Without(s, i)
<1>3. t = [k \in 1 .. l - 1 |-> IF k < i THEN s[k] ELSE s[k + 1]]
  BY <1>1 DEF Without
<1> HIDE DEF t
<1>4. t \in [1 .. l - 1 -> Entry] /\ l - 1 \in Nat
  BY <1>2, <1>3
<1>5. t \in Seq(Entry) /\ Len(t) = l - 1 /\ DOMAIN t = 1 .. l - 1
  BY <1>4
<1>6. ASSUME NEW n, Once(s, n) PROVE Once(t, n)
  <2> SUFFICES ASSUME NEW j \in 1 .. l - 1, NEW k \in 1 .. l - 1, t[j].name = n, t[k].name = n
               PROVE  j = k
    BY <1>5 DEF Once
  <2>1. PICK a \in 1 .. l : a = IF j < i THEN j ELSE j + 1
    BY <1>2
  <2>2. PICK b \in 1 .. l : b = IF k < i THEN k ELSE k + 1
    BY <1>2
  <2>3. t[j] = s[a] /\ t[k] = s[b]
    BY <1>3, <2>1, <2>2
  <2>4. a = b
    BY <1>2, <1>6, <2>3 DEF Once
  <2> QED BY <1>2, <2>1, <2>2, <2>4
<1> QED BY <1>1, <1>5, <1>6 DEF t

LEMMA ReplacedTable ==
  ASSUME NEW s \in Seq(Entry), NEW i \in DOMAIN s, NEW v \in Values
  PROVE  LET t == [s EXCEPT ![i].value = v] IN
         /\ t \in Seq(Entry) /\ Len(t) = Len(s)
         /\ \A n, u : n # s[i].name /\ Holds(s, n, u) => Holds(t, n, u)
         /\ \A n : Once(s, n) => Once(t, n)
<1>1. PICK l \in Nat : l = Len(s)
  BY TableShape
<1>2. DOMAIN s = 1 .. l /\ \A k \in 1 .. l : s[k] \in Entry
  BY <1>1, TableShape
<1> DEFINE t == [s EXCEPT ![i].value = v]
<1>3. /\ DOMAIN t = 1 .. l
      /\ \A k \in 1 .. l : t[k] = IF k = i THEN [s[k] EXCEPT !.value = v] ELSE s[k]
  BY <1>2
<1>4. \A k \in 1 .. l : t[k] \in Entry /\ t[k].name = s[k].name
  BY <1>2, <1>3 DEF Entry
<1>5. t \in [1 .. l -> Entry]
  BY <1>3, <1>4
<1> HIDE DEF t
<1>6. t \in Seq(Entry) /\ Len(t) = l
  BY <1>5
<1>7. ASSUME NEW n, NEW u, n # s[i].name, Holds(s, n, u) PROVE Holds(t, n, u)
  BY <1>2, <1>3, <1>7 DEF Holds
<1>8. ASSUME NEW n, Once(s, n) PROVE Once(t, n)
  BY <1>2, <1>3, <1>4, <1>8 DEF Once
<1> QED BY <1>1, <1>6, <1>7, <1>8 DEF t

LEMMA AddTable ==
  ASSUME cfg \in Seq(Entry), cfg_max \in Nat, Len(cfg) <= cfg_max,
         NEW n \in Names, NEW v \in Values, Add(n, v)
  PROVE  /\ cfg' \in Seq(Entry) /\ cfg_max' \in Nat /\ Len(cfg') <= cfg_max'
         /\ \A m, u : m # n /\ Holds(cfg, m, u) => Holds(cfg', m, u)
         /\ \A m : Once(cfg, m) => Once(cfg', m)
<1>1. Len(cfg) \in Nat /\ Room \in Nat \ {0}
  BY TableShape, BoundsAssumption
<1>2. CASE Search(n) # {}
  <2>1. PICK i \in DOMAIN cfg : /\ cfg[i].name = n
                               /\ cfg' = [cfg EXCEPT ![i].value = v] /\ cfg_max' = cfg_max
    BY <1>2 DEF Add, Search
  <2>2. /\ cfg' \in Seq(Entry) /\ Len(cfg') = Len(cfg)
        /\ \A m, u : m # cfg[i].name /\ Holds(cfg, m, u) => Holds(cfg', m, u)
        /\ \A m : Once(cfg, m) => Once(cfg', m)
    BY <2>1, ReplacedTable
  <2> QED BY <2>1, <2>2
<1>3. CASE Search(n) = {}
  <2> DEFINE e == [name |-> n, value |-> v]
             t == Append(cfg, e)
  <2>1. e \in Entry /\ \A i \in DOMAIN cfg : cfg[i].name # e.name
    BY <1>3 DEF Entry, Search
  <2>2. cfg' \in Sorted(t)
    BY <1>3 DEF Add
  <2> HIDE DEF e
  <2>3. /\ t \in Seq(Entry) /\ Len(t) = Len(cfg) + 1
        /\ \A m, u : Holds(cfg, m, u) => Holds(t, m, u)
        /\ \A m : Once(cfg, m) => Once(t, m)
    BY <2>1, AppendedTable
  <2> HIDE DEF t
  <2>4. /\ cfg' \in Seq(Entry) /\ Len(cfg') = Len(t)
        /\ \A m, u : Holds(t, m, u) => Holds(cfg', m, u)
        /\ \A m : Once(t, m) => Once(cfg', m)
    BY <2>2, <2>3, SortedTable
  <2>5. cfg_max' = IF Len(cfg) >= cfg_max THEN Len(cfg) + Room ELSE cfg_max
    BY <1>3 DEF Add
  <2> QED BY <1>1, <2>3, <2>4, <2>5
<1> QED BY <1>2, <1>3

LEMMA SetTable ==
  ASSUME cfg_max \in Nat, NEW values \in Lists, Set(values)
  PROVE  cfg' \in Seq(Entry) /\ cfg_max' \in Nat /\ Len(cfg') <= cfg_max'
<1>1. values \in Seq(Entry) /\ Len(values) \in Nat /\ Room \in Nat \ {0}
  BY ListsAssumption, TableShape, BoundsAssumption DEF Entry
<1>2. cfg' \in Seq(Entry) /\ Len(cfg') = Len(values)
  BY <1>1, SortedTable DEF Set
<1>3. values = <<>> => Len(values) = 0
  OBVIOUS
<1> QED BY <1>1, <1>2, <1>3 DEF Set

LEMMA SetTotalTable ==
  ASSUME cfg \in Seq(Entry), cfg_max \in Nat, NEW total \in 0 .. cfg_max, SetTotal(total)
  PROVE  cfg' \in Seq(Entry) /\ cfg_max' \in Nat /\ Len(cfg') <= cfg_max'
<1>1. PICK l \in Nat : l = Len(cfg)
  BY TableShape
<1>2. PICK m \in Nat : /\ m = IF total > l THEN total - l ELSE 0
                      /\ m = IF total > Len(cfg) THEN total - Len(cfg) ELSE 0
  BY <1>1
<1>3. PICK more \in [1 .. m -> Entry] : cfg' \in Sorted(SubSeq(cfg \o more, 1, total))
  BY <1>2, Zenon DEF SetTotal
<1> DEFINE both == cfg \o more
           s == SubSeq(both, 1, total)
<1>4. more \in Seq(Entry) /\ Len(more) = m
  BY <1>3
<1>5. both \in Seq(Entry) /\ Len(both) = l + m
  BY <1>1, <1>4
<1> HIDE DEF both
<1>6. s \in Seq(Entry) /\ Len(s) = total
  BY <1>2, <1>5
<1> HIDE DEF s
<1>7. cfg' \in Seq(Entry) /\ Len(cfg') = total
  BY <1>3, <1>6, SortedTable DEF s, both
<1> QED BY <1>7 DEF SetTotal

LEMMA DeleteTable ==
  ASSUME cfg \in Seq(Entry), cfg_max \in Nat, Len(cfg) <= cfg_max, NEW n \in Names, Delete(n)
  PROVE  /\ cfg' \in Seq(Entry) /\ cfg_max' \in Nat /\ Len(cfg') <= cfg_max'
         /\ \A m : Once(cfg, m) => Once(cfg', m)
<1>1. Len(cfg) \in Nat
  BY TableShape
<1>2. CASE Search(n) # {}
  <2>1. PICK i \in DOMAIN cfg : cfg' \in Sorted(Without(cfg, i))
    BY <1>2 DEF Delete, Search
  <2>2. /\ Without(cfg, i) \in Seq(Entry) /\ Len(Without(cfg, i)) = Len(cfg) - 1
        /\ \A m : Once(cfg, m) => Once(Without(cfg, i), m)
    BY WithoutTable
  <2>3. /\ cfg' \in Seq(Entry) /\ Len(cfg') = Len(cfg) - 1
        /\ \A m : Once(Without(cfg, i), m) => Once(cfg', m)
    BY <2>1, <2>2, SortedTable
  <2> QED BY <1>1, <2>2, <2>3 DEF Delete
<1>3. CASE Search(n) = {}
  BY <1>3 DEF Delete
<1> QED BY <1>2, <1>3

LEMMA LoadTable ==
  ASSUME NEW t \in Threads, file \in Seq(Entry), Load(t)
  PROVE  cfg' \in Seq(Entry) /\ cfg_max' \in Nat /\ Len(cfg') <= cfg_max'
<1>1. cfg' \in Seq(Entry)
  <2>1. Kept(file) \in SUBSET DOMAIN file
    BY DEF Kept
  <2> QED BY <2>1, ArrangedShape DEF Load
<1>2. PICK l \in Nat : l = Len(cfg')
  BY <1>1, LenProperties
<1>3. cfg' = <<>> => l = 0
  BY <1>2
<1>4. PICK r \in Nat \ {0} : r = Room
  BY BoundsAssumption
<1>5. (l + r - 1) \div r \in Nat /\ r * ((l + r - 1) \div r) \in Nat /\ l <= r * ((l + r - 1) \div r)
  OBVIOUS
<1>6. cfg_max' = IF cfg' = <<>> THEN 0 ELSE r * ((l + r - 1) \div r)
  BY <1>2, <1>4 DEF Load
<1> QED BY <1>1, <1>2, <1>3, <1>5, <1>6

-----------------------------------------------------------------------------
(* The inductive invariant.  While a thread writes the file nobody changes *)
(* the table, which is then the one it began to write; a thread that has a *)
(* default to add or to copy has not yet come to the end of its names; one *)
(* that saves goes on to Initialize.                                       *)
Locking ==
  /\ \A t \in Threads : pc[t] = "write" <=> sync = t
  /\ sync # Nobody => cfg = image /\ ~failed
  /\ up = "down" => \A t \in Threads : pc[t] = "idle"
  /\ \A t \in Threads :
       pc[t] \in {"missing", "default"} \/ (pc[t] \in {"save", "write"} /\ next[t] = "default")
         => at[t] <= Len(Wanted)
  /\ \A t \in Threads : pc[t] \in {"save", "write"} => next[t] # "idle"

(* RestartFindsOneTable, line by line. *)
Lines == Len(file) <= Len(image) /\ \A i \in 1 .. Len(file) : file[i] = image[i]

IInv == TypeOK /\ Locking /\ Lines /\ EditsAreSaved /\ SettingsFollow

LEMMA InitIInv == Init => IInv
<1> SUFFICES ASSUME Init PROVE IInv
  OBVIOUS
<1>1. file \in Seq(Entry) /\ image = file
  BY ListsAssumption DEF Init, Entry
<1>2. cfg = <<>> /\ cfg \in Seq(Entry) /\ Len(cfg) = 0 /\ DOMAIN cfg = {}
  BY DEF Init
<1>3. Len(Wanted) \in Nat
  BY NamesAssumption, LenProperties
<1>4. TypeOK
  <2>1. cfg \in Seq(Entry) /\ cfg_max \in Nat /\ Len(cfg) <= cfg_max
    BY <1>2 DEF Init
  <2>2. settings \in [Names -> Values]
    BY ValuesAssumption DEF Init, Unread
  <2>3. at \in [Threads -> 1 .. Len(Wanted) + 1]
    BY <1>3 DEF Init
  <2> QED BY <1>1, <2>1, <2>2, <2>3 DEF Init, TypeOK
<1>5. Len(file) \in Nat
  BY <1>1, TableShape
<1> QED BY <1>1, <1>4, <1>5, ThreadsAssumption DEF Init, IInv, Locking, Lines, EditsAreSaved,
     SettingsFollow

(* Every step keeps the types; a table never outgrows its array. *)
LEMMA TypeStep == IInv /\ [Next]_vars => TypeOK'
<1> SUFFICES ASSUME IInv, [Next]_vars PROVE TypeOK'
  OBVIOUS
<1> USE DEF TypeOK
<1>1. ASSUME NEW t \in Threads, NEW n \in Names, NEW v \in Values, CfgAdd(t, n, v) PROVE TypeOK'
  <2>1. cfg' \in Seq(Entry) /\ cfg_max' \in Nat /\ Len(cfg') <= cfg_max'
    BY <1>1, AddTable DEF CfgAdd, IInv
  <2>2. 1 \in 1 .. Len(Wanted) + 1
    BY NamesAssumption, LenProperties
  <2>3. UNCHANGED <<fileVars, initVars, crashes, sync, up, removed>> /\ calls' = calls + 1
    BY <1>1 DEF CfgAdd, Add, Called
  <2>4. /\ pc' = [pc EXCEPT ![t] = "save"] /\ next' = [next EXCEPT ![t] = "read"]
        /\ at' = [at EXCEPT ![t] = 1]
    BY <1>1 DEF CfgAdd, GotoSave
  <2> QED BY <2>1, <2>2, <2>3, <2>4 DEF IInv, fileVars, initVars
<1>2. ASSUME NEW t \in Threads, NEW values \in Lists, CfgSet(t, values) PROVE TypeOK'
  <2>1. cfg' \in Seq(Entry) /\ cfg_max' \in Nat /\ Len(cfg') <= cfg_max'
    BY <1>2, SetTable DEF CfgSet, IInv
  <2>2. 1 \in 1 .. Len(Wanted) + 1
    BY NamesAssumption, LenProperties
  <2> QED BY <1>2, <2>1, <2>2 DEF IInv, CfgSet, Set, GotoSave, Called, tableVars, fileVars,
       initVars, threadVars, boundVars
<1>3. ASSUME NEW t \in Threads, NEW n \in Names, CfgDelete(t, n) PROVE TypeOK'
  <2>1. cfg' \in Seq(Entry) /\ cfg_max' \in Nat /\ Len(cfg') <= cfg_max'
    BY <1>3, DeleteTable DEF CfgDelete, IInv
  <2>2. 1 \in 1 .. Len(Wanted) + 1
    BY NamesAssumption, LenProperties
  <2>3. removed' \in BOOLEAN
    BY <1>3 DEF CfgDelete, Delete, IInv
  <2> QED BY <1>3, <2>1, <2>2, <2>3 DEF IInv, CfgDelete, GotoInitialize, Called, tableVars,
       fileVars, initVars, threadVars, boundVars
<1>4. ASSUME NEW t \in Threads, SaveOpen(t) PROVE TypeOK'
  <2>1. <<>> \in Seq(Entry)
    OBVIOUS
  <2> QED BY <1>4, <2>1 DEF IInv, SaveOpen, Goto, tableVars, fileVars, initVars, threadVars,
       boundVars
<1>5. ASSUME NEW t \in Threads, SaveNotOpened(t) PROVE TypeOK'
  BY <1>5 DEF IInv, SaveNotOpened, Reading, Goto, tableVars, fileVars, initVars, threadVars,
       boundVars
<1>6. ASSUME NEW t \in Threads, SaveLine(t) PROVE TypeOK'
  <2>1. Len(file) + 1 \in 1 .. Len(cfg)
    BY <1>6, LenProperties DEF SaveLine, IInv
  <2>2. file' \in Seq(Entry)
    BY <1>6, <2>1, ElementOfSeq DEF SaveLine, IInv
  <2> QED BY <1>6, <2>2 DEF IInv, SaveLine, Goto, tableVars, fileVars, initVars, threadVars,
       boundVars
<1>7. ASSUME NEW t \in Threads, SaveLineFails(t) PROVE TypeOK'
  BY <1>7 DEF IInv, SaveLineFails, Reading, Goto, tableVars, fileVars, initVars, threadVars,
       boundVars
<1>8. ASSUME NEW t \in Threads, SaveClose(t) PROVE TypeOK'
  BY <1>8 DEF IInv, SaveClose, Reading, Goto, tableVars, fileVars, initVars, threadVars, boundVars
<1>9. ASSUME NEW t \in Threads, ReadFound(t) PROVE TypeOK'
  <2>1. at[t] + 1 \in 1 .. Len(Wanted) + 1 /\ Wanted[at[t]] \in Names
    BY <1>9, NamesAssumption, LenProperties, ElementOfSeq DEF ReadFound, Reading, IInv
  <2>2. settings' \in [Names -> Values]
    <3>1. PICK i \in DOMAIN cfg : settings' = [settings EXCEPT ![Wanted[at[t]]] = cfg[i].value]
      BY <1>9 DEF ReadFound, Search
    <3>2. cfg[i].value \in Values
      BY LenProperties, ElementOfSeq, EntryFields DEF IInv
    <3> QED BY <3>1, <3>2 DEF IInv
  <2>3. late' \subseteq Names /\ at' \in [Threads -> 1 .. Len(Wanted) + 1]
    BY <1>9, <2>1 DEF ReadFound, IInv
  <2> QED BY <1>9, <2>2, <2>3 DEF IInv, ReadFound, tableVars, fileVars, initVars, threadVars,
       boundVars
<1>10. ASSUME NEW t \in Threads, ReadMissing(t) PROVE TypeOK'
  BY <1>10 DEF IInv, ReadMissing, Reading, Goto, tableVars, fileVars, initVars, threadVars,
       boundVars
<1>11. ASSUME NEW t \in Threads, AddDefault(t) PROVE TypeOK'
  <2>1. at[t] \in 1 .. Len(Wanted)
    BY <1>11, NamesAssumption, LenProperties DEF AddDefault, GotoSave, IInv, Locking
  <2>2. Wanted[at[t]] \in Names
    BY <2>1, NamesAssumption, ElementOfSeq
  <2>3. Default(Wanted[at[t]]) \in Values
    BY <2>2, ValuesAssumption
  <2>4. cfg' \in Seq(Entry) /\ cfg_max' \in Nat /\ Len(cfg') <= cfg_max'
    BY <1>11, <2>2, <2>3, AddTable DEF AddDefault, IInv
  <2> QED BY <1>11, <2>4 DEF IInv, AddDefault, Add, GotoSave, tableVars, fileVars, initVars,
       threadVars, boundVars
<1>12. ASSUME NEW t \in Threads, CopyDefault(t) PROVE TypeOK'
  <2>1. at[t] \in 1 .. Len(Wanted)
    BY <1>12, NamesAssumption, LenProperties DEF CopyDefault, GotoSave, IInv, Locking
  <2>2. Wanted[at[t]] \in Names
    BY <2>1, NamesAssumption, ElementOfSeq
  <2>3. Default(Wanted[at[t]]) \in Values
    BY <2>2, ValuesAssumption
  <2>4. settings' \in [Names -> Values] /\ late' \subseteq Names
    BY <1>12, <2>2, <2>3 DEF CopyDefault, IInv
  <2>5. at' \in [Threads -> 1 .. Len(Wanted) + 1]
    <3>1. at[t] + 1 \in 1 .. Len(Wanted) + 1
      BY <2>1, NamesAssumption, LenProperties
    <3> QED BY <1>12, <3>1 DEF CopyDefault, IInv
  <2> QED BY <1>12, <2>4, <2>5 DEF IInv, CopyDefault, tableVars, fileVars, initVars, threadVars,
       boundVars
<1>13. ASSUME NEW t \in Threads, SetupSocket(t) PROVE TypeOK'
  BY <1>13 DEF IInv, SetupSocket, Reading, Goto, tableVars, fileVars, initVars, threadVars,
       boundVars
<1>14. ASSUME NEW t \in Threads, Load(t) PROVE TypeOK'
  <2>1. cfg' \in Seq(Entry) /\ cfg_max' \in Nat /\ Len(cfg') <= cfg_max'
    BY <1>14, LoadTable DEF IInv
  <2>2. 1 \in 1 .. Len(Wanted) + 1
    BY NamesAssumption, LenProperties
  <2>3. removed' \in BOOLEAN
    BY <1>14 DEF Load
  <2> QED BY <1>14, <2>1, <2>2, <2>3 DEF IInv, Load, GotoInitialize, tableVars, fileVars, initVars,
       threadVars, boundVars
<1>15. ASSUME Crash PROVE TypeOK'
  <2>1. cfg' \in Seq(Entry) /\ cfg_max' \in Nat /\ Len(cfg') <= cfg_max'
    BY <1>15 DEF Crash
  <2>2. settings' \in [Names -> Values]
    BY <1>15, ValuesAssumption DEF Crash, Unread
  <2>3. /\ pc' \in [Threads -> {"idle", "save", "write", "read", "missing", "default"}]
        /\ late' \subseteq Names /\ sync' = Nobody /\ up' = "down" /\ removed' = FALSE
        /\ crashes' = crashes + 1
    BY <1>15 DEF Crash
  <2>4. UNCHANGED <<at, next, file, image, failed, failures, calls>>
    BY <1>15 DEF Crash, fileVars
  <2>5. TypeOK
    BY DEF IInv
  <2>6. calls' \in Nat /\ crashes' \in Nat /\ failures' \in Nat
    BY <2>3, <2>4, <2>5
  <2>7. removed' \in BOOLEAN /\ failed' \in BOOLEAN
    BY <2>3, <2>4, <2>5, Zenon
  <2> QED BY <2>1, <2>2, <2>3, <2>4, <2>5, <2>6, <2>7
<1>16. CASE UNCHANGED vars
  <2>1. UNCHANGED <<cfg, cfg_max, removed, file, image, failed, failures, settings, late>>
    BY <1>16 DEF vars, tableVars, fileVars, initVars
  <2>2. UNCHANGED <<pc, at, next, calls, crashes, sync, up>>
    BY <1>16 DEF vars, threadVars, boundVars
  <2> QED BY <2>1, <2>2 DEF IInv
<1>17. ASSUME NEW t \in Threads, NEW total \in 0 .. cfg_max, CfgSetTotal(t, total) PROVE TypeOK'
  <2>1. cfg' \in Seq(Entry) /\ cfg_max' \in Nat /\ Len(cfg') <= cfg_max'
    BY <1>17, SetTotalTable DEF CfgSetTotal, IInv
  <2>2. 1 \in 1 .. Len(Wanted) + 1
    BY NamesAssumption, LenProperties
  <2> QED BY <1>17, <2>1, <2>2 DEF IInv, CfgSetTotal, SetTotal, GotoSave, Called, tableVars,
       fileVars, initVars, threadVars, boundVars
<1> QED BY <1>1, <1>2, <1>3, <1>4, <1>5, <1>6, <1>7, <1>8, <1>9, <1>10, <1>11, <1>12, <1>13, <1>14,
     <1>15, <1>16, <1>17 DEF Next, Save, Initialize

(* Every step respects m_sync. *)
LEMMA LockingStep == IInv /\ [Next]_vars => Locking'
<1> SUFFICES ASSUME IInv, [Next]_vars PROVE Locking'
  OBVIOUS
<1> USE DEF Locking
<1>1. ASSUME NEW t \in Threads, NEW n \in Names, NEW v \in Values, CfgAdd(t, n, v) PROVE Locking'
  BY <1>1, ThreadsAssumption DEF IInv, TypeOK, CfgAdd, Goto, GotoSave, GotoInitialize, Called,
       Reading, tableVars, fileVars, initVars, threadVars, boundVars
<1>2. ASSUME NEW t \in Threads, NEW values \in Lists, CfgSet(t, values) PROVE Locking'
  BY <1>2, ThreadsAssumption DEF IInv, TypeOK, CfgSet, Goto, GotoSave, GotoInitialize, Called,
       Reading, tableVars, fileVars, initVars, threadVars, boundVars
<1>3. ASSUME NEW t \in Threads, NEW n \in Names, CfgDelete(t, n) PROVE Locking'
  BY <1>3, ThreadsAssumption DEF IInv, TypeOK, CfgDelete, Goto, GotoSave, GotoInitialize, Called,
       Reading, tableVars, fileVars, initVars, threadVars, boundVars
<1>4. ASSUME NEW t \in Threads, SaveOpen(t) PROVE Locking'
  BY <1>4, ThreadsAssumption DEF IInv, TypeOK, SaveOpen, Goto, GotoSave, GotoInitialize, Called,
       Reading, tableVars, fileVars, initVars, threadVars, boundVars
<1>5. ASSUME NEW t \in Threads, SaveNotOpened(t) PROVE Locking'
  BY <1>5, ThreadsAssumption DEF IInv, TypeOK, SaveNotOpened, Goto, GotoSave, GotoInitialize,
       Called, Reading, tableVars, fileVars, initVars, threadVars, boundVars
<1>6. ASSUME NEW t \in Threads, SaveLine(t) PROVE Locking'
  BY <1>6, ThreadsAssumption DEF IInv, TypeOK, SaveLine, Goto, GotoSave, GotoInitialize, Called,
       Reading, tableVars, fileVars, initVars, threadVars, boundVars
<1>7. ASSUME NEW t \in Threads, SaveLineFails(t) PROVE Locking'
  BY <1>7, ThreadsAssumption DEF IInv, TypeOK, SaveLineFails, Goto, GotoSave, GotoInitialize,
       Called, Reading, tableVars, fileVars, initVars, threadVars, boundVars
<1>8. ASSUME NEW t \in Threads, SaveClose(t) PROVE Locking'
  BY <1>8, ThreadsAssumption DEF IInv, TypeOK, SaveClose, Goto, GotoSave, GotoInitialize, Called,
       Reading, tableVars, fileVars, initVars, threadVars, boundVars
<1>9. ASSUME NEW t \in Threads, ReadFound(t) PROVE Locking'
  BY <1>9, ThreadsAssumption DEF IInv, TypeOK, ReadFound, Goto, GotoSave, GotoInitialize, Called,
       Reading, tableVars, fileVars, initVars, threadVars, boundVars
<1>10. ASSUME NEW t \in Threads, ReadMissing(t) PROVE Locking'
  BY <1>10, ThreadsAssumption DEF IInv, TypeOK, ReadMissing, Goto, GotoSave, GotoInitialize,
       Called, Reading, tableVars, fileVars, initVars, threadVars, boundVars
<1>11. ASSUME NEW t \in Threads, AddDefault(t) PROVE Locking'
  BY <1>11, ThreadsAssumption DEF IInv, TypeOK, AddDefault, Goto, GotoSave, GotoInitialize, Called,
       Reading, tableVars, fileVars, initVars, threadVars, boundVars
<1>12. ASSUME NEW t \in Threads, CopyDefault(t) PROVE Locking'
  BY <1>12, ThreadsAssumption DEF IInv, TypeOK, CopyDefault, Goto, GotoSave, GotoInitialize,
       Called, Reading, tableVars, fileVars, initVars, threadVars, boundVars
<1>13. ASSUME NEW t \in Threads, SetupSocket(t) PROVE Locking'
  BY <1>13, ThreadsAssumption DEF IInv, TypeOK, SetupSocket, Goto, GotoSave, GotoInitialize,
       Called, Reading, tableVars, fileVars, initVars, threadVars, boundVars
<1>14. ASSUME NEW t \in Threads, Load(t) PROVE Locking'
  BY <1>14, ThreadsAssumption DEF IInv, TypeOK, Load, GotoInitialize, initVars, boundVars
<1>15. ASSUME Crash PROVE Locking'
  BY <1>15, ThreadsAssumption DEF IInv, TypeOK, Crash, fileVars
<1>16. CASE UNCHANGED vars
  <2>1. UNCHANGED <<cfg, cfg_max, removed, file, image, failed, failures, settings, late>>
    BY <1>16 DEF vars, tableVars, fileVars, initVars
  <2>2. UNCHANGED <<pc, at, next, calls, crashes, sync, up>>
    BY <1>16 DEF vars, threadVars, boundVars
  <2> QED BY <2>1, <2>2 DEF IInv
<1>17. ASSUME NEW t \in Threads, NEW total \in 0 .. cfg_max, CfgSetTotal(t, total) PROVE Locking'
  BY <1>17, ThreadsAssumption DEF IInv, TypeOK, CfgSetTotal, Goto, GotoSave, GotoInitialize,
       Called, Reading, tableVars, fileVars, initVars, threadVars, boundVars
<1> QED BY <1>1, <1>2, <1>3, <1>4, <1>5, <1>6, <1>7, <1>8, <1>9, <1>10, <1>11, <1>12, <1>13, <1>14,
     <1>15, <1>16, <1>17 DEF Next, Save, Initialize

(* Every step leaves in the file the beginning of the table Save was called with. *)
LEMMA LinesStep == IInv /\ [Next]_vars => Lines'
<1> SUFFICES ASSUME IInv, [Next]_vars PROVE Lines'
  OBVIOUS
<1> USE DEF Lines
<1>1. ASSUME NEW t \in Threads, NEW n \in Names, NEW v \in Values, CfgAdd(t, n, v) PROVE Lines'
  BY <1>1 DEF IInv, CfgAdd, fileVars
<1>2. ASSUME NEW t \in Threads, NEW values \in Lists, CfgSet(t, values) PROVE Lines'
  BY <1>2 DEF IInv, CfgSet, fileVars
<1>3. ASSUME NEW t \in Threads, NEW n \in Names, CfgDelete(t, n) PROVE Lines'
  BY <1>3 DEF IInv, CfgDelete, fileVars
<1>4. ASSUME NEW t \in Threads, SaveOpen(t) PROVE Lines'
  <2>1. Len(cfg) \in Nat
    BY LenProperties DEF IInv, TypeOK
  <2> QED BY <1>4, <2>1 DEF SaveOpen
<1>5. ASSUME NEW t \in Threads, SaveNotOpened(t) PROVE Lines'
  BY <1>5 DEF IInv, SaveNotOpened, fileVars
<1>6. ASSUME NEW t \in Threads, SaveLine(t) PROVE Lines'
  <2>1. cfg = image
    BY <1>6, ThreadsAssumption DEF SaveLine, Goto, IInv, Locking
  <2>2. PICK l \in Nat : l = Len(file)
    BY LenProperties DEF IInv, TypeOK
  <2>3. PICK m \in Nat : m = Len(cfg)
    BY LenProperties DEF IInv, TypeOK
  <2>4. cfg[l + 1] \in Entry
    BY <1>6, <2>2, <2>3, ElementOfSeq DEF SaveLine, IInv, TypeOK
  <2>5. Len(file') = l + 1 /\ file'[l + 1] = cfg[l + 1] /\ \A i \in 1 .. l : file'[i] = file[i]
    BY <1>6, <2>2, <2>4, AppendProperties DEF SaveLine, IInv, TypeOK
  <2> QED BY <1>6, <2>1, <2>2, <2>3, <2>5 DEF SaveLine, IInv
<1>7. ASSUME NEW t \in Threads, SaveLineFails(t) PROVE Lines'
  BY <1>7 DEF IInv, SaveLineFails, fileVars
<1>8. ASSUME NEW t \in Threads, SaveClose(t) PROVE Lines'
  BY <1>8 DEF IInv, SaveClose, fileVars
<1>9. ASSUME NEW t \in Threads, ReadFound(t) PROVE Lines'
  BY <1>9 DEF IInv, ReadFound, fileVars
<1>10. ASSUME NEW t \in Threads, ReadMissing(t) PROVE Lines'
  BY <1>10 DEF IInv, ReadMissing, fileVars
<1>11. ASSUME NEW t \in Threads, AddDefault(t) PROVE Lines'
  BY <1>11 DEF IInv, AddDefault, fileVars
<1>12. ASSUME NEW t \in Threads, CopyDefault(t) PROVE Lines'
  BY <1>12 DEF IInv, CopyDefault, fileVars
<1>13. ASSUME NEW t \in Threads, SetupSocket(t) PROVE Lines'
  BY <1>13 DEF IInv, SetupSocket, fileVars
<1>14. ASSUME NEW t \in Threads, Load(t) PROVE Lines'
  <2>1. Len(file) \in Nat
    BY LenProperties DEF IInv, TypeOK
  <2> QED BY <1>14, <2>1 DEF Load
<1>15. ASSUME Crash PROVE Lines'
  BY <1>15 DEF IInv, Crash, fileVars
<1>16. CASE UNCHANGED vars
  <2>1. UNCHANGED <<cfg, cfg_max, removed, file, image, failed, failures, settings, late>>
    BY <1>16 DEF vars, tableVars, fileVars, initVars
  <2>2. UNCHANGED <<pc, at, next, calls, crashes, sync, up>>
    BY <1>16 DEF vars, threadVars, boundVars
  <2> QED BY <2>1, <2>2 DEF IInv
<1>17. ASSUME NEW t \in Threads, NEW total \in 0 .. cfg_max, CfgSetTotal(t, total) PROVE Lines'
  BY <1>17 DEF IInv, CfgSetTotal, fileVars
<1> QED BY <1>1, <1>2, <1>3, <1>4, <1>5, <1>6, <1>7, <1>8, <1>9, <1>10, <1>11, <1>12, <1>13, <1>14,
     <1>15, <1>16, <1>17 DEF Next, Save, Initialize

(* Every step that edits the table leaves a Save to be called, and none      *)
(* of these calls is lost.                                                    *)
LEMMA SavedStep == IInv /\ [Next]_vars => EditsAreSaved'
<1> SUFFICES ASSUME IInv, [Next]_vars PROVE EditsAreSaved'
  OBVIOUS
<1> USE DEF EditsAreSaved
<1>1. ASSUME NEW t \in Threads, NEW n \in Names, NEW v \in Values, CfgAdd(t, n, v)
      PROVE EditsAreSaved'
  BY <1>1, ThreadsAssumption DEF IInv, TypeOK, Locking, CfgAdd, Goto, GotoSave, GotoInitialize,
       Called, Reading, tableVars, fileVars, initVars, threadVars, boundVars
<1>2. ASSUME NEW t \in Threads, NEW values \in Lists, CfgSet(t, values) PROVE EditsAreSaved'
  BY <1>2, ThreadsAssumption DEF IInv, TypeOK, Locking, CfgSet, Goto, GotoSave, GotoInitialize,
       Called, Reading, tableVars, fileVars, initVars, threadVars, boundVars
<1>3. ASSUME NEW t \in Threads, NEW n \in Names, CfgDelete(t, n) PROVE EditsAreSaved'
  BY <1>3 DEF IInv, TypeOK, CfgDelete, Delete, Goto, GotoSave, GotoInitialize, Called, Reading,
       tableVars, fileVars, initVars, threadVars, boundVars
<1>4. ASSUME NEW t \in Threads, SaveOpen(t) PROVE EditsAreSaved'
  BY <1>4, ThreadsAssumption DEF IInv, TypeOK, Locking, SaveOpen, Goto, GotoSave, GotoInitialize,
       Called, Reading, tableVars, fileVars, initVars, threadVars, boundVars
<1>5. ASSUME NEW t \in Threads, SaveNotOpened(t) PROVE EditsAreSaved'
  BY <1>5, ThreadsAssumption DEF IInv, TypeOK, Locking, SaveNotOpened, Goto, GotoSave,
       GotoInitialize, Called, Reading, tableVars, fileVars, initVars, threadVars, boundVars
<1>6. ASSUME NEW t \in Threads, SaveLine(t) PROVE EditsAreSaved'
  BY <1>6, ThreadsAssumption DEF IInv, TypeOK, Locking, SaveLine, Goto, GotoSave, GotoInitialize,
       Called, Reading, tableVars, fileVars, initVars, threadVars, boundVars
<1>7. ASSUME NEW t \in Threads, SaveLineFails(t) PROVE EditsAreSaved'
  BY <1>7, ThreadsAssumption DEF IInv, TypeOK, Locking, SaveLineFails, Goto, GotoSave,
       GotoInitialize, Called, Reading, tableVars, fileVars, initVars, threadVars, boundVars
<1>8. ASSUME NEW t \in Threads, SaveClose(t) PROVE EditsAreSaved'
  <2>1. cfg = image
    BY <1>8, ThreadsAssumption DEF SaveClose, Goto, IInv, Locking
  <2>2. file = image
    BY <1>8, <2>1, LenProperties, SeqEqual DEF SaveClose, IInv, TypeOK, Lines
  <2> QED BY <1>8, <2>1, <2>2 DEF SaveClose, tableVars, fileVars
<1>9. ASSUME NEW t \in Threads, ReadFound(t) PROVE EditsAreSaved'
  BY <1>9 DEF IInv, ReadFound, tableVars, fileVars
<1>10. ASSUME NEW t \in Threads, ReadMissing(t) PROVE EditsAreSaved'
  BY <1>10, ThreadsAssumption DEF IInv, TypeOK, Locking, ReadMissing, Goto, GotoSave,
       GotoInitialize, Called, Reading, tableVars, fileVars, initVars, threadVars, boundVars
<1>11. ASSUME NEW t \in Threads, AddDefault(t) PROVE EditsAreSaved'
  BY <1>11, ThreadsAssumption DEF IInv, TypeOK, Locking, AddDefault, Goto, GotoSave,
       GotoInitialize, Called, Reading, tableVars, fileVars, initVars, threadVars, boundVars
<1>12. ASSUME NEW t \in Threads, CopyDefault(t) PROVE EditsAreSaved'
  BY <1>12 DEF IInv, TypeOK, CopyDefault, Goto, GotoSave, GotoInitialize, Called, Reading,
       tableVars, fileVars, initVars, threadVars, boundVars
<1>13. ASSUME NEW t \in Threads, SetupSocket(t) PROVE EditsAreSaved'
  BY <1>13, ThreadsAssumption DEF IInv, TypeOK, Locking, SetupSocket, Goto, GotoSave,
       GotoInitialize, Called, Reading, tableVars, fileVars, initVars, threadVars, boundVars
<1>14. ASSUME NEW t \in Threads, Load(t) PROVE EditsAreSaved'
  BY <1>14 DEF Load
<1>15. ASSUME Crash PROVE EditsAreSaved'
  BY <1>15 DEF Crash
<1>16. CASE UNCHANGED vars
  <2>1. UNCHANGED <<cfg, cfg_max, removed, file, image, failed, failures, settings, late>>
    BY <1>16 DEF vars, tableVars, fileVars, initVars
  <2>2. UNCHANGED <<pc, at, next, calls, crashes, sync, up>>
    BY <1>16 DEF vars, threadVars, boundVars
  <2> QED BY <2>1, <2>2 DEF IInv
<1>17. ASSUME NEW t \in Threads, NEW total \in 0 .. cfg_max, CfgSetTotal(t, total)
       PROVE EditsAreSaved'
  BY <1>17, ThreadsAssumption DEF IInv, TypeOK, Locking, CfgSetTotal, Goto, GotoSave,
       GotoInitialize, Called, Reading, tableVars, fileVars, initVars, threadVars, boundVars
<1> QED BY <1>1, <1>2, <1>3, <1>4, <1>5, <1>6, <1>7, <1>8, <1>9, <1>10, <1>11, <1>12, <1>13, <1>14,
     <1>15, <1>16, <1>17 DEF Next, Save, Initialize

(* Every step that changes a name in the table leaves somebody to read it. *)
LEMMA FollowStep == IInv /\ [Next]_vars => SettingsFollow'
<1> SUFFICES ASSUME IInv, [Next]_vars PROVE SettingsFollow'
  OBVIOUS
<1> USE DEF SettingsFollow
<1>1. ASSUME NEW t \in Threads, NEW n \in Names, NEW v \in Values, CfgAdd(t, n, v)
      PROVE SettingsFollow'
  <2>1. at[t] \in 1 .. Len(Wanted) + 1 /\ 1 \in Nat /\ Len(Wanted) \in Nat
    BY NamesAssumption, LenProperties DEF IInv, TypeOK
  <2>2. at' = [at EXCEPT ![t] = 1] /\ pc'[t] # "idle"
    BY <1>1 DEF CfgAdd, GotoSave, GotoInitialize, IInv, TypeOK
  <2>3. ASSUME NEW k \in DOMAIN Wanted PROVE WillRead(t, Wanted[k])'
    <3>1. k \in 1 .. Len(Wanted) /\ at'[t] = 1
      BY <2>2, NamesAssumption, LenProperties DEF IInv, TypeOK
    <3> QED BY <2>2, <3>1 DEF WillRead
  <2> QED BY <2>3
<1>2. ASSUME NEW t \in Threads, NEW values \in Lists, CfgSet(t, values) PROVE SettingsFollow'
  <2>1. at[t] \in 1 .. Len(Wanted) + 1 /\ 1 \in Nat /\ Len(Wanted) \in Nat
    BY NamesAssumption, LenProperties DEF IInv, TypeOK
  <2>2. at' = [at EXCEPT ![t] = 1] /\ pc'[t] # "idle"
    BY <1>2 DEF CfgSet, GotoSave, GotoInitialize, IInv, TypeOK
  <2>3. ASSUME NEW k \in DOMAIN Wanted PROVE WillRead(t, Wanted[k])'
    <3>1. k \in 1 .. Len(Wanted) /\ at'[t] = 1
      BY <2>2, NamesAssumption, LenProperties DEF IInv, TypeOK
    <3> QED BY <2>2, <3>1 DEF WillRead
  <2> QED BY <2>3
<1>3. ASSUME NEW t \in Threads, NEW n \in Names, CfgDelete(t, n) PROVE SettingsFollow'
  <2>1. at[t] \in 1 .. Len(Wanted) + 1 /\ 1 \in Nat /\ Len(Wanted) \in Nat
    BY NamesAssumption, LenProperties DEF IInv, TypeOK
  <2>2. at' = [at EXCEPT ![t] = 1] /\ pc'[t] # "idle"
    BY <1>3 DEF CfgDelete, GotoSave, GotoInitialize, IInv, TypeOK
  <2>3. ASSUME NEW k \in DOMAIN Wanted PROVE WillRead(t, Wanted[k])'
    <3>1. k \in 1 .. Len(Wanted) /\ at'[t] = 1
      BY <2>2, NamesAssumption, LenProperties DEF IInv, TypeOK
    <3> QED BY <2>2, <3>1 DEF WillRead
  <2> QED BY <2>3
<1>4. ASSUME NEW t \in Threads, SaveOpen(t) PROVE SettingsFollow'
  <2>1. UNCHANGED <<cfg, settings, late, at, up>>
    BY <1>4 DEF SaveOpen, Goto, GotoSave, GotoInitialize, Called, Reading, tableVars, fileVars,
         initVars, threadVars, boundVars
  <2>2. \A u \in Threads : pc[u] # "idle" => pc'[u] # "idle"
    BY <1>4 DEF IInv, TypeOK, Locking, SaveOpen, Goto, GotoSave, GotoInitialize, Called, Reading,
         tableVars, fileVars, initVars, threadVars, boundVars
  <2> QED BY <2>1, <2>2 DEF IInv, WillRead, Search
<1>5. ASSUME NEW t \in Threads, SaveNotOpened(t) PROVE SettingsFollow'
  <2>1. UNCHANGED <<cfg, settings, late, at, up>>
    BY <1>5 DEF SaveNotOpened, Goto, GotoSave, GotoInitialize, Called, Reading, tableVars,
         fileVars, initVars, threadVars, boundVars
  <2>2. \A u \in Threads : pc[u] # "idle" => pc'[u] # "idle"
    BY <1>5 DEF IInv, TypeOK, Locking, SaveNotOpened, Goto, GotoSave, GotoInitialize, Called,
         Reading, tableVars, fileVars, initVars, threadVars, boundVars
  <2> QED BY <2>1, <2>2 DEF IInv, WillRead, Search
<1>6. ASSUME NEW t \in Threads, SaveLine(t) PROVE SettingsFollow'
  <2>1. UNCHANGED <<cfg, settings, late, at, up>>
    BY <1>6 DEF SaveLine, Goto, GotoSave, GotoInitialize, Called, Reading, tableVars, fileVars,
         initVars, threadVars, boundVars
  <2>2. \A u \in Threads : pc[u] # "idle" => pc'[u] # "idle"
    BY <1>6 DEF IInv, TypeOK, Locking, SaveLine, Goto, GotoSave, GotoInitialize, Called, Reading,
         tableVars, fileVars, initVars, threadVars, boundVars
  <2> QED BY <2>1, <2>2 DEF IInv, WillRead, Search
<1>7. ASSUME NEW t \in Threads, SaveLineFails(t) PROVE SettingsFollow'
  <2>1. UNCHANGED <<cfg, settings, late, at, up>>
    BY <1>7 DEF SaveLineFails, Goto, GotoSave, GotoInitialize, Called, Reading, tableVars,
         fileVars, initVars, threadVars, boundVars
  <2>2. \A u \in Threads : pc[u] # "idle" => pc'[u] # "idle"
    BY <1>7 DEF IInv, TypeOK, Locking, SaveLineFails, Goto, GotoSave, GotoInitialize, Called,
         Reading, tableVars, fileVars, initVars, threadVars, boundVars
  <2> QED BY <2>1, <2>2 DEF IInv, WillRead, Search
<1>8. ASSUME NEW t \in Threads, SaveClose(t) PROVE SettingsFollow'
  <2>1. UNCHANGED <<cfg, settings, late, at, up>>
    BY <1>8 DEF SaveClose, Goto, GotoSave, GotoInitialize, Called, Reading, tableVars, fileVars,
         initVars, threadVars, boundVars
  <2>2. \A u \in Threads : pc[u] # "idle" => pc'[u] # "idle"
    BY <1>8 DEF IInv, TypeOK, Locking, SaveClose, Goto, GotoSave, GotoInitialize, Called, Reading,
         tableVars, fileVars, initVars, threadVars, boundVars
  <2> QED BY <2>1, <2>2 DEF IInv, WillRead, Search
<1>9. ASSUME NEW t \in Threads, ReadFound(t) PROVE SettingsFollow'
  <2>1. at[t] \in 1 .. Len(Wanted) /\ Wanted[at[t]] \in Names
    BY <1>9, NamesAssumption, LenProperties, ElementOfSeq DEF ReadFound, Reading, IInv, TypeOK,
         Locking
  <2>2. /\ \A u \in Threads : pc'[u] # "idle" <=> pc[u] # "idle"
        /\ at' = [at EXCEPT ![t] = @ + 1]
        /\ UNCHANGED <<cfg, up>>
    BY <1>9 DEF ReadFound, Goto, GotoSave, GotoInitialize, Called, Reading, tableVars, fileVars,
         initVars, threadVars, boundVars, IInv, TypeOK
  <2>3. SUFFICES ASSUME up # "down", NEW k \in DOMAIN Wanted
                 PROVE  \/ \E i \in Search(Wanted[k])' : cfg'[i].value = settings'[Wanted[k]]
                        \/ Wanted[k] \in late'
                        \/ \E u \in Threads : WillRead(u, Wanted[k])'
    BY <2>2
  <2>4. CASE Wanted[k] = Wanted[at[t]]
    BY <1>9, <2>1, <2>2, <2>4 DEF IInv, TypeOK, ReadFound, Search
  <2>5. CASE Wanted[k] # Wanted[at[t]]
    <3>1. settings'[Wanted[k]] = settings[Wanted[k]] /\ (Wanted[k] \in late => Wanted[k] \in late')
      BY <1>9, <2>1, <2>5 DEF IInv, TypeOK, ReadFound
    <3>2. ASSUME NEW u \in Threads, WillRead(u, Wanted[k]) PROVE WillRead(u, Wanted[k])'
      <4>1. PICK i \in at[u] .. Len(Wanted) : Wanted[i] = Wanted[k]
        BY <3>2 DEF WillRead
      <4>2. i \in at'[u] .. Len(Wanted)
        BY <2>1, <2>2, <2>5, <4>1, NamesAssumption, LenProperties DEF IInv, TypeOK
      <4> QED BY <2>2, <3>2, <4>1, <4>2 DEF WillRead
    <3> QED BY <2>2, <2>3, <3>1, <3>2 DEF IInv, Search
  <2> QED BY <2>4, <2>5
<1>10. ASSUME NEW t \in Threads, ReadMissing(t) PROVE SettingsFollow'
  <2>1. UNCHANGED <<cfg, settings, late, at, up>>
    BY <1>10 DEF ReadMissing, Goto, GotoSave, GotoInitialize, Called, Reading, tableVars, fileVars,
         initVars, threadVars, boundVars
  <2>2. \A u \in Threads : pc[u] # "idle" => pc'[u] # "idle"
    BY <1>10 DEF IInv, TypeOK, Locking, ReadMissing, Goto, GotoSave, GotoInitialize, Called,
         Reading, tableVars, fileVars, initVars, threadVars, boundVars
  <2> QED BY <2>1, <2>2 DEF IInv, WillRead, Search
<1>11. ASSUME NEW t \in Threads, AddDefault(t) PROVE SettingsFollow'
  <2>1. at[t] \in 1 .. Len(Wanted) /\ Wanted[at[t]] \in Names
    BY <1>11, NamesAssumption, LenProperties, ElementOfSeq DEF AddDefault, GotoSave, IInv, TypeOK,
         Locking
  <2>2. Default(Wanted[at[t]]) \in Values
    BY <2>1, ValuesAssumption
  <2>3. \A m, u : m # Wanted[at[t]] /\ Holds(cfg, m, u) => Holds(cfg', m, u)
    BY <1>11, <2>1, <2>2, AddTable DEF AddDefault, IInv, TypeOK
  <2>4. /\ \A u \in Threads : pc'[u] # "idle" <=> pc[u] # "idle"
        /\ pc'[t] # "idle"
        /\ UNCHANGED <<at, settings, late, up>>
    BY <1>11 DEF AddDefault, Goto, GotoSave, GotoInitialize, Called, Reading, tableVars, fileVars,
         initVars, threadVars, boundVars, IInv, TypeOK
  <2>5. SUFFICES ASSUME up # "down", NEW k \in DOMAIN Wanted
                 PROVE  \/ \E i \in Search(Wanted[k])' : cfg'[i].value = settings'[Wanted[k]]
                        \/ Wanted[k] \in late'
                        \/ \E u \in Threads : WillRead(u, Wanted[k])'
    BY <2>4
  <2>6. CASE Wanted[k] = Wanted[at[t]]
    BY <2>1, <2>4, <2>6 DEF WillRead
  <2>7. CASE Wanted[k] # Wanted[at[t]]
    <3>1. Wanted[k] \in Names /\ settings[Wanted[k]] \in Values
      BY NamesAssumption, LenProperties, ElementOfSeq DEF IInv, TypeOK
    <3>2. CASE \E i \in Search(Wanted[k]) : cfg[i].value = settings[Wanted[k]]
      <4>1. Holds(cfg, Wanted[k], settings[Wanted[k]])
        BY <3>2 DEF Search, Holds
      <4>2. Holds(cfg', Wanted[k], settings'[Wanted[k]])
        BY <2>3, <2>4, <2>7, <3>1, <4>1
      <4> QED BY <4>2 DEF Search, Holds
    <3>3. CASE Wanted[k] \in late
      BY <2>4, <3>3
    <3>4. CASE \E u \in Threads : WillRead(u, Wanted[k])
      BY <2>4, <3>4 DEF WillRead
    <3> QED BY <2>5, <3>2, <3>3, <3>4 DEF IInv
  <2> QED BY <2>6, <2>7
<1>12. ASSUME NEW t \in Threads, CopyDefault(t) PROVE SettingsFollow'
  <2>1. at[t] \in 1 .. Len(Wanted) /\ Wanted[at[t]] \in Names
    BY <1>12, NamesAssumption, LenProperties, ElementOfSeq DEF CopyDefault, Reading, IInv, TypeOK,
         Locking
  <2>2. /\ \A u \in Threads : pc'[u] # "idle" <=> pc[u] # "idle"
        /\ at' = [at EXCEPT ![t] = @ + 1]
        /\ UNCHANGED <<cfg, up>>
    BY <1>12 DEF CopyDefault, Goto, GotoSave, GotoInitialize, Called, Reading, tableVars, fileVars,
         initVars, threadVars, boundVars, IInv, TypeOK
  <2>3. SUFFICES ASSUME up # "down", NEW k \in DOMAIN Wanted
                 PROVE  \/ \E i \in Search(Wanted[k])' : cfg'[i].value = settings'[Wanted[k]]
                        \/ Wanted[k] \in late'
                        \/ \E u \in Threads : WillRead(u, Wanted[k])'
    BY <2>2
  <2>4. CASE Wanted[k] = Wanted[at[t]]
    BY <1>12, <2>1, <2>2, <2>4 DEF IInv, TypeOK, CopyDefault, Search
  <2>5. CASE Wanted[k] # Wanted[at[t]]
    <3>1. settings'[Wanted[k]] = settings[Wanted[k]] /\ (Wanted[k] \in late => Wanted[k] \in late')
      BY <1>12, <2>1, <2>5 DEF IInv, TypeOK, CopyDefault
    <3>2. ASSUME NEW u \in Threads, WillRead(u, Wanted[k]) PROVE WillRead(u, Wanted[k])'
      <4>1. PICK i \in at[u] .. Len(Wanted) : Wanted[i] = Wanted[k]
        BY <3>2 DEF WillRead
      <4>2. i \in at'[u] .. Len(Wanted)
        BY <2>1, <2>2, <2>5, <4>1, NamesAssumption, LenProperties DEF IInv, TypeOK
      <4> QED BY <2>2, <3>2, <4>1, <4>2 DEF WillRead
    <3> QED BY <2>2, <2>3, <3>1, <3>2 DEF IInv, Search
  <2> QED BY <2>4, <2>5
<1>13. ASSUME NEW t \in Threads, SetupSocket(t) PROVE SettingsFollow'
  <2>1. up # "down" /\ \A n \in Names : ~WillRead(t, n)
    BY <1>13, NamesAssumption, LenProperties DEF SetupSocket, Goto, IInv, TypeOK, Locking, WillRead
  <2>2. UNCHANGED <<cfg, settings, late, at>> /\ \A u \in Threads : u # t => pc'[u] = pc[u]
    BY <1>13 DEF SetupSocket, Goto, GotoSave, GotoInitialize, Called, Reading, tableVars, fileVars,
         initVars, threadVars, boundVars, IInv, TypeOK
  <2>3. \A k \in DOMAIN Wanted : Wanted[k] \in Names
    BY NamesAssumption, LenProperties, ElementOfSeq
  <2> QED BY <2>1, <2>2, <2>3 DEF IInv, WillRead, Search
<1>14. ASSUME NEW t \in Threads, Load(t) PROVE SettingsFollow'
  <2>1. at[t] \in 1 .. Len(Wanted) + 1 /\ 1 \in Nat /\ Len(Wanted) \in Nat
    BY NamesAssumption, LenProperties DEF IInv, TypeOK
  <2>2. at' = [at EXCEPT ![t] = 1] /\ pc'[t] # "idle"
    BY <1>14 DEF Load, GotoSave, GotoInitialize, IInv, TypeOK
  <2>3. ASSUME NEW k \in DOMAIN Wanted PROVE WillRead(t, Wanted[k])'
    <3>1. k \in 1 .. Len(Wanted) /\ at'[t] = 1
      BY <2>2, NamesAssumption, LenProperties DEF IInv, TypeOK
    <3> QED BY <2>2, <3>1 DEF WillRead
  <2> QED BY <2>3
<1>15. ASSUME Crash PROVE SettingsFollow'
  BY <1>15 DEF Crash
<1>16. CASE UNCHANGED vars
  <2>1. UNCHANGED <<cfg, cfg_max, removed, file, image, failed, failures, settings, late>>
    BY <1>16 DEF vars, tableVars, fileVars, initVars
  <2>2. UNCHANGED <<pc, at, next, calls, crashes, sync, up>>
    BY <1>16 DEF vars, threadVars, boundVars
  <2> QED BY <2>1, <2>2 DEF IInv, WillRead, Search
<1>17. ASSUME NEW t \in Threads, NEW total \in 0 .. cfg_max, CfgSetTotal(t, total)
       PROVE SettingsFollow'
  <2>1. at[t] \in 1 .. Len(Wanted) + 1 /\ 1 \in Nat /\ Len(Wanted) \in Nat
    BY NamesAssumption, LenProperties DEF IInv, TypeOK
  <2>2. at' = [at EXCEPT ![t] = 1] /\ pc'[t] # "idle"
    BY <1>17 DEF CfgSetTotal, GotoSave, GotoInitialize, IInv, TypeOK
  <2>3. ASSUME NEW k \in DOMAIN Wanted PROVE WillRead(t, Wanted[k])'
    <3>1. k \in 1 .. Len(Wanted) /\ at'[t] = 1
      BY <2>2, NamesAssumption, LenProperties DEF IInv, TypeOK
    <3> QED BY <2>2, <3>1 DEF WillRead
  <2> QED BY <2>3
<1> QED BY <1>1, <1>2, <1>3, <1>4, <1>5, <1>6, <1>7, <1>8, <1>9, <1>10, <1>11, <1>12, <1>13, <1>14,
     <1>15, <1>16, <1>17 DEF Next, Save, Initialize

LEMMA Inductive == Spec => []IInv
<1>1. IInv /\ [Next]_vars => IInv'
  BY TypeStep, LockingStep, LinesStep, SavedStep, FollowStep DEF IInv
<1> QED BY InitIInv, <1>1, PTL DEF Spec

-----------------------------------------------------------------------------
(* The table never outgrows the array it is kept in, whatever hooks,       *)
(* failures and restarts happen, and nothing else leaves its type.         *)
THEOREM TypeCorrect == Spec => []TypeOK
<1>1. IInv => TypeOK
  BY DEF IInv
<1> QED BY <1>1, Inductive, PTL

(* Whatever a host or the file has repeated, the plugin itself never gives *)
(* a second entry to a name that has one, although GetString searches for  *)
(* it and adds its default in two sections of m_sync.                      *)
THEOREM NamesEnteredOnce == Spec => NoNameEnteredTwice
<1>1. \A m : OneEntry(m) <=> Once(cfg, m)
  BY DEF OneEntry, Once, Search
<1>2. \A m : OneEntry(m)' <=> Once(cfg', m)
  BY DEF OneEntry, Once, Search
<1>3. ASSUME IInv, OwnEdit PROVE \A m : Once(cfg, m) => Once(cfg', m)
  <2>1. cfg \in Seq(Entry) /\ cfg_max \in Nat /\ Len(cfg) <= cfg_max
    BY <1>3 DEF IInv, TypeOK
  <2>2. ASSUME NEW t \in Threads, AddDefault(t) PROVE \A m : Once(cfg, m) => Once(cfg', m)
    <3>1. at[t] \in 1 .. Len(Wanted) /\ Wanted[at[t]] \in Names
      BY <1>3, <2>2, NamesAssumption, LenProperties, ElementOfSeq DEF AddDefault, GotoSave, IInv,
           TypeOK, Locking
    <3>2. Default(Wanted[at[t]]) \in Values
      BY <3>1, ValuesAssumption
    <3> QED BY <2>1, <2>2, <3>1, <3>2, AddTable DEF AddDefault
  <2>3. ASSUME NEW t \in Threads, NEW n \in Names, CfgDelete(t, n)
        PROVE  \A m : Once(cfg, m) => Once(cfg', m)
    BY <2>1, <2>3, DeleteTable DEF CfgDelete
  <2>4. ASSUME NEW t \in Threads, NEW n \in Names, NEW v \in Values, CfgAdd(t, n, v)
        PROVE  \A m : Once(cfg, m) => Once(cfg', m)
    BY <2>1, <2>4, AddTable DEF CfgAdd
  <2> QED BY <1>3, <2>2, <2>3, <2>4 DEF OwnEdit
<1>4. IInv /\ [Next]_vars => [Doubled => ~OwnEdit]_vars
  BY <1>1, <1>2, <1>3 DEF Doubled
<1> QED BY <1>4, Inductive, PTL DEF Spec, NoNameEnteredTwice

(* No edit is lost between the section that makes it and the Save that     *)
(* writes it, however many hooks are between the two.                      *)
THEOREM EditsReachTheFile == Spec => []EditsAreSaved
<1>1. IInv => EditsAreSaved
  BY DEF IInv
<1> QED BY <1>1, Inductive, PTL

(* Whenever the server dies, it is started again on the beginning of one   *)
(* table that was in memory.                                               *)
THEOREM RestartIsConsistent == Spec => []RestartFindsOneTable
<1>1. IInv => RestartFindsOneTable
  <2> SUFFICES ASSUME IInv PROVE RestartFindsOneTable
    OBVIOUS
  <2>1. PICK l \in Nat : l = Len(file)
    BY LenProperties DEF IInv, TypeOK
  <2>2. PICK m \in Nat : m = Len(image)
    BY LenProperties DEF IInv, TypeOK
  <2>3. l <= m /\ \A i \in 1 .. l : file[i] = image[i]
    BY <2>1, <2>2 DEF IInv, Lines
  <2>4. SubSeq(image, 1, l) \in Seq(Entry) /\ Len(SubSeq(image, 1, l)) = l
          /\ \A i \in 1 .. l : SubSeq(image, 1, l)[i] = image[i]
    BY <2>2, <2>3 DEF IInv, TypeOK
  <2>5. file = SubSeq(image, 1, l)
    BY <2>1, <2>3, <2>4, SeqEqual DEF IInv, TypeOK
  <2> QED BY <2>1, <2>2, <2>3, <2>5 DEF RestartFindsOneTable
<1> QED BY <1>1, Inductive, PTL

(* The members in use agree with the table once the hooks have returned,   *)
(* but for a default copied outside the lock.                              *)
THEOREM SettingsAgree == Spec => []SettingsFollow
<1>1. IInv => SettingsFollow
  BY DEF IInv
<1> QED BY <1>1, Inductive, PTL
=============================================================================
