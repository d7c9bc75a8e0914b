----------------------- MODULE ConnectionPool_proofs -----------------------
(***************************************************************************)
(* Who owns a connection, how many there are, and which of them are given  *)
(* up: for any number of connections, servers, reconfigurations and        *)
(* failures, and any pool sizes but where WithinCap needs a relation.      *)
(***************************************************************************)
EXTENDS ConnectionPool, FiniteSetTheorems, SequenceTheorems, TLAPS

-----------------------------------------------------------------------------
(* Sequences without repetitions, as the pool is one.                      *)

LEMMA TailPool ==
  ASSUME NEW s \in Seq(Conns), s # <<>>, IsInjective(s)
  PROVE  /\ Tail(s) \in Seq(Conns) /\ IsInjective(Tail(s))
         /\ Head(s) \in ToSet(s) /\ Head(s) \in Conns
         /\ ToSet(Tail(s)) = ToSet(s) \ {Head(s)}
         /\ Len(Tail(s)) = Len(s) - 1
<1>1. /\ Head(s) \in Conns /\ Tail(s) \in Seq(Conns) /\ Len(Tail(s)) = Len(s) - 1
      /\ \A i \in 1 .. Len(Tail(s)) : Tail(s)[i] = s[i + 1]
  BY HeadTailProperties
<1>2. Len(s) \in Nat \ {0} /\ DOMAIN s = 1 .. Len(s) /\ Head(s) = s[1]
  BY LenProperties, EmptySeq
<1>3. DOMAIN Tail(s) = 1 .. Len(s) - 1
  BY <1>1, LenProperties
<1>4. IsInjective(Tail(s))
  BY <1>1, <1>2, <1>3 DEF IsInjective
<1>5. Head(s) \in ToSet(s)
  BY <1>2 DEF ToSet
<1>6. ASSUME NEW x \in ToSet(Tail(s)) PROVE x \in ToSet(s) \ {Head(s)}
  <2>1. PICK i \in 1 .. Len(s) - 1 : x = s[i + 1]
    BY <1>1, <1>3 DEF ToSet
  <2>2. s[i + 1] # s[1]
    BY <1>2 DEF IsInjective
  <2> QED BY <1>2, <2>1, <2>2 DEF ToSet
<1>7. ASSUME NEW x \in ToSet(s) \ {Head(s)} PROVE x \in ToSet(Tail(s))
  <2>1. PICK i \in 1 .. Len(s) : x = s[i]
    BY <1>2 DEF ToSet
  <2>2. i # 1
    BY <1>2, <2>1
  <2>3. i - 1 \in 1 .. Len(s) - 1 /\ Tail(s)[i - 1] = x
    BY <1>1, <1>2, <2>1, <2>2
  <2> QED BY <1>3, <2>3 DEF ToSet
<1> QED BY <1>1, <1>4, <1>5, <1>6, <1>7

LEMMA JoinPool ==
  ASSUME NEW s \in Seq(Conns), NEW t \in Seq(Conns), IsInjective(s), IsInjective(t),
         ToSet(s) \cap ToSet(t) = {}
  PROVE  /\ s \o t \in Seq(Conns) /\ IsInjective(s \o t)
         /\ ToSet(s \o t) = ToSet(s) \cup ToSet(t)
         /\ Len(s \o t) = Len(s) + Len(t)
<1> DEFINE u == s \o t
<1>1. /\ u \in Seq(Conns) /\ Len(u) = Len(s) + Len(t)
      /\ \A i \in 1 .. Len(s) + Len(t) : u[i] = IF i <= Len(s) THEN s[i] ELSE t[i - Len(s)]
  BY ConcatProperties
<1>2. /\ Len(s) \in Nat /\ DOMAIN s = 1 .. Len(s) /\ Len(t) \in Nat /\ DOMAIN t = 1 .. Len(t)
      /\ DOMAIN u = 1 .. Len(s) + Len(t)
  BY <1>1, LenProperties
<1> HIDE DEF u
<1>3. ASSUME NEW i \in DOMAIN u
      PROVE  \/ i \in DOMAIN s /\ u[i] = s[i] /\ u[i] \in ToSet(s)
             \/ i - Len(s) \in DOMAIN t /\ u[i] = t[i - Len(s)] /\ u[i] \in ToSet(t)
                /\ i \notin DOMAIN s
  <2>1. CASE i <= Len(s)
    <3>1. i \in DOMAIN s /\ u[i] = s[i]
      BY <1>1, <1>2, <2>1
    <3> QED BY <3>1 DEF ToSet
  <2>2. CASE ~(i <= Len(s))
    <3>1. i - Len(s) \in DOMAIN t /\ u[i] = t[i - Len(s)] /\ i \notin DOMAIN s
      BY <1>1, <1>2, <2>2
    <3> QED BY <3>1 DEF ToSet
  <2> QED BY <2>1, <2>2
<1>4. IsInjective(u)
  <2> SUFFICES ASSUME NEW a \in DOMAIN u, NEW b \in DOMAIN u, u[a] = u[b] PROVE a = b
    BY DEF IsInjective
  <2>1. CASE a \in DOMAIN s /\ b \in DOMAIN s
    BY <1>3, <2>1 DEF IsInjective
  <2>2. CASE a \notin DOMAIN s /\ b \notin DOMAIN s
    <3>1. a - Len(s) = b - Len(s)
      BY <1>3, <2>2 DEF IsInjective
    <3> QED BY <1>2, <3>1
  <2>3. (a \in DOMAIN s) <=> (b \in DOMAIN s)
    BY <1>3
  <2> QED BY <2>1, <2>2, <2>3
<1>5. ToSet(u) \subseteq ToSet(s) \cup ToSet(t)
  BY <1>3 DEF ToSet
<1>6. ASSUME NEW i \in DOMAIN s PROVE s[i] \in ToSet(u)
  <2>1. i \in DOMAIN u /\ u[i] = s[i]
    BY <1>1, <1>2
  <2> QED BY <2>1 DEF ToSet
<1>7. ASSUME NEW i \in DOMAIN t PROVE t[i] \in ToSet(u)
  <2>1. i + Len(s) \in DOMAIN u /\ u[i + Len(s)] = t[i]
    BY <1>1, <1>2
  <2> QED BY <2>1 DEF ToSet
<1>8. ToSet(s) \cup ToSet(t) \subseteq ToSet(u)
  BY <1>6, <1>7 DEF ToSet
<1> QED BY <1>1, <1>4, <1>5, <1>8 DEF u

LEMMA PushPool ==
  ASSUME NEW s \in Seq(Conns), NEW c \in Conns, IsInjective(s), c \notin ToSet(s)
  PROVE  /\ Append(s, c) \in Seq(Conns) /\ IsInjective(Append(s, c))
         /\ ToSet(Append(s, c)) = ToSet(s) \cup {c}
         /\ Len(Append(s, c)) = Len(s) + 1
<1>1. Append(s, c) = s \o <<c>>
  BY AppendIsConcat
<1> DEFINE one == <<c>>
<1>2. one \in Seq(Conns) /\ Len(one) = 1 /\ one[1] = c
  OBVIOUS
<1> HIDE DEF one
<1>3. DOMAIN one = {1}
  BY <1>2, LenProperties
<1>4. IsInjective(one) /\ ToSet(one) = {c}
  <2>1. IsInjective(one)
    BY <1>3 DEF IsInjective
  <2>2. \A x : x \in ToSet(one) <=> x = c
    BY <1>2, <1>3 DEF ToSet
  <2> QED BY <2>1, <2>2
<1>5. ToSet(s) \cap ToSet(one) = {}
  BY <1>4
<1>6. /\ s \o one \in Seq(Conns) /\ IsInjective(s \o one)
      /\ ToSet(s \o one) = ToSet(s) \cup ToSet(one)
      /\ Len(s \o one) = Len(s) + Len(one)
  BY <1>2, <1>4, <1>5, JoinPool
<1>7. Append(s, c) = s \o one
  BY <1>1 DEF one
<1> QED BY <1>2, <1>4, <1>6, <1>7

LEMMA EmptyPool == IsInjective(<<>>) /\ ToSet(<<>>) = {} /\ Len(<<>>) = 0
  BY DEF IsInjective, ToSet

LEMMA PoolSize ==
  ASSUME NEW s \in Seq(Conns)
  PROVE  IsFiniteSet(ToSet(s)) /\ Cardinality(ToSet(s)) <= Len(s)
<1>1. Len(s) \in Nat /\ DOMAIN s = 1 .. Len(s) /\ s \in [1 .. Len(s) -> Conns]
  BY LenProperties
<1>2. IsFiniteSet(1 .. Len(s)) /\ Cardinality(1 .. Len(s)) = Len(s)
  BY <1>1, FS_Interval
<1>3. s \in Surjection(1 .. Len(s), ToSet(s))
  BY <1>1 DEF Surjection, ToSet
<1> QED BY <1>1, <1>2, <1>3, FS_Surjection

-----------------------------------------------------------------------------
(* Where the threads are.  m_ContextLock is held by the thread that is     *)
(* inside a round, and a connection is borrowed only within one.           *)

Positions ==
  /\ pc["host"] \in {"idle", "checkParams", "setParams", "initPool", "destroy", "fill"}
  /\ pc["check"] \in {"idle", "get", "count", "beat", "ask", "release", "size", "renew", "sleep"}
  /\ pc["func"] \in {"idle", "get", "release", "sleep"}
  /\ \A w \in Workers : pc[w] # "idle" => procLock = w
  /\ \A w \in Workers : held[w] # NoConn => pc[w] \in {"count", "beat", "ask", "release"}
  /\ pc["check"] \in {"count", "beat", "ask", "release"} => held["check"] # NoConn

(* A heartbeat counter above zero means an unanswered request, but for the *)
(* moment between ++ and sending the next one.                             *)
Unanswered ==
  \A c \in Conns : conn[c].heart_count > 0 =>
    conn[c].asked \/ (held["check"] = c /\ pc["check"] = "ask")

ConnType == [to : Settings, status : Statuses,
             heart_count : 0 .. MAX_BEAT_HEART_COUNT + 1, asked : BOOLEAN]

LEMMA Typed ==
  TypeOK <=>
    /\ params \in Settings /\ target \in Settings /\ pool \in Seq(Conns)
    /\ current_size \in Int /\ conn \in [Conns -> ConnType] /\ made \in BOOLEAN
    /\ pc \in [Threads -> {"idle", "get", "count", "beat", "ask", "release", "size", "renew",
                           "sleep", "checkParams", "setParams", "initPool", "destroy", "fill"}]
    /\ held \in [Workers -> Conns \cup {NoConn}] /\ beat \in 0 .. MAX_BEAT_HEART_COUNT
    /\ procLock \in Workers \cup {Free} /\ reconfigs \in Nat /\ failures \in Nat
  BY DEF TypeOK, ConnType

LEMMA ObjectTyped ==
  ASSUME NEW to \in Settings, NEW status \in Statuses,
         NEW n \in 0 .. MAX_BEAT_HEART_COUNT + 1, NEW asked \in BOOLEAN
  PROVE  /\ MyIOCP(to, status, n, asked) \in ConnType
         /\ MyIOCP(to, status, n, asked).to = to
         /\ MyIOCP(to, status, n, asked).status = status
         /\ MyIOCP(to, status, n, asked).heart_count = n
         /\ MyIOCP(to, status, n, asked).asked = asked
  BY DEF MyIOCP, ConnType

LEMMA NewTyped ==
  /\ Deleted \in ConnType /\ Deleted.status = "deleted"
  /\ Deleted.heart_count = 0 /\ Deleted.asked = FALSE
  /\ \A s \in Settings : /\ Fresh(s) \in ConnType /\ Fresh(s).status = "connecting"
                         /\ Fresh(s).to = s /\ Fresh(s).heart_count = 0
<1>1. Blank \in Settings /\ "deleted" \in Statuses /\ "connecting" \in Statuses
  BY DEF Settings, Statuses
<1>2. 0 \in 0 .. MAX_BEAT_HEART_COUNT + 1 /\ FALSE \in BOOLEAN
  BY SizesAssumption
<1>3. /\ Deleted \in ConnType /\ Deleted.status = "deleted"
      /\ Deleted.heart_count = 0 /\ Deleted.asked = FALSE
  BY <1>1, <1>2 DEF Deleted, MyIOCP, ConnType
<1>4. ASSUME NEW s \in Settings
      PROVE  /\ Fresh(s) \in ConnType /\ Fresh(s).status = "connecting"
             /\ Fresh(s).to = s /\ Fresh(s).heart_count = 0
  BY <1>1, <1>2 DEF Fresh, MyIOCP, ConnType
<1> QED BY <1>3, <1>4

LEMMA BecomeTyped ==
  ASSUME TypeOK, NEW c \in Conns, NEW status \in Statuses,
         NEW n \in 0 .. MAX_BEAT_HEART_COUNT + 1, NEW asked \in BOOLEAN,
         Become(c, status, n, asked)
  PROVE  /\ conn' \in [Conns -> ConnType]
         /\ \A d \in Conns : d # c => conn'[d] = conn[d]
         /\ conn'[c].to = conn[c].to /\ conn'[c].status = status
         /\ conn'[c].heart_count = n /\ conn'[c].asked = asked
<1>1. conn \in [Conns -> ConnType] /\ conn[c].to \in Settings
  BY Typed DEF ConnType
<1> DEFINE o == MyIOCP(conn[c].to, status, n, asked)
<1>2. /\ o \in ConnType /\ o.to = conn[c].to /\ o.status = status
      /\ o.heart_count = n /\ o.asked = asked
  BY <1>1, ObjectTyped
<1>3. conn' = [conn EXCEPT ![c] = o]
  BY DEF Become
<1> HIDE DEF o
<1>4. conn' \in [Conns -> ConnType] /\ conn'[c] = o /\ \A d \in Conns : d # c => conn'[d] = conn[d]
  BY <1>1, <1>2, <1>3
<1> QED BY <1>2, <1>4

LEMMA ConnFields ==
  ASSUME TypeOK, NEW c \in Conns
  PROVE  /\ conn[c].to \in Settings /\ conn[c].status \in Statuses
         /\ conn[c].heart_count \in 0 .. MAX_BEAT_HEART_COUNT + 1 /\ conn[c].asked \in BOOLEAN
         /\ conn[c].heart_count \in Int
  BY Typed, SizesAssumption DEF ConnType

LEMMA Deletes ==
  ASSUME TypeOK, NEW gone \in SUBSET Conns, Delete(gone)
  PROVE  /\ conn' \in [Conns -> ConnType]
         /\ Alive' = Alive \ gone
         /\ \A c \in Conns : conn'[c] = conn[c] \/ conn'[c] = Deleted
<1>1. conn \in [Conns -> ConnType]
  BY Typed
<1>2. \A c \in Conns : conn'[c] = IF c \in gone THEN Deleted ELSE conn[c]
  BY DEF Delete
<1>3. conn' \in [Conns -> ConnType]
  BY <1>1, NewTyped DEF Delete
<1> QED BY <1>2, <1>3, NewTyped DEF Alive

(* CreateConnection: what is there afterwards, and what it is like.        *)
LEMMA Creates ==
  ASSUME TypeOK, NEW c \in Conns \cup {NoConn}, NEW gone \in SUBSET Conns,
         CreateConnection(c, gone)
  PROVE  /\ conn' \in [Conns -> ConnType] /\ failures' \in Nat
         /\ Alive' = (Alive \ gone) \cup ({c} \ {NoConn})
         /\ c \notin Alive \ gone
         /\ \A d \in Conns : conn'[d] \in {conn[d], Deleted, Fresh(params)}
<1>1. conn \in [Conns -> ConnType] /\ failures \in Nat /\ params \in Settings
  BY Typed
<1> DEFINE rest == [d \in Conns |-> IF d \in gone THEN Deleted ELSE conn[d]]
<1>2. /\ rest \in [Conns -> ConnType]
      /\ \A d \in Conns : rest[d] = IF d \in gone THEN Deleted ELSE conn[d]
  BY <1>1, NewTyped
<1>3. {d \in Conns : rest[d].status # "deleted"} = Alive \ gone
  BY <1>2, NewTyped DEF Alive
<1>4. \/ c = NoConn /\ failures' = failures + 1 /\ conn' = rest
      \/ c \in Conns /\ rest[c] = Deleted /\ failures' = failures
         /\ conn' = [rest EXCEPT ![c] = Fresh(params)]
  BY Zenon DEF CreateConnection
<1> HIDE DEF rest
<1>5. CASE c = NoConn /\ failures' = failures + 1 /\ conn' = rest
  <2>1. Alive' = Alive \ gone
    BY <1>3, <1>5 DEF Alive
  <2>2. c \notin Alive
    BY <1>5, IdsAssumption DEF Alive
  <2> QED BY <1>1, <1>2, <1>5, <2>1, <2>2
<1>6. CASE c \in Conns /\ rest[c] = Deleted /\ failures' = failures
           /\ conn' = [rest EXCEPT ![c] = Fresh(params)]
  <2>1. conn' \in [Conns -> ConnType] /\ conn'[c] = Fresh(params)
        /\ \A d \in Conns : d # c => conn'[d] = rest[d]
    BY <1>1, <1>2, <1>6, NewTyped
  <2>2. c \notin Alive \ gone
    BY <1>3, <1>6, NewTyped
  <2>3. Alive' = {d \in Conns : rest[d].status # "deleted"} \cup {c}
    BY <1>1, <1>6, <2>1, NewTyped DEF Alive
  <2> QED BY <1>1, <1>2, <1>3, <1>6, <2>1, <2>2, <2>3, IdsAssumption
<1> QED BY <1>4, <1>5, <1>6

(* The loop of initPool. *)
LEMMA Fills ==
  ASSUME TypeOK, FillPool
  PROVE  \E n \in 0 .. MAN_POOL_SIZE_INIT : \E fresh \in Seq(Conns) :
           /\ IsInjective(fresh) /\ Len(fresh) = n /\ ToSet(fresh) \cap Alive = {}
           /\ ToSet(fresh) \subseteq Conns
           /\ pool' = pool \o fresh /\ current_size' = current_size + n
           /\ failures' \in Nat /\ conn' \in [Conns -> ConnType]
           /\ Alive' = Alive \cup ToSet(fresh)
           /\ \A d \in Conns : conn'[d] \in {conn[d], Deleted, Fresh(params)}
<1>1. PICK n \in 0 .. MAN_POOL_SIZE_INIT : \E fresh \in [1 .. n -> Conns \ Alive] :
        /\ IsInjective(fresh)
        /\ failures' = failures + (MAN_POOL_SIZE_INIT - n)
        /\ conn' = [c \in Conns |-> IF c \in ToSet(fresh) THEN Fresh(params) ELSE conn[c]]
        /\ pool' = pool \o fresh
        /\ current_size' = current_size + n
  BY Zenon DEF FillPool
<1>2. PICK fresh \in [1 .. n -> Conns \ Alive] :
        /\ IsInjective(fresh)
        /\ failures' = failures + (MAN_POOL_SIZE_INIT - n)
        /\ conn' = [c \in Conns |-> IF c \in ToSet(fresh) THEN Fresh(params) ELSE conn[c]]
        /\ pool' = pool \o fresh
        /\ current_size' = current_size + n
  BY <1>1
<1>3. n \in Nat /\ MAN_POOL_SIZE_INIT \in Nat /\ failures' \in Nat
  BY <1>2, SizesAssumption, Typed
<1>4. fresh \in Seq(Conns) /\ Len(fresh) = n /\ DOMAIN fresh = 1 .. n
  BY <1>3
<1>5. ToSet(fresh) \cap Alive = {} /\ ToSet(fresh) \subseteq Conns
  BY <1>4 DEF ToSet
<1>6. conn \in [Conns -> ConnType] /\ Fresh(params) \in ConnType
      /\ Fresh(params).status # "deleted"
  BY Typed, NewTyped
<1>7. conn' \in [Conns -> ConnType]
      /\ \A c \in Conns : conn'[c] = IF c \in ToSet(fresh) THEN Fresh(params) ELSE conn[c]
  BY <1>2, <1>6
<1>8. Alive' = Alive \cup ToSet(fresh)
  BY <1>5, <1>6, <1>7 DEF Alive
<1> QED BY <1>2, <1>3, <1>4, <1>5, <1>7, <1>8

-----------------------------------------------------------------------------
(* The types and the positions. *)

Places == {"idle", "get", "count", "beat", "ask", "release", "size", "renew",
           "sleep", "checkParams", "setParams", "initPool", "destroy", "fill"}

LEMMA Alone ==
  ASSUME TypeOK, Positions, NEW w \in Workers, pc[w] # "idle"
  PROVE  \A v \in Workers : v # w => pc[v] = "idle" /\ held[v] = NoConn
  BY DEF Positions

(* Within GetConnection nobody else has a connection, nor the caller one.  *)
LEMMA NobodyBorrows ==
  ASSUME TypeOK, Positions, NEW w \in Workers, pc[w] \in {"get", "size", "renew", "sleep"}
  PROVE  Borrowed = {}
  BY Alone DEF Positions, Borrowed

LEMMA OneBorrows ==
  ASSUME TypeOK, Positions, NEW w \in Workers, pc[w] # "idle"
  PROVE  Borrowed = {held[w]} \ {NoConn}
  BY Alone DEF Borrowed

First == IF pool = <<>> THEN {} ELSE {Head(pool)}

(* What GetConnection gives thread w, and what becomes of the rest. *)
LEMMA Gets ==
  ASSUME TypeOK, OneOwner, NEW w \in Workers, GetConnection(w)
  PROVE  \E c \in Conns \cup {NoConn} :
           /\ held' = [held EXCEPT ![w] = c] /\ params' = params
           /\ conn' \in [Conns -> ConnType] /\ failures' \in Nat /\ current_size' \in Int
           /\ \A d \in Conns : conn'[d] \in {conn[d], Deleted, Fresh(params)}
           /\ pool' = IF pool = <<>> THEN pool ELSE Tail(pool)
           /\ Alive' = (Alive \ First) \cup ({c} \ {NoConn})
           /\ c \notin Alive \ First
<1>0. pool \in Seq(Conns) /\ current_size \in Int /\ conn \in [Conns -> ConnType] /\ failures \in Nat
  BY Typed
<1>1. PICK c \in Conns \cup {NoConn} :
        /\ TakeConnected(c) \/ ReplaceDisconnected(c) \/ OpenAnother(c) \/ Refuse(c)
        /\ held' = [held EXCEPT ![w] = c]
        /\ params' = params
  BY DEF GetConnection
<1>2. pool # <<>> => Head(pool) \in Conns /\ Head(pool) \in Alive
  BY <1>0, TailPool DEF OneOwner, Pooled
<1>3. CASE TakeConnected(c)
  <2>1. pool # <<>> /\ c = Head(pool) /\ pool' = Tail(pool) /\ UNCHANGED <<current_size, conn, failures>>
    BY <1>3 DEF TakeConnected
  <2>2. Alive' = Alive
    BY <2>1 DEF Alive
  <2>3. First = {c} /\ c \in Alive /\ c # NoConn
    BY <1>2, <2>1, IdsAssumption DEF First
  <2> QED BY <1>0, <1>1, <2>1, <2>2, <2>3
<1>4. CASE ReplaceDisconnected(c)
  <2>1. pool # <<>> /\ CreateConnection(c, {Head(pool)}) /\ pool' = Tail(pool) /\ current_size' \in Int
    BY <1>0, <1>4 DEF ReplaceDisconnected
  <2>2. /\ conn' \in [Conns -> ConnType] /\ failures' \in Nat
        /\ Alive' = (Alive \ {Head(pool)}) \cup ({c} \ {NoConn})
        /\ c \notin Alive \ {Head(pool)}
        /\ \A d \in Conns : conn'[d] \in {conn[d], Deleted, Fresh(params)}
    BY <1>2, <2>1, Creates
  <2> QED BY <1>1, <2>1, <2>2 DEF First
<1>5. CASE OpenAnother(c)
  <2>1. pool = <<>> /\ CreateConnection(c, {}) /\ pool' = pool /\ current_size' \in Int
    BY <1>0, <1>5 DEF OpenAnother
  <2>2. /\ conn' \in [Conns -> ConnType] /\ failures' \in Nat
        /\ Alive' = (Alive \ {}) \cup ({c} \ {NoConn})
        /\ c \notin Alive \ {}
        /\ \A d \in Conns : conn'[d] \in {conn[d], Deleted, Fresh(params)}
    BY <2>1, Creates
  <2> QED BY <1>1, <2>1, <2>2 DEF First
<1>6. CASE Refuse(c)
  <2>1. pool = <<>> /\ c = NoConn /\ UNCHANGED <<pool, current_size, conn, failures>>
    BY <1>6 DEF Refuse
  <2>2. Alive' = Alive /\ c \notin Alive
    BY <2>1, IdsAssumption DEF Alive
  <2> QED BY <1>0, <1>1, <2>1, <2>2 DEF First
<1> QED BY <1>1, <1>3, <1>4, <1>5, <1>6

LEMMA Releases ==
  ASSUME TypeOK, NEW w \in Workers, ReleaseConnection(w)
  PROVE  /\ held' = [held EXCEPT ![w] = NoConn]
         /\ params' = params /\ conn' = conn /\ failures' = failures /\ current_size' \in Int
         /\ pool' = IF held[w] = NoConn THEN pool ELSE Append(pool, held[w])
         /\ pool' \in Seq(Conns)
<1>1. /\ pool \in Seq(Conns) /\ current_size \in Int /\ held \in [Workers -> Conns \cup {NoConn}]
      /\ NoConn \notin Conns
  BY Typed, IdsAssumption
<1>2. CASE held[w] = NoConn
  BY <1>1, <1>2 DEF ReleaseConnection
<1>3. CASE held[w] # NoConn
  <2>1. Append(pool, held[w]) \in Seq(Conns)
    BY <1>1, <1>3, AppendProperties
  <2> QED BY <1>1, <1>3, <2>1 DEF ReleaseConnection
<1> QED BY <1>2, <1>3

(* The status changes of a connection keep its settings and its life. *)
Same(c) ==
  conn'[c].to = conn[c].to /\ (conn'[c].status = "deleted" <=> conn[c].status = "deleted")

SameHeart(c) == conn'[c].heart_count = conn[c].heart_count /\ conn'[c].asked = conn[c].asked

NetworkStep(c) ==
  Connected(c) \/ ConnectFailed(c) \/ Disconnected(c) \/ PeerClosed(c) \/ Answered(c)

LEMMA NetworkKeeps ==
  ASSUME TypeOK, NEW c \in Conns, NetworkStep(c)
  PROVE  /\ conn' \in [Conns -> ConnType] /\ \A d \in Conns : Same(d)
         /\ UNCHANGED <<params, pool, current_size, failures, hostVars, pc, held, beat, procLock>>
         /\ \A d \in Conns : conn'[d].heart_count = 0 \/ SameHeart(d)
<1>1. /\ conn[c].status \in Statuses /\ conn[c].heart_count \in 0 .. MAX_BEAT_HEART_COUNT + 1
      /\ conn[c].asked \in BOOLEAN
  BY ConnFields
<1>2. ASSUME NEW from \in Statuses \ {"deleted"}, NEW to \in Statuses \ {"deleted"}, StatusStep(c, from, to)
      PROVE  /\ conn' \in [Conns -> ConnType] /\ \A d \in Conns : Same(d)
             /\ \A d \in Conns : SameHeart(d)
             /\ UNCHANGED <<params, pool, current_size, failures, hostVars, pc, held, beat, procLock>>
  <2>1. /\ Become(c, to, conn[c].heart_count, conn[c].asked) /\ conn[c].status # "deleted"
        /\ UNCHANGED <<params, pool, current_size, failures, hostVars, pc, held, beat, procLock>>
    BY <1>2 DEF StatusStep
  <2>2. /\ conn' \in [Conns -> ConnType] /\ \A d \in Conns : d # c => conn'[d] = conn[d]
        /\ conn'[c].to = conn[c].to /\ conn'[c].status = to
        /\ conn'[c].heart_count = conn[c].heart_count /\ conn'[c].asked = conn[c].asked
    BY <1>1, <2>1, BecomeTyped
  <2>3. \A d \in Conns : Same(d)
    BY <2>1, <2>2 DEF Same
  <2>4. \A d \in Conns : SameHeart(d)
    BY <2>2 DEF SameHeart
  <2> QED BY <2>1, <2>2, <2>3, <2>4
<1>3. CASE Answered(c)
  <2>1. /\ Become(c, "connected", 0, FALSE) /\ conn[c].status = "connected"
        /\ UNCHANGED <<params, pool, current_size, failures, hostVars, pc, held, beat, procLock>>
    BY <1>3 DEF Answered
  <2>2. "connected" \in Statuses /\ 0 \in 0 .. MAX_BEAT_HEART_COUNT + 1 /\ FALSE \in BOOLEAN
    BY SizesAssumption DEF Statuses
  <2>3. /\ conn' \in [Conns -> ConnType] /\ \A d \in Conns : d # c => conn'[d] = conn[d]
        /\ conn'[c].to = conn[c].to /\ conn'[c].status = "connected" /\ conn'[c].heart_count = 0
    BY <2>1, <2>2, BecomeTyped
  <2>4. \A d \in Conns : Same(d)
    BY <2>1, <2>3 DEF Same
  <2>5. \A d \in Conns : conn'[d].heart_count = 0 \/ SameHeart(d)
    <3> SUFFICES ASSUME NEW d \in Conns, d # c PROVE SameHeart(d)
      BY <2>3
    <3>1. conn'[d] = conn[d]
      BY <2>3
    <3> QED BY <3>1, Zenon DEF SameHeart
  <2> QED BY <2>1, <2>3, <2>4, <2>5
<1>4. \/ StatusStep(c, "connecting", "connected") \/ StatusStep(c, "connecting", "closed")
      \/ StatusStep(c, "connected", "closed") \/ StatusStep(c, "connected", "zombie") \/ Answered(c)
  BY DEF NetworkStep, Connected, ConnectFailed, Disconnected, PeerClosed
<1>5. {"connecting", "connected", "closed", "zombie"} \subseteq Statuses \ {"deleted"}
  BY DEF Statuses
<1> QED BY <1>2, <1>3, <1>4, <1>5

(* So do the heartbeat and the ping. *)
LEMMA PingKeeps ==
  ASSUME TypeOK, Positions, CheckBeat \/ CheckAsk
  PROVE  /\ conn' \in [Conns -> ConnType] /\ \A d \in Conns : Same(d)
         /\ held["check"] \in Conns
         /\ \A d \in Conns : d # held["check"] => conn'[d] = conn[d]
         /\ CheckAsk => conn'[held["check"]].asked = TRUE
<1>1. held["check"] \in Conns /\ beat + 1 \in 0 .. MAX_BEAT_HEART_COUNT + 1
  <2>1. held["check"] \in Conns
    BY Typed DEF Positions, CheckBeat, CheckAsk, Goto, Workers
  <2>2. beat \in 0 .. MAX_BEAT_HEART_COUNT /\ MAX_BEAT_HEART_COUNT \in Nat
    BY Typed, SizesAssumption
  <2> QED BY <2>1, <2>2
<1> DEFINE c == held["check"]
<1>2. /\ conn[c].status \in Statuses /\ conn[c].heart_count \in 0 .. MAX_BEAT_HEART_COUNT + 1
      /\ conn[c].asked \in BOOLEAN /\ TRUE \in BOOLEAN
  BY <1>1, ConnFields
<1>3. CASE CheckBeat
  <2>1. Become(c, conn[c].status, beat + 1, conn[c].asked)
    BY <1>3 DEF CheckBeat
  <2>2. /\ conn' \in [Conns -> ConnType] /\ \A d \in Conns : d # c => conn'[d] = conn[d]
        /\ conn'[c].to = conn[c].to /\ conn'[c].status = conn[c].status
    BY <1>1, <1>2, <2>1, BecomeTyped
  <2>3. ~CheckAsk
    BY <1>3 DEF CheckBeat, CheckAsk, Goto
  <2> QED BY <1>1, <2>2, <2>3 DEF Same
<1>4. CASE CheckAsk
  <2>1. Become(c, conn[c].status, conn[c].heart_count, TRUE)
    BY <1>4 DEF CheckAsk
  <2>2. /\ conn' \in [Conns -> ConnType] /\ \A d \in Conns : d # c => conn'[d] = conn[d]
        /\ conn'[c].to = conn[c].to /\ conn'[c].status = conn[c].status
    BY <1>1, <1>2, <2>1, BecomeTyped
  <2>3. conn'[c] = MyIOCP(conn[c].to, conn[c].status, conn[c].heart_count, TRUE)
    BY <1>1, <2>1, Typed DEF Become
  <2>4. conn'[c].asked = TRUE
    BY <2>3 DEF MyIOCP
  <2> QED BY <1>1, <2>2, <2>4 DEF Same
<1> QED BY <1>3, <1>4

-----------------------------------------------------------------------------
(* Owners, and how many connections they have.  Two threads never borrow   *)
(* at once (Positions), so a second borrower needs no attention.           *)

Owned ==
  /\ pool \in Seq(Conns) /\ conn \in [Conns -> ConnType]
  /\ IsInjective(pool) /\ Pooled \cap Borrowed = {} /\ Alive = Pooled \cup Borrowed

Size == Len(pool) + (IF Borrowed = {} THEN 0 ELSE 1)

LEMMA OwnedNow == TypeOK /\ OneOwner => Owned /\ Len(pool) \in Nat /\ Size \in Nat
<1> SUFFICES ASSUME TypeOK, OneOwner PROVE Owned /\ Len(pool) \in Nat /\ Size \in Nat
  OBVIOUS
<1>1. pool \in Seq(Conns) /\ conn \in [Conns -> ConnType]
  BY Typed
<1>2. Len(pool) \in Nat
  BY <1>1, LenProperties
<1> QED BY <1>1, <1>2 DEF OneOwner, Owned, Size

LEMMA KeptOwned ==
  ASSUME TypeOK, OneOwner, pool' = pool, held' = held, \A c \in Conns : Same(c),
         conn' \in [Conns -> ConnType]
  PROVE  Owned' /\ Size' = Size
<1>1. Borrowed' = Borrowed /\ Pooled' = Pooled /\ Alive' = Alive
  BY DEF Borrowed, Pooled, Alive, Same
<1> QED BY <1>1, OwnedNow DEF Owned, Size

LEMMA GetOwned ==
  ASSUME TypeOK, Positions, OneOwner, NEW w \in Workers, pc[w] = "get", GetConnection(w)
  PROVE  /\ Owned' /\ (Size' <= Size \/ Size' <= 1)
         /\ held' \in [Workers -> Conns \cup {NoConn}] /\ \A v \in Workers : v # w => held'[v] = held[v]
         /\ params' = params /\ failures' \in Nat /\ current_size' \in Int
         /\ \A d \in Conns : conn'[d] \in {conn[d], Deleted, Fresh(params)}
<1>0. Borrowed = {} /\ \A v \in Workers : held[v] = NoConn
  BY NobodyBorrows, Alone DEF Positions
<1>1. PICK c \in Conns \cup {NoConn} :
        /\ held' = [held EXCEPT ![w] = c] /\ params' = params
        /\ conn' \in [Conns -> ConnType] /\ failures' \in Nat /\ current_size' \in Int
        /\ \A d \in Conns : conn'[d] \in {conn[d], Deleted, Fresh(params)}
        /\ pool' = IF pool = <<>> THEN pool ELSE Tail(pool)
        /\ Alive' = (Alive \ First) \cup ({c} \ {NoConn})
        /\ c \notin Alive \ First
  BY Gets
<1>2. /\ held \in [Workers -> Conns \cup {NoConn}] /\ pool \in Seq(Conns) /\ IsInjective(pool)
      /\ Alive = Pooled /\ Len(pool) \in Nat
  BY <1>0, Typed, OwnedNow DEF Owned
<1>3. /\ held' \in [Workers -> Conns \cup {NoConn}] /\ held'[w] = c
      /\ \A v \in Workers : v # w => held'[v] = held[v]
  BY <1>1, <1>2
<1>4. Borrowed' = {c} \ {NoConn}
  BY <1>0, <1>3 DEF Borrowed
<1>5. /\ pool' \in Seq(Conns) /\ IsInjective(pool') /\ ToSet(pool') = ToSet(pool) \ First
      /\ pool = <<>> => Len(pool') = 0
      /\ pool # <<>> => Len(pool') = Len(pool) - 1
  <2>1. CASE pool = <<>>
    BY <1>1, <1>2, <2>1, EmptyPool DEF First
  <2>2. CASE pool # <<>>
    BY <1>1, <1>2, <2>2, TailPool DEF First
  <2> QED BY <2>1, <2>2
<1>6. Owned'
  <2>1. Pooled' = Pooled \ First
    BY <1>5 DEF Pooled
  <2> QED BY <1>1, <1>2, <1>4, <1>5, <2>1 DEF Owned
<1>7. Size' <= Size \/ Size' <= 1
  <2>1. Size = Len(pool) /\ Size' \in {Len(pool'), Len(pool') + 1}
    BY <1>0, <1>2 DEF Size
  <2> QED BY <1>2, <1>5, <2>1
<1> QED BY <1>1, <1>3, <1>6, <1>7

LEMMA ReleaseOwned ==
  ASSUME TypeOK, Positions, OneOwner, NEW w \in Workers, pc[w] = "release", ReleaseConnection(w)
  PROVE  /\ Owned' /\ Size' = Size
         /\ held' \in [Workers -> Conns \cup {NoConn}] /\ held'[w] = NoConn
         /\ \A v \in Workers : v # w => held'[v] = held[v]
         /\ params' = params /\ failures' = failures /\ current_size' \in Int /\ conn' = conn
<1>1. /\ held' = [held EXCEPT ![w] = NoConn]
      /\ params' = params /\ conn' = conn /\ failures' = failures /\ current_size' \in Int
      /\ pool' = IF held[w] = NoConn THEN pool ELSE Append(pool, held[w])
  BY Releases
<1>2. /\ held \in [Workers -> Conns \cup {NoConn}] /\ pool \in Seq(Conns) /\ IsInjective(pool)
      /\ Pooled \cap Borrowed = {} /\ Alive = Pooled \cup Borrowed /\ Len(pool) \in Nat
      /\ conn \in [Conns -> ConnType]
  BY Typed, OwnedNow DEF Owned
<1>3. /\ held' \in [Workers -> Conns \cup {NoConn}] /\ held'[w] = NoConn
      /\ \A v \in Workers : v # w => held'[v] = held[v]
  BY <1>1, <1>2
<1>4. Borrowed = {held[w]} \ {NoConn} /\ \A v \in Workers : v # w => held[v] = NoConn
  BY OneBorrows, Alone
<1>5. Borrowed' = {}
  BY <1>3, <1>4 DEF Borrowed
<1>6. Alive' = Alive
  BY <1>1 DEF Alive
<1>7. Owned' /\ Size' = Size
  <2>1. CASE held[w] = NoConn
    <3>1. Borrowed = {} /\ pool' = pool /\ Pooled' = Pooled
      BY <1>1, <1>4, <2>1 DEF Pooled
    <3> QED BY <1>1, <1>2, <1>5, <1>6, <3>1 DEF Owned, Size
  <2>2. CASE held[w] # NoConn
    <3>1. held[w] \in Conns /\ held[w] \notin ToSet(pool) /\ Borrowed = {held[w]}
      BY <1>2, <1>4, <2>2 DEF Pooled
    <3>2. /\ pool' \in Seq(Conns) /\ IsInjective(pool') /\ ToSet(pool') = ToSet(pool) \cup {held[w]}
          /\ Len(pool') = Len(pool) + 1
      BY <1>1, <1>2, <2>2, <3>1, PushPool
    <3>3. Pooled' = Pooled \cup {held[w]}
      BY <3>2 DEF Pooled
    <3>4. Owned'
      BY <1>1, <1>2, <1>5, <1>6, <3>1, <3>2, <3>3 DEF Owned
    <3>5. Size = Len(pool) + 1 /\ Size' = Len(pool')
      BY <1>2, <1>5, <3>1, <3>2 DEF Size
    <3> QED BY <3>2, <3>4, <3>5
  <2> QED BY <2>1, <2>2
<1> QED BY <1>1, <1>3, <1>7

LEMMA DropOwned ==
  ASSUME TypeOK, Positions, OneOwner, CheckDrop
  PROVE  /\ Owned' /\ Size' <= Size
         /\ held' \in [Workers -> Conns \cup {NoConn}]
         /\ held'["check"] = NoConn /\ held'["func"] = held["func"]
         /\ \A d \in Conns : conn'[d] \in {conn[d], Deleted}
<1> DEFINE c == held["check"]
<1>1. /\ held \in [Workers -> Conns \cup {NoConn}] /\ pool \in Seq(Conns) /\ IsInjective(pool)
      /\ Pooled \cap Borrowed = {} /\ Alive = Pooled \cup Borrowed /\ Len(pool) \in Nat
  BY Typed, OwnedNow DEF Owned
<1>2. pc["check"] = "count" /\ Delete({c}) /\ held' = [held EXCEPT !["check"] = NoConn] /\ pool' = pool
  BY DEF CheckDrop, Goto
<1>3. c \in Conns /\ "check" \in Workers /\ "func" \in Workers
  BY <1>1, <1>2 DEF Positions, Workers
<1>4. Borrowed = {c} /\ held["func"] = NoConn
  BY <1>2, <1>3, OneBorrows, Alone, IdsAssumption
<1>5. held' \in [Workers -> Conns \cup {NoConn}] /\ held'["check"] = NoConn /\ held'["func"] = held["func"]
  BY <1>1, <1>2, <1>3
<1>6. Borrowed' = {}
  BY <1>4, <1>5 DEF Borrowed, Workers
<1>7. /\ conn' \in [Conns -> ConnType] /\ Alive' = Alive \ {c}
      /\ \A d \in Conns : conn'[d] = conn[d] \/ conn'[d] = Deleted
  BY <1>2, <1>3, Deletes
<1>8. Pooled' = Pooled
  BY <1>2 DEF Pooled
<1>9. Owned'
  BY <1>1, <1>2, <1>4, <1>6, <1>7, <1>8 DEF Owned
<1>10. Size' <= Size
  BY <1>1, <1>2, <1>4, <1>6 DEF Size
<1> QED BY <1>5, <1>7, <1>9, <1>10

LEMMA RenewOwned ==
  ASSUME TypeOK, Positions, OneOwner, Renew
  PROVE  /\ Owned' /\ Size' <= Size + 1
         /\ failures' \in Nat /\ current_size' \in Int
         /\ \A d \in Conns : conn'[d] \in {conn[d], Deleted, Fresh(params)}
<1>1. /\ pool \in Seq(Conns) /\ IsInjective(pool) /\ current_size \in Int
      /\ Pooled \cap Borrowed = {} /\ Alive = Pooled \cup Borrowed /\ Len(pool) \in Nat
  BY Typed, OwnedNow DEF Owned
<1>2. PICK c \in Conns \cup {NoConn} :
        /\ CreateConnection(c, {})
        /\ IF c = NoConn THEN UNCHANGED <<pool, current_size>>
                         ELSE pool' = Append(pool, c) /\ current_size' = Len(pool)
  BY DEF Renew
<1>3. pc["check"] = "renew" /\ held' = held /\ "check" \in Workers
  BY DEF Renew, Goto, Workers
<1>4. Borrowed = {} /\ Borrowed' = {}
  <2>1. Borrowed = {}
    BY <1>3, NobodyBorrows
  <2> QED BY <1>3, <2>1 DEF Borrowed
<1>5. /\ conn' \in [Conns -> ConnType] /\ failures' \in Nat
      /\ Alive' = (Alive \ {}) \cup ({c} \ {NoConn})
      /\ c \notin Alive \ {}
      /\ \A d \in Conns : conn'[d] \in {conn[d], Deleted, Fresh(params)}
  BY <1>2, Creates
<1>6. CASE c = NoConn
  <2>1. pool' = pool /\ current_size' = current_size /\ Pooled' = Pooled
    BY <1>2, <1>6 DEF Pooled
  <2>2. Owned'
    BY <1>1, <1>4, <1>5, <1>6, <2>1 DEF Owned
  <2>3. Size' <= Size + 1
    BY <1>1, <1>4, <2>1 DEF Size
  <2> QED BY <1>1, <1>5, <2>1, <2>2, <2>3
<1>7. CASE c # NoConn
  <2>1. c \in Conns /\ c \notin ToSet(pool) /\ pool' = Append(pool, c) /\ current_size' \in Int
    BY <1>1, <1>2, <1>5, <1>7 DEF Pooled
  <2>2. /\ pool' \in Seq(Conns) /\ IsInjective(pool') /\ ToSet(pool') = ToSet(pool) \cup {c}
        /\ Len(pool') = Len(pool) + 1
    BY <1>1, <2>1, PushPool
  <2>3. Owned'
    BY <1>1, <1>4, <1>5, <1>7, <2>2 DEF Owned, Pooled
  <2>4. Size' <= Size + 1
    BY <1>1, <1>4, <2>2 DEF Size
  <2> QED BY <1>5, <2>1, <2>3, <2>4
<1> QED BY <1>6, <1>7

LEMMA DestoryOwned ==
  ASSUME TypeOK, Positions, OneOwner, DestoryConnPool
  PROVE  /\ Owned' /\ Size' <= 1 /\ Alive' = Borrowed
         /\ \A d \in Conns : conn'[d] \in {conn[d], Deleted}
<1>1. /\ pool \in Seq(Conns) /\ Pooled \cap Borrowed = {} /\ Alive = Pooled \cup Borrowed
  BY Typed, OwnedNow DEF Owned
<1>2. Delete(Pooled) /\ pool' = <<>> /\ held' = held
  BY DEF DestoryConnPool
<1>3. Pooled \in SUBSET Conns
  BY <1>1, LenProperties DEF Pooled, ToSet
<1>4. /\ conn' \in [Conns -> ConnType] /\ Alive' = Alive \ Pooled
      /\ \A d \in Conns : conn'[d] = conn[d] \/ conn'[d] = Deleted
  BY <1>2, <1>3, Deletes
<1>5. Borrowed' = Borrowed
  BY <1>2 DEF Borrowed
<1>6. /\ pool' \in Seq(Conns) /\ IsInjective(pool') /\ Pooled' = {} /\ Len(pool') = 0
  BY <1>2, EmptyPool DEF Pooled
<1>7. Owned'
  BY <1>1, <1>4, <1>5, <1>6 DEF Owned
<1>8. Size' <= 1
  BY <1>6 DEF Size
<1> QED BY <1>1, <1>4, <1>7, <1>8

LEMMA FillOwned ==
  ASSUME TypeOK, Positions, OneOwner, FillPool
  PROVE  /\ Owned' /\ Size' <= Size + MAN_POOL_SIZE_INIT
         /\ failures' \in Nat /\ current_size' \in Int
         /\ \A d \in Conns : conn'[d] \in {conn[d], Deleted, Fresh(params)}
<1>1. /\ pool \in Seq(Conns) /\ IsInjective(pool) /\ current_size \in Int
      /\ Pooled \cap Borrowed = {} /\ Alive = Pooled \cup Borrowed /\ Len(pool) \in Nat
  BY Typed, OwnedNow DEF Owned
<1>2. PICK n \in 0 .. MAN_POOL_SIZE_INIT : \E fresh \in Seq(Conns) :
           /\ IsInjective(fresh) /\ Len(fresh) = n /\ ToSet(fresh) \cap Alive = {}
           /\ ToSet(fresh) \subseteq Conns
           /\ pool' = pool \o fresh /\ current_size' = current_size + n
           /\ failures' \in Nat /\ conn' \in [Conns -> ConnType]
           /\ Alive' = Alive \cup ToSet(fresh)
           /\ \A d \in Conns : conn'[d] \in {conn[d], Deleted, Fresh(params)}
  BY Fills
<1>3. PICK fresh \in Seq(Conns) :
           /\ IsInjective(fresh) /\ Len(fresh) = n /\ ToSet(fresh) \cap Alive = {}
           /\ pool' = pool \o fresh /\ current_size' = current_size + n
           /\ failures' \in Nat /\ conn' \in [Conns -> ConnType]
           /\ Alive' = Alive \cup ToSet(fresh)
           /\ \A d \in Conns : conn'[d] \in {conn[d], Deleted, Fresh(params)}
  BY <1>2
<1>4. /\ pool' \in Seq(Conns) /\ IsInjective(pool') /\ ToSet(pool') = ToSet(pool) \cup ToSet(fresh)
      /\ Len(pool') = Len(pool) + n
  <2>1. ToSet(pool) \cap ToSet(fresh) = {}
    BY <1>1, <1>3 DEF Pooled
  <2> QED BY <1>1, <1>3, <2>1, JoinPool
<1>5. Borrowed' = Borrowed
  BY DEF FillPool, Borrowed
<1>6. Owned'
  BY <1>1, <1>3, <1>4, <1>5 DEF Owned, Pooled
<1>7. n \in Nat /\ n <= MAN_POOL_SIZE_INIT /\ MAN_POOL_SIZE_INIT \in Nat
  BY SizesAssumption
<1>8. Size' <= Size + MAN_POOL_SIZE_INIT
  BY <1>1, <1>4, <1>5, <1>7 DEF Size
<1>9. current_size' \in Int
  BY <1>1, <1>3, <1>7
<1> QED BY <1>3, <1>6, <1>8, <1>9

-----------------------------------------------------------------------------
(* The inductive invariant: its steps, action by action. *)

IInv == TypeOK /\ Positions /\ OneOwner /\ Unanswered

(* What the steps that neither borrow nor create nor delete leave alone.   *)
Quiet ==
  \/ \E w \in Workers : Lock(w) \/ Unlock(w)
  \/ CheckCount \/ RenewSize \/ SetupSocket \/ CheckParams \/ InitPool

LEMMA QuietKeeps == Quiet => UNCHANGED <<params, pool, current_size, conn, failures, held>>
  BY DEF Quiet, Lock, Unlock, CheckCount, RenewSize, SetupSocket, CheckParams, InitPool, poolVars

LEMMA NextCases ==
  Next <=> \/ Quiet \/ SetParams \/ CheckBeat \/ CheckAsk \/ CheckGet \/ FuncGet
           \/ CheckRelease \/ FuncRelease \/ CheckDrop \/ Renew \/ DestoryConnPool \/ FillPool
           \/ \E c \in Conns : NetworkStep(c)
  BY DEF Next, Quiet, NetworkStep

LEMMA PositionsStep ==
  ASSUME TypeOK, Positions, OneOwner, [Next]_vars
  PROVE  Positions'
<1>0. /\ pc \in [Threads -> Places] /\ held \in [Workers -> Conns \cup {NoConn}]
      /\ Workers = {"check", "func"} /\ Threads = {"check", "func", "host"} /\ NoConn \notin Conns
      /\ procLock \in Workers \cup {Free}
  BY Typed, IdsAssumption DEF Workers, Threads, Places
<1>1. ASSUME NEW w \in Workers, Lock(w) PROVE Positions'
  BY <1>0, <1>1 DEF Lock, Goto, Positions, Free
<1>2. ASSUME NEW w \in Workers, Unlock(w) PROVE Positions'
  BY <1>0, <1>2 DEF Unlock, Goto, Positions, Free
<1>3. CASE CheckCount \/ RenewSize
  BY <1>0, <1>3 DEF CheckCount, RenewSize, Goto, Positions
<1>4. CASE SetupSocket \/ CheckParams \/ InitPool \/ SetParams \/ DestoryConnPool \/ FillPool
  BY <1>0, <1>4 DEF SetupSocket, CheckParams, InitPool, SetParams, DestoryConnPool, FillPool, Goto,
       Positions
<1>5. CASE CheckBeat \/ CheckAsk \/ Renew
  BY <1>0, <1>5 DEF CheckBeat, CheckAsk, Renew, Goto, Positions
<1>6. CASE CheckGet
  <2>1. /\ held' \in [Workers -> Conns \cup {NoConn}] /\ held'["func"] = held["func"]
        /\ pc["check"] = "get" /\ procLock' = procLock
        /\ pc' = [pc EXCEPT !["check"] = IF held'["check"] = NoConn THEN "sleep" ELSE "count"]
    BY <1>0, <1>6, GetOwned DEF CheckGet
  <2> QED BY <1>0, <2>1 DEF Positions
<1>7. CASE FuncGet
  <2>1. /\ held' \in [Workers -> Conns \cup {NoConn}] /\ held'["check"] = held["check"]
        /\ pc["func"] = "get" /\ procLock' = procLock
        /\ pc' = [pc EXCEPT !["func"] = "release"]
    BY <1>0, <1>7, GetOwned DEF FuncGet, Goto
  <2> QED BY <1>0, <2>1 DEF Positions
<1>8. CASE CheckRelease
  <2>1. /\ held' \in [Workers -> Conns \cup {NoConn}] /\ held'["check"] = NoConn
        /\ held'["func"] = held["func"] /\ pc["check"] = "release" /\ procLock' = procLock
        /\ pc' = [pc EXCEPT !["check"] = "size"]
    BY <1>0, <1>8, ReleaseOwned DEF CheckRelease, Goto
  <2> QED BY <1>0, <2>1 DEF Positions
<1>9. CASE FuncRelease
  <2>1. /\ held' \in [Workers -> Conns \cup {NoConn}] /\ held'["func"] = NoConn
        /\ held'["check"] = held["check"] /\ pc["func"] = "release" /\ procLock' = procLock
        /\ pc' = [pc EXCEPT !["func"] = "sleep"]
    BY <1>0, <1>9, ReleaseOwned DEF FuncRelease, Goto
  <2> QED BY <1>0, <2>1 DEF Positions
<1>10. CASE CheckDrop
  BY <1>0, <1>10 DEF CheckDrop, Goto, Positions
<1>11. ASSUME NEW c \in Conns, NetworkStep(c) PROVE Positions'
  <2>1. UNCHANGED <<pc, held, procLock>>
    BY <1>11, NetworkKeeps
  <2> QED BY <2>1 DEF Positions
<1>12. CASE UNCHANGED vars
  BY <1>12 DEF vars, Positions
<1> QED BY <1>1, <1>2, <1>3, <1>4, <1>5, <1>6, <1>7, <1>8, <1>9, <1>10, <1>11, <1>12,
     NextCases DEF Quiet

LEMMA OwnedStep ==
  ASSUME TypeOK, Positions, OneOwner, [Next]_vars
  PROVE  Owned'
<1>1. CASE Quiet \/ SetParams \/ UNCHANGED vars
  <2>1. UNCHANGED <<pool, conn, held>>
    BY <1>1, QuietKeeps DEF SetParams, vars
  <2> QED BY <2>1, KeptOwned, Typed DEF Same
<1>2. CASE CheckBeat \/ CheckAsk
  <2>1. pool' = pool /\ held' = held
    BY <1>2 DEF CheckBeat, CheckAsk
  <2> QED BY <1>2, <2>1, PingKeeps, KeptOwned
<1>3. CASE CheckGet \/ FuncGet
  BY <1>3, GetOwned DEF CheckGet, FuncGet, Goto, Workers
<1>4. CASE CheckRelease \/ FuncRelease
  BY <1>4, ReleaseOwned DEF CheckRelease, FuncRelease, Goto, Workers
<1>5. CASE CheckDrop \/ Renew \/ DestoryConnPool \/ FillPool
  BY <1>5, DropOwned, RenewOwned, DestoryOwned, FillOwned
<1>6. ASSUME NEW c \in Conns, NetworkStep(c) PROVE Owned'
  BY <1>6, NetworkKeeps, KeptOwned
<1> QED BY <1>1, <1>2, <1>3, <1>4, <1>5, <1>6, NextCases

LEMMA OneOwnerStep ==
  ASSUME TypeOK, Positions, OneOwner, [Next]_vars
  PROVE  OneOwner'
<1>1. Positions' /\ Owned'
  BY PositionsStep, OwnedStep
<1>2. \A v, w \in Workers : v # w /\ held'[v] # NoConn => held'[v] # held'[w]
  <2>1. SUFFICES ASSUME NEW v \in Workers, NEW w \in Workers, v # w, held'[v] # NoConn
                 PROVE  held'[w] = NoConn
    BY <2>1
  <2>2. procLock' = v
    BY <1>1, <2>1 DEF Positions
  <2> QED BY <1>1, <2>1, <2>2 DEF Positions
<1> QED BY <1>1, <1>2 DEF Owned, OneOwner

LEMMA TypeStep ==
  ASSUME TypeOK, Positions, OneOwner, [Next]_vars
  PROVE  TypeOK'
<1> DEFINE Rest == /\ params' \in Settings /\ target' \in Settings /\ current_size' \in Int /\ made' \in BOOLEAN
                   /\ pc' \in [Threads -> Places] /\ held' \in [Workers -> Conns \cup {NoConn}]
                   /\ beat' \in 0 .. MAX_BEAT_HEART_COUNT /\ procLock' \in Workers \cup {Free}
                   /\ reconfigs' \in Nat /\ failures' \in Nat
<1>1. SUFFICES Rest
  BY OwnedStep DEF Owned, TypeOK, ConnType, Places
<1>0. /\ params \in Settings /\ target \in Settings /\ current_size \in Int /\ made \in BOOLEAN
      /\ pc \in [Threads -> Places] /\ held \in [Workers -> Conns \cup {NoConn}]
      /\ beat \in 0 .. MAX_BEAT_HEART_COUNT /\ procLock \in Workers \cup {Free}
      /\ reconfigs \in Nat /\ failures \in Nat
      /\ Workers = {"check", "func"} /\ Threads = {"check", "func", "host"} /\ MAX_BEAT_HEART_COUNT \in Nat
  BY Typed, SizesAssumption DEF Workers, Threads, Places
<1>2. ASSUME NEW w \in Workers, Lock(w) \/ Unlock(w) PROVE Rest
  BY <1>0, <1>2 DEF Lock, Unlock, Goto, poolVars, hostVars, Places
<1>3. CASE CheckCount
  <2>1. pc["check"] = "count" /\ held["check"] \in Conns
    BY <1>0, <1>3 DEF CheckCount, Goto, Positions
  <2>2. conn[held["check"]].heart_count \in 0 .. MAX_BEAT_HEART_COUNT
    BY <1>0, <1>3, <2>1, ConnFields DEF CheckCount
  <2> QED BY <1>0, <1>3, <2>2 DEF CheckCount, Goto, poolVars, hostVars, Places
<1>4. CASE RenewSize \/ SetupSocket \/ CheckParams \/ SetParams \/ InitPool
  <2>1. CASE RenewSize
    BY <1>0, <2>1 DEF RenewSize, poolVars, hostVars, Places
  <2>2. CASE SetupSocket
    BY <1>0, <2>2 DEF SetupSocket, Goto, poolVars, Places
  <2>3. CASE CheckParams \/ InitPool
    BY <1>0, <2>3 DEF CheckParams, InitPool, poolVars, hostVars, Places
  <2>4. CASE SetParams
    BY <1>0, <2>4 DEF SetParams, Goto, hostVars, Places
  <2> QED BY <1>4, <2>1, <2>2, <2>3, <2>4
<1>5. CASE CheckBeat \/ CheckAsk
  <2>1. /\ UNCHANGED <<params, current_size, failures, made, target, reconfigs, held, procLock>>
        /\ beat' \in {0, beat}
    BY <1>5 DEF CheckBeat, CheckAsk, hostVars
  <2>2. pc' \in [Threads -> Places]
    BY <1>0, <1>5 DEF CheckBeat, CheckAsk, Goto, Places
  <2> QED BY <1>0, <2>1, <2>2
<1>6. CASE CheckGet
  <2>1. /\ held' \in [Workers -> Conns \cup {NoConn}] /\ params' = params /\ failures' \in Nat
        /\ current_size' \in Int
    BY <1>0, <1>6, GetOwned DEF CheckGet
  <2> QED BY <1>0, <1>6, <2>1 DEF CheckGet, hostVars, Places
<1>7. CASE FuncGet
  <2>1. /\ held' \in [Workers -> Conns \cup {NoConn}] /\ params' = params /\ failures' \in Nat
        /\ current_size' \in Int
    BY <1>0, <1>7, GetOwned DEF FuncGet, Goto
  <2> QED BY <1>0, <1>7, <2>1 DEF FuncGet, Goto, hostVars, Places
<1>8. CASE CheckRelease \/ FuncRelease
  <2>1. /\ held' \in [Workers -> Conns \cup {NoConn}] /\ params' = params /\ failures' \in Nat
        /\ current_size' \in Int
    BY <1>0, <1>8, ReleaseOwned DEF CheckRelease, FuncRelease, Goto
  <2> QED BY <1>0, <1>8, <2>1 DEF CheckRelease, FuncRelease, Goto, hostVars, Places
<1>9. CASE CheckDrop
  BY <1>0, <1>9, DropOwned DEF CheckDrop, Goto, hostVars, Places
<1>10. CASE Renew
  <2>1. failures' \in Nat /\ current_size' \in Int
    BY <1>10, RenewOwned
  <2> QED BY <1>0, <1>10, <2>1 DEF Renew, Goto, hostVars, Places
<1>11. CASE DestoryConnPool
  BY <1>0, <1>11 DEF DestoryConnPool, Goto, hostVars, Places
<1>12. CASE FillPool
  <2>1. failures' \in Nat /\ current_size' \in Int
    BY <1>12, FillOwned
  <2> QED BY <1>0, <1>12, <2>1 DEF FillPool, Goto, hostVars, Places
<1>13. ASSUME NEW c \in Conns, NetworkStep(c) PROVE Rest
  BY <1>0, <1>13, NetworkKeeps DEF hostVars
<1>14. CASE UNCHANGED vars
  BY <1>0, <1>14 DEF vars
<1> QED BY <1>2, <1>3, <1>4, <1>5, <1>6, <1>7, <1>8, <1>9, <1>10, <1>11, <1>12, <1>13, <1>14,
     NextCases DEF Quiet

(* An object the step leaves alone, deletes or creates. *)
LEMMA StillUnanswered ==
  ASSUME TypeOK, Unanswered, params \in Settings,
         \A c \in Conns : conn'[c] \in {conn[c], Deleted, Fresh(params)},
         pc["check"] = "ask" => pc'["check"] = "ask" /\ held'["check"] = held["check"]
  PROVE  Unanswered'
<1> SUFFICES ASSUME NEW c \in Conns, conn'[c].heart_count > 0
             PROVE  conn'[c].asked \/ (held'["check"] = c /\ pc'["check"] = "ask")
  BY DEF Unanswered
<1>1. conn'[c] = conn[c]
  BY NewTyped
<1>2. conn[c].asked \/ (held["check"] = c /\ pc["check"] = "ask")
  BY <1>1 DEF Unanswered
<1> QED BY <1>1, <1>2, Zenon

LEMMA UnansweredStep ==
  ASSUME IInv, [Next]_vars
  PROVE  Unanswered'
<1>0. /\ TypeOK /\ Positions /\ OneOwner /\ Unanswered /\ params \in Settings
      /\ pc \in [Threads -> Places] /\ held \in [Workers -> Conns \cup {NoConn}]
      /\ Workers = {"check", "func"} /\ Threads = {"check", "func", "host"}
  BY Typed DEF IInv, Workers, Threads, Places
<1>1. CASE UNCHANGED conn /\ (pc["check"] = "ask" => pc'["check"] = "ask" /\ held'["check"] = held["check"])
  BY <1>0, <1>1, StillUnanswered
<1>2. CASE Quiet \/ SetParams \/ UNCHANGED vars
  <2>1. UNCHANGED conn /\ held' = held
    BY <1>2, QuietKeeps DEF SetParams, vars
  <2>2. pc["check"] = "ask" => pc'["check"] = "ask"
    BY <1>0, <1>2 DEF Quiet, Lock, Unlock, CheckCount, RenewSize, SetupSocket, CheckParams,
         InitPool,
                      SetParams, Goto, vars
  <2> QED BY <1>1, <2>1, <2>2
<1>3. CASE CheckBeat \/ CheckAsk
  <2> SUFFICES ASSUME NEW d \in Conns, conn'[d].heart_count > 0
               PROVE  conn'[d].asked \/ (held'["check"] = d /\ pc'["check"] = "ask")
    BY DEF Unanswered
  <2>1. /\ \A c \in Conns : c # held["check"] => conn'[c] = conn[c]
        /\ CheckAsk => conn'[held["check"]].asked = TRUE
    BY <1>0, <1>3, PingKeeps
  <2>2. CASE d # held["check"]
    <3>1. conn'[d] = conn[d]
      BY <2>1, <2>2
    <3>2. conn[d].asked \/ (held["check"] = d /\ pc["check"] = "ask")
      BY <1>0, <3>1 DEF Unanswered
    <3> QED BY <2>2, <3>1, <3>2, Zenon
  <2>3. CASE d = held["check"] /\ CheckAsk
    <3>1. conn'[d].asked = TRUE
      BY <2>1, <2>3
    <3> QED BY <3>1
  <2>4. CASE d = held["check"] /\ CheckBeat
    <3>1. held'["check"] = d /\ pc'["check"] = "ask"
      BY <1>0, <2>4 DEF CheckBeat, Goto
    <3> QED BY <3>1
  <2> QED BY <1>3, <2>2, <2>3, <2>4
<1>4. CASE CheckGet \/ FuncGet
  <2>1. \A c \in Conns : conn'[c] \in {conn[c], Deleted, Fresh(params)}
    BY <1>0, <1>4, GetOwned DEF CheckGet, FuncGet, Goto
  <2>2. pc["check"] = "ask" => pc'["check"] = "ask" /\ held'["check"] = held["check"]
    BY <1>0, <1>4, GetOwned DEF CheckGet, FuncGet, Goto
  <2> QED BY <1>0, <2>1, <2>2, StillUnanswered
<1>5. CASE CheckRelease \/ FuncRelease
  <2>1. conn' = conn
    BY <1>0, <1>5, ReleaseOwned DEF CheckRelease, FuncRelease, Goto
  <2>2. pc["check"] = "ask" => pc'["check"] = "ask" /\ held'["check"] = held["check"]
    BY <1>0, <1>5, ReleaseOwned DEF CheckRelease, FuncRelease, Goto
  <2> QED BY <1>1, <2>1, <2>2
<1>6. CASE CheckDrop \/ Renew \/ DestoryConnPool \/ FillPool
  <2>1. \A c \in Conns : conn'[c] \in {conn[c], Deleted, Fresh(params)}
    BY <1>0, <1>6, DropOwned, RenewOwned, DestoryOwned, FillOwned
  <2>2. pc["check"] = "ask" => pc'["check"] = "ask" /\ held'["check"] = held["check"]
    BY <1>0, <1>6 DEF CheckDrop, Renew, DestoryConnPool, FillPool, Goto
  <2> QED BY <1>0, <2>1, <2>2, StillUnanswered
<1>7. ASSUME NEW c \in Conns, NetworkStep(c) PROVE Unanswered'
  <2>1. /\ UNCHANGED <<pc, held>>
        /\ \A d \in Conns : conn'[d].heart_count = 0 \/ SameHeart(d)
    BY <1>0, <1>7, NetworkKeeps
  <2> SUFFICES ASSUME NEW d \in Conns, conn'[d].heart_count > 0
               PROVE  conn'[d].asked \/ (held'["check"] = d /\ pc'["check"] = "ask")
    BY DEF Unanswered
  <2>2. conn'[d].heart_count = conn[d].heart_count /\ conn'[d].asked = conn[d].asked
    BY <2>1 DEF SameHeart
  <2>3. conn[d].asked \/ (held["check"] = d /\ pc["check"] = "ask")
    BY <1>0, <2>2 DEF Unanswered
  <2> QED BY <2>1, <2>2, <2>3, Zenon
<1> QED BY <1>2, <1>3, <1>4, <1>5, <1>6, <1>7, NextCases

LEMMA InitIInv == Init => IInv
<1> SUFFICES ASSUME Init PROVE IInv
  OBVIOUS
<1>1. Deleted \in ConnType /\ Deleted.status = "deleted" /\ Deleted.heart_count = 0
  BY NewTyped
<1>2. TypeOK
  <2>1. conn \in [Conns -> ConnType]
    BY <1>1 DEF Init
  <2>2. pool \in Seq(Conns) /\ 0 \in 0 .. MAX_BEAT_HEART_COUNT
    BY EmptySeq, SizesAssumption DEF Init
  <2>3. /\ pc \in [Threads -> Places] /\ held \in [Workers -> Conns \cup {NoConn}]
        /\ params \in Settings /\ target \in Settings /\ procLock \in Workers \cup {Free}
    BY DEF Init, Places, Settings
  <2>4. current_size \in Int /\ reconfigs \in Nat /\ failures \in Nat /\ beat \in 0 .. MAX_BEAT_HEART_COUNT
    BY <2>2 DEF Init
  <2>5. made \in BOOLEAN
    BY Zenon DEF Init
  <2> QED BY <2>1, <2>2, <2>3, <2>4, <2>5, Zenon DEF TypeOK, ConnType, Places
<1>3. Positions
  BY DEF Init, Positions, Threads, Workers
<1>4. OneOwner
  <2>1. Alive = {} /\ Borrowed = {} /\ \A w \in Workers : held[w] = NoConn
    BY <1>1 DEF Init, Alive, Borrowed
  <2> QED BY <2>1, EmptyPool DEF Init, OneOwner, Pooled
<1>5. Unanswered
  BY <1>1 DEF Init, Unanswered
<1> QED BY <1>2, <1>3, <1>4, <1>5 DEF IInv

LEMMA Inductive == Spec => []IInv
<1>1. IInv /\ [Next]_vars => IInv'
  BY TypeStep, PositionsStep, OneOwnerStep, UnansweredStep DEF IInv
<1> QED BY <1>1, InitIInv, PTL DEF Spec

(* Nobody but the host moves the host. *)
LEMMA HostMoves ==
  ASSUME TypeOK, [Next]_vars
  PROVE  \/ pc'["host"] = pc["host"]
         \/ SetupSocket \/ CheckParams \/ SetParams \/ InitPool \/ DestoryConnPool \/ FillPool
<1>0. pc \in [Threads -> Places] /\ Workers = {"check", "func"} /\ Threads = {"check", "func", "host"}
  BY Typed DEF Workers, Threads, Places
<1>1. CASE \E w \in Workers : Lock(w) \/ Unlock(w)
  BY <1>0, <1>1 DEF Lock, Unlock, Goto
<1>2. CASE CheckCount \/ RenewSize \/ CheckBeat \/ CheckAsk \/ CheckGet \/ FuncGet
  BY <1>0, <1>2 DEF CheckCount, RenewSize, CheckBeat, CheckAsk, CheckGet, FuncGet, Goto
<1>3. CASE CheckRelease \/ FuncRelease \/ CheckDrop \/ Renew
  BY <1>0, <1>3 DEF CheckRelease, FuncRelease, CheckDrop, Renew, Goto
<1>4. ASSUME NEW c \in Conns, NetworkStep(c) PROVE pc' = pc
  BY <1>4, NetworkKeeps
<1>5. CASE UNCHANGED vars
  BY <1>5 DEF vars
<1> QED BY <1>1, <1>2, <1>3, <1>4, <1>5, NextCases DEF Quiet

-----------------------------------------------------------------------------
(* How many connections there are.  GetConnection and reNewPool stop at    *)
(* Base, whatever current_size says; initPool may come between the look at *)
(* the size in reNewPool and its addition, and adds to what the plugin     *)
(* threads have made of the pool it had emptied.                           *)

Base == IF MAN_POOL_SIZE > 1 THEN MAN_POOL_SIZE ELSE 1

(* A connection reNewPool is about to add counts already; until initPool   *)
(* has filled the pool, there is room for its connections.                 *)
Due == IF pc["check"] = "renew" THEN 1 ELSE 0
Room == IF pc["host"] = "fill" THEN 0 ELSE MAN_POOL_SIZE_INIT

SizeInv == Size + Due <= Base + Room

(* The sums the steps compare. *)
LEMMA FewerFit ==
  ASSUME NEW s \in Nat, NEW s2 \in Nat, NEW d \in Nat, NEW d2 \in Nat,
         NEW b \in Nat, NEW r \in Nat, NEW r2 \in Nat,
         s2 <= s, d2 <= d, r <= r2, s + d <= b + r
  PROVE  s2 + d2 <= b + r2
  OBVIOUS

LEMMA DueFits ==
  ASSUME NEW s \in Nat, NEW s2 \in Nat, NEW b \in Nat, NEW r \in Nat,
         s2 <= s + 1, s + 1 <= b + r
  PROVE  s2 + 0 <= b + r
  OBVIOUS

LEMMA OneFits ==
  ASSUME NEW s \in Nat, NEW d \in Nat, NEW b \in Nat, NEW r \in Nat,
         s <= 1, d = 0 \/ (s = 0 /\ d <= 1), b >= 1
  PROVE  s + d <= b + r
  OBVIOUS

LEMMA BelowFits ==
  ASSUME NEW s \in Nat, NEW d \in Nat, NEW m \in Nat, NEW b \in Nat, NEW r \in Nat,
         s < m, d <= 1, b >= m
  PROVE  s + d <= b + r
  OBVIOUS

LEMMA FillFits ==
  ASSUME NEW s \in Nat, NEW s2 \in Nat, NEW d \in Nat, NEW b \in Nat, NEW r \in Nat,
         s2 <= s + r, s + d <= b + 0
  PROVE  s2 + d <= b + r
  OBVIOUS

LEMMA SizeStep ==
  ASSUME IInv, SizeInv, [Next]_vars
  PROVE  SizeInv'
<1>0. /\ TypeOK /\ Positions /\ OneOwner /\ Positions'
      /\ pc \in [Threads -> Places] /\ held \in [Workers -> Conns \cup {NoConn}]
      /\ Workers = {"check", "func"} /\ Threads = {"check", "func", "host"}
  BY Typed, PositionsStep DEF IInv, Workers, Threads, Places
<1>1. /\ Size \in Nat /\ Len(pool) \in Nat /\ Base \in Nat /\ Base >= 1 /\ Base >= MAN_POOL_SIZE
      /\ MAN_POOL_SIZE \in Nat /\ MAN_POOL_SIZE_INIT \in Nat /\ Base' = Base
  BY <1>0, OwnedNow, SizesAssumption DEF Base
<1>2. Size' \in Nat /\ Due \in Nat /\ Due' \in Nat /\ Room \in Nat /\ Room' \in Nat
  <2>1. Len(pool') \in Nat
    BY <1>0, OwnedStep, LenProperties DEF Owned
  <2>2. Size' \in Nat
    BY <2>1 DEF Size
  <2> QED BY <1>1, <2>2 DEF Due, Room
<1>3. CASE /\ Size' <= Size
           /\ pc'["host"] = "fill" => pc["host"] = "fill"
           /\ pc'["check"] = "renew" => pc["check"] = "renew"
  <2>1. Due' <= Due /\ Room' >= Room
    BY <1>1, <1>3 DEF Due, Room
  <2>2. Size + Due <= Base + Room /\ Size' <= Size
    BY <1>3 DEF SizeInv
  <2>3. Size \in Nat /\ Base \in Nat
    BY <1>1
  <2>4. Size' + Due' <= Base + Room'
    BY <1>2, <2>1, <2>2, <2>3, FewerFit
  <2> QED BY <1>1, <2>4 DEF SizeInv
<1>4. CASE (\E w \in Workers : Lock(w) \/ Unlock(w)) \/ CheckCount \/ SetupSocket \/ CheckParams
           \/ InitPool \/ SetParams \/ UNCHANGED vars
  <2>1. pool' = pool /\ held' = held
    BY <1>4, QuietKeeps DEF Quiet, SetParams, vars
  <2>2. Size' = Size
    BY <2>1 DEF Size, Borrowed
  <2>3. /\ pc'["host"] = "fill" => pc["host"] = "fill"
        /\ pc'["check"] = "renew" => pc["check"] = "renew"
    BY <1>0, <1>4 DEF Lock, Unlock, CheckCount, SetupSocket, CheckParams, InitPool, SetParams,
         Goto, vars
  <2> QED BY <1>1, <1>3, <2>2, <2>3
<1>5. CASE RenewSize
  <2>1. pc["check"] = "size" /\ pool' = pool /\ held' = held /\ pc'["host"] = pc["host"]
        /\ pc'["check"] = IF Len(pool) < MAN_POOL_SIZE THEN "renew" ELSE "sleep"
    BY <1>0, <1>5 DEF RenewSize, poolVars
  <2>2. Size = Len(pool) /\ Size' = Size
    <3>1. Borrowed = {} /\ Borrowed' = {}
      BY <1>0, <2>1, NobodyBorrows DEF Borrowed
    <3> QED BY <1>1, <2>1, <3>1 DEF Size
  <2>3. Due = 0 /\ Room' = Room /\ Room >= 0
    BY <1>1, <2>1 DEF Due, Room
  <2>4. Size' + Due' <= Base + Room'
    <3>1. CASE Len(pool) < MAN_POOL_SIZE
      <4>1. Size' < MAN_POOL_SIZE
        BY <2>2, <3>1
      <4>2. Due' <= 1
        BY DEF Due
      <4>3. MAN_POOL_SIZE \in Nat /\ Base \in Nat /\ Base >= MAN_POOL_SIZE
        BY <1>1
      <4> QED BY <1>2, <4>1, <4>2, <4>3, BelowFits
    <3>2. CASE ~(Len(pool) < MAN_POOL_SIZE)
      <4>1. Size' <= Size /\ Due' <= Due /\ Room <= Room'
        <5>1. Due' = 0
          BY <2>1, <3>2 DEF Due
        <5> QED BY <1>1, <1>2, <2>2, <2>3, <5>1
      <4>2. Size + Due <= Base + Room
        BY DEF SizeInv
      <4>3. Size \in Nat /\ Base \in Nat
        BY <1>1
      <4> QED BY <1>2, <4>1, <4>2, <4>3, FewerFit
    <3> QED BY <3>1, <3>2
  <2> QED BY <1>1, <2>4 DEF SizeInv
<1>6. CASE CheckBeat \/ CheckAsk
  <2>1. Size' = Size
    BY <1>6 DEF CheckBeat, CheckAsk, Size, Borrowed
  <2>2. pc'["host"] = pc["host"] /\ pc'["check"] # "renew"
    BY <1>0, <1>6 DEF CheckBeat, CheckAsk, Goto
  <2> QED BY <1>1, <1>3, <2>1, <2>2
<1>7. CASE CheckGet \/ FuncGet
  <2>1. Size' <= Size \/ Size' <= 1
    BY <1>0, <1>7, GetOwned DEF CheckGet, FuncGet, Goto
  <2>2. pc'["host"] = pc["host"] /\ pc'["check"] # "renew"
    <3>1. CASE CheckGet
      BY <1>0, <3>1 DEF CheckGet
    <3>2. CASE FuncGet
      <4>1. pc["check"] = "idle" /\ pc'["check"] = pc["check"] /\ pc'["host"] = pc["host"]
        BY <1>0, <3>2, Alone DEF FuncGet, Goto
      <4> QED BY <4>1
    <3> QED BY <1>7, <3>1, <3>2
  <2>3. Due' = 0 /\ Room' = Room
    BY <2>2 DEF Due, Room
  <2>4. CASE Size' <= Size
    <3>1. pc'["host"] = "fill" => pc["host"] = "fill"
      BY <2>2
    <3> QED BY <1>3, <2>2, <2>4, <3>1
  <2>5. CASE Size' <= 1
    <3>1. Base \in Nat /\ Base >= 1 /\ Base' = Base
      BY <1>1
    <3>2. Due' = 0 \/ (Size' = 0 /\ Due' <= 1)
      BY <2>3
    <3>3. Size' + Due' <= Base + Room'
      BY <1>2, <2>5, <3>1, <3>2, OneFits
    <3> QED BY <3>1, <3>3 DEF SizeInv
  <2> QED BY <2>1, <2>4, <2>5
<1>8. CASE CheckRelease \/ FuncRelease
  <2>1. Size' = Size
    BY <1>0, <1>8, ReleaseOwned DEF CheckRelease, FuncRelease, Goto
  <2>2. pc'["host"] = pc["host"] /\ (pc'["check"] = "renew" => pc["check"] = "renew")
    BY <1>0, <1>8 DEF CheckRelease, FuncRelease, Goto
  <2> QED BY <1>1, <1>3, <2>1, <2>2
<1>9. CASE CheckDrop
  <2>1. Size' <= Size
    BY <1>0, <1>9, DropOwned
  <2>2. pc'["host"] = pc["host"] /\ pc'["check"] # "renew"
    BY <1>0, <1>9 DEF CheckDrop, Goto
  <2> QED BY <1>1, <1>3, <2>1, <2>2
<1>10. CASE Renew
  <2>1. Size' <= Size + 1
    BY <1>0, <1>10, RenewOwned
  <2>2. pc'["host"] = pc["host"] /\ pc["check"] = "renew" /\ pc'["check"] # "renew"
    BY <1>0, <1>10 DEF Renew, Goto
  <2>3. Due = 1 /\ Due' = 0 /\ Room' = Room
    BY <2>2 DEF Due, Room
  <2>4. Size' + Due' <= Base + Room'
    BY <1>1, <1>2, <2>1, <2>3, DueFits DEF SizeInv
  <2> QED BY <1>1, <2>4 DEF SizeInv
<1>11. CASE DestoryConnPool
  <2>1. Size' <= 1
    BY <1>0, <1>11, DestoryOwned
  <2>2. pc'["check"] = pc["check"] /\ pool' = <<>> /\ held' = held
    BY <1>0, <1>11 DEF DestoryConnPool, Goto
  <2>3. pc["check"] = "renew" => Size' = 0
    <3>1. pc["check"] = "renew" => Borrowed = {}
      BY <1>0, NobodyBorrows
    <3>2. Borrowed' = Borrowed
      BY <2>2 DEF Borrowed
    <3> QED BY <2>2, <3>1, <3>2, EmptyPool DEF Size
  <2>4. Due' = 0 \/ (Size' = 0 /\ Due' <= 1)
    BY <2>2, <2>3 DEF Due
  <2>5. Base \in Nat /\ Base >= 1 /\ Base' = Base
    BY <1>1
  <2>6. Size' + Due' <= Base + Room'
    BY <1>2, <2>1, <2>4, <2>5, OneFits
  <2> QED BY <2>5, <2>6 DEF SizeInv
<1>12. CASE FillPool
  <2>1. Size' <= Size + MAN_POOL_SIZE_INIT
    BY <1>0, <1>12, FillOwned
  <2>2. pc["host"] = "fill" /\ pc'["host"] = "idle" /\ pc'["check"] = pc["check"]
    BY <1>0, <1>12 DEF FillPool, Goto
  <2>3. Due' = Due /\ Room = 0 /\ Room' = MAN_POOL_SIZE_INIT
    BY <2>2 DEF Due, Room
  <2>4. Size' + Due' <= Base + Room'
    BY <1>1, <1>2, <2>1, <2>3, FillFits DEF SizeInv
  <2> QED BY <1>1, <2>4 DEF SizeInv
<1>13. ASSUME NEW c \in Conns, NetworkStep(c) PROVE SizeInv'
  <2>1. pool' = pool /\ held' = held /\ pc' = pc
    BY <1>0, <1>13, NetworkKeeps
  <2>2. Size' = Size
    BY <2>1 DEF Size, Borrowed
  <2> QED BY <1>1, <1>3, <2>1, <2>2
<1> QED BY <1>4, <1>5, <1>6, <1>7, <1>8, <1>9, <1>10, <1>11, <1>12, <1>13, NextCases DEF Quiet

LEMMA InitSize == Init => SizeInv
<1> SUFFICES ASSUME Init PROVE SizeInv
  OBVIOUS
<1>1. Size = 0
  BY EmptyPool DEF Init, Size, Borrowed
<1>2. Base \in Nat /\ Base >= 1 /\ MAN_POOL_SIZE_INIT \in Nat
  BY SizesAssumption DEF Base
<1>3. Due = 0 /\ Room \in Nat
  <2>1. pc["check"] = "idle"
    BY DEF Init, Threads, Workers
  <2> QED BY <1>2, <2>1 DEF Due, Room
<1>4. Size + Due <= Base + Room
  <2>1. Size \in Nat /\ Due \in Nat /\ Size <= 1 /\ (Due = 0 \/ (Size = 0 /\ Due <= 1))
    BY <1>1, <1>3
  <2> QED BY <1>2, <1>3, <2>1, OneFits
<1> QED BY <1>1, <1>3, <1>4 DEF SizeInv

LEMMA OneAtMost ==
  ASSUME TypeOK, Positions
  PROVE  Borrowed = {} \/ \E b : Borrowed = {b}
<1>1. CASE \A w \in Workers : held[w] = NoConn
  BY <1>1 DEF Borrowed
<1>2. ASSUME NEW w \in Workers, held[w] # NoConn PROVE Borrowed = {held[w]}
  BY <1>2, OneBorrows DEF Positions
<1> QED BY <1>1, <1>2

LEMMA AliveBySize ==
  ASSUME TypeOK, Positions, OneOwner
  PROVE  Cardinality(Alive) <= Size
<1>1. /\ pool \in Seq(Conns) /\ Alive = Pooled \cup Borrowed /\ Len(pool) \in Nat
  BY Typed, OwnedNow DEF Owned
<1>2. /\ IsFiniteSet(Pooled) /\ Cardinality(Pooled) <= Len(pool) /\ Cardinality(Pooled) \in Nat
  BY <1>1, PoolSize, FS_CardinalityType DEF Pooled
<1>3. CASE Borrowed = {}
  <2>1. Alive = Pooled /\ Size = Len(pool)
    BY <1>1, <1>3 DEF Size
  <2> QED BY <1>2, <2>1
<1>4. ASSUME NEW b, Borrowed = {b} PROVE Cardinality(Alive) <= Size
  <2>1. Alive = Pooled \cup {b} /\ Size = Len(pool) + 1
    BY <1>1, <1>4 DEF Size
  <2>2. Cardinality(Pooled \cup {b}) = IF b \in Pooled THEN Cardinality(Pooled) ELSE Cardinality(Pooled) + 1
    BY <1>2, FS_AddElement
  <2>3. Cardinality(Alive) \in Nat /\ Cardinality(Alive) <= Cardinality(Pooled) + 1
    BY <1>2, <2>1, <2>2
  <2> QED BY <1>1, <1>2, <2>1, <2>2, <2>3
<1> QED BY <1>3, <1>4, OneAtMost

-----------------------------------------------------------------------------
(* How far current_size is ahead of the connections that exist.  The       *)
(* branches of GetConnection, a release and initPool keep the two in step  *)
(* or let the counter fall behind; reNewPool and destoryConnPool set it    *)
(* anew; the heartbeat drop alone deletes a connection that goes on being  *)
(* counted.                                                                *)

Ahead == current_size - Cardinality(Alive)
NotAhead == Ahead <= 0

LEMMA PooledSize ==
  ASSUME NEW s \in Seq(Conns), IsInjective(s)
  PROVE  Cardinality(ToSet(s)) = Len(s)
<1>1. Len(s) \in Nat /\ DOMAIN s = 1 .. Len(s) /\ s \in [1 .. Len(s) -> Conns]
  BY LenProperties
<1>2. IsFiniteSet(1 .. Len(s)) /\ Cardinality(1 .. Len(s)) = Len(s)
  BY <1>1, FS_Interval
<1>3. s \in Surjection(1 .. Len(s), ToSet(s))
  BY <1>1 DEF Surjection, ToSet
<1>4. s \in Injection(1 .. Len(s), ToSet(s))
  <2>1. s \in [1 .. Len(s) -> ToSet(s)]
    BY <1>1 DEF ToSet
  <2>2. \A a, b \in 1 .. Len(s) : s[a] = s[b] => a = b
    BY <1>1 DEF IsInjective
  <2> QED BY <2>1, <2>2 DEF Injection
<1> QED BY <1>2, <1>3, <1>4, FS_Surjection

LEMMA AliveFinite ==
  ASSUME TypeOK, Positions, OneOwner
  PROVE  /\ IsFiniteSet(Alive) /\ Cardinality(Alive) \in Nat
         /\ Len(pool) <= Cardinality(Alive)
<1>1. /\ pool \in Seq(Conns) /\ IsInjective(pool) /\ Alive = Pooled \cup Borrowed
  BY Typed, OwnedNow DEF Owned
<1>2. IsFiniteSet(Pooled) /\ Cardinality(Pooled) = Len(pool)
  BY <1>1, PoolSize, PooledSize DEF Pooled
<1>3. IsFiniteSet(Alive)
  <2>1. CASE Borrowed = {}
    BY <1>1, <1>2, <2>1
  <2>2. ASSUME NEW b, Borrowed = {b} PROVE IsFiniteSet(Alive)
    BY <1>1, <1>2, <2>2, FS_AddElement
  <2> QED BY <2>1, <2>2, OneAtMost
<1>4. Pooled \in SUBSET Alive
  BY <1>1
<1> QED BY <1>2, <1>3, <1>4, FS_Subset, FS_CardinalityType

(* A connection replaced, added or not. *)
LEMMA CreatedCount ==
  ASSUME NEW S, IsFiniteSet(S), NEW c
  PROVE  /\ c # NoConn /\ c \notin S => Cardinality(S \cup ({c} \ {NoConn})) = Cardinality(S) + 1
         /\ c = NoConn => Cardinality(S \cup ({c} \ {NoConn})) = Cardinality(S)
<1>1. CASE c = NoConn
  <2>1. S \cup ({c} \ {NoConn}) = S
    BY <1>1
  <2> QED BY <1>1, <2>1
<1>2. CASE c # NoConn
  <2>1. S \cup ({c} \ {NoConn}) = S \cup {c}
    BY <1>2
  <2> QED BY <1>2, <2>1, FS_AddElement
<1> QED BY <1>1, <1>2

LEMMA GetCounts ==
  ASSUME TypeOK, Positions, OneOwner, NEW w \in Workers, GetConnection(w)
  PROVE  Ahead' = Ahead
<1>0. /\ pool \in Seq(Conns) /\ current_size \in Int
      /\ IsFiniteSet(Alive) /\ Cardinality(Alive) \in Nat
  BY Typed, AliveFinite
<1>1. PICK c \in Conns \cup {NoConn} :
        TakeConnected(c) \/ ReplaceDisconnected(c) \/ OpenAnother(c) \/ Refuse(c)
  BY DEF GetConnection
<1>2. CASE TakeConnected(c) \/ Refuse(c)
  <2>1. current_size' = current_size /\ conn' = conn
    BY <1>2 DEF TakeConnected, Refuse
  <2>2. Alive' = Alive
    BY <2>1 DEF Alive
  <2> QED BY <2>1, <2>2 DEF Ahead
<1>3. CASE ReplaceDisconnected(c)
  <2> DEFINE h == Head(pool)
  <2>1. /\ pool # <<>> /\ CreateConnection(c, {h})
        /\ current_size' = IF c = NoConn THEN current_size - 1 ELSE current_size
    BY <1>3 DEF ReplaceDisconnected
  <2>2. h \in Conns /\ h \in Alive
    BY <1>0, <2>1, TailPool DEF OneOwner, Pooled
  <2>3. Alive' = (Alive \ {h}) \cup ({c} \ {NoConn}) /\ c \notin Alive \ {h}
    BY <2>1, <2>2, Creates
  <2> HIDE DEF h
  <2>4. IsFiniteSet(Alive \ {h}) /\ Cardinality(Alive \ {h}) = Cardinality(Alive) - 1
    BY <1>0, <2>2, FS_RemoveElement
  <2>5. Cardinality(Alive') = IF c = NoConn THEN Cardinality(Alive) - 1 ELSE Cardinality(Alive)
    BY <1>0, <2>3, <2>4, CreatedCount
  <2> QED BY <1>0, <2>1, <2>5 DEF Ahead
<1>4. CASE OpenAnother(c)
  <2>1. /\ CreateConnection(c, {})
        /\ current_size' = IF c = NoConn THEN current_size ELSE current_size + 1
    BY <1>4 DEF OpenAnother
  <2>2. Alive' = (Alive \ {}) \cup ({c} \ {NoConn}) /\ c \notin Alive \ {}
    BY <2>1, Creates
  <2>3. Alive \ {} = Alive
    OBVIOUS
  <2>4. Cardinality(Alive') = IF c = NoConn THEN Cardinality(Alive) ELSE Cardinality(Alive) + 1
    BY <1>0, <2>2, <2>3, CreatedCount
  <2> QED BY <1>0, <2>1, <2>4 DEF Ahead
<1> QED BY <1>1, <1>2, <1>3, <1>4

LEMMA ReleaseCounts ==
  ASSUME TypeOK, Positions, OneOwner, NEW w \in Workers, ReleaseConnection(w)
  PROVE  Ahead' <= Ahead
<1>1. current_size \in Int /\ Cardinality(Alive) \in Nat
  BY Typed, AliveFinite
<1>2. conn' = conn /\ (current_size' = current_size - 1 \/ current_size' = current_size)
  BY DEF ReleaseConnection
<1>3. Alive' = Alive
  BY <1>2 DEF Alive
<1> QED BY <1>1, <1>2, <1>3 DEF Ahead

LEMMA DropCounts ==
  ASSUME TypeOK, Positions, OneOwner, CheckDrop
  PROVE  Ahead' = Ahead + 1
<1>1. /\ current_size \in Int /\ IsFiniteSet(Alive) /\ Cardinality(Alive) \in Nat
      /\ held \in [Workers -> Conns \cup {NoConn}] /\ Alive = Pooled \cup Borrowed
  BY Typed, AliveFinite, OwnedNow DEF Owned
<1>2. /\ pc["check"] = "count" /\ Delete({held["check"]}) /\ current_size' = current_size
  BY DEF CheckDrop, Goto
<1>3. held["check"] \in Conns /\ held["check"] \in Alive
  BY <1>1, <1>2, IdsAssumption DEF Positions, Workers, Borrowed
<1>4. Alive' = Alive \ {held["check"]}
  BY <1>2, <1>3, Deletes
<1>5. Cardinality(Alive') = Cardinality(Alive) - 1
  BY <1>1, <1>3, <1>4, FS_RemoveElement
<1> QED BY <1>1, <1>2, <1>5 DEF Ahead

LEMMA RenewCounts ==
  ASSUME TypeOK, Positions, OneOwner, Renew
  PROVE  Ahead' = Ahead \/ Ahead' <= 0
<1>0. /\ current_size \in Int /\ IsFiniteSet(Alive) /\ Cardinality(Alive) \in Nat
      /\ Len(pool) <= Cardinality(Alive) /\ Len(pool) \in Nat
  BY Typed, AliveFinite, OwnedNow
<1>1. PICK c \in Conns \cup {NoConn} :
        /\ CreateConnection(c, {})
        /\ IF c = NoConn THEN UNCHANGED <<pool, current_size>>
                         ELSE pool' = Append(pool, c) /\ current_size' = Len(pool)
  BY DEF Renew
<1>2. Alive' = (Alive \ {}) \cup ({c} \ {NoConn}) /\ c \notin Alive \ {}
  BY <1>1, Creates
<1>3. Alive \ {} = Alive
  OBVIOUS
<1>4. Cardinality(Alive') = IF c = NoConn THEN Cardinality(Alive) ELSE Cardinality(Alive) + 1
  BY <1>0, <1>2, <1>3, CreatedCount
<1> QED BY <1>0, <1>1, <1>4 DEF Ahead

LEMMA FillCounts ==
  ASSUME TypeOK, Positions, OneOwner, FillPool
  PROVE  Ahead' = Ahead
<1>0. current_size \in Int /\ IsFiniteSet(Alive) /\ Cardinality(Alive) \in Nat
  BY Typed, AliveFinite
<1>1. PICK n \in 0 .. MAN_POOL_SIZE_INIT : \E fresh \in Seq(Conns) :
           /\ IsInjective(fresh) /\ Len(fresh) = n /\ ToSet(fresh) \cap Alive = {}
           /\ current_size' = current_size + n /\ Alive' = Alive \cup ToSet(fresh)
  BY Fills
<1>2. PICK fresh \in Seq(Conns) :
           /\ IsInjective(fresh) /\ Len(fresh) = n /\ ToSet(fresh) \cap Alive = {}
           /\ current_size' = current_size + n /\ Alive' = Alive \cup ToSet(fresh)
  BY <1>1
<1>3. IsFiniteSet(ToSet(fresh)) /\ Cardinality(ToSet(fresh)) = n /\ n \in Nat
  BY <1>2, PoolSize, PooledSize, SizesAssumption
<1>4. Cardinality(Alive \cap ToSet(fresh)) = 0
  <2>1. Alive \cap ToSet(fresh) = {}
    BY <1>2
  <2> QED BY <2>1, FS_EmptySet
<1>5. Cardinality(Alive') = Cardinality(Alive) + n
  <2>1. Cardinality(Alive \cup ToSet(fresh))
          = Cardinality(Alive) + Cardinality(ToSet(fresh)) - Cardinality(Alive \cap ToSet(fresh))
    BY <1>0, <1>3, FS_Union
  <2>2. Cardinality(Alive') = Cardinality(Alive \cup ToSet(fresh))
    BY <1>2
  <2>3. ASSUME NEW a \in Nat, NEW b \in Nat PROVE a + b - 0 = a + b
    OBVIOUS
  <2> QED BY <1>0, <1>3, <1>4, <2>1, <2>2, <2>3
<1> QED BY <1>0, <1>2, <1>3, <1>5 DEF Ahead

LEMMA AheadStep ==
  ASSUME IInv, [Next]_vars
  PROVE  /\ CheckDrop => Ahead' = Ahead + 1
         /\ ~CheckDrop => Ahead' <= Ahead \/ Ahead' <= 0
<1>0. /\ TypeOK /\ Positions /\ OneOwner /\ current_size \in Int /\ Cardinality(Alive) \in Nat
      /\ Ahead \in Int
  BY Typed, AliveFinite DEF IInv, Ahead
<1>1. CASE CheckDrop
  BY <1>0, <1>1, DropCounts
<1>2. CASE Quiet \/ SetParams \/ CheckBeat \/ CheckAsk \/ UNCHANGED vars
  <2>1. current_size' = current_size /\ Alive' = Alive
    <3>1. CASE Quiet \/ SetParams \/ UNCHANGED vars
      <4>1. conn' = conn /\ current_size' = current_size
        BY <3>1, QuietKeeps DEF SetParams, vars
      <4> QED BY <4>1 DEF Alive
    <3>2. CASE CheckBeat \/ CheckAsk
      <4>1. current_size' = current_size
        BY <3>2 DEF CheckBeat, CheckAsk
      <4>2. \A c \in Conns : Same(c)
        BY <1>0, <3>2, PingKeeps
      <4> QED BY <4>1, <4>2 DEF Alive, Same
    <3> QED BY <1>2, <3>1, <3>2
  <2>2. Ahead' = Ahead
    BY <2>1 DEF Ahead
  <2>3. ~CheckDrop
    <3>1. ASSUME CheckDrop PROVE FALSE
      <4>1. Ahead' = Ahead + 1
        BY <1>0, <3>1, DropCounts
      <4> QED BY <1>0, <2>2, <4>1
    <3> QED BY <3>1
  <2> QED BY <1>0, <2>2, <2>3
<1>3. CASE CheckGet \/ FuncGet
  <2>1. "check" \in Workers /\ "func" \in Workers
    BY DEF Workers
  <2>2. Ahead' = Ahead
    BY <1>0, <1>3, <2>1, GetCounts DEF CheckGet, FuncGet
  <2> QED BY <1>0, <1>1, <2>2
<1>4. CASE CheckRelease \/ FuncRelease
  <2>1. "check" \in Workers /\ "func" \in Workers
    BY DEF Workers
  <2>2. Ahead' <= Ahead
    BY <1>0, <1>4, <2>1, ReleaseCounts DEF CheckRelease, FuncRelease
  <2> QED BY <1>0, <1>1, <2>2
<1>5. CASE Renew
  <2>1. Ahead' = Ahead \/ Ahead' <= 0
    BY <1>0, <1>5, RenewCounts
  <2> QED BY <1>0, <1>1, <2>1
<1>6. CASE DestoryConnPool
  <2>1. current_size' = 0 /\ Alive' = Borrowed
    BY <1>0, <1>6, DestoryOwned DEF DestoryConnPool
  <2>2. Cardinality(Borrowed) \in Nat
    <3>1. IsFiniteSet(Borrowed)
      BY <1>0, OneAtMost, FS_EmptySet, FS_Singleton
    <3> QED BY <3>1, FS_CardinalityType
  <2>3. Ahead' <= 0
    BY <2>1, <2>2 DEF Ahead
  <2> QED BY <1>1, <2>3
<1>7. CASE FillPool
  <2>1. Ahead' = Ahead
    BY <1>0, <1>7, FillCounts
  <2> QED BY <1>0, <1>1, <2>1
<1>8. ASSUME NEW c \in Conns, NetworkStep(c) PROVE Ahead' = Ahead
  <2>1. (\A d \in Conns : Same(d)) /\ current_size' = current_size
    BY <1>0, <1>8, NetworkKeeps
  <2>2. Alive' = Alive
    BY <2>1 DEF Alive, Same
  <2> QED BY <2>1, <2>2 DEF Ahead
<1> QED BY <1>0, <1>1, <1>2, <1>3, <1>4, <1>5, <1>6, <1>7, <1>8, NextCases

-----------------------------------------------------------------------------
(* Connections to a server that is no longer configured: all but the one a *)
(* plugin thread has borrowed are gone when initPool fills the pool.       *)

Settled ==
  \/ pc["host"] = "fill"
  \/ pc["host"] \in {"idle", "checkParams"} /\ params # Blank

StaleInv == Settled => \A c, d \in Stale : c = d

LEMMA StaleKept ==
  ASSUME TypeOK, params' = params,
         \A c \in Conns : Same(c) \/ conn'[c] \in {conn[c], Deleted, Fresh(params)}
  PROVE  Stale' \subseteq Stale
<1>1. params \in Settings
  BY Typed
<1>2. ASSUME NEW c \in Conns, conn'[c].status # "deleted", conn'[c].to # params
      PROVE  conn[c].status # "deleted" /\ conn[c].to # params
  BY <1>1, <1>2, NewTyped DEF Same
<1> QED BY <1>2 DEF Stale, Alive

LEMMA StaleStep ==
  ASSUME IInv, StaleInv, [Next]_vars
  PROVE  StaleInv'
<1>0. /\ TypeOK /\ Positions /\ OneOwner
      /\ pc \in [Threads -> Places]
      /\ Workers = {"check", "func"} /\ Threads = {"check", "func", "host"}
  BY Typed DEF IInv, Workers, Threads, Places
<1>1. CASE SetParams
  BY <1>0, <1>1 DEF SetParams, Goto, StaleInv, Settled
<1>2. CASE DestoryConnPool
  <2>1. Alive' = Borrowed
    BY <1>0, <1>2, DestoryOwned
  <2>2. \A c, d \in Borrowed : c = d
    BY <1>0, OneAtMost
  <2> QED BY <2>1, <2>2 DEF StaleInv, Stale
<1>3. CASE ~SetParams /\ ~DestoryConnPool
  <2>1. params' = params
        /\ \A c \in Conns : Same(c) \/ conn'[c] \in {conn[c], Deleted, Fresh(params)}
    <3>1. CASE Quiet \/ UNCHANGED vars
      BY <3>1, QuietKeeps DEF vars
    <3>2. CASE CheckBeat \/ CheckAsk
      <4>1. params' = params
        BY <3>2 DEF CheckBeat, CheckAsk
      <4> QED BY <1>0, <3>2, <4>1, PingKeeps
    <3>3. CASE CheckGet \/ FuncGet
      BY <1>0, <3>3, GetOwned DEF CheckGet, FuncGet, Goto
    <3>4. CASE CheckRelease \/ FuncRelease
      BY <1>0, <3>4, ReleaseOwned DEF CheckRelease, FuncRelease, Goto
    <3>5. CASE CheckDrop \/ Renew \/ FillPool
      <4>1. params' = params
        BY <3>5 DEF CheckDrop, Renew, FillPool
      <4> QED BY <1>0, <3>5, <4>1, DropOwned, RenewOwned, FillOwned
    <3>6. ASSUME NEW c \in Conns, NetworkStep(c)
          PROVE  params' = params /\ \A d \in Conns : Same(d)
      BY <1>0, <3>6, NetworkKeeps
    <3> QED BY <1>3, <3>1, <3>2, <3>3, <3>4, <3>5, <3>6, NextCases
  <2>2. Stale' \subseteq Stale
    BY <1>0, <2>1, StaleKept
  <2>3. Settled' => Settled
    <3>1. CASE pc'["host"] = pc["host"]
      BY <2>1, <3>1 DEF Settled
    <3>2. CASE SetupSocket \/ CheckParams \/ InitPool \/ FillPool
      BY <1>0, <2>1, <3>2 DEF SetupSocket, CheckParams, NeedsRestart, InitPool, FillPool, Goto,
           Settled
    <3> QED BY <1>0, <1>3, <3>1, <3>2, HostMoves
  <2> QED BY <2>2, <2>3 DEF StaleInv
<1> QED BY <1>1, <1>2, <1>3

LEMMA InitStale == Init => StaleInv
  BY NewTyped DEF Init, StaleInv, Stale, Alive

-----------------------------------------------------------------------------
(* m_heart_count never passes MAX_BEAT_HEART_COUNT + 1, although its ++ is *)
(* not atomic, and the variables keep their types.                         *)
THEOREM TypeCorrect == Spec => []TypeOK
<1>1. IInv => TypeOK
  BY DEF IInv
<1> QED BY <1>1, Inductive, PTL

(* Every MyIOCP object is in the pool once or borrowed by one thread, for  *)
(* any number of connections, reconfigurations and failures.               *)
THEOREM ConnectionsAreOwned == Spec => []OneOwner
<1>1. IInv => OneOwner
  BY DEF IInv
<1> QED BY <1>1, Inductive, PTL

(* A connection checkConnection is about to give up has not answered: no   *)
(* order of the ++ and the reset by an answer makes an answered one look   *)
(* silent.                                                                 *)
THEOREM OnlySilentAreDropped == Spec => []DroppedOnlySilent
<1>1. IInv => DroppedOnlySilent
  <2> SUFFICES ASSUME IInv, NEW c \in Pooled, conn[c].heart_count > 0 PROVE conn[c].asked
    BY DEF DroppedOnlySilent
  <2>1. c \in Conns /\ c \notin Borrowed
    BY OwnedNow DEF IInv, OneOwner, Owned, Alive
  <2>2. conn[c].asked \/ held["check"] = c
    BY <2>1 DEF IInv, Unanswered
  <2>3. held["check"] # c
    BY <2>1, IdsAssumption DEF Borrowed, Workers
  <2> QED BY <2>2, <2>3, Zenon
<1> QED BY <1>1, Inductive, PTL

(* The cap holds for all sizes with room for one refill on top of what the *)
(* plugin threads keep (in the code 2 + 1 <= 4), although the counter      *)
(* GetConnection tests drifts.                                             *)
THEOREM CapIsKept ==
  ASSUME Base + MAN_POOL_SIZE_INIT <= POOL_MAX
  PROVE  Spec => []WithinCap
<1>1. IInv /\ SizeInv /\ [Next]_vars => SizeInv'
  BY SizeStep
<1>2. IInv /\ SizeInv => WithinCap
  <2> SUFFICES ASSUME IInv, SizeInv PROVE WithinCap
    OBVIOUS
  <2>1. Cardinality(Alive) <= Size /\ IsFiniteSet(Alive)
    <3>1. IsFiniteSet(Pooled) /\ Alive = Pooled \cup Borrowed
      BY PoolSize, OwnedNow DEF IInv, Owned, Pooled
    <3>2. IsFiniteSet(Alive)
      <4>1. CASE Borrowed = {}
        BY <3>1, <4>1
      <4>2. ASSUME NEW b, Borrowed = {b} PROVE IsFiniteSet(Alive)
        BY <3>1, <4>2, FS_AddElement
      <4> QED BY <4>1, <4>2, OneAtMost DEF IInv
    <3> QED BY <3>2, AliveBySize DEF IInv
  <2>2. Cardinality(Alive) \in Nat /\ Size \in Nat /\ Base \in Nat
    BY <2>1, FS_CardinalityType, OwnedNow, SizesAssumption DEF IInv, Base
  <2>3. Due \in Nat /\ Room <= MAN_POOL_SIZE_INIT /\ Room \in Nat /\ MAN_POOL_SIZE_INIT \in Nat /\ POOL_MAX \in Nat
    BY SizesAssumption DEF Due, Room
  <2> QED BY <2>1, <2>2, <2>3 DEF SizeInv, WithinCap
<1> QED BY <1>1, <1>2, InitSize, Inductive, PTL DEF Spec

(* After a reconfiguration at most one connection to the former server is  *)
(* left, however many reconfigurations there are.                          *)
THEOREM StaleAreGone == Spec => []AtMostOneStale
<1>1. IInv /\ StaleInv /\ [Next]_vars => StaleInv'
  BY StaleStep
<1>2. StaleInv => AtMostOneStale
  <2> SUFFICES ASSUME StaleInv, pc["host"] = "idle", params # Blank PROVE Cardinality(Stale) <= 1
    BY DEF AtMostOneStale
  <2>1. \A c, d \in Stale : c = d
    BY DEF StaleInv, Settled
  <2>2. CASE Stale = {}
    BY <2>2, FS_EmptySet
  <2>3. ASSUME NEW c \in Stale PROVE Cardinality(Stale) <= 1
    <3>1. Stale = {c}
      BY <2>1
    <3>2. Cardinality({c}) = 1
      BY FS_Singleton
    <3> QED BY <3>1, <3>2
  <2> QED BY <2>2, <2>3
<1> QED BY <1>1, <1>2, InitStale, Inductive, PTL DEF Spec
(* The counter GetConnection tests never gets ahead of the connections     *)
(* that exist but by a heartbeat drop, which puts it ahead by exactly one. *)
(* All other paths, the failed creations among them, keep it or put it     *)
(* back to at most what exists.                                            *)
THEOREM CounterDrift ==
  Spec => [][/\ CheckDrop => Ahead' = Ahead + 1
             /\ ~CheckDrop => Ahead' <= Ahead \/ Ahead' <= 0]_vars
<1>1. IInv /\ [Next]_vars => [/\ CheckDrop => Ahead' = Ahead + 1
                              /\ ~CheckDrop => Ahead' <= Ahead \/ Ahead' <= 0]_vars
  BY AheadStep
<1> QED BY <1>1, Inductive, PTL DEF Spec

(* The drop is the one cause of a refusal below POOL_MAX: in a behaviour   *)
(* in which checkConnection gives up no connection, GetConnection refuses  *)
(* only when POOL_MAX connections exist, whatever creations fail and       *)
(* however the pool is reconfigured.                                       *)
THEOREM RefusedForDropsOnly ==
  Spec /\ [][~CheckDrop]_vars => []RefusedOnlyWhenFull
<1>1. Init => NotAhead
  <2> SUFFICES ASSUME Init PROVE NotAhead
    OBVIOUS
  <2>1. Alive = {} /\ current_size = 0
    BY NewTyped DEF Init, Alive
  <2>2. Cardinality(Alive) = 0
    BY <2>1, FS_EmptySet
  <2> QED BY <2>1, <2>2 DEF Ahead, NotAhead
<1>2. IInv /\ IInv' /\ NotAhead /\ [Next]_vars /\ [~CheckDrop]_vars => NotAhead'
  <2> SUFFICES ASSUME IInv, IInv', NotAhead, [Next]_vars, [~CheckDrop]_vars PROVE NotAhead'
    OBVIOUS
  <2>1. Ahead \in Int /\ Ahead' \in Int
    <3>1. current_size \in Int /\ Cardinality(Alive) \in Nat
      BY Typed, AliveFinite DEF IInv
    <3>2. (current_size \in Int /\ Cardinality(Alive) \in Nat)'
      BY Typed, AliveFinite, PTL DEF IInv
    <3> QED BY <3>1, <3>2 DEF Ahead
  <2>2. CASE ~CheckDrop
    BY <2>1, <2>2, AheadStep DEF NotAhead
  <2>3. CASE UNCHANGED vars
    BY <2>3 DEF vars, NotAhead, Ahead, Alive
  <2> QED BY <2>2, <2>3
<1>3. IInv /\ NotAhead => RefusedOnlyWhenFull
  <2> SUFFICES ASSUME IInv, NotAhead, current_size >= POOL_MAX PROVE Cardinality(Alive) >= POOL_MAX
    BY DEF RefusedOnlyWhenFull
  <2>1. current_size \in Int /\ Cardinality(Alive) \in Nat /\ POOL_MAX \in Nat
    BY Typed, AliveFinite, SizesAssumption DEF IInv
  <2> QED BY <2>1 DEF Ahead, NotAhead
<1> QED BY <1>1, <1>2, <1>3, Inductive, PTL DEF Spec
-----------------------------------------------------------------------------
(* What the pool assumes of a connection is what ConnectionStatus allows   *)
(* it: the specification TextClient is shown to implement.                 *)

Object(c) == INSTANCE ConnectionStatus WITH status <- conn[c].status

(* A new object in the place of one that is not there, or that the same    *)
(* section has deleted.                                                    *)
Recreated(c) == ~IsConnected(c) /\ conn'[c] = Fresh(params)

LEMMA StatusSteps ==
  ASSUME TypeOK, NEW c \in Conns, NetworkStep(c)
  PROVE  /\ Object(c)!Next \/ conn'[c].status = conn[c].status
         /\ \A d \in Conns : d # c => conn'[d] = conn[d]
<1>1. /\ conn[c].status \in Statuses /\ conn[c].heart_count \in 0 .. MAX_BEAT_HEART_COUNT + 1
      /\ conn[c].asked \in BOOLEAN
  BY ConnFields
<1>2. ASSUME NEW from \in Statuses, NEW to \in Statuses, StatusStep(c, from, to)
      PROVE  /\ conn[c].status = from /\ conn'[c].status = to
             /\ \A d \in Conns : d # c => conn'[d] = conn[d]
  BY <1>1, <1>2, BecomeTyped DEF StatusStep
<1>3. {"connecting", "connected", "closed", "zombie"} \subseteq Statuses
  BY DEF Statuses
<1>4. CASE Answered(c)
  <2>1. conn[c].status = "connected" /\ Become(c, "connected", 0, FALSE)
    BY <1>4 DEF Answered
  <2>2. 0 \in 0 .. MAX_BEAT_HEART_COUNT + 1 /\ FALSE \in BOOLEAN
    BY SizesAssumption
  <2> QED BY <1>3, <2>1, <2>2, BecomeTyped
<1>5. CASE Connected(c)
  BY <1>2, <1>3, <1>5 DEF Connected, Object!Next, Object!Connected, Object!Become
<1>6. CASE ConnectFailed(c)
  BY <1>2, <1>3, <1>6 DEF ConnectFailed, Object!Next, Object!ConnectFailed, Object!Become
<1>7. CASE Disconnected(c)
  BY <1>2, <1>3, <1>7 DEF Disconnected, Object!Next, Object!Disconnected, Object!Become
<1>8. CASE PeerClosed(c)
  BY <1>2, <1>3, <1>8 DEF PeerClosed, Object!Next, Object!PeerClosed, Object!Become
<1> QED BY <1>4, <1>5, <1>6, <1>7, <1>8 DEF NetworkStep

(* What the threads of the plugin do to an object, and what the network    *)
(* and its own thread do.                                                  *)
PluginStep(c) ==
  Object(c)!Delete \/ conn'[c].status = conn[c].status \/ Recreated(c)
ObjectStep(c) == PluginStep(c) \/ (NetworkStep(c) /\ Object(c)!Next)

LEMMA DeleteSteps ==
  ASSUME TypeOK, NEW c \in Conns, conn'[c] = conn[c] \/ conn'[c] = Deleted
  PROVE  PluginStep(c)
<1>1. CASE conn'[c] = conn[c]
  BY <1>1 DEF PluginStep
<1>2. CASE conn'[c] = Deleted /\ conn[c].status # "deleted"
  BY <1>2, NewTyped DEF PluginStep, Object!Delete
<1>3. CASE conn'[c] = Deleted /\ conn[c].status = "deleted"
  BY <1>3, NewTyped DEF PluginStep
<1> QED BY <1>1, <1>2, <1>3

LEMMA CreateSteps ==
  ASSUME TypeOK, NEW n \in Conns \cup {NoConn}, NEW gone \in SUBSET Conns,
         \A d \in gone : ~IsConnected(d), CreateConnection(n, gone), NEW c \in Conns
  PROVE  PluginStep(c)
<1> DEFINE rest == [d \in Conns |-> IF d \in gone THEN Deleted ELSE conn[d]]
<1>1. \/ conn' = rest
      \/ /\ n \in Conns /\ rest[n] = Deleted
         /\ conn' = [rest EXCEPT ![n] = Fresh(params)]
  BY Zenon DEF CreateConnection
<1>2. \A d \in Conns : rest[d] = IF d \in gone THEN Deleted ELSE conn[d]
  OBVIOUS
<1>3. \A d \in Conns : rest[d] = Deleted => ~IsConnected(d)
  BY <1>2, NewTyped DEF IsConnected
<1>4. rest \in [Conns -> ConnType]
  BY Typed, NewTyped
<1> HIDE DEF rest
<1>5. conn'[c] = rest[c] \/ (conn'[c] = Fresh(params) /\ rest[c] = Deleted)
  BY <1>1, <1>4
<1>6. CASE conn'[c] = rest[c]
  BY <1>2, <1>6, DeleteSteps
<1>7. CASE conn'[c] = Fresh(params) /\ rest[c] = Deleted
  BY <1>3, <1>7 DEF PluginStep, Recreated
<1> QED BY <1>5, <1>6, <1>7

LEMMA GetSteps ==
  ASSUME TypeOK, OneOwner, NEW w \in Workers, GetConnection(w), NEW c \in Conns
  PROVE  PluginStep(c)
<1>1. PICK n \in Conns \cup {NoConn} :
        TakeConnected(n) \/ ReplaceDisconnected(n) \/ OpenAnother(n) \/ Refuse(n)
  BY DEF GetConnection
<1>2. CASE TakeConnected(n) \/ Refuse(n)
  BY <1>2, Zenon DEF TakeConnected, Refuse, PluginStep
<1>3. CASE ReplaceDisconnected(n)
  <2>1. pool # <<>> /\ ~IsConnected(Head(pool)) /\ CreateConnection(n, {Head(pool)})
    BY <1>3 DEF ReplaceDisconnected
  <2>2. Head(pool) \in Conns
    BY <2>1, Typed, TailPool DEF OneOwner
  <2> QED BY <2>1, <2>2, CreateSteps
<1>4. CASE OpenAnother(n)
  <2>1. CreateConnection(n, {})
    BY <1>4 DEF OpenAnother
  <2> QED BY <2>1, CreateSteps
<1> QED BY <1>1, <1>2, <1>3, <1>4

LEMMA ObjectSteps ==
  ASSUME IInv, [Next]_vars, NEW c \in Conns
  PROVE  ObjectStep(c)
<1>0. TypeOK /\ Positions /\ OneOwner /\ "check" \in Workers /\ "func" \in Workers
  BY DEF IInv, Workers
<1>1. ASSUME Quiet \/ SetParams \/ CheckRelease \/ FuncRelease \/ UNCHANGED vars PROVE PluginStep(c)
  <2>1. conn' = conn
    BY <1>0, <1>1, QuietKeeps, Releases DEF SetParams, CheckRelease, FuncRelease, vars
  <2> QED BY <2>1 DEF PluginStep
<1>2. ASSUME CheckBeat \/ CheckAsk PROVE PluginStep(c)
  <2>1. held["check"] \in Conns /\ \A d \in Conns : d # held["check"] => conn'[d] = conn[d]
    BY <1>0, <1>2, PingKeeps
  <2>2. /\ conn[held["check"]].status \in Statuses /\ conn[held["check"]].asked \in BOOLEAN
        /\ conn[held["check"]].heart_count \in 0 .. MAX_BEAT_HEART_COUNT + 1 /\ TRUE \in BOOLEAN
        /\ beat + 1 \in 0 .. MAX_BEAT_HEART_COUNT + 1
    <3>1. beat \in 0 .. MAX_BEAT_HEART_COUNT /\ MAX_BEAT_HEART_COUNT \in Nat
      BY <1>0, Typed, SizesAssumption
    <3>2. beat + 1 \in 0 .. MAX_BEAT_HEART_COUNT + 1
      BY <3>1
    <3> QED BY <1>0, <2>1, <3>2, ConnFields
  <2>3. conn'[held["check"]].status = conn[held["check"]].status
    <3>1. CASE CheckBeat
      <4>1. Become(held["check"], conn[held["check"]].status, beat + 1, conn[held["check"]].asked)
        BY <3>1 DEF CheckBeat
      <4> QED BY <1>0, <2>1, <2>2, <4>1, BecomeTyped
    <3>2. CASE CheckAsk
      <4>1. Become(held["check"], conn[held["check"]].status, conn[held["check"]].heart_count, TRUE)
        BY <3>2 DEF CheckAsk
      <4> QED BY <1>0, <2>1, <2>2, <4>1, BecomeTyped
    <3> QED BY <1>2, <3>1, <3>2
  <2> QED BY <2>1, <2>3, Zenon DEF PluginStep
<1>3. ASSUME CheckGet \/ FuncGet PROVE PluginStep(c)
  BY <1>0, <1>3, GetSteps DEF CheckGet, FuncGet
<1>4. ASSUME CheckDrop PROVE PluginStep(c)
  BY <1>0, <1>4, DropOwned, DeleteSteps
<1>5. ASSUME Renew PROVE PluginStep(c)
  <2>1. PICK n \in Conns \cup {NoConn} : CreateConnection(n, {})
    BY <1>5 DEF Renew
  <2> QED BY <1>0, <2>1, CreateSteps
<1>6. ASSUME DestoryConnPool PROVE PluginStep(c)
  BY <1>0, <1>6, DestoryOwned, DeleteSteps
<1>7. ASSUME FillPool PROVE PluginStep(c)
  <2>1. PICK n \in 0 .. MAN_POOL_SIZE_INIT : \E fresh \in [1 .. n -> Conns \ Alive] :
          conn' = [d \in Conns |-> IF d \in ToSet(fresh) THEN Fresh(params) ELSE conn[d]]
    BY <1>7, Zenon DEF FillPool
  <2>2. PICK fresh \in [1 .. n -> Conns \ Alive] :
          conn' = [d \in Conns |-> IF d \in ToSet(fresh) THEN Fresh(params) ELSE conn[d]]
    BY <2>1
  <2>3. ToSet(fresh) \cap Alive = {}
    BY DEF ToSet
  <2>4. conn'[c] = IF c \in ToSet(fresh) THEN Fresh(params) ELSE conn[c]
    BY <2>2
  <2>5. CASE c \in ToSet(fresh)
    BY <2>3, <2>4, <2>5 DEF Alive, PluginStep, Recreated, IsConnected
  <2>6. CASE c \notin ToSet(fresh)
    BY <2>4, <2>6 DEF PluginStep
  <2> QED BY <2>5, <2>6
<1>8. ASSUME NEW d \in Conns, NetworkStep(d) PROVE ObjectStep(c)
  BY <1>0, <1>8, StatusSteps, Zenon DEF ObjectStep, PluginStep
<1> QED BY <1>1, <1>2, <1>3, <1>4, <1>5, <1>6, <1>7, <1>8, NextCases DEF ObjectStep

(* Every object of the pool lives as ConnectionStatus says, for any number *)
(* of connections and reconfigurations: between its creation and its       *)
(* deletion its status moves as TextClient moves it (ImplementsStatus), no *)
(* thread of the plugin but by deleting it, and an identity is used again  *)
(* only for an object that is deleted or not connected.                    *)
THEOREM ObjectsFollowStatus == Spec => [][\A c \in Conns : ObjectStep(c)]_vars
<1>1. IInv /\ [Next]_vars => [\A c \in Conns : ObjectStep(c)]_vars
  BY ObjectSteps
<1> QED BY <1>1, Inductive, PTL DEF Spec

=============================================================================
