------------------------ MODULE DealerRequests_proofs ------------------------
(***************************************************************************)
(* Proofs about DealerRequests for any number of host threads, request ids *)
(* and confirmations.                                                      *)
(***************************************************************************)
EXTENDS DealerRequests, TLAPS

(* Who is between the lock and the unlock of askLPtoOpenTrade owns the     *)
(* lock, and its local variables describe the request it has queued.       *)
AskerInv ==
  \A a \in Askers :
    /\ pc[a] \in {"add", "record"} => procLock = a
    /\ pc[a] # "idle" => trans[a] \in Trades
    /\ pc[a] = "record" => /\ reqId[a] \in Ids
                           /\ queued[reqId[a]] = trans[a].deal
                           /\ requestsMadeByCode[reqId[a]] = None

(* A request of the plugin is recorded, or the thread that queued it still *)
(* holds the lock and is about to record it; nothing else is recorded.     *)
RecordInv ==
  \A id \in Ids :
    /\ Ours(id) => \/ requestsMadeByCode[id] # None
                   \/ \E a \in Askers : pc[a] = "record" /\ reqId[a] = id
    /\ requestsMadeByCode[id] # None =>
         Ours(id) /\ requestsMadeByCode[id].deal = queued[id]

(* Only queued requests are confirmed. *)
ConfirmInv ==
  \A id \in Ids :
    /\ confirming[id] > 0 => queued[id] # Unused
    /\ id \in noRequest => queued[id] = Foreign
    /\ opened[id] > 0 => requestsMadeByCode[id] # None
    /\ opened[id] + confirming[id] <= confirmed[id]

IInv == TypeOK /\ AskerInv /\ RecordInv /\ ConfirmInv

LEMMA InitIInv == Init => IInv
  BY QueueAssumption, ThreadsAssumption
  DEF Init, IInv, TypeOK, AskerInv, RecordInv, ConfirmInv, Ours

(* Every step of the program keeps the types. *)
LEMMA TypeStep == TypeOK /\ AskerInv /\ [Next]_vars => TypeOK'
<1> SUFFICES ASSUME TypeOK, AskerInv, [Next]_vars PROVE TypeOK'
  OBVIOUS
<1> USE DEF TypeOK, hostVars, confirmVars, askVars
<1>1. ASSUME NEW a \in Askers, NEW t \in Trades, Quote(a, t) PROVE TypeOK'
  BY <1>1 DEF Quote, Goto
<1>2. ASSUME NEW a \in Askers, Enter(a) PROVE TypeOK'
  BY <1>2 DEF Enter, Goto, Acquire
<1>3. ASSUME NEW a \in Askers, NEW id \in Ids, RequestsAddAccepted(a, id) PROVE TypeOK'
  <2>1. trans[a].deal \in Deals
    BY <1>3 DEF RequestsAddAccepted, Goto, AskerInv, Trades
  <2> QED BY <1>3, <2>1 DEF RequestsAddAccepted, Goto
<1>4. ASSUME NEW a \in Askers, RequestsAddRefused(a) PROVE TypeOK'
  BY <1>4 DEF RequestsAddRefused, Goto, Release
<1>5. ASSUME NEW a \in Askers, Record(a) PROVE TypeOK'
  BY <1>5 DEF Record, Goto, Release, AskerInv
<1>6. ASSUME NEW id \in Ids, ConfirmThread(id) PROVE TypeOK'
  BY <1>6 DEF ConfirmThread, ConfirmFound, ConfirmMissing
<1>7. ASSUME NEW id \in Ids, ClientRequest(id) PROVE TypeOK'
  BY <1>7 DEF ClientRequest
<1>8. ASSUME NEW id \in Ids, SrvDealerConfirm(id) PROVE TypeOK'
  BY <1>8 DEF SrvDealerConfirm
<1>9. ASSUME NEW p \in Pollers, Poll(p) PROVE TypeOK'
  BY <1>9 DEF Poll, Acquire, Release
<1>10. CASE UNCHANGED vars
  BY <1>10 DEF vars
<1> QED BY <1>1, <1>2, <1>3, <1>4, <1>5, <1>6, <1>7, <1>8, <1>9, <1>10 DEF Next

LEMMA AskerStep == IInv /\ [Next]_vars => AskerInv'
<1> SUFFICES ASSUME IInv, [Next]_vars PROVE AskerInv'
  OBVIOUS
<1> USE ThreadsAssumption DEF IInv, TypeOK, AskerInv, hostVars, confirmVars, askVars
<1>1. ASSUME NEW a \in Askers, NEW t \in Trades, Quote(a, t) PROVE AskerInv'
  BY <1>1 DEF Quote, Goto
<1>2. ASSUME NEW a \in Askers, Enter(a) PROVE AskerInv'
  BY <1>2 DEF Enter, Goto, Acquire
<1>3. ASSUME NEW a \in Askers, NEW id \in Ids, RequestsAddAccepted(a, id) PROVE AskerInv'
  <2>1. requestsMadeByCode[id] = None
    BY <1>3 DEF RequestsAddAccepted, RecordInv, Ours
  <2>2. \A b \in Askers \ {a} : pc[b] # "record"
    BY <1>3 DEF RequestsAddAccepted, Goto
  <2> QED BY <1>3, <2>1, <2>2 DEF RequestsAddAccepted, Goto
<1>4. ASSUME NEW a \in Askers, RequestsAddRefused(a) PROVE AskerInv'
  BY <1>4 DEF RequestsAddRefused, Goto, Release
<1>5. ASSUME NEW a \in Askers, Record(a) PROVE AskerInv'
  BY <1>5 DEF Record, Goto, Release
<1>6. ASSUME NEW id \in Ids, ConfirmThread(id) PROVE AskerInv'
  BY <1>6 DEF ConfirmThread
<1>7. ASSUME NEW id \in Ids, ClientRequest(id) PROVE AskerInv'
  <2>1. \A a \in Askers : pc[a] = "record" => reqId[a] # id
    BY <1>7, QueueAssumption DEF ClientRequest, Trades
  <2> QED BY <1>7, <2>1 DEF ClientRequest
<1>8. ASSUME NEW id \in Ids, SrvDealerConfirm(id) PROVE AskerInv'
  BY <1>8 DEF SrvDealerConfirm
<1>9. ASSUME NEW p \in Pollers, Poll(p) PROVE AskerInv'
  BY <1>9 DEF Poll, Acquire, Release
<1>10. CASE UNCHANGED vars
  BY <1>10 DEF vars
<1> QED BY <1>1, <1>2, <1>3, <1>4, <1>5, <1>6, <1>7, <1>8, <1>9, <1>10 DEF Next

LEMMA RecordStep == IInv /\ [Next]_vars => RecordInv'
<1> SUFFICES ASSUME IInv, [Next]_vars PROVE RecordInv'
  OBVIOUS
<1> USE DEF IInv, TypeOK, RecordInv, Ours, hostVars, confirmVars, askVars
<1>1. ASSUME NEW a \in Askers, NEW t \in Trades, Quote(a, t) PROVE RecordInv'
  BY <1>1 DEF Quote, Goto
<1>2. ASSUME NEW a \in Askers, Enter(a) PROVE RecordInv'
  BY <1>2 DEF Enter, Goto
<1>3. ASSUME NEW a \in Askers, NEW id \in Ids, RequestsAddAccepted(a, id) PROVE RecordInv'
  BY <1>3 DEF RequestsAddAccepted, Goto
<1>4. ASSUME NEW a \in Askers, RequestsAddRefused(a) PROVE RecordInv'
  BY <1>4 DEF RequestsAddRefused, Goto
<1>5. ASSUME NEW a \in Askers, Record(a) PROVE RecordInv'
  <2>1. /\ trans[a] \in Trades /\ trans[a] # None /\ trans[a].deal \in Deals
        /\ queued[reqId[a]] = trans[a].deal /\ reqId[a] \in Ids
    BY <1>5, ValuesAssumption DEF Record, Goto, AskerInv, Trades
  <2> QED BY <1>5, <2>1, QueueAssumption DEF Record, Goto
<1>6. ASSUME NEW id \in Ids, ConfirmThread(id) PROVE RecordInv'
  BY <1>6 DEF ConfirmThread
<1>7. ASSUME NEW id \in Ids, ClientRequest(id) PROVE RecordInv'
  BY <1>7 DEF ClientRequest
<1>8. ASSUME NEW id \in Ids, SrvDealerConfirm(id) PROVE RecordInv'
  BY <1>8 DEF SrvDealerConfirm
<1>9. ASSUME NEW p \in Pollers, Poll(p) PROVE RecordInv'
  BY <1>9 DEF Poll
<1>10. CASE UNCHANGED vars
  BY <1>10 DEF vars
<1> QED BY <1>1, <1>2, <1>3, <1>4, <1>5, <1>6, <1>7, <1>8, <1>9, <1>10 DEF Next

LEMMA ConfirmStep == IInv /\ [Next]_vars => ConfirmInv'
<1> SUFFICES ASSUME IInv, [Next]_vars PROVE ConfirmInv'
  OBVIOUS
<1> USE QueueAssumption DEF IInv, TypeOK, ConfirmInv, hostVars, confirmVars, askVars
<1>1. ASSUME NEW a \in Askers, NEW t \in Trades, Quote(a, t) PROVE ConfirmInv'
  BY <1>1 DEF Quote
<1>2. ASSUME NEW a \in Askers, Enter(a) PROVE ConfirmInv'
  BY <1>2 DEF Enter
<1>3. ASSUME NEW a \in Askers, NEW id \in Ids, RequestsAddAccepted(a, id) PROVE ConfirmInv'
  <2>1. trans[a].deal \in Deals
    BY <1>3 DEF RequestsAddAccepted, Goto, AskerInv, Trades
  <2> QED BY <1>3, <2>1 DEF RequestsAddAccepted
<1>4. ASSUME NEW a \in Askers, RequestsAddRefused(a) PROVE ConfirmInv'
  BY <1>4 DEF RequestsAddRefused
<1>5. ASSUME NEW a \in Askers, Record(a) PROVE ConfirmInv'
  <2>1. trans[a] # None
    BY <1>5, ValuesAssumption DEF Record, Goto, AskerInv
  <2> QED BY <1>5, <2>1 DEF Record
<1>6. ASSUME NEW id \in Ids, ConfirmThread(id) PROVE ConfirmInv'
  <2>1. CASE ConfirmFound(id)
    BY <1>6, <2>1 DEF ConfirmThread, ConfirmFound
  <2>2. CASE ConfirmMissing(id)
    (* The lock is free, so no thread is about to record this request. *)
    <3>1. \A a \in Askers : pc[a] # "record"
      BY <1>6, ThreadsAssumption DEF ConfirmThread, AskerInv
    <3>2. queued[id] = Foreign
      BY <1>6, <2>2, <3>1 DEF ConfirmThread, ConfirmMissing, RecordInv, Ours
    <3> QED BY <1>6, <2>2, <3>2 DEF ConfirmThread, ConfirmMissing
  <2> QED BY <1>6, <2>1, <2>2 DEF ConfirmThread
<1>7. ASSUME NEW id \in Ids, ClientRequest(id) PROVE ConfirmInv'
  BY <1>7 DEF ClientRequest
<1>8. ASSUME NEW id \in Ids, SrvDealerConfirm(id) PROVE ConfirmInv'
  BY <1>8 DEF SrvDealerConfirm
<1>9. ASSUME NEW p \in Pollers, Poll(p) PROVE ConfirmInv'
  BY <1>9 DEF Poll
<1>10. CASE UNCHANGED vars
  BY <1>10 DEF vars
<1> QED BY <1>1, <1>2, <1>3, <1>4, <1>5, <1>6, <1>7, <1>8, <1>9, <1>10 DEF Next

LEMMA Invariance == Spec => []IInv
<1>1. IInv /\ [Next]_vars => IInv'
  BY TypeStep, AskerStep, RecordStep, ConfirmStep DEF IInv
<1> QED BY InitIInv, <1>1, PTL DEF Spec

-----------------------------------------------------------------------------
(* The variables of DealerRequests keep their types. *)
THEOREM TypeCorrect == Spec => []TypeOK
<1>1. IInv => TypeOK
  BY DEF IInv
<1> QED BY Invariance, <1>1, PTL

(* A confirmation of a request of the plugin always finds its trade,       *)
(* however host threads, confirm threads and pollers interleave: the lock  *)
(* is held from before RequestsAdd until the trade is in the map.          *)
THEOREM ConfirmationsFindTheirTrade == Spec => []NoConfirmMissed
<1>1. IInv => NoConfirmMissed
  BY DEF IInv, TypeOK, ConfirmInv, NoConfirmMissed, Ours
<1> QED BY Invariance, <1>1, PTL

(* SrvDealerConfirm opens orders only for requests of the plugin, for the  *)
(* deal the host queued, and no more of them than there were confirmations.*)
THEOREM OrdersAreForRequests == Spec => []OrdersMatchRequests
<1>1. IInv => OrdersMatchRequests
  BY DEF IInv, TypeOK, ConfirmInv, RecordInv, OrdersMatchRequests
<1> QED BY Invariance, <1>1, PTL

(* No step overwrites or removes an entry of requestsMadeByCode. *)
THEOREM RecordsStay == Spec => RecordsAreFinal
<1>1. IInv /\ [Next]_vars =>
        [\A id \in Ids : requestsMadeByCode[id] # None
           => requestsMadeByCode'[id] = requestsMadeByCode[id]]_vars
  <2> SUFFICES ASSUME IInv, Next, NEW id \in Ids, requestsMadeByCode[id] # None
               PROVE  requestsMadeByCode'[id] = requestsMadeByCode[id]
    OBVIOUS
  <2>1. ASSUME NEW a \in Askers, Record(a)
        PROVE requestsMadeByCode'[id] = requestsMadeByCode[id]
    BY <2>1 DEF Record, Goto, IInv, TypeOK, AskerInv
  <2>2. CASE \A a \in Askers : ~Record(a)
    BY <2>2 DEF Next, Quote, Enter, RequestsAddAccepted, RequestsAddRefused, ConfirmThread,
                ClientRequest, SrvDealerConfirm, Poll
  <2> QED BY <2>1, <2>2
<1> QED BY Invariance, <1>1, PTL DEF Spec, RecordsAreFinal
=============================================================================
