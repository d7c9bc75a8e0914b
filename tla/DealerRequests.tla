--------------------------- MODULE DealerRequests ---------------------------
(***************************************************************************)
(* How the plugin opens a trade through the dealing desk.  A host thread   *)
(* that reports a new trade of the watched account (SrvTradesAddExt) calls *)
(* CProcessor::askLPtoOpenTrade, which puts a request in the host's queue  *)
(* (RequestsAdd) and remembers the trade in requestsMadeByCode.  When a    *)
(* dealer confirms a request, any request, the host calls SrvDealerConfirm,*)
(* which starts a detached thread; that thread looks the request up and,   *)
(* if the plugin made it, opens the order (OrdersOpen).                    *)
(* Both sides hold CProcessor::m_ContextLock (procLock).  The host may     *)
(* confirm a request as soon as it is queued, before RequestsAdd returns.  *)
(***************************************************************************)
EXTENDS Naturals

CONSTANTS
  Askers,       \* host threads running SrvTradesAddExt for the watched login
  Pollers,      \* the two plugin threads of ConnectionPool, which share the lock
  Ids,          \* request ids of the host
  Deals,        \* symbol, side and volume of a TradeTransInfo
  ValidDeals,   \* those that pass the checks of CProcessor::OrdersOpen
  Prices,       \* quotes; HistoryPricesGroup may leave anything in prices[]
  Positive,     \* those above zero, which OrdersOpen requires
  MaxConfirms,  \* bound: confirmations the host makes of one request
  Unused,       \* an id the host has not given out
  Foreign,      \* a request of a client terminal
  None

Trades == [deal : Deals, price : Prices]     \* TradeTransInfo

ASSUME ThreadsAssumption == Askers \cap Pollers = {} /\ None \notin Askers \cup Pollers
ASSUME ValuesAssumption ==
  /\ ValidDeals \subseteq Deals /\ Positive \subseteq Prices
  /\ None \notin Trades /\ None \notin Ids
ASSUME QueueAssumption == Unused # Foreign /\ {Unused, Foreign} \cap Deals = {}
ASSUME ConfirmsAssumption == MaxConfirms \in Nat

VARIABLES
  requestsMadeByCode,  \* the map: the trade recorded for each id, or None
  pc, trans, reqId,    \* askLPtoOpenTrade: position and local variables
  procLock,            \* holder of CProcessor::m_ContextLock
  queued,              \* host: the request behind each id
  confirmed,           \* host: how often each request was confirmed
  confirming,          \* detached confirm threads that have not run yet
  opened,              \* orders opened on behalf of each request
  noRequest            \* ids logged with "No request"

vars == <<requestsMadeByCode, pc, trans, reqId, procLock, queued, confirmed,
          confirming, opened, noRequest>>
hostVars == <<queued, confirmed, confirming>>
confirmVars == <<opened, noRequest>>
askVars == <<pc, trans, reqId>>

Ours(id) == queued[id] \notin {Unused, Foreign}

Init ==
  /\ requestsMadeByCode = [id \in Ids |-> None]
  /\ pc = [a \in Askers |-> "idle"]
  /\ trans = [a \in Askers |-> None]
  /\ reqId = [a \in Askers |-> None]
  /\ procLock = None
  /\ queued = [id \in Ids |-> Unused]
  /\ confirmed = [id \in Ids |-> 0]
  /\ confirming = [id \in Ids |-> 0]
  /\ opened = [id \in Ids |-> 0]
  /\ noRequest = {}

Acquire(t) == procLock = None /\ procLock' = t
Release(t) == procLock = t /\ procLock' = None
Goto(a, here, there) == pc[a] = here /\ pc' = [pc EXCEPT ![a] = there]

-----------------------------------------------------------------------------
QuoteWithoutPrice(a, t) ==   \* mutant: the trade is recorded as copied, without a price
  /\ Goto(a, "idle", "quoted")
  /\ trans' = [trans EXCEPT ![a] = [deal |-> t.deal]]
  /\ UNCHANGED <<requestsMadeByCode, reqId, procLock, hostVars, confirmVars>>

(* askLPtoOpenTrade: the account exists and prices are read; an unknown    *)
(* account returns at once and changes nothing.  The request for the host  *)
(* is copied from the trade before its price is set: it carries the deal.  *)
Quote(a, t) ==
  /\ Goto(a, "idle", "quoted")
  /\ trans' = [trans EXCEPT ![a] = t]
  /\ UNCHANGED <<requestsMadeByCode, reqId, procLock, hostVars, confirmVars>>

Enter(a) ==
  /\ Goto(a, "quoted", "add")
  /\ Acquire(a)
  /\ UNCHANGED <<requestsMadeByCode, trans, reqId, hostVars, confirmVars>>

RequestsAddUnlocked(a, id) ==   \* mutant: the lock covers only the call
  /\ Goto(a, "add", "record")
  /\ queued[id] = Unused
  /\ queued' = [queued EXCEPT ![id] = trans[a].deal]
  /\ reqId' = [reqId EXCEPT ![a] = id]
  /\ Release(a)
  /\ UNCHANGED <<requestsMadeByCode, trans, confirmed, confirming, confirmVars>>

RequestsAddAccepted(a, id) ==
  /\ Goto(a, "add", "record")
  /\ queued[id] = Unused
  /\ queued' = [queued EXCEPT ![id] = trans[a].deal]
  /\ reqId' = [reqId EXCEPT ![a] = id]
  /\ UNCHANGED <<requestsMadeByCode, trans, procLock, confirmed, confirming, confirmVars>>

(* Any answer but RET_TRADE_ACCEPTED: nothing is recorded. *)
RequestsAddRefused(a) ==
  /\ Goto(a, "add", "idle")
  /\ Release(a)
  /\ trans' = [trans EXCEPT ![a] = None]
  /\ UNCHANGED <<requestsMadeByCode, reqId, hostVars, confirmVars>>

Record(a) ==
  /\ Goto(a, "record", "idle")
  /\ requestsMadeByCode' = [requestsMadeByCode EXCEPT ![reqId[a]] = trans[a]]
  /\ Release(a)
  /\ trans' = [trans EXCEPT ![a] = None]
  /\ reqId' = [reqId EXCEPT ![a] = None]
  /\ UNCHANGED <<hostVars, confirmVars>>

(* SrvDealerConfirm: the body of the detached thread runs under the lock   *)
(* from the look-up to the order, which uses the recorded price and not    *)
(* the confirmed one.  The entry stays in the map.  The host may refuse.   *)
ConfirmFound(id) ==
  /\ requestsMadeByCode[id] # None
  /\ \/ /\ requestsMadeByCode[id].deal \in ValidDeals
        /\ requestsMadeByCode[id].price \in Positive
        /\ opened' = [opened EXCEPT ![id] = @ + 1]
     \/ UNCHANGED opened
  /\ UNCHANGED noRequest

ConfirmMissingOpens(id) ==   \* mutant: no return after "No request"
  /\ requestsMadeByCode[id] = None
  /\ noRequest' = noRequest \cup {id}
  /\ opened' = [opened EXCEPT ![id] = @ + 1]

ConfirmMissing(id) ==
  /\ requestsMadeByCode[id] = None
  /\ noRequest' = noRequest \cup {id}
  /\ UNCHANGED opened

ConfirmThreadErases(id) ==   \* mutant: the entry is erased when it has been used
  /\ procLock = None
  /\ confirming[id] > 0
  /\ confirming' = [confirming EXCEPT ![id] = @ - 1]
  /\ ConfirmFound(id) \/ ConfirmMissing(id)
  /\ requestsMadeByCode' = [requestsMadeByCode EXCEPT ![id] = None]
  /\ UNCHANGED <<askVars, procLock, queued, confirmed>>

ConfirmThread(id) ==
  /\ procLock = None
  /\ confirming[id] > 0
  /\ confirming' = [confirming EXCEPT ![id] = @ - 1]
  /\ ConfirmFound(id) \/ ConfirmMissing(id)
  /\ UNCHANGED <<requestsMadeByCode, askVars, procLock, queued, confirmed>>

-----------------------------------------------------------------------------
(* The host: clients queue requests of their own; a dealer confirms a      *)
(* queued request, which calls SrvDealerConfirm and starts a thread.       *)
ClientRequest(id) ==
  /\ queued[id] = Unused
  /\ queued' = [queued EXCEPT ![id] = Foreign]
  /\ UNCHANGED <<requestsMadeByCode, askVars, procLock, confirmed, confirming, confirmVars>>

SrvDealerConfirm(id) ==
  /\ queued[id] # Unused
  /\ confirmed[id] < MaxConfirms
  /\ confirmed' = [confirmed EXCEPT ![id] = @ + 1]
  /\ confirming' = [confirming EXCEPT ![id] = @ + 1]
  /\ UNCHANGED <<requestsMadeByCode, askVars, procLock, queued, confirmVars>>

(* ThreadProcess and FuncProcess hold the lock for a whole round. *)
Poll(p) ==
  /\ Acquire(p) \/ Release(p)
  /\ UNCHANGED <<requestsMadeByCode, askVars, hostVars, confirmVars>>

Next ==
  \/ \E a \in Askers :
       \/ \E t \in Trades : Quote(a, t)
       \/ Enter(a)
       \/ \E id \in Ids : RequestsAddAccepted(a, id)
       \/ RequestsAddRefused(a)
       \/ Record(a)
  \/ \E id \in Ids : ConfirmThread(id) \/ ClientRequest(id) \/ SrvDealerConfirm(id)
  \/ \E p \in Pollers : Poll(p)

Spec == Init /\ [][Next]_vars

-----------------------------------------------------------------------------
TypeOK ==
  /\ requestsMadeByCode \in [Ids -> Trades \cup {None}]
  /\ pc \in [Askers -> {"idle", "quoted", "add", "record"}]
  /\ trans \in [Askers -> Trades \cup {None}]
  /\ reqId \in [Askers -> Ids \cup {None}]
  /\ procLock \in Askers \cup Pollers \cup {None}
  /\ queued \in [Ids -> Deals \cup {Unused, Foreign}]
  /\ confirmed \in [Ids -> Nat]
  /\ confirming \in [Ids -> Nat]
  /\ opened \in [Ids -> Nat]
  /\ noRequest \subseteq Ids

(* A confirmation of a request the plugin made is never answered with      *)
(* "No request" by SrvDealerConfirm, even when the dealer confirms before  *)
(* RequestsAdd has returned to askLPtoOpenTrade.                           *)
NoConfirmMissed == \A id \in noRequest : ~Ours(id)

(* Orders are opened only for requests the plugin queued, for the deal     *)
(* (symbol, side, volume) the host queued under that id, and at most once  *)
(* per confirmation.                                                       *)
OrdersMatchRequests ==
  \A id \in Ids :
    /\ opened[id] > 0 => Ours(id) /\ requestsMadeByCode[id].deal = queued[id]
    /\ opened[id] + confirming[id] <= confirmed[id]

(* The map only grows: an entry, once recorded, is never changed or lost,  *)
(* so a confirmation that arrives late, or again, still finds its trade.   *)
RecordsAreFinal ==
  [][\A id \in Ids : requestsMadeByCode[id] # None
       => requestsMadeByCode'[id] = requestsMadeByCode[id]]_vars
=============================================================================
