-------------------------- MODULE ConnectionStatus --------------------------
(***************************************************************************)
(* What SocketConnectionPool may assume of one MyIOCP object: how its      *)
(* status, as IsConnected reads it from m_bIsConnected and as the peer     *)
(* sees it, may change between the moment CreateConnection returns it and  *)
(* the moment the pool deletes it.                                         *)
(* A connection connects once.  When it has failed, or is noticed to be    *)
(* gone, it is "closed" for good; when it ended without being noticed it   *)
(* is a "zombie", which still counts as connected.                         *)
(***************************************************************************)
VARIABLE status

Init == status = "connecting"

Become(from, to) == status = from /\ status' = to

Connected == Become("connecting", "connected")
ConnectFailed == Become("connecting", "closed")
Disconnected == Become("connected", "closed")
PeerClosed == Become("connected", "zombie")
Delete == status # "deleted" /\ status' = "deleted"

Next == Connected \/ ConnectFailed \/ Disconnected \/ PeerClosed \/ Delete

Spec == Init /\ [][Next]_status
=============================================================================
