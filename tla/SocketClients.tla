--------------------------- MODULE SocketClients ---------------------------
(***************************************************************************)
(* CTextIOCPClient and PackageIOCPClient.  The two have the same owner,    *)
(* thread, sending and closing, which are in TextClient; they differ in    *)
(* what they take out of the bytes received.  A package begins with a      *)
(* header that has its length, the header's included, and a title.         *)
(***************************************************************************)
EXTENDS TextClient

CONSTANTS
  HeaderSize,   \* sizeof(NETPackage)
  PackageEnds   \* where in the peer's bytes the packages end, in order

(* Every package has a header, and every byte belongs to a package.  A     *)
(* header with a length below its own size is left out: the client would   *)
(* return at it for good, like PackageWait, for the buffer is longer.      *)
ASSUME PackagesAssumption ==
  /\ HeaderSize \in Nat \ {0} /\ PackageEnds \in Seq(Nat)
  /\ \A k \in DOMAIN PackageEnds :
       /\ PackageEnds[k] >= HeaderSize
       /\ \A j \in 1 .. k - 1 : PackageEnds[j] + HeaderSize <= PackageEnds[k]
  /\ \A i \in 1 .. MaxBytes : \E k \in DOMAIN PackageEnds : i <= PackageEnds[k]

VARIABLES
  protocol,  \* which of the two it is: "text" or "package"
  overrun    \* memory outside the buffer was copied: nothing is known then

socketVars == <<vars, protocol, overrun>>

ClientInit == Init /\ protocol \in {"text", "package"} /\ overrun = FALSE

(* Package k is the bytes behind the package before it. *)
Before(k) == IF k = 1 THEN 0 ELSE PackageEnds[k - 1]
Length(k) == PackageEnds[k] - Before(k)
PackageBytes(k) == [i \in 1 .. Length(k) |-> Before(k) + i]

(* The package the buffer begins with, and the length in its header. *)
FrontPackage == CHOOSE k \in DOMAIN PackageEnds :
                  m_ReceivedBytes[1] \in Before(k) + 1 .. PackageEnds[k]
PackageLength == Length(FrontPackage)
HasHeader == Len(m_ReceivedBytes) >= HeaderSize

-----------------------------------------------------------------------------
(* The loop of PackageIOCPClient::AsyncProcessReceive.  It returns when    *)
(* there is no header yet, and when more has arrived than the package.     *)
PackageWait ==
  /\ at = "deliver"
  /\ HasHeader => PackageLength < Len(m_ReceivedBytes)
  /\ EndRound
  /\ UNCHANGED <<owner, socket, clientVars, reading, wouldBlock, arrived, ghosts, overrun>>

Takes == at = "deliver" /\ HasHeader /\ PackageLength >= Len(m_ReceivedBytes)

(* The peer may write another title. *)
PackageIllegal ==
  /\ Takes
  /\ CloseConnect
  /\ EndRound
  /\ UNCHANGED <<owner, m_bIsConnected, reading, wouldBlock, arrived, ghosts, overrun>>

PackageKeepHeader ==   \* mutant: only what was delivered is taken off the buffer
  /\ Takes /\ PackageLength = Len(m_ReceivedBytes)
  /\ delivered' = Append(delivered, SubSeq(m_ReceivedBytes, 1, PackageLength))
  /\ m_ReceivedBytes' =
       SubSeq(m_ReceivedBytes, PackageLength - HeaderSize + 1, Len(m_ReceivedBytes))
  /\ UNCHANGED <<owner, socket, m_bIsConnected, m_SendBufferList, m_SendingBytes, threadVars,
                 arrived, accepted, wire, notified, overrun>>

(* NotifyReceivedFormatPackage gets the package behind its header; the     *)
(* ghost keeps both.  The loop goes on with the rest of the buffer.        *)
PackageDeliver ==
  /\ Takes /\ PackageLength = Len(m_ReceivedBytes)
  /\ delivered' = Append(delivered, SubSeq(m_ReceivedBytes, 1, PackageLength))
  /\ m_ReceivedBytes' = SubSeq(m_ReceivedBytes, PackageLength + 1, Len(m_ReceivedBytes))
  /\ UNCHANGED <<owner, socket, m_bIsConnected, m_SendBufferList, m_SendingBytes, threadVars,
                 arrived, accepted, wire, notified, overrun>>

(* A package that has not arrived in full is copied out of the buffer, and *)
(* the length of what is left is negative.                                 *)
PackageOverrun ==
  /\ Takes /\ PackageLength > Len(m_ReceivedBytes)
  /\ overrun' = TRUE
  /\ UNCHANGED vars

-----------------------------------------------------------------------------
(* What the threads of the two do alike. *)
SharedThreadStep ==
  \/ Stop \/ SelectFails \/ (\E report \in SUBSET {"read", "write", "except"} : Select(report))
  \/ Except \/ Connected \/ OnlyRead
  \/ SendNothing \/ SendBlocked \/ SendFailed \/ (\E n \in 1 .. TextLength : SendBytes(n))
  \/ ReceiveEnd \/ (\E n \in 1 .. MaxBytes : Receive(n))

PackageThreadStep ==
  \/ PackageWait \/ PackageIllegal \/ PackageDeliver \/ PackageOverrun
  \/ SharedThreadStep /\ UNCHANGED overrun

ClientThreadStep ==
  \/ protocol = "text" /\ ThreadStep /\ UNCHANGED <<protocol, overrun>>
  \/ protocol = "package" /\ PackageThreadStep /\ UNCHANGED protocol

Others == Connect \/ Send \/ Delete \/ Destroy \/ ConnectEnds \/ PeerEnds \/ Reset \/ Arrive

ClientNext ==
  /\ ~overrun
  /\ \/ ClientThreadStep
     \/ Others /\ UNCHANGED <<protocol, overrun>>

(* The thread runs; connecting ends, by a timeout at the latest; and a     *)
(* peer that stays makes room again and again.                             *)
Running(A) == ~overrun /\ A /\ UNCHANGED <<protocol, overrun>>
ClientFairness ==
  /\ WF_socketVars(~overrun /\ ClientThreadStep)
  /\ WF_socketVars(Running(ConnectEnds))
  /\ SF_socketVars(Running(\E report \in SUBSET {"read", "write", "except"} :
                             "write" \in report /\ Select(report)))
  /\ SF_socketVars(Running(\E n \in 1 .. TextLength : SendBytes(n)))

ClientSpec == ClientInit /\ [][ClientNext]_socketVars /\ ClientFairness

-----------------------------------------------------------------------------
(* Both clients deliver what the peer sent, each text or package once,     *)
(* whole and in order, however recv cuts the stream up.  The packages      *)
(* delivered are the first ones, and what follows them is in the buffer.   *)
PackagesWhole ==
  /\ \A k \in DOMAIN delivered : delivered[k] = PackageBytes(k)
  /\ at # "exited" => Follows(m_ReceivedBytes, Delivered)
ClientsDeliverWhole == IF protocol = "text" THEN DeliveredWhole ELSE PackagesWhole

(* A text or package Send has accepted leaves in full, unless the          *)
(* connection is closed, its thread has given up, the owner deletes the    *)
(* object or memory was overrun.                                           *)
AllLeave ==
  \A k \in 1 .. MaxTexts :
    accepted >= k ~> \/ Len(wire) >= k * TextLength \/ overrun
                     \/ socket = "none" \/ at = "exited" \/ owner = "deleting"
=============================================================================
