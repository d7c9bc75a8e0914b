----------------------- MODULE SocketClients_proofs -----------------------
(***************************************************************************)
(* The status of a client, as the pool reads it, follows ConnectionStatus, *)
(* what the client is notified of agrees with it, and the texts or         *)
(* packages both ways pass in order and whole: for every length of them,   *)
(* every number of them and every stream of the peer.                      *)
(* Lemmas about Next, of TextClient, are about what the text client does;  *)
(* the package client does the same but for three actions.                 *)
(***************************************************************************)
EXTENDS SocketClients, TLAPS, WellFoundedInduction

(* What makes a step of the client a step of its status.  The thread works *)
(* only on a socket that is there; nothing happens to a client before      *)
(* Connect; and nothing but the network moves after the destructor.        *)
StatusInv ==
  /\ m_bIsConnected \in BOOLEAN
  /\ owner \in {"new", "using", "deleting", "deleted"}
  /\ owner = "new" => socket = "none" /\ m_bIsConnected = FALSE
  /\ owner = "deleted" => at = "exited"
  /\ at \in {"selected", "send", "receive", "deliver"} => socket # "none"

(* A step of the text client, or one that takes a package from the buffer. *)
PackageTurn == protocol = "package" /\ (PackageWait \/ PackageIllegal \/ PackageDeliver)

LEMMA ClientSteps ==
  ASSUME [ClientNext]_socketVars
  PROVE  /\ [Next]_vars \/ PackageTurn
         /\ protocol' = protocol
         /\ protocol = "text" => [Next]_vars
         /\ SharedThreadStep \/ Others \/ UNCHANGED vars \/ PackageTurn \/ protocol = "text"
<1>1. CASE ClientThreadStep
  <2>1. CASE protocol = "text" /\ ThreadStep /\ UNCHANGED <<protocol, overrun>>
    BY <2>1 DEF Next
  <2>2. CASE protocol = "package" /\ PackageThreadStep /\ UNCHANGED protocol
    <3>1. CASE PackageWait \/ PackageIllegal \/ PackageDeliver
      BY <2>2, <3>1 DEF PackageTurn
    <3>2. CASE PackageOverrun
      BY <2>2, <3>2 DEF PackageOverrun
    <3>3. CASE SharedThreadStep
      BY <2>2, <3>3 DEF SharedThreadStep, Next, ThreadStep
    <3> QED BY <2>2, <3>1, <3>2, <3>3 DEF PackageThreadStep
  <2> QED BY <1>1, <2>1, <2>2 DEF ClientThreadStep
<1>2. CASE Others /\ UNCHANGED <<protocol, overrun>>
  BY <1>2 DEF Others, Next
<1>3. CASE UNCHANGED socketVars
  BY <1>3 DEF socketVars
<1> QED BY <1>1, <1>2, <1>3 DEF ClientNext

(* What the three actions change of what the invariants speak of. *)
LEMMA PackageTurns ==
  ASSUME PackageTurn
  PROVE  /\ UNCHANGED <<owner, m_bIsConnected, reading, wouldBlock, arrived, accepted, wire, notified>>
         /\ at = "deliver" /\ at' \in {"top", "deliver"} /\ (ready' = {} \/ ready' = ready)
         /\ \/ UNCHANGED <<socket, m_SendBufferList, m_SendingBytes>>
            \/ CloseConnect /\ at' = "top"
         /\ at' = "deliver" => socket' = socket
  BY DEF PackageTurn, PackageWait, PackageIllegal, PackageDeliver, Takes, EndRound, CloseConnect,
         clientVars, threadVars, ghosts

LEMMA InitStatusInv == Init => StatusInv
  BY DEF Init, StatusInv

LEMMA StatusInvStep == StatusInv /\ [Next]_vars => StatusInv'
<1> SUFFICES ASSUME StatusInv, [Next]_vars PROVE StatusInv'
  OBVIOUS
<1> USE DEF StatusInv, clientVars, threadVars, ghosts, CloseConnect, KeepConnect, EndRound
<1>1. CASE Connect \/ Send \/ Delete \/ Destroy
  BY <1>1 DEF Connect, Send, Delete, Destroy
<1>2. CASE Stop \/ SelectFails \/ OnlyRead
  BY <1>2 DEF Stop, SelectFails, OnlyRead
<1>3. ASSUME NEW report, Select(report) PROVE StatusInv'
  <2>1. socket # "none"
    BY <1>3 DEF Select, Reports, Readable
  <2> QED BY <1>3, <2>1 DEF Select
<1>4. CASE Except \/ SendFailed
  BY <1>4 DEF Except, SendFailed, AsyncProcessDisconnected
<1>5. CASE Connected
  BY <1>5 DEF Connected
<1>6. ASSUME NEW n, SendBytes(n) PROVE StatusInv'
  BY <1>6 DEF SendBytes, AfterSend
<1>7. CASE SendNothing \/ SendBlocked
  BY <1>7 DEF SendNothing, SendBlocked, AfterSend
<1>8. ASSUME NEW n, Receive(n) PROVE StatusInv'
  BY <1>8 DEF Receive
<1>9. CASE ReceiveEnd \/ Deliver \/ KeepRest
  BY <1>9 DEF ReceiveEnd, Deliver, KeepRest
<1>10. CASE ConnectEnds \/ PeerEnds \/ Reset \/ Arrive
  BY <1>10 DEF ConnectEnds, PeerEnds, Reset, NetworkStep, Arrive
<1>11. CASE UNCHANGED vars
  BY <1>11 DEF vars
<1> HIDE DEF StatusInv
<1> QED BY <1>1, <1>2, <1>3, <1>4, <1>5, <1>6, <1>7, <1>8, <1>9, <1>10, <1>11
        DEF Next, ThreadStep

-----------------------------------------------------------------------------
LEMMA InitStatus == Init => Pooled!Init
  BY DEF Init, Pooled!Init, Status

(* Every step of the client is a step of its status or leaves it alone.    *)
LEMMA StatusStep == StatusInv /\ [Next]_vars => [Pooled!Next]_Status
<1> SUFFICES ASSUME StatusInv, [Next]_vars PROVE Pooled!Next \/ UNCHANGED Status
  OBVIOUS
<1> USE DEF StatusInv, Status, clientVars, threadVars, ghosts, CloseConnect, KeepConnect
<1>1. CASE Connect
  <2>1. Status = "connecting" /\ Status' \in {"connecting", "closed"}
    BY <1>1 DEF Connect
  <2> QED BY <2>1 DEF Pooled!Next, Pooled!ConnectFailed, Pooled!Become
<1>2. CASE Send \/ Delete
  BY <1>2 DEF Send, Delete
<1>3. CASE Destroy
  <2>1. Status # "deleted" /\ Status' = "deleted"
    BY <1>3 DEF Destroy
  <2> QED BY <2>1 DEF Pooled!Next, Pooled!Delete
<1>4. CASE Stop \/ SelectFails \/ OnlyRead
  BY <1>4 DEF Stop, SelectFails, OnlyRead
<1>5. ASSUME NEW report, Select(report) PROVE UNCHANGED Status
  BY <1>5 DEF Select
<1>6. CASE Except \/ SendFailed
  (* A client that is not connected has failed to connect. *)
  <2>1. Status \in {"connecting", "connected"} /\ Status' = "closed"
    BY <1>6 DEF Except, SendFailed, AsyncProcessDisconnected
  <2> QED BY <2>1 DEF Pooled!Next, Pooled!ConnectFailed, Pooled!Disconnected, Pooled!Become
<1>7. CASE Connected
  <2>1. Status \in {"connecting", "connected"} /\ Status' = "connected"
    BY <1>7 DEF Connected
  <2> QED BY <2>1 DEF Pooled!Next, Pooled!Connected, Pooled!Become
<1>8. ASSUME NEW n, SendBytes(n) PROVE UNCHANGED Status
  BY <1>8 DEF SendBytes
<1>9. CASE SendNothing \/ SendBlocked
  BY <1>9 DEF SendNothing, SendBlocked
<1>10. ASSUME NEW n, Receive(n) PROVE UNCHANGED Status
  BY <1>10 DEF Receive
<1>11. CASE ReceiveEnd
  (* The end of a connected stream is not noticed in m_bIsConnected. *)
  <2>1. CASE KeepConnect
    BY <1>11, <2>1 DEF ReceiveEnd
  <2>2. CASE CloseConnect
    <3>1. \/ Status = "connected" /\ Status' = "zombie"
          \/ Status = "connecting" /\ Status' = "closed"
      BY <1>11, <2>2 DEF ReceiveEnd
    <3> QED BY <3>1 DEF Pooled!Next, Pooled!PeerClosed, Pooled!ConnectFailed, Pooled!Become
  <2> QED BY <1>11, <2>1, <2>2 DEF ReceiveEnd
<1>12. CASE Deliver \/ KeepRest
  BY <1>12 DEF Deliver, KeepRest
<1>13. CASE ConnectEnds \/ PeerEnds \/ Reset \/ Arrive
  BY <1>13 DEF ConnectEnds, PeerEnds, Reset, NetworkStep, Arrive
<1>14. CASE UNCHANGED vars
  BY <1>14 DEF vars
<1> HIDE DEF StatusInv, Status
<1> QED BY <1>1, <1>2, <1>3, <1>4, <1>5, <1>6, <1>7, <1>8, <1>9, <1>10, <1>11, <1>12, <1>13, <1>14
        DEF Next, ThreadStep

(* Every behaviour of CTextIOCPClient shows the pool a status that moves   *)
(* only as ConnectionStatus says, which is what the client threads of      *)
(* ConnectionPool do.                                                      *)
THEOREM StatusImplemented == ClientSpec => ImplementsStatus
<1>1. ClientInit => StatusInv /\ Pooled!Init
  BY InitStatusInv, InitStatus DEF ClientInit
<1>2. StatusInv /\ [ClientNext]_socketVars => StatusInv'
  BY StatusInvStep, ClientSteps, PackageTurns DEF StatusInv
<1>3. StatusInv /\ [ClientNext]_socketVars => [Pooled!Next]_Status
  <2> SUFFICES ASSUME StatusInv, [ClientNext]_socketVars PROVE Pooled!Next \/ UNCHANGED Status
    OBVIOUS
  <2>1. CASE PackageTurn
    <3>1. /\ UNCHANGED <<owner, m_bIsConnected>> /\ owner # "new" /\ owner # "deleted" /\ socket # "none"
          /\ socket' = socket \/ socket' = "none"
      BY <2>1, PackageTurns DEF StatusInv, CloseConnect
    <3>2. CASE socket' = socket
      BY <3>1, <3>2 DEF Status
    <3>3. CASE socket' = "none" /\ m_bIsConnected
      <4>1. Status = "connected" /\ Status' = "zombie"
        BY <3>1, <3>3 DEF Status
      <4> QED BY <4>1 DEF Pooled!Next, Pooled!PeerClosed, Pooled!Become
    <3>4. CASE socket' = "none" /\ ~m_bIsConnected
      <4>1. Status = "connecting" /\ Status' = "closed"
        BY <3>1, <3>4 DEF Status
      <4> QED BY <4>1 DEF Pooled!Next, Pooled!ConnectFailed, Pooled!Become
    <3> QED BY <3>1, <3>2, <3>3, <3>4
  <2> QED BY <2>1, ClientSteps, StatusStep
<1> QED BY <1>1, <1>2, <1>3, PTL DEF ClientSpec, ImplementsStatus, Pooled!Spec

-----------------------------------------------------------------------------
(* A client that has been told of anything has been connected, or its      *)
(* socket is closed: once closed, it is never connected again.             *)
NotifyInv ==
  /\ StatusInv /\ StatusNotified
  /\ socket # "none" /\ m_bIsConnected = FALSE => notified = <<>>
  /\ owner = "new" => notified = <<>>

LEMMA InitNotifyInv == Init => NotifyInv
  BY InitStatusInv DEF Init, NotifyInv, StatusNotified

(* The notification of a round, in which the thread has a socket. *)
LEMMA NotifyOnce ==
  ASSUME NotifyInv, socket # "none"
  PROVE  /\ AsyncProcessDisconnected =>
              /\ notified' \in {<<"ConnectFailed">>, <<"Connected", "Disconnected">>}
              /\ m_bIsConnected' = FALSE /\ socket' = "none"
         /\ Connected => notified' = <<"Connected">> /\ m_bIsConnected' = TRUE
<1>1. m_bIsConnected \in BOOLEAN
  BY DEF NotifyInv, StatusInv
<1>2. CASE m_bIsConnected
  <2>1. notified = <<"Connected">>
    BY <1>2 DEF NotifyInv, StatusNotified
  <2> QED BY <1>2, <2>1 DEF AsyncProcessDisconnected, Connected, CloseConnect
<1>3. CASE m_bIsConnected = FALSE
  <2>1. notified = <<>>
    BY <1>3 DEF NotifyInv
  <2> QED BY <1>3, <2>1 DEF AsyncProcessDisconnected, Connected, CloseConnect
<1> QED BY <1>1, <1>2, <1>3

LEMMA NotifyInvStep == NotifyInv /\ [Next]_vars => NotifyInv'
<1> SUFFICES ASSUME NotifyInv, [Next]_vars PROVE NotifyInv'
  OBVIOUS
<1>0. StatusInv'
  BY StatusInvStep DEF NotifyInv
<1>1. CASE Connect
  BY <1>0, <1>1 DEF NotifyInv, StatusNotified, Connect, clientVars, ghosts
<1>2. CASE Send \/ Delete
  BY <1>0, <1>2 DEF NotifyInv, StatusNotified, Send, Delete, clientVars, ghosts
<1>3. CASE Destroy
  BY <1>0, <1>3 DEF NotifyInv, StatusNotified, Destroy, CloseConnect, KeepConnect, ghosts
<1>4. CASE Stop \/ SelectFails \/ OnlyRead \/ \E report : Select(report)
  BY <1>0, <1>4 DEF NotifyInv, StatusNotified, Stop, SelectFails, OnlyRead, Select, clientVars,
       ghosts
<1>5. CASE Except \/ SendFailed
  <2>1. socket # "none" /\ AsyncProcessDisconnected /\ owner' = owner
    BY <1>5 DEF NotifyInv, StatusInv, Except, SendFailed
  <2>2. owner # "new"
    BY <2>1 DEF NotifyInv, StatusInv
  <2>3. /\ notified' \in {<<"ConnectFailed">>, <<"Connected", "Disconnected">>}
        /\ m_bIsConnected' = FALSE /\ socket' = "none"
    BY <2>1, NotifyOnce
  <2> QED BY <1>0, <2>1, <2>2, <2>3 DEF NotifyInv, StatusNotified
<1>6. CASE Connected
  <2>1. socket # "none" /\ owner' = owner
    BY <1>6 DEF NotifyInv, StatusInv, Connected
  <2>2. owner # "new"
    BY <2>1 DEF NotifyInv, StatusInv
  <2>3. notified' = <<"Connected">> /\ m_bIsConnected' = TRUE
    BY <1>6, <2>1, NotifyOnce
  <2> QED BY <1>0, <2>1, <2>2, <2>3 DEF NotifyInv, StatusNotified
<1>7. CASE SendNothing \/ SendBlocked \/ \E n : SendBytes(n)
  BY <1>0, <1>7 DEF NotifyInv, StatusNotified, SendNothing, SendBlocked, SendBytes, clientVars,
       ghosts
<1>8. CASE ReceiveEnd
  BY <1>0, <1>8 DEF NotifyInv, StatusNotified, ReceiveEnd, CloseConnect, KeepConnect, ghosts
<1>9. CASE Deliver \/ KeepRest \/ \E n : Receive(n)
  BY <1>0, <1>9 DEF NotifyInv, StatusNotified, Deliver, KeepRest, Receive, clientVars, ghosts
<1>10. CASE ConnectEnds \/ PeerEnds \/ Reset \/ Arrive
  BY <1>0, <1>10 DEF NotifyInv, StatusNotified, ConnectEnds, PeerEnds, Reset, NetworkStep, Arrive,
                     clientVars, ghosts
<1>11. CASE UNCHANGED vars
  BY <1>0, <1>11 DEF NotifyInv, StatusNotified, vars, clientVars, ghosts
<1> QED BY <1>1, <1>2, <1>3, <1>4, <1>5, <1>6, <1>7, <1>8, <1>9, <1>10, <1>11 DEF Next, ThreadStep

LEMMA NotifyInvariant == ClientSpec => []NotifyInv
<1>1. ClientInit => NotifyInv
  BY InitNotifyInv DEF ClientInit
<1>2. NotifyInv /\ [ClientNext]_socketVars => NotifyInv'
  <2> SUFFICES ASSUME NotifyInv, [ClientNext]_socketVars PROVE NotifyInv'
    OBVIOUS
  <2>1. CASE PackageTurn
    BY <2>1, PackageTurns DEF NotifyInv, StatusNotified, StatusInv, CloseConnect
  <2> QED BY <2>1, ClientSteps, NotifyInvStep
<1> QED BY <1>1, <1>2, PTL DEF ClientSpec

(* NotifyConnectionStatus tells of a connection once and of its end at     *)
(* most once, and never of a connection after its end.                     *)
THEOREM StatusIsNotified == ClientSpec => []StatusNotified
<1>1. NotifyInv => StatusNotified
  BY DEF NotifyInv
<1> QED BY <1>1, NotifyInvariant, PTL

LEMMA ConnectedAreClosedStep == NotifyInv /\ ConnectedAreClosed /\ [Next]_vars => ConnectedAreClosed'
<1> SUFFICES ASSUME NotifyInv, ConnectedAreClosed, [Next]_vars PROVE ConnectedAreClosed'
  OBVIOUS
<1>1. CASE Destroy
  <2>1. owner = "deleting" /\ notified' = notified /\ m_bIsConnected \in BOOLEAN
    BY <1>1 DEF Destroy, NotifyInv, StatusInv, ghosts
  <2>2. CASE m_bIsConnected
    BY <1>1, <2>2 DEF Destroy, CloseConnect, ConnectedAreClosed
  <2>3. CASE m_bIsConnected = FALSE
    BY <1>1, <2>1, <2>3 DEF Destroy, KeepConnect, ConnectedAreClosed, NotifyInv
  <2> QED BY <2>1, <2>2, <2>3
<1>2. CASE owner = "deleted"
  <2>1. at = "exited"
    BY <1>2 DEF NotifyInv, StatusInv
  <2>2. ~ThreadStep
    BY <2>1 DEF ThreadStep, Stop, SelectFails, Select, Except, Connected, OnlyRead, SendNothing,
                SendBlocked, SendFailed, SendBytes, ReceiveEnd, Deliver, KeepRest, Receive
  <2>3. CASE Connect \/ Send \/ Delete \/ Destroy
    BY <1>2, <2>3 DEF Connect, Send, Delete, Destroy
  <2>4. CASE ConnectEnds \/ PeerEnds \/ Reset \/ Arrive
    BY <1>2, <2>4 DEF ConnectedAreClosed, ConnectEnds, PeerEnds, Reset, NetworkStep, Arrive,
         ghosts
  <2>5. CASE UNCHANGED vars
    BY <2>5 DEF ConnectedAreClosed, vars, ghosts
  <2> QED BY <2>2, <2>3, <2>4, <2>5 DEF Next
<1>3. CASE owner # "deleted" /\ ~Destroy
  <2>1. owner' # "deleted"
    <3>1. CASE Connect \/ Send \/ Delete
      BY <1>3, <3>1 DEF Connect, Send, Delete
    <3>2. CASE ThreadStep
      BY <1>3, <3>2 DEF ThreadStep, Stop, SelectFails, Select, Except, Connected, OnlyRead,
           SendNothing,
                SendBlocked, SendFailed, SendBytes, ReceiveEnd, Deliver, KeepRest, Receive
    <3>3. CASE ConnectEnds \/ PeerEnds \/ Reset \/ Arrive
      BY <1>3, <3>3 DEF ConnectEnds, PeerEnds, Reset, NetworkStep, Arrive
    <3>4. CASE UNCHANGED vars
      BY <1>3, <3>4 DEF vars
    <3> QED BY <1>3, <3>1, <3>2, <3>3, <3>4 DEF Next
  <2> QED BY <2>1 DEF ConnectedAreClosed
<1> QED BY <1>1, <1>2, <1>3

(* The destructor relies on m_bIsConnected alone: it closes every socket   *)
(* that has ever been reported connected, wherever the thread was stopped. *)
THEOREM ConnectedAreClosedHolds == ClientSpec => []ConnectedAreClosed
<1>1. ClientInit => ConnectedAreClosed
  BY DEF ClientInit, Init, ConnectedAreClosed
<1>2. NotifyInv /\ ConnectedAreClosed /\ [ClientNext]_socketVars => ConnectedAreClosed'
  <2> SUFFICES ASSUME NotifyInv, ConnectedAreClosed, [ClientNext]_socketVars
               PROVE  ConnectedAreClosed'
    OBVIOUS
  <2>1. CASE PackageTurn
    BY <2>1, PackageTurns DEF ConnectedAreClosed, CloseConnect
  <2> QED BY <2>1, ClientSteps, ConnectedAreClosedStep
<1> QED BY <1>1, <1>2, NotifyInvariant, PTL DEF ClientSpec

-----------------------------------------------------------------------------
(* Sequences of bytes that follow each other. *)
LEMMA FollowsIs ==
  ASSUME NEW S, NEW s \in Seq(S), NEW n
  PROVE  Follows(s, n) <=> \A i \in 1 .. Len(s) : s[i] = n + i
  BY DEF Follows

LEMMA FollowsSub ==
  ASSUME NEW S, NEW s \in Seq(S), NEW n \in Int, Follows(s, n),
         NEW a \in Nat \ {0}, NEW b \in Nat, a <= b + 1, b <= Len(s)
  PROVE  /\ SubSeq(s, a, b) \in Seq(S) /\ Len(SubSeq(s, a, b)) = b - a + 1
         /\ Follows(SubSeq(s, a, b), n + a - 1)
<1> DEFINE t == SubSeq(s, a, b)
<1>1. t \in Seq(S) /\ Len(t) = b - a + 1 /\ \A i \in 1 .. Len(t) : t[i] = s[a + i - 1]
  OBVIOUS
<1>2. \A i \in 1 .. Len(s) : s[i] = n + i
  BY FollowsIs
<1>3. \A i \in 1 .. Len(t) : t[i] = (n + a - 1) + i
  BY <1>1, <1>2
<1> HIDE DEF t
<1>4. Follows(t, n + a - 1)
  BY <1>1, <1>3, FollowsIs
<1> QED BY <1>1, <1>4 DEF t

LEMMA FollowsCat ==
  ASSUME NEW S, NEW s \in Seq(S), NEW t \in Seq(S), NEW n \in Int,
         Follows(s, n), Follows(t, n + Len(s))
  PROVE  /\ s \o t \in Seq(S) /\ Len(s \o t) = Len(s) + Len(t)
         /\ Follows(s \o t, n)
<1>1. \A i \in 1 .. Len(s) : s[i] = n + i
  BY FollowsIs
<1>2. \A i \in 1 .. Len(t) : t[i] = n + Len(s) + i
  BY FollowsIs
<1>3. /\ s \o t \in Seq(S) /\ Len(s \o t) = Len(s) + Len(t)
      /\ \A i \in 1 .. Len(s \o t) : (s \o t)[i] = IF i <= Len(s) THEN s[i] ELSE t[i - Len(s)]
  OBVIOUS
<1>4. \A i \in 1 .. Len(s \o t) : (s \o t)[i] = n + i
  BY <1>1, <1>2, <1>3
<1> QED BY <1>3, <1>4, FollowsIs

LEMMA TextIs ==
  ASSUME NEW k \in Int
  PROVE  /\ DOMAIN Text(k) = 1 .. TextLength /\ Len(Text(k)) = TextLength
         /\ Text(k) \in Seq(Int) /\ Follows(Text(k), (k - 1) * TextLength)
<1>1. TextLength \in Nat \ {0} /\ (k - 1) * TextLength \in Int
  BY LengthAssumption
<1>2. Len(Text(k)) = TextLength /\ Text(k) \in Seq(Int) /\ DOMAIN Text(k) = 1 .. TextLength
  BY <1>1 DEF Text
<1>3. \A i \in 1 .. TextLength : Text(k)[i] = (k - 1) * TextLength + i
  BY <1>1 DEF Text
<1> QED BY <1>2, <1>3, FollowsIs

LEMMA TextTyped ==
  ASSUME NEW k \in 1 .. MaxTexts
  PROVE  Text(k) \in Seq(1 .. TextLength * MaxTexts)
<1>1. TextLength \in Nat \ {0} /\ MaxTexts \in Nat
  BY LengthAssumption, BoundsAssumption
<1>2. (k - 1) * TextLength >= 0 /\ (k - 1) * TextLength + TextLength = k * TextLength
  BY <1>1
<1>3. k * TextLength <= TextLength * MaxTexts
  BY <1>1
<1>4. \A i \in 1 .. TextLength : (k - 1) * TextLength + i \in 1 .. TextLength * MaxTexts
  BY <1>1, <1>2, <1>3
<1> QED BY <1>1, <1>4 DEF Text

-----------------------------------------------------------------------------
(* What the owner sends: behind the bytes given to the network come those  *)
(* of m_SendingBytes, then those of the texts that wait.                   *)
Outgoing == 1 .. TextLength * MaxTexts
Waits(wired, sending, list, texts) ==
  /\ Follows(sending, wired)
  /\ wired + Len(sending) = (texts - Len(list)) * TextLength
  /\ \A k \in 1 .. Len(list) : list[k] = Text(texts - Len(list) + k)
SendInv ==
  /\ m_SendBufferList \in Seq(Seq(Outgoing)) /\ m_SendingBytes \in Seq(Outgoing)
  /\ wire \in Seq(Outgoing) /\ accepted \in 0 .. MaxTexts
  /\ Follows(wire, 0) /\ Len(wire) <= accepted * TextLength
  /\ socket # "none" => Waits(Len(wire), m_SendingBytes, m_SendBufferList, accepted)
  /\ owner = "new" => /\ accepted = 0 /\ wire = <<>>
                      /\ m_SendBufferList = <<>> /\ m_SendingBytes = <<>>

LEMMA SentIs == SendInv => SentInOrder
<1> SUFFICES ASSUME SendInv PROVE SentInOrder
  OBVIOUS
<1>1. DOMAIN m_SendBufferList = 1 .. Len(m_SendBufferList)
  BY DEF SendInv
<1> QED BY <1>1 DEF SendInv, SentInOrder, Waits

(* AsyncProcessSending takes the next text when there is nothing left of   *)
(* the last.                                                               *)
LEMMA ToSendWaits ==
  ASSUME SendInv, socket # "none"
  PROVE  /\ ToSend \in Seq(Outgoing) /\ Waiting \in Seq(Seq(Outgoing))
         /\ Waits(Len(wire), ToSend, Waiting, accepted)
<1>0. /\ m_SendBufferList \in Seq(Seq(Outgoing)) /\ m_SendingBytes \in Seq(Outgoing)
      /\ accepted \in Nat /\ TextLength \in Nat \ {0} /\ wire \in Seq(Outgoing)
      /\ Waits(Len(wire), m_SendingBytes, m_SendBufferList, accepted)
  BY LengthAssumption, BoundsAssumption DEF SendInv
<1>1. CASE ~(m_SendingBytes = <<>> /\ m_SendBufferList # <<>>)
  BY <1>0, <1>1 DEF ToSend, Waiting
<1>2. CASE m_SendingBytes = <<>> /\ m_SendBufferList # <<>>
  <2> DEFINE l == Len(m_SendBufferList)
             taken == accepted - l
  <2>1. /\ ToSend = m_SendBufferList[1] /\ Waiting = Tail(m_SendBufferList) /\ l >= 1
        /\ ToSend \in Seq(Outgoing) /\ Waiting \in Seq(Seq(Outgoing)) /\ Len(Waiting) = l - 1
        /\ \A k \in 1 .. l - 1 : Waiting[k] = m_SendBufferList[k + 1]
        /\ l \in Nat /\ taken \in Int
    BY <1>0, <1>2 DEF ToSend, Waiting
  <2>2. Len(wire) = taken * TextLength /\ Len(wire) \in Nat
    BY <1>0, <1>2 DEF Waits
  <2>3. \A k \in 1 .. l : m_SendBufferList[k] = Text(taken + k)
    BY <1>0 DEF Waits
  <2> HIDE DEF taken, l
  <2>4. PICK next \in Int : next = taken + 1
    BY <2>1
  <2>5. Len(ToSend) = TextLength /\ Follows(ToSend, Len(wire))
    <3>1. Len(Text(next)) = TextLength /\ Follows(Text(next), (next - 1) * TextLength)
      BY ONLY <2>4, TextIs
    <3>2. next - 1 = taken /\ 1 \in 1 .. l
      BY <2>1, <2>4
    <3>3. ToSend = Text(next)
      BY <2>1, <2>3, <2>4, <3>2
    <3> QED BY <2>2, <3>1, <3>2, <3>3
  <2>6. accepted - Len(Waiting) = taken + 1
    <3>1. l \in Nat /\ Len(Waiting) = l - 1
      BY <2>1
    <3>2. taken = accepted - l
      BY DEF taken, l
    <3> QED BY ONLY <1>0, <3>1, <3>2
  <2>7. Len(wire) + Len(ToSend) = (accepted - Len(Waiting)) * TextLength
    <3>1. (taken + 1) * TextLength = taken * TextLength + TextLength
      BY <1>0, <2>1
    <3> QED BY <2>2, <2>5, <2>6, <3>1
  <2>8. \A k \in 1 .. Len(Waiting) : Waiting[k] = Text(accepted - Len(Waiting) + k)
    <3>1. ASSUME NEW k \in 1 .. l - 1 PROVE Waiting[k] = Text((taken + 1) + k)
      <4>1. k + 1 \in 1 .. l /\ taken + (k + 1) = (taken + 1) + k
        BY <2>1, <3>1
      <4> QED BY <2>1, <2>3, <4>1
    <3> QED BY <2>1, <2>6, <3>1
  <2> QED BY <2>1, <2>5, <2>7, <2>8 DEF Waits
<1> QED BY <1>1, <1>2

LEMMA InitSendInv == Init => SendInv
<1> SUFFICES ASSUME Init PROVE SendInv
  OBVIOUS
<1>1. 0 * TextLength = 0 /\ 0 \in 0 .. MaxTexts
  BY LengthAssumption, BoundsAssumption
<1> QED BY <1>1 DEF Init, SendInv, Follows

LEMMA SendInvStep ==
  ASSUME StatusInv, SendInv, [Next]_vars
  PROVE  SendInv'
<1>0. /\ TextLength \in Nat \ {0} /\ MaxTexts \in Nat /\ accepted \in Nat /\ Len(wire) \in Nat
      /\ Len(m_SendBufferList) \in Nat
  BY LengthAssumption, BoundsAssumption DEF SendInv
<1>1. ASSUME UNCHANGED <<m_SendBufferList, m_SendingBytes, wire, accepted>>,
             socket' # "none" => socket # "none", owner' = "new" => owner = "new"
      PROVE  SendInv'
  BY <1>1 DEF SendInv
<1>2. ASSUME CloseConnect, UNCHANGED <<wire, accepted>>, owner' # "new" PROVE SendInv'
  BY <1>2 DEF SendInv, CloseConnect
<1>3. CASE Connect
  <2>1. /\ accepted = 0 /\ wire = <<>> /\ m_SendBufferList = <<>> /\ m_SendingBytes = <<>>
        /\ UNCHANGED <<m_SendBufferList, m_SendingBytes, wire, accepted>> /\ owner' # "new"
    BY <1>3 DEF Connect, SendInv, clientVars, ghosts
  <2>2. Waits(0, <<>>, <<>>, 0)
    BY <1>0 DEF Waits, Follows
  <2> QED BY <1>0, <2>1, <2>2 DEF SendInv
<1>4. CASE Send
  <2>1. /\ socket # "none" /\ accepted < MaxTexts /\ accepted' = accepted + 1 /\ owner = "using"
        /\ m_SendBufferList' = Append(m_SendBufferList, Text(accepted + 1))
        /\ UNCHANGED <<m_SendingBytes, wire, owner, socket>>
    BY <1>4 DEF Send
  <2>2. Text(accepted + 1) \in Seq(Outgoing)
    BY <1>0, <2>1, TextTyped DEF Outgoing
  <2> DEFINE l == Len(m_SendBufferList)
  <2>3. /\ m_SendBufferList' \in Seq(Seq(Outgoing)) /\ Len(m_SendBufferList') = l + 1
        /\ \A k \in 1 .. l : m_SendBufferList'[k] = m_SendBufferList[k]
        /\ m_SendBufferList'[l + 1] = Text(accepted + 1)
    BY <1>0, <2>1, <2>2 DEF SendInv
  <2>4. accepted' - Len(m_SendBufferList') = accepted - l
    BY <1>0, <2>1, <2>3
  <2>5. Waits(Len(wire), m_SendingBytes, m_SendBufferList, accepted)
    BY <2>1 DEF SendInv
  <2>6. \A k \in 1 .. l + 1 : m_SendBufferList'[k] = Text(accepted - l + k)
    <3>1. accepted - l + (l + 1) = accepted + 1
      BY <1>0
    <3>2. \A k \in 1 .. l : m_SendBufferList[k] = Text(accepted - l + k)
      BY <2>5 DEF Waits
    <3> HIDE DEF l
    <3>3. l \in Nat
      BY <1>0 DEF l
    <3>4. ASSUME NEW k \in 1 .. l + 1 PROVE m_SendBufferList'[k] = Text(accepted - l + k)
      <4>1. CASE k = l + 1
        BY <2>3, <3>1, <4>1
      <4>2. CASE k # l + 1
        <5>1. k \in 1 .. l
          BY <3>3, <4>2
        <5> QED BY <2>3, <3>2, <5>1
      <4> QED BY <4>1, <4>2
    <3> QED BY <3>4
  <2>7. Waits(Len(wire), m_SendingBytes, m_SendBufferList, accepted)'
    BY <2>1, <2>3, <2>4, <2>5, <2>6 DEF Waits
  <2>8. accepted * TextLength <= (accepted + 1) * TextLength
    BY <1>0
  <2> HIDE DEF l
  <2>9. Len(wire) <= accepted' * TextLength
    BY <1>0, <2>1, <2>8 DEF SendInv
  <2>10. accepted' \in 0 .. MaxTexts
    BY <1>0, <2>1
  <2> QED BY <2>1, <2>3, <2>7, <2>9, <2>10 DEF SendInv
<1>5. CASE Delete \/ Stop \/ SelectFails \/ OnlyRead \/ (\E report : Select(report))
  BY <1>1, <1>5 DEF Delete, Stop, SelectFails, OnlyRead, Select, clientVars, ghosts
<1>6. CASE Destroy
  BY <1>1, <1>2, <1>6 DEF Destroy, KeepConnect, ghosts
<1>7. CASE Except \/ SendFailed
  BY <1>2, <1>7 DEF Except, SendFailed, AsyncProcessDisconnected, StatusInv
<1>8. CASE Connected \/ SendNothing
  BY <1>1, <1>8 DEF Connected, SendNothing, KeepConnect, clientVars, ghosts
<1>9. ASSUME NEW n, SendBytes(n) PROVE SendInv'
  <2>1. /\ socket # "none" /\ owner # "new" /\ n \in 1 .. Len(ToSend)
        /\ wire' = wire \o SubSeq(ToSend, 1, n)
        /\ m_SendingBytes' = SubSeq(ToSend, n + 1, Len(ToSend))
        /\ m_SendBufferList' = Waiting /\ accepted' = accepted /\ owner' = owner
    BY <1>9 DEF SendBytes, StatusInv
  <2>2. /\ ToSend \in Seq(Outgoing) /\ Waiting \in Seq(Seq(Outgoing))
        /\ Waits(Len(wire), ToSend, Waiting, accepted)
    BY <2>1, ToSendWaits
  <2> DEFINE front == SubSeq(ToSend, 1, n)
             rest == SubSeq(ToSend, n + 1, Len(ToSend))
  <2>3. Follows(ToSend, Len(wire)) /\ Len(ToSend) \in Nat /\ n \in Nat /\ n >= 1 /\ n <= Len(ToSend)
    BY <2>1, <2>2 DEF Waits
  <2>4. front \in Seq(Outgoing) /\ Len(front) = n /\ Follows(front, Len(wire))
    <3>1. 1 \in Nat \ {0} /\ 1 <= n + 1 /\ Len(wire) \in Int
      BY <1>0, <2>3
    <3>2. /\ front \in Seq(Outgoing) /\ Len(front) = n - 1 + 1 /\ Follows(front, Len(wire) + 1 - 1)
      BY ONLY <2>2, <2>3, <3>1, FollowsSub
    <3> HIDE DEF front
    <3>3. n - 1 + 1 = n /\ Len(wire) + 1 - 1 = Len(wire)
      BY <1>0, <2>3
    <3> QED BY <3>2, <3>3
  <2>5. rest \in Seq(Outgoing) /\ Len(rest) = Len(ToSend) - n /\ Follows(rest, Len(wire) + n)
    <3>1. /\ n + 1 \in Nat \ {0} /\ n + 1 <= Len(ToSend) + 1 /\ Len(wire) \in Int
          /\ Len(ToSend) <= Len(ToSend)
      BY <1>0, <2>3
    <3>2. /\ rest \in Seq(Outgoing) /\ Len(rest) = Len(ToSend) - (n + 1) + 1
          /\ Follows(rest, Len(wire) + (n + 1) - 1)
      BY ONLY <2>2, <2>3, <3>1, FollowsSub
    <3> HIDE DEF rest
    <3>3. Len(ToSend) - (n + 1) + 1 = Len(ToSend) - n /\ Len(wire) + (n + 1) - 1 = Len(wire) + n
      BY <1>0, <2>3
    <3> QED BY <3>2, <3>3
  <2> HIDE DEF front, rest
  <2>6. wire' \in Seq(Outgoing) /\ Len(wire') = Len(wire) + n /\ Follows(wire', 0)
    <3>1. wire \in Seq(Outgoing) /\ Follows(wire, 0) /\ Follows(front, 0 + Len(wire))
      BY <1>0, <2>4 DEF SendInv
    <3>2. wire' = wire \o front
      BY <2>1 DEF front
    <3>3. Len(wire) \in Nat /\ 0 + Len(wire) = Len(wire) /\ Len(front) = n
      BY <1>0, <2>4
    <3>4. /\ wire \o front \in Seq(Outgoing) /\ Len(wire \o front) = Len(wire) + Len(front)
          /\ Follows(wire \o front, 0)
      <4>1. 0 \in Int /\ front \in Seq(Outgoing)
        BY <2>4
      <4> QED BY ONLY <3>1, <4>1, FollowsCat
    <3> QED BY <3>2, <3>3, <3>4
  <2>7. m_SendingBytes' = rest
    BY <2>1 DEF rest
  <2>8. Len(wire') + Len(rest) = (accepted - Len(Waiting)) * TextLength
    <3>1. Len(wire) + Len(ToSend) = (accepted - Len(Waiting)) * TextLength
      BY <2>2 DEF Waits
    <3> QED BY <1>0, <2>3, <2>5, <2>6, <3>1
  <2>9. Waits(Len(wire'), m_SendingBytes', m_SendBufferList', accepted')
    BY <2>1, <2>2, <2>5, <2>6, <2>7, <2>8 DEF Waits
  <2>10. Len(wire') <= accepted * TextLength
    <3>1. Len(Waiting) \in Nat /\ Len(rest) \in Nat /\ Len(wire') \in Nat
      BY <2>2, <2>5, <2>6
    <3>2. (accepted - Len(Waiting)) * TextLength <= accepted * TextLength
      BY <1>0, <3>1
    <3>3. (accepted - Len(Waiting)) * TextLength \in Int /\ accepted * TextLength \in Int
      BY <1>0, <3>1
    <3> QED BY <2>8, <3>1, <3>2, <3>3
  <2> QED BY <2>1, <2>2, <2>5, <2>6, <2>7, <2>9, <2>10 DEF SendInv
<1>10. CASE SendBlocked
  <2>1. /\ socket # "none" /\ socket' = socket /\ owner' = owner /\ owner # "new"
        /\ m_SendingBytes' = ToSend /\ m_SendBufferList' = Waiting
        /\ UNCHANGED <<wire, accepted>>
    BY <1>10 DEF SendBlocked, StatusInv, ghosts
  <2> QED BY <2>1, ToSendWaits DEF SendInv
<1>11. CASE ReceiveEnd
  BY <1>1, <1>2, <1>11 DEF ReceiveEnd, KeepConnect, ghosts, StatusInv
<1>12. CASE Deliver \/ KeepRest \/ (\E n : Receive(n))
  BY <1>1, <1>12 DEF Deliver, KeepRest, Receive, clientVars, ghosts
<1>13. CASE ConnectEnds \/ PeerEnds \/ Reset \/ Arrive
  BY <1>1, <1>13 DEF ConnectEnds, PeerEnds, Reset, NetworkStep, Arrive, clientVars, ghosts
<1>14. CASE UNCHANGED vars
  BY <1>1, <1>14 DEF vars, clientVars, ghosts
<1> QED BY <1>3, <1>4, <1>5, <1>6, <1>7, <1>8, <1>9, <1>10, <1>11, <1>12, <1>13, <1>14
        DEF Next, ThreadStep

(* Taking packages leaves what is sent alone, or closes the connection. *)
LEMMA SendInvTurn == StatusInv /\ SendInv /\ PackageTurn => SendInv'
<1> SUFFICES ASSUME StatusInv, SendInv, PackageTurn PROVE SendInv'
  OBVIOUS
<1>1. CASE UNCHANGED <<socket, m_SendBufferList, m_SendingBytes>>
  BY <1>1, PackageTurns DEF SendInv
<1>2. CASE CloseConnect
  BY <1>2, PackageTurns DEF SendInv, CloseConnect, StatusInv
<1> QED BY <1>1, <1>2, PackageTurns

-----------------------------------------------------------------------------
(* What the peer sends a text client: behind the bytes of the texts        *)
(* delivered come those of m_ReceivedBytes, from where the loop is on.     *)
Incoming == 1 .. MaxBytes
EachWhole ==
  \A k \in 1 .. Len(delivered) :
    /\ delivered[k] # <<>>
    /\ Follows(delivered[k], IF k = 1 THEN 0 ELSE Last(delivered[k - 1]))
    /\ \A n \in DOMAIN delivered[k] : delivered[k][n] \in Ends <=> n = Len(delivered[k])
NoEnds(s) == \A i \in 1 .. Len(s) : s[i] \notin Ends
ReceiveInv ==
  /\ m_ReceivedBytes \in Seq(Incoming) /\ delivered \in Seq(Seq(Incoming))
  /\ arrived \in 0 .. MaxBytes /\ reading \in 0 .. Delivered
  /\ EachWhole
  /\ at # "exited" => reading <= Len(m_ReceivedBytes) /\ Follows(m_ReceivedBytes, Delivered - reading)
  /\ at \notin {"deliver", "exited"} => reading = 0 /\ NoEnds(m_ReceivedBytes)

LEMMA DeliveredType ==
  ASSUME delivered \in Seq(Seq(Incoming)), EachWhole
  PROVE  Delivered \in 0 .. MaxBytes
<1>1. CASE delivered = <<>>
  BY <1>1, BoundsAssumption DEF Delivered
<1>2. CASE delivered # <<>>
  <2>1. Len(delivered) \in 1 .. Len(delivered) /\ Last(delivered) = delivered[Len(delivered)]
    BY <1>2 DEF Last
  <2>2. Last(delivered) \in Seq(Incoming) /\ Last(delivered) # <<>>
    BY <2>1 DEF EachWhole
  <2>3. Last(Last(delivered)) \in Incoming
    BY <2>2 DEF Last
  <2> QED BY <1>2, <2>3, BoundsAssumption DEF Delivered, Incoming
<1> QED BY <1>1, <1>2

LEMMA WholeIs == ReceiveInv => DeliveredWhole
<1> SUFFICES ASSUME ReceiveInv PROVE DeliveredWhole
  OBVIOUS
<1>1. Delivered \in Nat
  BY DeliveredType, BoundsAssumption DEF ReceiveInv
<1>2. /\ DOMAIN delivered = 1 .. Len(delivered)
      /\ DOMAIN m_ReceivedBytes = 1 .. Len(m_ReceivedBytes)
  BY DEF ReceiveInv
<1>3. ASSUME at \notin {"deliver", "exited"}
      PROVE  Follows(m_ReceivedBytes, Delivered) /\ NoEnds(m_ReceivedBytes)
  <2>1. Delivered - reading = Delivered
    BY <1>1, <1>3 DEF ReceiveInv
  <2> QED BY <1>3, <2>1 DEF ReceiveInv
<1> QED BY <1>2, <1>3 DEF DeliveredWhole, ReceiveInv, EachWhole, NoEnds

(* GetStringLen finds the first zero byte. *)
LEMMA LeastOf ==
  ASSUME NEW S \in SUBSET Nat, S # {}
  PROVE  Min(S) \in S /\ \A i \in S : Min(S) <= i
<1> DEFINE R == OpToRel(<, Nat)
<1>1. IsWellFoundedOn(R, Nat)
  BY NatLessThanWellFounded
<1>2. \A x, y \in Nat : y < x => <<y, x>> \in R
  BY DEF OpToRel
<1> HIDE DEF R
<1>3. PICK x \in S : \A y \in S : ~ (<<y, x>> \in R)
  BY <1>1, WFMin
<1>4. \A y \in S : x <= y
  <2> TAKE y \in S
  <2>1. ~ (<<y, x>> \in R) /\ x \in Nat /\ y \in Nat
    BY <1>3
  <2>2. ~ (y < x)
    BY <1>2, <2>1
  <2> QED BY <2>1, <2>2
<1> QED BY <1>4 DEF Min

LEMMA StringLengthIs ==
  ASSUME Rest \in Seq(Incoming)
  PROVE  /\ StringLength \in 0 .. Len(Rest)
         /\ StringLength = 0 => NoEnds(Rest)
         /\ StringLength > 0 => /\ Rest[StringLength] \in Ends
                                /\ \A i \in 1 .. StringLength - 1 : Rest[i] \notin Ends
<1> DEFINE I == {i \in 1 .. Len(Rest) : Rest[i] \in Ends}
<1>1. StringLength = IF I # {} THEN Min(I) ELSE 0
  BY DEF StringLength, SelectInSeq
<1>2. Len(Rest) \in Nat /\ I \in SUBSET Nat
  OBVIOUS
<1>3. CASE I = {}
  BY <1>1, <1>2, <1>3 DEF NoEnds
<1>4. CASE I # {}
  <2>1. StringLength \in I /\ \A i \in I : StringLength <= i
    <3> HIDE DEF I
    <3> QED BY <1>1, <1>2, <1>4, LeastOf
  <2>2. StringLength \in 1 .. Len(Rest) /\ Rest[StringLength] \in Ends
    BY <2>1
  <2>3. ASSUME NEW i \in 1 .. StringLength - 1 PROVE Rest[i] \notin Ends
    BY <1>2, <2>1, <2>2
  <2> QED BY <1>2, <2>2, <2>3
<1> QED BY <1>3, <1>4

LEMMA RestIs ==
  ASSUME ReceiveInv, at # "exited"
  PROVE  /\ Rest \in Seq(Incoming) /\ Follows(Rest, Delivered)
         /\ Len(Rest) = Len(m_ReceivedBytes) - reading
<1> DEFINE l == Len(m_ReceivedBytes)
<1>1. /\ m_ReceivedBytes \in Seq(Incoming) /\ l \in Nat /\ reading \in Nat /\ reading <= l
      /\ Delivered \in Nat /\ Follows(m_ReceivedBytes, Delivered - reading)
  BY DeliveredType, BoundsAssumption DEF ReceiveInv
<1>2. /\ reading + 1 \in Nat \ {0} /\ reading + 1 <= l + 1 /\ l <= Len(m_ReceivedBytes)
      /\ Delivered - reading \in Int
  BY <1>1
<1>3. /\ SubSeq(m_ReceivedBytes, reading + 1, l) \in Seq(Incoming)
      /\ Len(SubSeq(m_ReceivedBytes, reading + 1, l)) = l - (reading + 1) + 1
      /\ Follows(SubSeq(m_ReceivedBytes, reading + 1, l), Delivered - reading + (reading + 1) - 1)
  BY ONLY <1>1, <1>2, FollowsSub
<1>4. /\ l - (reading + 1) + 1 = l - reading
      /\ Delivered - reading + (reading + 1) - 1 = Delivered
  <2> HIDE DEF l
  <2> QED BY <1>1
<1> QED BY <1>3, <1>4 DEF Rest

LEMMA InitReceiveInv == Init => ReceiveInv
<1> SUFFICES ASSUME Init PROVE ReceiveInv
  OBVIOUS
<1>1. Delivered = 0 /\ 0 \in 0 .. MaxBytes
  BY BoundsAssumption DEF Init, Delivered
<1> QED BY <1>1 DEF Init, ReceiveInv, EachWhole, NoEnds, Follows

LEMMA ReceiveAppends ==
  ASSUME m_ReceivedBytes \in Seq(Incoming), arrived \in 0 .. MaxBytes, Delivered \in Nat,
         Follows(m_ReceivedBytes, Delivered), NEW n, Receive(n)
  PROVE  /\ m_ReceivedBytes' \in Seq(Incoming) /\ Len(m_ReceivedBytes') \in Nat
         /\ Follows(m_ReceivedBytes', Delivered)
<1> DEFINE l == Len(m_ReceivedBytes)
           new == [i \in 1 .. n |-> BytesRead + i]
<1>1. n \in 1 .. (arrived - BytesRead) /\ m_ReceivedBytes' = m_ReceivedBytes \o new
  BY DEF Receive
<1>2. l \in Nat /\ MaxBytes \in Nat
  BY BoundsAssumption
<1>3. BytesRead = Delivered + l /\ BytesRead \in Nat
  BY <1>2 DEF BytesRead
<1>4. n \in Nat /\ BytesRead + n <= MaxBytes
  BY <1>1, <1>2, <1>3
<1>5. new \in Seq(Incoming) /\ Len(new) = n /\ Follows(new, Delivered + l)
  <2>1. \A i \in 1 .. n : BytesRead + i \in Incoming
    BY <1>2, <1>3, <1>4 DEF Incoming
  <2>2. new \in Seq(Incoming) /\ Len(new) = n /\ \A i \in 1 .. Len(new) : new[i] = BytesRead + i
    BY <1>4, <2>1
  <2> HIDE DEF new
  <2> QED BY <1>3, <2>2, FollowsIs
<1> HIDE DEF new
<1>6. Delivered \in Int
  OBVIOUS
<1>7. m_ReceivedBytes \o new \in Seq(Incoming) /\ Follows(m_ReceivedBytes \o new, Delivered)
  BY <1>5, <1>6, FollowsCat
<1> QED BY <1>1, <1>7

LEMMA ReceiveStep ==
  ASSUME ReceiveInv, NEW n, Receive(n)
  PROVE  ReceiveInv'
<1>1. at = "receive" /\ at' = "deliver" /\ UNCHANGED <<reading, arrived, delivered>>
  BY DEF Receive, ghosts
<1>2. /\ m_ReceivedBytes \in Seq(Incoming) /\ reading = 0 /\ Delivered \in Nat
      /\ arrived \in 0 .. MaxBytes
  BY <1>1, DeliveredType, BoundsAssumption DEF ReceiveInv
<1>3. Follows(m_ReceivedBytes, Delivered)
  <2>1. Delivered - reading = Delivered
    BY <1>2
  <2> QED BY <1>1, <2>1 DEF ReceiveInv
<1>4. /\ m_ReceivedBytes' \in Seq(Incoming) /\ Len(m_ReceivedBytes') \in Nat
      /\ Follows(m_ReceivedBytes', Delivered)
  BY <1>2, <1>3, ReceiveAppends
<1>5. Delivered' = Delivered /\ EachWhole'
  BY <1>1 DEF Delivered, ReceiveInv, EachWhole
<1>6. Delivered' - reading' = Delivered /\ reading' = 0 /\ reading' \in 0 .. Delivered'
  BY <1>1, <1>2, <1>5
<1> QED BY <1>1, <1>2, <1>4, <1>5, <1>6 DEF ReceiveInv

LEMMA DeliverStep ==
  ASSUME ReceiveInv, Deliver
  PROVE  ReceiveInv'
<1> DEFINE text == SubSeq(Rest, 1, StringLength)
           d == Len(delivered)
<1>1. /\ at = "deliver" /\ at' = at /\ StringLength > 0
      /\ delivered' = Append(delivered, text) /\ reading' = reading + StringLength
      /\ UNCHANGED <<m_ReceivedBytes, arrived>>
  BY DEF Deliver, clientVars
<1>2. /\ Rest \in Seq(Incoming) /\ Follows(Rest, Delivered)
      /\ Len(Rest) = Len(m_ReceivedBytes) - reading
  BY <1>1, RestIs
<1>3. /\ StringLength \in 1 .. Len(Rest) /\ Rest[StringLength] \in Ends
      /\ \A i \in 1 .. StringLength - 1 : Rest[i] \notin Ends
  BY <1>1, <1>2, StringLengthIs
<1>4. /\ delivered \in Seq(Seq(Incoming)) /\ d \in Nat /\ reading \in Nat /\ Delivered \in Nat
      /\ Len(m_ReceivedBytes) \in Nat /\ reading <= Len(m_ReceivedBytes) /\ reading <= Delivered
      /\ Follows(m_ReceivedBytes, Delivered - reading) /\ EachWhole
      /\ m_ReceivedBytes \in Seq(Incoming) /\ arrived \in 0 .. MaxBytes
  BY <1>1, DeliveredType, BoundsAssumption DEF ReceiveInv
<1>5. StringLength \in Nat /\ StringLength >= 1 /\ StringLength <= Len(Rest) /\ Len(Rest) \in Nat
  BY <1>2, <1>3, <1>4
<1>6. text \in Seq(Incoming) /\ Len(text) = StringLength /\ Follows(text, Delivered)
  <2>1. 1 \in Nat \ {0} /\ 1 <= StringLength + 1 /\ Delivered \in Int
    BY <1>4, <1>5
  <2>2. /\ text \in Seq(Incoming) /\ Len(text) = StringLength - 1 + 1
        /\ Follows(text, Delivered + 1 - 1)
    BY ONLY <1>2, <1>5, <2>1, FollowsSub
  <2>3. StringLength - 1 + 1 = StringLength /\ Delivered + 1 - 1 = Delivered
    BY <1>4, <1>5
  <2> HIDE DEF text
  <2> QED BY <2>2, <2>3
<1>7. \A n \in 1 .. StringLength : text[n] = Rest[n]
  BY <1>2, <1>5
<1> HIDE DEF text
<1>8. /\ text # <<>> /\ DOMAIN text = 1 .. StringLength
      /\ \A n \in DOMAIN text : text[n] \in Ends <=> n = Len(text)
  <2>1. text # <<>> /\ DOMAIN text = 1 .. StringLength
    BY <1>5, <1>6
  <2>2. ASSUME NEW n \in 1 .. StringLength, n # StringLength PROVE text[n] \notin Ends
    <3>1. n \in 1 .. StringLength - 1
      BY <1>5, <2>2
    <3> QED BY <1>3, <1>7, <3>1
  <2>3. text[StringLength] \in Ends
    BY <1>3, <1>5, <1>7
  <2> QED BY <1>6, <2>1, <2>2, <2>3
<1>9. /\ delivered' \in Seq(Seq(Incoming)) /\ Len(delivered') = d + 1
      /\ delivered'[d + 1] = text /\ \A k \in 1 .. d : delivered'[k] = delivered[k]
  BY <1>1, <1>4, <1>6
<1>10. Delivered' = Delivered + StringLength
  <2>1. delivered' # <<>> /\ Last(delivered') = text
    BY <1>4, <1>9 DEF Last
  <2>2. Last(text) = Delivered + StringLength
    <3>1. text[StringLength] = Delivered + StringLength
      BY <1>5, <1>6, FollowsIs
    <3> QED BY <1>6, <3>1 DEF Last
  <2> QED BY <2>1, <2>2 DEF Delivered
<1>11. EachWhole'
  <2>1. ASSUME NEW k \in 1 .. d
        PROVE  /\ delivered'[k] = delivered[k]
               /\ k # 1 => delivered'[k - 1] = delivered[k - 1]
    <3>1. k # 1 => k - 1 \in 1 .. d
      BY <1>4
    <3> QED BY <1>9, <3>1
  <2>2. ASSUME NEW k \in 1 .. d
        PROVE  /\ delivered'[k] # <<>>
               /\ Follows(delivered'[k], IF k = 1 THEN 0 ELSE Last(delivered'[k - 1]))
               /\ \A n \in DOMAIN delivered'[k] : delivered'[k][n] \in Ends <=> n = Len(delivered'[k])
    <3>1. CASE k = 1
      <4>1. delivered'[k] = delivered[k]
        BY <2>1
      <4> QED BY <1>4, <3>1, <4>1 DEF EachWhole
    <3>2. CASE k # 1
      <4>1. delivered'[k] = delivered[k] /\ delivered'[k - 1] = delivered[k - 1]
        BY <2>1, <3>2
      <4> QED BY <1>4, <3>2, <4>1 DEF EachWhole
    <3> QED BY <3>1, <3>2
  <2>3. Follows(text, IF d + 1 = 1 THEN 0 ELSE Last(delivered'[(d + 1) - 1]))
    <3>1. CASE d = 0
      <4>1. Delivered = 0
        BY <1>4, <3>1 DEF Delivered
      <4> QED BY <1>6, <3>1, <4>1
    <3>2. CASE d # 0
      <4>1. d \in 1 .. d /\ (d + 1) - 1 = d /\ d + 1 # 1 /\ delivered # <<>>
        BY <1>4, <3>2
      <4>2. Delivered = Last(delivered[d])
        BY <4>1 DEF Delivered, Last
      <4> QED BY <1>6, <1>9, <4>1, <4>2
    <3> QED BY <3>1, <3>2
  <2>4. ASSUME NEW k \in 1 .. d + 1
        PROVE  /\ delivered'[k] # <<>>
               /\ Follows(delivered'[k], IF k = 1 THEN 0 ELSE Last(delivered'[k - 1]))
               /\ \A n \in DOMAIN delivered'[k] : delivered'[k][n] \in Ends <=> n = Len(delivered'[k])
    <3>1. CASE k = d + 1
      BY <1>8, <1>9, <2>3, <3>1
    <3>2. CASE k # d + 1
      <4>1. k \in 1 .. d
        BY <1>4, <3>2
      <4> QED BY <2>2, <4>1
    <3> QED BY <3>1, <3>2
  <2> QED BY <1>9, <2>4 DEF EachWhole
<1>12. /\ reading' \in 0 .. Delivered' /\ reading' <= Len(m_ReceivedBytes)
       /\ Delivered' - reading' = Delivered - reading
  <2>1. reading + StringLength <= Len(m_ReceivedBytes)
    BY <1>2, <1>4, <1>5
  <2> QED BY <1>1, <1>4, <1>5, <1>10, <2>1
<1> QED BY <1>1, <1>4, <1>9, <1>11, <1>12 DEF ReceiveInv

LEMMA KeepRestStep ==
  ASSUME ReceiveInv, KeepRest
  PROVE  ReceiveInv'
<1>1. /\ at = "deliver" /\ at' = "top" /\ StringLength = 0 /\ m_ReceivedBytes' = Rest
      /\ reading' = 0 /\ UNCHANGED <<arrived, delivered>>
  BY DEF KeepRest, EndRound, ghosts
<1>2. /\ Rest \in Seq(Incoming) /\ Follows(Rest, Delivered) /\ Len(Rest) \in Nat
  BY <1>1, RestIs
<1>3. NoEnds(Rest)
  BY <1>1, <1>2, StringLengthIs
<1>4. Delivered' = Delivered /\ EachWhole' /\ Delivered \in Nat
  BY <1>1, DeliveredType, BoundsAssumption DEF Delivered, ReceiveInv, EachWhole
<1>5. Delivered' - reading' = Delivered /\ reading' \in 0 .. Delivered' /\ reading' <= Len(Rest)
  BY <1>1, <1>2, <1>4
<1>6. Follows(m_ReceivedBytes', Delivered' - reading') /\ NoEnds(m_ReceivedBytes')
  BY <1>1, <1>2, <1>3, <1>5
<1> QED BY <1>1, <1>2, <1>4, <1>5, <1>6 DEF ReceiveInv, NoEnds

LEMMA ReceiveInvStep ==
  ASSUME StatusInv, ReceiveInv, [Next]_vars
  PROVE  ReceiveInv'
<1>1. ASSUME UNCHANGED <<m_ReceivedBytes, delivered, reading>>, arrived' \in 0 .. MaxBytes,
             at' = "deliver" => at = "deliver", at' # "exited" => at # "exited",
             at' \notin {"deliver", "exited"} => at \notin {"deliver", "exited"}
      PROVE  ReceiveInv'
  BY <1>1 DEF ReceiveInv, Delivered, EachWhole, NoEnds
<1>2. ASSUME m_ReceivedBytes' = <<>>, UNCHANGED <<delivered, reading, arrived>>,
             at \notin {"deliver", "exited"} \/ at' = "exited"
      PROVE  ReceiveInv'
  <2>1. Delivered' = Delivered /\ EachWhole' /\ Delivered \in Nat
    BY <1>2, DeliveredType, BoundsAssumption DEF Delivered, ReceiveInv, EachWhole
  <2>2. NoEnds(<<>>) /\ \A n : Follows(<<>>, n)
    BY DEF NoEnds, Follows
  <2>3. at' # "exited" => reading = 0
    BY <1>2 DEF ReceiveInv
  <2> QED BY <1>2, <2>1, <2>2, <2>3 DEF ReceiveInv, NoEnds
<1>0. arrived \in 0 .. MaxBytes
  BY DEF ReceiveInv
<1>3. CASE Connect \/ Send \/ Delete
  BY <1>0, <1>1, <1>3 DEF Connect, Send, Delete, clientVars, threadVars, ghosts
<1>4. CASE Destroy
  BY <1>0, <1>1, <1>2, <1>4 DEF Destroy, KeepConnect, CloseConnect, ghosts
<1>5. CASE Stop \/ SelectFails \/ OnlyRead \/ (\E report : Select(report))
  BY <1>0, <1>1, <1>5 DEF Stop, SelectFails, OnlyRead, Select, clientVars, ghosts
<1>6. CASE Except \/ SendFailed
  BY <1>2, <1>6 DEF Except, SendFailed, AsyncProcessDisconnected, CloseConnect
<1>7. CASE Connected \/ SendNothing \/ SendBlocked \/ (\E n : SendBytes(n))
  BY <1>0, <1>1, <1>7 DEF Connected, SendNothing, SendBlocked, SendBytes, AfterSend, EndRound,
                           KeepConnect, clientVars, ghosts
<1>8. CASE ReceiveEnd
  BY <1>0, <1>1, <1>2, <1>8 DEF ReceiveEnd, CloseConnect, KeepConnect, EndRound, ghosts
<1>9. CASE ConnectEnds \/ PeerEnds \/ Reset
  BY <1>0, <1>1, <1>9 DEF ConnectEnds, PeerEnds, Reset, NetworkStep, clientVars, threadVars, ghosts
<1>10. CASE Arrive
  <2>1. arrived' \in 0 .. MaxBytes
    BY <1>0, <1>10, BoundsAssumption DEF Arrive
  <2> QED BY <1>1, <1>10, <2>1 DEF Arrive, clientVars, threadVars, ghosts
<1>11. CASE UNCHANGED vars
  BY <1>0, <1>1, <1>11 DEF vars, clientVars, threadVars, ghosts
<1> QED BY <1>3, <1>4, <1>5, <1>6, <1>7, <1>8, <1>9, <1>10, <1>11, ReceiveStep, DeliverStep,
           KeepRestStep DEF Next, ThreadStep

-----------------------------------------------------------------------------
(* What is left of the types. *)
RestTypes ==
  /\ socket \in {"none", "connecting", "open", "refused", "ended", "reset"}
  /\ at \in {"top", "selected", "send", "receive", "deliver", "exited"}
  /\ ready \subseteq {"read", "write", "except"}
  /\ wouldBlock \in BOOLEAN
  /\ notified \in Seq({"Connected", "Disconnected", "ConnectFailed"})

LEMMA RestTypesStep == RestTypes /\ [Next]_vars => RestTypes'
<1> SUFFICES ASSUME RestTypes, [Next]_vars PROVE RestTypes'
  OBVIOUS
<1> USE DEF RestTypes, clientVars, threadVars, ghosts, CloseConnect, KeepConnect, EndRound
<1>1. CASE Connect \/ Send \/ Delete \/ Destroy
  BY <1>1 DEF Connect, Send, Delete, Destroy
<1>2. CASE Stop \/ SelectFails \/ OnlyRead
  BY <1>2 DEF Stop, SelectFails, OnlyRead
<1>3. ASSUME NEW report \in SUBSET {"read", "write", "except"}, Select(report) PROVE RestTypes'
  BY <1>3 DEF Select
<1>4. CASE Except \/ SendFailed
  <2>1. PICK told \in {"Disconnected", "ConnectFailed"} : notified' = Append(notified, told)
    BY <1>4 DEF Except, SendFailed, AsyncProcessDisconnected
  <2>2. notified' \in Seq({"Connected", "Disconnected", "ConnectFailed"})
    BY <2>1
  <2>3. socket' = "none" /\ at' = "top" /\ ready' = {} /\ (wouldBlock' = wouldBlock \/ wouldBlock' = FALSE)
    BY <1>4 DEF Except, SendFailed, AsyncProcessDisconnected
  <2> QED BY <2>2, <2>3
<1>5. CASE Connected
  BY <1>5 DEF Connected
<1>6. ASSUME NEW n, SendBytes(n) PROVE RestTypes'
  BY <1>6 DEF SendBytes, AfterSend
<1>7. CASE SendNothing \/ SendBlocked
  BY <1>7 DEF SendNothing, SendBlocked, AfterSend
<1>8. ASSUME NEW n, Receive(n) PROVE RestTypes'
  BY <1>8 DEF Receive
<1>9. CASE ReceiveEnd \/ Deliver \/ KeepRest
  BY <1>9 DEF ReceiveEnd, Deliver, KeepRest
<1>10. CASE ConnectEnds \/ PeerEnds \/ Reset \/ Arrive
  BY <1>10 DEF ConnectEnds, PeerEnds, Reset, NetworkStep, Arrive
<1>11. CASE UNCHANGED vars
  BY <1>11 DEF vars
<1> QED BY <1>1, <1>2, <1>3, <1>4, <1>5, <1>6, <1>7, <1>8, <1>9, <1>10, <1>11
        DEF Next, ThreadStep

-----------------------------------------------------------------------------
(* What the peer sends a package client: behind the bytes of the packages  *)
(* delivered, which are the first ones, come those of m_ReceivedBytes.     *)
EachPackage == \A k \in 1 .. Len(delivered) : delivered[k] = PackageBytes(k)
PackInv ==
  /\ m_ReceivedBytes \in Seq(Incoming) /\ delivered \in Seq(Seq(Incoming))
  /\ arrived \in 0 .. MaxBytes /\ reading = 0
  /\ Len(delivered) <= Len(PackageEnds) /\ EachPackage
  /\ at # "exited" => Follows(m_ReceivedBytes, Delivered)

LEMMA PackagesAre ==
  ASSUME NEW k \in 1 .. Len(PackageEnds)
  PROVE  /\ PackageEnds[k] \in Nat /\ Before(k) \in Nat /\ Length(k) \in Nat
         /\ Length(k) >= HeaderSize /\ HeaderSize \in Nat \ {0} /\ Before(k) + Length(k) = PackageEnds[k]
         /\ \A j \in 1 .. k - 1 : PackageEnds[j] \in Nat /\ PackageEnds[j] <= Before(k)
<1>1. /\ HeaderSize \in Nat \ {0} /\ PackageEnds \in Seq(Nat) /\ DOMAIN PackageEnds = 1 .. Len(PackageEnds)
      /\ Len(PackageEnds) \in Nat
  BY PackagesAssumption
<1>2. \A i \in 1 .. Len(PackageEnds) :
        /\ PackageEnds[i] \in Nat /\ PackageEnds[i] >= HeaderSize
        /\ \A j \in 1 .. i - 1 : PackageEnds[j] + HeaderSize <= PackageEnds[i]
  <2>1. \A i \in DOMAIN PackageEnds :
          /\ PackageEnds[i] >= HeaderSize
          /\ \A j \in 1 .. i - 1 : PackageEnds[j] + HeaderSize <= PackageEnds[i]
    BY PackagesAssumption
  <2>2. \A i \in DOMAIN PackageEnds : PackageEnds[i] \in Nat
    BY <1>1
  <2> QED BY <1>1, <2>1, <2>2
<1>3. CASE k = 1
  BY <1>1, <1>2, <1>3 DEF Before, Length
<1>4. CASE k # 1
  <2>1. k - 1 \in 1 .. Len(PackageEnds) /\ k - 1 \in 1 .. k - 1
    BY <1>1, <1>4
  <2>2. Before(k) = PackageEnds[k - 1]
    BY <1>4 DEF Before
  <2>3. PackageEnds[k - 1] \in Nat /\ PackageEnds[k - 1] + HeaderSize <= PackageEnds[k]
    BY <1>2, <2>1
  <2>4. ASSUME NEW j \in 1 .. k - 1
        PROVE PackageEnds[j] \in Nat /\ PackageEnds[j] <= PackageEnds[k - 1]
    <3>1. CASE j = k - 1
      BY <2>3, <3>1
    <3>2. CASE j # k - 1
      <4>1. j \in 1 .. (k - 1) - 1 /\ j \in 1 .. Len(PackageEnds)
        BY <1>1, <3>2
      <4>2. PackageEnds[j] \in Nat /\ PackageEnds[j] + HeaderSize <= PackageEnds[k - 1]
        BY <1>2, <2>1, <4>1
      <4> QED BY <1>1, <2>3, <4>2
    <3> QED BY <3>1, <3>2
  <2>5. PackageEnds[k] \in Nat
    BY <1>2
  <2>6. Length(k) = PackageEnds[k] - PackageEnds[k - 1]
    BY <2>2 DEF Length
  <2>7. Length(k) \in Nat /\ Length(k) >= HeaderSize /\ PackageEnds[k - 1] + Length(k) = PackageEnds[k]
    BY <1>1, <2>3, <2>5, <2>6
  <2> QED BY <1>1, <2>2, <2>3, <2>4, <2>5, <2>7
<1> QED BY <1>3, <1>4

LEMMA PackageBytesAre ==
  ASSUME NEW k \in 1 .. Len(PackageEnds)
  PROVE  /\ Len(PackageBytes(k)) = Length(k) /\ PackageBytes(k) # <<>>
         /\ Last(PackageBytes(k)) = PackageEnds[k]
<1>1. /\ Before(k) \in Nat /\ Length(k) \in Nat /\ Length(k) >= 1 /\ Before(k) + Length(k) = PackageEnds[k]
  BY PackagesAre
<1>2. PackageBytes(k) \in Seq(Nat) /\ Len(PackageBytes(k)) = Length(k)
  BY <1>1 DEF PackageBytes
<1>3. PackageBytes(k)[Length(k)] = Before(k) + Length(k)
  BY <1>1 DEF PackageBytes
<1> QED BY <1>1, <1>2, <1>3 DEF Last

LEMMA PackagesDelivered ==
  ASSUME delivered \in Seq(Seq(Incoming)), Len(delivered) <= Len(PackageEnds), EachPackage
  PROVE  Delivered = Before(Len(delivered) + 1) /\ Delivered \in 0 .. MaxBytes
<1>0. Len(PackageEnds) \in Nat
  BY PackagesAssumption
<1>1. CASE delivered = <<>>
  <2>1. Len(delivered) + 1 = 1
    BY <1>1
  <2> QED BY <1>1, <2>1, BoundsAssumption DEF Delivered, Before
<1>2. CASE delivered # <<>>
  <2> DEFINE d == Len(delivered)
  <2>1. d \in 1 .. Len(delivered) /\ d \in 1 .. Len(PackageEnds) /\ Last(delivered) = delivered[d]
    BY <1>0, <1>2 DEF Last
  <2>2. Last(delivered) = PackageBytes(d) /\ Last(delivered) \in Seq(Incoming)
    BY <2>1 DEF EachPackage
  <2>3. Last(delivered) # <<>> /\ Last(Last(delivered)) = PackageEnds[d]
    BY <2>1, <2>2, PackageBytesAre
  <2>4. Last(Last(delivered)) \in Incoming
    BY <2>2, <2>3 DEF Last
  <2>5. Before(d + 1) = PackageEnds[d]
    BY <2>1 DEF Before
  <2> QED BY <1>2, <2>3, <2>4, <2>5, BoundsAssumption DEF Delivered, Incoming
<1> QED BY <1>1, <1>2

(* The header in front is the one of the next package to deliver. *)
LEMMA FrontIsNext ==
  ASSUME PackInv, at # "exited", m_ReceivedBytes # <<>>
  PROVE  Len(delivered) + 1 \in 1 .. Len(PackageEnds) /\ FrontPackage = Len(delivered) + 1
<1> DEFINE d == Len(delivered)
           b == m_ReceivedBytes[1]
<1>1. /\ d \in Nat /\ Len(PackageEnds) \in Nat /\ d <= Len(PackageEnds)
      /\ DOMAIN PackageEnds = 1 .. Len(PackageEnds)
  BY PackagesAssumption DEF PackInv
<1>2. Delivered = Before(d + 1) /\ Delivered \in Nat
  BY PackagesDelivered, BoundsAssumption DEF PackInv
<1>3. b \in Incoming /\ b = Delivered + 1
  <2>1. m_ReceivedBytes \in Seq(Incoming) /\ 1 \in 1 .. Len(m_ReceivedBytes)
    BY DEF PackInv
  <2>2. Follows(m_ReceivedBytes, Delivered)
    BY DEF PackInv
  <2> QED BY <2>1, <2>2, FollowsIs
<1>4. \A k \in 1 .. d : PackageEnds[k] \in Nat /\ PackageEnds[k] <= Delivered
  <2> SUFFICES ASSUME NEW k \in 1 .. d PROVE PackageEnds[k] \in Nat /\ PackageEnds[k] <= Delivered
    OBVIOUS
  <2>1. d \in 1 .. Len(PackageEnds) /\ d + 1 # 1 /\ (d + 1) - 1 = d
    BY <1>1
  <2>2. Delivered = PackageEnds[d] /\ PackageEnds[d] = Before(d) + Length(d) /\ Before(d) \in Nat
        /\ Length(d) \in Nat
    BY <1>2, <2>1, PackagesAre DEF Before
  <2>3. CASE k = d
    BY <1>2, <2>2, <2>3
  <2>4. CASE k # d
    <3>1. k \in 1 .. d - 1
      BY <1>1, <2>4
    <3>2. PackageEnds[k] \in Nat /\ PackageEnds[k] <= Before(d)
      BY <2>1, <3>1, PackagesAre
    <3> QED BY <2>2, <3>2
  <2> QED BY <2>3, <2>4
<1>5. d + 1 \in 1 .. Len(PackageEnds)
  <2>1. PICK k \in 1 .. Len(PackageEnds) : b <= PackageEnds[k]
    BY <1>1, <1>3, PackagesAssumption DEF Incoming
  <2>2. k \notin 1 .. d
    BY <1>2, <1>3, <1>4, <2>1
  <2> HIDE DEF d, b
  <2> QED BY <1>1, <2>2
<1>6. b \in Before(d + 1) + 1 .. PackageEnds[d + 1]
  <2>1. /\ PackageEnds[d + 1] \in Nat /\ Before(d + 1) \in Nat /\ Length(d + 1) >= 1
        /\ Length(d + 1) \in Nat /\ Before(d + 1) + Length(d + 1) = PackageEnds[d + 1]
    BY <1>5, PackagesAre
  <2> HIDE DEF d, b
  <2> QED BY <1>2, <1>3, <2>1
<1>7. ASSUME NEW k \in 1 .. Len(PackageEnds), b \in Before(k) + 1 .. PackageEnds[k] PROVE k = d + 1
  <2>1. k \notin 1 .. d
    <3>1. PackageEnds[k] \in Nat /\ Before(k) \in Nat
      BY PackagesAre
    <3> QED BY <1>2, <1>3, <1>4, <1>7, <3>1
  <2>2. d + 1 \notin 1 .. k - 1
    <3>1. SUFFICES ASSUME d + 1 \in 1 .. k - 1 PROVE FALSE
      OBVIOUS
    <3>2. PackageEnds[d + 1] \in Nat /\ PackageEnds[d + 1] <= Before(k) /\ Before(k) \in Nat
      BY <3>1, PackagesAre
    <3>3. PackageEnds[k] \in Nat
      BY PackagesAre
    <3> HIDE DEF d, b
    <3>4. b <= PackageEnds[d + 1] /\ b >= Before(k) + 1 /\ b \in Nat
      BY <1>2, <1>3, <1>6, <1>7, <3>2, <3>3
    <3> QED BY <3>2, <3>4
  <2> HIDE DEF d, b
  <2> QED BY <1>1, <2>1, <2>2
<1>8. d + 1 = CHOOSE k \in DOMAIN PackageEnds : b \in Before(k) + 1 .. PackageEnds[k]
  <2> HIDE DEF d, b
  <2> QED BY <1>1, <1>5, <1>6, <1>7
<1> QED BY <1>5, <1>8 DEF FrontPackage

LEMMA PackageDeliverStep ==
  ASSUME PackInv, PackageDeliver
  PROVE  PackInv'
<1> DEFINE d == Len(delivered)
           l == Len(m_ReceivedBytes)
           package == SubSeq(m_ReceivedBytes, 1, PackageLength)
<1>1. /\ at = "deliver" /\ at' = at /\ HasHeader /\ PackageLength = l
      /\ delivered' = Append(delivered, package)
      /\ m_ReceivedBytes' = SubSeq(m_ReceivedBytes, l + 1, l)
      /\ reading' = reading /\ arrived' = arrived
  BY DEF PackageDeliver, Takes, threadVars
<1>2. /\ m_ReceivedBytes \in Seq(Incoming) /\ l \in Nat /\ delivered \in Seq(Seq(Incoming)) /\ d \in Nat
      /\ Follows(m_ReceivedBytes, Delivered)
  BY <1>1 DEF PackInv
<1>3. l >= 1 /\ m_ReceivedBytes # <<>>
  BY <1>1, <1>2, PackagesAssumption DEF HasHeader
<1>4. d + 1 \in 1 .. Len(PackageEnds) /\ l = Length(d + 1)
  BY <1>1, <1>3, FrontIsNext DEF PackageLength
<1>5. Delivered = Before(d + 1) /\ Delivered \in Nat
  BY PackagesDelivered, BoundsAssumption DEF PackInv
<1>6. package \in Seq(Incoming) /\ Len(package) = l /\ Follows(package, Delivered)
  <2>1. package = SubSeq(m_ReceivedBytes, 1, l)
    BY <1>1
  <2>2. 1 \in Nat \ {0} /\ 1 <= l + 1 /\ l <= Len(m_ReceivedBytes) /\ Delivered \in Int
    BY <1>2, <1>5
  <2>3. /\ SubSeq(m_ReceivedBytes, 1, l) \in Seq(Incoming)
        /\ Len(SubSeq(m_ReceivedBytes, 1, l)) = l - 1 + 1
        /\ Follows(SubSeq(m_ReceivedBytes, 1, l), Delivered + 1 - 1)
    BY ONLY <1>2, <2>2, FollowsSub
  <2>4. l - 1 + 1 = l /\ Delivered + 1 - 1 = Delivered
    <3> HIDE DEF l
    <3> QED BY <1>2, <1>5
  <2> QED BY <2>1, <2>3, <2>4
<1>7. package = PackageBytes(d + 1)
  <2> HIDE DEF package, d
  <2> QED BY <1>4, <1>5, <1>6 DEF Follows, PackageBytes
<1>8. m_ReceivedBytes' = <<>>
  <2> HIDE DEF package, d
  <2> QED BY <1>1, <1>2
<1> HIDE DEF package
<1>9. /\ delivered' \in Seq(Seq(Incoming)) /\ Len(delivered') = d + 1
      /\ delivered'[d + 1] = PackageBytes(d + 1) /\ \A k \in 1 .. d : delivered'[k] = delivered[k]
  BY <1>1, <1>2, <1>6, <1>7
<1>10. EachPackage'
  <2>1. ASSUME NEW k \in 1 .. d + 1 PROVE delivered'[k] = PackageBytes(k)
    <3>1. CASE k = d + 1
      BY <1>9, <3>1
    <3>2. CASE k # d + 1
      <4>1. k \in 1 .. d
        BY <1>2, <3>2
      <4> QED BY <1>9, <4>1 DEF PackInv, EachPackage
    <3> QED BY <3>1, <3>2
  <2> QED BY <1>9, <2>1 DEF EachPackage, PackageBytes, Length, Before
<1>11. Len(delivered') <= Len(PackageEnds)
  BY <1>4, <1>9, PackagesAssumption
<1>12. <<>> \in Seq(Incoming) /\ \A n : Follows(<<>>, n)
  BY DEF Follows
<1>13. reading = 0 /\ arrived \in 0 .. MaxBytes
  BY DEF PackInv
<1> QED BY <1>1, <1>8, <1>9, <1>10, <1>11, <1>12, <1>13 DEF PackInv

LEMMA PackInvStep ==
  ASSUME StatusInv, PackInv, SharedThreadStep \/ Others \/ UNCHANGED vars \/ PackageTurn
  PROVE  PackInv'
<1>0. arrived \in 0 .. MaxBytes /\ Delivered \in Nat
  BY PackagesDelivered, BoundsAssumption DEF PackInv
<1>1. ASSUME UNCHANGED <<m_ReceivedBytes, delivered, reading>>, arrived' \in 0 .. MaxBytes,
             at' # "exited" => at # "exited"
      PROVE  PackInv'
  BY <1>1 DEF PackInv, Delivered, EachPackage, PackageBytes, Length, Before
<1>2. ASSUME m_ReceivedBytes' = <<>>, UNCHANGED <<delivered, reading, arrived>>
      PROVE  PackInv'
  <2>1. \A n : Follows(<<>>, n)
    BY DEF Follows
  <2> QED BY <1>2, <2>1 DEF PackInv, EachPackage, PackageBytes, Length, Before
<1>3. CASE Connect \/ Send \/ Delete
  BY <1>0, <1>1, <1>3 DEF Connect, Send, Delete, clientVars, threadVars, ghosts
<1>4. CASE Destroy
  BY <1>0, <1>1, <1>2, <1>4 DEF Destroy, KeepConnect, CloseConnect, ghosts
<1>5. CASE Stop \/ SelectFails \/ OnlyRead \/ (\E report : Select(report))
  BY <1>0, <1>1, <1>5 DEF Stop, SelectFails, OnlyRead, Select, clientVars, ghosts
<1>6. CASE Except \/ SendFailed
  BY <1>2, <1>6 DEF Except, SendFailed, AsyncProcessDisconnected, CloseConnect
<1>7. CASE Connected \/ SendNothing \/ SendBlocked \/ (\E n : SendBytes(n))
  BY <1>0, <1>1, <1>7 DEF Connected, SendNothing, SendBlocked, SendBytes, AfterSend, EndRound,
                           KeepConnect, clientVars, ghosts
<1>8. CASE ReceiveEnd
  BY <1>0, <1>1, <1>2, <1>8 DEF ReceiveEnd, CloseConnect, KeepConnect, EndRound, ghosts
<1>9. ASSUME NEW n, Receive(n) PROVE PackInv'
  <2>1. /\ at = "receive" /\ UNCHANGED <<reading, arrived, delivered>>
    BY <1>9 DEF Receive, ghosts
  <2>2. m_ReceivedBytes' \in Seq(Incoming) /\ Follows(m_ReceivedBytes', Delivered)
    BY <1>0, <1>9, <2>1, ReceiveAppends DEF PackInv
  <2>3. Delivered' = Delivered /\ EachPackage'
    BY <2>1 DEF Delivered, PackInv, EachPackage, PackageBytes, Length, Before
  <2> QED BY <2>1, <2>2, <2>3 DEF PackInv
<1>10. CASE ConnectEnds \/ PeerEnds \/ Reset
  BY <1>0, <1>1, <1>10 DEF ConnectEnds, PeerEnds, Reset, NetworkStep, clientVars, threadVars,
                           ghosts
<1>11. CASE Arrive
  <2>1. arrived' \in 0 .. MaxBytes
    BY <1>0, <1>11, BoundsAssumption DEF Arrive
  <2> QED BY <1>1, <1>11, <2>1 DEF Arrive, clientVars, threadVars, ghosts
<1>12. CASE UNCHANGED vars
  BY <1>0, <1>1, <1>12 DEF vars, clientVars, threadVars, ghosts
<1>13. CASE PackageTurn
  <2>1. CASE PackageWait
    BY <1>0, <1>1, <2>1 DEF PackageWait, EndRound, clientVars, ghosts
  <2>2. CASE PackageIllegal
    BY <1>2, <2>2 DEF PackageIllegal, CloseConnect, ghosts
  <2> QED BY <1>13, <2>1, <2>2, PackageDeliverStep DEF PackageTurn
<1> QED BY <1>3, <1>4, <1>5, <1>6, <1>7, <1>8, <1>9, <1>10, <1>11, <1>12, <1>13
        DEF SharedThreadStep, Others

-----------------------------------------------------------------------------
ClientInv ==
  /\ StatusInv /\ SendInv /\ RestTypes
  /\ protocol \in {"text", "package"}
  /\ protocol = "text" => ReceiveInv
  /\ protocol = "package" => PackInv

LEMMA InitClientInv == ClientInit => ClientInv
<1> SUFFICES ASSUME ClientInit PROVE ClientInv
  OBVIOUS
<1>1. Init /\ protocol \in {"text", "package"}
  BY DEF ClientInit
<1>2. RestTypes
  <2>1. <<>> \in Seq({"Connected", "Disconnected", "ConnectFailed"})
    OBVIOUS
  <2>2. notified = <<>> /\ ready = {} /\ wouldBlock = FALSE /\ at = "top" /\ socket = "none"
    BY <1>1 DEF Init
  <2> QED BY <2>1, <2>2 DEF RestTypes
<1>3. PackInv
  <2>1. m_ReceivedBytes = <<>> /\ delivered = <<>> /\ arrived = 0 /\ reading = 0
    BY <1>1 DEF Init
  <2>2. 0 \in 0 .. MaxBytes /\ 0 <= Len(PackageEnds)
    BY BoundsAssumption, PackagesAssumption
  <2> QED BY <2>1, <2>2 DEF PackInv, EachPackage, Follows
<1> QED BY <1>1, <1>2, <1>3, InitStatusInv, InitSendInv, InitReceiveInv DEF ClientInv

LEMMA ClientInvStep == ClientInv /\ [ClientNext]_socketVars => ClientInv'
<1> SUFFICES ASSUME ClientInv, [ClientNext]_socketVars PROVE ClientInv'
  OBVIOUS
<1>1. protocol' = protocol /\ ([Next]_vars \/ PackageTurn)
  BY ClientSteps
<1>2. StatusInv' /\ SendInv' /\ RestTypes'
  <2>1. CASE [Next]_vars
    BY <2>1, StatusInvStep, SendInvStep, RestTypesStep DEF ClientInv
  <2>2. CASE PackageTurn
    <3>1. StatusInv'
      BY <2>2, PackageTurns DEF ClientInv, StatusInv
    <3>2. RestTypes'
      BY <2>2, PackageTurns DEF ClientInv, RestTypes, CloseConnect
    <3> QED BY <2>2, <3>1, <3>2, SendInvTurn DEF ClientInv
  <2> QED BY <1>1, <2>1, <2>2
<1>3. CASE protocol = "text"
  <2>1. ReceiveInv'
    BY <1>3, ClientSteps, ReceiveInvStep DEF ClientInv
  <2> QED BY <1>1, <1>2, <1>3, <2>1 DEF ClientInv
<1>4. CASE protocol = "package"
  <2>1. PackInv'
    BY <1>4, ClientSteps, PackInvStep DEF ClientInv
  <2> QED BY <1>1, <1>2, <1>4, <2>1 DEF ClientInv
<1> QED BY <1>3, <1>4 DEF ClientInv

LEMMA ClientInvariant == ClientSpec => []ClientInv
  BY InitClientInv, ClientInvStep, PTL DEF ClientSpec

(* The client's state has its types: m_ReceivedBytes holds bytes of the    *)
(* peer only, however often AsyncProcessReceive adds to it.                *)
THEOREM TypeCorrect == ClientSpec => []TypeOK
<1>1. ClientInv => TypeOK
  <2> SUFFICES ASSUME ClientInv PROVE TypeOK
    OBVIOUS
  <2>1. /\ m_ReceivedBytes \in Seq(Incoming) /\ delivered \in Seq(Seq(Incoming))
        /\ arrived \in 0 .. MaxBytes /\ reading \in 0 .. MaxBytes
    <3>1. CASE protocol = "text"
      BY <3>1, DeliveredType, BoundsAssumption DEF ClientInv, ReceiveInv
    <3>2. CASE protocol = "package"
      BY <3>2, BoundsAssumption DEF ClientInv, PackInv
    <3> QED BY <3>1, <3>2 DEF ClientInv
  <2> QED BY <2>1 DEF ClientInv, TypeOK, StatusInv, SendInv, RestTypes, Outgoing, Incoming
<1> QED BY <1>1, ClientInvariant, PTL

(* The bytes of what Send has accepted leave in order, none twice and none *)
(* left out, however send cuts them up (AsyncProcessSending).              *)
THEOREM AllSentInOrder == ClientSpec => []SentInOrder
<1>1. ClientInv => SentInOrder
  BY SentIs DEF ClientInv
<1> QED BY <1>1, ClientInvariant, PTL

(* The peer's texts and packages are delivered each once, whole and in     *)
(* order, however recv cuts them up (AsyncProcessReceive, GetStringLen);   *)
(* the package client may stop delivering, but never delivers a wrong one. *)
THEOREM AllDeliveredWhole == ClientSpec => []ClientsDeliverWhole
<1>1. ClientInv => ClientsDeliverWhole
  <2> SUFFICES ASSUME ClientInv PROVE ClientsDeliverWhole
    OBVIOUS
  <2>1. CASE protocol = "text"
    BY <2>1, WholeIs DEF ClientInv, ClientsDeliverWhole
  <2>2. CASE protocol = "package"
    <3>1. DOMAIN delivered = 1 .. Len(delivered)
      BY <2>2 DEF ClientInv, PackInv
    <3> QED BY <2>2, <3>1 DEF ClientInv, ClientsDeliverWhole, PackagesWhole, PackInv, EachPackage
  <2> QED BY <2>1, <2>2 DEF ClientInv
<1> QED BY <1>1, ClientInvariant, PTL

-----------------------------------------------------------------------------
(* What the reversed test for an incomplete package does to a connection.  *)

(* More has arrived than the package in front; or the connection is over.  *)
Stalled == protocol = "package" /\ HasHeader /\ PackageLength < Len(m_ReceivedBytes)
Over == socket = "none" /\ owner # "new"
Silent == Stalled \/ Over
StaysSilent == Silent => Silent' /\ delivered' = delivered

LEMMA OverStays ==
  ASSUME StatusInv, Over, [Next]_vars \/ PackageTurn
  PROVE  Over' /\ delivered' = delivered
<1>1. at \notin {"selected", "send", "receive", "deliver"}
  BY DEF StatusInv, Over
<1>2. ~PackageTurn
  BY <1>1, PackageTurns
<1>3. CASE UNCHANGED vars
  BY <1>3 DEF vars, ghosts, Over
<1>4. CASE Connect \/ Send \/ Delete \/ Destroy
  BY <1>4 DEF Over, Connect, Send, Delete, Destroy, CloseConnect, KeepConnect, ghosts
<1>5. CASE ConnectEnds \/ PeerEnds \/ Reset \/ Arrive
  BY <1>5 DEF Over, ConnectEnds, PeerEnds, Reset, NetworkStep, Arrive
<1>6. CASE ThreadStep
  <2>1. CASE Stop \/ SelectFails \/ \E report : Select(report)
    BY <2>1 DEF Over, Stop, SelectFails, Select, ghosts
  <2>2. CASE Except \/ Connected \/ OnlyRead
    BY <1>1, <2>2 DEF Except, Connected, OnlyRead
  <2>3. CASE SendNothing \/ SendBlocked \/ SendFailed \/ \E n : SendBytes(n)
    BY <1>1, <2>3 DEF SendNothing, SendBlocked, SendFailed, SendBytes
  <2>4. CASE ReceiveEnd \/ Deliver \/ KeepRest \/ \E n : Receive(n)
    BY <1>1, <2>4 DEF ReceiveEnd, Deliver, KeepRest, Receive
  <2> QED BY <1>6, <2>1, <2>2, <2>3, <2>4 DEF ThreadStep
<1> QED BY <1>2, <1>3, <1>4, <1>5, <1>6 DEF Next

(* The bytes in front stay there, and so does what their header says. *)
LEMMA FrontStays ==
  ASSUME Stalled, protocol' = protocol, PackageLength \in Int,
         Len(m_ReceivedBytes) \in Nat, Len(m_ReceivedBytes') \in Nat,
         Len(m_ReceivedBytes) <= Len(m_ReceivedBytes'), m_ReceivedBytes'[1] = m_ReceivedBytes[1]
  PROVE  Stalled'
<1>1. FrontPackage' = FrontPackage
  BY DEF FrontPackage, Before
<1>2. PackageLength' = PackageLength
  BY <1>1 DEF PackageLength, Length, Before
<1>3. HeaderSize \in Nat
  BY PackagesAssumption
<1> QED BY <1>2, <1>3 DEF Stalled, HasHeader

LEMMA StalledStays ==
  ASSUME StatusInv, PackInv, PackInv', Stalled, protocol' = protocol,
         SharedThreadStep \/ Others \/ UNCHANGED vars \/ PackageTurn
  PROVE  Silent' /\ delivered' = delivered
<1>0. m_ReceivedBytes \in Seq(Incoming) /\ Len(m_ReceivedBytes) \in Nat
  BY DEF PackInv
<1>1. ASSUME m_ReceivedBytes' = m_ReceivedBytes PROVE Stalled'
  BY <1>1 DEF Stalled, HasHeader, PackageLength, FrontPackage, Length, Before
<1>2. CASE Connect \/ Send \/ Delete
  BY <1>1, <1>2 DEF Connect, Send, Delete, clientVars, ghosts, Silent
<1>3. CASE Destroy
  BY <1>1, <1>3 DEF Destroy, KeepConnect, CloseConnect, ghosts, Silent, Over
<1>4. CASE ConnectEnds \/ PeerEnds \/ Reset \/ Arrive
  BY <1>1, <1>4 DEF ConnectEnds, PeerEnds, Reset, NetworkStep, Arrive, clientVars, ghosts, Silent
<1>5. CASE UNCHANGED vars
  BY <1>1, <1>5 DEF vars, clientVars, ghosts, Silent
<1>6. CASE Stop \/ SelectFails \/ OnlyRead \/ \E report : Select(report)
  BY <1>1, <1>6 DEF Stop, SelectFails, OnlyRead, Select, clientVars, ghosts, Silent
<1>7. CASE Except \/ SendFailed
  BY <1>7 DEF Except, SendFailed, AsyncProcessDisconnected, CloseConnect, StatusInv, Silent, Over
<1>8. CASE Connected \/ SendNothing \/ SendBlocked \/ \E n : SendBytes(n)
  BY <1>1, <1>8 DEF Connected, SendNothing, SendBlocked, SendBytes, KeepConnect, clientVars,
       ghosts, Silent
<1>9. CASE ReceiveEnd
  BY <1>1, <1>9 DEF ReceiveEnd, CloseConnect, KeepConnect, ghosts, StatusInv, Silent, Over
<1>10. ASSUME NEW n, Receive(n) PROVE Silent' /\ delivered' = delivered
  <2>1. /\ delivered' = delivered /\ n \in 1 .. (arrived - BytesRead)
        /\ m_ReceivedBytes' = m_ReceivedBytes \o [i \in 1 .. n |-> BytesRead + i]
    BY <1>10 DEF Receive, ghosts
  <2>2. m_ReceivedBytes' \in Seq(Incoming) /\ Len(m_ReceivedBytes) >= 1 /\ m_ReceivedBytes # <<>>
    BY <1>0, PackagesAssumption DEF PackInv, Stalled, HasHeader
  <2>3. PICK new \in Seq(Int) : m_ReceivedBytes' = m_ReceivedBytes \o new
    <3>1. Delivered \in Nat /\ arrived \in Nat
      BY PackagesDelivered, BoundsAssumption DEF PackInv
    <3>2. BytesRead \in Nat /\ n \in Nat
      BY <1>0, <2>1, <3>1 DEF BytesRead
    <3>3. [i \in 1 .. n |-> BytesRead + i] \in Seq(Int)
      BY <3>2
    <3> QED BY <2>1, <3>3
  <2>4. m_ReceivedBytes \in Seq(Int)
    BY <1>0, BoundsAssumption DEF Incoming
  <2>5. Len(m_ReceivedBytes') \in Nat /\ Len(m_ReceivedBytes) <= Len(m_ReceivedBytes')
    BY <1>0, <2>3, <2>4
  <2>6. m_ReceivedBytes'[1] = m_ReceivedBytes[1]
    BY <1>0, <2>2, <2>3, <2>4
  <2>7. at # "exited"
    BY <1>10 DEF Receive
  <2>8. PackageLength \in Int
    BY <2>2, <2>7, FrontIsNext, PackagesAre DEF PackageLength
  <2> QED BY <1>0, <2>1, <2>5, <2>6, <2>8, FrontStays DEF Silent
<1>11. CASE PackageTurn
  <2>1. ~Takes
    <3>1. m_ReceivedBytes # <<>> /\ HasHeader
      BY <1>0, PackagesAssumption DEF Stalled, HasHeader
    <3>2. PackageLength \in Int
      <4>1. at # "exited"
        BY <1>11, PackageTurns
      <4> QED BY <3>1, <4>1, FrontIsNext, PackagesAre DEF PackageLength
    <3> QED BY <1>0, <3>2 DEF Takes, Stalled
  <2>2. PackageWait
    BY <1>11, <2>1 DEF PackageTurn, PackageIllegal, PackageDeliver
  <2> QED BY <1>1, <2>2 DEF PackageWait, clientVars, ghosts, Silent
<1> QED BY <1>2, <1>3, <1>4, <1>5, <1>6, <1>7, <1>8, <1>9, <1>10, <1>11 DEF SharedThreadStep, Others

(* Once more has arrived than the package in front (two packages that      *)
(* arrive together are enough), PackageIOCPClient delivers nothing any     *)
(* more, whatever arrives later: until the connection is over and ever     *)
(* after.                                                                  *)
THEOREM PackagesStall == ClientSpec => [][StaysSilent]_socketVars
<1>1. ClientInv /\ ClientInv' /\ [ClientNext]_socketVars => [StaysSilent]_socketVars
  <2> SUFFICES ASSUME ClientInv, ClientInv', [ClientNext]_socketVars, Silent
               PROVE  Silent' /\ delivered' = delivered
    BY DEF StaysSilent
  <2>1. CASE Over
    BY <2>1, ClientSteps, OverStays DEF ClientInv, Silent
  <2>2. CASE Stalled
    <3>1. protocol = "package" /\ protocol' = protocol
      BY <2>2, ClientSteps DEF Stalled
    <3>2. PackInv /\ PackInv' /\ StatusInv
      BY <3>1 DEF ClientInv
    <3> QED BY <2>2, <3>1, <3>2, ClientSteps, StalledStays
  <2> QED BY <2>1, <2>2 DEF Silent
<1> QED BY <1>1, ClientInvariant, PTL DEF ClientSpec

-----------------------------------------------------------------------------
(* recv ends inside a package, behind its header.                          *)
CutInside ==
  \E n \in 1 .. MaxBytes : Receive(n) /\ HasHeader' /\ ~(PackageLength <= Len(m_ReceivedBytes))'
Fits == protocol = "package" /\ at = "deliver" /\ HasHeader => PackageLength <= Len(m_ReceivedBytes)
Intact == overrun = FALSE

LEMMA FitsStep ==
  ASSUME ClientInv, Fits, [ClientNext]_socketVars, [~CutInside]_socketVars
  PROVE  Fits'
<1>0. protocol' = protocol
  BY ClientSteps
<1> SUFFICES ASSUME protocol = "package", at' = "deliver", HasHeader'
             PROVE  PackageLength' <= Len(m_ReceivedBytes)'
  BY <1>0 DEF Fits
<1>1. SharedThreadStep \/ Others \/ UNCHANGED vars \/ PackageTurn
  BY ClientSteps
<1>2. ASSUME m_ReceivedBytes' = m_ReceivedBytes, at = "deliver"
      PROVE  PackageLength' <= Len(m_ReceivedBytes)'
  <2>1. HasHeader
    BY <1>2 DEF HasHeader
  <2>2. PackageLength' = PackageLength
    BY <1>2 DEF PackageLength, FrontPackage, Length, Before
  <2> QED BY <1>2, <2>1, <2>2 DEF Fits
<1>3. CASE UNCHANGED vars
  BY <1>2, <1>3 DEF vars, clientVars, threadVars
<1>4. CASE Others
  BY <1>2, <1>4 DEF Others, Connect, Send, Delete, Destroy, ConnectEnds, PeerEnds, Reset,
       NetworkStep, Arrive, clientVars, threadVars
<1>5. CASE PackageTurn
  <2>1. CASE PackageWait \/ PackageIllegal
    BY <2>1 DEF PackageWait, PackageIllegal, EndRound
  <2>2. CASE PackageDeliver
    <3>1. PackInv /\ m_ReceivedBytes' = SubSeq(m_ReceivedBytes, Len(m_ReceivedBytes) + 1, Len(m_ReceivedBytes))
      BY <2>2 DEF PackageDeliver, ClientInv
    <3>2. m_ReceivedBytes' = <<>>
      BY <3>1 DEF PackInv
    <3> QED BY <3>2, PackagesAssumption DEF HasHeader
  <2> QED BY <1>5, <2>1, <2>2 DEF PackageTurn
<1>6. ASSUME NEW n \in 1 .. MaxBytes, Receive(n) PROVE PackageLength' <= Len(m_ReceivedBytes)'
  <2>1. ~(UNCHANGED socketVars)
    BY <1>6 DEF Receive, socketVars, vars, threadVars
  <2>2. ~CutInside
    BY <2>1
  <2> QED BY <1>6, <2>2 DEF CutInside
<1>7. CASE SharedThreadStep
  <2>1. CASE Stop \/ SelectFails \/ OnlyRead \/ \E report : Select(report)
    BY <2>1 DEF Stop, SelectFails, OnlyRead, Select
  <2>2. CASE Except \/ Connected
    BY <2>2 DEF Except, Connected, EndRound
  <2>3. CASE SendNothing \/ SendBlocked \/ SendFailed \/ \E n : SendBytes(n)
    BY <2>3 DEF SendNothing, SendBlocked, SendFailed, SendBytes, AfterSend, EndRound
  <2>4. CASE ReceiveEnd
    BY <2>4 DEF ReceiveEnd, EndRound
  <2> QED BY <1>6, <1>7, <2>1, <2>2, <2>3, <2>4 DEF SharedThreadStep
<1> QED BY <1>1, <1>3, <1>4, <1>5, <1>7

(* PackageIOCPClient copies memory outside its buffer only when a recv     *)
(* has ended inside a package, behind its header.                          *)
THEOREM OverrunsCutPackagesOnly == ClientSpec /\ [][~CutInside]_socketVars => []Intact
<1>1. ClientInit => Fits /\ Intact
  BY DEF ClientInit, Init, Fits, Intact
<1>2. ClientInv /\ Fits /\ [ClientNext]_socketVars /\ [~CutInside]_socketVars => Fits'
  BY FitsStep
<1>3. ClientInv /\ Fits /\ Intact /\ [ClientNext]_socketVars => Intact'
  <2> SUFFICES ASSUME ClientInv, Fits, Intact, [ClientNext]_socketVars PROVE Intact'
    OBVIOUS
  <2>1. CASE UNCHANGED socketVars
    BY <2>1 DEF socketVars, Intact
  <2>2. CASE PackageOverrun /\ protocol = "package"
    <3>1. at = "deliver" /\ HasHeader /\ PackageLength > Len(m_ReceivedBytes) /\ PackInv
      BY <2>2 DEF PackageOverrun, Takes, ClientInv
    <3>2. m_ReceivedBytes # <<>> /\ Len(m_ReceivedBytes) \in Nat
      BY <3>1, PackagesAssumption DEF HasHeader, PackInv
    <3>3. PackageLength \in Int
      BY <3>1, <3>2, FrontIsNext, PackagesAre DEF PackageLength
    <3> QED BY <2>2, <3>1, <3>2, <3>3 DEF Fits
  <2>3. CASE ClientNext /\ ~(PackageOverrun /\ protocol = "package")
    BY <2>3 DEF ClientNext, ClientThreadStep, PackageThreadStep, PackageWait, PackageIllegal,
         PackageDeliver, Intact
  <2> QED BY <2>1, <2>2, <2>3
<1> QED BY <1>1, <1>2, <1>3, ClientInvariant, PTL DEF ClientSpec
=============================================================================
