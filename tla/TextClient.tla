----------------------------- MODULE TextClient -----------------------------
(***************************************************************************)
(* CTextIOCPClient: one TCP connection that sends and receives texts ended *)
(* by a zero byte.  Its owner, a thread that has the object from the pool  *)
(* (see ConnectionPool), connects it, sends and deletes it; its own thread *)
(* (AsyncProcessThread) selects on the socket without the lock and then    *)
(* does all reading, writing and closing under m_Mutex.                    *)
(* The select, and each part of the round under the lock, is one action:   *)
(* the network moves between them, so a selected socket may have changed.  *)
(* SocketClients has the specification, of this client and the other one.  *)
(***************************************************************************)
EXTENDS Naturals, Sequences, SequencesExt

CONSTANTS
  TextLength,  \* bytes of a text the owner sends, its zero included
  MaxTexts,    \* bound: texts the owner sends
  MaxBytes,    \* bound: bytes the peer sends
  Ends         \* those of them that are zero

ASSUME LengthAssumption == TextLength \in Nat \ {0}
ASSUME BoundsAssumption == MaxTexts \in Nat /\ MaxBytes \in Nat /\ Ends \subseteq 1 .. MaxBytes

VARIABLES
  owner,             \* "new", "using", "deleting" (m_bShutdown), "deleted"
  socket,            \* what is behind sdSocketCopy; "none": INVALID_SOCKET
  m_bIsConnected,
  m_SendBufferList,  \* texts to send, each the sequence of its bytes
  m_SendingBytes,    \* what is left of the text being sent; <<>>: NULL
  m_ReceivedBytes,
  at,                \* where AsyncProcessThread is
  ready,             \* what its select reported
  reading,           \* dwReadingLength in AsyncProcessReceive
  wouldBlock,        \* the thread's last error is WSAEWOULDBLOCK
  arrived,           \* bytes of the peer that have arrived
  accepted,          \* ghost: texts Send has queued
  wire,              \* ghost: the bytes given to the network
  delivered,         \* ghost: the texts given to NotifyReceivedFormatPackage
  notified           \* ghost: the calls of NotifyConnectionStatus

clientVars == <<m_bIsConnected, m_SendBufferList, m_SendingBytes, m_ReceivedBytes>>
ghosts == <<accepted, wire, delivered, notified>>
threadVars == <<at, ready, reading, wouldBlock>>
vars == <<owner, socket, clientVars, threadVars, arrived, ghosts>>

(* Bytes are told apart by their number: byte i the owner sends and byte i *)
(* the peer sends.                                                         *)
Text(k) == [i \in 1 .. TextLength |-> (k - 1) * TextLength + i]

Init ==
  /\ owner = "new" /\ socket = "none"
  /\ m_bIsConnected = FALSE
  /\ m_SendBufferList = <<>> /\ m_SendingBytes = <<>> /\ m_ReceivedBytes = <<>>
  /\ at = "top" /\ ready = {} /\ reading = 0 /\ wouldBlock = FALSE
  /\ arrived = 0
  /\ accepted = 0 /\ wire = <<>> /\ delivered = <<>> /\ notified = <<>>

-----------------------------------------------------------------------------
(* The owner.  Connect fails when the host name does not resolve, and then *)
(* the object is deleted; when no socket can be made it succeeds.          *)
Connect ==
  /\ owner = "new"
  /\ \/ owner' = "using" /\ socket' \in {"connecting", "none"}
     \/ owner' = "deleting" /\ UNCHANGED socket
  /\ UNCHANGED <<clientVars, threadVars, arrived, ghosts>>

Locked == at \in {"send", "receive", "deliver"}

Send ==
  /\ owner = "using" /\ ~Locked /\ accepted < MaxTexts
  /\ socket # "none"
  /\ accepted' = accepted + 1
  /\ m_SendBufferList' = Append(m_SendBufferList, Text(accepted + 1))
  /\ UNCHANGED <<owner, socket, m_bIsConnected, m_SendingBytes, m_ReceivedBytes, threadVars,
                 arrived, wire, delivered, notified>>

Delete ==
  /\ owner = "using" /\ owner' = "deleting"
  /\ UNCHANGED <<socket, clientVars, threadVars, arrived, ghosts>>

CloseConnect ==
  /\ socket' = "none"
  /\ m_SendBufferList' = <<>> /\ m_SendingBytes' = <<>> /\ m_ReceivedBytes' = <<>>

KeepConnect == UNCHANGED <<socket, m_SendBufferList, m_SendingBytes, m_ReceivedBytes>>

DestroyUnclosed ==   \* mutant: the destructor leaves closing to the thread
  /\ owner = "deleting" /\ owner' = "deleted"
  /\ at' = "exited"
  /\ KeepConnect
  /\ UNCHANGED <<m_bIsConnected, ready, reading, wouldBlock, arrived, ghosts>>

(* The destructor waits 10 s for the thread and then terminates it,        *)
(* wherever it is.  The socket is closed if m_bIsConnected.                *)
Destroy ==
  /\ owner = "deleting" /\ owner' = "deleted"
  /\ at' = "exited"
  /\ IF m_bIsConnected THEN CloseConnect ELSE KeepConnect
  /\ UNCHANGED <<m_bIsConnected, ready, reading, wouldBlock, arrived, ghosts>>

-----------------------------------------------------------------------------
(* AsyncProcessThread. *)
Stop ==
  /\ at = "top" /\ owner # "new" /\ owner # "using"
  /\ at' = "exited"
  /\ UNCHANGED <<owner, socket, clientVars, ready, reading, wouldBlock, arrived, ghosts>>

(* What select may report: a failed connect is an exception; the end and   *)
(* the reset of a stream can be read; there is room to write, unless texts *)
(* have filled it or the stream was reset.                                 *)
Delivered == IF delivered = <<>> THEN 0 ELSE Last(Last(delivered))   \* the last byte
BytesRead == Delivered + Len(m_ReceivedBytes)
Readable == socket \in {"ended", "reset"} \/ (socket = "open" /\ BytesRead < arrived)
Reports ==
  CASE socket = "refused" -> {{"except"}}
    [] Readable -> {{"read", "write"}}
                   \cup (IF wire # <<>> \/ socket = "reset" THEN {{"read"}} ELSE {})
    [] socket = "open" -> {{"write"}}
    [] OTHER -> {}

Select(report) ==
  /\ at = "top" /\ at' = "selected"
  /\ report \in Reports
  /\ ready' = report
  /\ UNCHANGED <<owner, socket, clientVars, reading, wouldBlock, arrived, ghosts>>

SelectFails ==
  /\ at = "top" /\ socket # "none"
  /\ at' = "exited"
  /\ UNCHANGED <<owner, socket, clientVars, ready, reading, wouldBlock, arrived, ghosts>>

(* A round ends; what select reported is forgotten. *)
EndRound == at' = "top" /\ ready' = {}

DisconnectedOpen ==   \* mutant: the socket is closed but the handle kept
  /\ notified' = Append(notified, IF m_bIsConnected THEN "Disconnected" ELSE "ConnectFailed")
  /\ m_bIsConnected' = FALSE
  /\ KeepConnect

AsyncProcessDisconnected ==
  /\ notified' = Append(notified, IF m_bIsConnected THEN "Disconnected" ELSE "ConnectFailed")
  /\ m_bIsConnected' = FALSE
  /\ CloseConnect

Except ==
  /\ at = "selected" /\ "except" \in ready
  /\ AsyncProcessDisconnected
  /\ EndRound
  /\ UNCHANGED <<owner, reading, wouldBlock, arrived, accepted, wire, delivered>>

ConnectedAgain ==   \* mutant: the first write event is not told from the others
  /\ at = "selected" /\ "write" \in ready
  /\ at' = "send"
  /\ m_bIsConnected' = TRUE /\ notified' = Append(notified, "Connected")
  /\ KeepConnect
  /\ UNCHANGED <<owner, ready, reading, wouldBlock, arrived, accepted, wire, delivered>>

(* A socket that can be written is connected: AsyncProcessConnected. *)
Connected ==
  /\ at = "selected" /\ "write" \in ready
  /\ at' = "send"
  /\ m_bIsConnected' = TRUE
  /\ notified' = IF m_bIsConnected THEN notified ELSE Append(notified, "Connected")
  /\ KeepConnect
  /\ UNCHANGED <<owner, ready, reading, wouldBlock, arrived, accepted, wire, delivered>>

OnlyRead ==
  /\ at = "selected" /\ ready = {"read"}
  /\ at' = "receive"
  /\ UNCHANGED <<owner, socket, clientVars, ready, reading, wouldBlock, arrived, ghosts>>

-----------------------------------------------------------------------------
(* AsyncProcessSending: nothing to send; or the network takes part of the  *)
(* current text, takes nothing, or has failed.                             *)
ToSend == IF m_SendingBytes = <<>> /\ m_SendBufferList # <<>>
            THEN Head(m_SendBufferList) ELSE m_SendingBytes
Waiting == IF m_SendingBytes = <<>> /\ m_SendBufferList # <<>>
             THEN Tail(m_SendBufferList) ELSE m_SendBufferList

(* The receive part follows if select reported it. *)
AfterSend ==
  \/ "read" \in ready /\ at' = "receive" /\ UNCHANGED ready
  \/ "read" \notin ready /\ EndRound

SendNothing ==
  /\ at = "send" /\ ToSend = <<>>
  /\ AfterSend
  /\ UNCHANGED <<owner, socket, clientVars, reading, wouldBlock, arrived, ghosts>>

SendWholeOnly(n) ==   \* mutant: the rest of a text is dropped when a part was sent
  /\ at = "send" /\ socket \in {"open", "ended"}
  /\ n \in 1 .. Len(ToSend)
  /\ wire' = wire \o SubSeq(ToSend, 1, n)
  /\ m_SendingBytes' = <<>>
  /\ m_SendBufferList' = Waiting
  /\ AfterSend
  /\ UNCHANGED <<owner, socket, m_bIsConnected, m_ReceivedBytes, reading, wouldBlock, arrived,
                 accepted, delivered, notified>>

SendNewOnly(n) ==   \* mutant: returns when the list is empty, whatever is being sent
  /\ at = "send" /\ socket \in {"open", "ended"}
  /\ m_SendBufferList # <<>>
  /\ n \in 1 .. Len(ToSend)
  /\ wire' = wire \o SubSeq(ToSend, 1, n)
  /\ m_SendingBytes' = SubSeq(ToSend, n + 1, Len(ToSend))
  /\ m_SendBufferList' = Waiting
  /\ AfterSend
  /\ UNCHANGED <<owner, socket, m_bIsConnected, m_ReceivedBytes, reading, wouldBlock, arrived,
                 accepted, delivered, notified>>

SendBytes(n) ==
  /\ at = "send" /\ socket \in {"open", "ended"}
  /\ n \in 1 .. Len(ToSend)
  /\ wire' = wire \o SubSeq(ToSend, 1, n)
  /\ m_SendingBytes' = SubSeq(ToSend, n + 1, Len(ToSend))
  /\ m_SendBufferList' = Waiting
  /\ AfterSend
  /\ UNCHANGED <<owner, socket, m_bIsConnected, m_ReceivedBytes, reading, wouldBlock, arrived,
                 accepted, delivered, notified>>

SendBlocked ==
  /\ at = "send" /\ socket \in {"open", "ended"} /\ ToSend # <<>>
  /\ m_SendingBytes' = ToSend /\ m_SendBufferList' = Waiting
  /\ wouldBlock' = TRUE
  /\ AfterSend
  /\ UNCHANGED <<owner, socket, m_bIsConnected, m_ReceivedBytes, reading, arrived, ghosts>>

SendFailed ==
  /\ at = "send" /\ socket = "reset" /\ ToSend # <<>>
  /\ AsyncProcessDisconnected
  /\ wouldBlock' = FALSE
  /\ EndRound
  /\ UNCHANGED <<owner, reading, arrived, accepted, wire, delivered>>

-----------------------------------------------------------------------------
(* AsyncProcessReceive.  A failed recv closes the connection and leaves    *)
(* m_bIsConnected as it is; so does the end of the stream, unless an       *)
(* earlier call left WSAEWOULDBLOCK as the last error.                     *)
ReceiveEnd ==
  /\ at = "receive"
  /\ socket = "reset" \/ (socket = "ended" /\ BytesRead = arrived)
  /\ \/ CloseConnect
     \/ socket = "ended" /\ wouldBlock /\ KeepConnect
  /\ EndRound
  /\ UNCHANGED <<owner, m_bIsConnected, reading, wouldBlock, arrived, ghosts>>

ReceiveOverrun(n) ==   \* mutant: the zero byte behind the data is kept too
  /\ at = "receive" /\ at' = "deliver"
  /\ socket \in {"open", "ended"}
  /\ n \in 1 .. (arrived - BytesRead)
  /\ m_ReceivedBytes' = m_ReceivedBytes \o [i \in 1 .. n + 1 |-> BytesRead + i]
  /\ UNCHANGED <<owner, socket, m_bIsConnected, m_SendBufferList, m_SendingBytes, ready, reading,
                 wouldBlock, arrived, ghosts>>

Receive(n) ==
  /\ at = "receive" /\ at' = "deliver"
  /\ socket \in {"open", "ended"}
  /\ n \in 1 .. (arrived - BytesRead)
  /\ m_ReceivedBytes' = m_ReceivedBytes \o [i \in 1 .. n |-> BytesRead + i]
  /\ UNCHANGED <<owner, socket, m_bIsConnected, m_SendBufferList, m_SendingBytes, ready, reading,
                 wouldBlock, arrived, ghosts>>

(* GetStringLen from where the loop is: 0 stands for -1, no zero byte. *)
Rest == SubSeq(m_ReceivedBytes, reading + 1, Len(m_ReceivedBytes))
StringLength == SelectInSeq(Rest, LAMBDA b : b \in Ends)

Deliver ==
  /\ at = "deliver" /\ StringLength > 0
  /\ delivered' = Append(delivered, SubSeq(Rest, 1, StringLength))
  /\ reading' = reading + StringLength
  /\ UNCHANGED <<owner, socket, clientVars, at, ready, wouldBlock, arrived, accepted, wire, notified>>

KeepAll ==   \* mutant: what was delivered stays in the buffer
  /\ at = "deliver" /\ StringLength = 0
  /\ reading' = 0
  /\ EndRound
  /\ UNCHANGED <<owner, socket, clientVars, wouldBlock, arrived, ghosts>>

(* The rest is moved to the front of the buffer. *)
KeepRest ==
  /\ at = "deliver" /\ StringLength = 0
  /\ m_ReceivedBytes' = Rest
  /\ reading' = 0
  /\ EndRound
  /\ UNCHANGED <<owner, socket, m_bIsConnected, m_SendBufferList, m_SendingBytes, wouldBlock,
                 arrived, ghosts>>

-----------------------------------------------------------------------------
(* The network and the peer. *)
NetworkStep(from, to) ==
  /\ socket \in from /\ socket' = to
  /\ UNCHANGED <<owner, clientVars, threadVars, arrived, ghosts>>

ConnectEnds == NetworkStep({"connecting"}, "open") \/ NetworkStep({"connecting"}, "refused")
PeerEnds == NetworkStep({"open"}, "ended")
Reset == NetworkStep({"open", "ended"}, "reset")

Arrive ==
  /\ socket = "open" /\ arrived < MaxBytes
  /\ arrived' \in arrived + 1 .. MaxBytes
  /\ UNCHANGED <<owner, socket, clientVars, threadVars, ghosts>>

-----------------------------------------------------------------------------
ThreadStep ==
  \/ Stop \/ SelectFails \/ (\E report \in SUBSET {"read", "write", "except"} : Select(report))
  \/ Except \/ Connected \/ OnlyRead
  \/ SendNothing \/ SendBlocked \/ SendFailed \/ (\E n \in 1 .. TextLength : SendBytes(n))
  \/ ReceiveEnd \/ Deliver \/ KeepRest \/ (\E n \in 1 .. MaxBytes : Receive(n))

Next ==
  \/ Connect \/ Send \/ Delete \/ Destroy
  \/ ThreadStep
  \/ ConnectEnds \/ PeerEnds \/ Reset \/ Arrive

-----------------------------------------------------------------------------
TypeOK ==
  /\ owner \in {"new", "using", "deleting", "deleted"}
  /\ socket \in {"none", "connecting", "open", "refused", "ended", "reset"}
  /\ m_bIsConnected \in BOOLEAN
  /\ m_SendBufferList \in Seq(Seq(1 .. TextLength * MaxTexts))
  /\ m_SendingBytes \in Seq(1 .. TextLength * MaxTexts)
  /\ m_ReceivedBytes \in Seq(1 .. MaxBytes)
  /\ at \in {"top", "selected", "send", "receive", "deliver", "exited"}
  /\ ready \subseteq {"read", "write", "except"}
  /\ reading \in 0 .. MaxBytes
  /\ wouldBlock \in BOOLEAN
  /\ arrived \in 0 .. MaxBytes
  /\ accepted \in 0 .. MaxTexts
  /\ wire \in Seq(1 .. TextLength * MaxTexts)
  /\ delivered \in Seq(Seq(1 .. MaxBytes))
  /\ notified \in Seq({"Connected", "Disconnected", "ConnectFailed"})

(* The bytes of the texts Send has accepted leave in order, none twice and *)
(* none left out, however the network cuts them up; until the connection   *)
(* is closed every other byte of them is still waiting, in order.          *)
Follows(s, n) == s = [i \in 1 .. Len(s) |-> n + i]   \* the bytes after byte n
SentInOrder ==
  /\ Follows(wire, 0) /\ Len(wire) <= accepted * TextLength
  /\ socket # "none" =>
       LET taken == accepted - Len(m_SendBufferList) IN
       /\ Follows(m_SendingBytes, Len(wire))
       /\ Len(wire) + Len(m_SendingBytes) = taken * TextLength
       /\ \A k \in DOMAIN m_SendBufferList : m_SendBufferList[k] = Text(taken + k)

(* NotifyReceivedFormatPackage is given the peer's texts, each once, whole *)
(* and in order, however recv cuts them up; the beginning of a text stays  *)
(* in the buffer between two rounds.                                       *)
DeliveredWhole ==
  /\ \A k \in DOMAIN delivered :
       /\ delivered[k] # <<>>
       /\ Follows(delivered[k], IF k = 1 THEN 0 ELSE Last(delivered[k - 1]))
       /\ \A n \in DOMAIN delivered[k] : delivered[k][n] \in Ends <=> n = Len(delivered[k])
  /\ at \notin {"deliver", "exited"} =>
       /\ Follows(m_ReceivedBytes, Delivered)
       /\ \A i \in DOMAIN m_ReceivedBytes : m_ReceivedBytes[i] \notin Ends

(* What NotifyConnectionStatus was told agrees with m_bIsConnected: it is  *)
(* told of a connection once, then of its end at most once, or that the    *)
(* connect failed; never that a lost connection is back.                   *)
StatusNotified ==
  notified \in (IF m_bIsConnected THEN {<<"Connected">>}
                ELSE {<<>>, <<"ConnectFailed">>, <<"Connected", "Disconnected">>})

(* The destructor leaves no socket open that has been connected.  (It does *)
(* leave one that is still connecting, which the peer may then accept.)    *)
ConnectedAreClosed ==
  owner = "deleted" /\ notified # <<>> => socket = "none"

(* What ConnectionPool assumes of its connections: from Connect on, the    *)
(* status the pool reads follows ConnectionStatus.                         *)
Status ==
  CASE owner = "new" -> "connecting"
    [] owner = "deleted" -> "deleted"
    [] OTHER -> IF socket = "none"
                  THEN IF m_bIsConnected THEN "zombie" ELSE "closed"
                  ELSE IF m_bIsConnected THEN "connected" ELSE "connecting"
Pooled == INSTANCE ConnectionStatus WITH status <- Status
ImplementsStatus == Pooled!Spec
=============================================================================
