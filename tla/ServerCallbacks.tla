-------------------------- MODULE ServerCallbacks --------------------------
(***************************************************************************)
(* What CBaseIOCPServer promises the classes derived from it, whatever its *)
(* workers, completions and references do: which callbacks run for a       *)
(* client, in which order, and how long its PER_SOCKET_CONTEXT stays.      *)
(***************************************************************************)
CONSTANT Contexts

VARIABLE contact   \* what is going on with each client

(* callback: NotifyNewConnection ("arrival") or NotifyReceivedPackage      *)
(* ("receipt") is called or about to be; leaving: a worker is in           *)
(* NotifyDisconnectedClient.                                               *)
Is(life, open, callback, leaving) ==
  [life |-> life, open |-> open, callback |-> callback, leaving |-> leaving]
NoContact == Is("none", FALSE, "none", FALSE)

Init == contact = [c \in Contexts |-> NoContact]

Become(c, k) == contact' = [contact EXCEPT ![c] = k]

Accept(c) ==
  /\ contact[c] = NoContact
  /\ Become(c, Is("live", TRUE, "arrival", FALSE))

(* One package at a time, and none before NotifyNewConnection is over.  A  *)
(* package that arrived before the client was closed may still come after. *)
Receive(c) ==
  /\ contact[c].life = "live" /\ contact[c].callback = "none"
  /\ Become(c, [contact[c] EXCEPT !.callback = "receipt"])

(* A worker closes the client: once, but at any moment. *)
Close(c) ==
  /\ contact[c].life = "live" /\ contact[c].open
  /\ Become(c, Is("live", FALSE, contact[c].callback, TRUE))

(* A failed Send or Shutdown closes clients and calls                      *)
(* NotifyDisconnectedClient under locks.                                   *)
Disconnect(S) ==
  /\ \A c \in S : contact[c].life = "live" /\ contact[c].open
  /\ contact' = [c \in Contexts |->
       IF c \in S THEN Is("live", FALSE, contact[c].callback, contact[c].leaving) ELSE contact[c]]

(* A callback is over, or the two when a client is closed in a callback. *)
Return(c) ==
  \E k \in {"none", contact[c].callback}, l \in {FALSE, contact[c].leaving} :
    Become(c, Is(contact[c].life, contact[c].open, k, l))

(* The context goes when the client is closed and no callback uses it. *)
Delete(c) ==
  /\ contact[c] = Is("live", FALSE, "none", FALSE)
  /\ Become(c, Is("freed", FALSE, "none", FALSE))

Next ==
  \/ \E c \in Contexts : Accept(c) \/ Receive(c) \/ Close(c) \/ Return(c) \/ Delete(c)
  \/ \E S \in SUBSET Contexts : Disconnect(S)

Spec == Init /\ [][Next]_contact
=============================================================================
