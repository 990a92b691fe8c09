-------------------------------- MODULE Sqs --------------------------------
(***************************************************************************)
(* The per-backend SQS queue with its dead-letter queue, as                *)
(* infrastructure/00-core.yaml configures them and the workers use them:   *)
(* at-least-once delivery.  A received message is hidden until the         *)
(* visibility timeout returns it, the consumer deletes it with the handle  *)
(* of that receive, and a message received MaxReceive times moves to the   *)
(* dead-letter queue when it would be received once more.                  *)
(*                                                                         *)
(* A request has at most one message, so the message is named by its       *)
(* request id and a receipt handle by the receive it came from: handle n   *)
(* is that of the n-th receive, and the current one is receives.           *)
(***************************************************************************)
EXTENDS BackendConstants

VARIABLE msg  \* request id -> its message

MsgStates == {"unsent", "visible", "inflight", "deleted", "dlq", "expired"}

Messages == [state: MsgStates, receives: 0..MaxReceive]

OnQueue == {"visible", "inflight"}

SqsInit == msg = [r \in Requests |-> [state |-> "unsent", receives |-> 0]]

SendMessage(r) ==
    /\ msg[r].state = "unsent"
    /\ msg' = [msg EXCEPT ![r].state = "visible"]

ReceiveMessage(r) ==
    /\ msg[r].state = "visible"
    /\ msg[r].receives < MaxReceive
    /\ msg' = [msg EXCEPT ![r] = [state |-> "inflight",
                                  receives |-> @.receives + 1]]

(* The redrive policy moves an exhausted message to the dead-letter queue. *)
\* Mutant: no redrive policy, an exhausted message is discarded unread.
RedriveMessage_Drop(r) ==
    /\ msg[r].state = "visible"
    /\ msg[r].receives = MaxReceive
    /\ msg' = [msg EXCEPT ![r].state = "deleted"]

RedriveMessage(r) ==
    /\ msg[r].state = "visible"
    /\ msg[r].receives = MaxReceive
    /\ msg' = [msg EXCEPT ![r].state = "dlq"]

(* The visibility timeout elapses, whether or not the consumer is done: it *)
(* is never extended, so nothing ties it to the processing time.           *)
MessageReappears(r) ==
    /\ msg[r].state = "inflight"
    /\ msg' = [msg EXCEPT ![r].state = "visible"]

(* DeleteMessage with the handle of the n-th receive.  The current handle  *)
(* deletes an in-flight message.  With a handle whose visibility timeout   *)
(* has elapsed the call succeeds but SQS may or may not delete.            *)
DeleteMessage(r, n) ==
    \/ /\ msg[r].state \in OnQueue
       /\ msg' = [msg EXCEPT ![r].state = "deleted"]
    \/ /\ ~(msg[r].state = "inflight" /\ n = msg[r].receives)
       /\ UNCHANGED msg

(* The retention period (four days) ends before anyone deleted it.         *)
MessageExpires(r) ==
    /\ msg[r].state \in OnQueue
    /\ msg' = [msg EXCEPT ![r].state = "expired"]
=============================================================================
