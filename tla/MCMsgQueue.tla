----------------------------- MODULE MCMsgQueue -----------------------------
(* Model values and symmetry for checking MsgQueue.                        *)
EXTENDS MsgQueue, TLC

CONSTANTS a, b, c, r1, r2

MCSendSize == (a :> {1} @@ b :> {2})
MCReceiveSize == (r1 :> {1} @@ r2 :> {2})
MCSendOptions == {{"SEND_TIMEOUT", "SEND_NOTIFY"}}
MCReceiveOptions == {{}}

\* Three senders of equal messages.
MCSameSize == [t \in Sender |-> {1}]
MCOneReceiver == [t \in Receiver |-> {1}]
MCPolling == {{"RCV_TIMEOUT"}}
MCWaiting == {{}, {"SEND_TIMEOUT"}, {"SEND_ALWAYS"}}

SenderSymmetry == Permutations(Sender)

=============================================================================
