---------------------------- MODULE RouterMailbox ---------------------------
(***************************************************************************)
(* The router of a single server, whose Redis keys do not expire and whose *)
(* clients never send a message twice, implements the mailbox logs of      *)
(* module Mailbox: the log of a mailbox is its rows of pending_messages in *)
(* the order of seq, and a device was shown the deliveries it received.    *)
(***************************************************************************)
EXTENDS Router

LogOf(mb) == CHOOSE r \in OrderedBySeq(RowsAfter(mb, 0)) : TRUE

Logs == INSTANCE Mailbox WITH
    log <- [mb \in Mailboxes |-> LogOf(mb)],
    shown <- received

(* Drops, reconnections and crashes are not visible at the devices: every  *)
(* message accepted is shown to each, once, in order and in the end.       *)
ImplementsMailbox == Logs!Spec
=============================================================================
