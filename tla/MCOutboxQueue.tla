--------------------------- MODULE MCOutboxQueue ----------------------------
(* OutboxQueue for TLC: its constants are small numbers.                    *)
EXTENDS OutboxQueue
=============================================================================
