--------------------------- MODULE MCMessageQueue ---------------------------
(* MessageQueue for TLC: two samples and the sentinel, two competing       *)
(* callers of get_sample, a queue of two.                                  *)
EXTENDS MessageQueueHistory

CONSTANTS s1, s2, None, c1, c2

MCItems == {s1, s2, None}
MCConsumers == {c1, c2}
=============================================================================
