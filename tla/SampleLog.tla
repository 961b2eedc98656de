------------------------------ MODULE SampleLog ------------------------------
(***************************************************************************)
(* What the sample queue promises, without the queue: everything ever put  *)
(* is an append-only log and the queue is a cursor into it.  A reader gets *)
(* the entry at the cursor; a publisher that finds the reader Capacity     *)
(* entries behind pushes the cursor one entry on.  So each entry is        *)
(* delivered at most once, deliveries follow production order, and what is *)
(* lost is always the oldest.                                              *)
(***************************************************************************)
EXTENDS Naturals, Sequences

CONSTANTS Items, Consumers, Capacity, Closed, NoReply

VARIABLES log,    \* every item ever put, in order
          next,   \* number of log entries delivered, overwritten or discarded
          open,
          answer  \* last answer to each consumer

logVars == <<log, next, open, answer>>

LogInit ==
    /\ log = <<>>
    /\ next = 0
    /\ open = TRUE
    /\ answer = [c \in Consumers |-> NoReply]

Publish(x) ==
    /\ log' = Append(log, x)
    /\ next' = IF Len(log) - next = Capacity THEN next + 1 ELSE next
    /\ UNCHANGED <<open, answer>>

Deliver(c) ==
    /\ next < Len(log)
    /\ next' = next + 1
    /\ answer' = [answer EXCEPT ![c] = log[next + 1]]
    /\ UNCHANGED <<log, open>>

Refuse(c) ==
    /\ next = Len(log)
    /\ ~open
    /\ answer' = [answer EXCEPT ![c] = Closed]
    /\ UNCHANGED <<log, next, open>>

\* A reader is told to wait only when there is nothing left to read.
Defer(c) ==
    /\ next = Len(log)
    /\ open
    /\ answer' = [answer EXCEPT ![c] = NoReply]
    /\ UNCHANGED <<log, next, open>>

Discard ==
    /\ next' = Len(log)
    /\ UNCHANGED <<log, open, answer>>

Close ==
    /\ open' = FALSE
    /\ UNCHANGED <<log, next, answer>>

LogNext ==
    \/ \E x \in Items : Publish(x)
    \/ \E c \in Consumers : Deliver(c) \/ Refuse(c) \/ Defer(c)
    \/ Discard
    \/ Close

LogSpec == LogInit /\ [][LogNext]_logVars
=============================================================================
