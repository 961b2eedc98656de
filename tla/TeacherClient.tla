---------------------------- MODULE TeacherClient ----------------------------
(* The client of the teacher service of recipe/gkd: submit puts a request    *)
(* and its future in task_queue, and n_server_workers background threads     *)
(* take requests from it, each with a REQ socket of its own.  The service    *)
(* behind the sockets (ZeroMQ, the proxy and the teacher workers) answers a  *)
(* request, reports an error, or does not answer before RCVTIMEO.            *)
(*                                                                           *)
(* A REQ socket alternates between sending and receiving: sending on one     *)
(* that has not received its answer raises.                                  *)
EXTENDS Naturals, Sequences

CONSTANTS
    Requests,      \* the requests the client may be given
    Threads,       \* the background threads, n_server_workers of them
    NoRequest,
    MaxTroubles    \* bound: how often the service is too slow or reports an error

VARIABLES
    task_queue,    \* requests no thread has taken
    thread,        \* thread[t]: "get", "send" or "recv", the call of bg_task t is in
    taken,         \* taken[t]: the request t works on
    socket,        \* socket[t]: what the REQ socket of t allows next, "send" or "recv"
    asked,         \* asked[t]: requests sent by t that the service works on
    answers,       \* answers[t]: answers that have arrived for t
    future,        \* future[r]: the state of the future of request r
    reply,         \* reply[r]: the request whose answer the future of r holds
    troubled,      \* requests the service was too slow for or reported an error on
    troubles       \* how often that was

clientVars == <<task_queue, thread, taken, socket, asked, answers, future, reply,
                troubled, troubles>>

ClientInit ==
    /\ task_queue = <<>>
    /\ thread = [t \in Threads |-> "get"]
    /\ taken = [t \in Threads |-> NoRequest]
    /\ socket = [t \in Threads |-> "send"]
    /\ asked = [t \in Threads |-> <<>>]
    /\ answers = [t \in Threads |-> <<>>]
    /\ future = [r \in Requests |-> "none"]
    /\ reply = [r \in Requests |-> NoRequest]
    /\ troubled = {}
    /\ troubles = 0

\* submit of the requests rs, in order.
Submit(rs) ==
    /\ task_queue' = task_queue \o rs
    /\ future' = [r \in Requests |->
                    IF \E i \in DOMAIN rs : rs[i] = r THEN "pending" ELSE future[r]]
    /\ UNCHANGED <<thread, taken, socket, asked, answers, reply, troubled, troubles>>

\* task_queue.get under the mutex; num_microbatches is 1.
TakeTask(t) ==
    /\ thread[t] = "get"
    /\ task_queue # <<>>
    /\ thread' = [thread EXCEPT ![t] = "send"]
    /\ taken' = [taken EXCEPT ![t] = Head(task_queue)]
    /\ task_queue' = Tail(task_queue)
    /\ UNCHANGED <<socket, asked, answers, future, reply, troubled, troubles>>

\* The thread is done with its request, whose future gets state s.
Resolve(t, s) ==
    /\ future' = [future EXCEPT ![taken[t]] = s]
    /\ thread' = [thread EXCEPT ![t] = "get"]
    /\ taken' = [taken EXCEPT ![t] = NoRequest]
    /\ UNCHANGED task_queue

\* Mutant: sockets that need not alternate.
AlwaysMaySend(t) == TRUE

MaySend(t) == socket[t] = "send"

SendRequest(t) ==
    /\ thread[t] = "send"
    /\ MaySend(t)
    /\ thread' = [thread EXCEPT ![t] = "recv"]
    /\ socket' = [socket EXCEPT ![t] = "recv"]
    /\ asked' = [asked EXCEPT ![t] = Append(@, taken[t])]
    /\ UNCHANGED <<task_queue, taken, answers, future, reply, troubled, troubles>>

\* socket.send raises: the socket still waits for the answer to an earlier request.
SendRefused(t) ==
    /\ thread[t] = "send"
    /\ ~MaySend(t)
    /\ Resolve(t, "exception")
    /\ UNCHANGED <<socket, asked, answers, reply, troubled, troubles>>

\* The service answers the oldest request of t, perhaps after t gave it up.
Answer(t) ==
    /\ asked[t] # <<>>
    /\ asked' = [asked EXCEPT ![t] = Tail(@)]
    /\ \E ok \in BOOLEAN :
        /\ answers' = [answers EXCEPT ![t] = Append(@, [of |-> Head(asked[t]), ok |-> ok])]
        /\ ok \/ troubles < MaxTroubles
        /\ troubles' = IF ok THEN troubles ELSE troubles + 1
    /\ UNCHANGED <<task_queue, thread, taken, socket, future, reply, troubled>>

\* socket.recv returns: the future gets the result, or the reported error.
Receive(t) ==
    /\ thread[t] = "recv"
    /\ answers[t] # <<>>
    /\ LET answer == Head(answers[t]) IN
        /\ Resolve(t, IF answer.ok THEN "result" ELSE "exception")
        /\ reply' = [reply EXCEPT ![taken[t]] = answer.of]
        /\ troubled' = IF answer.ok THEN troubled ELSE troubled \cup {taken[t]}
    /\ socket' = [socket EXCEPT ![t] = "send"]
    /\ answers' = [answers EXCEPT ![t] = Tail(@)]
    /\ UNCHANGED <<asked, troubles>>

\* RCVTIMEO: zmq.Again goes to the future; the socket stays as it is.
RecvTimeout(t) ==
    /\ thread[t] = "recv"
    /\ answers[t] = <<>>
    /\ troubles < MaxTroubles
    /\ troubles' = troubles + 1
    /\ troubled' = troubled \cup {taken[t]}
    /\ Resolve(t, "exception")
    /\ UNCHANGED <<socket, asked, answers, reply>>

ThreadStep(t) == TakeTask(t) \/ SendRequest(t) \/ SendRefused(t) \/ Receive(t)

ClientNext == \E t \in Threads : ThreadStep(t) \/ Answer(t) \/ RecvTimeout(t)
=============================================================================
