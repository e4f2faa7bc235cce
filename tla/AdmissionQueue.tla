---------------------------- MODULE AdmissionQueue ----------------------------
(***************************************************************************)
(* The naming server's admission of client sessions (src/naming_server.c): *)
(* the single accept thread classifies a new connection as a client        *)
(* handshake, hands out the next ACK number, sends "ACK:<n>" and then      *)
(* pushes a ClientRequest into the circular RequestQueue, blocking while   *)
(* it is full; a fixed pool of worker threads (process_requests) each      *)
(* dequeue one request, blocking while the queue is empty, and run         *)
(* handle_client on that connection until the client closes it.           *)
(*                                                                         *)
(* The queue is kept at the level of the C ring buffer (requests, front,   *)
(* rear, size) so that its index arithmetic is checked against the        *)
(* abstract BoundedFIFO.  The mutex-protected bodies of enqueue_request    *)
(* and dequeue_request are single steps; their `while (...)               *)
(* pthread_cond_wait' loops become enabling conditions.                    *)
(***************************************************************************)
EXTENDS Integers, Sequences, FiniteSets

CONSTANTS Clients,         \* client connections (model values)
          Workers,         \* worker threads (main creates 4)
          MAX_QUEUE_SIZE,  \* capacity of request_queue (100 in the code)
          ACK_PREFIX,      \* first ACK number handed out
          NoRequest        \* an empty slot of the ring array

ASSUME /\ Clients # {} /\ Workers # {}
       /\ MAX_QUEUE_SIZE \in Nat \ {0}
       /\ ACK_PREFIX \in Nat

Slots == 0 .. (MAX_QUEUE_SIZE - 1)

AckNumbers == ACK_PREFIX .. (ACK_PREFIX + Cardinality(Clients))

\* ClientRequest: the socket and peer address are identified with the
\* client; timestamp and the handshake bytes play no part in admission.
Request == [client : Clients, ack_number : AckNumbers]

VARIABLES requests, front, rear, size,  \* the global RequestQueue
          next_ack_number,              \* global counter, accept thread only
          acceptor,   \* accept thread: waiting in accept, or blocked in enqueue
          worker,     \* each worker: blocked in dequeue, or serving a request
          client,     \* client process: not connected, holding its ACK, stopped
          session,    \* server side of each connection
          dequeued    \* history: the requests in the order workers took them

vars == <<requests, front, rear, size, next_ack_number, acceptor, worker,
          client, session, dequeued>>

TypeOK ==
    /\ requests \in [Slots -> Request \cup {NoRequest}]
    /\ front \in Slots /\ rear \in -1 .. (MAX_QUEUE_SIZE - 1)
    /\ size \in 0 .. MAX_QUEUE_SIZE
    /\ next_ack_number \in AckNumbers
    /\ acceptor \in [pc : {"accept", "enqueue"}, req : Request \cup {NoRequest}]
    /\ worker \in [Workers -> [pc : {"dequeue", "serve"},
                               req : Request \cup {NoRequest}]]
    /\ client \in [Clients -> {"new", "acked", "stopped"}]
    /\ session \in [Clients -> {"none", "pending", "serving", "closed"}]
    /\ dequeued \in Seq(Request)

-----------------------------------------------------------------------------
(* Variants of the code with a plausible bug, each checked to break a      *)
(* property (PROJECT.json "mutants").                                      *)

InitRearZero ==
    /\ requests = [i \in Slots |-> NoRequest]
    /\ front = 0 /\ rear = 0 /\ size = 0
    /\ next_ack_number = ACK_PREFIX
    /\ acceptor = [pc |-> "accept", req |-> NoRequest]
    /\ worker = [w \in Workers |-> [pc |-> "dequeue", req |-> NoRequest]]
    /\ client = [c \in Clients |-> "new"]
    /\ session = [c \in Clients |-> "none"]
    /\ dequeued = <<>>

EnqueueNoWrap ==
    /\ acceptor.pc = "enqueue"
    /\ size < MAX_QUEUE_SIZE
    /\ rear' = rear + 1
    /\ requests' = [requests EXCEPT ![rear + 1] = acceptor.req]
    /\ size' = size + 1
    /\ acceptor' = [pc |-> "accept", req |-> NoRequest]
    /\ UNCHANGED <<front, next_ack_number, worker, client, session, dequeued>>

EndSessionNoLoop(w) ==
    /\ worker[w].pc = "serve"
    /\ client[worker[w].req.client] = "stopped"
    /\ session' = [session EXCEPT ![worker[w].req.client] = "closed"]
    /\ UNCHANGED <<requests, front, rear, size, next_ack_number, acceptor,
                   worker, client, dequeued>>

-----------------------------------------------------------------------------
(* main + init_request_queue: the queue is empty with rear = -1; every     *)
(* worker thread starts blocked in dequeue_request.                        *)
Init ==
    /\ requests = [i \in Slots |-> NoRequest]
    /\ front = 0 /\ rear = -1 /\ size = 0
    /\ next_ack_number = ACK_PREFIX
    /\ acceptor = [pc |-> "accept", req |-> NoRequest]
    /\ worker = [w \in Workers |-> [pc |-> "dequeue", req |-> NoRequest]]
    /\ client = [c \in Clients |-> "new"]
    /\ session = [c \in Clients |-> "none"]
    /\ dequeued = <<>>

(* handle_storage_server, client branch: the first message is neither      *)
(* "ASYNCWRITE_COMPLETE" nor "Metadata"; the request takes the next ACK    *)
(* number and "ACK:<n>" is sent to the client BEFORE enqueue_request.      *)
AcceptClient(c) ==
    /\ acceptor.pc = "accept"
    /\ client[c] = "new"
    /\ next_ack_number' = next_ack_number + 1
    /\ client' = [client EXCEPT ![c] = "acked"]
    /\ session' = [session EXCEPT ![c] = "pending"]
    /\ acceptor' = [pc |-> "enqueue",
                    req |-> [client |-> c, ack_number |-> next_ack_number]]
    /\ UNCHANGED <<requests, front, rear, size, worker, dequeued>>

(* enqueue_request: waits on not_full while size >= MAX_QUEUE_SIZE, then   *)
(* stores at (rear + 1) % MAX_QUEUE_SIZE; the accept thread returns to     *)
(* accept().                                                               *)
Enqueue ==
    /\ acceptor.pc = "enqueue"
    /\ size < MAX_QUEUE_SIZE
    /\ LET r == (rear + 1) % MAX_QUEUE_SIZE IN
          /\ rear' = r
          /\ requests' = [requests EXCEPT ![r] = acceptor.req]
    /\ size' = size + 1
    /\ acceptor' = [pc |-> "accept", req |-> NoRequest]
    /\ UNCHANGED <<front, next_ack_number, worker, client, session, dequeued>>

(* process_requests + dequeue_request: waits on not_empty while size = 0,  *)
(* takes requests[front] and advances front; the worker then runs          *)
(* handle_client on that connection.                                       *)
Dequeue(w) ==
    /\ worker[w].pc = "dequeue"
    /\ size > 0
    /\ LET r == requests[front] IN
          /\ worker' = [worker EXCEPT ![w] = [pc |-> "serve", req |-> r]]
          /\ session' = [session EXCEPT ![r.client] = "serving"]
          /\ dequeued' = Append(dequeued, r)
    /\ front' = (front + 1) % MAX_QUEUE_SIZE
    /\ size' = size - 1
    /\ UNCHANGED <<requests, rear, next_ack_number, acceptor, client>>

(* handle_client: recv returns 0 once the client has closed its socket;    *)
(* the worker closes the connection and process_requests loops back to     *)
(* dequeue_request.  The commands served in between are NamingServer's.   *)
EndSession(w) ==
    /\ worker[w].pc = "serve"
    /\ client[worker[w].req.client] = "stopped"
    /\ session' = [session EXCEPT ![worker[w].req.client] = "closed"]
    /\ worker' = [worker EXCEPT ![w] = [pc |-> "dequeue", req |-> NoRequest]]
    /\ UNCHANGED <<requests, front, rear, size, next_ack_number, acceptor,
                   client, dequeued>>

(* client.c main: after reading its ACK the client may type STOP (or die)  *)
(* at any time, closing its socket, whether or not a worker serves it.     *)
ClientStop(c) ==
    /\ client[c] = "acked"
    /\ client' = [client EXCEPT ![c] = "stopped"]
    /\ UNCHANGED <<requests, front, rear, size, next_ack_number, acceptor,
                   worker, session, dequeued>>

Next ==
    \/ \E c \in Clients : AcceptClient(c) \/ ClientStop(c)
    \/ Enqueue
    \/ \E w \in Workers : Dequeue(w) \/ EndSession(w)

Spec == Init /\ [][Next]_vars

(* Threads that are runnable are eventually scheduled, and a condition     *)
(* variable signal wakes a waiter: weak fairness on the accept thread's    *)
(* enqueue and on every worker.  ClientStop is fair only as the hypothesis *)
(* of the liveness property: the code has no read timeout, so a client    *)
(* that never stops holds its worker forever (spec section 5).            *)
FairSpec ==
    /\ Spec
    /\ WF_vars(Enqueue)
    /\ \A w \in Workers : WF_vars(Dequeue(w)) /\ WF_vars(EndSession(w))
    /\ \A c \in Clients : WF_vars(ClientStop(c))

-----------------------------------------------------------------------------
(* The ring buffer read front-to-rear, as the abstract queue it stands for. *)
QueueContents ==
    [i \in 1 .. size |-> requests[(front + i - 1) % MAX_QUEUE_SIZE]]

AbsQueue == INSTANCE BoundedFIFO
              WITH Items <- Request, Capacity <- MAX_QUEUE_SIZE,
                   queue <- QueueContents, taken <- dequeued

(* The circular RequestQueue of enqueue_request/dequeue_request, with its  *)
(* rear = -1 start and its modulo wrap-around, implements a bounded FIFO:  *)
(* it never holds more than MAX_QUEUE_SIZE requests, never loses or        *)
(* duplicates one, and workers receive them in the order the accept        *)
(* thread queued them.                                                     *)
QueueIsFIFO == AbsQueue!Spec

(* Every session the accept thread has admitted (ACK sent) is eventually   *)
(* taken by a worker and served, provided clients eventually end their     *)
(* sessions: the worker pool is never lost and the accept thread never     *)
(* stays blocked in enqueue_request.                                       *)
AdmittedSessionsEventuallyServed ==
    \A c \in Clients : session[c] = "pending" ~> session[c] = "serving"

(* Spec section 8 (admission bound): when every worker is busy, a newly    *)
(* admitted client is queued but gets no ACK until a worker frees up.  So  *)
(* a client holding an ACK whose session still waits in the queue implies  *)
(* an idle worker.  handle_storage_server sends "ACK:<n>" before           *)
(* enqueue_request, whatever the workers are doing.                        *)
NoAckWhileAllWorkersBusy ==
    \A c \in Clients :
        (client[c] = "acked" /\ session[c] = "pending")
            => \E w \in Workers : worker[w].pc = "dequeue"
=============================================================================
