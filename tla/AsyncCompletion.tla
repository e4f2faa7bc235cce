--------------------------- MODULE AsyncCompletion ---------------------------
(***************************************************************************)
(* The client session and the async completion bridge, across the three  *)
(* programs:                                                              *)
(*  - src/client.c main: one persistent connection to the naming server, *)
(*    one command at a time; CREATE/DELETE are sent without reading a    *)
(*    reply, every other command does one recv on that connection, and  *)
(*    a large WRITE then blocks in write_completion for one more recv;   *)
(*  - src/naming_server.c: the worker's handle_client logs every command *)
(*    (log_client_request, with the socket fd) and replies on the same   *)
(*    socket; the accept thread takes ASYNCWRITE_COMPLETE, finds the     *)
(*    last logged WRITE line containing the file name and sends the      *)
(*    notice to the fd written in it; SIGINT clears the log, a crash     *)
(*    does not, and the log file is opened in append mode;              *)
(*  - src/storage_server.c: a WRITE with more than ASYNC_THRESHOLD bytes *)
(*    is acknowledged at once and finished by a detached async_write_task *)
(*    that then connects to the naming server and reports completion.   *)
(* A connection is identified on the naming server by its fd, the lowest *)
(* free one (POSIX accept).  Replies and notices are tagged with the     *)
(* request they answer (re), a history field no program sends.           *)
(***************************************************************************)
EXTENDS Naturals, Sequences, SequencesExt, FiniteSets

CONSTANTS Clients,      \* client processes, each runs client.c once
          Files,        \* file names
          FilesOf,      \* FilesOf[c]: the files client c works on
          Occurs,       \* <<f, g>>: the name f occurs inside the name g
          Ops,          \* the commands clients type
          Fds,          \* naming-server fds a connection can get
          NoFd,
          MaxCmds,      \* bound on the commands of one client
          MaxRestarts,  \* bound on naming-server restarts
          NsMayCrash    \* whether a restart may skip handle_shutdown

\* "WRITE" occurs in the logged request text of these commands only.
WriteOps == {"WRITE", "BIGWRITE"}
\* Commands after which client.c does not recv.
NoReplyOps == {"CREATE", "DELETE"}

ASSUME /\ Ops \subseteq {"READ", "WRITE", "BIGWRITE", "CREATE", "DELETE", "COPY"}
       /\ FilesOf \in [Clients -> SUBSET Files]
       /\ \A f \in Files : <<f, f>> \in Occurs
       /\ Fds \subseteq Nat /\ Cardinality(Fds) > Cardinality(Clients)
       /\ NoFd \notin Fds
       /\ MaxCmds \in Nat /\ MaxRestarts \in Nat /\ NsMayCrash \in BOOLEAN

ReqIds == Clients \X (1 .. MaxCmds)
Msg == [kind : {"addr", "notfound", "created", "notice"}, re : ReqIds]

VARIABLES pc,        \* where client.c main is
          cmd,       \* the command client c typed last: <<op, file>>
          nreq,      \* how many commands client c has sent
          fd,        \* the naming-server fd of c's connection
          conn,      \* that connection: "none", "open", "closing", "closed"
          toNs,      \* commands sent by c, not yet read by its worker
          toClient,  \* bytes sent to c, not yet read by c
          recvd,     \* what c's last recv on the connection returned
          log,       \* naming_server_log.txt: the logged requests
          tasks,     \* async_write_task threads not yet finished
          restarts

vars == <<pc, cmd, nreq, fd, conn, toNs, toClient, recvd, log, tasks, restarts>>

TypeOK ==
    /\ pc \in [Clients -> {"start", "prompt", "reply", "completion", "spin", "done"}]
    /\ cmd \in [Clients -> {<<>>} \cup (Ops \X Files)]
    /\ nreq \in [Clients -> 0 .. MaxCmds]
    /\ fd \in [Clients -> Fds \cup {NoFd}]
    /\ conn \in [Clients -> {"none", "open", "closing", "closed"}]
    /\ toNs \in [Clients -> Seq([op : Ops, file : Files, n : 1 .. MaxCmds])]
    /\ toClient \in [Clients -> Seq(Msg)]
    /\ recvd \in [Clients -> [req : 0 .. MaxCmds, msgs : Seq(Msg)]]
    /\ log \in Seq([fd : Fds, op : Ops, file : Files])
    /\ tasks \subseteq [file : Files, re : ReqIds]
    /\ restarts \in 0 .. MaxRestarts

Live(c) == conn[c] \in {"open", "closing"}

\* The fds the naming server has open for client connections.
InUse == {fd[c] : c \in {d \in Clients : Live(d)}}

\* accept() in start_naming_server: the lowest fd not open.
AcceptFd == Min(Fds \ InUse)

\* log_client_request through log_message: one line per command, with the
\* socket fd and the request text, appended under log_mutex and flushed.
LogRequest(c, r) == Append(log, [fd |-> fd[c], op |-> r.op, file |-> r.file])

(* What handle_client may answer to each command: the address or "Path   *)
(* not found" for READ/WRITE; for CREATE "Successful Create" only when   *)
(* the storage server's reply contains "Success"; DELETE and COPY never *)
(* get a success reply (see NamingServer).  <<>> is no reply.           *)
Outcomes(o) ==
    CASE o \in {"READ", "WRITE", "BIGWRITE"} -> {<<"addr">>, <<"notfound">>}
      [] o = "CREATE" -> {<<"created">>, <<"notfound">>, <<>>}
      [] o \in {"DELETE", "COPY"} -> {<<"notfound">>, <<>>}

(* The index of the line find_client_info_from_log picks for file f: it  *)
(* reads the log backwards and takes the first line containing "WRITE"  *)
(* and f.  0 when there is none.                                          *)
LastWriteLine(f) ==
    LET ls == {i \in DOMAIN log : log[i].op \in WriteOps /\ <<f, log[i].file>> \in Occurs}
    IN IF ls = {} THEN 0 ELSE Max(ls)

-----------------------------------------------------------------------------
(* Variants of the code with a plausible bug (PROJECT.json "mutants").     *)

NotifyOnCompletionSocket(f, re) == UNCHANGED toClient

NsRestartKeepsLog(clear) ==
    /\ restarts < MaxRestarts
    /\ clear \/ NsMayCrash
    /\ pc' = [c \in Clients |-> IF Live(c) THEN "done" ELSE pc[c]]
    /\ conn' = [c \in Clients |-> IF Live(c) THEN "closed" ELSE conn[c]]
    /\ fd' = [c \in Clients |-> IF Live(c) THEN NoFd ELSE fd[c]]
    /\ toNs' = [c \in Clients |-> <<>>]
    /\ toClient' = [c \in Clients |-> <<>>]
    /\ restarts' = restarts + 1
    /\ UNCHANGED <<cmd, nreq, recvd, log, tasks>>

-----------------------------------------------------------------------------
Init ==
    /\ pc = [c \in Clients |-> "start"]
    /\ cmd = [c \in Clients |-> <<>>]
    /\ nreq = [c \in Clients |-> 0]
    /\ fd = [c \in Clients |-> NoFd]
    /\ conn = [c \in Clients |-> "none"]
    /\ toNs = [c \in Clients |-> <<>>]
    /\ toClient = [c \in Clients |-> <<>>]
    /\ recvd = [c \in Clients |-> [req |-> 0, msgs |-> <<>>]]
    /\ log = <<>>
    /\ tasks = {}
    /\ restarts = 0

(* client.c connects and sends its handshake character; the accept       *)
(* thread's accept() returns the lowest free fd, handle_storage_server    *)
(* sends ACK:<n> and queues the connection for a worker (AdmissionQueue   *)
(* models the queue; here a worker is free).  The client reads the ACK.  *)
Connect(c) ==
    /\ pc[c] = "start"
    /\ fd' = [fd EXCEPT ![c] = AcceptFd]
    /\ conn' = [conn EXCEPT ![c] = "open"]
    /\ pc' = [pc EXCEPT ![c] = "prompt"]
    /\ UNCHANGED <<cmd, nreq, toNs, toClient, recvd, log, tasks, restarts>>

(* The user types command o on file f and the client sends it.  After     *)
(* CREATE/DELETE it sleeps and prompts again without a recv.             *)
SendCommand(c, o, f) ==
    /\ pc[c] = "prompt"
    /\ nreq[c] < MaxCmds
    /\ nreq' = [nreq EXCEPT ![c] = @ + 1]
    /\ cmd' = [cmd EXCEPT ![c] = <<o, f>>]
    /\ toNs' = [toNs EXCEPT ![c] = Append(@, [op |-> o, file |-> f, n |-> nreq[c] + 1])]
    /\ pc' = [pc EXCEPT ![c] = IF o \in NoReplyOps THEN "prompt" ELSE "reply"]
    /\ UNCHANGED <<fd, conn, toClient, recvd, log, tasks, restarts>>

(* STOP: the client breaks out of its loop and closes the connection.     *)
Stop(c) ==
    /\ pc[c] = "prompt"
    /\ pc' = [pc EXCEPT ![c] = "done"]
    /\ conn' = [conn EXCEPT ![c] = "closing"]
    /\ UNCHANGED <<cmd, nreq, fd, toNs, toClient, recvd, log, tasks, restarts>>

(* handle_client_request's WRITE branch: data longer than               *)
(* ASYNC_THRESHOLD is acknowledged with "Asynchronous write request      *)
(* accepted." and handed to a detached async_write_task; client.c makes  *)
(* the same size test to decide on write_completion.                     *)
StartsAsyncWrite(c) == cmd[c][1] = "BIGWRITE"

(* The storage server's handle_client thread for the connection the      *)
(* client opens: "Handling client request", one command, then close.    *)
(* Only an asynchronous WRITE leaves work behind.  The client first spins *)
(* in while(1) until strncmp(handle_msg, greeting, 24) is 0; that compares *)
(* handle_msg[23], which recv does not write (the greeting has 23 bytes, *)
(* no NUL) and which is uninitialised, so it may spin forever.           *)
SsExchange(c) ==
    \/ /\ pc' = [pc EXCEPT ![c] = "spin"]
       /\ UNCHANGED tasks
    \/ /\ StartsAsyncWrite(c)
       /\ tasks' = tasks \cup {[file |-> cmd[c][2], re |-> <<c, nreq[c]>>]}
       /\ pc' = [pc EXCEPT ![c] = "completion"]
    \/ /\ ~StartsAsyncWrite(c)
       /\ UNCHANGED tasks
       /\ pc' = [pc EXCEPT ![c] = "prompt"]

(* The recv after a command returns everything that has arrived.  Only a *)
(* buffer that starts with "Storage Server IP:" parses, and the client   *)
(* then does its command with that storage server; otherwise it prints   *)
(* INVALID and prompts again.                                            *)
RecvReply(c) ==
    /\ pc[c] = "reply"
    /\ toClient[c] # <<>>
    /\ recvd' = [recvd EXCEPT ![c] = [req |-> nreq[c], msgs |-> toClient[c]]]
    /\ toClient' = [toClient EXCEPT ![c] = <<>>]
    /\ \/ Head(toClient[c]).kind = "addr" /\ SsExchange(c)
       \/ /\ Head(toClient[c]).kind # "addr"
          /\ UNCHANGED tasks
          /\ pc' = [pc EXCEPT ![c] = "prompt"]
    /\ UNCHANGED <<cmd, nreq, fd, conn, toNs, log, restarts>>

(* write_completion: one recv on the naming-server connection, whatever   *)
(* it returns.                                                            *)
RecvCompletion(c) ==
    /\ pc[c] = "completion"
    /\ toClient[c] # <<>>
    /\ recvd' = [recvd EXCEPT ![c] = [req |-> nreq[c], msgs |-> toClient[c]]]
    /\ toClient' = [toClient EXCEPT ![c] = <<>>]
    /\ pc' = [pc EXCEPT ![c] = "prompt"]
    /\ UNCHANGED <<cmd, nreq, fd, conn, toNs, log, tasks, restarts>>

(* The worker in handle_client reads the next command, logs it with the   *)
(* connection's fd, and answers on that fd; a reply to a client that has  *)
(* closed is lost.                                                        *)
NsHandle(c) ==
    /\ Live(c)
    /\ toNs[c] # <<>>
    /\ LET r == Head(toNs[c])
       IN /\ log' = LogRequest(c, r)
          /\ toNs' = [toNs EXCEPT ![c] = Tail(@)]
          /\ \E out \in Outcomes(r.op) :
                toClient' = IF conn[c] = "open"
                            THEN [toClient EXCEPT ![c] = @ \o
                                    [i \in DOMAIN out |-> [kind |-> out[i], re |-> <<c, r.n>>]]]
                            ELSE toClient
    /\ UNCHANGED <<pc, cmd, nreq, fd, conn, recvd, tasks, restarts>>

(* recv returns 0 after the last command: the worker closes the fd.       *)
NsClose(c) ==
    /\ conn[c] = "closing"
    /\ toNs[c] = <<>>
    /\ conn' = [conn EXCEPT ![c] = "closed"]
    /\ fd' = [fd EXCEPT ![c] = NoFd]
    /\ UNCHANGED <<pc, cmd, nreq, toNs, toClient, recvd, log, tasks, restarts>>

(* The accept thread reads ASYNCWRITE_COMPLETE and                       *)
(* notify_client_of_completion sends "Async write completed for file: f" *)
(* to the fd of the last matching WRITE line, or drops it when there is  *)
(* none.  It lands with the client now holding that fd; an fd that is    *)
(* closed, held by a client that has closed, or is the completion        *)
(* connection itself (the lowest free fd) loses it.                      *)
NotifyClientOfCompletion(f, re) ==
    LET i == LastWriteLine(f)
    IN toClient' = [d \in Clients |->
                      IF i > 0 /\ conn[d] = "open" /\ fd[d] = log[i].fd
                      THEN Append(toClient[d], [kind |-> "notice", re |-> re])
                      ELSE toClient[d]]

(* async_write_task writes the file (success or failure alike) and       *)
(* send_completion_ack_to_ns connects to the naming server and sends     *)
(* ASYNCWRITE_COMPLETE with the file name.                                *)
AsyncComplete(t) ==
    /\ t \in tasks
    /\ tasks' = tasks \ {t}
    /\ NotifyClientOfCompletion(t.file, t.re)
    /\ UNCHANGED <<pc, cmd, nreq, fd, conn, toNs, recvd, log, restarts>>

(* The naming server stops and is started again.  On SIGINT              *)
(* handle_shutdown runs clear_log_file; a crash (SIGPIPE on a send to a  *)
(* reset client, SIGKILL) leaves the log as it is.  Every open client    *)
(* session ends; the storage servers' async tasks go on.                 *)
NsRestart(clear) ==
    /\ restarts < MaxRestarts
    /\ clear \/ NsMayCrash
    /\ pc' = [c \in Clients |-> IF Live(c) THEN "done" ELSE pc[c]]
    /\ conn' = [c \in Clients |-> IF Live(c) THEN "closed" ELSE conn[c]]
    /\ fd' = [c \in Clients |-> IF Live(c) THEN NoFd ELSE fd[c]]
    /\ toNs' = [c \in Clients |-> <<>>]
    /\ toClient' = [c \in Clients |-> <<>>]
    /\ log' = IF clear THEN <<>> ELSE log
    /\ restarts' = restarts + 1
    /\ UNCHANGED <<cmd, nreq, recvd, tasks>>

Next ==
    \/ \E c \in Clients :
          \/ Connect(c)
          \/ \E o \in Ops, f \in FilesOf[c] : SendCommand(c, o, f)
          \/ Stop(c)
          \/ RecvReply(c)
          \/ RecvCompletion(c)
          \/ NsHandle(c)
          \/ NsClose(c)
    \/ \E t \in tasks : AsyncComplete(t)
    \/ \E clear \in BOOLEAN : NsRestart(clear)

(* Threads that can run are scheduled: the workers, the accept thread,    *)
(* the async tasks, and a client whose recv has data.  Typing a command,  *)
(* STOP and restarts are not assumed to happen.                           *)
Fairness ==
    /\ \A c \in Clients : /\ WF_vars(NsHandle(c)) /\ WF_vars(NsClose(c))
                          /\ WF_vars(RecvReply(c)) /\ WF_vars(RecvCompletion(c))
    /\ \A t \in [file : Files, re : ReqIds] : WF_vars(AsyncComplete(t))

Spec == Init /\ [][Next]_vars /\ Fairness

-----------------------------------------------------------------------------
(* Every recv a client does on its naming-server connection returns only  *)
(* the answer to the command it is waiting on: the reply to its last      *)
(* command, or the completion notice of its own asynchronous WRITE.  The *)
(* notice is routed by a log lookup (by file name, to a logged fd), so   *)
(* this can fail through fd reuse, a log kept across restarts, or two    *)
(* writers of one file; an unread CREATE reply also breaks it.           *)
ClientReadsOwnReply ==
    \A c \in Clients : \A i \in DOMAIN recvd[c].msgs :
        recvd[c].msgs[i].re = <<c, recvd[c].req>>

OwnNotice(c) == \E i \in DOMAIN recvd[c].msgs :
                    recvd[c].msgs[i] = [kind |-> "notice", re |-> <<c, nreq[c]>>]

(* A client blocked in write_completion after an asynchronous WRITE is   *)
(* eventually handed the completion notice of that write, unless its     *)
(* session ends (a naming-server restart).                                *)
WriterEventuallyNotified ==
    \A c \in Clients : pc[c] = "completion" ~> (OwnNotice(c) \/ pc[c] = "done")
=============================================================================
