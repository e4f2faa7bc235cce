----------------------------- MODULE NamingServer -----------------------------
(***************************************************************************)
(* Path resolution and command dispatch in the naming server              *)
(* (src/naming_server.c): worker threads running handle_client resolve    *)
(* paths with get_ss_ipandport (location cache first, then an unlocked    *)
(* scan of the storage server registry), reply with an address, or       *)
(* forward CREATE, DELETE and COPY to the owning storage server.  The     *)
(* accept thread registers storage servers concurrently.                  *)
(*                                                                         *)
(* A storage server is identified with its client-facing address          *)
(* (ip_address, client_port).  A PathIndex is abstracted to the set of    *)
(* paths it holds (PathIndex.tla models the probing table).  A cache hit  *)
(* returns a pointer to the function-static `cached_server', shared by    *)
(* all workers; a miss returns a pointer into storage_servers[].  Such a  *)
(* pointer is a ref: Static, a registry position, or Null.  Each step   *)
(* is the code between two points where another thread can interfere:     *)
(* cache_get and cache_put (each under the cache lock), the unlocked      *)
(* registry scan, the reads and writes through a ref, and the exchange    *)
(* with a storage server.                                                  *)
(***************************************************************************)
EXTENDS Integers, Sequences, FiniteSets

CONSTANTS Workers,             \* worker threads serving client sessions
          Servers,             \* storage servers (their addresses)
          Paths,               \* paths (model values)
          InitialPaths,        \* the paths each server reports at registration
          Creatable,           \* pairs <<path, path/name>> a CREATE may name
          Ops,                 \* the client commands issued in this model
          SsMayFail,           \* may a storage server fail an operation?
          MAX_STORAGE_SERVERS,
          MAX_SS_CONNECTIONS,
          CACHE_SIZE, CacheHash,
          Null

ASSUME /\ InitialPaths \in [Servers -> SUBSET Paths]
       /\ Creatable \subseteq Paths \X Paths
       /\ Ops \subseteq {"LOOKUP", "CREATE", "DELETE", "COPY"}
       /\ SsMayFail \in BOOLEAN
       /\ MAX_STORAGE_SERVERS \in Nat

VARIABLES hash, prev, next, head, tail, size, call,  \* the location cache
          registry,       \* storage_servers[0 .. server_count - 1]
          cached_server,  \* get_ss_ipandport's static StorageServer
          ssFiles,        \* the paths that exist on each storage server
          worker,         \* each worker's progress through one command
          ssConn,         \* servers holding an active ss_manager slot
          ssAck           \* connect_to_ns: "none", "sent", or the answer read

Cache == INSTANCE LocationCache

cacheVars == <<hash, prev, next, head, tail, size, call>>
vars == <<cacheVars, registry, cached_server, ssFiles, worker, ssConn, ssAck>>

\* A StorageServer struct: its address and its PathIndex.
Record == [addr : Servers \cup {Null}, paths : SUBSET Paths]

\* READ, WRITE, APPEND, INFO and STREAM are handled alike: "LOOKUP".
Command ==
    [op : {"LOOKUP", "DELETE"}, path : Paths]
      \cup [op : {"CREATE"}, path : Paths, full : Paths]
      \cup [op : {"COPY"}, path : Paths, path2 : Paths]

\* The ref of &cached_server; registry positions are 1 .. server_count.
Static == 0

Ref == {Static} \cup (1 .. MAX_STORAGE_SERVERS) \cup {Null}

\* What the worker sent the client for its current command.
Replies == {"none", "PathNotFound", "Success"} \cup Servers

Idle == [pc |-> "idle", cmd |-> Null, which |-> 1, ref |-> Null,
         ref2 |-> Null, found |-> Null, copy |-> Null, reply |-> "none"]

TypeOK ==
    /\ Cache!TypeOK
    /\ registry \in Seq([addr : Servers, paths : SUBSET Paths])
    /\ Len(registry) <= MAX_STORAGE_SERVERS
    /\ cached_server \in Record
    /\ ssFiles \in [Servers -> SUBSET Paths]
    /\ \A w \in Workers :
         /\ worker[w].pc \in {"idle", "resolve", "put", "reply", "copy",
                              "writeback", "send"}
         /\ worker[w].cmd \in Command \cup {Null}
         /\ worker[w].which \in {1, 2}
         /\ worker[w].ref \in Ref /\ worker[w].ref2 \in Ref
         /\ worker[w].found \in (1 .. MAX_STORAGE_SERVERS) \cup {Null}
         /\ worker[w].copy \in Record \cup {Null}
         /\ worker[w].reply \in Replies
    /\ ssConn \subseteq Servers /\ Cardinality(ssConn) <= MAX_SS_CONNECTIONS
    /\ ssAck \in [Servers -> {"none", "sent", "registered", "maximum"}]

\* The record a ref points to.
Deref(r) == IF r = Static THEN cached_server ELSE registry[r]

\* The paths the registry says a server holds.
HeldBy(a) == UNION {registry[i].paths : i \in {j \in 1 .. Len(registry) :
                                                  registry[j].addr = a}}

Registered == {registry[i].addr : i \in 1 .. Len(registry)}

\* The path get_ss_ipandport is currently resolving for w.
Target(w) == IF worker[w].which = 1 THEN worker[w].cmd.path
                                     ELSE worker[w].cmd.path2

FirstOf(S) == CHOOSE i \in S : \A j \in S : i <= j

\* After get_ss_ipandport returns r to handle_client: COPY resolves its
\* second path before checking either; a NULL result is answered "Path
\* not found" (for READ-like commands through retrieved_ss->ip_address,
\* which is NULL because ip_address is the struct's first field).
Stage == [LOOKUP |-> "reply", CREATE |-> "copy", DELETE |-> "send",
          COPY |-> "send"]

Resolved(w, r) ==
    LET wk == worker[w]
        wk1 == IF wk.which = 1 THEN [wk EXCEPT !.ref = r, !.found = Null]
                               ELSE [wk EXCEPT !.ref2 = r, !.found = Null]
        op == wk.cmd.op
    IN CASE op = "COPY" /\ wk.which = 1 -> [wk1 EXCEPT !.which = 2, !.pc = "resolve"]
         [] r = Null \/ wk1.ref = Null ->
                [wk1 EXCEPT !.pc = "idle", !.reply = "PathNotFound"]
         [] OTHER -> [wk1 EXCEPT !.pc = Stage[op]]

\* The outcomes a storage server operation may have.
Outcomes == IF SsMayFail THEN BOOLEAN ELSE {TRUE}

(* A variant of add_ss_connection whose slot is released when the        *)
(* connection thread returns, as remove_ss_connection would do if         *)
(* handle_ss_connection called it (PROJECT.json "mutants").               *)
AddSsConnectionSlotFreed(s) ==
    LET free == Cardinality(ssConn) < MAX_SS_CONNECTIONS IN
    /\ ssConn' = ssConn
    /\ ssAck' = [ssAck EXCEPT ![s] = IF free THEN "registered" ELSE "maximum"]

(* A variant of register_storage_server with an off-by-one bound          *)
(* (PROJECT.json "mutants").                                               *)
RegisterStorageServerOffByOne(s) ==
    IF Len(registry) <= MAX_STORAGE_SERVERS
    THEN Append(registry, [addr |-> s, paths |-> InitialPaths[s]])
    ELSE registry

(* handle_storage_server, registration branch: register_storage_server,  *)
(* then add_ss_connection, then the answers sent to the storage server.   *)
(* register_storage_server appends the record with the reported paths     *)
(* while server_count < MAX_STORAGE_SERVERS and otherwise only prints an  *)
(* error.  add_ss_connection takes the first inactive slot of the         *)
(* MAX_SS_CONNECTIONS (remove_ss_connection is never called, so a slot    *)
(* is never freed); with a slot, "Storage server registered successfully" *)
(* is sent twice, without one "Maximum storage servers reached" is sent,  *)
(* the socket closed, and the success message sent on the closed fd.      *)
(* connect_to_ns reads one answer, prints it and carries on either way;   *)
(* the storage server's main calls connect_to_ns once.                    *)
RegisterStorageServer(s) ==
    IF Len(registry) < MAX_STORAGE_SERVERS
    THEN Append(registry, [addr |-> s, paths |-> InitialPaths[s]])
    ELSE registry

AddSsConnection(s) ==
    LET free == Cardinality(ssConn) < MAX_SS_CONNECTIONS IN
    /\ ssConn' = IF free THEN ssConn \cup {s} ELSE ssConn
    /\ ssAck' = [ssAck EXCEPT ![s] = IF free THEN "registered" ELSE "maximum"]

-----------------------------------------------------------------------------
(* Variants of the code with a plausible bug (PROJECT.json "mutants").     *)

ResolveMissNoSearch(w) ==
    /\ worker[w].pc = "resolve"
    /\ Cache!CacheGetMiss(Target(w))
    /\ LET hits == 1 .. Len(registry)
       IN worker' = IF hits = {}
                    THEN [worker EXCEPT ![w] = Resolved(w, Null)]
                    ELSE [worker EXCEPT ![w].pc = "put", ![w].found = FirstOf(hits)]
    /\ UNCHANGED <<ssConn, ssAck, registry, cached_server, ssFiles>>

-----------------------------------------------------------------------------
(* start_naming_server + init_lru_cache; main starts the workers, which    *)
(* wait for sessions.  `cached_server' is static, hence zero-filled.       *)
Init ==
    /\ Cache!CacheInit
    /\ registry = <<>>
    /\ cached_server = [addr |-> Null, paths |-> {}]
    /\ ssFiles = InitialPaths
    /\ worker = [w \in Workers |-> Idle]
    /\ ssConn = {}
    /\ ssAck = [s \in Servers |-> "none"]

(* connect_to_ns (storage_server.c), run once by a storage server's main   *)
(* after the backup transfer: connect to the naming server, send           *)
(* "Metadata: S, Client Port: <port>, Paths: ..." with every path under    *)
(* the command-line paths (add_paths_recursive), then wait in recv for     *)
(* one answer.  The reported paths are InitialPaths[s].                    *)
ConnectToNs(s) ==
    /\ ssAck[s] = "none"
    /\ ssAck' = [ssAck EXCEPT ![s] = "sent"]
    /\ UNCHANGED <<cacheVars, registry, cached_server, ssFiles, worker, ssConn>>

(* The registration branch of handle_storage_server, on the message of a  *)
(* storage server waiting in connect_to_ns; the answer ends its recv.     *)
Register(s) ==
    /\ ssAck[s] = "sent"
    /\ registry' = RegisterStorageServer(s)
    /\ AddSsConnection(s)
    /\ UNCHANGED <<cacheVars, cached_server, ssFiles, worker>>

(* handle_client: recv returns the next command line of the session.       *)
Receive(w, c) ==
    /\ worker[w].pc = "idle"
    /\ c.op \in Ops
    /\ c.op = "CREATE" => <<c.path, c.full>> \in Creatable
    /\ worker' = [worker EXCEPT ![w] = [Idle EXCEPT !.pc = "resolve", !.cmd = c]]
    /\ UNCHANGED <<ssConn, ssAck, cacheVars, registry, cached_server, ssFiles>>

(* get_ss_ipandport, cache hit: cache_get copies the address out, then,    *)
(* after the cache lock is released, it is stored in the static            *)
(* cached_server, whose address is returned.                               *)
ResolveHit(w) ==
    /\ worker[w].pc = "resolve"
    /\ Cache!CacheGetHit(Target(w))
    /\ cached_server' = [cached_server EXCEPT !.addr = Cache!CachedServer(Target(w))]
    /\ worker' = [worker EXCEPT ![w] = Resolved(w, Static)]
    /\ UNCHANGED <<ssConn, ssAck, registry, ssFiles>>

(* get_ss_ipandport, cache miss: scan storage_servers[0 .. server_count-1] *)
(* with search_path, without any lock; the first holder is cache_put next. *)
ResolveMiss(w) ==
    /\ worker[w].pc = "resolve"
    /\ Cache!CacheGetMiss(Target(w))
    /\ LET hits == {i \in 1 .. Len(registry) : Target(w) \in registry[i].paths}
       IN worker' = IF hits = {}
                    THEN [worker EXCEPT ![w] = Resolved(w, Null)]
                    ELSE [worker EXCEPT ![w].pc = "put", ![w].found = FirstOf(hits)]
    /\ UNCHANGED <<ssConn, ssAck, registry, cached_server, ssFiles>>

(* get_ss_ipandport: cache_put(path, the holder's address), then return    *)
(* &storage_servers[i].                                                    *)
ResolvePut(w) ==
    /\ worker[w].pc = "put"
    /\ Cache!CachePut(Target(w), registry[worker[w].found].addr)
    /\ worker' = [worker EXCEPT ![w] = Resolved(w, worker[w].found)]
    /\ UNCHANGED <<ssConn, ssAck, registry, cached_server, ssFiles>>

(* READ/WRITE/APPEND/INFO/STREAM: the address is read through the pointer  *)
(* and sent as "Storage Server IP: <ip>, Port: <port>".                    *)
Reply(w) ==
    /\ worker[w].pc = "reply"
    /\ worker' = [worker EXCEPT ![w].pc = "idle",
                                ![w].reply = Deref(worker[w].ref).addr]
    /\ UNCHANGED <<ssConn, ssAck, cacheVars, registry, cached_server, ssFiles>>

(* CREATE: `StorageServer ss = insert_path( *retrieved_ss_source,          *)
(* full_name)' copies the record and inserts path/name into the copy ...   *)
CreateCopy(w) ==
    /\ worker[w].pc = "copy"
    /\ worker' = [worker EXCEPT ![w].pc = "writeback",
                    ![w].copy = [Deref(worker[w].ref) EXCEPT
                                   !.paths = @ \cup {worker[w].cmd.full}]]
    /\ UNCHANGED <<ssConn, ssAck, cacheVars, registry, cached_server, ssFiles>>

(* ... and `*retrieved_ss_source = ss' writes the copy back through the    *)
(* pointer, before the storage server is contacted.                        *)
CreateWriteBack(w) ==
    LET r == worker[w].ref
        c == worker[w].copy
    IN /\ worker[w].pc = "writeback"
       /\ IF r = Static
          THEN /\ cached_server' = c
               /\ UNCHANGED registry
          ELSE /\ registry' = [registry EXCEPT ![r] = c]
               /\ UNCHANGED cached_server
       /\ worker' = [worker EXCEPT ![w].pc = "send", ![w].copy = Null]
       /\ UNCHANGED <<ssConn, ssAck, cacheVars, ssFiles>>

(* The storage server's side of a forwarded command (storage_server.c,    *)
(* handle_client dispatching to the three handlers below).  What the      *)
(* naming server sees of the answer is only whether it contains           *)
(* "Success"; ok is whether the file system call (fopen, mkdir, remove,   *)
(* rmdir) works.                                                          *)

(* handle_create_command: "Error: ... leads to a file" when the parent is  *)
(* a regular file; otherwise fopen/mkdir of path/name, answered "Success   *)
(* in ..." when it works.  A missing parent fails the fopen (is_file's     *)
(* stat fails and leaves st_mode unread, but either answer is an Error).  *)
SsCreated(a, c, ok) == ok /\ c.path \in ssFiles[a]

(* handle_delete_command: "Error: Path ... does not exist" for a missing   *)
(* path; otherwise remove, or rmdir after delete_directory_contents, which *)
(* answers "... deleted successfully" or "Error: Could not delete ...".    *)
(* A failed removal is taken to leave the whole directory in place.       *)
\* delete_directory_contents(path): what readdir finds under path, each
\* entry removed (a subdirectory after its own contents).  CREATE makes
\* entries one level deep, the pairs of Creatable.
DirectoryContents(a, p) == {q \in ssFiles[a] : <<p, q>> \in Creatable}

SsDeleted(a, c, ok) ==
    IF ok /\ c.path \in ssFiles[a]
    THEN ssFiles[a] \ ({c.path} \cup DirectoryContents(a, c.path))
    ELSE ssFiles[a]

(* copy_file: "Failed to open source file", or it sends "CREATE dest name  *)
(* F" back on the same socket and copies nothing; no file changes.         *)
SsAnswer(a, c, ok) ==
    CASE c.op = "CREATE" -> IF SsCreated(a, c, ok) THEN "Success" ELSE "Error"
      [] c.op = "DELETE" -> IF ok /\ c.path \in ssFiles[a]
                            THEN "deleted successfully" ELSE "Error"
      [] c.op = "COPY"   -> IF c.path \in ssFiles[a] THEN "CREATE" ELSE "Failed"

(* CREATE, DELETE, COPY: connect_and_send_to_ss(source, ...) forwards the  *)
(* command to the address read through the pointer; status is 1 iff the   *)
(* response contains "Success", and only then does the client get a reply. *)
(* So DELETE and COPY have status 0 and are never answered.  The storage  *)
(* server's handle_client sends "Handling client request" on accept,      *)
(* before it reads the command, and connect_and_send_to_ss does one read: *)
(* it returns the greeting alone, or with the answer if that has arrived. *)
SendToSs(w) ==
    LET c == worker[w].cmd
        a == Deref(worker[w].ref).addr
    IN /\ worker[w].pc = "send"
       /\ \E ok \in Outcomes, answerRead \in BOOLEAN :
            /\ ssFiles' = CASE c.op = "CREATE" ->
                                 IF SsCreated(a, c, ok)
                                 THEN [ssFiles EXCEPT ![a] = @ \cup {c.full}]
                                 ELSE ssFiles
                            [] c.op = "DELETE" -> [ssFiles EXCEPT ![a] = SsDeleted(a, c, ok)]
                            [] c.op = "COPY"   -> ssFiles
            /\ worker' = [worker EXCEPT ![w].pc = "idle",
                            ![w].reply = IF answerRead /\ SsAnswer(a, c, ok) = "Success"
                                         THEN "Success" ELSE "none"]
       /\ UNCHANGED <<ssConn, ssAck, cacheVars, registry, cached_server>>

Next ==
    \/ \E s \in Servers : ConnectToNs(s) \/ Register(s)
    \/ \E w \in Workers :
          \/ \E c \in Command : Receive(w, c)
          \/ ResolveHit(w) \/ ResolveMiss(w) \/ ResolvePut(w)
          \/ Reply(w) \/ CreateCopy(w) \/ CreateWriteBack(w) \/ SendToSs(w)

Spec == Init /\ [][Next]_vars

-----------------------------------------------------------------------------
(* A READ-like command is answered with the address of a storage server    *)
(* whose registered PathIndex holds the path (spec section 4.3): the       *)
(* address get_ss_ipandport returned, read through its pointer when the    *)
(* reply is sent, names a holder of that path.                             *)
LookupSound ==
    \A w \in Workers :
        worker[w].reply \in Servers => worker[w].cmd.path \in HeldBy(worker[w].reply)

\* No worker is in the middle of a command.
Quiescent == \A w \in Workers : worker[w].pc = "idle"

(* Whenever no command is in progress, every path that exists on a         *)
(* registered storage server is in that server's PathIndex, so a path a    *)
(* CREATE made resolves to its server (spec section 7: "CREATE /a foo F    *)
(* ... followed by READ /a/foo resolves to the same storage server").      *)
FilesIndexed ==
    Quiescent => \A a \in Registered : ssFiles[a] \subseteq HeldBy(a)

(* Whenever no command is in progress, every path a registered server's    *)
(* PathIndex holds exists on that server: the index is updated only on     *)
(* success, and DELETE removes the path (spec sections 4.4 and 7).         *)
IndexedFilesExist ==
    Quiescent => \A a \in Registered : HeldBy(a) \subseteq ssFiles[a]

(* A storage server whose connect_to_ns read "Storage server registered   *)
(* successfully" is in storage_servers[], so the paths it reported resolve *)
(* to it.  register_storage_server only prints an error when the registry *)
(* is full and handle_storage_server answers as if it had registered; the *)
(* answer is then true only because add_ss_connection, whose slots are     *)
(* never freed, runs out first (MAX_SS_CONNECTIONS <= MAX_STORAGE_SERVERS). *)
AckedServersRegistered ==
    \A s \in Servers : ssAck[s] = "registered" => s \in Registered

=============================================================================
