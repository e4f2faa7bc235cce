# TLA+ models of the naming server

This directory holds TLA+ models of the Network File System, centred on the
naming server (`src/naming_server.c`, `src/naming_server.h`, `src/cache.h`),
and the TLC configurations that check them. The storage server
(`src/storage_server.c`) and the client (`src/client.c`) are modelled where
they talk to the naming server: registration, the answers to forwarded
commands, the client's command loop and the asynchronous write path. The
backup transfer that a storage server runs at start-up, and the backup
server that receives it (`src/BACKUP/backup.c`), are modelled as well.

## The system

- **Accept thread** (`start_naming_server` → `handle_storage_server`). It
  reads the first message of every new connection and classifies it:
  - **Storage server registration** (`Metadata: ...`): the server is
    registered in `storage_servers[]` and added to the connection manager.
  - **Async write completion** (`ASYNCWRITE_COMPLETE ...`): the client
    socket is found in the request log and notified.
  - **Client handshake** (anything else): the client gets the next ACK
    number, `ACK:<n>` is sent, and a `ClientRequest` is pushed into the
    circular `RequestQueue`. The push blocks while the queue is full.
- **Worker pool.** `main` starts 4 threads running `process_requests`.
  Each one dequeues a request, blocking while the queue is empty, and runs
  `handle_client` on that connection until the client closes it.
- **Dispatcher** (`handle_client`). It handles one command line at a time.
  - It resolves paths with `get_ss_ipandport`:
    1. First the LRU **location cache** (`cache_get`).
    2. On a miss, an unlocked linear scan of the **registry**, calling
       `search_path` on each server's **PathIndex**, an open-addressed
       table with quadratic probing.
    3. Then `cache_put`.
  - A cache hit returns a pointer to a function-static `cached_server`.
    A registry hit returns `&storage_servers[i]`.
  - READ, WRITE, APPEND, INFO and STREAM are answered with the storage
    server's address.
  - CREATE, DELETE and COPY are forwarded to the storage server by
    `connect_and_send_to_ss`, which returns 1 iff the response contains
    `Success`. The client gets a reply only in that case.
  - CREATE inserts the new path into a copy of the server record and writes
    the copy back through the pointer before contacting the storage server.
- **Registration** (`handle_storage_server` → `register_storage_server`,
  `add_ss_connection`). The record is appended while `server_count <
  MAX_STORAGE_SERVERS` (100). A slot of the connection manager
  (`MAX_SS_CONNECTIONS`, 10, never freed) is taken if one is free, and the
  answer `Storage server registered successfully` or `Maximum storage servers
  reached` is sent. `connect_to_ns` reads one answer and carries on.
- **PathIndex.** `insert_path`, `search_path` and `delete_path` on a table
  of `TABLE_SIZE` (101) slots with tombstones, probing
  `index = (index + i*i) % TABLE_SIZE` cumulatively.
- **Asynchronous writes.** Every command is logged with its socket fd
  (`log_client_request`). A WRITE of more than `ASYNC_THRESHOLD` bytes is
  acknowledged at once by the storage server and finished by
  `async_write_task`, which connects to the naming server with
  `ASYNCWRITE_COMPLETE`. The accept thread finds the last logged WRITE line
  containing the file name and sends the notice to the fd in it. The client
  waits for it in `write_completion`.
- **Location cache.** A hash array of `CACHE_SIZE` node pointers indexed by
  `cache_hash(path)`, plus a doubly linked recency list, guarded by one
  mutex.

The shared state is:

- the request queue (mutex and two condition variables);
- the cache (mutex);
- `storage_servers[]` and `server_count` (no lock);
- the static `cached_server` (no lock);
- `next_ack_number` (written only by the accept thread, read by workers in
  `log_client_request`).

## Modules

| Module | Models | Source |
|---|---|---|
| `BoundedFIFO` | What the admission queue promises: a bounded FIFO and the history of what consumers took. | spec §4.5 |
| `AdmissionQueue` | The accept thread's client branch, the ring buffer, the workers and client stop. | `naming_server.c` 284–351, 742–761, 817–979 |
| `MC_AdmissionQueue` | Symmetry over clients for the violation run. | |
| `LruCache` | What the cache promises: an LRU map with capacity, plus the last call and its result. | spec §4.2 |
| `LocationCache` | `init_lru_cache`, `move_to_front`, `create_node`, `cache_put`, `cache_get`, at pointer level. | `naming_server.c` 75–226 |
| `MC_LocationCache` | Injective and colliding `cache_hash`. | |
| `NamingServer` | Registration, `get_ss_ipandport`, `handle_client`'s commands and replies, the storage server's answers. It composes `LocationCache` through `INSTANCE`. | `naming_server.c` 353–497, 613–670, 817–979 |
| `MC_NamingServer` | Servers, paths, hashes and a `VIEW` for the dispatch runs. | |
| `PathBag` | What a PathIndex promises, as the code really behaves: a multiset of paths. | `naming_server.c` 406–468 |
| `PathIndex` | `insert_path`, `delete_path`, `search_path` at slot level. | `naming_server.c` 406–486, `naming_server.h` 86–98 |
| `MC_PathIndex` | Three paths with colliding hashes. | |
| `AsyncCompletion` | The client's command loop, the worker's logging and replies, the request log, the async write task and the completion notice, naming-server restarts. | `client.c` 181–396, `naming_server.c` 546–556, 671–741, 817–979, 1061–1226, `storage_server.c` 648–862, 1134–1244 |
| `MC_AsyncCompletion` | Two clients each writing its own file. | |

### How the models correspond to the code

#### AdmissionQueue

- **State.** The variables `requests`, `front`, `rear` and `size` are the
  C ring buffer itself.
- **Init.** It starts with `rear = -1`, as in `init_request_queue`.
- **Locks.** A mutex-protected body is one atomic step. A
  `while (...) pthread_cond_wait` loop becomes the step's guard.
- **AcceptClient.** Takes the next ACK number and sends the ACK. The push
  into the queue is a separate step, `Enqueue`, because the accept thread
  can block between the two.
- **History.** `dequeued` records what workers took. `QueueContents` reads
  the ring buffer from `front` to `rear`. Together they are the refinement
  mapping to `BoundedFIFO`.

#### LocationCache

- **Nodes are slots.** The array holds at most one node per slot, and a node
  is only stored at the slot `cache_hash` gives for its own path. So a node
  is identified with its slot, and `prev`, `next`, `head` and `tail` are
  slots.
- **Faithful to the C.** `MoveToFront` is the C function's assignments in
  their order. `PutExisting` is the branch of `cache_put` that finds a node
  in the slot and, like the code, does not compare paths. `PutNew` is the
  other branch, including eviction. Eviction is unreachable because
  `capacity == CACHE_SIZE`: a free slot means `size < capacity`. The
  action property `CacheNeverEvicts` checks this, so the spec's "LRU
  eviction" (§7) never happens. At capacity, a new path overwrites the
  entry of whichever path shares its slot.
- **Refinement.** `Recency` walks `next` from `head`. The refinement
  mapping sends each cached path to its address and `recency` to the paths
  along the list. `call` records the last operation, so a put of one path
  cannot pass as a put of another.

#### NamingServer

- **Abstractions.**
  - A storage server is its client-facing address.
  - A PathIndex is abstracted to the set of paths it holds.
  - READ, WRITE, APPEND, INFO and STREAM are one `LOOKUP` command, since
    `handle_client` treats them alike.
- **Pointers.** A pointer returned by `get_ss_ipandport` is a ref:
  - `Static`, for `&cached_server`;
  - a registry position;
  - `Null`.
  
  `Deref` reads through a ref.
- **Steps.** Each step runs from one point where another thread can
  interfere to the next:
  - `ResolveHit`: `cache_get` hit, then the unlocked write of the static.
  - `ResolveMiss`: `cache_get` miss, then the unlocked scan.
  - `ResolvePut`: `cache_put`.
  - `Reply`: reading the address through the ref and sending it.
  - `CreateCopy` and `CreateWriteBack`: the two halves of
    `*p = insert_path(*p, full)`.
  - `SendToSs`: the exchange with the storage server and the reply.
- **Storage server answers.** `SendToSs` uses the storage server's real
  response strings:
  - `handle_create_command` says `Success in ...` only when the create
    works (modelled: the parent exists and the operation did not fail);
  - `handle_delete_command` says `... deleted successfully`, in lower case;
  - `copy_file` says `CREATE ...` or `Failed ...`.
  
  So DELETE and COPY always get status 0. `SsCreated`, `SsDeleted` and
  `SsAnswer` translate the three handlers; whether the file-system call
  works is a nondeterministic `ok`.
- **One read.** The storage server's `handle_client` sends `Handling
  client request` on accept, before it reads the command.
  `connect_and_send_to_ss` does a single `read`, which may return that
  greeting alone. So even a successful CREATE may get status 0, and
  `SendToSs` chooses `answerRead` nondeterministically.
- **Registration.** `ConnectToNs` is the storage server's side: it sends
  its metadata and waits in `recv` (`ssAck = "sent"`). `Register` is the
  whole registration branch of the naming server:
  `RegisterStorageServer` (both branches), then `AddSsConnection`, which
  keeps the set `ssConn` of servers holding a slot and records in `ssAck`
  the answer the storage server reads. Each storage server registers once
  (its `main` calls `connect_to_ns` once).
- **Storage server files.** `ssFiles` is what exists on each storage
  server. `SsDeleted` removes a path and, through `DirectoryContents`
  (`delete_directory_contents`), what CREATE made inside it. A failed
  removal is taken to leave the whole directory in place.

#### PathIndex

- **State.** `table` is the array of `PathEntry` records (`path`,
  `is_occupied`, `is_deleted`), `num_paths` the counter. `call` records the
  last operation and its result for the refinement.
- **Probing.** `Probe(h, k)` is the slot examined at the k-th step, defined
  recursively as the code's cumulative `index += i*i`. `ScanEnd` is where a
  search stops: the first never-occupied slot or the path itself.
- **Actions.** `InsertPath` takes the first slot that is not live (a
  tombstone included) without checking for an existing copy; after
  `TABLE_SIZE` probes it gives up and changes nothing. `DeletePath` sets
  `is_deleted` and decrements `num_paths`. `SearchPath` changes only `call`.
- **Refinement.** `Copies(p)` counts the live slots holding p. The mapping
  to `PathBag` sends the table to that bag, so `insert_path` is shown to be
  a multiset insert (or a refusal), not a set insert.

#### AsyncCompletion

- **State.** Per client: `pc` (where `client.c` main is), `cmd`, `nreq`, the
  naming-server `fd` of its connection and the connection's state `conn`.
  The byte streams `toNs` and `toClient`, the last `recvd`, the request
  `log`, the running `tasks` and the `restarts` counter.
- **Fds.** `AcceptFd` is the lowest fd not in use, as POSIX `accept`
  allocates them. This is what lets an fd written in the log name another
  connection later.
- **Actions.**
  - Client: `Connect`, `SendCommand` (no recv after CREATE/DELETE), `Stop`,
    `RecvReply` (one recv, and the storage server exchange after an
    address), `RecvCompletion` (`write_completion`).
  - The exchange may end with the client spinning forever (`pc = "spin"`).
    Its greeting check compares `handle_msg[23]`, which `recv` never writes
    and which is uninitialised.
  - Storage server: `SsExchange` (a large WRITE starts a task),
    `AsyncComplete` (`async_write_task` then `send_completion_ack_to_ns`,
    on success and on failure).
  - Naming server: `NsHandle` (log, then reply on the fd), `NsClose`,
    `NotifyClientOfCompletion` (`find_client_info_from_log`, then send),
    `NsRestart` (SIGINT clears the log; a crash, allowed only when
    `NsMayCrash`, keeps it).
- **Tags.** Replies and notices carry the request they answer. This field
  is history only and lets the properties say whose reply a client read.

#### Backup

- **Sender.** `Packets` is the exact sequence `send_backup_to_server`
  sends: `SS_ID`; the `DIR_CREATE`s of `scan_directory_structure`
  (including the repeated one for the directory itself after each
  recursion); the files of `send_directory_contents` and
  `send_single_file`, each as `FILE_START`, `floor(size/BUFFER_SIZE)+1`
  `FILE_DATA` packets (the `while (!feof)` loop sends an empty last one
  when the size is a multiple of the buffer) and `FILE_END`. Between
  packets the sender clears only the data: `FILE_DATA` keeps the file's
  path, and `FILE_END` only changes the type, so it still carries the last
  chunk and its size. Then
  `TRANSFER_DONE`. `SendPacket` is one `send()`, `CloseSocket` the final
  `close`. A send after the receiver has returned may kill the sender by
  `SIGPIPE`, which the storage server does not ignore.
- **Stream.** Each packet is two segments: header (type, path) and body
  (data, size, ...). `Receive` is one `recv(&packet, sizeof(packet))`
  that returns one or two segments of what has arrived and overwrites only
  that prefix of the one `struct TransferPacket` declared outside the loop.
  The code never checks the count, so the struct may then hold the end of
  one packet and the stale rest of an earlier one.
- **Interpretation.** `TypesOf`, `PathOf` and `SizeOf` say what the
  switch sees in the struct: a body segment read as a header gives the
  type of its first data bytes (zeros for most packets, any value for
  the file bytes of a `FILE_DATA` or `FILE_END` holding a chunk).
  `Handle` is the switch: `SS_ID` first; `DIR_CREATE`, which makes the
  directory and its parents (`create_directory_recursive`); `FILE_START`,
  which makes the parent directories, then opens the file (a garbage path
  may fail `fopen`, and then no file is created); `FILE_DATA` (written
  only if a file is open); `FILE_END`; `TRANSFER_DONE`. `packet.mode` only
  sets permissions and is not modelled. `ReceiveEof` is
  `recv` returning 0.
- **State.** `sent`, `ss`, `rpos` (segments read), `buf`, `rpc`, `gotId`,
  `fp`, and what the backup directory holds: `dirs` and `files` (bytes
  written per path).

## Runs

| Run | Config | Expect | What it shows |
|---|---|---|---|
| admission | `AdmissionQueue.cfg` | pass | The ring buffer refines `BoundedFIFO` (`QueueIsFIFO`). Every admitted session is eventually served (`AdmittedSessionsEventuallyServed`). 4 clients, 2 workers, queue of 2, so the queue fills and wraps. |
| cache | `MC_LocationCache.cfg` | pass | With an injective hash, the list and the array stay consistent (`LruListConsistent`) and the cache refines `LruCache` (`LocationCacheIsLru`). No put ever evicts (`CacheNeverEvicts`): the eviction branch is dead code. |
| cache_collide | `MC_LocationCache_collide.cfg` | violation | Two paths share a slot. `cache_put` of one overwrites the other's address (spec §4.2/§9). `"file70.txt"` and `"file108.txt"` both hash to 111. |
| dispatch | `MC_NamingServer.cfg` | pass | One worker, every command, failing storage servers, registration past both the connection manager and the registry. A READ is answered with a holder of the path (`LookupSound`). A server told "registered successfully" is in the registry (`AckedServersRegistered`). This holds only because the never-freed connection slots run out before the registry does, since `register_storage_server` only prints an error when the registry is full. |
| dispatch_race | `MC_NamingServer_race.cfg` | violation | With two workers, the static `cached_server` is overwritten between another worker's lookup and its reply. The client is sent a server that does not hold the path. |
| dispatch_create_hit | `MC_NamingServer_create_hit.cfg` | violation | A CREATE whose parent lookup hit the cache writes the new path into the static copy. The file exists but never resolves (`FilesIndexed`, spec §7). |
| dispatch_delete | `MC_NamingServer_delete.cfg` | violation | DELETE removes the file on the storage server, but the index keeps it (`IndexedFilesExist`). `delete_path` is never called. |
| pathindex | `MC_PathIndex.cfg` | pass | The probing table refines the multiset `PathBag` (`PathIndexIsBag`): inserts, tombstoned deletes and searches through tombstones agree with a bag of paths. |
| pathindex_full | `MC_PathIndex_full.cfg` | violation | `InsertRefusedOnlyWhenFull`: with TABLE_SIZE 5 the probe sequence visits only 3 slots, so an insert is refused, silently, while slots are free (spec §4.1: it fails when the table is full). |
| async | `MC_AsyncCompletion.cfg` | pass | Without crashes, every recv returns a reply to the client's own request (`ClientReadsOwnReply`), and a client waiting in `write_completion` is eventually notified (`WriterEventuallyNotified`). |
| async_crash | `MC_AsyncCompletion_crash.cfg` | violation | After a crash the log survives. A completion for a write started before it is sent to the fd of the old line, now another client's connection, which reads the notice as its reply. |
| backup_short_read | `MC_Backup.cfg` | violation | `BackupFaithful`: once `recv` returns less than a whole packet, every later read is misaligned. TLC's trace reads half the `SS_ID` packet, so every later header slot holds a body. It then takes the file bytes of a `FILE_DATA` body for `TRANSFER_DONE` and returns. The backup holds only the root directory, and the sender is still sending: its next `send` may kill it by `SIGPIPE`. With whole-packet reads only, the same model satisfies the property. |

Every property of a passing run has a mutant in `PROJECT.json`: a variant
of the code with a plausible bug, which TLC must catch. The variants are
written just before the definitions they replace.

## Bounds and why they suffice

- **Admission.**
  - A queue of capacity 2 with 4 clients and 2 workers reaches a full queue,
    a blocked accept thread, wrap-around of `rear` and `front`, and all
    workers busy.
  - The ACK counter is bounded by the number of clients, since each client
    connects once.
- **Cache.**
  - Three paths in three slots fill the array and reach every position of
    a node in the list (head, middle, tail, only node). This is every case
    `move_to_front` distinguishes.
  - The colliding configuration uses two slots for three paths.
- **Dispatch.**
  - Two directories on two servers, and a third server that finds the
    registry full. `MAX_SS_CONNECTIONS` is 1 and `MAX_STORAGE_SERVERS` 2,
    keeping the code's order (10 below 100): the second server gets no
    connection slot but is registered, the third gets neither.
  - One or two creatable children.
  - One worker for the passing run, two for the races.
  - A `VIEW` leaves out the cache's `call` variable. No action reads it.
  - The state space is finite without counters: the registry, the cache
    and the path sets are all bounded.

- **PathIndex.**
  - `TABLE_SIZE` 5 with three paths, two of them hashing to the same slot.
    The cumulative probe from a slot h reaches only h, h+1 and h+4, so
    collisions, tombstone reuse, duplicates and refusals with free slots all
    occur. The unbounded table size of the code (101) changes which slots
    are reached (67), not the kind of behaviour.
  - `num_paths` is bounded because the table is.
- **Async.**
  - Two clients, each with its own file, and three naming-server fds, one
    more than the clients, so an fd can be freed and reused.
  - `MaxCmds` 2 lets a client do a large WRITE and then another command.
    `MaxRestarts` 1 is enough for a write to straddle a restart.

- **Backup.**
  - Root `r` with file `f` and subdirectory `s` holding `g`, plus a
    command-line file `h`. This exercises every sender branch: a
    subdirectory recursion, a file inside it, a file in the root and a
    single file.
  - `BUFFER_SIZE` 2 with sizes 2, 1 and 0: a file of exactly one buffer
    (two `FILE_DATA`, the last empty), a short file and an empty one.
  - Two segments per packet are enough to misalign the stream. More
    segments would only add more ways to split.

## Fairness

- **AdmissionQueue** assumes weak fairness on:
  - `Enqueue`;
  - each worker's `Dequeue` and `EndSession`, since threads that can run
    are eventually scheduled and a signalled condition variable wakes a
    waiter;
  - `ClientStop`, but only as the hypothesis of the liveness property.
- The code has no read timeout. A client that never stops holds its worker
  forever, so `AdmittedSessionsEventuallyServed` only holds given that
  clients eventually stop.
- **AsyncCompletion** assumes weak fairness on the naming server's
  `NsHandle` and `NsClose` for each client, on the client's `RecvReply` and
  `RecvCompletion`, and on `AsyncComplete` for every task. These are
  threads that block only in `recv` or on I/O: the worker thread, the
  accept thread, the client process and the detached `async_write_task`.
  No fairness is assumed on the client typing commands or stopping.
- The other runs check safety only.

## Not modelled yet, and why

- **Findings that lost their run.** The project keeps at most twelve runs.
  These disagreements were found while modelling, but no run checks them
  now:
  - two concurrent CREATEs on one server, where the second write-back of a
    stale copy erases the first insert. The dispatch run has one worker,
    so a property about lost write-backs would only restate the insert
    there, and it is not checked;
  - a CREATE that the storage server fails stays in the index;
  - a resolved COPY is never answered while the client waits in `recv`;
  - two COPY paths that both hit the cache resolve to the same record;
  - the ACK is sent before `enqueue_request`, even when every worker is
    busy (spec §8). `NoAckWhileAllWorkersBusy` in `AdmissionQueue` states
    this.
- **Backup.** Other receivers in the repository (`b.c`, `BACKUP/a.c`,
  `BACKUP/a2.c`) speak different, mismatched packet formats, and the
  replica server is not started by any modelled component. File contents
  are abstracted to their byte counts. Nesting deeper than one
  subdirectory is not modelled.
- **Registration.**
  - The second send after `close` in the full branch is not modelled at the
    fd level. A worker's `socket()` could reuse the fd in between.
  - The metadata parse and the path list are not modelled; the reported
    paths are a constant per server.
- **Request log.**
  - The substring match of the file name is modelled (`Occurs`), but the
    runs use distinct names.
  - The race on `next_ack_number` in `log_client_request` only changes the
    logged ACK field, which nothing reads back.
- **Client session protocol.** The client never reads CREATE/DELETE
  replies, so the next command reads them. `AsyncCompletion` models this,
  but no run includes CREATE or DELETE in the workload.
- **Audio streaming** (`handle_audio_request`, `request_audio_stream`). The
  two sides disagree on the header:
  - the storage server sends a `struct audio_metadata` (file name, size,
    MIME type);
  - the client reads a bare `long` as the size. That size is the first 8
    bytes of the file name, and the rest of the struct is piped to the
    player ahead of the audio.

  This is listed as a hazard. It has no run, because all twelve runs are
  spent on the naming-server and backup findings.
- **Stray registration answer** (`naming_server.c:810`). With no slot, the
  socket is closed and the success message is then sent on the closed fd.
  A worker's `socket()` or the log's `fopen` could get that fd in between.
  Fds are not modelled in `NamingServer`.
- **Composition.** `AsyncCompletion` and `AdmissionQueue` are separate
  models. A client blocked in `write_completion` while the accept thread
  is blocked on a full queue would need both.
- **Out of scope** (spec §1):
  - storage server file I/O, beyond the success of CREATE and DELETE;
  - replica transfer;
  - `replicate_metadata` and `send_metadata_to_replica`, which are never
    called.
