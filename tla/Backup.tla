------------------------------- MODULE Backup -------------------------------
(***************************************************************************)
(* The backup transfer: a storage server's main calls                    *)
(* send_backup_to_server (src/storage_server.c) before it registers, and *)
(* the backup server (src/BACKUP/backup.c) handles the connection in      *)
(* handle_client.  Both sides exchange fixed-size struct TransferPacket   *)
(* records over one TCP stream: the sender sends each with one send(), the *)
(* receiver reads each with one recv(&packet, sizeof(packet)) into the    *)
(* same struct, never checking how many bytes came.                       *)
(*                                                                         *)
(* A packet is two segments on the stream: its header (type, path) and   *)
(* its body (data, size, mode, base_dir).  A recv returns between one    *)
(* segment and sizeof(packet) worth of what has arrived, and overwrites  *)
(* only that prefix of the struct.  A path is a sequence of names; a     *)
(* file's contents are abstracted to its size in bytes.  Bytes that are  *)
(* not the field they are read as are Garbage.                           *)
(***************************************************************************)
EXTENDS Naturals, Sequences, SequencesExt

CONSTANTS Root,         \* the directory passed on the command line
          SubDirs,      \* its subdirectories (no deeper nesting)
          FilesOf,      \* FilesOf[d]: regular files in Root or a subdir
          TopFiles,     \* regular files passed on the command line
          Size,         \* Size[f]: bytes in file f
          BUFFER_SIZE,
          Garbage, None

ASSUME /\ FilesOf \in [{Root} \cup SubDirs -> SUBSET (DOMAIN Size)]
       /\ TopFiles \subseteq DOMAIN Size
       /\ BUFFER_SIZE \in Nat \ {0}

Types == {"SS_ID", "DIR_CREATE", "FILE_START", "FILE_DATA", "FILE_END",
          "TRANSFER_DONE"}

Pkt(t, p, n) == [type |-> t, path |-> p, size |-> n]

(* send_single_file, and the regular-file branch of send_directory_contents: *)
(* FILE_START, then while (!feof(fp)) one FILE_DATA of fread's count, then *)
(* FILE_END.  feof is set only by a read that comes up short, so a size    *)
(* that is a multiple of BUFFER_SIZE ends with an empty FILE_DATA.  Only  *)
(* the data is cleared between packets: FILE_DATA keeps the path, and     *)
(* FILE_END only changes the type, so it carries the last chunk.          *)
FileSend(p, n) ==
    <<Pkt("FILE_START", p, 0)>>
      \o [i \in 1 .. (n \div BUFFER_SIZE + 1) |->
            Pkt("FILE_DATA", p, IF i <= n \div BUFFER_SIZE THEN BUFFER_SIZE
                                                        ELSE n % BUFFER_SIZE)]
      \o <<Pkt("FILE_END", p, n % BUFFER_SIZE)>>

(* scan_directory_structure(base, base): DIR_CREATE of basename(base),     *)
(* then for each subdirectory DIR_CREATE of base/sub and the recursive     *)
(* call, which sends DIR_CREATE of basename(base) again.                   *)
ScanPackets ==
    <<Pkt("DIR_CREATE", <<Root>>, 0)>>
      \o FlattenSeq([i \in 1 .. Cardinality(SubDirs) |->
            <<Pkt("DIR_CREATE", <<Root, SetToSeq(SubDirs)[i]>>, 0),
              Pkt("DIR_CREATE", <<Root>>, 0)>>])

(* send_directory_contents(base, base): in readdir order, a subdirectory is *)
(* recursed into and a regular file sent under basename(base)/relative.    *)
DirFiles(d, prefix) ==
    LET fs == SetToSeq(FilesOf[d])
    IN FlattenSeq([i \in 1 .. Len(fs) |-> FileSend(prefix \o <<fs[i]>>, Size[fs[i]])])

ContentPackets ==
    LET es == SetToSeq(FilesOf[Root] \cup SubDirs)
    IN FlattenSeq([i \in 1 .. Len(es) |->
          IF es[i] \in SubDirs THEN DirFiles(es[i], <<Root, es[i]>>)
          ELSE FileSend(<<Root, es[i]>>, Size[es[i]])])

(* send_backup_to_server: PACKET_SS_ID, each command-line path (the      *)
(* directory, then the single files under their basename), then         *)
(* PACKET_TRANSFER_DONE and close.                                       *)
Packets ==
    <<Pkt("SS_ID", <<>>, 0)>> \o ScanPackets \o ContentPackets
      \o FlattenSeq([i \in 1 .. Cardinality(TopFiles) |->
            FileSend(<<SetToSeq(TopFiles)[i]>>, Size[SetToSeq(TopFiles)[i]])])
      \o <<Pkt("TRANSFER_DONE", <<>>, 0)>>

\* The k-th segment on the stream.
Seg(k) == [pkt |-> (k + 1) \div 2, part |-> 2 - (k % 2)]

VARIABLES sent,     \* packets sent so far
          ss,       \* the sender: "sending", "closed" or "killed"
          rpos,     \* segments the receiver has read
          buf,      \* the receiver's struct TransferPacket: two segments
          rpc,      \* handle_client: "loop" or "done"
          gotId,    \* received_ss_id
          fp,       \* the path of the open file, or None
          dirs,     \* directories created under the backup directory
          files     \* files created there and the bytes written to each

vars == <<sent, ss, rpos, buf, rpc, gotId, fp, dirs, files>>

Paths == {p \in {Packets[i].path : i \in 1 .. Len(Packets)} : p # <<>>}

TypeOK ==
    /\ sent \in 0 .. Len(Packets) /\ ss \in {"sending", "closed", "killed"}
    /\ rpos \in 0 .. 2 * Len(Packets)
    /\ rpc \in {"loop", "done"} /\ gotId \in BOOLEAN
    /\ fp \in Paths \cup {Garbage, None}
    /\ dirs \subseteq Paths \cup {Garbage}

-----------------------------------------------------------------------------
(* What handle_client finds in the struct after a recv.  The header part  *)
(* is a type and a path only if it holds a header segment; a body segment *)
(* read as a header gives the type of its first four data bytes: file     *)
(* bytes (any value) for a FILE_DATA or FILE_END holding a chunk, text    *)
(* for SS_ID, and zero (PACKET_SS_ID) for the memset data of the others.  *)
(* The size is a size only if the body part holds a body segment.         *)
TypesOf(b) ==
    LET h == b[1] IN
    IF h.part = 1 THEN {Packets[h.pkt].type}
    ELSE CASE Packets[h.pkt].type \in {"FILE_DATA", "FILE_END"}
                /\ Packets[h.pkt].size > 0 ->
                Types \cup {Garbage}
           [] Packets[h.pkt].type = "SS_ID" -> {Garbage}
           [] OTHER -> {"SS_ID"}

PathOf(b) == IF b[1].part = 1 THEN Packets[b[1].pkt].path ELSE Garbage

SizeOf(b) == IF b[2] # None /\ b[2].part = 2 THEN Packets[b[2].pkt].size
                                             ELSE Garbage

\* The directories create_directory_recursive makes for path p: each
\* prefix of it, p included.  A garbage path makes garbage directories.
DirsMade(p) ==
    IF p = Garbage THEN {Garbage} ELSE {SubSeq(p, 1, k) : k \in 1 .. Len(p)}

Grow(x, n) == IF x = Garbage \/ n = Garbage THEN Garbage ELSE x + n

-----------------------------------------------------------------------------
Init ==
    /\ sent = 0 /\ ss = "sending"
    /\ rpos = 0 /\ buf = <<None, None>>
    /\ rpc = "loop" /\ gotId = FALSE /\ fp = None
    /\ dirs = {} /\ files = <<>>

(* One send(backup_sock, &packet, sizeof(packet), 0) of the next packet.  *)
(* Once handle_client has returned, the backup server closes the socket:  *)
(* the bytes are discarded, and a later send raises SIGPIPE, which the    *)
(* storage server does not ignore, so it dies before connect_to_ns.       *)
SendPacket ==
    /\ ss = "sending" /\ sent < Len(Packets)
    /\ sent' = sent + 1
    /\ ss' \in IF rpc = "done" THEN {"sending", "killed"} ELSE {"sending"}
    /\ UNCHANGED <<rpos, buf, rpc, gotId, fp, dirs, files>>

(* close(backup_sock) after PACKET_TRANSFER_DONE.                         *)
CloseSocket ==
    /\ ss = "sending" /\ sent = Len(Packets)
    /\ ss' = "closed"
    /\ UNCHANGED <<sent, rpos, buf, rpc, gotId, fp, dirs, files>>

(* The switch of handle_client on the struct b it just read.  DIR_CREATE  *)
(* makes the directory and its parents (packet.mode only sets their      *)
(* permissions, which are not modelled).  FILE_START first makes the     *)
(* parent directories, so fopen of a real path works; a garbage path may *)
(* not, and a failed fopen leaves fp NULL and creates no file.           *)
Handle(b) ==
    \E t \in TypesOf(b) :
      LET p == PathOf(b) IN
      CASE t = "SS_ID" /\ ~gotId ->
             /\ gotId' = TRUE
             /\ UNCHANGED <<rpc, fp, dirs, files>>
        [] ~gotId ->
             /\ rpc' = "done"
             /\ UNCHANGED <<gotId, fp, dirs, files>>
        [] t = "DIR_CREATE" ->
             /\ dirs' = dirs \cup DirsMade(p)
             /\ UNCHANGED <<rpc, gotId, fp, files>>
        [] t = "FILE_START" ->
             /\ dirs' = dirs \cup (IF p = Garbage THEN {Garbage}
                                  ELSE DirsMade(Front(p)))
             /\ fp' \in IF p = Garbage THEN {Garbage, None} ELSE {p}
             /\ files' = IF fp' = None THEN files ELSE (p :> 0) @@ files
             /\ UNCHANGED <<rpc, gotId>>
        [] t = "FILE_DATA" /\ fp # None ->
             /\ files' = [files EXCEPT ![fp] = Grow(@, SizeOf(b))]
             /\ UNCHANGED <<rpc, gotId, fp, dirs>>
        [] t = "FILE_END" ->
             /\ fp' = None
             /\ UNCHANGED <<rpc, gotId, dirs, files>>
        [] t = "TRANSFER_DONE" ->
             /\ rpc' = "done"
             /\ UNCHANGED <<gotId, fp, dirs, files>>
        [] OTHER -> UNCHANGED <<rpc, gotId, fp, dirs, files>>

(* recv(client_fd, &packet, sizeof(packet), 0) returning n > 0 segments   *)
(* of what has arrived, written over the front of the struct, then the    *)
(* loop body on the struct.                                               *)
Receive ==
    /\ rpc = "loop"
    /\ \E n \in 1 .. 2 :
         /\ rpos + n <= 2 * sent
         /\ LET b == [i \in 1 .. 2 |-> IF i <= n THEN Seg(rpos + i) ELSE buf[i]]
            IN /\ buf' = b
               /\ Handle(b)
         /\ rpos' = rpos + n
    /\ UNCHANGED <<sent, ss>>

(* recv returns 0 once the sender's socket is closed (by close or by its  *)
(* death) and everything sent has been read: break, fclose.              *)
ReceiveEof ==
    /\ rpc = "loop"
    /\ ss # "sending" /\ rpos = 2 * sent
    /\ rpc' = "done"
    /\ UNCHANGED <<sent, ss, rpos, buf, gotId, fp, dirs, files>>

Next == SendPacket \/ CloseSocket \/ Receive \/ ReceiveEof

Spec == Init /\ [][Next]_vars

-----------------------------------------------------------------------------
SourceDirs == {<<Root>>} \cup {<<Root, s>> : s \in SubDirs}

SourceFiles ==
    {<<Root, f>> : f \in FilesOf[Root]}
      \cup UNION {{<<Root, d, f>> : f \in FilesOf[d]} : d \in SubDirs}
      \cup {<<f>> : f \in TopFiles}

SourceSize(p) == Size[Last(p)]

(* When handle_client returns, the backup holds every directory and every  *)
(* regular file send_backup_to_server sent, each with the source's number  *)
(* of bytes: the packet boundaries the receiver assumes match the ones the *)
(* sender used, whatever sizes the stream delivers them in.               *)
BackupFaithful ==
    rpc = "done" =>
        /\ SourceDirs \subseteq dirs
        /\ \A p \in SourceFiles : p \in DOMAIN files /\ files[p] = SourceSize(p)
=============================================================================
