------------------------------ MODULE PathIndex ------------------------------
(***************************************************************************)
(* A storage server's path index (src/naming_server.c: hash, insert_path, *)
(* delete_path, search_path): an open-addressed table of TABLE_SIZE       *)
(* HashEntry slots with quadratic probing and tombstones.  The table is   *)
(* part of the global storage_servers[] array, so every slot starts       *)
(* zeroed: not occupied, not deleted.  A path is a model value; strcmp of *)
(* two paths is equality and hash() is the constant function Hash.        *)
(***************************************************************************)
EXTENDS Naturals, FiniteSets

CONSTANTS Paths,       \* paths (model values)
          TABLE_SIZE,  \* slots of the table (101 in naming_server.h)
          Hash,        \* hash(): Paths -> 0 .. TABLE_SIZE - 1
          NoPath       \* the path field of a slot never written

Slots == 0 .. (TABLE_SIZE - 1)

ASSUME /\ TABLE_SIZE \in Nat \ {0}
       /\ Hash \in [Paths -> Slots]
       /\ NoPath \notin Paths

Entry == [path : Paths \cup {NoPath}, is_occupied : BOOLEAN, is_deleted : BOOLEAN]

VARIABLES table,      \* accessible_paths[]
          num_paths,
          call        \* <<operation, path, result>> of the last call

vars == <<table, num_paths, call>>

TypeOK ==
    /\ table \in [Slots -> Entry]
    /\ num_paths \in Nat
    /\ call \in {<<"init">>} \cup ({"insert", "delete", "search"} \X Paths \X BOOLEAN)

RECURSIVE Probe(_, _)
(* The slot examined after k moves of the loop shared by the three         *)
(* functions: index = (index + i * i) % TABLE_SIZE; i++, starting at       *)
(* hash(path) with i = 1.  Each loop stops once i > TABLE_SIZE, so it      *)
(* examines Probe(h, 0) .. Probe(h, TABLE_SIZE - 1).                       *)
Probe(h, k) == IF k = 0 THEN h ELSE (Probe(h, k - 1) + k * k) % TABLE_SIZE

Moves == 0 .. (TABLE_SIZE - 1)

Live(x) == table[x].is_occupied /\ ~table[x].is_deleted

\* The first k whose slot is in xs, or TABLE_SIZE when there is none.
FirstMove(p, xs) ==
    LET ks == {k \in Moves : Probe(Hash[p], k) \in xs}
    IN IF ks = {} THEN TABLE_SIZE ELSE CHOOSE k \in ks : \A j \in ks : k <= j

(* Where delete_path and search_path stop: an unoccupied slot (the while  *)
(* condition) or a live slot holding p (the strcmp match).                *)
ScanEnd(p) == FirstMove(p, {x \in Slots : ~table[x].is_occupied
                                          \/ (Live(x) /\ table[x].path = p)})

Found(p) == LET k == ScanEnd(p)
            IN k < TABLE_SIZE /\ Live(Probe(Hash[p], k))

-----------------------------------------------------------------------------
(* Variants of the code with a plausible bug (PROJECT.json "mutants").     *)

DeletePathAlwaysCounts(p) ==
    \/ /\ Found(p)
       /\ table' = [table EXCEPT ![Probe(Hash[p], ScanEnd(p))].is_deleted = TRUE]
       /\ num_paths' = num_paths - 1
       /\ call' = <<"delete", p, TRUE>>
    \/ /\ ~Found(p)
       /\ UNCHANGED table
       /\ num_paths' = num_paths - 1
       /\ call' = <<"delete", p, FALSE>>

DeletePathClears(p) ==
    /\ \/ /\ Found(p)
          /\ table' = [table EXCEPT ![Probe(Hash[p], ScanEnd(p))].is_occupied = FALSE]
          /\ num_paths' = num_paths - 1
          /\ call' = <<"delete", p, TRUE>>
       \/ /\ ~Found(p)
          /\ UNCHANGED <<table, num_paths>>
          /\ call' = <<"delete", p, FALSE>>

-----------------------------------------------------------------------------
Init ==
    /\ table = [x \in Slots |-> [path |-> NoPath, is_occupied |-> FALSE,
                                 is_deleted |-> FALSE]]
    /\ num_paths = 0
    /\ call = <<"init">>

(* insert_path: probe past live slots; the first empty or tombstoned slot  *)
(* gets the path.  No check that the path is already present.  After      *)
(* TABLE_SIZE probes the server is returned unmodified: a silent failure. *)
InsertPath(p) ==
    LET k == FirstMove(p, {x \in Slots : ~Live(x)})
    IN \/ /\ k < TABLE_SIZE
          /\ table' = [table EXCEPT ![Probe(Hash[p], k)] =
                          [path |-> p, is_occupied |-> TRUE, is_deleted |-> FALSE]]
          /\ num_paths' = num_paths + 1
          /\ call' = <<"insert", p, TRUE>>
       \/ /\ k = TABLE_SIZE
          /\ UNCHANGED <<table, num_paths>>
          /\ call' = <<"insert", p, FALSE>>

(* delete_path: scan as search_path does; the first live match becomes a   *)
(* tombstone (is_occupied stays set so later scans go on past it).        *)
DeletePath(p) ==
    \/ /\ Found(p)
       /\ table' = [table EXCEPT ![Probe(Hash[p], ScanEnd(p))].is_deleted = TRUE]
       /\ num_paths' = num_paths - 1
       /\ call' = <<"delete", p, TRUE>>
    \/ /\ ~Found(p)
       /\ UNCHANGED <<table, num_paths>>
       /\ call' = <<"delete", p, FALSE>>

(* search_path: 1 iff the scan stops at a live slot holding p.  It reads a *)
(* copy of the server and changes nothing.                                 *)
SearchPath(p) ==
    /\ UNCHANGED <<table, num_paths>>
    /\ call' = <<"search", p, Found(p)>>

Next == \E p \in Paths : InsertPath(p) \/ DeletePath(p) \/ SearchPath(p)

Spec == Init /\ [][Next]_vars

-----------------------------------------------------------------------------
\* How many live slots hold p.
Copies(p) == Cardinality({x \in Slots : Live(x) /\ table[x].path = p})

AbsBag == INSTANCE PathBag
            WITH paths <- [p \in {q \in Paths : Copies(q) > 0} |-> Copies(p)],
                 call <- call

(* The probing table behaves as a multiset of paths (spec section 4.1):    *)
(* a search finds a path iff it was inserted more often than deleted,     *)
(* however collisions, wrap-around, repeated probe slots and tombstones   *)
(* lie on its probe sequence; a delete removes one copy.  Duplicates are  *)
(* possible because insert_path does not look for the path first.        *)
PathIndexIsBag == AbsBag!Spec

(* Spec section 4.1: an insert fails only when the table is full.  The    *)
(* loop of insert_path gives up after TABLE_SIZE probes, but the probe    *)
(* sequence repeats slots (with TABLE_SIZE = 101 it reaches 67 distinct   *)
(* slots), so an insert can be refused while slots are free.              *)
InsertRefusedOnlyWhenFull ==
    \A p \in Paths : call = <<"insert", p, FALSE>> => \A x \in Slots : Live(x)
=============================================================================
