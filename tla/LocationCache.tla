---------------------------- MODULE LocationCache ----------------------------
(***************************************************************************)
(* The naming server's LRU location cache (src/naming_server.c, the copy  *)
(* of cache.c it is built with): a hash array of CACHE_SIZE node          *)
(* pointers indexed by cache_hash(path), and a doubly linked recency list *)
(* (head = most recently used).  The array holds at most one node per     *)
(* slot and a node is only ever stored at the slot of its own path, so a  *)
(* node is identified with its slot: prev, next, head and tail are slots. *)
(* A node's fields are the path it was created for and the storage        *)
(* server address (ss_ip, ss_port), modelled as a server.                 *)
(***************************************************************************)
EXTENDS Naturals, Sequences, SequencesExt

CONSTANTS Paths,       \* file and directory paths (model values)
          Servers,     \* storage server client-facing addresses
          CACHE_SIZE,  \* slots of the hash array, also the capacity
          CacheHash,   \* cache_hash: Paths -> 0 .. CACHE_SIZE - 1
          Null

CacheSlots == 0 .. (CACHE_SIZE - 1)

ASSUME /\ CACHE_SIZE \in Nat \ {0}
       /\ CacheHash \in [Paths -> CacheSlots]
       /\ Null \notin CacheSlots

\* A cache built with one node fewer than slots (PROJECT.json "mutants").
capacityBelowSlots == CACHE_SIZE - 1

\* start_naming_server calls init_lru_cache(CACHE_SIZE).
capacity == CACHE_SIZE

Node == [path : Paths, ss : Servers]

VARIABLES hash,        \* hash[k]: the node in slot k, or Null
          prev, next,  \* the list links of the node in each slot
          head, tail,  \* most and least recently used node
          size,
          call         \* the last cache_put/cache_get and its result

cacheVars == <<hash, prev, next, head, tail, size, call>>

TypeOK ==
    /\ hash \in [CacheSlots -> Node \cup {Null}]
    /\ prev \in [CacheSlots -> CacheSlots \cup {Null}]
    /\ next \in [CacheSlots -> CacheSlots \cup {Null}]
    /\ head \in CacheSlots \cup {Null} /\ tail \in CacheSlots \cup {Null}
    /\ size \in 0 .. capacity
    /\ call \in {<<"init">>} \cup ({"put", "get"} \X Paths \X (Servers \cup {Null}))

\* A get hit: the slot of p holds the node created for p.
Cached(p) == hash[CacheHash[p]] # Null /\ hash[CacheHash[p]].path = p

CachedServer(p) == hash[CacheHash[p]].ss

-----------------------------------------------------------------------------
(* Variants of the code with a plausible bug (PROJECT.json "mutants").     *)

MoveToFrontNoBackLink(k) ==
    IF k = head THEN UNCHANGED <<prev, next, head, tail>>
    ELSE LET p == prev[k]
             n == next[k]
             next1 == IF p # Null THEN [next EXCEPT ![p] = n] ELSE next
             tail1 == IF k = tail THEN p ELSE tail
             prev2 == [prev EXCEPT ![k] = Null]
         IN /\ next' = [next1 EXCEPT ![k] = head]
            /\ prev' = IF head # Null THEN [prev2 EXCEPT ![head] = k] ELSE prev2
            /\ head' = k
            /\ tail' = IF tail1 = Null THEN k ELSE tail1

CacheInitSizeUnset ==
    /\ hash = [k \in CacheSlots |-> Null]
    /\ prev = [k \in CacheSlots |-> Null]
    /\ next = [k \in CacheSlots |-> Null]
    /\ head = Null /\ tail = Null
    /\ size \in 0 .. (CACHE_SIZE + 1)
    /\ call = <<"init">>

PutExistingNoMove(p, s) ==
    /\ hash[CacheHash[p]] # Null
    /\ hash' = [hash EXCEPT ![CacheHash[p]].ss = s]
    /\ UNCHANGED <<prev, next, head, tail, size>>
    /\ call' = <<"put", p, s>>

-----------------------------------------------------------------------------
(* init_lru_cache: empty list, every slot NULL.                            *)
CacheInit ==
    /\ hash = [k \in CacheSlots |-> Null]
    /\ prev = [k \in CacheSlots |-> Null]
    /\ next = [k \in CacheSlots |-> Null]
    /\ head = Null /\ tail = Null
    /\ size = 0
    /\ call = <<"init">>

(* move_to_front: unlink the node, then link it in before head; the eight  *)
(* assignments of the C function in their order.                           *)
MoveToFront(k) ==
    IF k = head THEN UNCHANGED <<prev, next, head, tail>>
    ELSE LET p == prev[k]
             n == next[k]
             next1 == IF p # Null THEN [next EXCEPT ![p] = n] ELSE next
             prev1 == IF n # Null THEN [prev EXCEPT ![n] = p] ELSE prev
             tail1 == IF k = tail THEN p ELSE tail
             prev2 == [prev1 EXCEPT ![k] = Null]
         IN /\ next' = [next1 EXCEPT ![k] = head]
            /\ prev' = IF head # Null THEN [prev2 EXCEPT ![head] = k] ELSE prev2
            /\ head' = k
            /\ tail' = IF tail1 = Null THEN k ELSE tail1

(* cache_put when hash[cache_hash(path)] is non-NULL: the address of the   *)
(* node found there is overwritten and the node moved to the front.  The   *)
(* node's own path is NOT compared with the path being put.               *)
PutExisting(p, s) ==
    /\ hash[CacheHash[p]] # Null
    /\ hash' = [hash EXCEPT ![CacheHash[p]].ss = s]
    /\ MoveToFront(CacheHash[p])
    /\ UNCHANGED size
    /\ call' = <<"put", p, s>>

(* cache_put when the slot is NULL: create_node, evict the tail when       *)
(* size >= capacity (clearing the tail's own slot and unlinking it), then  *)
(* link the new node in at the head and store it in the slot.             *)
PutNew(p, s) ==
    LET k == CacheHash[p]
        evict == size >= capacity
        lru == tail
        hash1 == IF evict THEN [hash EXCEPT ![CacheHash[hash[lru].path]] = Null]
                          ELSE hash
        tail1 == IF evict THEN prev[lru] ELSE tail
        next1 == IF evict /\ tail1 # Null THEN [next EXCEPT ![tail1] = Null]
                                          ELSE next
        prev1 == [prev EXCEPT ![k] = Null]
    IN /\ hash[k] = Null
       /\ next' = [next1 EXCEPT ![k] = head]
       /\ prev' = IF head # Null THEN [prev1 EXCEPT ![head] = k] ELSE prev1
       /\ head' = k
       /\ tail' = IF tail1 = Null THEN k ELSE tail1
       /\ hash' = [hash1 EXCEPT ![k] = [path |-> p, ss |-> s]]
       /\ size' = (IF evict THEN size - 1 ELSE size) + 1
       /\ call' = <<"put", p, s>>

CachePut(p, s) == PutExisting(p, s) \/ PutNew(p, s)

(* cache_get: a hit only if the node in the slot was created for this      *)
(* path; a hit copies out the address and moves the node to the front.    *)
(* A miss returns false and changes nothing.                              *)
CacheGetHit(p) ==
    /\ Cached(p)
    /\ MoveToFront(CacheHash[p])
    /\ UNCHANGED <<hash, size>>
    /\ call' = <<"get", p, CachedServer(p)>>

CacheGetMiss(p) ==
    /\ ~Cached(p)
    /\ UNCHANGED <<hash, prev, next, head, tail, size>>
    /\ call' = <<"get", p, Null>>

CacheNext ==
    \E p \in Paths :
        \/ CacheGetHit(p)
        \/ CacheGetMiss(p)
        \/ \E s \in Servers : CachePut(p, s)

CacheSpec == CacheInit /\ [][CacheNext]_cacheVars

-----------------------------------------------------------------------------
RECURSIVE ListFrom(_, _)
\* The nodes reached from x along next, following at most fuel links.
ListFrom(x, fuel) ==
    IF x = Null \/ fuel = 0 THEN <<>> ELSE Cons(x, ListFrom(next[x], fuel - 1))

\* The recency list as move_to_front and cache_put leave it, head first.
Recency == ListFrom(head, CACHE_SIZE + 1)

(* The hash array and the recency list, which cache_put, cache_get and     *)
(* move_to_front update together under the cache lock, describe the same   *)
(* set of nodes: walking next from head visits every occupied slot exactly *)
(* once and ends at tail, every prev link mirrors a next link, size counts *)
(* the nodes, and each node sits in the slot of its own path.             *)
LruListConsistent ==
    /\ Len(Recency) = size
    /\ ToSet(Recency) = {k \in CacheSlots : hash[k] # Null}
    /\ tail = IF Recency = <<>> THEN Null ELSE Last(Recency)
    /\ tail # Null => next[tail] = Null
    /\ \A i \in 1 .. Len(Recency) :
          prev[Recency[i]] = IF i = 1 THEN Null ELSE Recency[i - 1]
    /\ \A k \in CacheSlots : hash[k] # Null => CacheHash[hash[k].path] = k

AbsLru == INSTANCE LruCache
            WITH Keys <- Paths, Values <- Servers, Capacity <- capacity,
                 None <- Null,
                 val <- [p \in Paths |-> IF Cached(p) THEN CachedServer(p)
                                                       ELSE Null],
                 recency <- [i \in 1 .. Len(Recency) |-> hash[Recency[i]].path],
                 call <- call

(* The cache behaves as an LRU map (spec sections 4.2 and 8): a put of    *)
(* path p is a put of p (it never changes what another path maps to), a   *)
(* get of p returns the address last put for p or misses, and put, get    *)
(* and eviction keep the most-to-least-recently-used order.               *)
LocationCacheIsLru == AbsLru!Spec

(* cache_put never evicts: a slot that holds a node keeps one.  The cache  *)
(* has one node per slot and capacity = CACHE_SIZE slots, so size reaches *)
(* capacity only when every slot is occupied, and then the slot of any new *)
(* path is too: cache_put takes the overwrite branch and the LRU eviction *)
(* branch is dead code (spec section 7, "LRU eviction", cannot happen).   *)
CacheNeverEvicts ==
    [][\A k \in CacheSlots : hash[k] # Null => hash'[k] # Null]_cacheVars
=============================================================================
