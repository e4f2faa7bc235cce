------------------------------- MODULE LruCache -------------------------------
(***************************************************************************)
(* What the location cache promises (spec section 4.2): a map from paths  *)
(* to the last address put for that path, with at most Capacity entries,  *)
(* ordered most- to least-recently used.  put of a cached path updates it *)
(* and makes it most recent; put of a new path evicts the least recently  *)
(* used entry when full; a get hit returns the entry and makes it most    *)
(* recent, a get miss changes nothing.  `call' is the interface: the last *)
(* operation, its arguments and, for a get, what it returned.             *)
(***************************************************************************)
EXTENDS Naturals, Sequences, SequencesExt

CONSTANTS Keys, Values, Capacity, None

VARIABLES val, recency, call

Init == /\ val = [k \in Keys |-> None]
        /\ recency = <<>>
        /\ call = <<"init">>

Touch(k) == Cons(k, Remove(recency, k))

Put(k, v) ==
    /\ IF val[k] # None
       THEN /\ val' = [val EXCEPT ![k] = v]
            /\ recency' = Touch(k)
       ELSE IF Len(recency) < Capacity
            THEN /\ val' = [val EXCEPT ![k] = v]
                 /\ recency' = Cons(k, recency)
            ELSE /\ val' = [val EXCEPT ![Last(recency)] = None, ![k] = v]
                 /\ recency' = Cons(k, Front(recency))
    /\ call' = <<"put", k, v>>

Get(k) == /\ IF val[k] # None THEN recency' = Touch(k)
                              ELSE UNCHANGED recency
          /\ UNCHANGED val
          /\ call' = <<"get", k, val[k]>>

Next == \E k \in Keys : Get(k) \/ \E v \in Values : Put(k, v)

Spec == Init /\ [][Next]_<<val, recency, call>>
=============================================================================
