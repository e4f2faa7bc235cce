------------------------------- MODULE PathBag -------------------------------
(***************************************************************************)
(* What a storage server's path index promises the naming server (spec   *)
(* section 4.1): a multiset of paths with insert, delete and search.  An  *)
(* insert may be refused (the table is fixed-size), and a refused insert  *)
(* changes nothing.  call records the last operation and its result, so   *)
(* an implementation cannot answer a search for one path with the state   *)
(* of another.                                                            *)
(***************************************************************************)
EXTENDS Naturals, Bags

CONSTANTS Paths

VARIABLES paths,  \* the bag of paths held
          call    \* <<operation, path, result>> of the last call

Init == paths = EmptyBag /\ call = <<"init">>

One(p) == SetToBag({p})

Insert(p) == paths' = paths (+) One(p) /\ call' = <<"insert", p, TRUE>>

Refuse(p) == UNCHANGED paths /\ call' = <<"insert", p, FALSE>>

Delete(p) ==
    \/ BagIn(p, paths) /\ paths' = paths (-) One(p) /\ call' = <<"delete", p, TRUE>>
    \/ ~BagIn(p, paths) /\ UNCHANGED paths /\ call' = <<"delete", p, FALSE>>

Search(p) == UNCHANGED paths /\ call' = <<"search", p, BagIn(p, paths)>>

Next == \E p \in Paths : Insert(p) \/ Refuse(p) \/ Delete(p) \/ Search(p)

Spec == Init /\ [][Next]_<<paths, call>>
=============================================================================
