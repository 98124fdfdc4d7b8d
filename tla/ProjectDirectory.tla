-------------------------- MODULE ProjectDirectory --------------------------
(* What the project operations of the admin panel promise, one atomic step at
   a time: a project is created with a name and a key of its own, renaming
   leaves the key alone, rotating puts a key in force that never was in force
   before and leaves the name alone, and a deleted project is gone for good.
   Projects is the code. *)
CONSTANTS Ids, Names, Keys, None

VARIABLES rows,   \* rows[p]: name and key of project p, None if there is none
          used    \* the project ids and keys that were ever in force

Init == rows = [p \in Ids |-> None] /\ used = {}

Create(p, n, k) == /\ p \notin used /\ k \notin used
                   /\ rows' = [rows EXCEPT ![p] = [name |-> n, key |-> k]]
                   /\ used' = used \cup {p, k}

Rename(p, n) == /\ rows[p] # None
                /\ rows' = [rows EXCEPT ![p].name = n]
                /\ UNCHANGED used

Rotate(p, k) == /\ rows[p] # None /\ k \notin used
                /\ rows' = [rows EXCEPT ![p].key = k]
                /\ used' = used \cup {k}

Delete(p) == /\ rows[p] # None
             /\ rows' = [rows EXCEPT ![p] = None]
             /\ UNCHANGED used

Next == \E p \in Ids : \/ \E n \in Names, k \in Keys : Create(p, n, k)
                       \/ \E n \in Names : Rename(p, n)
                       \/ \E k \in Keys : Rotate(p, k)
                       \/ Delete(p)

Spec == Init /\ [][Next]_<<rows, used>>
=============================================================================
