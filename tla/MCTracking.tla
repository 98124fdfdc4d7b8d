----------------------------- MODULE MCTracking -----------------------------
(* Tracking for TLC: tabs, pages, ids and the values of a metadata key are
   interchangeable; "absent" and "null" are not values. *)
EXTENDS Tracking, TLC

Symmetry == Permutations(Tabs) \cup Permutations(Visitors) \cup Permutations(Paths)
              \cup Permutations(Metas \ {"absent", "null"})
=============================================================================
