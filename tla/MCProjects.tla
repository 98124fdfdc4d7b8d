----------------------------- MODULE MCProjects -----------------------------
(* Projects for TLC: two requests at a time, two projects, two names, three
   keys, so that one project is rotated or both are created and one is rotated. *)
EXTENDS Projects, TLC

Symmetry == Permutations(Requests) \cup Permutations(Ids)
              \cup Permutations(Names) \cup Permutations(Keys)
=============================================================================
