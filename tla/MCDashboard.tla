---------------------------- MODULE MCDashboard ----------------------------
(* Dashboard for TLC: one dashboard request and one request of Projects at a
   time, one browser, two projects, one visitor. *)
EXTENDS Dashboard, TLC

Symmetry == Permutations(Ids) \cup Permutations(Keys)

\* All but the history of Projects that nothing here reads, and the visitors' rows,
\* of which only the names are read here.
View == <<projects, events, serial, req, issued, retired, by, named, jar, admins, page, panels>>
=============================================================================
