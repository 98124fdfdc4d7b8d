-------------------------- MODULE MCAdminAccounts --------------------------
(* AdminAccounts for TLC: two requests at a time, one or two browsers, three accounts
   ever created, two usernames. *)
EXTENDS AdminAccounts, TLC

Symmetry == Permutations(Requests) \cup Permutations(Clients)
              \cup Permutations(Ids) \cup Permutations(Names)
=============================================================================
