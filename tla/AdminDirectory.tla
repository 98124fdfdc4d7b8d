--------------------------- MODULE AdminDirectory ---------------------------
(* What the admin panel promises about its accounts, one atomic operation at a
   time: the first account comes from a one-time setup
   (usecase/register_admin_user.go), every further one from someone who has one
   (usecase/add_admin_user.go), and the last one is never deleted
   (usecase/delete_admin_user.go).  AdminAccounts is the code. *)
CONSTANTS Names       \* the usernames

VARIABLE accounts     \* the usernames that have an account

Init == accounts = {}

Setup(n) == /\ accounts = {}
            /\ accounts' = {n}

Add(n) == /\ accounts # {}
          /\ n \notin accounts
          /\ accounts' = accounts \cup {n}

Remove(n) == /\ n \in accounts
             /\ accounts \ {n} # {}
             /\ accounts' = accounts \ {n}

Next == \E n \in Names : Setup(n) \/ Add(n) \/ Remove(n)

Spec == Init /\ [][Next]_accounts
=============================================================================
