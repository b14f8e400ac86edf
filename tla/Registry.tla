------------------------------ MODULE Registry ------------------------------
(***************************************************************************)
(* What both concurrent servers of project 2 promise about who is online:  *)
(* a new user gets the smallest number not in use and no name, a user may  *)
(* take any name no other user has, and leaves with number and name free   *)
(* again.  np_single_proc and np_multi_proc are compared with it.          *)
(***************************************************************************)
EXTENDS Naturals

CONSTANTS
  Id,      \* user numbers, 1 to 30, a set of naturals
  Name,    \* names a user may type, NoName not among them
  NoName   \* "(no name)"

VARIABLE user  \* number of each online user -> name

Init == user = [n \in {} |-> NoName]

Smallest(n) == n \in Id \ DOMAIN user /\ \A m \in Id \ DOMAIN user : n <= m

Login(n) == /\ Smallest(n)
            /\ user' = [m \in DOMAIN user \cup {n} |-> IF m = n THEN NoName ELSE user[m]]

Rename(n, nm) == /\ n \in DOMAIN user
                 /\ \A m \in DOMAIN user : user[m] # nm
                 /\ user' = [user EXCEPT ![n] = nm]

Logout(n) == /\ n \in DOMAIN user
             /\ user' = [m \in DOMAIN user \ {n} |-> user[m]]

Next == \E n \in Id : Login(n) \/ Logout(n) \/ \E nm \in Name : Rename(n, nm)

Spec == Init /\ [][Next]_user
=============================================================================
