---------------------------- MODULE UserDirectory ----------------------------
(***************************************************************************)
(* What the account operations promise about DEMO.USER, each as one step   *)
(* on the table: rows are created with a role other than ADMIN, change     *)
(* role, or are retired under a new name; ADMIN rows never change; rows    *)
(* never go; names stay unique and passwords stay put.                     *)
(***************************************************************************)
EXTENDS Sequences

CONSTANTS UserIds, RoleTable, AdminRole, DeletedRole, InitUsers, None

VARIABLE users

Distinct ==
    \A u, v \in UserIds :
        u # v /\ users[u] # None /\ users[v] # None =>
            users[u].username # users[v].username /\ users[u].email # users[v].email

OnlyAt(u) ==
    /\ DOMAIN users' = DOMAIN users
    /\ \A v \in UserIds \ {u} : users'[v] = users[v]

Assignable(role) == role \in RoleTable /\ role # AdminRole

Create(u) ==
    /\ users[u] = None
    /\ users'[u] # None
    /\ Assignable(users'[u].role)

SetRole(u) ==
    /\ users[u] # None /\ users[u].role # AdminRole
    /\ users'[u] = [users[u] EXCEPT !.role = users'[u].role]
    /\ Assignable(users'[u].role)

(* The names change and still begin as they did. *)
Retire(u) ==
    /\ users[u] # None /\ users[u].role # AdminRole
    /\ users'[u] = [users[u] EXCEPT !.username = users'[u].username,
                                    !.email = users'[u].email,
                                    !.role = DeletedRole]
    /\ Head(users'[u].username) = Head(users[u].username)
    /\ Head(users'[u].email) = Head(users[u].email)
    /\ DeletedRole \in RoleTable

Init == users = InitUsers

Next == \E u \in UserIds : /\ OnlyAt(u)
                           /\ Create(u) \/ SetRole(u) \/ Retire(u)
                           /\ Distinct'

Spec == Init /\ [][Next]_users
=============================================================================
