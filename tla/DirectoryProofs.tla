--------------------------- MODULE DirectoryProofs ---------------------------
(***************************************************************************)
(* AuthService implements UserDirectory: whatever the statements of the    *)
(* handlers interleave, each step of the whole is one directory step on    *)
(* DEMO.USER or leaves it alone.                                           *)
(***************************************************************************)
EXTENDS AuthServiceProofs

(* A row written by an INSERT, a change of role, or a soft delete. *)
LEMMA WriteIsDirectoryStep ==
    ASSUME IInv, IInv', NEW u \in UserIds, NEW row \in Row, Admissible(u, row),
           users' = [users EXCEPT ![u] = row], ~IsAdmin(u), row.role.base # "ADMIN",
           \/ ~Exists(u)
           \/ Exists(u) /\ row = [users[u] EXCEPT !.role = row.role]
           \/ /\ Exists(u) /\ row.role = DeletedRole
              /\ row = [users[u] EXCEPT !.username = row.username, !.email = row.email,
                                        !.role = DeletedRole]
              /\ Head(row.username) = Head(users[u].username)
              /\ Head(row.email) = Head(users[u].email)
    PROVE  Directory!Next
<1>1. users \in [UserIds -> Row \cup {None}] /\ row # None
  BY ConstantsAssumption DEF IInv, TypeOK
<1>2. users'[u] = row /\ Directory!OnlyAt(u)
  BY <1>1 DEF Directory!OnlyAt
<1>3. Directory!Distinct'
  BY DEF IInv, TablesOK, UniqueIdentities, Exists, Clash, Directory!Distinct
<1>4. row.role # AdminRole /\ row.role \in RoleTable
  <2>1. AdminRole.base = "ADMIN"
    BY DEF AdminRole, Role
  <2> QED
    BY <2>1 DEF Admissible
<1>5. Directory!Assignable(row.role)
  BY <1>4 DEF Directory!Assignable
<1>6. Exists(u) => users[u] # None /\ users[u].role # AdminRole
  BY DEF Exists, IsAdmin
<1>7. CASE ~Exists(u)
  <2>1. Directory!Create(u)
    BY <1>1, <1>2, <1>5, <1>7 DEF Directory!Create, Exists
  <2> QED
    BY <1>2, <1>3, <2>1 DEF Directory!Next
<1>8. CASE Exists(u) /\ row = [users[u] EXCEPT !.role = row.role]
  <2>1. Directory!SetRole(u)
    BY <1>2, <1>5, <1>6, <1>8 DEF Directory!SetRole
  <2> QED
    BY <1>2, <1>3, <2>1 DEF Directory!Next
<1>9. CASE /\ Exists(u) /\ row.role = DeletedRole
           /\ row = [users[u] EXCEPT !.username = row.username, !.email = row.email,
                                     !.role = DeletedRole]
           /\ Head(row.username) = Head(users[u].username)
           /\ Head(row.email) = Head(users[u].email)
  <2>1. Directory!Retire(u)
    BY <1>2, <1>4, <1>6, <1>9 DEF Directory!Retire
  <2> QED
    BY <1>2, <1>3, <2>1 DEF Directory!Next
<1> QED
  BY <1>7, <1>8, <1>9

(* The steps that do not write DEMO.USER. *)
LEMMA ReadersKeepUsers ==
    ASSUME NEW w \in Workers, Receive(w) \/ Serve(w),
           ~InsertUser(w), ~StatusUpdate(w), ~RoleUpdate(w), ~DeleteUpdate(w)
    PROVE  UNCHANGED users
<1> USE DEF storeVars
<1>1. CASE Receive(w)
  <2>1. \A r : Accept(w, r) => UNCHANGED users
    BY DEF Accept
  <2> HIDE DEF storeVars
  <2> QED
    BY <1>1, <2>1 DEF Receive, RegisterCall, LoginCall, RefreshCall, MeCall, CreateCall, ListCall,
                      StatusCall, RoleCall, DeleteCall, BadBody
<1>2. CASE AccountStep(w)
  BY <1>2 DEF AccountStep, RoleCount, UserCount, StatusFind, RoleFind, DeleteFind, FindTarget,
              StatusReload, RoleReload, Reload, PurgeTokens, ListCount, ListPage
<1>3. CASE SessionStep(w)
  BY <1>3 DEF SessionStep, Authenticate, LoginFind, Mint, RefreshFind, DropExpired,
              RefreshLoad, Rotate
<1>4. CASE Finish(w)
  BY <1>4 DEF Finish, Release
<1> QED
  BY <1>1, <1>2, <1>3, <1>4 DEF Serve

(* What an admin update may write on: a row that is there and no ADMIN. *)
LEMMA TargetReady ==
    ASSUME IInv, NEW w \in Workers, pc[w] \in {"statusUpdate", "roleUpdate", "deleteUpdate"}
    PROVE  req[w].target \in UserIds /\ Exists(req[w].target) /\ ~IsAdmin(req[w].target)
BY DEF IInv, StepOK, AdminStepOK

(* UpdateUserStatus is a change of role;                                    *)
LEMMA StatusUpdateDirectory ==
    ASSUME IInv, IInv', NEW w \in Workers, StatusUpdate(w)
    PROVE  Directory!Next \/ UNCHANGED users
<1> DEFINE u == req[w].target
           role == StatusRole(seen[w].role, req[w].active)
           row == [users[u] EXCEPT !.role = role]
<1>1. pc[w] = "statusUpdate" /\ UpdateRow(w, u, row, "statusReload")
  BY DEF StatusUpdate
<1>2. u \in UserIds /\ Exists(u) /\ ~IsAdmin(u) /\ users[u] \in Row
  BY <1>1, TargetReady, UpdateReady
<1>3. role \in RoleRec /\ role.base # "ADMIN"
  <2>1. /\ seen[w].role \in RoleRec /\ seen[w].role.base # "ADMIN"
        /\ req[w].active \in BOOLEAN
    BY <1>1, UpdateReady DEF Copy, IInv, TypeOK, Request
  <2> QED
    BY <2>1 DEF StatusRole, RoleRec
<1> HIDE DEF role
<1>4. row \in Row /\ row.role = role /\ row = [users[u] EXCEPT !.role = row.role]
  BY <1>2, <1>3 DEF Row
<1> HIDE DEF row
<1>5. (Admissible(u, row) /\ users' = [users EXCEPT ![u] = row]) \/ UNCHANGED users
  BY <1>1 DEF UpdateRow
<1> QED
  BY <1>2, <1>3, <1>4, <1>5, WriteIsDirectoryStep

(* so is UpdateUserRole;                                                    *)
LEMMA RoleUpdateDirectory ==
    ASSUME IInv, IInv', NEW w \in Workers, RoleUpdate(w)
    PROVE  Directory!Next \/ UNCHANGED users
<1> DEFINE u == req[w].target
           row == [users[u] EXCEPT !.role = req[w].role]
<1>1. pc[w] = "roleUpdate" /\ req[w].role \in AllowedRoles
  BY DEF RoleUpdate, IInv, StepOK, RouteOK, AdminStepOK, Working
<1>2. u \in UserIds /\ Exists(u) /\ ~IsAdmin(u) /\ users[u] \in Row
  BY <1>1, TargetReady, UpdateReady
<1>3. req[w].role \in RoleRec /\ req[w].role.base # "ADMIN"
  BY <1>1, RoleTyped, ConstantsAssumption DEF AllowedRoles
<1>4. row \in Row /\ row.role = req[w].role /\ row = [users[u] EXCEPT !.role = row.role]
  BY <1>2, <1>3 DEF Row
<1>5. (Admissible(u, row) /\ users' = [users EXCEPT ![u] = row]) \/ UNCHANGED users
  BY DEF RoleUpdate, UpdateRow
<1> HIDE DEF row
<1> QED
  BY <1>2, <1>3, <1>4, <1>5, WriteIsDirectoryStep

(* DeleteUser retires a row;                                                *)
LEMMA DeleteUpdateDirectory ==
    ASSUME IInv, IInv', NEW w \in Workers, DeleteUpdate(w)
    PROVE  Directory!Next \/ UNCHANGED users
<1> DEFINE u == req[w].target
           name == DeletedName(seen[w].username)
           mail == DeletedName(seen[w].email)
           row == [users[u] EXCEPT !.username = name, !.email = mail, !.role = DeletedRole]
<1>1. pc[w] = "deleteUpdate" /\ UpdateRow(w, u, row, "purge")
  BY DEF DeleteUpdate
<1>2. u \in UserIds /\ Exists(u) /\ ~IsAdmin(u) /\ users[u] \in Row
  BY <1>1, TargetReady, UpdateReady
<1>3. seen[w].username \in Name /\ seen[w].email \in Name /\ now \in Nat
  BY <1>1, UpdateReady DEF Copy, IInv, TypeOK
<1>4. /\ name \in Name /\ Head(name) = Head(users[u].username)
      /\ mail \in Name /\ Head(mail) = Head(users[u].email)
  BY <1>1, <1>3, UpdateReady, DeletedNameKeepsHead
<1> HIDE DEF name, mail
<1>5. DeletedRole \in RoleRec /\ DeletedRole.base # "ADMIN"
  BY RoleTyped, ConstantsAssumption DEF DeletedRole
<1>6. row \in Row /\ row.role = DeletedRole /\ row.username = name /\ row.email = mail
  BY <1>2, <1>4, <1>5 DEF Row
<1>7. row = [users[u] EXCEPT !.username = row.username, !.email = row.email, !.role = DeletedRole]
  BY <1>6
<1> HIDE DEF row
<1>8. (Admissible(u, row) /\ users' = [users EXCEPT ![u] = row]) \/ UNCHANGED users
  BY <1>1 DEF UpdateRow
<1> QED
  BY <1>2, <1>4, <1>5, <1>6, <1>7, <1>8, WriteIsDirectoryStep

(* Register and CreateUser create one.                                      *)
LEMMA InsertDirectory ==
    ASSUME IInv, IInv', NEW w \in Workers, InsertUser(w)
    PROVE  Directory!Next \/ UNCHANGED users
<1> DEFINE r == req[w]
           role == IF r.op = "Register" THEN Role("USER") ELSE r.role
           row == [username |-> r.username, email |-> r.email, password |-> r.password,
                   role |-> role]
<1>1. /\ r \in Request /\ ~MissingFields(r)
      /\ r.op # "Register" => r.role \in AllowedRoles
  BY DEF InsertUser, IInv, TypeOK, StepOK, RouteOK, AdminStepOK, Working
<1>2. role \in RoleRec /\ role.base # "ADMIN"
  BY <1>1, RoleTyped, ConstantsAssumption DEF AllowedRoles
<1>3. \/ UNCHANGED users
      \/ \E u \in UserIds :
            ~Exists(u) /\ Admissible(u, row) /\ users' = [users EXCEPT ![u] = row]
  BY DEF InsertUser
<1> HIDE DEF role
<1>4. row \in Row /\ row.role = role
  BY <1>1, <1>2 DEF Row, Request, MissingFields
<1> HIDE DEF row
<1>5. ASSUME NEW u \in UserIds, ~Exists(u), Admissible(u, row), users' = [users EXCEPT ![u] = row]
      PROVE  Directory!Next
  <2>1. ~IsAdmin(u)
    BY <1>5 DEF Exists, IsAdmin
  <2> QED
    BY <1>2, <1>4, <1>5, <2>1, WriteIsDirectoryStep
<1> QED
  BY <1>3, <1>5

(* Every step of the service is a step of the directory, or none. *)
LEMMA StepSimulation ==
    ASSUME IInv, [Next]_vars
    PROVE  [Directory!Next]_users
<1>0. IInv'
  BY NextStep
<1>1. CASE Tick \/ Crash \/ UNCHANGED vars
  BY <1>1 DEF Tick, Crash, Release, vars, storeVars
<1>2. ASSUME NEW w \in Workers, Receive(w) \/ Serve(w)
      PROVE  Directory!Next \/ UNCHANGED users
  BY <1>0, <1>2, ReadersKeepUsers, StatusUpdateDirectory, RoleUpdateDirectory,
     DeleteUpdateDirectory, InsertDirectory
<1> QED
  BY <1>1, <1>2 DEF Next

(* DEMO.USER under the five concurrent, non-transactional account handlers, *)
(* failing statements and crashes included, is the directory of             *)
(* UserDirectory, in which each account operation is one step.              *)
THEOREM ImplementsDirectory == Spec => DirectorySpec
<1>1. Init => Directory!Init
  BY DEF Init, Directory!Init
<1>2. IInv /\ [Next]_vars => [Directory!Next]_users
  BY StepSimulation
<1> QED
  BY <1>1, <1>2, InvariantHolds, PTL DEF Spec, DirectorySpec, Directory!Spec
=============================================================================
