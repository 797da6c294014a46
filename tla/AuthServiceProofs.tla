-------------------------- MODULE AuthServiceProofs --------------------------
(***************************************************************************)
(* The inductive invariant of AuthService and what follows from it, for    *)
(* any number of workers, users, tokens and names and any faults.          *)
(***************************************************************************)
EXTENDS AuthService, FiniteSetTheorems, SequenceTheorems, TLAPS

Working(w) == pc[w] \notin {"idle", "auth", "done"}

(* Which endpoints a step belongs to. *)
RouteOK(w) ==
    /\ pc[w] \in {"userCount", "insert"} => req[w].op \in {"Register", "CreateUser"}
    /\ pc[w] = "roleCount" => req[w].op \in {"CreateUser", "UpdateUserRole"}
    /\ pc[w] \in {"roleFind", "roleUpdate", "roleReload"} => req[w].op = "UpdateUserRole"
    /\ pc[w] \in {"statusFind", "statusUpdate", "statusReload"} => req[w].op = "UpdateUserStatus"
    /\ pc[w] \in {"deleteFind", "deleteUpdate", "purge"} => req[w].op = "DeleteUser"
    /\ pc[w] \in {"listCount", "listPage"} => req[w].op = "ListUsers"
    /\ pc[w] = "loginFind" => req[w].op = "Login"
    /\ pc[w] = "mint" => req[w].op \in {"Login", "Refresh"}
    /\ pc[w] \in {"refreshFind", "dropExpired", "refreshLoad", "rotate"} => req[w].op = "Refresh"
    /\ status[w] # 0 => pc[w] = "done"

(* An admin request past the middleware: its caller, role and target. *)
AdminStepOK(w) ==
    /\ Working(w) /\ req[w].op \in AdminOps => actor[w] \in UserIds /\ IsAdmin(actor[w])
    /\ Working(w) /\ req[w].op \in {"CreateUser", "UpdateUserRole"} =>
         req[w].role \in AllowedRoles
    /\ pc[w] = "insert" => ~MissingFields(req[w])
    /\ pc[w] \in {"statusUpdate", "statusReload", "roleUpdate", "roleReload",
                  "deleteUpdate", "purge"} =>
         /\ req[w].target \in UserIds
         /\ Exists(req[w].target) /\ ~IsAdmin(req[w].target)
    /\ pc[w] \in {"statusUpdate", "roleUpdate", "deleteUpdate"} =>
         /\ seen[w] # None
         /\ seen[w].role.base # "ADMIN"
         /\ seen[w].username # <<>> /\ seen[w].email # <<>>
         /\ Head(seen[w].username) = Head(users[req[w].target].username)
         /\ Head(seen[w].email) = Head(users[req[w].target].email)

(* A login or refresh: what it holds when it comes to mint. *)
SessionStepOK(w) ==
    /\ req[w].arrived <= now
    /\ req[w].token # None => req[w].token \in minted
    /\ pc[w] \in {"rotate", "mint"} => seen[w] # None
    /\ pc[w] = "mint" /\ req[w].op = "Login" => access[w] # None
    /\ req[w].op = "Refresh" /\ pc[w] \in {"dropExpired", "refreshLoad", "rotate", "mint"} =>
         cred[w] # None /\ req[w].token # None
    /\ req[w].op = "Refresh" /\ (pc[w] \in {"refreshLoad", "rotate", "mint"} \/ status[w] = 200) =>
         cred[w] # None /\ req[w].arrived <= cred[w].exp
    /\ pc[w] = "refreshLoad" => Exists(cred[w].user)
    /\ req[w].op = "Refresh" /\ pc[w] = "mint" => tokens[req[w].token] = None
    /\ req[w].op = "Refresh" /\ req[w].replay =>
         /\ req[w].token \in spent
         /\ pc[w] \in {"idle", "done", "refreshFind"}
         /\ status[w] # 200

StepOK(w) == RouteOK(w) /\ AdminStepOK(w) /\ SessionStepOK(w)

(* The tables: constraints hold, names are not empty, spent tokens are gone. *)
TablesOK ==
    /\ UniqueIdentities
    /\ \A u \in UserIds : Exists(u) =>
         /\ users[u].username # <<>> /\ users[u].email # <<>>
         /\ users[u].role.base = "ADMIN" => IsAdmin(u)
    /\ \A t \in TokenIds : tokens[t] # None => t \in minted /\ Exists(tokens[t].user)
    /\ \A t \in spent : tokens[t] = None
    /\ \A h \in held : h.token \in minted

IInv == TypeOK /\ TablesOK /\ \A w \in Workers : StepOK(w)
-----------------------------------------------------------------------------
(* Which state no step of a worker touches but its own. *)
Kept(v) ==
    /\ pc'[v] = pc[v] /\ req'[v] = req[v] /\ actor'[v] = actor[v]
    /\ seen'[v] = seen[v] /\ cred'[v] = cred[v] /\ access'[v] = access[v]
    /\ status'[v] = status[v]

OthersKept(w) == \A v \in Workers \ {w} : Kept(v)

(* What a step leaves true of every row of DEMO.USER: it stays, it stays an *)
(* ADMIN or stays none, and its names keep their heads.                     *)
RowsKept ==
    \A u \in UserIds :
        /\ IsAdmin(u)' = IsAdmin(u)
        /\ Exists(u) => /\ Exists(u)'
                        /\ Head(users'[u].username) = Head(users[u].username)
                        /\ Head(users'[u].email) = Head(users[u].email)

(* What it leaves true of the tokens: the minted stay minted, the spent     *)
(* spent, and what was gone stays gone unless it is new.                    *)
TokensKept ==
    /\ minted \subseteq minted' /\ spent \subseteq spent' /\ now <= now'
    /\ \A t \in minted : tokens[t] = None => tokens'[t] = None

(* A worker that does not move keeps its part of the invariant. *)
LEMMA KeptOK ==
    ASSUME TypeOK, NEW v \in Workers, StepOK(v), Kept(v), RowsKept, TokensKept, now' \in Nat
    PROVE  StepOK(v)'
<1>1. /\ pc'[v] = pc[v] /\ req'[v] = req[v] /\ actor'[v] = actor[v]
      /\ seen'[v] = seen[v] /\ cred'[v] = cred[v] /\ access'[v] = access[v]
      /\ status'[v] = status[v]
  BY DEF Kept
<1>2. RouteOK(v)'
  BY <1>1 DEF StepOK, RouteOK
<1>3. AdminStepOK(v)'
  <2>1. \A u \in UserIds : IsAdmin(u)' = IsAdmin(u) /\ (Exists(u) => Exists(u)')
    BY DEF RowsKept
  <2>2. Working(v)' = Working(v)
    BY <1>1 DEF Working
  <2>3. AdminStepOK(v)
    BY DEF StepOK
  <2> QED
    BY <1>1, <2>1, <2>2, <2>3 DEF AdminStepOK, RowsKept, MissingFields
<1>4. SessionStepOK(v)'
  <2>1. SessionStepOK(v) /\ req[v] \in Request /\ cred[v] \in TokenRow \cup {None} /\ now \in Nat
    BY DEF StepOK, TypeOK
  <2>2. \A u \in UserIds : Exists(u) => Exists(u)'
    BY DEF RowsKept
  <2>3. cred[v] # None => cred[v].user \in UserIds
    BY <2>1 DEF TokenRow
  <2>4. req[v].arrived \in Nat
    BY <2>1 DEF Request
  <2>5. pc[v] = "refreshLoad" => cred[v] # None
    BY DEF StepOK, RouteOK, SessionStepOK
  <2> QED
    BY <1>1, <2>1, <2>2, <2>3, <2>4, <2>5 DEF SessionStepOK, TokensKept
<1> QED
  BY <1>2, <1>3, <1>4 DEF StepOK

(* One worker moves and leaves the tables in order: the invariant survives. *)
LEMMA WorkerStep ==
    ASSUME IInv, NEW w \in Workers, OthersKept(w), RowsKept, TokensKept,
           TypeOK', TablesOK', StepOK(w)'
    PROVE  IInv' /\ RowsKept
<1>1. ASSUME NEW v \in Workers PROVE StepOK(v)'
  <2>1. CASE v = w
    BY <2>1
  <2>2. CASE v # w
    <3>1. StepOK(v) /\ TypeOK /\ now' \in Nat
      BY DEF IInv, TypeOK
    <3>2. Kept(v)
      BY <2>2 DEF OthersKept
    <3> QED
      BY <3>1, <3>2, KeptOK
  <2> QED
    BY <2>1, <2>2
<1> QED
  BY <1>1 DEF IInv

(* The same for a step that leaves the tables alone. *)
LEMMA QuietStep ==
    ASSUME IInv, NEW w \in Workers, OthersKept(w), TypeOK', StepOK(w)',
           UNCHANGED <<storeVars, clientVars, now>>
    PROVE  IInv' /\ RowsKept
<1> USE DEF storeVars, clientVars
<1>1. RowsKept
  BY DEF RowsKept, IsAdmin, Exists
<1>2. TokensKept
  BY DEF IInv, TypeOK, TokensKept
<1>3. TablesOK'
  BY DEF IInv, TablesOK, UniqueIdentities, Exists, IsAdmin, Clash
<1> QED
  BY <1>1, <1>2, <1>3, WorkerStep

(* A worker that answers: what is left of its invariant is about refresh. *)
LEMMA AnswerOK ==
    ASSUME TypeOK, NEW w \in Workers, StepOK(w), TokensKept,
           pc'[w] = "done", req'[w] = req[w], now' \in Nat,
           status'[w] # 200 \/ req[w].op # "Refresh"
    PROVE  StepOK(w)'
<1>1. RouteOK(w)' /\ AdminStepOK(w)'
  BY DEF RouteOK, AdminStepOK, Working
<1>2. req[w].arrived \in Nat /\ now \in Nat /\ now <= now' /\ req[w].arrived <= now
  BY DEF TypeOK, Request, TokensKept, StepOK, SessionStepOK
<1>3. SessionStepOK(w)'
  <2>1. req'[w].arrived <= now'
    BY <1>2
  <2>2. SessionStepOK(w)
    BY DEF StepOK
  <2> QED
    BY <2>1, <2>2 DEF TokensKept, SessionStepOK
<1> QED
  BY <1>1, <1>3 DEF StepOK

(* A step of w that writes no more than locals of its own. *)
LocalsOnly(w) ==
    /\ actor' \in [Workers -> UserIds \cup {None}]
    /\ seen' \in [Workers -> Copy \cup {None}]
    /\ cred' \in [Workers -> TokenRow \cup {None}]
    /\ access' \in [Workers -> Jwt \cup {None}]
    /\ tally' \in [Workers -> Tally]
    /\ \A v \in Workers \ {w} :
         /\ actor'[v] = actor[v] /\ seen'[v] = seen[v]
         /\ cred'[v] = cred[v] /\ access'[v] = access[v]
    /\ UNCHANGED <<storeVars, clientVars, now, req>>

(* An answer that leaves the tables alone. *)
LEMMA PlainAnswer ==
    ASSUME IInv, NEW w \in Workers, NEW code \in Codes, Reply(w, code),
           code # 200 \/ req[w].op # "Refresh", LocalsOnly(w)
    PROVE  IInv' /\ RowsKept
<1> USE DEF storeVars, clientVars, Reply, LocalsOnly
<1>1. TypeOK /\ StepOK(w)
  BY DEF IInv
<1>2. TypeOK'
  BY <1>1 DEF TypeOK, Labels
<1>3. OthersKept(w)
  BY <1>1 DEF OthersKept, Kept, TypeOK
<1>4. TokensKept
  BY <1>1 DEF TokensKept, TypeOK
<1>5. StepOK(w)'
  <2>1. pc'[w] = "done" /\ status'[w] = code /\ now' \in Nat
    BY <1>1 DEF TypeOK
  <2> QED
    BY <1>1, <1>4, <2>1, AnswerOK
<1> QED
  BY <1>2, <1>3, <1>5, QuietStep

(* A step to another label that leaves the tables alone. *)
LEMMA PlainMove ==
    ASSUME IInv, NEW w \in Workers, NEW label \in Labels, Goto(w, label), LocalsOnly(w),
           pc'[w] = label /\ status'[w] = status[w] /\ req'[w] = req[w] => StepOK(w)'
    PROVE  IInv' /\ RowsKept
<1> USE DEF storeVars, clientVars, Goto, LocalsOnly
<1>1. TypeOK
  BY DEF IInv
<1>2. TypeOK'
  BY <1>1 DEF TypeOK
<1>3. OthersKept(w)
  BY <1>1 DEF OthersKept, Kept, TypeOK
<1>4. StepOK(w)'
  BY <1>1 DEF TypeOK
<1> QED
  BY <1>2, <1>3, <1>4, QuietStep

(* The copy a handler takes of a row that is there.                         *)
LEMMA CopyTyped ==
    ASSUME TypeOK, NEW u \in UserIds, Exists(u)
    PROVE  users[u] \in Row /\ CopyOf(u) \in Copy
<1>1. users[u] \in Row
  BY DEF TypeOK, Exists
<1> QED
  BY <1>1 DEF CopyOf, Copy, Row

-----------------------------------------------------------------------------
(* The opening read of an admin update. *)
LEMMA FindTargetStep ==
    ASSUME IInv, NEW w \in Workers, NEW label \in {"statusUpdate", "roleUpdate", "deleteUpdate"},
           FindTarget(w, label), Working(w), RouteOK(w),
           \/ label = "statusUpdate" /\ req[w].op = "UpdateUserStatus"
           \/ label = "roleUpdate" /\ req[w].op = "UpdateUserRole"
           \/ label = "deleteUpdate" /\ req[w].op = "DeleteUser"
    PROVE  IInv' /\ RowsKept
<1> DEFINE u == req[w].target
<1>0. TypeOK /\ StepOK(w) /\ TablesOK
  BY DEF IInv
<1>1. CASE /\ u \in UserIds /\ Exists(u) /\ ~Protected(u)
           /\ SelectUser(w, u) /\ Goto(w, label)
  <2>1. users[u] \in Row /\ CopyOf(u) \in Copy
    BY <1>0, <1>1, CopyTyped
  <2>2. LocalsOnly(w)
    BY <1>0, <1>1, <2>1
    DEF LocalsOnly, TypeOK, FindTarget, accountsFrame, clientVars, storeVars, SelectUser
  <2>4. /\ pc'[w] = label /\ seen'[w] = CopyOf(u) /\ status'[w] = status[w]
        /\ UNCHANGED <<storeVars, clientVars, now, req, actor, cred, access>>
    BY <1>0, <1>1 DEF TypeOK, FindTarget, accountsFrame, clientVars, storeVars, Goto, SelectUser
  <2>5. users[u].role.base # "ADMIN"
    BY <1>0, <1>1 DEF TablesOK, Protected
  <2>6. RouteOK(w)'
    BY <2>4, <1>0 DEF StepOK, RouteOK, Working
  <2>7. AdminStepOK(w)'
    <3>1. CopyOf(u) # None
      BY <2>1, ConstantsAssumption
    <3>2. users[u].username # <<>> /\ users[u].email # <<>>
      BY <1>0, <1>1 DEF TablesOK
    <3> QED
      BY <1>0, <1>1, <2>4, <2>5, <3>1, <3>2
      DEF StepOK, AdminStepOK, Working, IsAdmin, Exists, Protected, CopyOf, storeVars
  <2>8. SessionStepOK(w)'
    BY <1>0, <2>4 DEF StepOK, RouteOK, SessionStepOK, storeVars, clientVars, Working
  <2> QED
    BY <1>1, <2>2, <2>6, <2>7, <2>8, PlainMove DEF StepOK, Labels
<1>2. CASE \E code \in {400, 404, 500} : Reply(w, code) /\ UNCHANGED seen
  BY <1>0, <1>2, PlainAnswer DEF LocalsOnly, TypeOK, FindTarget, accountsFrame, clientVars, storeVars, Codes
<1> QED
  BY <1>1, <1>2 DEF FindTarget
(* One row written as the handlers write it: what the tables keep. *)
LEMMA WriteRow ==
    ASSUME TypeOK, TablesOK, NEW u \in UserIds, NEW row \in Row, Admissible(u, row),
           users' = [users EXCEPT ![u] = row], UNCHANGED <<tokens, minted, clientVars>>,
           ~IsAdmin(u), row.role.base # "ADMIN", row.username # <<>>, row.email # <<>>,
           Exists(u) => /\ Head(row.username) = Head(users[u].username)
                        /\ Head(row.email) = Head(users[u].email)
    PROVE  TablesOK' /\ RowsKept /\ users' \in [UserIds -> Row \cup {None}]
<1> USE DEF clientVars
<1>1. row # None /\ row.role # AdminRole
  <2>1. row # None
    BY ConstantsAssumption
  <2>2. AdminRole.base = "ADMIN"
    BY DEF AdminRole, Role
  <2> QED
    BY <2>1, <2>2
<1>2. users \in [UserIds -> Row \cup {None}]
  BY DEF TypeOK
<1>3. /\ users'[u] = row
      /\ \A v \in UserIds \ {u} : users'[v] = users[v]
  BY <1>2
<1>4. users' \in [UserIds -> Row \cup {None}]
  BY <1>2
<1>5. RowsKept
  BY <1>1, <1>3 DEF RowsKept, IsAdmin, Exists
<1>6. UniqueIdentities'
  BY <1>1, <1>3 DEF TablesOK, UniqueIdentities, Admissible, Exists, Clash
<1>7. \A v \in UserIds : Exists(v)' =>
         /\ users'[v].username # <<>> /\ users'[v].email # <<>>
         /\ users'[v].role.base = "ADMIN" => IsAdmin(v)'
  BY <1>1, <1>3 DEF TablesOK, Exists, IsAdmin
<1>8. (\A t \in TokenIds : tokens[t] # None => t \in minted /\ Exists(tokens[t].user))'
  <2> SUFFICES ASSUME NEW t \in TokenIds, tokens[t] # None
               PROVE  t \in minted /\ Exists(tokens[t].user)'
    BY DEF Exists
  <2>1. tokens[t].user \in UserIds
    BY DEF TypeOK, TokenRow
  <2>2. t \in minted /\ Exists(tokens[t].user)
    BY DEF TablesOK
  <2> QED
    BY <1>5, <2>1, <2>2 DEF RowsKept, Exists
<1>9. (\A t \in spent : tokens[t] = None)' /\ (\A h \in held : h.token \in minted)'
  BY DEF TablesOK
<1> QED
  BY <1>4, <1>5, <1>6, <1>7, <1>8, <1>9 DEF TablesOK, Exists

(* The UPDATE of an admin update. *)
LEMMA UpdateStep ==
    ASSUME IInv, NEW w \in Workers, NEW row \in Row,
           NEW label \in {"statusReload", "roleReload", "purge"},
           UpdateRow(w, req[w].target, row, label),
           row.role.base # "ADMIN", row.username # <<>>, row.email # <<>>,
           Head(row.username) = Head(users[req[w].target].username),
           Head(row.email) = Head(users[req[w].target].email),
           \/ label = "statusReload" /\ pc[w] = "statusUpdate"
           \/ label = "roleReload" /\ pc[w] = "roleUpdate"
           \/ label = "purge" /\ pc[w] = "deleteUpdate"
    PROVE  IInv' /\ RowsKept
<1> DEFINE u == req[w].target
<1>0. TypeOK /\ TablesOK /\ StepOK(w) /\ now \in Nat
  BY DEF IInv, TypeOK
<1>1. u \in UserIds /\ Exists(u) /\ ~IsAdmin(u)
  BY <1>0 DEF StepOK, AdminStepOK
<1>2. UNCHANGED <<tokens, minted, clientVars, now, req, actor, seen, cred, access, tally>>
  BY DEF UpdateRow, accountsFrame
<1>3. req[w].op \in AdminOps /\ req[w].op # "Refresh"
  BY <1>0 DEF StepOK, RouteOK, AdminOps
<1>4. CASE /\ Admissible(u, row)
           /\ users' = [users EXCEPT ![u] = row]
           /\ Committed(w, label)
  <2>1. TablesOK' /\ RowsKept /\ users' \in [UserIds -> Row \cup {None}]
    BY <1>0, <1>1, <1>2, <1>4, WriteRow
  <2>2. TokensKept
    BY <1>0, <1>2 DEF TokensKept, clientVars
  <2>3. CASE Goto(w, label)
    <3>1. TypeOK'
      BY <1>0, <1>2, <2>1, <2>3 DEF TypeOK, Goto, Labels, clientVars
    <3>2. OthersKept(w)
      BY <1>0, <1>2, <2>3 DEF TypeOK, OthersKept, Kept, Goto
    <3>3. pc'[w] = label /\ status'[w] = status[w]
      BY <1>0, <2>3 DEF TypeOK, Goto
    <3>4. RouteOK(w)'
      BY <1>0, <1>2, <3>3 DEF StepOK, RouteOK
    <3>5. AdminStepOK(w)'
      BY <1>0, <1>1, <1>2, <1>3, <2>1, <3>3 DEF StepOK, AdminStepOK, Working, RowsKept
    <3>6. SessionStepOK(w)'
      BY <1>0, <1>2, <1>3, <3>3 DEF StepOK, SessionStepOK, clientVars
    <3> QED
      BY <2>1, <2>2, <3>1, <3>2, <3>4, <3>5, <3>6, WorkerStep DEF StepOK
  <2>4. CASE Reply(w, 500)
    <3>1. TypeOK'
      BY <1>0, <1>2, <2>1, <2>4 DEF TypeOK, Reply, Labels, Codes, clientVars
    <3>2. OthersKept(w)
      BY <1>0, <1>2, <2>4 DEF TypeOK, OthersKept, Kept, Reply
    <3>3. pc'[w] = "done" /\ req'[w] = req[w] /\ now' \in Nat
      BY <1>0, <1>2, <2>4 DEF TypeOK, Reply
    <3>4. StepOK(w)'
      BY <1>0, <1>3, <2>2, <3>3, AnswerOK
    <3> QED
      BY <2>1, <2>2, <3>1, <3>2, <3>4, WorkerStep
  <2> QED
    BY <1>4, <2>3, <2>4 DEF Committed
<1>5. CASE Reply(w, 500) /\ UNCHANGED users
  BY <1>0, <1>2, <1>3, <1>5, PlainAnswer DEF LocalsOnly, TypeOK, storeVars, clientVars, Codes
<1> QED
  BY <1>4, <1>5 DEF UpdateRow
-----------------------------------------------------------------------------
(* UpdateUserStatus, UpdateUserRole and DeleteUser read their target.       *)
LEMMA FindSteps ==
    ASSUME IInv, NEW w \in Workers, StatusFind(w) \/ RoleFind(w) \/ DeleteFind(w)
    PROVE  IInv' /\ RowsKept
<1>0. RouteOK(w)
  BY DEF IInv, StepOK
<1>1. CASE StatusFind(w)
  <2>1. FindTarget(w, "statusUpdate") /\ Working(w) /\ req[w].op = "UpdateUserStatus"
    BY <1>0, <1>1 DEF StatusFind, RouteOK, Working
  <2> QED
    BY <1>0, <2>1, FindTargetStep
<1>2. CASE RoleFind(w)
  <2>1. FindTarget(w, "roleUpdate") /\ Working(w) /\ req[w].op = "UpdateUserRole"
    BY <1>0, <1>2 DEF RoleFind, RouteOK, Working
  <2> QED
    BY <1>0, <2>1, FindTargetStep
<1>3. CASE DeleteFind(w)
  <2>1. FindTarget(w, "deleteUpdate") /\ Working(w) /\ req[w].op = "DeleteUser"
    BY <1>0, <1>3 DEF DeleteFind, RouteOK, Working
  <2> QED
    BY <1>0, <2>1, FindTargetStep
<1> QED
  BY <1>1, <1>2, <1>3

(* What an admin update knows when it comes to its UPDATE. *)
LEMMA UpdateReady ==
    ASSUME IInv, NEW w \in Workers, pc[w] \in {"statusUpdate", "roleUpdate", "deleteUpdate"}
    PROVE  /\ users[req[w].target] \in Row /\ seen[w] \in Copy
           /\ users[req[w].target].username # <<>> /\ users[req[w].target].email # <<>>
           /\ seen[w].role.base # "ADMIN"
           /\ seen[w].username # <<>> /\ seen[w].email # <<>>
           /\ Head(seen[w].username) = Head(users[req[w].target].username)
           /\ Head(seen[w].email) = Head(users[req[w].target].email)
<1>1. TypeOK /\ TablesOK /\ AdminStepOK(w)
  BY DEF IInv, StepOK
<1>2. req[w].target \in UserIds /\ Exists(req[w].target) /\ seen[w] # None
  BY <1>1 DEF AdminStepOK
<1>3. users[req[w].target] \in Row
  BY <1>1, <1>2, CopyTyped
<1>4. seen[w] \in Copy
  BY <1>1, <1>2 DEF TypeOK
<1> QED
  BY <1>1, <1>2, <1>3, <1>4 DEF AdminStepOK, TablesOK

(* A role built from a code, as seed.go and the handlers build them.        *)
LEMMA RoleTyped ==
    ASSUME NEW code \in RoleCodes
    PROVE  Role(code) \in RoleRec /\ Role(code).base = code
BY DEF Role, RoleRec

(* UpdateUserStatus saves the suffix it computed from its stale copy.       *)
LEMMA StatusUpdateStep ==
    ASSUME IInv, NEW w \in Workers, StatusUpdate(w)
    PROVE  IInv' /\ RowsKept
<1> DEFINE u == req[w].target
           role == StatusRole(seen[w].role, req[w].active)
           row == [users[u] EXCEPT !.role = role]
<1>1. pc[w] = "statusUpdate" /\ UpdateRow(w, u, row, "statusReload")
  BY DEF StatusUpdate
<1>2. seen[w].role \in RoleRec /\ req[w].active \in BOOLEAN
  BY <1>1, UpdateReady DEF Copy, IInv, TypeOK, Request
<1>3. role \in RoleRec /\ role.base = seen[w].role.base
  BY <1>2 DEF StatusRole, RoleRec
<1>4. row \in Row /\ row.role = role
      /\ row.username = users[u].username /\ row.email = users[u].email
  BY <1>1, <1>3, UpdateReady DEF Row
<1> HIDE DEF row, role
<1> QED
  BY <1>1, <1>3, <1>4, UpdateReady, UpdateStep

(* UpdateUserRole saves the requested role, which is an allowed one.        *)
LEMMA RoleUpdateStep ==
    ASSUME IInv, NEW w \in Workers, RoleUpdate(w)
    PROVE  IInv' /\ RowsKept
<1> DEFINE u == req[w].target
           row == [users[u] EXCEPT !.role = req[w].role]
<1>0. pc[w] = "roleUpdate" /\ req[w].op = "UpdateUserRole" /\ req[w].role \in AllowedRoles
  BY DEF RoleUpdate, IInv, StepOK, RouteOK, AdminStepOK, Working
<1>1. req[w].role \in RoleRec /\ req[w].role.base # "ADMIN"
  BY <1>0, RoleTyped, ConstantsAssumption DEF AllowedRoles
<1>2. req[w].role # AdminRole
  <2>1. AdminRole.base = "ADMIN"
    BY DEF AdminRole, Role
  <2> QED
    BY <1>1, <2>1
<1>3. UpdateRow(w, u, row, "roleReload")
  BY <1>2 DEF RoleUpdate
<1>4. row \in Row /\ row.role = req[w].role
      /\ row.username = users[u].username /\ row.email = users[u].email
  BY <1>0, <1>1, UpdateReady DEF Row
<1> HIDE DEF row
<1> QED
  BY <1>0, <1>1, <1>3, <1>4, UpdateReady, UpdateStep

(* A name with the deletion time appended is a name that begins as before. *)
LEMMA DeletedNameKeepsHead ==
    ASSUME NEW name \in Name, name # <<>>, now \in Nat
    PROVE  /\ DeletedName(name) \in Name /\ DeletedName(name) # <<>>
           /\ Head(DeletedName(name)) = Head(name)
<1>1. now \in NameAtoms \cup Nat
  OBVIOUS
<1>2. /\ Append(name, now) \in Name /\ Append(name, now) # <<>>
      /\ Head(Append(name, now)) = Head(name)
  BY <1>1, AppendProperties DEF Name
<1> QED
  BY <1>2 DEF DeletedName

(* DeleteUser saves the retired names.                                      *)
LEMMA DeleteUpdateStep ==
    ASSUME IInv, NEW w \in Workers, DeleteUpdate(w)
    PROVE  IInv' /\ RowsKept
<1> DEFINE u == req[w].target
           name == DeletedName(seen[w].username)
           mail == DeletedName(seen[w].email)
           row == [users[u] EXCEPT !.username = name, !.email = mail, !.role = DeletedRole]
<1>1. pc[w] = "deleteUpdate" /\ UpdateRow(w, u, row, "purge")
  BY DEF DeleteUpdate
<1>2. seen[w].username \in Name /\ seen[w].email \in Name /\ now \in Nat
  BY <1>1, UpdateReady DEF Copy, IInv, TypeOK
<1>3. /\ name \in Name /\ name # <<>> /\ Head(name) = Head(seen[w].username)
      /\ mail \in Name /\ mail # <<>> /\ Head(mail) = Head(seen[w].email)
  BY <1>1, <1>2, UpdateReady, DeletedNameKeepsHead
<1> HIDE DEF name, mail
<1>4. DeletedRole \in RoleRec /\ DeletedRole.base # "ADMIN"
  BY RoleTyped, ConstantsAssumption DEF DeletedRole
<1>5. row \in Row /\ row.role = DeletedRole /\ row.username = name /\ row.email = mail
  BY <1>1, <1>3, <1>4, UpdateReady DEF Row
<1> HIDE DEF row
<1> QED
  BY <1>1, <1>3, <1>4, <1>5, UpdateReady, UpdateStep

(* The reload that fills the response to an admin update. *)
LEMMA ReloadStep ==
    ASSUME IInv, NEW w \in Workers, StatusReload(w) \/ RoleReload(w)
    PROVE  IInv' /\ RowsKept
<1> DEFINE u == req[w].target
<1>0. TypeOK /\ RouteOK(w) /\ AdminStepOK(w)
  BY DEF IInv, StepOK
<1>1. pc[w] \in {"statusReload", "roleReload"}
  BY DEF StatusReload, RoleReload, Reload
<1>2. u \in UserIds /\ Exists(u) /\ req[w].op # "Refresh"
  BY <1>0, <1>1 DEF RouteOK, AdminStepOK
<1>3. CopyOf(u) \in Copy
  BY <1>0, <1>2, CopyTyped
<1>4. UNCHANGED <<storeVars, clientVars, now, req, actor, cred, access, tally>>
  BY DEF StatusReload, RoleReload, Reload, accountsFrame, storeVars, clientVars
<1>5. CASE SelectUser(w, u) /\ Reply(w, 200)
  BY <1>0, <1>2, <1>3, <1>4, <1>5, PlainAnswer DEF LocalsOnly, SelectUser, TypeOK, Codes
<1>6. CASE Reply(w, 500) /\ UNCHANGED seen
  BY <1>0, <1>2, <1>4, <1>6, PlainAnswer DEF LocalsOnly, TypeOK, Codes
<1> QED
  BY <1>5, <1>6 DEF StatusReload, RoleReload, Reload
-----------------------------------------------------------------------------
(* The counts of Register, CreateUser and UpdateUserRole. *)
LEMMA CountStep ==
    ASSUME IInv, NEW w \in Workers, RoleCount(w) \/ UserCount(w)
    PROVE  IInv' /\ RowsKept
<1>0. TypeOK /\ StepOK(w)
  BY DEF IInv
<1>1. LocalsOnly(w)
  BY <1>0 DEF RoleCount, UserCount, accountsFrame, LocalsOnly, TypeOK, storeVars, clientVars
<1>2. pc[w] \in {"roleCount", "userCount"} /\ req[w].op # "Refresh"
  BY <1>0 DEF RoleCount, UserCount, StepOK, RouteOK
<1>3. CASE \E code \in {409, 500} : Reply(w, code)
  BY <1>1, <1>2, <1>3, PlainAnswer DEF Codes
<1>4. ASSUME NEW label \in {"userCount", "roleFind", "insert"}, Goto(w, label),
             label = "userCount" => req[w].op = "CreateUser" /\ pc[w] = "roleCount",
             label = "roleFind" => req[w].op = "UpdateUserRole" /\ pc[w] = "roleCount",
             label = "insert" => ~MissingFields(req[w]) /\ pc[w] = "userCount"
      PROVE  IInv' /\ RowsKept
  <2>1. SUFFICES ASSUME pc'[w] = label, status'[w] = status[w], req'[w] = req[w]
                 PROVE  StepOK(w)'
    BY <1>1, <1>4, PlainMove DEF Labels
  <2>2. UNCHANGED <<storeVars, clientVars, now, actor, seen>>
    BY <1>1 DEF LocalsOnly, RoleCount, UserCount, accountsFrame
  <2>3. RouteOK(w)'
    BY <1>0, <1>4, <2>1 DEF StepOK, RouteOK
  <2>4. AdminStepOK(w)'
    BY <1>0, <1>2, <1>4, <2>1, <2>2
    DEF StepOK, AdminStepOK, Working, IsAdmin, MissingFields, storeVars
  <2>5. SessionStepOK(w)'
    BY <1>0, <1>2, <1>4, <2>1, <2>2 DEF StepOK, SessionStepOK, storeVars, clientVars
  <2> QED
    BY <2>3, <2>4, <2>5 DEF StepOK
<1>5. CASE RoleCount(w)
  <2>1. pc[w] = "roleCount" /\ req[w].op \in {"CreateUser", "UpdateUserRole"}
    BY <1>0, <1>5 DEF RoleCount, StepOK, RouteOK
  <2> QED
    BY <1>3, <1>4, <1>5, <2>1 DEF RoleCount
<1>6. CASE UserCount(w)
  BY <1>3, <1>4, <1>6 DEF UserCount
<1> QED
  BY <1>5, <1>6

(* The INSERT of Register and CreateUser. *)
LEMMA InsertStep ==
    ASSUME IInv, NEW w \in Workers, InsertUser(w)
    PROVE  IInv' /\ RowsKept
<1> DEFINE r == req[w]
           role == IF r.op = "Register" THEN Role("USER") ELSE r.role
           row == [username |-> r.username, email |-> r.email, password |-> r.password,
                   role |-> role]
<1>0. TypeOK /\ TablesOK /\ StepOK(w) /\ r \in Request /\ now \in Nat
  BY DEF IInv, TypeOK
<1>1. /\ pc[w] = "insert" /\ r.op \in {"Register", "CreateUser"}
      /\ ~MissingFields(r)
      /\ r.op = "CreateUser" => r.role \in AllowedRoles
  BY <1>0 DEF InsertUser, StepOK, RouteOK, AdminStepOK, Working
<1>2. role \in RoleRec /\ role.base # "ADMIN"
  BY <1>1, RoleTyped, ConstantsAssumption DEF AllowedRoles
<1> HIDE DEF role
<1>3. /\ row \in Row /\ row.username # <<>> /\ row.email # <<>> /\ row.role = role
      /\ row.username \in Name /\ row.email \in Name
  BY <1>0, <1>1, <1>2 DEF Row, Request, MissingFields
<1>4. UNCHANGED <<tokens, minted, clientVars, now, req, actor, cred, access, tally>>
  BY DEF InsertUser, accountsFrame
<1>5. PICK u \in UserIds :
        /\ ~Exists(u)
        /\ \/ /\ Admissible(u, row)
              /\ users' = [users EXCEPT ![u] = row]
              /\ \/ /\ Reply(w, 201)
                    /\ seen' = [seen EXCEPT ![w] =
                          [id |-> u, username |-> row.username,
                           email |-> row.email, role |-> row.role]]
                 \/ Unacked /\ Reply(w, 500) /\ UNCHANGED seen
           \/ /\ ~Admissible(u, row) \/ Refused
              /\ Reply(w, 500) /\ UNCHANGED <<users, seen>>
  BY DEF InsertUser, role
<1> HIDE DEF row
<1>6. ~IsAdmin(u)
  BY <1>5 DEF Exists, IsAdmin
<1>7. CASE /\ Admissible(u, row)
           /\ users' = [users EXCEPT ![u] = row]
           /\ \E code \in {201, 500} : Reply(w, code)
           /\ seen' \in [Workers -> Copy \cup {None}]
           /\ \A v \in Workers \ {w} : seen'[v] = seen[v]
  <2>1. TablesOK' /\ RowsKept /\ users' \in [UserIds -> Row \cup {None}]
    <3>1. row.role.base # "ADMIN" /\ row.username # <<>> /\ row.email # <<>> /\ row \in Row
      BY <1>2, <1>3
    <3>2. UNCHANGED <<tokens, minted, clientVars>>
      BY <1>4
    <3>3. Exists(u) => /\ Head(row.username) = Head(users[u].username)
                       /\ Head(row.email) = Head(users[u].email)
      BY <1>5
    <3>4. TypeOK /\ TablesOK /\ Admissible(u, row) /\ users' = [users EXCEPT ![u] = row]
      BY <1>0, <1>7
    <3> QED
      BY <1>6, <3>1, <3>2, <3>3, <3>4, WriteRow
  <2>2. TokensKept
    BY <1>0, <1>4 DEF TokensKept, clientVars
  <2>3. TypeOK'
    <3>1. PICK code \in Codes : Reply(w, code)
      BY <1>7 DEF Codes
    <3>2. pc' \in [Workers -> Labels] /\ status' \in [Workers -> Codes]
      BY <1>0, <3>1 DEF TypeOK, Reply, Labels
    <3> QED
      BY <1>0, <1>4, <1>7, <2>1, <3>2 DEF TypeOK, clientVars
  <2>4. OthersKept(w)
    BY <1>0, <1>4, <1>7 DEF TypeOK, OthersKept, Kept, Reply
  <2>5. pc'[w] = "done" /\ req'[w] = req[w] /\ now' \in Nat /\ req[w].op # "Refresh"
    BY <1>0, <1>1, <1>4, <1>7 DEF TypeOK, Reply
  <2>6. StepOK(w)'
    BY <1>0, <2>2, <2>5, AnswerOK
  <2> QED
    BY <2>1, <2>2, <2>3, <2>4, <2>6, WorkerStep
<1>8. CASE Reply(w, 500) /\ UNCHANGED <<users, seen>>
  <2>1. LocalsOnly(w) /\ 500 \in Codes
    BY <1>0, <1>4, <1>8 DEF LocalsOnly, TypeOK, storeVars, clientVars, Codes
  <2> QED
    BY <1>8, <2>1, PlainAnswer
<1>9. [id |-> u, username |-> row.username, email |-> row.email, role |-> row.role] \in Copy
  BY <1>2, <1>3 DEF Copy
<1>10. seen \in [Workers -> Copy \cup {None}]
  BY <1>0 DEF TypeOK
<1> QED
  BY <1>5, <1>7, <1>8, <1>9, <1>10
-----------------------------------------------------------------------------
(* Deleting refresh tokens, whichever, disturbs nothing else. *)
LEMMA DropTokens ==
    ASSUME TypeOK, TablesOK, tokens' \in [TokenIds -> TokenRow \cup {None}],
           \A t \in TokenIds : tokens'[t] = tokens[t] \/ tokens'[t] = None,
           UNCHANGED <<users, minted, clientVars, now>>
    PROVE  TablesOK' /\ RowsKept /\ TokensKept
<1> USE DEF clientVars
<1>1. RowsKept
  BY DEF RowsKept, IsAdmin, Exists
<1>2. TokensKept
  BY DEF TypeOK, TokensKept
<1>3. UniqueIdentities'
  BY DEF TablesOK, UniqueIdentities, Exists, Clash
<1>4. (\A u \in UserIds : Exists(u) =>
         /\ users[u].username # <<>> /\ users[u].email # <<>>
         /\ users[u].role.base = "ADMIN" => IsAdmin(u))'
  BY DEF TablesOK, Exists, IsAdmin
<1>5. (\A t \in TokenIds : tokens[t] # None => t \in minted /\ Exists(tokens[t].user))'
  BY DEF TablesOK, Exists
<1>6. (\A t \in spent : tokens[t] = None)' /\ (\A h \in held : h.token \in minted)'
  BY DEF TablesOK, TypeOK
<1> QED
  BY <1>1, <1>2, <1>3, <1>4, <1>5, <1>6 DEF TablesOK

(* An answer along with such a deletion. *)
LEMMA DropAnswer ==
    ASSUME IInv, NEW w \in Workers, NEW code \in Codes, Reply(w, code),
           code # 200 \/ req[w].op # "Refresh",
           tokens' \in [TokenIds -> TokenRow \cup {None}],
           \A t \in TokenIds : tokens'[t] = tokens[t] \/ tokens'[t] = None,
           UNCHANGED <<users, minted, readVars, clientVars, now, req>>
    PROVE  IInv' /\ RowsKept
<1>0. TypeOK /\ TablesOK /\ StepOK(w)
  BY DEF IInv
<1>1. TablesOK' /\ RowsKept /\ TokensKept
  BY <1>0, DropTokens
<1>2. pc' \in [Workers -> Labels] /\ status' \in [Workers -> Codes]
  BY <1>0 DEF TypeOK, Reply, Labels
<1>3. TypeOK'
  BY <1>0, <1>2 DEF TypeOK, readVars, clientVars
<1>4. OthersKept(w)
  BY <1>0 DEF TypeOK, OthersKept, Kept, Reply, readVars
<1>5. pc'[w] = "done" /\ status'[w] = code /\ req'[w] = req[w] /\ now' \in Nat
  BY <1>0 DEF TypeOK, Reply
<1>6. StepOK(w)'
  BY <1>0, <1>1, <1>5, AnswerOK
<1> QED
  BY <1>1, <1>3, <1>4, <1>6, WorkerStep

(* DeleteUser deletes the refresh tokens, or logs that it could not.        *)
LEMMA PurgeStep ==
    ASSUME IInv, NEW w \in Workers, PurgeTokens(w)
    PROVE  IInv' /\ RowsKept
<1>0. tokens \in [TokenIds -> TokenRow \cup {None}]
  BY DEF IInv, TypeOK
<1>1. req[w].op # "Refresh" /\ 204 \in Codes
  BY DEF IInv, StepOK, RouteOK, PurgeTokens, Codes
<1>2. /\ tokens' \in [TokenIds -> TokenRow \cup {None}]
      /\ \A t \in TokenIds : tokens'[t] = tokens[t] \/ tokens'[t] = None
  BY <1>0 DEF PurgeTokens
<1> QED
  BY <1>1, <1>2, DropAnswer DEF PurgeTokens

(* The token a refresh past its lookup was asked to exchange. *)
LEMMA RefreshReady ==
    ASSUME IInv, NEW w \in Workers, pc[w] \in {"dropExpired", "refreshLoad", "rotate"}
    PROVE  /\ req[w].op = "Refresh" /\ req[w].token \in TokenIds /\ req[w].token \in minted
           /\ ~req[w].replay
           /\ cred[w] \in TokenRow
           /\ tokens \in [TokenIds -> TokenRow \cup {None}]
<1>1. TypeOK /\ RouteOK(w) /\ SessionStepOK(w)
  BY DEF IInv, StepOK
<1>2. req[w].op = "Refresh" /\ cred[w] # None /\ req[w].token # None /\ ~req[w].replay
  BY <1>1 DEF RouteOK, SessionStepOK
<1> QED
  BY <1>1, <1>2 DEF TypeOK, SessionStepOK

(* Refresh deletes a token it found expired.                                *)
LEMMA DropExpiredStep ==
    ASSUME IInv, NEW w \in Workers, DropExpired(w)
    PROVE  IInv' /\ RowsKept
<1>1. /\ tokens' \in [TokenIds -> TokenRow \cup {None}]
      /\ \A t \in TokenIds : tokens'[t] = tokens[t] \/ tokens'[t] = None
  BY RefreshReady DEF DropExpired, Delete
<1> QED
  BY <1>1, DropAnswer DEF DropExpired, Codes

(* Refresh deletes the token it exchanges; it comes to mint without it.     *)
LEMMA RotateStep ==
    ASSUME IInv, NEW w \in Workers, Rotate(w)
    PROVE  IInv' /\ RowsKept
<1> DEFINE t == req[w].token
<1>0. TypeOK /\ TablesOK /\ StepOK(w) /\ pc[w] = "rotate"
  BY DEF IInv, Rotate
<1>1. /\ t \in TokenIds /\ req[w].op = "Refresh" /\ ~req[w].replay
      /\ tokens \in [TokenIds -> TokenRow \cup {None}]
  BY <1>0, RefreshReady
<1>2. UNCHANGED <<users, minted, readVars, clientVars, now, req>>
  BY DEF Rotate
<1>3. CASE \/ Delete(t) /\ Reply(w, 500)
           \/ Reply(w, 500) /\ UNCHANGED tokens
  <2>1. /\ tokens' \in [TokenIds -> TokenRow \cup {None}]
        /\ \A s \in TokenIds : tokens'[s] = tokens[s] \/ tokens'[s] = None
    BY <1>1, <1>3 DEF Delete
  <2> QED
    BY <1>2, <1>3, <2>1, DropAnswer DEF Codes
<1>4. CASE Delete(t) /\ Goto(w, "mint")
  <2>1. /\ tokens' \in [TokenIds -> TokenRow \cup {None}]
        /\ \A s \in TokenIds : tokens'[s] = tokens[s] \/ tokens'[s] = None
        /\ tokens'[t] = None
    BY <1>1, <1>4 DEF Delete
  <2>2. TablesOK' /\ RowsKept /\ TokensKept
    BY <1>0, <1>2, <2>1, DropTokens
  <2>3. TypeOK'
    BY <1>0, <1>2, <1>4, <2>1 DEF TypeOK, Goto, Labels, readVars, clientVars
  <2>4. OthersKept(w)
    BY <1>0, <1>2, <1>4 DEF TypeOK, OthersKept, Kept, Goto, readVars
  <2>5. /\ pc'[w] = "mint" /\ status'[w] = status[w]
        /\ UNCHANGED <<users, minted, req, actor, seen, cred, access, now, spent>>
    BY <1>0, <1>2, <1>4 DEF TypeOK, Goto, readVars, clientVars
  <2>6. RouteOK(w)'
    BY <1>0, <1>1, <2>5 DEF StepOK, RouteOK
  <2>7. AdminStepOK(w)'
    BY <1>1, <2>5 DEF AdminStepOK, AdminOps
  <2>8. SessionStepOK(w)'
    BY <1>0, <1>1, <2>1, <2>5 DEF StepOK, SessionStepOK
  <2> QED
    BY <1>0, <2>2, <2>3, <2>4, <2>6, <2>7, <2>8, WorkerStep DEF StepOK
<1> QED
  BY <1>3, <1>4 DEF Rotate, Committed
-----------------------------------------------------------------------------
(* The COUNT of ListUsers is a number.                                      *)
LEMMA UserTotalNat == UserTotal \in Nat
<1>1. {u \in UserIds : Exists(u)} \in SUBSET UserIds
  OBVIOUS
<1>2. IsFiniteSet({u \in UserIds : Exists(u)})
  BY <1>1, FS_Subset, ConstantsAssumption
<1> QED
  BY <1>2, FS_CardinalityType DEF UserTotal

(* So is the length of its page.                                            *)
LEMMA PageLengthNat ==
    ASSUME NEW n \in Nat, NEW limit, NEW offset
    PROVE  PageLength(n, PageSize(limit), PageStart(offset)) \in Nat
<1>1. PageSize(limit) \in Nat /\ PageStart(offset) \in Nat
  BY PageAssumption DEF PageSize, PageStart
<1> QED
  BY <1>1 DEF PageLength

(* The count and the page of ListUsers. *)
LEMMA ListStep ==
    ASSUME IInv, NEW w \in Workers, ListCount(w) \/ ListPage(w)
    PROVE  IInv' /\ RowsKept
<1>0. TypeOK /\ StepOK(w) /\ req[w] \in Request
  BY DEF IInv, TypeOK
<1>1. pc[w] \in {"listCount", "listPage"} /\ req[w].op = "ListUsers"
  BY <1>0 DEF ListCount, ListPage, StepOK, RouteOK
<1>2. UserTotal \in Nat /\ PageLength(UserTotal, PageSize(req[w].limit), PageStart(req[w].offset)) \in Nat
  BY <1>0, UserTotalNat, PageLengthNat DEF Request
<1>3. tally' \in [Workers -> Tally]
  BY <1>0, <1>2 DEF TypeOK, Tally, ListCount, ListPage
<1>4. LocalsOnly(w)
  BY <1>0, <1>3 DEF ListCount, ListPage, accountsFrame, LocalsOnly, TypeOK, storeVars, clientVars
<1>5. CASE \E code \in {200, 500} : Reply(w, code)
  BY <1>1, <1>4, <1>5, PlainAnswer DEF Codes
<1>6. CASE pc[w] = "listCount" /\ Goto(w, "listPage")
  <2>1. SUFFICES ASSUME pc'[w] = "listPage", status'[w] = status[w], req'[w] = req[w]
                 PROVE  StepOK(w)'
    BY <1>4, <1>6, PlainMove DEF Labels
  <2>2. UNCHANGED <<users, tokens, minted, spent, now, actor>>
    BY <1>4 DEF LocalsOnly, ListCount, ListPage, accountsFrame, storeVars, clientVars
  <2>3. RouteOK(w)'
    BY <1>0, <1>1, <1>6, <2>1 DEF StepOK, RouteOK
  <2>4. AdminStepOK(w)'
    BY <1>0, <1>1, <2>1, <2>2 DEF StepOK, AdminStepOK, Working, IsAdmin
  <2>5. SessionStepOK(w)'
    BY <1>0, <1>1, <2>1, <2>2 DEF StepOK, SessionStepOK
  <2> QED
    BY <2>3, <2>4, <2>5 DEF StepOK
<1> QED
  BY <1>5, <1>6 DEF ListCount, ListPage

(* Refresh looks its token up: a replayed one is not found. *)
LEMMA RefreshFindStep ==
    ASSUME IInv, NEW w \in Workers, RefreshFind(w)
    PROVE  IInv' /\ RowsKept
<1> DEFINE t == req[w].token
<1>0. TypeOK /\ TablesOK /\ StepOK(w) /\ req[w] \in Request /\ now \in Nat
  BY DEF IInv, TypeOK
<1>1. pc[w] = "refreshFind" /\ req[w].op = "Refresh" /\ req[w].arrived \in Nat
  BY <1>0 DEF RefreshFind, StepOK, RouteOK, Request
<1>2. CASE (\E code \in {401, 500} : Reply(w, code)) /\ UNCHANGED cred
  <2>1. LocalsOnly(w)
    BY <1>0, <1>2 DEF RefreshFind, LocalsOnly, TypeOK
  <2> QED
    BY <1>2, <2>1, PlainAnswer DEF Codes
<1>3. CASE /\ t # None /\ tokens[t] # None
           /\ cred' = [cred EXCEPT ![w] = tokens[t]]
           /\ Goto(w, IF Expired(tokens[t]) THEN "dropExpired" ELSE "refreshLoad")
  <2> DEFINE label == IF Expired(tokens[t]) THEN "dropExpired" ELSE "refreshLoad"
  <2>1. t \in TokenIds /\ tokens[t] \in TokenRow
    BY <1>0, <1>3 DEF TypeOK, Request
  <2>2. LocalsOnly(w)
    BY <1>0, <1>3, <2>1 DEF RefreshFind, LocalsOnly, TypeOK
  <2>3. SUFFICES ASSUME pc'[w] = label, status'[w] = status[w], req'[w] = req[w]
                 PROVE  StepOK(w)'
    BY <1>3, <2>2, PlainMove DEF Labels
  <2>4. cred'[w] = tokens[t] /\ UNCHANGED <<users, tokens, minted, spent, now, actor>>
    BY <1>0, <1>3 DEF RefreshFind, TypeOK, storeVars, clientVars
  <2>5. ~req[w].replay /\ Exists(tokens[t].user) /\ t \in minted
    BY <1>0, <1>1, <1>3, <2>1 DEF TablesOK, StepOK, SessionStepOK
  <2>6. label = "refreshLoad" => req[w].arrived <= tokens[t].exp
    BY <1>0, <1>1, <2>1 DEF Expired, StepOK, SessionStepOK, TokenRow
  <2>7. RouteOK(w)'
    BY <1>0, <1>1, <2>3 DEF StepOK, RouteOK
  <2>8. AdminStepOK(w)'
    BY <1>1, <2>3 DEF AdminStepOK, AdminOps
  <2>9. SessionStepOK(w)'
    BY <1>0, <1>1, <1>3, <2>3, <2>4, <2>5, <2>6 DEF StepOK, SessionStepOK, RouteOK, Exists
  <2> QED
    BY <2>7, <2>8, <2>9 DEF StepOK
<1> QED
  BY <1>2, <1>3 DEF RefreshFind

(* Refresh loads the owner of its token, who is always there.               *)
LEMMA RefreshLoadStep ==
    ASSUME IInv, NEW w \in Workers, RefreshLoad(w)
    PROVE  IInv' /\ RowsKept
<1> DEFINE u == cred[w].user
<1>0. TypeOK /\ StepOK(w) /\ pc[w] = "refreshLoad"
  BY DEF IInv, RefreshLoad
<1>1. req[w].op = "Refresh" /\ u \in UserIds /\ Exists(u) /\ ~req[w].replay
  BY <1>0, RefreshReady DEF StepOK, SessionStepOK, TokenRow
<1>2. CASE Reply(w, 500) /\ UNCHANGED seen
  <2>1. LocalsOnly(w) /\ 500 \in Codes
    BY <1>0, <1>2 DEF RefreshLoad, LocalsOnly, TypeOK, Codes
  <2> QED
    BY <1>2, <2>1, PlainAnswer
<1>3. CASE SelectUser(w, u) /\ Goto(w, "rotate")
  <2>1. CopyOf(u) \in Copy /\ CopyOf(u) # None
    BY <1>0, <1>1, CopyTyped, ConstantsAssumption
  <2>2. LocalsOnly(w)
    BY <1>0, <1>3, <2>1 DEF RefreshLoad, LocalsOnly, TypeOK, SelectUser
  <2>3. SUFFICES ASSUME pc'[w] = "rotate", status'[w] = status[w], req'[w] = req[w]
                 PROVE  StepOK(w)'
    BY <1>3, <2>2, PlainMove DEF Labels
  <2>4. /\ seen'[w] = CopyOf(u)
        /\ UNCHANGED <<users, tokens, minted, spent, now, actor, cred>>
    BY <1>0, <1>3 DEF RefreshLoad, TypeOK, SelectUser, storeVars, clientVars
  <2>5. RouteOK(w)'
    BY <1>0, <1>1, <2>3 DEF StepOK, RouteOK
  <2>6. AdminStepOK(w)'
    BY <1>1, <2>3 DEF AdminStepOK, AdminOps
  <2>7. SessionStepOK(w)'
    BY <1>0, <1>1, <2>1, <2>3, <2>4 DEF StepOK, SessionStepOK
  <2> QED
    BY <2>5, <2>6, <2>7 DEF StepOK
<1> QED
  BY <1>2, <1>3 DEF RefreshLoad
-----------------------------------------------------------------------------
(* The middleware: a request that passes it has an ADMIN for its caller and *)
(* an allowed role for its input.                                           *)
LEMMA AuthenticateStep ==
    ASSUME IInv, NEW w \in Workers, Authenticate(w)
    PROVE  IInv' /\ RowsKept
<1> DEFINE r == req[w]
           u == r.bearer.sub
<1>0. TypeOK /\ StepOK(w) /\ r \in Request /\ pc[w] = "auth"
  BY DEF IInv, TypeOK, Authenticate
<1>1. UNCHANGED <<storeVars, seen, cred, access, tally, clientVars, now, req>>
  BY DEF Authenticate
<1>2. Verifies(r.bearer) => u \in UserIds
  BY <1>0 DEF Verifies, Request, Jwt
<1>3. CASE \E code \in {200, 400, 401, 403} :
             /\ Reply(w, code)
             /\ code = 200 => r.op = "Me"
             /\ actor' = actor \/ (actor' = [actor EXCEPT ![w] = u] /\ u \in UserIds)
  <2>1. LocalsOnly(w)
    BY <1>0, <1>1, <1>3 DEF LocalsOnly, TypeOK
  <2> QED
    BY <1>3, <2>1, PlainAnswer DEF Codes
<1>4. CASE /\ Verifies(r.bearer) /\ Exists(u) /\ RequireAdminRole(r, u)
           /\ actor' = [actor EXCEPT ![w] = u]
           /\ r.op \in AdminOps /\ ~BadInput(r, u) /\ Goto(w, Entry(r.op))
  <2> DEFINE label == Entry(r.op)
  <2>1. /\ r.op = "CreateUser" => label = "roleCount"
        /\ r.op = "ListUsers" => label = "listCount"
        /\ r.op = "UpdateUserStatus" => label = "statusFind"
        /\ r.op = "UpdateUserRole" => label = "roleCount"
        /\ r.op = "DeleteUser" => label = "deleteFind"
    BY DEF Entry
  <2> HIDE DEF label
  <2>2. LocalsOnly(w)
    BY <1>0, <1>1, <1>2, <1>4 DEF LocalsOnly, TypeOK
  <2>3. label \in Labels
    BY <1>4, <2>1 DEF AdminOps, Labels
  <2>4. SUFFICES ASSUME pc'[w] = label, status'[w] = status[w], req'[w] = r
                 PROVE  StepOK(w)'
    BY <1>4, <2>2, <2>3, PlainMove DEF label
  <2>5. actor'[w] = u /\ UNCHANGED <<users, tokens, minted, spent, now>>
    BY <1>0, <1>1, <1>4 DEF TypeOK, storeVars, clientVars
  <2>6. IsAdmin(u) /\ u \in UserIds
    BY <1>2, <1>4 DEF RequireAdminRole
  <2>7. r.op \in {"CreateUser", "UpdateUserRole"} => r.role \in AllowedRoles
    BY <1>4 DEF BadInput
  <2>8. RouteOK(w)'
    BY <1>0, <1>4, <2>1, <2>4 DEF StepOK, RouteOK, AdminOps
  <2>9. AdminStepOK(w)'
    BY <1>4, <2>1, <2>4, <2>5, <2>6, <2>7 DEF AdminStepOK, AdminOps, IsAdmin
  <2>10. SessionStepOK(w)'
    BY <1>0, <1>4, <2>1, <2>4, <2>5 DEF StepOK, SessionStepOK, AdminOps
  <2> QED
    BY <2>8, <2>9, <2>10 DEF StepOK
<1> QED
  BY <1>2, <1>3, <1>4 DEF Authenticate

(* GenerateToken yields an access token.                                    *)
LEMMA NewJwtTyped ==
    ASSUME TypeOK, NEW u \in UserIds
    PROVE  NewJwt(u) \in Jwt /\ NewJwt(u) # None
<1>1. now + JWTTTL \in Nat
  BY ConstantsAssumption DEF TypeOK
<1> QED
  BY <1>1, ConstantsAssumption DEF NewJwt, Jwt

(* Login finds its row and makes the access token.                          *)
LEMMA LoginFindStep ==
    ASSUME IInv, NEW w \in Workers, LoginFind(w)
    PROVE  IInv' /\ RowsKept
<1> DEFINE r == req[w]
<1>0. TypeOK /\ StepOK(w)
  BY DEF IInv
<1>1. /\ pc[w] = "loginFind" /\ r.op = "Login"
      /\ UNCHANGED <<storeVars, actor, cred, tally, clientVars, now, req>>
  BY <1>0 DEF LoginFind, StepOK, RouteOK
<1>2. CASE (\E code \in {401, 500} : Reply(w, code)) /\ UNCHANGED <<seen, access>>
  <2>1. LocalsOnly(w)
    BY <1>0, <1>1, <1>2 DEF LocalsOnly, TypeOK
  <2> QED
    BY <1>2, <2>1, PlainAnswer DEF Codes
<1>3. ASSUME NEW u \in UserIds, Exists(u),
             seen' = [seen EXCEPT ![w] = CopyOf(u)],
             access' = [access EXCEPT ![w] = NewJwt(u)],
             Goto(w, "mint")
      PROVE  IInv' /\ RowsKept
  <2>1. CopyOf(u) \in Copy /\ CopyOf(u) # None
    BY <1>0, <1>3, CopyTyped, ConstantsAssumption
  <2>2. NewJwt(u) \in Jwt /\ NewJwt(u) # None
    BY <1>0, NewJwtTyped
  <2>3. LocalsOnly(w)
    BY <1>0, <1>1, <1>3, <2>1, <2>2 DEF LocalsOnly, TypeOK
  <2>4. SUFFICES ASSUME pc'[w] = "mint", status'[w] = status[w], req'[w] = r
                 PROVE  StepOK(w)'
    BY <1>3, <2>3, PlainMove DEF Labels
  <2>5. /\ seen'[w] = CopyOf(u) /\ access'[w] = NewJwt(u)
        /\ UNCHANGED <<users, tokens, minted, spent, now>>
    BY <1>0, <1>1, <1>3 DEF TypeOK, storeVars, clientVars
  <2>6. RouteOK(w)'
    BY <1>0, <1>1, <2>4 DEF StepOK, RouteOK
  <2>7. AdminStepOK(w)'
    BY <1>1, <2>4 DEF AdminStepOK, AdminOps
  <2>8. SessionStepOK(w)'
    BY <1>0, <1>1, <2>1, <2>2, <2>4, <2>5 DEF StepOK, SessionStepOK
  <2> QED
    BY <2>6, <2>7, <2>8 DEF StepOK
<1> QED
  BY <1>2, <1>3 DEF LoginFind, Named

(* The INSERT of a fresh token; the one it was exchanged for is gone. *)
LEMMA MintStep ==
    ASSUME IInv, NEW w \in Workers, Mint(w)
    PROVE  IInv' /\ RowsKept
<1> DEFINE r == req[w]
           login == r.op = "Login"
           row == [user |-> seen[w].id, exp |-> now + RefreshTTL]
           jwt == IF login THEN access[w] ELSE NewJwt(seen[w].id)
<1>0. TypeOK /\ TablesOK /\ StepOK(w) /\ r \in Request /\ now \in Nat
  BY DEF IInv, TypeOK
<1>1. /\ pc[w] = "mint" /\ r.op \in {"Login", "Refresh"}
      /\ UNCHANGED <<users, readVars, now, req>>
  BY <1>0 DEF Mint, StepOK, RouteOK
<1>2. seen[w].id \in UserIds
  BY <1>0, <1>1 DEF TypeOK, StepOK, SessionStepOK, Copy
<1>3. row \in TokenRow /\ row # None /\ row.user = seen[w].id /\ row.exp \in Nat
  <2>1. now + RefreshTTL \in Nat
    BY <1>0, ConstantsAssumption
  <2> QED
    BY <1>2, <2>1, ConstantsAssumption DEF TokenRow
<1>4. jwt \in Jwt
  <2>1. login => access[w] \in Jwt
    BY <1>0, <1>1 DEF TypeOK, StepOK, SessionStepOK
  <2> QED
    BY <1>0, <1>2, <2>1, NewJwtTyped
<1>5. r.op = "Refresh" => /\ r.token \in minted /\ r.token \in TokenIds /\ ~r.replay
                          /\ tokens[r.token] = None
                          /\ cred[w] # None /\ r.arrived <= cred[w].exp
  BY <1>0, <1>1 DEF StepOK, SessionStepOK, TypeOK
<1> HIDE DEF row, jwt
<1> DEFINE Minted(t, code) ==
             /\ Exists(row.user)
             /\ Reply(w, code)
             /\ tokens' = [tokens EXCEPT ![t] = row] /\ minted' = minted \cup {t}
             /\ jwts' = jwts \/ jwts' = jwts \cup {jwt}
             /\ held' = held \/ held' = held \cup {[token |-> t, exp |-> row.exp]}
             /\ spent' = spent \/ (r.op = "Refresh" /\ spent' = spent \cup {r.token})
<1>6. CASE Reply(w, 500) /\ UNCHANGED <<tokens, minted, clientVars>>
  <2>1. LocalsOnly(w) /\ 500 \in Codes
    BY <1>0, <1>1, <1>6 DEF LocalsOnly, TypeOK, readVars, storeVars, Codes
  <2> QED
    BY <1>6, <2>1, PlainAnswer
<1>7. ASSUME NEW t \in TokenIds \ minted, NEW code \in {200, 500}, Minted(t, code)
      PROVE  IInv' /\ RowsKept
  <2>1. RowsKept
    BY <1>1 DEF RowsKept, IsAdmin, Exists
  <2>2. /\ tokens'[t] = row
        /\ \A s \in TokenIds \ {t} : tokens'[s] = tokens[s]
        /\ tokens' \in [TokenIds -> TokenRow \cup {None}]
    BY <1>0, <1>3, <1>7 DEF TypeOK
  <2>3. TokensKept
    BY <1>0, <1>1, <1>7, <2>2 DEF TokensKept, TypeOK
  <2>4. held' \subseteq [token : minted', exp : Nat]
    <3>1. held \subseteq [token : minted', exp : Nat]
      BY <1>0, <1>7 DEF TypeOK
    <3>2. [token |-> t, exp |-> row.exp] \in [token : minted', exp : Nat]
      BY <1>3, <1>7
    <3> QED
      BY <1>7, <3>1, <3>2
  <2>5. minted' \subseteq TokenIds /\ spent' \subseteq minted' /\ jwts' \subseteq Jwt
    BY <1>0, <1>4, <1>5, <1>7 DEF TypeOK
  <2>6. pc' \in [Workers -> Labels] /\ status' \in [Workers -> Codes]
    BY <1>0, <1>7 DEF TypeOK, Reply, Labels, Codes
  <2>7. TypeOK'
    BY <1>0, <1>1, <2>2, <2>4, <2>5, <2>6 DEF TypeOK, readVars
  <2>8. OthersKept(w)
    BY <1>0, <1>1, <1>7 DEF TypeOK, OthersKept, Kept, Reply, readVars
  <2>9. TablesOK'
    <3>1. UniqueIdentities'
      BY <1>0, <1>1 DEF TablesOK, UniqueIdentities, Exists, Clash
    <3>2. (\A v \in UserIds : Exists(v) =>
             /\ users[v].username # <<>> /\ users[v].email # <<>>
             /\ users[v].role.base = "ADMIN" => IsAdmin(v))'
      BY <1>0, <1>1 DEF TablesOK, Exists, IsAdmin
    <3>3. (\A s \in TokenIds : tokens[s] # None => s \in minted /\ Exists(tokens[s].user))'
      BY <1>0, <1>1, <1>7, <2>2 DEF TablesOK, Exists
    <3>4. (\A s \in spent : tokens[s] = None)'
      BY <1>0, <1>5, <1>7, <2>2 DEF TablesOK, TypeOK
    <3>5. (\A h \in held : h.token \in minted)'
      BY <2>4
    <3> QED
      BY <3>1, <3>2, <3>3, <3>4, <3>5 DEF TablesOK
  <2>10. /\ pc'[w] = "done" /\ status'[w] = code
         /\ UNCHANGED <<users, now, req, actor, seen, cred, access>>
    BY <1>0, <1>1, <1>7 DEF TypeOK, Reply, readVars
  <2>11. RouteOK(w)' /\ AdminStepOK(w)'
    BY <2>10 DEF RouteOK, AdminStepOK, Working
  <2>12. SessionStepOK(w)'
    BY <1>0, <1>1, <1>5, <2>3, <2>10 DEF StepOK, SessionStepOK, TokensKept
  <2> QED
    BY <2>1, <2>3, <2>7, <2>8, <2>9, <2>11, <2>12, WorkerStep DEF StepOK
<1>8. CASE \E t \in TokenIds \ minted :
                /\ Exists(row.user)
                /\ tokens' = [tokens EXCEPT ![t] = row]
                /\ minted' = minted \cup {t}
                /\ \/ /\ login \/ SecretSet
                      /\ Reply(w, 200)
                      /\ jwts' = jwts \cup {jwt}
                      /\ held' = held \cup {[token |-> t, exp |-> row.exp]}
                      /\ spent' = IF login THEN spent ELSE spent \cup {r.token}
                   \/ Reply(w, 500) /\ UNCHANGED clientVars
  <2>1. PICK t \in TokenIds \ minted :
          /\ Exists(row.user)
          /\ tokens' = [tokens EXCEPT ![t] = row]
          /\ minted' = minted \cup {t}
          /\ \/ /\ login \/ SecretSet
                /\ Reply(w, 200)
                /\ jwts' = jwts \cup {jwt}
                /\ held' = held \cup {[token |-> t, exp |-> row.exp]}
                /\ spent' = IF login THEN spent ELSE spent \cup {r.token}
             \/ Reply(w, 500) /\ UNCHANGED clientVars
    BY <1>8
  <2>2. PICK code \in {200, 500} : Reply(w, code)
    BY <2>1
  <2>3. /\ jwts' = jwts \/ jwts' = jwts \cup {jwt}
        /\ held' = held \/ held' = held \cup {[token |-> t, exp |-> row.exp]}
    BY <2>1 DEF clientVars
  <2>4. spent' = spent \/ (r.op = "Refresh" /\ spent' = spent \cup {r.token})
    BY <1>1, <2>1 DEF clientVars
  <2>5. Minted(t, code)
    BY <2>1, <2>2, <2>3, <2>4
  <2> HIDE DEF Minted
  <2> QED
    BY <1>7, <2>5
<1> QED
  BY <1>6, <1>8 DEF Mint, row, jwt
-----------------------------------------------------------------------------
(* A request that tells the truth about its token. *)
Honest(r, op) ==
    /\ r \in Request /\ r.op = op /\ r.arrived <= now
    /\ r.token # None => r.token \in minted
    /\ r.replay => op = "Refresh" /\ r.token \in spent

(* An empty call of an endpoint is an honest request.                       *)
LEMMA CallTyped ==
    ASSUME TypeOK, NEW op \in Endpoints
    PROVE  Honest(Call(op), op)
<1>1. NoRequest \in Request
  BY DEF NoRequest, Request, Name, Digits
<1>2. Call(op) \in Request /\ Call(op).op = op
  BY <1>1 DEF Call, Request
<1>3. Call(op).arrived = 0 /\ Call(op).token = None /\ Call(op).replay = FALSE
  BY DEF Call, NoRequest
<1> QED
  BY <1>2, <1>3 DEF Honest, TypeOK

(* An honest request that arrives finds its worker idle and sets it off. *)
LEMMA AcceptStep ==
    ASSUME IInv, NEW w \in Workers, NEW r, Honest(r, r.op), pc[w] = "idle", Accept(w, r)
    PROVE  IInv' /\ RowsKept
<1>0. TypeOK /\ StepOK(w) /\ status[w] = 0
  BY DEF IInv, StepOK, RouteOK
<1>1. /\ r \in Request /\ req' = [req EXCEPT ![w] = r]
      /\ UNCHANGED <<storeVars, readVars, clientVars, now>>
  BY DEF Honest, Accept
<1>2. r.op \in Endpoints
  BY InputAssumption DEF Accept
<1>3. PICK label \in {"auth", "userCount", "loginFind", "refreshFind", "done"} :
        /\ pc' = [pc EXCEPT ![w] = label]
        /\ status' = status \/ (label = "done" /\ status' = [status EXCEPT ![w] = 400])
        /\ label = "auth" => r.op \notin PublicOps
        /\ label = "userCount" => r.op = "Register"
        /\ label = "loginFind" => r.op = "Login"
        /\ label = "refreshFind" => r.op = "Refresh"
        /\ label = "done" => ~r.wellFormed
  <2>1. CASE Goto(w, "auth") /\ r.op \notin PublicOps
    BY <2>1 DEF Goto
  <2>2. CASE r.op \in PublicOps /\ r.wellFormed /\ Goto(w, Entry(r.op))
    <3>1. /\ r.op = "Register" => Entry(r.op) = "userCount"
          /\ r.op = "Login" => Entry(r.op) = "loginFind"
          /\ r.op = "Refresh" => Entry(r.op) = "refreshFind"
      BY DEF Entry
    <3> QED
      BY <2>2, <3>1 DEF Goto, PublicOps
  <2>3. CASE ~r.wellFormed /\ Reply(w, 400)
    BY <2>3 DEF Reply
  <2> QED
    BY <2>1, <2>2, <2>3 DEF Accept
<1>4. pc'[w] = label /\ status'[w] \in {0, 400} /\ req'[w] = r
  BY <1>0, <1>1, <1>3 DEF TypeOK
<1>5. status'[w] # 0 => label = "done"
  BY <1>0, <1>3, <1>4 DEF TypeOK
<1>6. TypeOK'
  <2>1. pc' \in [Workers -> Labels] /\ status' \in [Workers -> Codes]
    BY <1>0, <1>3 DEF TypeOK, Labels, Codes
  <2> QED
    BY <1>0, <1>1, <2>1 DEF TypeOK, storeVars, readVars, clientVars
<1>7. OthersKept(w)
  BY <1>0, <1>1, <1>3 DEF TypeOK, OthersKept, Kept, readVars
<1>8. RouteOK(w)'
  BY <1>3, <1>4, <1>5 DEF RouteOK
<1>9. AdminStepOK(w)'
  BY <1>3, <1>4 DEF AdminStepOK, Working, AdminOps
<1>10. SessionStepOK(w)'
  <2>1. minted' = minted /\ spent' = spent /\ now' = now
    BY <1>1 DEF storeVars, clientVars
  <2>2. r.replay => label # "auth"
    BY <1>3 DEF Honest, PublicOps
  <2> QED
    BY <1>3, <1>4, <2>1, <2>2 DEF SessionStepOK, Honest
<1> QED
  BY <1>1, <1>6, <1>7, <1>8, <1>9, <1>10, QuietStep DEF StepOK

(* The arrival of each kind of request: Register,                           *)
LEMMA RegisterCallStep ==
    ASSUME IInv, NEW w \in Workers, pc[w] = "idle", RegisterCall(w)
    PROVE  IInv' /\ RowsKept
<1>1. PICK n \in Usernames, e \in Emails, p \in Passwords \cup {None} :
        Accept(w, [Call("Register") EXCEPT !.username = n, !.email = e, !.password = p])
  BY DEF RegisterCall
<1> DEFINE r == [Call("Register") EXCEPT !.username = n, !.email = e, !.password = p]
<1>2. TypeOK /\ TablesOK /\ Honest(Call("Register"), "Register")
  BY CallTyped DEF IInv, Endpoints, PublicOps
<1>3. Honest(r, "Register") /\ r.op = "Register"
  BY <1>2, InputAssumption DEF Honest, Request
<1> QED
  BY <1>1, <1>3, AcceptStep

(* Login, with a name sent before or a name stored,                         *)
LEMMA LoginCallStep ==
    ASSUME IInv, NEW w \in Workers, pc[w] = "idle", LoginCall(w)
    PROVE  IInv' /\ RowsKept
<1>1. PICK n \in Names \cup StoredNames, p \in Passwords :
        Accept(w, [Call("Login") EXCEPT !.username = n, !.password = p])
  BY DEF LoginCall
<1> DEFINE r == [Call("Login") EXCEPT !.username = n, !.password = p]
<1>2. TypeOK /\ TablesOK /\ Honest(Call("Login"), "Login")
  BY CallTyped DEF IInv, Endpoints, PublicOps
<1>4. n \in Name
  BY <1>2, InputAssumption DEF Names, StoredNames, TypeOK, Exists, Row
<1>3. Honest(r, "Login") /\ r.op = "Login"
  BY <1>2, <1>4 DEF Honest, Request
<1> QED
  BY <1>1, <1>3, AcceptStep

(* Refresh, with a token some client was given,                             *)
LEMMA RefreshCallStep ==
    ASSUME IInv, NEW w \in Workers, pc[w] = "idle", RefreshCall(w)
    PROVE  IInv' /\ RowsKept
<1>1. PICK t \in {h.token : h \in held} \cup {None} :
        Accept(w, [Call("Refresh") EXCEPT !.token = t, !.arrived = now, !.replay = (t \in spent)])
  BY DEF RefreshCall
<1> DEFINE replay == t \in spent
           r == [Call("Refresh") EXCEPT !.token = t, !.arrived = now, !.replay = replay]
<1>2. TypeOK /\ TablesOK /\ Honest(Call("Refresh"), "Refresh")
  BY CallTyped DEF IInv, Endpoints, PublicOps
<1>3. t = None \/ (t \in minted /\ t \in TokenIds)
  BY <1>2 DEF TablesOK, TypeOK
<1>4. now \in Nat /\ replay \in BOOLEAN /\ (replay => t \in spent)
  BY <1>2 DEF TypeOK
<1>5. Accept(w, r)
  BY <1>1
<1> HIDE DEF replay
<1>6. Honest(r, "Refresh") /\ r.op = "Refresh"
  <2>1. Call("Refresh") \in Request /\ Call("Refresh").op = "Refresh" /\ now <= now
    BY <1>2, <1>4 DEF Honest
  <2>2. r \in Request
    BY <1>3, <1>4, <2>1 DEF Request
  <2>3. /\ r.op = "Refresh" /\ r.token = t /\ r.arrived = now
    BY <2>1 DEF Request
  <2>4. r.replay = replay
    BY <2>1 DEF Request
  <2> QED
    BY <1>3, <1>4, <2>1, <2>2, <2>3, <2>4 DEF Honest
<1> QED
  BY <1>5, <1>6, AcceptStep

(* Me,                                                                      *)
LEMMA MeCallStep ==
    ASSUME IInv, NEW w \in Workers, pc[w] = "idle", MeCall(w)
    PROVE  IInv' /\ RowsKept
<1>1. PICK b \in jwts \cup {None} :
        Accept(w, [Call("Me") EXCEPT !.bearer = b])
  BY DEF MeCall
<1> DEFINE r == [Call("Me") EXCEPT !.bearer = b]
<1>2. TypeOK /\ TablesOK /\ Honest(Call("Me"), "Me")
  BY CallTyped DEF IInv, Endpoints, PublicOps
<1>3. Honest(r, "Me") /\ r.op = "Me"
  BY <1>2 DEF Honest, Request, TypeOK
<1> QED
  BY <1>1, <1>3, AcceptStep

(* CreateUser,                                                              *)
LEMMA CreateCallStep ==
    ASSUME IInv, NEW w \in Workers, pc[w] = "idle", CreateCall(w)
    PROVE  IInv' /\ RowsKept
<1>1. PICK b \in jwts, n \in Usernames, e \in Emails, p \in Passwords, role \in RequestRoles :
        Accept(w, [Call("CreateUser") EXCEPT !.bearer = b, !.username = n, !.email = e,
                                       !.password = p, !.role = role])
  BY DEF CreateCall
<1> DEFINE r == [Call("CreateUser") EXCEPT !.bearer = b, !.username = n, !.email = e,
                                       !.password = p, !.role = role]
<1>2. TypeOK /\ TablesOK /\ Honest(Call("CreateUser"), "CreateUser")
  BY CallTyped DEF IInv, Endpoints, AdminOps
<1>3. Honest(r, "CreateUser") /\ r.op = "CreateUser"
  BY <1>2, InputAssumption DEF Honest, Request, TypeOK
<1> QED
  BY <1>1, <1>3, AcceptStep

(* ListUsers,                                                               *)
LEMMA ListCallStep ==
    ASSUME IInv, NEW w \in Workers, pc[w] = "idle", ListCall(w)
    PROVE  IInv' /\ RowsKept
<1>1. PICK b \in jwts, n \in Limits, k \in Offsets :
        Accept(w, [Call("ListUsers") EXCEPT !.bearer = b, !.limit = n, !.offset = k])
  BY DEF ListCall
<1> DEFINE r == [Call("ListUsers") EXCEPT !.bearer = b, !.limit = n, !.offset = k]
<1>2. TypeOK /\ TablesOK /\ Honest(Call("ListUsers"), "ListUsers")
  BY CallTyped DEF IInv, Endpoints, AdminOps
<1>3. Honest(r, "ListUsers") /\ r.op = "ListUsers"
  <2>1. b \in Jwt /\ n \in Digits /\ k \in Digits
    BY <1>1, <1>2, InputAssumption DEF TypeOK
  <2> QED
    BY <1>2, <2>1 DEF Honest, Request
<1> QED
  BY <1>1, <1>3, AcceptStep

(* UpdateUserStatus,                                                        *)
LEMMA StatusCallStep ==
    ASSUME IInv, NEW w \in Workers, pc[w] = "idle", StatusCall(w)
    PROVE  IInv' /\ RowsKept
<1>1. PICK b \in jwts, u \in UserIds \cup {Malformed}, a \in BOOLEAN :
        Accept(w, [Call("UpdateUserStatus") EXCEPT !.bearer = b, !.target = u, !.active = a])
  BY DEF StatusCall
<1> DEFINE r == [Call("UpdateUserStatus") EXCEPT !.bearer = b, !.target = u, !.active = a]
<1>2. TypeOK /\ TablesOK /\ Honest(Call("UpdateUserStatus"), "UpdateUserStatus")
  BY CallTyped DEF IInv, Endpoints, AdminOps
<1>3. Honest(r, "UpdateUserStatus") /\ r.op = "UpdateUserStatus"
  <2>1. b \in Jwt
    BY <1>1, <1>2 DEF TypeOK
  <2> QED
    BY <1>1, <1>2, <2>1, ZenonT(30) DEF Honest, Request
<1> QED
  BY <1>1, <1>3, AcceptStep

(* UpdateUserRole,                                                          *)
LEMMA RoleCallStep ==
    ASSUME IInv, NEW w \in Workers, pc[w] = "idle", RoleCall(w)
    PROVE  IInv' /\ RowsKept
<1>1. PICK b \in jwts, u \in UserIds \cup {Malformed}, role \in RequestRoles :
        Accept(w, [Call("UpdateUserRole") EXCEPT !.bearer = b, !.target = u, !.role = role])
  BY DEF RoleCall
<1> DEFINE r == [Call("UpdateUserRole") EXCEPT !.bearer = b, !.target = u, !.role = role]
<1>2. TypeOK /\ TablesOK /\ Honest(Call("UpdateUserRole"), "UpdateUserRole")
  BY CallTyped DEF IInv, Endpoints, AdminOps
<1>3. Honest(r, "UpdateUserRole") /\ r.op = "UpdateUserRole"
  BY <1>2, InputAssumption DEF Honest, Request, TypeOK
<1> QED
  BY <1>1, <1>3, AcceptStep

(* DeleteUser,                                                              *)
LEMMA DeleteCallStep ==
    ASSUME IInv, NEW w \in Workers, pc[w] = "idle", DeleteCall(w)
    PROVE  IInv' /\ RowsKept
<1>1. PICK b \in jwts, u \in UserIds \cup {Malformed} :
        Accept(w, [Call("DeleteUser") EXCEPT !.bearer = b, !.target = u])
  BY DEF DeleteCall
<1> DEFINE r == [Call("DeleteUser") EXCEPT !.bearer = b, !.target = u]
<1>2. TypeOK /\ TablesOK /\ Honest(Call("DeleteUser"), "DeleteUser")
  BY CallTyped DEF IInv, Endpoints, AdminOps
<1>3. Honest(r, "DeleteUser") /\ r.op = "DeleteUser"
  BY <1>2 DEF Honest, Request, TypeOK
<1> QED
  BY <1>1, <1>3, AcceptStep

(* and a body that does not decode.                                         *)
LEMMA BadBodyStep ==
    ASSUME IInv, NEW w \in Workers, pc[w] = "idle", BadBody(w)
    PROVE  IInv' /\ RowsKept
<1>0. TypeOK
  BY DEF IInv
<1>1. ASSUME NEW op \in PublicOps, Accept(w, [Call(op) EXCEPT !.wellFormed = FALSE])
      PROVE  IInv' /\ RowsKept
  <2> DEFINE r == [Call(op) EXCEPT !.wellFormed = FALSE]
  <2>1. Honest(Call(op), op)
    BY <1>0, CallTyped DEF Endpoints
  <2>2. Honest(r, r.op)
    BY <2>1, ZenonT(30) DEF Honest, Request
  <2>3. Accept(w, r)
    BY <1>1
  <2> HIDE DEF r
  <2> QED
    BY <2>2, <2>3, AcceptStep
<1>2. ASSUME NEW op \in {"CreateUser", "UpdateUserStatus", "UpdateUserRole"}, NEW b \in jwts,
             Accept(w, [Call(op) EXCEPT !.wellFormed = FALSE, !.bearer = b])
      PROVE  IInv' /\ RowsKept
  <2> DEFINE r == [Call(op) EXCEPT !.wellFormed = FALSE, !.bearer = b]
  <2>1. Honest(Call(op), op)
    BY <1>0, CallTyped DEF Endpoints, AdminOps
  <2>2. Honest(r, op) /\ r.op = op
    BY <1>0, <2>1 DEF Honest, Request, TypeOK
  <2> QED
    BY <1>2, <2>2, AcceptStep
<1> QED
  BY <1>1, <1>2 DEF BadBody

(* Any of these.                                                            *)
LEMMA ReceiveStep ==
    ASSUME IInv, NEW w \in Workers, Receive(w)
    PROVE  IInv' /\ RowsKept
BY RegisterCallStep, LoginCallStep, RefreshCallStep, MeCallStep, CreateCallStep, ListCallStep,
   StatusCallStep, RoleCallStep, DeleteCallStep, BadBodyStep DEF Receive
-----------------------------------------------------------------------------
(* An end, ordinary or by a crash, leaves the tables and forgets the rest.  *)
LEMMA ReleaseStep ==
    ASSUME IInv, NEW W \in SUBSET Workers, Release(W)
    PROVE  IInv' /\ RowsKept
<1>0. TypeOK /\ TablesOK /\ now \in Nat
  BY DEF IInv, TypeOK
<1>1. UNCHANGED <<users, tokens, minted, jwts, held, spent, now>>
  BY DEF Release, storeVars, clientVars
<1>2. RowsKept /\ TokensKept
  BY <1>0, <1>1 DEF RowsKept, IsAdmin, Exists, TokensKept
<1>3. TablesOK'
  BY <1>0, <1>1 DEF TablesOK, UniqueIdentities, Exists, IsAdmin, Clash
<1>4. NoRequest \in Request /\ NoTally \in Tally
  BY DEF NoRequest, Request, Name, Digits, NoTally, Tally
<1>5. TypeOK'
  BY <1>0, <1>1, <1>4 DEF TypeOK, Release, Labels, Codes
<1>6. ASSUME NEW v \in Workers PROVE StepOK(v)'
  <2>1. CASE v \notin W
    <3>1. Kept(v)
      BY <1>0, <2>1 DEF Kept, Release
    <3> QED
      BY <1>0, <1>1, <1>2, <3>1, KeptOK DEF IInv
  <2>2. CASE v \in W
    <3>1. /\ pc'[v] = "idle" /\ status'[v] = 0 /\ req'[v] = NoRequest
      BY <2>2 DEF Release
    <3>2. RouteOK(v)' /\ AdminStepOK(v)'
      BY <3>1 DEF RouteOK, AdminStepOK, Working
    <3>3. SessionStepOK(v)'
      BY <1>0, <1>1, <3>1 DEF SessionStepOK, NoRequest
    <3> QED
      BY <3>2, <3>3 DEF StepOK
  <2> QED
    BY <2>1, <2>2
<1> QED
  BY <1>2, <1>3, <1>5, <1>6 DEF IInv

(* Time passes: what was expired or replayed remains so.                    *)
LEMMA TickStep ==
    ASSUME IInv, Tick
    PROVE  IInv' /\ RowsKept
<1>0. TypeOK /\ TablesOK /\ now \in Nat
  BY DEF IInv, TypeOK
<1>1. /\ now' = now + 1
      /\ UNCHANGED <<users, tokens, minted, jwts, held, spent, pc, req, status,
                     actor, seen, cred, access, tally>>
  BY DEF Tick, storeVars, readVars, clientVars
<1>2. RowsKept /\ TokensKept
  BY <1>0, <1>1 DEF RowsKept, IsAdmin, Exists, TokensKept
<1>3. TablesOK'
  BY <1>0, <1>1 DEF TablesOK, UniqueIdentities, Exists, IsAdmin, Clash
<1>4. TypeOK'
  BY <1>0, <1>1 DEF TypeOK
<1>5. ASSUME NEW v \in Workers PROVE StepOK(v)'
  <2>1. Kept(v) /\ now' \in Nat
    BY <1>0, <1>1 DEF Kept
  <2> QED
    BY <1>0, <1>2, <2>1, KeptOK DEF IInv
<1> QED
  BY <1>2, <1>3, <1>4, <1>5 DEF IInv

(* A worker runs one statement, or ends.                                    *)
LEMMA ServeStep ==
    ASSUME IInv, NEW w \in Workers, Serve(w)
    PROVE  IInv' /\ RowsKept
<1>1. CASE AccountStep(w)
  BY <1>1, CountStep, InsertStep, FindSteps, StatusUpdateStep, RoleUpdateStep, DeleteUpdateStep,
     ReloadStep, PurgeStep, ListStep DEF AccountStep
<1>2. CASE SessionStep(w)
  BY <1>2, AuthenticateStep, LoginFindStep, MintStep, RefreshFindStep, DropExpiredStep,
     RefreshLoadStep, RotateStep DEF SessionStep
<1>3. CASE Finish(w)
  BY <1>3, ReleaseStep DEF Finish
<1> QED
  BY <1>1, <1>2, <1>3 DEF Serve

(* Every step keeps the inductive invariant and every row of DEMO.USER. *)
LEMMA NextStep ==
    ASSUME IInv, [Next]_vars
    PROVE  IInv' /\ RowsKept
<1>1. CASE Next
  BY <1>1, TickStep, ReleaseStep, ReceiveStep, ServeStep DEF Next, Crash
<1>2. CASE UNCHANGED vars
  <2>1. UNCHANGED <<users, tokens, minted, jwts, held, spent, now, pc, req, status,
                    actor, seen, cred, access, tally>>
    BY <1>2 DEF vars, storeVars, readVars, clientVars
  <2>2. RowsKept /\ TokensKept
    BY <2>1 DEF IInv, TypeOK, RowsKept, IsAdmin, Exists, TokensKept
  <2>3. TypeOK' /\ TablesOK'
    BY <2>1 DEF IInv, TypeOK, TablesOK, UniqueIdentities, Exists, IsAdmin, Clash
  <2>4. ASSUME NEW v \in Workers PROVE StepOK(v)'
    <3>1. Kept(v) /\ now' \in Nat
      BY <2>1 DEF Kept, IInv, TypeOK
    <3> QED
      BY <2>2, <3>1, KeptOK DEF IInv
  <2> QED
    BY <2>2, <2>3, <2>4 DEF IInv
<1> QED
  BY <1>1, <1>2

(* The tables an earlier run left satisfy the invariant.                    *)
LEMMA InitOK == Init => IInv
<1> SUFFICES ASSUME Init PROVE IInv
  OBVIOUS
<1> USE DEF Init
<1>1. TypeOK
  <2>1. NoRequest \in Request /\ NoTally \in Tally
    BY DEF NoRequest, Request, Name, Digits, NoTally, Tally
  <2>2. tokens \in [TokenIds -> TokenRow \cup {None}] /\ minted \subseteq TokenIds
    BY InitAssumption
  <2>3. \A t \in minted : tokens[t] \in TokenRow
    BY <2>2
  <2>4. held \subseteq [token : minted, exp : Nat]
    BY <2>3 DEF TokenRow
  <2> QED
    BY <2>1, <2>2, <2>4, InitAssumption DEF TypeOK, Labels, Codes
<1>2. TablesOK
  <2>1. UniqueIdentities
    BY InitAssumption DEF UniqueIdentities, Exists
  <2>2. \A u \in UserIds : Exists(u) =>
          /\ users[u].username # <<>> /\ users[u].email # <<>>
          /\ users[u].role.base = "ADMIN" => IsAdmin(u)
    <3>1. ASSUME NEW u \in UserIds, Exists(u)
          PROVE  /\ users[u].role \in RoleRec
                 /\ users[u].role # [base |-> "ADMIN", inactive |-> TRUE]
                 /\ users[u].username # <<>> /\ users[u].email # <<>>
      BY <3>1, InitAssumption, ConstantsAssumption DEF Exists
    <3>2. ASSUME NEW role \in RoleRec, role.base = "ADMIN",
                 role # [base |-> "ADMIN", inactive |-> TRUE]
          PROVE  role = AdminRole
      BY <3>2 DEF RoleRec, AdminRole, Role
    <3> QED
      BY <3>1, <3>2 DEF IsAdmin, Exists
  <2>3. \A t \in TokenIds : tokens[t] # None => t \in minted /\ Exists(tokens[t].user)
    BY InitAssumption DEF Exists
  <2> QED
    BY <1>1, <2>1, <2>2, <2>3 DEF TablesOK, TypeOK
<1>3. ASSUME NEW w \in Workers PROVE StepOK(w)
  <2>1. /\ pc[w] = "idle" /\ status[w] = 0 /\ req[w] = NoRequest /\ now = 0
    OBVIOUS
  <2>2. RouteOK(w) /\ AdminStepOK(w)
    BY <2>1 DEF RouteOK, AdminStepOK, Working
  <2>3. SessionStepOK(w)
    BY <2>1 DEF SessionStepOK, NoRequest
  <2> QED
    BY <2>2, <2>3 DEF StepOK
<1> QED
  BY <1>1, <1>2, <1>3 DEF IInv
-----------------------------------------------------------------------------
(* The inductive invariant holds of every behaviour, for any number of      *)
(* workers, users and tokens, any requests and any of the faults.           *)
THEOREM InvariantHolds == Spec => []IInv
<1>1. IInv /\ [Next]_vars => IInv'
  BY NextStep
<1> QED
  BY <1>1, InitOK, PTL DEF Spec

(* Every row, local and answer has its type: no handler, fault or crash     *)
(* leaves a half-built value behind.                                        *)
THEOREM TypeOKHolds == Spec => []TypeOK
<1>1. IInv => TypeOK
  BY DEF IInv
<1> QED
  BY <1>1, InvariantHolds, PTL

(* RequireAdminRole tests a row once, in front of several statements: while *)
(* any of them runs, whatever the other handlers do, its caller is an ADMIN. *)
THEOREM AdminNeverStaleHolds == Spec => []AdminNeverStale
<1>1. IInv => AdminNeverStale
  BY DEF IInv, StepOK, AdminStepOK, AdminNeverStale, Working
<1> QED
  BY <1>1, InvariantHolds, PTL

(* Register and CreateUser count and insert in separate statements: no race *)
(* of theirs, nor with a soft delete, gives two rows one username or email. *)
THEOREM UniqueIdentitiesHolds == Spec => []UniqueIdentities
<1>1. IInv => UniqueIdentities
  BY DEF IInv, TablesOK
<1> QED
  BY <1>1, InvariantHolds, PTL

(* A refresh token exchanged before a request arrived buys that request no  *)
(* session from Refresh, database failures and restarts included.           *)
THEOREM ReplayRejectedHolds == Spec => []ReplayRejected
<1>1. IInv => ReplayRejected
  BY DEF IInv, StepOK, SessionStepOK, ReplayRejected
<1> QED
  BY <1>1, InvariantHolds, PTL

(* Refresh never exchanges a token that had expired when the request came.  *)
THEOREM ExpiredRejectedHolds == Spec => []ExpiredRejected
<1>1. IInv => ExpiredRejected
  BY DEF IInv, StepOK, SessionStepOK, ExpiredRejected
<1> QED
  BY <1>1, InvariantHolds, PTL

(* Users are retired, never removed, so Refresh finds the owner of every    *)
(* token it finds.                                                          *)
THEOREM OwnerPresentHolds == Spec => []OwnerPresent
<1>1. IInv => OwnerPresent
  BY DEF IInv, StepOK, SessionStepOK, TablesOK, OwnerPresent
<1> QED
  BY <1>1, InvariantHolds, PTL

(* UpdateUserStatus, UpdateUserRole and DeleteUser write what they computed *)
(* from rows read earlier: still no step makes or unmakes an ADMIN.         *)
THEOREM AdminsFixedHolds == Spec => AdminsFixed
<1>1. IInv /\ [Next]_vars => [\A u \in UserIds : IsAdmin(u)' = IsAdmin(u)]_vars
  BY NextStep DEF RowsKept
<1> QED
  BY <1>1, InvariantHolds, PTL DEF Spec, AdminsFixed

(* DeleteUser writes names built from a stale copy: still each row keeps its *)
(* first username and email at the head of the present ones.                *)
THEOREM IdentityRecoverableHolds == Spec => IdentityRecoverable
<1> DEFINE Recoverable ==
      \A u \in UserIds : Exists(u) =>
        /\ users'[u] # None
        /\ Head(users'[u].username) = Head(users[u].username)
        /\ Head(users'[u].email) = Head(users[u].email)
<1>1. IInv /\ [Next]_vars => Recoverable
  BY NextStep DEF RowsKept, Exists
<1> QED
  BY <1>1, InvariantHolds, PTL DEF Spec, IdentityRecoverable, Recoverable
=============================================================================
