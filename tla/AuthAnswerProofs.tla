--------------------------- MODULE AuthAnswerProofs ---------------------------
(***************************************************************************)
(* What the answers of AuthService promise although other workers run      *)
(* between a handler's statements: the page of ListUsers is as long as its *)
(* total says, its parameters are used as they were written, and a refresh *)
(* is refused only for cause.  Each has an invariant of its own, inductive *)
(* relative to IInv.  The last section proves what the promises that TLC   *)
(* refutes need in order to hold.                                          *)
(***************************************************************************)
EXTENDS AuthServiceProofs, SumProofs

(* A step of one worker leaves the others' locals alone. *)
Stays(v) ==
    /\ pc'[v] = pc[v] /\ req'[v] = req[v] /\ status'[v] = status[v]
    /\ seen'[v] = seen[v] /\ cred'[v] = cred[v] /\ tally'[v] = tally[v]

(* Where a worker goes or what it answers. *)
Moves(w, label, code) ==
    /\ pc'[w] = label /\ status'[w] = code
    /\ \A v \in Workers \ {w} : pc'[v] = pc[v] /\ status'[v] = status[v]

LEMMA PlainMoves ==
    ASSUME IInv, NEW w \in Workers, pc[w] # "done"
    PROVE  /\ \A label : Goto(w, label) => Moves(w, label, 0)
           /\ \A code : Reply(w, code) => Moves(w, "done", code)
<1>1. /\ status[w] = 0 /\ pc \in [Workers -> Labels] /\ status \in [Workers -> Codes]
  BY DEF IInv, StepOK, RouteOK, TypeOK
<1> QED
  BY <1>1 DEF Goto, Reply, Moves

(* The statements that neither list nor deal with refresh tokens. *)
PlainSteps(w) ==
    \/ RoleCount(w) \/ UserCount(w) \/ InsertUser(w)
    \/ StatusFind(w) \/ StatusUpdate(w) \/ StatusReload(w)
    \/ RoleFind(w) \/ RoleUpdate(w) \/ RoleReload(w)
    \/ DeleteFind(w) \/ DeleteUpdate(w)

PlainLabels == {"roleCount", "userCount", "insert", "statusFind", "statusUpdate", "statusReload",
                "roleFind", "roleUpdate", "roleReload", "deleteFind", "deleteUpdate"}

LEMMA PlainEffect ==
    ASSUME IInv, NEW w \in Workers, PlainSteps(w)
    PROVE  /\ pc[w] \in PlainLabels
           /\ UNCHANGED <<tokens, minted, cred, tally, clientVars, now, req>>
           /\ \A v \in Workers \ {w} : seen'[v] = seen[v]
           /\ \/ \E label \in PlainLabels \cup {"purge"} : Goto(w, label)
              \/ \E code \in {200, 201, 400, 404, 409, 500} : Reply(w, code)
<1> USE DEF PlainLabels, accountsFrame
<1>1. seen \in [Workers -> Copy \cup {None}]
  BY DEF IInv, TypeOK
<1>2. CASE RoleCount(w) \/ UserCount(w)
  BY <1>2 DEF RoleCount, UserCount
<1>3. CASE InsertUser(w)
  <2>1. /\ pc[w] = "insert" /\ UNCHANGED <<tally, accountsFrame>>
        /\ \/ Reply(w, 201) /\ \E copy : seen' = [seen EXCEPT ![w] = copy]
           \/ Reply(w, 500) /\ UNCHANGED seen
    BY <1>3 DEF InsertUser
  <2> QED
    BY <1>1, <2>1
<1>4. ASSUME NEW label \in PlainLabels, FindTarget(w, label)
      PROVE  /\ UNCHANGED <<tally, accountsFrame>>
             /\ \A v \in Workers \ {w} : seen'[v] = seen[v]
             /\ Goto(w, label) \/ \E code \in {400, 404, 500} : Reply(w, code)
  BY <1>1, <1>4 DEF FindTarget, SelectUser
<1>5. ASSUME NEW u, NEW row, NEW label, UpdateRow(w, u, row, label)
      PROVE  /\ UNCHANGED <<seen, tally, accountsFrame>>
             /\ Goto(w, label) \/ Reply(w, 500)
  BY <1>5 DEF UpdateRow, Committed
<1>6. ASSUME NEW label, Reload(w, label)
      PROVE  /\ pc[w] = label /\ UNCHANGED <<tally, accountsFrame>>
             /\ \A v \in Workers \ {w} : seen'[v] = seen[v]
             /\ Reply(w, 200) \/ Reply(w, 500)
  BY <1>1, <1>6 DEF Reload, SelectUser
<1>7. CASE StatusFind(w) \/ RoleFind(w) \/ DeleteFind(w)
  BY <1>4, <1>7 DEF StatusFind, RoleFind, DeleteFind
<1>8. CASE StatusUpdate(w) \/ DeleteUpdate(w)
  BY <1>5, <1>8 DEF StatusUpdate, DeleteUpdate
<1>9. CASE RoleUpdate(w)
  BY <1>5, <1>9 DEF RoleUpdate
<1>10. CASE StatusReload(w) \/ RoleReload(w)
  BY <1>6, <1>10 DEF StatusReload, RoleReload
<1> QED
  BY <1>2, <1>3, <1>7, <1>8, <1>9, <1>10 DEF PlainSteps

(* Another worker's step leaves a worker's locals alone.                    *)
LEMMA OthersStay ==
    ASSUME IInv, NEW w \in Workers, Receive(w) \/ Serve(w), NEW v \in Workers \ {w}
    PROVE  Stays(v)
<1>1. /\ pc \in [Workers -> Labels] /\ status \in [Workers -> Codes]
      /\ req \in [Workers -> Request] /\ seen \in [Workers -> Copy \cup {None}]
      /\ cred \in [Workers -> TokenRow \cup {None}] /\ tally \in [Workers -> Tally]
  BY DEF IInv, TypeOK
<1>2. /\ \A label : Goto(w, label) => pc'[v] = pc[v] /\ status'[v] = status[v]
      /\ \A code : Reply(w, code) => pc'[v] = pc[v] /\ status'[v] = status[v]
  BY <1>1 DEF Goto, Reply
<1>3. CASE PlainSteps(w)
  BY <1>2, <1>3, PlainEffect DEF Stays
<1>4. CASE ListCount(w) \/ ListPage(w)
  BY <1>1, <1>2, <1>4 DEF ListCount, ListPage, accountsFrame, Stays
<1>5. CASE PurgeTokens(w) \/ DropExpired(w) \/ Rotate(w)
  BY <1>2, <1>5 DEF PurgeTokens, DropExpired, Rotate, Committed, readVars, Stays
<1>6. CASE Authenticate(w)
  BY <1>2, <1>6 DEF Authenticate, Stays
<1>7. CASE LoginFind(w)
  BY <1>1, <1>2, <1>7 DEF LoginFind, Stays
<1>8. CASE Mint(w)
  BY <1>2, <1>8 DEF Mint, readVars, Stays
<1>9. CASE RefreshFind(w)
  BY <1>1, <1>2, <1>9 DEF RefreshFind, Stays
<1>10. CASE RefreshLoad(w)
  BY <1>1, <1>2, <1>10 DEF RefreshLoad, SelectUser, Stays
<1>11. CASE Finish(w)
  BY <1>11 DEF Finish, Release, Stays
<1>12. ASSUME NEW r, Accept(w, r)
       PROVE  Stays(v)
  BY <1>1, <1>2, <1>12 DEF Accept, readVars, Stays
<1>13. CASE Receive(w)
  BY <1>12, <1>13 DEF Receive, RegisterCall, LoginCall, RefreshCall, MeCall, CreateCall, ListCall,
                      StatusCall, RoleCall, DeleteCall, BadBody
<1> QED
  BY <1>3, <1>4, <1>5, <1>6, <1>7, <1>8, <1>9, <1>10, <1>11, <1>13
     DEF Serve, AccountStep, SessionStep, PlainSteps
-----------------------------------------------------------------------------
(* ListUsers: rows are never removed, so the page finds at least as many as *)
(* the count did.                                                           *)

PageOK(w) ==
    /\ pc[w] = "listPage" => tally[w].total <= UserTotal
    /\ req[w].op = "ListUsers" /\ status[w] = 200 =>
         tally[w].items >=
             PageLength(tally[w].total, PageSize(req[w].limit), PageStart(req[w].offset))

LEMMA TotalGrows ==
    ASSUME IInv, IInv', RowsKept
    PROVE  UserTotal \in Nat /\ UserTotal' \in Nat /\ UserTotal <= UserTotal'
<1> DEFINE S == {u \in UserIds : Exists(u)}
           T == {u \in UserIds : Exists(u)'}
<1>1. S \subseteq T /\ T \subseteq UserIds
  BY DEF RowsKept
<1>2. IsFiniteSet(T)
  BY <1>1, FS_Subset, ConstantsAssumption
<1>3. /\ IsFiniteSet(S) /\ Cardinality(S) <= Cardinality(T)
      /\ Cardinality(S) \in Nat /\ Cardinality(T) \in Nat
  BY <1>1, <1>2, FS_Subset, FS_CardinalityType
<1>4. UserTotal = Cardinality(S) /\ UserTotal' = Cardinality(T)
  BY DEF UserTotal
<1> QED
  BY <1>3, <1>4

LEMMA PageGrows ==
    ASSUME NEW m \in Nat, NEW n \in Nat, m <= n, NEW size \in Nat, NEW offset \in Nat
    PROVE  PageLength(m, size, offset) <= PageLength(n, size, offset)
BY DEF PageLength

LEMMA PageStays ==
    ASSUME IInv, IInv', RowsKept, NEW v \in Workers, PageOK(v), Stays(v)
    PROVE  PageOK(v)'
<1>1. UserTotal \in Nat /\ UserTotal' \in Nat /\ UserTotal <= UserTotal'
  BY TotalGrows
<1>2. tally[v].total \in Nat
  BY DEF IInv, TypeOK, Tally
<1>3. tally[v].total <= UserTotal => tally[v].total <= UserTotal'
  BY <1>1, <1>2
<1> QED
  BY <1>3 DEF PageOK, Stays

(* Steps that neither count nor list. *)
LEMMA PageElsewhere ==
    ASSUME IInv, NEW w \in Workers, Receive(w) \/ Serve(w), ~ListCount(w), ~ListPage(w)
    PROVE  PageOK(w)'
<1>1. RouteOK(w) /\ (pc[w] # "done" => status[w] = 0)
  BY DEF IInv, StepOK, RouteOK
<1>2. SUFFICES pc'[w] # "listPage" /\ (req'[w].op # "ListUsers" \/ status'[w] # 200)
  BY DEF PageOK
<1>3. ASSUME pc[w] # "done",
             \/ \E label : label # "listPage" /\ Goto(w, label)
             \/ \E code : Reply(w, code) /\ (code = 200 => req'[w].op # "ListUsers")
      PROVE  pc'[w] # "listPage" /\ (req'[w].op # "ListUsers" \/ status'[w] # 200)
  BY <1>3, PlainMoves DEF Moves
<1>4. CASE PlainSteps(w)
  BY <1>1, <1>3, <1>4, PlainEffect DEF RouteOK, PlainLabels
<1>5. CASE PurgeTokens(w) \/ DropExpired(w) \/ Rotate(w)
  BY <1>3, <1>5 DEF PurgeTokens, DropExpired, Rotate, Committed
<1>6. CASE Authenticate(w)
  <2>1. \A op \in AdminOps : Entry(op) # "listPage"
    BY DEF AdminOps, Entry
  <2>2. /\ pc[w] = "auth" /\ req' = req
        /\ \/ \E code \in {400, 401, 403} : Reply(w, code)
           \/ req[w].op = "Me" /\ Reply(w, 200)
           \/ req[w].op \in AdminOps /\ Goto(w, Entry(req[w].op))
    BY <1>6 DEF Authenticate
  <2> QED
    BY <1>3, <2>1, <2>2
<1>7. CASE LoginFind(w)
  BY <1>3, <1>7 DEF LoginFind
<1>8. CASE Mint(w)
  <2>1. /\ pc[w] = "mint" /\ req' = req
        /\ Reply(w, 200) \/ Reply(w, 500)
    BY <1>8 DEF Mint
  <2> QED
    BY <1>1, <1>3, <2>1 DEF RouteOK
<1>9. CASE RefreshFind(w) \/ RefreshLoad(w)
  BY <1>3, <1>9 DEF RefreshFind, RefreshLoad
<1>10. CASE Finish(w)
  BY <1>10 DEF Finish, Release
<1>11. ASSUME NEW r, Accept(w, r), pc[w] = "idle"
       PROVE  pc'[w] # "listPage" /\ (req'[w].op # "ListUsers" \/ status'[w] # 200)
  <2>1. \A op \in PublicOps : Entry(op) # "listPage"
    BY DEF PublicOps, Entry
  <2>2. \/ Goto(w, "auth") \/ Reply(w, 400)
        \/ r.op \in PublicOps /\ Goto(w, Entry(r.op))
    BY <1>11 DEF Accept
  <2> QED
    BY <1>3, <1>11, <2>1, <2>2
<1>12. CASE Receive(w)
  <2>1. pc[w] = "idle" /\ \E r : Accept(w, r)
    BY <1>12 DEF Receive, RegisterCall, LoginCall, RefreshCall, MeCall, CreateCall, ListCall,
                 StatusCall, RoleCall, DeleteCall, BadBody
  <2> QED
    BY <1>11, <2>1
<1>13. \/ PlainSteps(w) \/ PurgeTokens(w) \/ DropExpired(w) \/ Rotate(w)
       \/ Authenticate(w) \/ LoginFind(w) \/ Mint(w)
       \/ RefreshFind(w) \/ RefreshLoad(w) \/ Finish(w) \/ Receive(w)
  BY DEF Serve, AccountStep, SessionStep, PlainSteps
<1> QED
  BY <1>2, <1>4, <1>5, <1>6, <1>7, <1>8, <1>9, <1>10, <1>12, <1>13

LEMMA CountPage ==
    ASSUME IInv, IInv', RowsKept, NEW w \in Workers, PageOK(w), ListCount(w)
    PROVE  PageOK(w)'
<1>1. /\ pc[w] = "listCount" /\ users' = users /\ tally \in [Workers -> Tally]
      /\ \/ tally' = [tally EXCEPT ![w].total = UserTotal] /\ Goto(w, "listPage")
         \/ Reply(w, 500) /\ UNCHANGED tally
  BY DEF ListCount, IInv, TypeOK
<1>2. CASE tally' = [tally EXCEPT ![w].total = UserTotal] /\ Goto(w, "listPage")
  <2>1. tally'[w].total = UserTotal
    BY <1>1, <1>2 DEF Tally
  <2>2. UserTotal' = UserTotal /\ UserTotal \in Nat
    BY <1>1, UserTotalNat DEF UserTotal, Exists
  <2>3. pc'[w] = "listPage" /\ status'[w] = 0
    BY <1>1, <1>2, PlainMoves DEF Moves
  <2> QED
    BY <2>1, <2>2, <2>3 DEF PageOK
<1>3. CASE Reply(w, 500) /\ UNCHANGED tally
  BY <1>1, <1>3, PlainMoves DEF Moves, PageOK
<1> QED
  BY <1>1, <1>2, <1>3

LEMMA ListedPage ==
    ASSUME IInv, IInv', RowsKept, NEW w \in Workers, PageOK(w), ListPage(w)
    PROVE  PageOK(w)'
<1> DEFINE page(n) == PageLength(n, PageSize(req[w].limit), PageStart(req[w].offset))
<1>1. /\ pc[w] = "listPage" /\ req' = req /\ tally \in [Workers -> Tally]
      /\ \/ tally' = [tally EXCEPT ![w].items = page(UserTotal)] /\ Reply(w, 200)
         \/ Reply(w, 500) /\ UNCHANGED tally
  BY DEF ListPage, accountsFrame, IInv, TypeOK
<1>2. tally[w].total \in Nat /\ UserTotal \in Nat /\ tally[w].total <= UserTotal
  BY <1>1, UserTotalNat DEF PageOK, Tally
<1>3. page(tally[w].total) <= page(UserTotal)
  <2>1. PageSize(req[w].limit) \in Nat /\ PageStart(req[w].offset) \in Nat
    BY PageAssumption DEF PageSize, PageStart
  <2> QED
    BY <1>2, <2>1, PageGrows
<1>4. CASE tally' = [tally EXCEPT ![w].items = page(UserTotal)] /\ Reply(w, 200)
  <2>1. tally'[w].items = page(UserTotal) /\ tally'[w].total = tally[w].total
    BY <1>1, <1>4 DEF Tally
  <2>2. pc'[w] = "done"
    BY <1>1, <1>4, PlainMoves DEF Moves
  <2> QED
    BY <1>1, <1>3, <2>1, <2>2 DEF PageOK
<1>5. CASE Reply(w, 500) /\ UNCHANGED tally
  BY <1>1, <1>5, PlainMoves DEF Moves, PageOK
<1> QED
  BY <1>1, <1>4, <1>5

PInv == \A w \in Workers : PageOK(w)

LEMMA PageNext == IInv /\ IInv' /\ RowsKept /\ PInv /\ [Next]_vars => PInv'
<1> SUFFICES ASSUME IInv, IInv', RowsKept, PInv, [Next]_vars, NEW v \in Workers
             PROVE  PageOK(v)'
  BY DEF PInv
<1>1. PageOK(v)
  BY DEF PInv
<1>2. CASE Tick \/ UNCHANGED vars
  BY <1>1, <1>2, PageStays DEF Tick, vars, storeVars, readVars, Stays
<1>3. CASE Crash
  BY <1>3 DEF Crash, Release, PageOK, NoRequest
<1>4. ASSUME NEW w \in Workers, Receive(w) \/ Serve(w)
      PROVE  PageOK(v)'
  <2>1. CASE v # w
    BY <1>1, <1>4, <2>1, OthersStay, PageStays
  <2>2. CASE v = w
    BY <1>1, <1>4, <2>2, PageElsewhere, CountPage, ListedPage
  <2> QED
    BY <2>1, <2>2
<1> QED
  BY <1>2, <1>3, <1>4 DEF Next

(* PageCoversTotal: whatever sign-ups commit between ListUsers' count and   *)
(* its page, the page holds what the count promises.                        *)
THEOREM PageCoversTotalHolds == Spec => []PageCoversTotal
<1>1. Init => PInv
  BY DEF Init, PInv, PageOK, NoRequest
<1>2. IInv /\ [Next]_vars => RowsKept
  BY NextStep
<1>3. IInv /\ IInv' /\ PInv /\ [Next]_vars => PInv'
  BY <1>2, PageNext
<1>4. PInv => PageCoversTotal
  BY DEF PInv, PageOK, PageCoversTotal
<1> QED
  BY <1>1, <1>3, <1>4, InvariantHolds, PTL DEF Spec
-----------------------------------------------------------------------------
(* Register and CreateUser: the answer of a sign-up stays true while other  *)
(* workers rename and re-role the rows.                                     *)

(* Whatever arrives is accepted by an idle worker. *)
LEMMA ReceiveAccepts ==
    ASSUME NEW w, Receive(w) PROVE pc[w] = "idle" /\ \E r : Accept(w, r)
<1>1. CASE RegisterCall(w) \/ LoginCall(w) \/ RefreshCall(w) \/ MeCall(w)
  BY <1>1 DEF Receive, RegisterCall, LoginCall, RefreshCall, MeCall
<1>2. CASE CreateCall(w) \/ ListCall(w) \/ StatusCall(w) \/ RoleCall(w) \/ DeleteCall(w)
  BY <1>2 DEF Receive, CreateCall, ListCall, StatusCall, RoleCall, DeleteCall
<1>3. CASE BadBody(w)
  BY <1>3 DEF Receive, BadBody
<1> QED
  BY <1>1, <1>2, <1>3 DEF Receive

(* An UPDATE keeps the password of its row, an INSERT meets no row.         *)
PasswordsKept == \A u \in UserIds : Exists(u) => users'[u].password = users[u].password

LEMMA RowUpdateKeeps ==
    ASSUME IInv, NEW u \in UserIds, Exists(u), NEW row, row.password = users[u].password,
           NEW w, NEW label, UpdateRow(w, u, row, label)
    PROVE  PasswordsKept
<1>1. users \in [UserIds -> Row \cup {None}]
  BY DEF IInv, TypeOK
<1> QED
  BY <1>1 DEF UpdateRow, PasswordsKept

LEMMA PasswordsStay ==
    ASSUME IInv, NEW x \in Workers, Receive(x) \/ Serve(x)
    PROVE  PasswordsKept
<1> DEFINE u == req[x].target
<1>1. users \in [UserIds -> Row \cup {None}] /\ AdminStepOK(x)
  BY DEF IInv, StepOK, TypeOK
<1>2. CASE users' = users
  BY <1>2 DEF PasswordsKept
<1>3. pc[x] \in {"statusUpdate", "roleUpdate", "deleteUpdate"} =>
         u \in UserIds /\ Exists(u) /\ users[u] \in Row
  BY <1>1 DEF AdminStepOK, Exists
<1>4. CASE StatusUpdate(x)
  <2> DEFINE role == StatusRole(seen[x].role, req[x].active)
             row == [users[u] EXCEPT !.role = role]
  <2>1. pc[x] = "statusUpdate" /\ UpdateRow(x, u, row, "statusReload")
    BY <1>4 DEF StatusUpdate
  <2>2. row.password = users[u].password
    BY <1>3, <2>1 DEF Row
  <2> HIDE DEF row
  <2> QED
    BY <1>3, <2>1, <2>2, RowUpdateKeeps
<1>5. CASE RoleUpdate(x)
  <2> DEFINE row == [users[u] EXCEPT !.role = req[x].role]
  <2>1. pc[x] = "roleUpdate" /\ (UNCHANGED users \/ UpdateRow(x, u, row, "roleReload"))
    BY <1>5 DEF RoleUpdate
  <2>2. row.password = users[u].password
    BY <1>3, <2>1 DEF Row
  <2> HIDE DEF row
  <2> QED
    BY <1>2, <1>3, <2>1, <2>2, RowUpdateKeeps
<1>6. CASE DeleteUpdate(x)
  <2> DEFINE name == DeletedName(seen[x].username)
             mail == DeletedName(seen[x].email)
             row == [users[u] EXCEPT !.username = name, !.email = mail, !.role = DeletedRole]
  <2>1. pc[x] = "deleteUpdate" /\ UpdateRow(x, u, row, "purge")
    BY <1>6 DEF DeleteUpdate
  <2>2. row.password = users[u].password
    BY <1>3, <2>1 DEF Row
  <2> HIDE DEF row
  <2> QED
    BY <1>3, <2>1, <2>2, RowUpdateKeeps
<1>7. CASE InsertUser(x)
  BY <1>1, <1>7 DEF InsertUser, Exists, PasswordsKept
<1>8. CASE \/ RoleCount(x) \/ UserCount(x) \/ StatusFind(x) \/ StatusReload(x)
           \/ RoleFind(x) \/ RoleReload(x) \/ DeleteFind(x) \/ PurgeTokens(x)
           \/ ListCount(x) \/ ListPage(x)
  BY <1>2, <1>8 DEF RoleCount, UserCount, StatusFind, StatusReload, RoleFind, RoleReload,
     DeleteFind, FindTarget, Reload, PurgeTokens, ListCount, ListPage
<1>9. CASE SessionStep(x) \/ Finish(x)
  BY <1>2, <1>9 DEF SessionStep, Authenticate, LoginFind, Mint, RefreshFind, DropExpired,
     RefreshLoad, Rotate, Finish, Release, storeVars
<1>10. CASE Receive(x)
  BY <1>2, <1>10, ReceiveAccepts DEF Accept, storeVars
<1> QED
  BY <1>4, <1>5, <1>6, <1>7, <1>8, <1>9, <1>10 DEF Serve, AccountStep

(* Whose row an id of DEMO.USER is, and whether a name of r is in use.      *)
Created(u, r) ==
    /\ u \in UserIds /\ Exists(u) /\ users[u].password = r.password
    /\ FirstNamed(u, r) /\ FirstMailed(u, r)

InUse(r) == \E u \in UserIds : Exists(u) /\ (FirstNamed(u, r) \/ FirstMailed(u, r))

SignUpInv ==
    \A w \in Workers :
        /\ status[w] = 201 =>
             /\ Created(seen[w].id, req[w])
             /\ \A v \in Workers \ {w} : status[v] = 201 => seen[v].id # seen[w].id
        /\ status[w] = 409 => InUse(req[w])

(* Both facts outlive every step that keeps rows, heads and passwords.      *)
LEMMA SignedUpStays ==
    ASSUME RowsKept, PasswordsKept, NEW w, req'[w] = req[w], seen'[w] = seen[w]
    PROVE  /\ Created(seen[w].id, req[w]) => Created(seen[w].id, req[w])'
           /\ InUse(req[w]) => InUse(req[w])'
  BY DEF RowsKept, PasswordsKept, Created, InUse, FirstNamed, FirstMailed

(* Only the count of a sign-up answers 409, and only its INSERT 201.        *)
LEMMA AnsweredBy ==
    ASSUME IInv, NEW w \in Workers, Receive(w) \/ Serve(w), status'[w] \in {201, 409}
    PROVE  /\ status'[w] = 201 => InsertUser(w)
           /\ status'[w] = 409 => UserCount(w)
<1>1. /\ status[w] # 0 => pc[w] = "done"
      /\ pc \in [Workers -> Labels] /\ status \in [Workers -> Codes]
  BY DEF IInv, StepOK, RouteOK, TypeOK
<1>2. /\ \A label : Goto(w, label) => status' = status
      /\ \A code : Reply(w, code) => status'[w] = code
  BY <1>1 DEF Goto, Reply
<1>3. ~RoleCount(w) /\ (UserCount(w) => status'[w] # 201) /\ (InsertUser(w) => status'[w] # 409)
  BY <1>1, <1>2 DEF RoleCount, UserCount, InsertUser
<1>4. ~StatusFind(w) /\ ~RoleFind(w) /\ ~DeleteFind(w)
  BY <1>1, <1>2 DEF StatusFind, RoleFind, DeleteFind, FindTarget
<1>5. ~StatusUpdate(w) /\ ~RoleUpdate(w) /\ ~DeleteUpdate(w)
  BY <1>1, <1>2 DEF StatusUpdate, RoleUpdate, DeleteUpdate, UpdateRow, Committed
<1>6. ~StatusReload(w) /\ ~RoleReload(w) /\ ~PurgeTokens(w) /\ ~ListCount(w) /\ ~ListPage(w)
  BY <1>1, <1>2 DEF StatusReload, RoleReload, Reload, PurgeTokens, ListCount, ListPage
<1>7. ~Authenticate(w) /\ ~LoginFind(w) /\ ~Mint(w)
  BY <1>1, <1>2 DEF Authenticate, LoginFind, Mint
<1>8. ~RefreshFind(w) /\ ~DropExpired(w) /\ ~RefreshLoad(w) /\ ~Rotate(w)
  BY <1>1, <1>2 DEF RefreshFind, DropExpired, RefreshLoad, Rotate, Committed
<1>9. ~Finish(w)
  BY DEF Finish, Release
<1>10. ~Receive(w)
  BY <1>1, <1>2, ReceiveAccepts DEF Accept
<1> QED
  BY <1>3, <1>4, <1>5, <1>6, <1>7, <1>8, <1>9, <1>10 DEF Serve, AccountStep, SessionStep

(* The answers themselves: the INSERT names the row it has made, an id no   *)
(* row had; the count answers 409 for a row it has seen.                    *)
LEMMA CreatedByInsert ==
    ASSUME IInv, NEW w \in Workers, InsertUser(w), status'[w] = 201
    PROVE  /\ Created(seen[w].id, req[w])' /\ req'[w] = req[w]
           /\ ~Exists(seen'[w].id)
<1> DEFINE r == req[w]
           role == IF r.op = "Register" THEN Role("USER") ELSE r.role
           row == [username |-> r.username, email |-> r.email, password |-> r.password,
                   role |-> role]
<1>1. /\ users \in [UserIds -> Row \cup {None}] /\ seen \in [Workers -> Copy \cup {None}]
      /\ status \in [Workers -> Codes] /\ req' = req
  BY DEF IInv, TypeOK, InsertUser, accountsFrame
<1>2. PICK u \in UserIds :
        /\ ~Exists(u) /\ users' = [users EXCEPT ![u] = row]
        /\ seen' = [seen EXCEPT ![w] = [id |-> u, username |-> row.username,
                                        email |-> row.email, role |-> row.role]]
  BY <1>1 DEF InsertUser, Reply
<1>3. users'[u] = row /\ seen'[w].id = u
  BY <1>1, <1>2
<1>4. row # None
  <2>1. /\ r \in Request /\ ~MissingFields(r)
        /\ r.op \in {"Register", "CreateUser"}
        /\ r.op = "CreateUser" => r.role \in AllowedRoles
    BY DEF InsertUser, IInv, TypeOK, StepOK, RouteOK, AdminStepOK, Working
  <2>2. role \in RoleRec
    BY <2>1, RoleTyped, ConstantsAssumption DEF AllowedRoles
  <2> HIDE DEF role
  <2>3. row \in Row
    BY <2>1, <2>2 DEF Row, Request, MissingFields
  <2> QED
    BY <2>3, ConstantsAssumption
<1>5. row.password = r.password /\ row.username = r.username /\ row.email = r.email
  OBVIOUS
<1> HIDE DEF row
<1> QED
  BY <1>1, <1>2, <1>3, <1>4, <1>5 DEF Created, Exists, FirstNamed, FirstMailed

LEMMA TakenByCount ==
    ASSUME IInv, NEW w \in Workers, UserCount(w), status'[w] = 409
    PROVE  InUse(req[w])' /\ req'[w] = req[w]
<1>1. status \in [Workers -> Codes] /\ (status[w] # 0 => pc[w] = "done")
  BY DEF IInv, TypeOK, StepOK, RouteOK
<1>2. Taken(req[w].username, req[w].email) /\ users' = users /\ req' = req
  BY <1>1 DEF UserCount, Goto, Reply, accountsFrame
<1> QED
  BY <1>2 DEF Taken, InUse, Exists, FirstNamed, FirstMailed

LEMMA SignUpNext == IInv /\ RowsKept /\ SignUpInv /\ [Next]_vars => SignUpInv'
<1> SUFFICES ASSUME IInv, RowsKept, SignUpInv, [Next]_vars PROVE SignUpInv'
  OBVIOUS
<1>1. CASE Tick \/ UNCHANGED vars
  BY <1>1 DEF Tick, vars, storeVars, readVars, SignUpInv, Created, InUse, Exists, FirstNamed,
              FirstMailed
<1>2. CASE Crash
  BY <1>2 DEF Crash, Release, SignUpInv
<1>3. ASSUME NEW x \in Workers, Receive(x) \/ Serve(x) PROVE SignUpInv'
  <2>1. PasswordsKept
    BY <1>3, PasswordsStay
  <2>2. ASSUME NEW v \in Workers, v # x
        PROVE  /\ status'[v] = status[v] /\ seen'[v] = seen[v] /\ req'[v] = req[v]
               /\ status'[v] = 201 => Created(seen[v].id, req[v])'
               /\ status'[v] = 409 => InUse(req[v])'
    <3>1. status'[v] = status[v] /\ seen'[v] = seen[v] /\ req'[v] = req[v]
      BY <1>3, <2>2, OthersStay DEF Stays
    <3>2. /\ Created(seen[v].id, req[v]) => Created(seen[v].id, req[v])'
          /\ InUse(req[v]) => InUse(req[v])'
      BY <2>1, <3>1, SignedUpStays
    <3> QED
      BY <3>1, <3>2 DEF SignUpInv
  <2>3. status'[x] = 201 => /\ Created(seen[x].id, req[x])'
                            /\ ~Exists(seen'[x].id)
    BY <1>3, AnsweredBy, CreatedByInsert
  <2>4. status'[x] = 409 => InUse(req[x])'
    BY <1>3, AnsweredBy, TakenByCount
  <2>5. ASSUME NEW v \in Workers, v # x, status'[v] = 201, status'[x] = 201
        PROVE  seen'[v].id # seen'[x].id
    BY <2>2, <2>3, <2>5 DEF SignUpInv, Created
  <2> QED
    BY <2>2, <2>3, <2>4, <2>5 DEF SignUpInv
<1> QED
  BY <1>1, <1>2, <1>3 DEF Next

(* SignUpAccounted: for any number of racing sign-ups and admin requests,   *)
(* the answer a sign-up got agrees with the table.                          *)
THEOREM SignUpAccountedHolds == Spec => []SignUpAccounted
<1>1. Init => SignUpInv
  BY DEF Init, SignUpInv
<1>2. IInv /\ SignUpInv /\ [Next]_vars => SignUpInv'
  BY NextStep, SignUpNext
<1>3. SignUpInv => SignUpAccounted
  BY DEF SignUpInv, SignUpAccounted, Created, InUse
<1> QED
  BY <1>1, <1>2, <1>3, InvariantHolds, PTL DEF Spec
-----------------------------------------------------------------------------
(* Refresh, with a healthy database and no soft delete. *)

Calm == Faults = {} /\ SecretSet /\ "DeleteUser" \notin Ops

Rotating(t) == \E v \in Workers : pc[v] = "mint" /\ req[v].op = "Refresh" /\ req[v].token = t
Lapsed(t) == \E h \in held : h.token = t /\ h.exp < now
Cause(t) == t \in spent \/ Lapsed(t) \/ Rotating(t)

(* Clients know every stored token, and a token that is gone is gone for    *)
(* cause.                                                                   *)
CauseOK ==
    /\ \A t \in TokenIds : tokens[t] # None => [token |-> t, exp |-> tokens[t].exp] \in held
    /\ \A t \in minted : tokens[t] = None => Cause(t)

RefreshOK(w) ==
    /\ req[w].op \in Ops \cup {"none"}
    /\ pc[w] = "auth" => req[w].op # "Refresh"
    /\ pc[w] = "dropExpired" => Lapsed(req[w].token)
    /\ pc[w] \in {"rotate", "mint"} /\ req[w].op = "Refresh" =>
         \E u \in UserIds : u = seen[w].id /\ Exists(u)
    /\ req[w].op = "Refresh" =>
         /\ status[w] # 500
         /\ status[w] = 401 /\ req[w].token # None => Cause(req[w].token)

CInv == CauseOK /\ \A w \in Workers : RefreshOK(w)

(* A cause stays one: the exchange under way ends with its token spent.     *)
LEMMA CauseStays ==
    ASSUME IInv, IInv', held \subseteq held', spent \subseteq spent', now <= now',
           \A v \in Workers :
              Stays(v) \/ (pc[v] = "mint" /\ req[v].op = "Refresh" => req[v].token \in spent'),
           NEW t
    PROVE  (Lapsed(t) => Lapsed(t)') /\ (Cause(t) => Cause(t)')
<1>1. now \in Nat /\ now' \in Nat /\ \A h \in held : h.exp \in Nat
  BY DEF IInv, TypeOK
<1>2. Lapsed(t) => Lapsed(t)'
  BY <1>1 DEF Lapsed
<1>3. Rotating(t) => Rotating(t)' \/ t \in spent'
  BY DEF Rotating, Stays
<1> QED
  BY <1>2, <1>3 DEF Cause

(* It is enough to look at the worker that moves. *)
LEMMA CauseStep ==
    ASSUME IInv, IInv', RowsKept, CInv, held \subseteq held', spent \subseteq spent', now <= now',
           \A v \in Workers :
              Stays(v) \/ (pc[v] = "mint" /\ req[v].op = "Refresh" => req[v].token \in spent'),
           CauseOK',
           \A v \in Workers : Stays(v) \/ RefreshOK(v)'
    PROVE  CInv'
<1>1. \A t : (Lapsed(t) => Lapsed(t)') /\ (Cause(t) => Cause(t)')
  BY CauseStays
<1>2. ASSUME NEW v \in Workers, Stays(v)
      PROVE  RefreshOK(v)'
  <2>1. /\ pc'[v] = pc[v] /\ req'[v] = req[v] /\ status'[v] = status[v]
        /\ seen'[v] = seen[v]
    BY <1>2 DEF Stays
  <2>2. RefreshOK(v)
    BY DEF CInv
  <2>3. \A u \in UserIds : Exists(u) => Exists(u)'
    BY DEF RowsKept
  <2>4. PICK t : t = req[v].token
    OBVIOUS
  <2>5. (Lapsed(t) => Lapsed(t)') /\ (Cause(t) => Cause(t)')
    BY <1>1
  <2>6. Lapsed(req[v].token) => Lapsed(req[v].token)'
    <3>1. Lapsed(req[v].token)' <=> Lapsed(t)'
      BY <2>1, <2>4 DEF Lapsed
    <3> QED
      BY <2>4, <2>5, <3>1
  <2>7. Cause(req[v].token) => Cause(req[v].token)'
    <3>1. Cause(req[v].token)' <=> Cause(t)'
      BY <2>1, <2>4 DEF Cause, Lapsed, Rotating
    <3> QED
      BY <2>4, <2>5, <3>1
  <2> QED
    BY <2>1, <2>2, <2>3, <2>6, <2>7 DEF RefreshOK
<1> QED
  BY <1>2 DEF CInv

(* A step that leaves the tokens alone and does not end an exchange. *)
LEMMA QuietCause ==
    ASSUME IInv, IInv', RowsKept, CInv, NEW w \in Workers, Receive(w) \/ Serve(w),
           UNCHANGED <<tokens, minted, held, spent, now>>, pc[w] # "mint", RefreshOK(w)'
    PROVE  CInv'
<1>1. \A v \in Workers \ {w} : Stays(v)
  BY OthersStay
<1>2. \A v \in Workers :
         Stays(v) \/ (pc[v] = "mint" /\ req[v].op = "Refresh" => req[v].token \in spent')
  BY <1>1
<1>3. now <= now'
  BY DEF IInv, TypeOK
<1>4. \A t : Cause(t) => Cause(t)'
  BY <1>2, <1>3, CauseStays
<1>5. CauseOK'
  BY <1>4 DEF CInv, CauseOK
<1> QED
  BY <1>1, <1>2, <1>3, <1>5, CauseStep

(* A request to another endpoint has nothing to show. *)
LEMMA OtherOp ==
    ASSUME IInv', NEW w \in Workers, req'[w].op \in (Ops \cup {"none"}) \ {"Refresh"}
    PROVE  RefreshOK(w)'
BY DEF RefreshOK, IInv, StepOK, RouteOK

(* The statements of the other endpoints. *)
LEMMA OtherSteps ==
    ASSUME IInv, IInv', RowsKept, CInv, NEW w \in Workers,
           PlainSteps(w) \/ ListCount(w) \/ ListPage(w) \/ LoginFind(w) \/ Authenticate(w)
    PROVE  CInv'
<1>1. RouteOK(w) /\ RefreshOK(w)
  BY DEF IInv, StepOK, CInv
<1>2. /\ UNCHANGED <<tokens, minted, held, spent, now, req>>
      /\ pc[w] \in PlainLabels \cup {"listCount", "listPage", "loginFind", "auth"}
  <2>1. CASE PlainSteps(w)
    BY <2>1, PlainEffect DEF clientVars
  <2>2. CASE ListCount(w) \/ ListPage(w) \/ LoginFind(w) \/ Authenticate(w)
    BY <2>2 DEF ListCount, ListPage, LoginFind, Authenticate, accountsFrame, storeVars, clientVars
  <2> QED
    BY <2>1, <2>2
<1>3. req[w].op \in (Ops \cup {"none"}) \ {"Refresh"}
  BY <1>1, <1>2 DEF RouteOK, RefreshOK, PlainLabels
<1>4. RefreshOK(w)'
  BY <1>2, <1>3, OtherOp
<1>5. Serve(w) /\ pc[w] # "mint"
  BY <1>2 DEF Serve, AccountStep, SessionStep, PlainSteps, PlainLabels
<1> QED
  BY <1>2, <1>4, <1>5, QuietCause

LEMMA ReceiveCause ==
    ASSUME IInv, IInv', RowsKept, CInv, NEW w \in Workers, Receive(w)
    PROVE  CInv'
<1>1. pc[w] = "idle" /\ status[w] = 0
  BY DEF Receive, IInv, StepOK, RouteOK
<1>2. ASSUME NEW r, Accept(w, r)
      PROVE  CInv'
  <2>1. /\ r.op \in Ops /\ req'[w] = r
        /\ UNCHANGED <<tokens, minted, held, spent, now>>
        /\ \/ Goto(w, "auth") /\ r.op # "Refresh"
           \/ Goto(w, Entry(r.op))
           \/ Reply(w, 400)
    BY <1>2 DEF Accept, storeVars, clientVars, IInv, TypeOK, PublicOps
  <2>2. CASE r.op # "Refresh"
    <3>1. RefreshOK(w)'
      BY <2>1, <2>2, OtherOp
    <3> QED
      BY <1>1, <2>1, <3>1, QuietCause
  <2>3. CASE r.op = "Refresh"
    <3>1. Entry(r.op) = "refreshFind"
      BY <2>3 DEF Entry
    <3>2. \/ pc'[w] = "refreshFind" /\ status'[w] = 0
          \/ pc'[w] = "done" /\ status'[w] = 400
      BY <1>1, <2>1, <2>3, <3>1, PlainMoves DEF Moves
    <3>3. RefreshOK(w)'
      BY <2>1, <3>2 DEF RefreshOK
    <3> QED
      BY <1>1, <2>1, <3>3, QuietCause
  <2> QED
    BY <2>2, <2>3
<1> QED
  BY <1>2 DEF Receive, RegisterCall, LoginCall, RefreshCall, MeCall, CreateCall, ListCall,
              StatusCall, RoleCall, DeleteCall, BadBody

(* The look at the token: gone means it had a cause, expired means it did.  *)
LEMMA FindCause ==
    ASSUME Calm, IInv, IInv', RowsKept, CInv, NEW w \in Workers, RefreshFind(w)
    PROVE  CInv'
<1>1. /\ pc[w] = "refreshFind" /\ status[w] = 0 /\ req[w].op = "Refresh" /\ RefreshOK(w)
      /\ UNCHANGED <<tokens, minted, held, spent, now, req>>
  BY DEF RefreshFind, storeVars, clientVars, IInv, StepOK, RouteOK, CInv
<1>2. PICK t : t = req[w].token
  OBVIOUS
<1>3. t # None => t \in minted /\ t \in TokenIds
  BY <1>2 DEF IInv, StepOK, SessionStepOK, TypeOK
<1>4. \/ (t = None \/ tokens[t] = None) /\ Reply(w, 401)
      \/ /\ t # None /\ tokens[t] # None
         /\ Goto(w, IF Expired(tokens[t]) THEN "dropExpired" ELSE "refreshLoad")
  BY <1>2 DEF RefreshFind, Calm, Refused
<1>5. CASE (t = None \/ tokens[t] = None) /\ Reply(w, 401)
  <2>1. pc'[w] = "done" /\ status'[w] = 401
    BY <1>1, <1>5, PlainMoves DEF Moves
  <2>2. t # None => Cause(t)
    BY <1>3, <1>5 DEF CInv, CauseOK
  <2>3. Cause(t) => Cause(t)'
    BY <1>1, OthersStay, CauseStays DEF Serve, SessionStep, IInv, TypeOK
  <2>4. req[w].token # None => Cause(req[w].token)'
    BY <1>1, <1>2, <2>2, <2>3 DEF Cause, Lapsed, Rotating
  <2>5. RefreshOK(w)'
    BY <1>1, <2>1, <2>4 DEF RefreshOK
  <2> QED
    BY <1>1, <2>5, QuietCause DEF Serve, SessionStep
<1>6. CASE /\ t # None /\ tokens[t] # None
           /\ Goto(w, IF Expired(tokens[t]) THEN "dropExpired" ELSE "refreshLoad")
  <2>1. /\ pc'[w] = IF Expired(tokens[t]) THEN "dropExpired" ELSE "refreshLoad"
        /\ status'[w] = 0
    BY <1>1, <1>6, PlainMoves DEF Moves
  <2>2. Expired(tokens[t]) => Lapsed(t)
    <3>1. [token |-> t, exp |-> tokens[t].exp] \in held
      BY <1>3, <1>6 DEF CInv, CauseOK
    <3>2. tokens[t].exp \in Nat /\ now \in Nat
      BY <1>3, <1>6 DEF IInv, TypeOK, TokenRow
    <3> QED
      BY <3>1, <3>2 DEF Expired, Lapsed
  <2>3. pc'[w] = "dropExpired" => Lapsed(req[w].token)'
    BY <1>1, <1>2, <2>1, <2>2 DEF Lapsed
  <2>4. pc'[w] \in {"dropExpired", "refreshLoad"}
    BY <2>1
  <2>5. RefreshOK(w)'
    BY <1>1, <2>1, <2>3, <2>4 DEF RefreshOK
  <2> QED
    BY <1>1, <2>5, QuietCause DEF Serve, SessionStep
<1> QED
  BY <1>4, <1>5, <1>6

LEMMA LoadCause ==
    ASSUME Calm, IInv, IInv', RowsKept, CInv, NEW w \in Workers, RefreshLoad(w)
    PROVE  CInv'
<1>1. /\ pc[w] = "refreshLoad" /\ status[w] = 0 /\ req[w].op = "Refresh" /\ RefreshOK(w)
      /\ UNCHANGED <<users, tokens, minted, held, spent, now, req>>
  BY DEF RefreshLoad, storeVars, clientVars, IInv, StepOK, RouteOK, CInv
<1>2. PICK u : u = cred[w].user
  OBVIOUS
<1>3. u \in UserIds /\ Exists(u)
  BY <1>1, <1>2, RefreshReady DEF TokenRow, IInv, StepOK, SessionStepOK
<1>4. SelectUser(w, u) /\ Goto(w, "rotate")
  BY <1>2, <1>3 DEF RefreshLoad, Calm, Refused
<1>5. pc'[w] = "rotate" /\ status'[w] = 0
  BY <1>1, <1>4, PlainMoves DEF Moves
<1>6. seen'[w].id = u
  BY <1>4 DEF SelectUser, CopyOf, IInv, TypeOK
<1>7. Exists(u)'
  BY <1>1, <1>3 DEF Exists
<1>8. RefreshOK(w)'
  BY <1>1, <1>3, <1>5, <1>6, <1>7 DEF RefreshOK
<1> QED
  BY <1>1, <1>8, QuietCause DEF Serve, SessionStep

(* The two deletions: the token goes because it expired, or because the     *)
(* worker comes to mint its successor.                                      *)
LEMMA DeleteCause ==
    ASSUME Calm, IInv, IInv', RowsKept, CInv, NEW w \in Workers, DropExpired(w) \/ Rotate(w)
    PROVE  CInv'
<1>1. /\ pc[w] \in {"dropExpired", "rotate"} /\ status[w] = 0 /\ RefreshOK(w)
      /\ UNCHANGED <<users, minted, held, spent, now, req, seen>>
  BY DEF DropExpired, Rotate, readVars, clientVars, IInv, StepOK, RouteOK, CInv
<1>2. PICK t : t = req[w].token
  OBVIOUS
<1>3. /\ req[w].op = "Refresh" /\ t \in TokenIds
      /\ tokens \in [TokenIds -> TokenRow \cup {None}]
  BY <1>1, <1>2, RefreshReady
<1>4. /\ tokens' = [tokens EXCEPT ![t] = None]
      /\ \/ pc[w] = "dropExpired" /\ Reply(w, 401)
         \/ pc[w] = "rotate" /\ Goto(w, "mint")
  BY <1>2 DEF DropExpired, Rotate, Delete, Committed, Calm, Refused, Unacked
<1>5. \A v \in Workers \ {w} : Stays(v)
  BY OthersStay DEF Serve, SessionStep
<1>6. \A v \in Workers :
         Stays(v) \/ (pc[v] = "mint" /\ req[v].op = "Refresh" => req[v].token \in spent')
  BY <1>1, <1>5
<1>7. now <= now'
  BY <1>1 DEF IInv, TypeOK
<1>8. \A s : (Lapsed(s) => Lapsed(s)') /\ (Cause(s) => Cause(s)')
  BY <1>1, <1>6, <1>7, CauseStays
<1>9. \/ pc[w] = "dropExpired" /\ pc'[w] = "done" /\ status'[w] = 401 /\ Lapsed(t)
      \/ pc[w] = "rotate" /\ pc'[w] = "mint" /\ status'[w] = 0
  BY <1>1, <1>2, <1>4, PlainMoves DEF Moves, RefreshOK
<1>10. Cause(t)'
  <2>1. CASE Lapsed(t)
    BY <1>8, <2>1 DEF Cause
  <2>2. CASE pc'[w] = "mint"
    <3>1. pc'[w] = "mint" /\ req'[w].op = "Refresh" /\ req'[w].token = t
      BY <1>1, <1>2, <1>3, <2>2
    <3> QED
      BY <3>1 DEF Cause, Rotating
  <2> QED
    BY <1>9, <2>1, <2>2
<1>11. CauseOK'
  <2>1. \A s \in TokenIds : s # t => tokens'[s] = tokens[s]
    BY <1>3, <1>4
  <2>2. tokens'[t] = None
    BY <1>3, <1>4
  <2>3. (\A s \in TokenIds : tokens[s] # None => [token |-> s, exp |-> tokens[s].exp] \in held)'
    BY <1>1, <2>1, <2>2 DEF CInv, CauseOK
  <2>4. (\A s \in minted : tokens[s] = None => Cause(s))'
    <3>1. ASSUME NEW s \in minted', tokens'[s] = None
          PROVE  Cause(s)'
      <4>1. CASE s = t
        BY <1>10, <4>1
      <4>2. CASE s # t
        <5>1. s \in minted /\ tokens[s] = None
          BY <1>1, <2>1, <3>1, <4>2 DEF IInv, TypeOK
        <5> QED
          BY <1>8, <5>1 DEF CInv, CauseOK
      <4> QED
        BY <4>1, <4>2
    <3> QED
      BY <3>1
  <2> QED
    BY <2>3, <2>4 DEF CauseOK
<1>12. RefreshOK(w)'
  <2>1. status'[w] = 401 => Cause(req[w].token)'
    BY <1>1, <1>2, <1>10 DEF Cause, Lapsed, Rotating
  <2>2. pc'[w] = "mint" => (\E u \in UserIds : u = seen[w].id /\ Exists(u))'
    BY <1>1, <1>3, <1>9 DEF RefreshOK, Exists
  <2> QED
    BY <1>1, <1>3, <1>9, <2>1, <2>2 DEF RefreshOK
<1> QED
  BY <1>1, <1>5, <1>6, <1>7, <1>11, <1>12, CauseStep

(* The new token: its client knows it, and the old one is spent.            *)
LEMMA MintCause ==
    ASSUME Calm, IInv, IInv', RowsKept, CInv, NEW w \in Workers, Mint(w)
    PROVE  CInv'
<1>1. /\ pc[w] = "mint" /\ status[w] = 0 /\ RouteOK(w) /\ RefreshOK(w)
      /\ UNCHANGED <<users, now, req>>
  BY DEF Mint, IInv, StepOK, RouteOK, CInv
<1>2. PICK u : u = seen[w].id
  OBVIOUS
<1>3. PICK exp : exp = now + RefreshTTL
  OBVIOUS
<1>4. PICK r : r = req[w]
  OBVIOUS
<1>5. r.op \in {"Login", "Refresh"} /\ r.op \in Ops \cup {"none"}
  BY <1>1, <1>4 DEF RouteOK, RefreshOK
<1>6. r.op = "Refresh" => Exists(u)
  BY <1>1, <1>2, <1>4 DEF RefreshOK
<1>7. CASE UNCHANGED <<tokens, minted, clientVars>> /\ Reply(w, 500) /\ r.op = "Login"
  <2>1. RefreshOK(w)'
    BY <1>1, <1>4, <1>5, <1>7, OtherOp
  <2>2. \A v \in Workers \ {w} : Stays(v)
    BY OthersStay DEF Serve, SessionStep
  <2>3. \A v \in Workers :
           Stays(v) \/ (pc[v] = "mint" /\ req[v].op = "Refresh" => req[v].token \in spent')
    BY <1>4, <1>7, <2>2
  <2>4. UNCHANGED <<held, spent, tokens, minted>> /\ now <= now'
    BY <1>1, <1>7 DEF clientVars, IInv, TypeOK
  <2>5. \A s : Cause(s) => Cause(s)'
    BY <2>3, <2>4, CauseStays
  <2>6. CauseOK'
    BY <2>4, <2>5 DEF CInv, CauseOK
  <2> QED
    BY <2>1, <2>2, <2>3, <2>4, <2>6, CauseStep
<1>8. ASSUME NEW t \in TokenIds \ minted, Reply(w, 200),
             tokens' = [tokens EXCEPT ![t] = [user |-> u, exp |-> exp]],
             minted' = minted \cup {t},
             held' = held \cup {[token |-> t, exp |-> exp]},
             spent' = IF r.op = "Login" THEN spent ELSE spent \cup {r.token}
      PROVE  CInv'
  <2>1. \A v \in Workers \ {w} : Stays(v)
    BY OthersStay DEF Serve, SessionStep
  <2>2. \A v \in Workers :
           Stays(v) \/ (pc[v] = "mint" /\ req[v].op = "Refresh" => req[v].token \in spent')
    BY <1>4, <1>5, <1>8, <2>1
  <2>3. held \subseteq held' /\ spent \subseteq spent' /\ now <= now'
    BY <1>1, <1>8 DEF IInv, TypeOK
  <2>4. \A s : Cause(s) => Cause(s)'
    BY <2>2, <2>3, CauseStays
  <2>5. /\ tokens'[t] = [user |-> u, exp |-> exp]
        /\ \A s \in TokenIds : s # t => tokens'[s] = tokens[s]
    BY <1>8 DEF IInv, TypeOK
  <2>6. tokens'[t] # None
    <3>1. u \in UserIds
      <4>1. seen[w] \in Copy
        BY <1>1 DEF IInv, TypeOK, StepOK, SessionStepOK
      <4> QED
        BY <1>2, <4>1 DEF Copy
    <3>2. exp \in Nat
      BY <1>3, ConstantsAssumption DEF IInv, TypeOK
    <3> QED
      BY <2>5, <3>1, <3>2, ConstantsAssumption DEF TokenRow
  <2>7. CauseOK'
    <3>1. ASSUME NEW s \in TokenIds, tokens'[s] # None
          PROVE  [token |-> s, exp |-> tokens'[s].exp] \in held'
      BY <1>8, <2>5, <3>1 DEF CInv, CauseOK
    <3>2. ASSUME NEW s \in minted', tokens'[s] = None
          PROVE  Cause(s)'
      <4>1. s \in minted /\ tokens[s] = None
        BY <1>8, <2>5, <2>6, <3>2 DEF IInv, TypeOK
      <4> QED
        BY <2>4, <4>1 DEF CInv, CauseOK
    <3> QED
      BY <3>1, <3>2 DEF CauseOK
  <2>8. pc'[w] = "done" /\ status'[w] = 200
    BY <1>1, <1>8, PlainMoves DEF Moves
  <2>9. RefreshOK(w)'
    BY <1>1, <1>4, <1>5, <2>8 DEF RefreshOK
  <2> QED
    BY <2>1, <2>2, <2>3, <2>7, <2>9, CauseStep
<1> QED
  BY <1>2, <1>3, <1>4, <1>5, <1>6, <1>7, <1>8 DEF Mint, Calm, Refused, Unacked

LEMMA FinishCause ==
    ASSUME IInv, IInv', RowsKept, CInv, NEW w \in Workers, Finish(w)
    PROVE  CInv'
<1>1. /\ pc[w] = "done" /\ req'[w] = NoRequest
      /\ UNCHANGED <<tokens, minted, held, spent, now>>
  BY DEF Finish, Release, storeVars, clientVars
<1>2. RefreshOK(w)'
  BY <1>1, OtherOp DEF NoRequest
<1> QED
  BY <1>1, <1>2, QuietCause DEF Serve

LEMMA TickCause ==
    ASSUME IInv, IInv', RowsKept, CInv, Tick \/ UNCHANGED vars
    PROVE  CInv'
<1>1. (\A v \in Workers : Stays(v)) /\ UNCHANGED <<tokens, minted, held, spent>> /\ now <= now'
  BY DEF Tick, vars, storeVars, readVars, clientVars, Stays, IInv, TypeOK
<1>2. \A t : Cause(t) => Cause(t)'
  BY <1>1, CauseStays
<1>3. CauseOK'
  BY <1>1, <1>2 DEF CInv, CauseOK
<1> QED
  BY <1>1, <1>3, CauseStep

LEMMA CauseNext ==
    ASSUME Calm, IInv, IInv', RowsKept, CInv, [Next]_vars
    PROVE  CInv'
<1>1. ~Crash
  BY DEF Crash, Calm
<1>2. ASSUME NEW w \in Workers, PurgeTokens(w)
      PROVE  FALSE
  <2>1. pc[w] = "purge" /\ RouteOK(w) /\ RefreshOK(w)
    BY <1>2 DEF PurgeTokens, IInv, StepOK, CInv
  <2> QED
    BY <2>1 DEF RouteOK, RefreshOK, Calm
<1>3. ASSUME NEW w \in Workers, Receive(w) \/ Serve(w)
      PROVE  CInv'
  BY <1>2, <1>3, ReceiveCause, OtherSteps, FindCause, LoadCause, DeleteCause, MintCause, FinishCause
     DEF Serve, AccountStep, SessionStep, PlainSteps
<1> QED
  BY <1>1, <1>3, TickCause DEF Next

LEMMA CauseInit == Init => CInv
<1> SUFFICES ASSUME Init PROVE CInv
  OBVIOUS
<1>1. CauseOK
  BY DEF Init, CauseOK
<1>2. \A w \in Workers : RefreshOK(w)
  BY DEF Init, RefreshOK, NoRequest
<1> QED
  BY <1>1, <1>2 DEF CInv

(* RefusedForCause: with a healthy database and no soft delete, a refresh   *)
(* never ends in a 500, and in a 401 only when its token is unknown, has    *)
(* expired, was exchanged or is being exchanged by another request.         *)
THEOREM RefusedForCauseHolds ==
    ASSUME Calm PROVE Spec => []RefusedForCause
<1>1. IInv /\ IInv' /\ RowsKept /\ CInv /\ [Next]_vars => CInv'
  BY CauseNext
<1>2. IInv /\ [Next]_vars => RowsKept
  BY NextStep
<1>3. IInv /\ CInv => RefusedForCause
  <2> SUFFICES ASSUME IInv, CInv, NEW w \in Workers, req[w].op = "Refresh", req[w].token # None
               PROVE  /\ status[w] # 500
                      /\ status[w] = 401 =>
                            \/ \E h \in held : h.token = req[w].token /\ h.exp < now
                            \/ req[w].token \in spent
                            \/ \E v \in Workers \ {w} : req[v].token = req[w].token
    BY DEF RefusedForCause
  <2>1. RefreshOK(w) /\ (status[w] # 0 => pc[w] = "done")
    BY DEF CInv, IInv, StepOK, RouteOK
  <2> QED
    BY <2>1 DEF RefreshOK, Cause, Lapsed, Rotating
<1> QED
  BY <1>1, <1>2, <1>3, CauseInit, InvariantHolds, PTL DEF Spec
-----------------------------------------------------------------------------
(* parsePositiveInt, digit by digit: what a number is worth is built up     *)
(* from the left, with a wrap at every digit, and summed up by place.       *)

LEMMA WrapKeeps ==
    ASSUME NEW n \in Int
    PROVE  Wrap(n) \in Int /\ (n \in 0 .. IntMax => Wrap(n) = n)
<1>1. IntMax \in Nat
  BY PageAssumption
<1> QED
  BY <1>1 DEF Wrap

LEMMA PowersOfTen ==
    /\ PowerOfTen[0] = 1
    /\ \A n \in Nat : PowerOfTen[n] \in Nat /\ PowerOfTen[n + 1] = 10 * PowerOfTen[n]
<1> DEFINE table(f) == f = [n \in Nat |-> IF n = 0 THEN 1 ELSE 10 * f[n - 1]]
           step == [n \in Nat |-> [v \in Nat |-> 10 * v]]
<1>1. step \in Steps(Nat)
  BY DEF Steps
<1>2. PICK f : Follows(f, Nat, 1, step)
  <2>1. 1 \in Nat
    OBVIOUS
  <2> HIDE DEF step
  <2> QED
    BY <1>1, <2>1, Recursion
<1>3. \A n \in Nat : n # 0 => f[n] = 10 * f[n - 1]
  <2>1. \A n \in Nat : n # 0 => n - 1 \in Nat /\ (n - 1) + 1 = n
    OBVIOUS
  <2> QED
    BY <1>2, <2>1 DEF Follows
<1>4. table(f)
  BY <1>2, <1>3 DEF Follows
<1>5. table(PowerOfTen)
  <2>1. PowerOfTen = CHOOSE g : table(g)
    BY DEF PowerOfTen
  <2> HIDE DEF table
  <2> QED
    BY <1>4, <2>1
<1>6. PowerOfTen[0] = 1 /\ \A n \in Nat : PowerOfTen[n + 1] = 10 * PowerOfTen[n]
  BY <1>5
<1> DEFINE G == {n \in Nat : PowerOfTen[n] \in Nat}
<1>7. G = Nat
  <2>1. 0 \in G /\ \A n \in G : n + 1 \in G
    BY <1>6
  <2> HIDE DEF G
  <2>2. G \in SUBSET Nat
    BY DEF G
  <2> QED
    BY <2>1, <2>2, NumbersByInduction
<1> QED
  BY <1>6, <1>7

LEMMA DigitTypes ==
    ASSUME NEW s \in Digits
    PROVE  /\ Len(s) \in Nat /\ DOMAIN s = 1 .. Len(s)
           /\ \A i \in DOMAIN s : s[i] \in Nat /\ i - 1 \in Nat /\ (i - 1) + 1 = i
<1>1. s \in Seq(0 .. 10)
  BY DEF Digits
<1>2. Len(s) \in Nat /\ DOMAIN s = 1 .. Len(s)
  BY <1>1, LenProperties
<1>3. \A i \in DOMAIN s : s[i] \in 0 .. 10
  BY <1>1, <1>2, ElementOfSeq
<1> QED
  BY <1>2, <1>3

(* The value of the first i digits, without any overflow. *)
LEMMA PrefixValues ==
    ASSUME NEW s \in Digits, IsNumber(s)
    PROVE  \E value \in [Nat -> Nat] :
              value[0] = 0 /\ \A i \in DOMAIN s : value[i] = value[i - 1] * 10 + s[i]
<1> DEFINE step == [i \in Nat |-> [v \in Nat |-> IF i + 1 \in DOMAIN s THEN v * 10 + s[i + 1] ELSE v]]
<1>1. \A i \in DOMAIN s : s[i] \in Nat /\ i - 1 \in Nat /\ (i - 1) + 1 = i
  BY DigitTypes
<1>2. step \in Steps(Nat)
  BY <1>1 DEF Steps
<1>3. PICK value : Follows(value, Nat, 0, step)
  <2>1. 0 \in Nat /\ 0 \in Int
    OBVIOUS
  <2> HIDE DEF step
  <2> QED
    BY <1>2, <2>1, Recursion
<1>4. ASSUME NEW i \in DOMAIN s PROVE value[i] = value[i - 1] * 10 + s[i]
  <2>1. value[(i - 1) + 1] = step[i - 1][value[i - 1]]
    BY <1>1, <1>3 DEF Follows
  <2> QED
    BY <1>1, <1>3, <2>1 DEF Follows
<1> QED
  BY <1>3, <1>4 DEF Follows

LEMMA ParseUnfolds ==
    ASSUME NEW s \in Digits
    PROVE  \E result :
              /\ parsePositiveInt(s) = result[Len(s)]
              /\ result[0] = 0
              /\ \A i \in DOMAIN s : result[i] = Wrap(result[i - 1] * 10 + s[i])
<1> DEFINE parses(r) == r = [i \in 0 .. Len(s) |-> IF i = 0 THEN 0 ELSE Wrap(r[i - 1] * 10 + s[i])]
           step == [i \in Nat |-> [v \in Int |-> IF i + 1 \in DOMAIN s THEN Wrap(v * 10 + s[i + 1]) ELSE v]]
<1>1. /\ \A i \in DOMAIN s : s[i] \in Int /\ i # 0 /\ i - 1 \in Nat /\ (i - 1) + 1 = i
      /\ Len(s) \in Nat /\ DOMAIN s = 1 .. Len(s)
  BY DigitTypes
<1>2. step \in Steps(Int)
  <2>1. ASSUME NEW i \in Nat, NEW v \in Int, i + 1 \in DOMAIN s
        PROVE  Wrap(v * 10 + s[i + 1]) \in Int
    <3>1. s[i + 1] \in Int
      BY <1>1, <2>1
    <3>2. v * 10 + s[i + 1] \in Int
      BY <3>1
    <3> QED
      BY <3>2, WrapKeeps
  <2> QED
    BY <2>1 DEF Steps
<1>3. PICK f : Follows(f, Int, 0, step)
  <2>1. 0 \in Nat /\ 0 \in Int
    OBVIOUS
  <2> HIDE DEF step
  <2> QED
    BY <1>2, <2>1, Recursion
<1>4. ASSUME NEW i \in DOMAIN s PROVE f[i] = Wrap(f[i - 1] * 10 + s[i])
  <2>1. f[(i - 1) + 1] = step[i - 1][f[i - 1]]
    BY <1>1, <1>3 DEF Follows
  <2> QED
    BY <1>1, <1>3, <2>1 DEF Follows
<1> DEFINE g == [i \in 0 .. Len(s) |-> f[i]]
<1>5. parses(g)
  <2>1. ASSUME NEW i \in 0 .. Len(s), i # 0
        PROVE  g[i] = Wrap(g[i - 1] * 10 + s[i])
    <3>1. i \in DOMAIN s /\ i - 1 \in 0 .. Len(s) /\ g[i] = f[i] /\ g[i - 1] = f[i - 1]
      BY <1>1, <2>1
    <3> QED
      BY <1>4, <3>1
  <2>2. g[0] = 0
    BY <1>1, <1>3 DEF Follows
  <2> QED
    BY <2>1, <2>2
<1> DEFINE result == CHOOSE r : parses(r)
<1>6. parses(result)
  <2> HIDE DEF parses, g
  <2> QED
    BY <1>5
<1>7. parsePositiveInt(s) = result[Len(s)]
  BY DEF parsePositiveInt
<1> HIDE DEF result
<1>8. result[0] = 0 /\ \A i \in DOMAIN s : result[i] = Wrap(result[i - 1] * 10 + s[i])
  <2>1. 0 \in 0 .. Len(s) /\ \A i \in DOMAIN s : i \in 0 .. Len(s)
    BY <1>1
  <2>2. \A i \in 0 .. Len(s) : result[i] = IF i = 0 THEN 0 ELSE Wrap(result[i - 1] * 10 + s[i])
    BY <1>6
  <2> QED
    BY <1>1, <2>1, <2>2
<1> QED
  BY <1>7, <1>8

LEMMA OneMorePlace ==
    ASSUME NEW v \in Nat, NEW d \in Nat, NEW p \in Nat
    PROVE  d * p + v * (10 * p) = (v * 10 + d) * p
OBVIOUS

(* Horner's scheme and the place values give the same number. *)
LEMMA WrittenByPrefixes ==
    ASSUME NEW s \in Digits, NEW value \in [Nat -> Nat],
           value[0] = 0, \A i \in DOMAIN s : value[i] = value[i - 1] * 10 + s[i]
    PROVE  Written(s) = value[Len(s)]
<1>1. PICK n \in Nat : n = Len(s) /\ DOMAIN s = 1 .. n
  BY DigitTypes
<1>2. \A i \in 1 .. n : s[i] \in Nat
  BY <1>1, DigitTypes
<1>3. \A i \in 0 .. n : n - i \in Nat /\ PowerOfTen[n - i] \in Nat
  BY PowersOfTen
<1> DEFINE place == [i \in DOMAIN s |-> s[i] * PowerOfTen[n - i]]
<1>4. Written(s) = SumFunctionOnSet(place, 1 .. n)
  BY <1>1 DEF Written, SumFunction
<1>5. \A i \in 1 .. n : place[i] = s[i] * PowerOfTen[n - i]
  BY <1>1
<1>6. \A i \in 1 .. n : place[i] \in Int
  <2>1. ASSUME NEW i \in 1 .. n PROVE s[i] * PowerOfTen[n - i] \in Int
    <3>1. s[i] \in Nat /\ PowerOfTen[n - i] \in Nat
      BY <1>2, <1>3
    <3> QED
      BY <3>1
  <2> HIDE DEF place
  <2> QED
    BY <1>5, <2>1
<1> HIDE DEF place
<1>7. ASSUME NEW i \in 0 .. n PROVE IsFiniteSet(1 .. i) /\ \A j \in 1 .. i : place[j] \in Int
  <2>1. i \in Int /\ 1 \in Int /\ 1 .. i \subseteq 1 .. n
    OBVIOUS
  <2>2. IsFiniteSet(1 .. i)
    BY <2>1, FS_Interval
  <2> QED
    BY <1>6, <2>1, <2>2
<1> DEFINE G == {i \in Nat : i <= n => SumFunctionOnSet(place, 1 .. i) = value[i] * PowerOfTen[n - i]}
<1>8. 0 \in G
  <2>1. SumFunctionOnSet(place, 1 .. 0) = 0
    <3>1. IsFiniteSet(1 .. 0) /\ 1 .. 0 = {} /\ \A j \in 1 .. 0 : place[j] \in Int
      BY <1>7
    <3>2. SumFunctionOnSet(place, {}) = 0
      BY <3>1, SumProperties
    <3> QED
      BY <3>1, <3>2
  <2>2. value[0] * PowerOfTen[n - 0] = 0
    <3>1. PowerOfTen[n - 0] \in Nat
      BY <1>3
    <3> QED
      BY <3>1
  <2> QED
    BY <2>1, <2>2
<1>9. ASSUME NEW i \in G PROVE i + 1 \in G
  <2> SUFFICES ASSUME i + 1 <= n
               PROVE  SumFunctionOnSet(place, 1 .. i + 1) = value[i + 1] * PowerOfTen[n - (i + 1)]
    OBVIOUS
  <2>1. /\ i \in Nat /\ i + 1 \in 1 .. n /\ i \in 0 .. n /\ i + 1 \notin 1 .. i
        /\ 1 .. i + 1 = (1 .. i) \cup {i + 1} /\ (i + 1) - 1 = i
    <3>1. i \in Nat
      OBVIOUS
    <3> HIDE DEF G
    <3> QED
      BY <3>1
  <2>2. PICK p \in Nat : p = PowerOfTen[n - (i + 1)] /\ PowerOfTen[n - i] = 10 * p
    <3>1. n - (i + 1) \in Nat /\ (n - (i + 1)) + 1 = n - i
      BY <2>1
    <3> QED
      BY <3>1, PowersOfTen
  <2>3. SumFunctionOnSet(place, (1 .. i) \cup {i + 1})
          = place[i + 1] + SumFunctionOnSet(place, 1 .. i)
    <3>1. \A j \in (1 .. i) \cup {i + 1} : place[j] \in Int
      BY <1>6, <1>7, <2>1
    <3>2. IsFiniteSet(1 .. i)
      BY <1>7, <2>1
    <3> QED
      BY <2>1, <3>1, <3>2, SumAddElement
  <2>4. SumFunctionOnSet(place, 1 .. i) = value[i] * PowerOfTen[n - i]
    BY <2>1
  <2> HIDE DEF G
  <2>5. place[i + 1] = s[i + 1] * p
    BY <1>5, <2>1, <2>2
  <2>6. value[i + 1] = value[i] * 10 + s[i + 1]
    BY <1>1, <2>1
  <2>7. value[i] \in Nat /\ s[i + 1] \in Nat
    <3>1. value[i] \in Nat
      BY <2>1
    <3>2. s[i + 1] \in Nat
      BY <1>2, <2>1
    <3> QED
      BY <3>1, <3>2
  <2>8. s[i + 1] * p + value[i] * (10 * p) = (value[i] * 10 + s[i + 1]) * p
    BY <2>7, OneMorePlace
  <2> QED
    BY <2>1, <2>2, <2>3, <2>4, <2>5, <2>6, <2>8
<1>10. G = Nat
  <2> HIDE DEF G
  <2>1. G \in SUBSET Nat
    BY DEF G
  <2> QED
    BY <1>8, <1>9, <2>1, NumbersByInduction
<1>11. SumFunctionOnSet(place, 1 .. n) = value[n] * PowerOfTen[n - n]
  <2>1. n \in G /\ n <= n
    BY <1>10
  <2> QED
    BY <2>1
<1>12. n - n = 0 /\ value[n] \in Nat /\ value[n] * 1 = value[n]
  OBVIOUS
<1> QED
  BY <1>1, <1>4, <1>11, <1>12, PowersOfTen

(* A number that an int can hold is parsed as it was written. *)
LEMMA ParsedAsWritten ==
    ASSUME NEW s \in Digits, IsNumber(s)
    PROVE  /\ Written(s) \in Nat
           /\ Written(s) <= IntMax => parsePositiveInt(s) = Written(s)
<1>1. PICK value \in [Nat -> Nat] :
         value[0] = 0 /\ \A i \in DOMAIN s : value[i] = value[i - 1] * 10 + s[i]
  BY PrefixValues
<1>2. PICK result :
         /\ parsePositiveInt(s) = result[Len(s)]
         /\ result[0] = 0
         /\ \A i \in DOMAIN s : result[i] = Wrap(result[i - 1] * 10 + s[i])
  BY ParseUnfolds
<1>3. PICK n \in Nat : n = Len(s) /\ DOMAIN s = 1 .. n /\ \A i \in DOMAIN s : s[i] \in Nat
  BY DigitTypes
<1>4. Written(s) = value[n] /\ value[n] \in Nat
  BY <1>1, <1>3, WrittenByPrefixes
<1>5. ASSUME value[n] <= IntMax PROVE result[n] = value[n]
  <2>0. IntMax \in Nat
    BY PageAssumption
  <2>1. \A i \in 0 .. n : value[i] <= IntMax
    <3> DEFINE G == {k \in Nat : k <= n => value[n - k] <= IntMax}
    <3>1. 0 \in G
      BY <1>3, <1>5
    <3>2. ASSUME NEW k \in G PROVE k + 1 \in G
      <4> SUFFICES ASSUME k + 1 <= n PROVE value[n - (k + 1)] <= IntMax
        OBVIOUS
      <4>1. /\ n - k \in DOMAIN s /\ (n - k) - 1 = n - (k + 1)
            /\ value[n - (k + 1)] \in Nat /\ value[n - k] \in Nat /\ value[n - k] <= IntMax
        <5>1. /\ k \in Nat /\ n - k \in 1 .. n /\ n - (k + 1) \in Nat /\ n - k \in Nat
              /\ k <= n /\ (n - k) - 1 = n - (k + 1)
          OBVIOUS
        <5> QED
          BY <1>3, <5>1
      <4>2. value[n - k] = value[n - (k + 1)] * 10 + s[n - k] /\ s[n - k] \in Nat
        BY <1>1, <1>3, <4>1
      <4>3. \A a, b, c \in Nat : a * 10 + b <= c => a <= c
        OBVIOUS
      <4> HIDE DEF G
      <4> QED
        BY <2>0, <4>1, <4>2, <4>3
    <3>3. G = Nat
      <4> HIDE DEF G
      <4>1. G \in SUBSET Nat
        BY DEF G
      <4> QED
        BY <3>1, <3>2, <4>1, NumbersByInduction
    <3>4. ASSUME NEW i \in 0 .. n PROVE value[i] <= IntMax
      <4>1. n - i \in Nat /\ n - i <= n /\ n - (n - i) = i
        OBVIOUS
      <4>2. value[n - (n - i)] <= IntMax
        BY <3>3, <4>1
      <4> QED
        BY <4>1, <4>2
    <3> QED
      BY <3>4
  <2> DEFINE G == {i \in Nat : i <= n => result[i] = value[i]}
  <2>2. 0 \in G
    BY <1>1, <1>2
  <2>3. ASSUME NEW i \in G PROVE i + 1 \in G
    <3> SUFFICES ASSUME i + 1 <= n PROVE result[i + 1] = value[i + 1]
      OBVIOUS
    <3>1. i + 1 \in DOMAIN s /\ i + 1 \in 0 .. n /\ (i + 1) - 1 = i /\ result[i] = value[i]
      BY <1>3
    <3>2. result[i + 1] = Wrap(value[i] * 10 + s[i + 1]) /\ value[i + 1] = value[i] * 10 + s[i + 1]
      BY <1>1, <1>2, <3>1
    <3>3. value[i + 1] \in 0 .. IntMax
      BY <2>0, <2>1, <3>1
    <3> QED
      BY <2>0, <3>2, <3>3, WrapKeeps
  <2>4. G = Nat
    <3> HIDE DEF G
    <3>1. G \in SUBSET Nat
      BY DEF G
    <3> QED
      BY <2>2, <2>3, <3>1, NumbersByInduction
  <2> QED
    BY <1>3, <2>4
<1> QED
  BY <1>2, <1>3, <1>4, <1>5

(* PageAsAsked: LIMIT and OFFSET stay within their bounds whatever was      *)
(* sent, and a number that an int can hold is used as it was written.       *)
THEOREM PageAsAskedHolds == Spec => []PageAsAsked
<1>1. ASSUME NEW s \in Digits
      PROVE  /\ PageSize(s) \in 1 .. MaxPage /\ PageStart(s) \in 0 .. IntMax
             /\ IsNumber(s) /\ Written(s) \in 1 .. MaxPage => PageSize(s) = Written(s)
             /\ IsNumber(s) /\ Written(s) <= IntMax => PageStart(s) = Written(s)
  <2>1. IntMax \in Nat /\ MaxPage \in 1 .. IntMax /\ DefaultPage \in 1 .. MaxPage
    BY PageAssumption
  <2>2. PageSize(s) \in 1 .. MaxPage /\ PageStart(s) \in 0 .. IntMax
    BY <2>1 DEF PageSize, PageStart
  <2>3. IsNumber(s) /\ Written(s) <= IntMax => parsePositiveInt(s) = Written(s) /\ Written(s) \in Nat
    BY ParsedAsWritten
  <2> QED
    BY <2>1, <2>2, <2>3 DEF PageSize, PageStart
<1>2. TypeOK => PageAsAsked
  <2> SUFFICES ASSUME TypeOK, NEW w \in Workers
               PROVE  req[w].limit \in Digits /\ req[w].offset \in Digits
    BY <1>1 DEF PageAsAsked
  <2>1. req[w] \in Request
    BY DEF TypeOK
  <2> QED
    BY <2>1 DEF Request
<1> QED
  BY <1>2, TypeOKHolds, PTL
-----------------------------------------------------------------------------
(***************************************************************************)
(* Four promises of the repository that TLC refutes: what each needs to   *)
(* hold.  The needs are what the traces of those runs lack and no more, so *)
(* these theorems say that nothing else breaks the promises.               *)
(***************************************************************************)

(* No username is the email of another row. *)
NamesApart ==
    \A u, v \in UserIds :
        Exists(u) /\ Exists(v) /\ u # v => users[u].username # users[v].email

(* While a status update is about to write, no other request is about to    *)
(* change the role of that row.                                             *)
StatusUndisturbed ==
    \A v, w \in Workers :
        pc[w] = "statusUpdate" /\ pc[v] \in {"roleUpdate", "deleteUpdate"} =>
            req[v].target # req[w].target

(* While a deletion purges and answers, no request is about to store a      *)
(* refresh token for the deleted user.                                      *)
DeletionUndisturbed ==
    \A v, w \in Workers :
        req[w].op = "DeleteUser" /\ pc[w] \in {"purge", "done"} /\ pc[v] = "mint" =>
            seen[v].id # req[w].target

(* What a step of the lookup's own worker can be. *)
LEMMA LookupStep ==
    ASSUME IInv, NEW w \in Workers, pc[w] = "loginFind", Next, status'[w] = 401
    PROVE  LoginFind(w)
<1>1. status[w] = 0 /\ pc \in [Workers -> Labels] /\ status \in [Workers -> Codes]
  BY DEF IInv, StepOK, RouteOK, TypeOK
<1>2. ~Tick /\ ~Crash
  BY <1>1 DEF Tick, Crash, Release
<1>3. PICK v \in Workers : Receive(v) \/ Serve(v)
  BY <1>2 DEF Next
<1>4. v = w
  BY <1>1, <1>3, OthersStay DEF Stays
<1>5. ~Receive(w) /\ ~Finish(w) /\ ~PlainSteps(w)
  BY PlainEffect DEF Receive, Finish, PlainLabels
<1> QED
  BY <1>3, <1>4, <1>5 DEF Serve, AccountStep, SessionStep, PlainSteps, PurgeTokens, ListCount,
     ListPage, Authenticate, Mint, RefreshFind, DropExpired, RefreshLoad, Rotate

(* Login takes the first of the rows its identifier names; when no username *)
(* is another row's email there is only one, and the right password for it  *)
(* is not refused.                                                          *)
THEOREM LoginNeedsNamesApart == Spec /\ []NamesApart => OwnerCanLogin
<1> DEFINE Admitted ==
      \A w \in Workers :
         pc[w] = "loginFind" /\ status'[w] = 401 =>
            ~ \E u \in Named(req[w].username) : users[u].password = req[w].password
<1>1. IInv /\ NamesApart /\ [Next]_vars => [Admitted]_vars
  <2> SUFFICES ASSUME IInv, NamesApart, Next, NEW w \in Workers,
                      pc[w] = "loginFind", status'[w] = 401,
                      NEW u \in Named(req[w].username)
               PROVE  users[u].password # req[w].password
    OBVIOUS
  <2>1. LoginFind(w)
    BY LookupStep
  <2>2. /\ pc \in [Workers -> Labels] /\ status \in [Workers -> Codes] /\ status[w] = 0
    BY DEF IInv, StepOK, RouteOK, TypeOK
  <2>3. \A code : Reply(w, code) => status'[w] = code
    BY <2>2 DEF Reply
  <2>4. \A label : Goto(w, label) => status'[w] = 0
    BY <2>2 DEF Goto
  <2>5. PICK v \in Named(req[w].username) : users[v].password # req[w].password
    BY <2>1, <2>3, <2>4 DEF LoginFind
  <2>6. u = v
    BY DEF Named, NamesApart, IInv, TablesOK, UniqueIdentities, Clash
  <2> QED
    BY <2>5, <2>6
<1> QED
  BY <1>1, InvariantHolds, PTL DEF Spec, OwnerCanLogin, Admitted

(* A status update holds the base of the role its row has. *)
BaseRead(w) ==
    pc[w] = "statusUpdate" => seen[w].role.base = users[req[w].target].role.base

(* Whoever writes, a row keeps the base of its role, unless it is the       *)
(* target of a role change or a deletion.                                   *)
LEMMA BaseStays ==
    ASSUME IInv, NEW x \in Workers, Receive(x) \/ Serve(x), BaseRead(x),
           NEW u \in UserIds, Exists(u),
           pc[x] \in {"roleUpdate", "deleteUpdate"} => req[x].target # u
    PROVE  users'[u].role.base = users[u].role.base
<1>1. /\ users \in [UserIds -> Row \cup {None}] /\ users[u] \in Row
      /\ AdminStepOK(x)
  BY DEF IInv, StepOK, TypeOK, Exists
<1>2. CASE users' = users
  BY <1>2
<1>3. ASSUME NEW row, NEW label, UpdateRow(x, req[x].target, row, label), row.role.base = users[u].role.base
             \/ req[x].target # u
      PROVE  users'[u].role.base = users[u].role.base
  BY <1>1, <1>3 DEF UpdateRow
<1>4. CASE StatusUpdate(x)
  <2> DEFINE row == [users[req[x].target] EXCEPT !.role = StatusRole(seen[x].role, req[x].active)]
  <2>1. /\ pc[x] = "statusUpdate" /\ UpdateRow(x, req[x].target, row, "statusReload")
    BY <1>4 DEF StatusUpdate
  <2>2. /\ req[x].target \in UserIds /\ Exists(req[x].target) /\ seen[x] # None
        /\ seen \in [Workers -> Copy \cup {None}]
    BY <1>1, <2>1 DEF AdminStepOK, IInv, TypeOK
  <2>3. users[req[x].target] \in Row /\ seen[x].role \in RoleRec
    BY <1>1, <2>2 DEF Exists, Copy
  <2>4. row.role.base = users[req[x].target].role.base
    BY <2>1, <2>3 DEF StatusRole, BaseRead, Row, RoleRec
  <2> QED
    BY <1>3, <2>1, <2>4
<1>5. CASE RoleUpdate(x)
  BY <1>2, <1>3, <1>5 DEF RoleUpdate
<1>6. CASE DeleteUpdate(x)
  BY <1>3, <1>6 DEF DeleteUpdate
<1>7. CASE InsertUser(x)
  BY <1>1, <1>7 DEF InsertUser, Exists
<1>8. CASE \/ RoleCount(x) \/ UserCount(x) \/ StatusFind(x) \/ StatusReload(x)
           \/ RoleFind(x) \/ RoleReload(x) \/ DeleteFind(x) \/ PurgeTokens(x)
           \/ ListCount(x) \/ ListPage(x)
  BY <1>2, <1>8 DEF RoleCount, UserCount, StatusFind, StatusReload, RoleFind, RoleReload,
     DeleteFind, FindTarget, Reload, PurgeTokens, ListCount, ListPage
<1>9. CASE SessionStep(x) \/ Finish(x)
  BY <1>2, <1>9 DEF SessionStep, Authenticate, LoginFind, Mint, RefreshFind, DropExpired,
     RefreshLoad, Rotate, Finish, Release, storeVars
<1>10. CASE Receive(x)
  <2>1. \E r : Accept(x, r)
    BY <1>10 DEF Receive, RegisterCall, LoginCall, RefreshCall, MeCall, CreateCall, ListCall,
                 StatusCall, RoleCall, DeleteCall, BadBody
  <2> QED
    BY <1>2, <2>1 DEF Accept, storeVars
<1> QED
  BY <1>4, <1>5, <1>6, <1>7, <1>8, <1>9, <1>10 DEF Serve, AccountStep

(* A worker comes to the status update with the row it has just read. *)
LEMMA BaseIsRead ==
    ASSUME IInv, NEW w \in Workers, Receive(w) \/ Serve(w), pc[w] # "statusUpdate"
    PROVE  BaseRead(w)'
<1>1. /\ pc \in [Workers -> Labels] /\ seen \in [Workers -> Copy \cup {None}]
  BY DEF IInv, TypeOK
<1>2. /\ \A label : Goto(w, label) => pc'[w] = label
      /\ \A code : Reply(w, code) => pc'[w] = "done"
  BY <1>1 DEF Goto, Reply
<1>3. CASE StatusFind(w)
  <2>1. FindTarget(w, "statusUpdate")
    BY <1>3 DEF StatusFind
  <2>2. users' = users /\ req' = req
    BY <2>1 DEF FindTarget, accountsFrame
  <2>3. pc'[w] = "done" \/ seen'[w] = CopyOf(req[w].target)
    BY <1>1, <1>2, <2>1 DEF FindTarget, SelectUser
  <2> QED
    BY <2>2, <2>3 DEF BaseRead, CopyOf
<1>4. ASSUME \/ \E label : Goto(w, label) /\ label # "statusUpdate"
             \/ \E code : Reply(w, code)
      PROVE  BaseRead(w)'
  BY <1>2, <1>4 DEF BaseRead
<1>5. CASE RoleCount(w) \/ UserCount(w) \/ InsertUser(w)
  BY <1>4, <1>5 DEF RoleCount, UserCount, InsertUser
<1>6. CASE RoleFind(w) \/ DeleteFind(w)
  BY <1>4, <1>6 DEF RoleFind, DeleteFind, FindTarget
<1>7. CASE RoleUpdate(w) \/ DeleteUpdate(w)
  BY <1>4, <1>7 DEF RoleUpdate, DeleteUpdate, UpdateRow, Committed
<1>8. CASE StatusReload(w) \/ RoleReload(w)
  BY <1>4, <1>8 DEF StatusReload, RoleReload, Reload
<1>9. CASE PurgeTokens(w) \/ ListCount(w) \/ ListPage(w)
  BY <1>4, <1>9 DEF PurgeTokens, ListCount, ListPage
<1>10. CASE Authenticate(w)
  <2>1. \A op \in AdminOps : Entry(op) # "statusUpdate"
    BY DEF AdminOps, Entry
  <2> QED
    BY <1>4, <1>10, <2>1 DEF Authenticate
<1>11. CASE LoginFind(w) \/ Mint(w) \/ RefreshFind(w) \/ DropExpired(w) \/ RefreshLoad(w) \/ Rotate(w)
  BY <1>4, <1>11 DEF LoginFind, Mint, RefreshFind, DropExpired, RefreshLoad, Rotate, Committed
<1>12. CASE Finish(w)
  BY <1>12 DEF Finish, Release, BaseRead
<1>13. CASE Receive(w)
  <2>1. \A op \in PublicOps : Entry(op) # "statusUpdate"
    BY DEF PublicOps, Entry
  <2>2. \E r : Accept(w, r)
    BY <1>13 DEF Receive, RegisterCall, LoginCall, RefreshCall, MeCall, CreateCall, ListCall,
                 StatusCall, RoleCall, DeleteCall, BadBody
  <2> QED
    BY <1>4, <2>1, <2>2 DEF Accept
<1>14. ~StatusUpdate(w)
  BY DEF StatusUpdate
<1> QED
  BY <1>3, <1>5, <1>6, <1>7, <1>8, <1>9, <1>10, <1>11, <1>12, <1>13, <1>14
     DEF Serve, AccountStep, SessionStep

BaseInv == \A w \in Workers : BaseRead(w)

LEMMA BaseNext ==
    ASSUME IInv, BaseInv, StatusUndisturbed, Next, NEW v \in Workers
    PROVE  /\ BaseRead(v)'
           /\ pc[v] = "statusUpdate" =>
                users'[req[v].target].role.base = users[req[v].target].role.base
<1>1. CASE Tick
  BY <1>1 DEF Tick, storeVars, readVars, BaseInv, BaseRead
<1>2. CASE Crash
  BY <1>2 DEF Crash, Release, storeVars, BaseRead
<1>3. ASSUME NEW x \in Workers, Receive(x) \/ Serve(x)
      PROVE  /\ BaseRead(v)'
             /\ pc[v] = "statusUpdate" =>
                  users'[req[v].target].role.base = users[req[v].target].role.base
  <2>1. CASE pc[v] = "statusUpdate"
    <3>1. req[v].target \in UserIds /\ Exists(req[v].target)
      BY <2>1 DEF IInv, StepOK, AdminStepOK
    <3>2. users'[req[v].target].role.base = users[req[v].target].role.base
      BY <1>3, <2>1, <3>1, BaseStays DEF BaseInv, StatusUndisturbed
    <3>3. CASE x = v
      <4>1. StatusUpdate(v)
        BY <1>3, <2>1, <3>3 DEF Receive, Serve, AccountStep, SessionStep, Finish, RoleCount,
           UserCount, InsertUser, StatusFind, StatusReload, RoleFind, RoleUpdate, RoleReload,
           DeleteFind, DeleteUpdate, Reload, PurgeTokens, ListCount, ListPage, Authenticate,
           LoginFind, Mint, RefreshFind, DropExpired, RefreshLoad, Rotate
      <4>2. pc'[v] \in {"statusReload", "done"}
        BY <4>1 DEF StatusUpdate, UpdateRow, Committed, Goto, Reply, IInv, TypeOK
      <4> QED
        BY <3>2, <4>2 DEF BaseRead
    <3>4. CASE x # v
      <4>1. Stays(v)
        BY <1>3, <3>4, OthersStay
      <4> QED
        BY <3>2, <4>1 DEF Stays, BaseInv, BaseRead
    <3> QED
      BY <3>3, <3>4
  <2>2. CASE pc[v] # "statusUpdate"
    <3>1. CASE x = v
      BY <1>3, <2>2, <3>1, BaseIsRead
    <3>2. CASE x # v
      BY <1>3, <2>2, <3>2, OthersStay DEF Stays, BaseRead
    <3> QED
      BY <2>2, <3>1, <3>2
  <2> QED
    BY <2>1, <2>2
<1> QED
  BY <1>1, <1>2, <1>3 DEF Next

(* UpdateUserStatus computes the role from the row it read; when no request *)
(* changes that row's role before the write, however many other requests    *)
(* run in between, the role stays what it was but for the mark.             *)
THEOREM StatusNeedsNoRoleChange == Spec /\ []StatusUndisturbed => StatusKeepsRole
<1> DEFINE RoleStays ==
      \A w \in Workers :
         pc[w] = "statusUpdate" /\ pc'[w] = "statusReload" =>
            LET u == req[w].target IN users'[u].role.base = users[u].role.base
<1>1. Init => BaseInv
  BY DEF Init, BaseInv, BaseRead
<1>2. IInv /\ BaseInv /\ StatusUndisturbed /\ [Next]_vars => BaseInv'
  <2> SUFFICES ASSUME IInv, BaseInv, StatusUndisturbed, [Next]_vars PROVE BaseInv'
    OBVIOUS
  <2>1. CASE UNCHANGED vars
    BY <2>1 DEF vars, storeVars, readVars, BaseInv, BaseRead
  <2>2. CASE Next
    BY <2>2, BaseNext DEF BaseInv
  <2> QED
    BY <2>1, <2>2
<1>3. IInv /\ BaseInv /\ StatusUndisturbed /\ [Next]_vars => [RoleStays]_vars
  BY BaseNext
<1> QED
  BY <1>1, <1>2, <1>3, InvariantHolds, PTL DEF Spec, StatusKeepsRole, RoleStays

(* The tokens of a row, before and after a step that stores none for it.    *)
NoTokensOf(u) == \A t \in TokenIds : tokens[t] # None => tokens[t].user # u

LEMMA NoNewTokens ==
    ASSUME IInv, NEW x \in Workers, Receive(x) \/ Serve(x), NEW u, NoTokensOf(u),
           pc[x] = "mint" => seen[x].id # u
    PROVE  NoTokensOf(u)'
<1>1. tokens \in [TokenIds -> TokenRow \cup {None}]
  BY DEF IInv, TypeOK
<1>2. CASE tokens' = tokens
  BY <1>2 DEF NoTokensOf
<1>3. CASE Mint(x)
  <2> DEFINE row == [user |-> seen[x].id, exp |-> now + RefreshTTL]
  <2>1. pc[x] = "mint" /\ (tokens' = tokens \/ \E t \in TokenIds : tokens' = [tokens EXCEPT ![t] = row])
    BY <1>3 DEF Mint
  <2>2. row.user # u
    BY <2>1
  <2> HIDE DEF row
  <2> QED
    BY <1>1, <1>2, <2>1, <2>2 DEF NoTokensOf
<1>4. ASSUME NEW s, Delete(s) PROVE NoTokensOf(u)'
  BY <1>1, <1>4 DEF Delete, NoTokensOf
<1>5. CASE DropExpired(x) \/ Rotate(x)
  BY <1>2, <1>4, <1>5 DEF DropExpired, Rotate
<1>6. CASE PurgeTokens(x)
  BY <1>2, <1>6 DEF PurgeTokens, NoTokensOf
<1>7. CASE PlainSteps(x)
  BY <1>2, <1>7, PlainEffect
<1>8. CASE ListCount(x) \/ ListPage(x)
  BY <1>2, <1>8 DEF ListCount, ListPage, accountsFrame
<1>9. CASE Authenticate(x) \/ LoginFind(x) \/ RefreshFind(x) \/ RefreshLoad(x) \/ Finish(x)
  BY <1>2, <1>9 DEF Authenticate, LoginFind, RefreshFind, RefreshLoad, Finish, Release, storeVars
<1>10. CASE Receive(x)
  <2>1. \E r : Accept(x, r)
    BY <1>10 DEF Receive, RegisterCall, LoginCall, RefreshCall, MeCall, CreateCall, ListCall,
                 StatusCall, RoleCall, DeleteCall, BadBody
  <2> QED
    BY <1>2, <2>1 DEF Accept, storeVars
<1> QED
  BY <1>3, <1>5, <1>6, <1>7, <1>8, <1>9, <1>10 DEF Serve, AccountStep, SessionStep, PlainSteps

(* Only the purge answers 204. *)
LEMMA DeletedByPurge ==
    ASSUME IInv, NEW w \in Workers, Receive(w) \/ Serve(w), status'[w] = 204
    PROVE  PurgeTokens(w)
<1>1. status[w] # 0 => pc[w] = "done"
  BY DEF IInv, StepOK, RouteOK
<1>2. /\ pc \in [Workers -> Labels] /\ status \in [Workers -> Codes]
  BY DEF IInv, TypeOK
<1>3. /\ \A label : Goto(w, label) => status' = status
      /\ \A code : Reply(w, code) => status'[w] = code
  BY <1>2 DEF Goto, Reply
<1>4. ~PlainSteps(w)
  BY <1>1, <1>3, PlainEffect DEF PlainLabels
<1>5. ~ListCount(w) /\ ~ListPage(w)
  BY <1>1, <1>3 DEF ListCount, ListPage
<1>6. ~Authenticate(w) /\ ~LoginFind(w) /\ ~Mint(w)
  BY <1>1, <1>3 DEF Authenticate, LoginFind, Mint
<1>7. ~RefreshFind(w) /\ ~DropExpired(w) /\ ~RefreshLoad(w) /\ ~Rotate(w)
  BY <1>1, <1>3 DEF RefreshFind, DropExpired, RefreshLoad, Rotate, Committed
<1>8. ~Finish(w)
  BY DEF Finish, Release
<1>9. ~Receive(w)
  <2>1. Receive(w) => pc[w] = "idle" /\ \E r : Accept(w, r)
    BY DEF Receive, RegisterCall, LoginCall, RefreshCall, MeCall, CreateCall, ListCall,
           StatusCall, RoleCall, DeleteCall, BadBody
  <2> QED
    BY <1>1, <1>3, <2>1 DEF Accept
<1> QED
  BY <1>4, <1>5, <1>6, <1>7, <1>8, <1>9 DEF Serve, AccountStep, SessionStep, PlainSteps

(* DeleteUser purges the user's refresh tokens after the row is retired;    *)
(* when its purge does not fail and no login or refresh of that user is     *)
(* between its last read and its INSERT, the answer finds none left.        *)
THEOREM PurgeNeedsNoMint ==
    "refused" \notin Faults => (Spec /\ []DeletionUndisturbed => []DeletedHasNoTokens)
<1> SUFFICES ASSUME "refused" \notin Faults
             PROVE  Spec /\ []DeletionUndisturbed => []DeletedHasNoTokens
  OBVIOUS
<1>1. Init => DeletedHasNoTokens
  BY DEF Init, DeletedHasNoTokens
<1>2. IInv /\ DeletionUndisturbed /\ DeletedHasNoTokens /\ [Next]_vars => DeletedHasNoTokens'
  <2> SUFFICES ASSUME IInv, DeletionUndisturbed, DeletedHasNoTokens, [Next]_vars,
                      NEW w \in Workers, req'[w].op = "DeleteUser", status'[w] = 204
               PROVE  NoTokensOf(req[w].target)' /\ req'[w] = req[w]
    BY DEF DeletedHasNoTokens, NoTokensOf
  <2>1. CASE Tick \/ UNCHANGED vars
    BY <2>1 DEF Tick, vars, storeVars, DeletedHasNoTokens, NoTokensOf
  <2>2. ~Crash
    BY DEF Crash, Release
  <2>3. ASSUME NEW x \in Workers, Receive(x) \/ Serve(x)
        PROVE  NoTokensOf(req[w].target)' /\ req'[w] = req[w]
    <3>1. CASE x = w
      <4>1. PurgeTokens(w)
        BY <2>3, <3>1, DeletedByPurge
      <4> QED
        BY <4>1 DEF PurgeTokens, Refused, NoTokensOf
    <3>2. CASE x # w
      <4>1. Stays(w)
        BY <2>3, <3>2, OthersStay
      <4>2. NoTokensOf(req[w].target) /\ req[w].op = "DeleteUser"
        BY <4>1 DEF Stays, DeletedHasNoTokens, NoTokensOf
      <4>3. pc[w] = "done"
        BY <4>1 DEF Stays, IInv, StepOK, RouteOK
      <4>4. pc[x] = "mint" => seen[x].id # req[w].target
        BY <4>2, <4>3 DEF DeletionUndisturbed
      <4> QED
        BY <2>3, <4>1, <4>2, <4>4, NoNewTokens DEF Stays
    <3> QED
      BY <3>1, <3>2
  <2> QED
    BY <2>1, <2>2, <2>3 DEF Next
<1> QED
  BY <1>1, <1>2, InvariantHolds, PTL DEF Spec

(* A refresh that has deleted its token and not been freed since.           *)
Exchanging(w) == req[w].op = "Refresh" /\ (pc[w] = "mint" \/ status[w] = 200)

(* No refresh is about to delete a token that another has just deleted.     *)
RotationUndisturbed ==
    \A v, w \in Workers :
        v # w /\ Exchanging(v) /\ req[w].op = "Refresh" /\ pc[w] = "rotate" =>
            req[v].token # req[w].token

LEMMA ExchangeStarts ==
    ASSUME IInv, NEW w \in Workers, Receive(w) \/ Serve(w), Exchanging(w)'
    PROVE  /\ req'[w] = req[w]
           /\ Exchanging(w) \/ (req[w].op = "Refresh" /\ pc[w] = "rotate")
<1>1. /\ RouteOK(w) /\ pc \in [Workers -> Labels] /\ status \in [Workers -> Codes]
      /\ req \in [Workers -> Request]
  BY DEF IInv, StepOK, TypeOK
<1>2. /\ \A label : Goto(w, label) => pc'[w] = label /\ status'[w] = status[w]
      /\ \A code : Reply(w, code) => pc'[w] = "done" /\ status'[w] = code
  BY <1>1 DEF Goto, Reply
<1>3. CASE PlainSteps(w)
  <2>1. /\ pc[w] \in PlainLabels /\ req' = req
        /\ pc'[w] \in PlainLabels \cup {"purge", "done"}
    BY <1>2, <1>3, PlainEffect
  <2>2. req[w].op # "Refresh"
    BY <1>1, <2>1 DEF RouteOK, PlainLabels, Exchanging
  <2> QED
    BY <2>1, <2>2 DEF Exchanging
<1>4. CASE PurgeTokens(w) \/ ListCount(w) \/ ListPage(w) \/ LoginFind(w) \/ Authenticate(w)
  <2>1. req' = req
    BY <1>4 DEF PurgeTokens, ListCount, ListPage, LoginFind, Authenticate, accountsFrame
  <2>2. CASE Authenticate(w)
    <3>1. status[w] = 0 /\ \A op \in AdminOps : Entry(op) # "mint"
      BY <1>1, <2>2 DEF RouteOK, Authenticate, AdminOps, Entry
    <3> QED
      BY <1>2, <2>1, <2>2, <3>1 DEF Authenticate, Exchanging
  <2>3. CASE PurgeTokens(w) \/ ListCount(w) \/ ListPage(w) \/ LoginFind(w)
    <3>1. req[w].op # "Refresh"
      BY <1>1, <2>3 DEF RouteOK, PurgeTokens, ListCount, ListPage, LoginFind
    <3> QED
      BY <2>1, <3>1 DEF Exchanging
  <2> QED
    BY <1>4, <2>2, <2>3
<1>5. CASE Mint(w)
  BY <1>5 DEF Mint, Exchanging
<1>6. CASE Rotate(w)
  BY <1>6 DEF Rotate, Exchanging
<1>7. CASE RefreshFind(w) \/ DropExpired(w) \/ RefreshLoad(w)
  <2>1. status[w] = 0
    BY <1>1, <1>7 DEF RouteOK, RefreshFind, DropExpired, RefreshLoad
  <2> QED
    BY <1>2, <1>7, <2>1 DEF RefreshFind, DropExpired, RefreshLoad, Exchanging
<1>8. ~Finish(w)
  BY DEF Finish, Release, Exchanging, NoRequest
<1>9. ~Receive(w)
  <2>1. Receive(w) => pc[w] = "idle" /\ \E r : Accept(w, r)
    BY DEF Receive, RegisterCall, LoginCall, RefreshCall, MeCall, CreateCall, ListCall,
           StatusCall, RoleCall, DeleteCall, BadBody
  <2>2. \A op \in PublicOps : Entry(op) # "mint"
    BY DEF PublicOps, Entry
  <2>3. pc[w] = "idle" => status[w] = 0
    BY <1>1 DEF RouteOK
  <2> QED
    BY <1>2, <2>1, <2>2, <2>3 DEF Accept, Exchanging
<1> QED
  BY <1>3, <1>4, <1>5, <1>6, <1>7, <1>8, <1>9 DEF Serve, AccountStep, SessionStep, PlainSteps

OneExchange ==
    \A v, w \in Workers :
        v # w /\ Exchanging(v) /\ Exchanging(w) => req[v].token # req[w].token

(* A refresh deletes the token it exchanges before it stores the new one;   *)
(* when none comes to a token another has just deleted, no two answers      *)
(* under way carry sessions for one token.                                  *)
THEOREM RotationNeedsTurns == Spec /\ []RotationUndisturbed => []RotationSingleUse
<1>1. Init => OneExchange
  BY DEF Init, OneExchange, Exchanging, NoRequest
<1>2. IInv /\ RotationUndisturbed /\ OneExchange /\ [Next]_vars => OneExchange'
  <2> SUFFICES ASSUME IInv, RotationUndisturbed, OneExchange, [Next]_vars,
                      NEW v \in Workers, NEW w \in Workers, v # w,
                      Exchanging(v)', Exchanging(w)'
               PROVE  req'[v].token # req'[w].token
    BY DEF OneExchange
  <2>1. CASE Tick \/ UNCHANGED vars
    BY <2>1 DEF Tick, vars, OneExchange, Exchanging
  <2>2. ~Crash
    BY DEF Crash, Release, Exchanging, NoRequest
  <2>3. ASSUME NEW x \in Workers, Receive(x) \/ Serve(x)
        PROVE  req'[v].token # req'[w].token
    <3>1. ASSUME NEW y \in Workers, Exchanging(y)'
          PROVE  /\ req'[y] = req[y]
                 /\ Exchanging(y) \/ (x = y /\ req[y].op = "Refresh" /\ pc[y] = "rotate")
      BY <2>3, <3>1, ExchangeStarts, OthersStay DEF Stays, Exchanging
    <3> QED
      BY <3>1 DEF OneExchange, RotationUndisturbed
  <2> QED
    BY <2>1, <2>2, <2>3 DEF Next
<1>3. OneExchange => RotationSingleUse
  BY DEF OneExchange, RotationSingleUse, Exchanging
<1> QED
  BY <1>1, <1>2, <1>3, InvariantHolds, PTL DEF Spec
=============================================================================
