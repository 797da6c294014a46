----------------------------- MODULE AuthService -----------------------------
(***************************************************************************)
(* The auth API as a whole: workers that receive requests, run the         *)
(* statements of Accounts and Sessions interleaved, answer, and may lose   *)
(* everything but the database in a crash.                                 *)
(***************************************************************************)
EXTENDS Sessions, Functions

CONSTANTS
    Ops,                        \* the endpoints clients call
    Usernames, Emails,          \* the names clients send
    RequestRoles,               \* the roles admins send
    Limits, Offsets,            \* the page parameters admins send
    MaxTime                     \* bound on the clock

ASSUME InputAssumption ==
    /\ Ops \subseteq Endpoints
    /\ Usernames \subseteq Name /\ Emails \subseteq Name
    /\ RequestRoles \subseteq RoleRec
    /\ Limits \subseteq Digits /\ Offsets \subseteq Digits
    /\ MaxTime \in Nat

Tally == [total : Nat, items : Nat]
NoTally == [total |-> 0, items |-> 0]

Init ==
    /\ users = InitUsers
    /\ tokens = InitTokens
    /\ minted = {t \in TokenIds : InitTokens[t] # None}
    /\ held = {[token |-> t, exp |-> InitTokens[t].exp] : t \in minted}
    /\ jwts = InitJwts
    /\ spent = {}
    /\ now = 0
    /\ pc = [w \in Workers |-> "idle"]
    /\ req = [w \in Workers |-> NoRequest]
    /\ actor = [w \in Workers |-> None]
    /\ seen = [w \in Workers |-> None]
    /\ cred = [w \in Workers |-> None]
    /\ access = [w \in Workers |-> None]
    /\ tally = [w \in Workers |-> NoTally]
    /\ status = [w \in Workers |-> 0]
-----------------------------------------------------------------------------
Names == Usernames \cup Emails
StoredNames == {users[u].username : u \in {v \in UserIds : Exists(v)}}

Busy(ops) == Cardinality({w \in Workers : req[w].op \in ops})

(* Bound: a request that draws a uuid or a token arrives only while the     *)
(* finite stock still has one for it and for the requests in flight.        *)
Stocked(op) ==
    /\ op \in {"Register", "CreateUser"} =>
         Cardinality({u \in UserIds : ~Exists(u)}) > Busy({"Register", "CreateUser"})
    /\ op \in {"Login", "Refresh"} =>
         Cardinality(TokenIds \ minted) > Busy({"Login", "Refresh"})

(* The router hands worker w a request; behind no middleware, a body that   *)
(* does not decode is a 400 at once.                                        *)
Accept(w, r) ==
    /\ r.op \in Ops /\ Stocked(r.op)
    /\ req' = [req EXCEPT ![w] = r]
    /\ \/ r.op \notin PublicOps /\ Goto(w, "auth")
       \/ r.op \in PublicOps /\ r.wellFormed /\ Goto(w, Entry(r.op))
       \/ r.op \in PublicOps /\ ~r.wellFormed /\ Reply(w, 400)
    /\ UNCHANGED <<storeVars, readVars, clientVars, now>>

Call(op) == [NoRequest EXCEPT !.op = op]

RegisterCall(w) ==
    \E n \in Usernames, e \in Emails, p \in Passwords \cup {None} :
        Accept(w, [Call("Register") EXCEPT !.username = n, !.email = e, !.password = p])

LoginCall(w) ==
    \E n \in Names \cup StoredNames, p \in Passwords :
        Accept(w, [Call("Login") EXCEPT !.username = n, !.password = p])

RefreshCall(w) ==
    \E t \in {h.token : h \in held} \cup {None} :
        Accept(w, [Call("Refresh") EXCEPT !.token = t, !.arrived = now, !.replay = (t \in spent)])

MeCall(w) ==
    \E b \in jwts \cup {None} : Accept(w, [Call("Me") EXCEPT !.bearer = b])

CreateCall(w) ==
    \E b \in jwts, n \in Usernames, e \in Emails, p \in Passwords, role \in RequestRoles :
        Accept(w, [Call("CreateUser") EXCEPT !.bearer = b, !.username = n, !.email = e,
                                             !.password = p, !.role = role])

ListCall(w) ==
    \E b \in jwts, n \in Limits, k \in Offsets :
        Accept(w, [Call("ListUsers") EXCEPT !.bearer = b, !.limit = n, !.offset = k])

StatusCall(w) ==
    \E b \in jwts, u \in UserIds \cup {Malformed}, a \in BOOLEAN :
        Accept(w, [Call("UpdateUserStatus") EXCEPT !.bearer = b, !.target = u, !.active = a])

RoleCall(w) ==
    \E b \in jwts, u \in UserIds \cup {Malformed}, role \in RequestRoles :
        Accept(w, [Call("UpdateUserRole") EXCEPT !.bearer = b, !.target = u, !.role = role])

DeleteCall(w) ==
    \E b \in jwts, u \in UserIds \cup {Malformed} :
        Accept(w, [Call("DeleteUser") EXCEPT !.bearer = b, !.target = u])

(* A body that is not the JSON the handler decodes. *)
BadBody(w) ==
    \/ \E op \in PublicOps : Accept(w, [Call(op) EXCEPT !.wellFormed = FALSE])
    \/ \E op \in {"CreateUser", "UpdateUserStatus", "UpdateUserRole"}, b \in jwts :
          Accept(w, [Call(op) EXCEPT !.wellFormed = FALSE, !.bearer = b])

Receive(w) ==
    /\ pc[w] = "idle"
    /\ \/ RegisterCall(w) \/ LoginCall(w) \/ RefreshCall(w) \/ MeCall(w)
       \/ CreateCall(w) \/ ListCall(w) \/ StatusCall(w) \/ RoleCall(w) \/ DeleteCall(w)
       \/ BadBody(w)

(* The goroutines of W end and their locals with them. *)
Release(W) ==
    /\ pc' = [w \in Workers |-> IF w \in W THEN "idle" ELSE pc[w]]
    /\ req' = [w \in Workers |-> IF w \in W THEN NoRequest ELSE req[w]]
    /\ actor' = [w \in Workers |-> IF w \in W THEN None ELSE actor[w]]
    /\ seen' = [w \in Workers |-> IF w \in W THEN None ELSE seen[w]]
    /\ cred' = [w \in Workers |-> IF w \in W THEN None ELSE cred[w]]
    /\ access' = [w \in Workers |-> IF w \in W THEN None ELSE access[w]]
    /\ tally' = [w \in Workers |-> IF w \in W THEN NoTally ELSE tally[w]]
    /\ status' = [w \in Workers |-> IF w \in W THEN 0 ELSE status[w]]
    /\ UNCHANGED <<storeVars, clientVars, now>>

(* The answer is on the wire. *)
Finish(w) == pc[w] = "done" /\ Release({w})

Tick ==
    /\ now < MaxTime
    /\ now' = now + 1
    /\ UNCHANGED <<storeVars, readVars, clientVars, pc, req, status>>

(* The process dies with every request in flight and starts again. *)
Crash == "crash" \in Faults /\ Release(Workers)

Serve(w) == AccountStep(w) \/ SessionStep(w) \/ Finish(w)

Next == Tick \/ Crash \/ \E w \in Workers : Receive(w) \/ Serve(w)

Spec == Init /\ [][Next]_vars

(* net/http runs each request's goroutine until it answers. *)
FairSpec == Spec /\ \A w \in Workers : WF_vars(Serve(w))
-----------------------------------------------------------------------------
Labels == {"idle", "done", "auth", "roleCount", "userCount", "insert",
           "statusFind", "statusUpdate", "statusReload",
           "roleFind", "roleUpdate", "roleReload", "deleteFind", "deleteUpdate", "purge",
           "listCount", "listPage", "loginFind", "mint",
           "refreshFind", "dropExpired", "refreshLoad", "rotate"}

Codes == {0, 200, 201, 204, 400, 401, 403, 404, 409, 500}

(* Type correctness: what every row, local and answer can be. *)
TypeOK ==
    /\ users \in [UserIds -> Row \cup {None}]
    /\ tokens \in [TokenIds -> TokenRow \cup {None}]
    /\ minted \subseteq TokenIds /\ spent \subseteq minted
    /\ held \subseteq [token : minted, exp : Nat]
    /\ jwts \subseteq Jwt
    /\ now \in Nat
    /\ pc \in [Workers -> Labels]
    /\ req \in [Workers -> Request]
    /\ actor \in [Workers -> UserIds \cup {None}]
    /\ seen \in [Workers -> Copy \cup {None}]
    /\ cred \in [Workers -> TokenRow \cup {None}]
    /\ access \in [Workers -> Jwt \cup {None}]
    /\ tally \in [Workers -> Tally]
    /\ status \in [Workers -> Codes]

(* RequireAdminRole tests a copy of the caller's row, and the handler acts  *)
(* on it several statements later: the caller is an ADMIN all that time.    *)
AdminNeverStale ==
    \A w \in Workers :
        req[w].op \in AdminOps /\ pc[w] \notin {"idle", "auth", "done"} =>
            actor[w] \in UserIds /\ IsAdmin(actor[w])

(* The five handlers write roles they computed from rows read earlier; no   *)
(* interleaving of them ever makes or unmakes an ADMIN.                     *)
AdminsFixed ==
    [][\A u \in UserIds : IsAdmin(u)' = IsAdmin(u)]_vars

(* Soft deletes write names built from a stale copy; whatever they race     *)
(* with, a row keeps the name it was created with at its head, which is     *)
(* what lets an operator restore it.                                        *)
IdentityRecoverable ==
    [][\A u \in UserIds : Exists(u) =>
        /\ users'[u] # None
        /\ Head(users'[u].username) = Head(users[u].username)
        /\ Head(users'[u].email) = Head(users[u].email)]_vars

(* Whatever the workers, the database and the process do, the user table   *)
(* behaves as if each account operation were one atomic step.               *)
Directory == INSTANCE UserDirectory
DirectorySpec == Directory!Spec

(* However the counts and inserts of two sign-ups interleave, no two rows   *)
(* share a username or an email.                                            *)
UniqueIdentities ==
    \A u, v \in UserIds : Exists(u) /\ Exists(v) /\ u # v => ~Clash(users[u], users[v])

(* A row holds what a sign-up sent, but for the mark of a soft delete. *)
FirstNamed(u, r) == Head(users[u].username) = Head(r.username)
FirstMailed(u, r) == Head(users[u].email) = Head(r.email)

(* The answer to a sign-up is true although its count and its INSERT are    *)
(* two statements, other rows are renamed in between, and commits get lost: *)
(* a 201 names a row with its names and its password that no other answer   *)
(* claims, and a 409 that one of its names is taken has a row to show.      *)
SignUpAccounted ==
    \A w \in Workers :
        LET r == req[w] IN
        /\ status[w] = 201 =>
             /\ Exists(seen[w].id) /\ users[seen[w].id].password = r.password
             /\ FirstNamed(seen[w].id, r) /\ FirstMailed(seen[w].id, r)
             /\ \A v \in Workers \ {w} : status[v] = 201 => seen[v].id # seen[w].id
        /\ status[w] = 409 =>
             \E u \in UserIds : Exists(u) /\ (FirstNamed(u, r) \/ FirstMailed(u, r))

(* A refresh token that was exchanged before a request arrived never buys   *)
(* that request a session, even when the database fails or the process      *)
(* restarts in between.                                                     *)
ReplayRejected ==
    \A w \in Workers : req[w].op = "Refresh" /\ req[w].replay => status[w] # 200

(* A token past its expiry when the request arrived is never exchanged.     *)
ExpiredRejected ==
    \A w \in Workers :
        req[w].op = "Refresh" /\ status[w] = 200 => req[w].arrived <= cred[w].exp

(* Every stored token has its user, so Refresh's load never comes up empty: *)
(* a 500 in place of a session takes a database failure.                    *)
OwnerPresent ==
    /\ \A t \in TokenIds : tokens[t] # None => Exists(tokens[t].user)
    /\ \A w \in Workers : pc[w] = "refreshLoad" => Exists(cred[w].user)

(* With a healthy database and no soft delete a refresh is refused only    *)
(* for cause: the token expired, was exchanged, or is being exchanged by    *)
(* another request; and it never ends in a 500.                             *)
RefusedForCause ==
    \A w \in Workers :
        LET t == req[w].token IN
        req[w].op = "Refresh" /\ t # None =>
            /\ status[w] # 500
            /\ status[w] = 401 =>
                  \/ \E h \in held : h.token = t /\ h.exp < now
                  \/ t \in spent
                  \/ \E v \in Workers \ {w} : req[v].token = t

(* ListUsers counts and pages in two statements; rows inserted in between   *)
(* never make the page shorter than the total it is sent with promises.     *)
PageCoversTotal ==
    \A w \in Workers :
        req[w].op = "ListUsers" /\ status[w] = 200 =>
            tally[w].items >=
                PageLength(tally[w].total, PageSize(req[w].limit), PageStart(req[w].offset))

PowerOfTen[n \in Nat] == IF n = 0 THEN 1 ELSE 10 * PowerOfTen[n - 1]

(* The number a client wrote, whatever its size: each digit by its place. *)
Written(s) == SumFunction([i \in DOMAIN s |-> s[i] * PowerOfTen[Len(s) - i]])

(* parsePositiveInt tests no overflow.  Even so LIMIT stays within its      *)
(* bounds and OFFSET is never negative, and a number an int can hold is     *)
(* used as it was written.                                                  *)
PageAsAsked ==
    \A w \in Workers :
        LET limit == PageSize(req[w].limit)
            offset == PageStart(req[w].offset)
        IN req[w].op = "ListUsers" =>
            /\ limit \in 1..MaxPage /\ offset \in 0..IntMax
            /\ IsNumber(req[w].limit) /\ Written(req[w].limit) \in 1..MaxPage =>
                  limit = Written(req[w].limit)
            /\ IsNumber(req[w].offset) /\ Written(req[w].offset) <= IntMax =>
                  offset = Written(req[w].offset)

(* Every request is answered and its worker freed. *)
Answered == \A w \in Workers : pc[w] # "idle" ~> pc[w] = "idle"
-----------------------------------------------------------------------------
(* What the repository says and the code does not do: each is checked by a  *)
(* run that TLC must refute.                                                *)

(* README.md:10 "rotation on use": a refresh token buys one new session.    *)
RotationSingleUse ==
    \A v, w \in Workers :
        /\ v # w /\ req[v].op = "Refresh" /\ req[w].op = "Refresh"
        /\ status[v] = 200 /\ status[w] = 200
        => req[v].token # req[w].token

(* internal/http/handlers/auth.go:118 "Login with username or email": the   *)
(* right password for a row the identifier names is not refused.            *)
OwnerCanLogin ==
    [][\A w \in Workers :
         pc[w] = "loginFind" /\ status'[w] = 401 =>
            ~ \E u \in Named(req[w].username) : users[u].password = req[w].password]_vars

(* internal/auth/service.go:308-310: activation adds or removes a suffix;   *)
(* it does not change which role the user has.                              *)
StatusKeepsRole ==
    [][\A w \in Workers :
         pc[w] = "statusUpdate" /\ pc'[w] = "statusReload" =>
            LET u == req[w].target IN users'[u].role.base = users[u].role.base]_vars

(* internal/auth/service.go:392 "Delete all refresh tokens for this user".  *)
DeletedHasNoTokens ==
    \A w \in Workers :
        req[w].op = "DeleteUser" /\ status[w] = 204 =>
            \A t \in TokenIds : tokens[t] # None => tokens[t].user # req[w].target

(* internal/http/handlers/auth_test.go:528-537: deleting a user is a 204.   *)
DeleteWorks ==
    \A w \in Workers :
        req[w].op = "DeleteUser" /\ req[w].target \in UserIds => status[w] # 500

=============================================================================
