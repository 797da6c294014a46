------------------------------- MODULE Sessions -------------------------------
(***************************************************************************)
(* Sessions of auth.Service and the middleware in front of the protected   *)
(* handlers: RequireAuth, RequireAdminRole, Login, GenerateRefreshToken,   *)
(* Refresh and Me.                                                         *)
(***************************************************************************)
EXTENDS Accounts

(* The step a worker starts a request at, behind the middleware. *)
Entry(op) ==
    CASE op = "Register"         -> "userCount"
      [] op = "Login"            -> "loginFind"
      [] op = "Refresh"          -> "refreshFind"
      [] op = "CreateUser"       -> "roleCount"
      [] op = "ListUsers"        -> "listCount"
      [] op = "UpdateUserStatus" -> "statusFind"
      [] op = "UpdateUserRole"   -> "roleCount"
      [] op = "DeleteUser"       -> "deleteFind"
      [] OTHER                   -> "me"

NewJwt(u) == [sub |-> u, exp |-> now + JWTTTL]

(* ParseToken: the signature verifies and the expiry lies ahead. *)
Verifies(jwt) == SecretSet /\ jwt # None /\ now < jwt.exp

(* Mutant: the list of allowed roles is not consulted. *)
BadInputAnyRole(r, user) == ~r.wellFormed \/ (r.op = "DeleteUser" /\ r.target = user)

(* The handler's own 400s, in front of the service call. *)
BadInput(r, user) ==
    \/ ~r.wellFormed
    \/ r.op \in {"CreateUser", "UpdateUserRole"} /\ r.role \notin AllowedRoles
    \/ r.op = "DeleteUser" /\ r.target = user

RequireAdminRole(r, u) == r.op \in AdminOps => IsAdmin(u)

(* RequireAuth loads the user the token names, whatever its role claim;     *)
(* RequireAdminRole tests that row; then the handler reads its input.       *)
(* Every failure of the load, the database's too, is a 401.                 *)
Authenticate(w) ==
    /\ pc[w] = "auth"
    /\ UNCHANGED <<storeVars, seen, cred, access, tally, clientVars, now, req>>
    /\ LET r == req[w] IN
       \/ /\ ~Verifies(r.bearer) \/ Refused
          /\ Reply(w, 401) /\ UNCHANGED actor
       \/ /\ Verifies(r.bearer)
          /\ LET u == r.bearer.sub IN
             \/ ~Exists(u) /\ Reply(w, 401) /\ UNCHANGED actor
             \/ /\ Exists(u) /\ ~RequireAdminRole(r, u)
                /\ Reply(w, 403) /\ UNCHANGED actor
             \/ /\ Exists(u)
                /\ RequireAdminRole(r, u)
                /\ actor' = [actor EXCEPT ![w] = u]
                /\ \/ r.op = "Me" /\ Reply(w, 200)
                   \/ BadInput(r, u) /\ Reply(w, 400)
                   \/ r.op \in AdminOps /\ ~BadInput(r, u) /\ Goto(w, Entry(r.op))
-----------------------------------------------------------------------------
Named(identifier) ==
    {u \in UserIds : Exists(u) /\ (users[u].username = identifier \/ users[u].email = identifier)}

(* Login's First: the lowest id among the rows the identifier names; then   *)
(* bcrypt, then the access token.                                           *)
LoginFind(w) ==
    /\ pc[w] = "loginFind"
    /\ UNCHANGED <<storeVars, actor, cred, tally, clientVars, now, req>>
    /\ LET r == req[w]
           found == Named(r.username)
       IN \/ /\ found = {} /\ Reply(w, 401) /\ UNCHANGED <<seen, access>>
          \/ Refused /\ Reply(w, 500) /\ UNCHANGED <<seen, access>>
          \/ \E u \in found :
                /\ \A v \in found : u <= v
                /\ \/ /\ users[u].password # r.password
                      /\ Reply(w, 401) /\ UNCHANGED <<seen, access>>
                   \/ /\ users[u].password = r.password /\ ~SecretSet
                      /\ Reply(w, 500) /\ UNCHANGED <<seen, access>>
                   \/ /\ users[u].password = r.password /\ SecretSet
                      /\ seen' = [seen EXCEPT ![w] = CopyOf(u)]
                      /\ access' = [access EXCEPT ![w] = NewJwt(u)]
                      /\ Goto(w, "mint")

(* GenerateRefreshToken, the last statement of Login and Refresh.  Login    *)
(* made the access token before it, Refresh makes it after.                 *)
Mint(w) ==
    /\ pc[w] = "mint"
    /\ UNCHANGED <<users, readVars, now, req>>
    /\ LET r == req[w]
           login == r.op = "Login"
           row == [user |-> seen[w].id, exp |-> now + RefreshTTL]
           jwt == IF login THEN access[w] ELSE NewJwt(seen[w].id)
       IN \/ \E t \in TokenIds \ minted :
                /\ Exists(row.user)
                /\ tokens' = [tokens EXCEPT ![t] = row]
                /\ minted' = minted \cup {t}
                /\ \/ /\ login \/ SecretSet
                      /\ Reply(w, 200)
                      /\ jwts' = jwts \cup {jwt}
                      /\ held' = held \cup {[token |-> t, exp |-> row.exp]}
                      /\ spent' = IF login THEN spent ELSE spent \cup {r.token}
                      /\ UNCHANGED cred
                   \/ /\ Unacked \/ (~login /\ ~SecretSet)
                      /\ Reply(w, 500) /\ UNCHANGED clientVars
          \/ /\ ~Exists(row.user) \/ Refused
             /\ Reply(w, 500) /\ UNCHANGED <<tokens, minted, clientVars>>
-----------------------------------------------------------------------------
(* Mutant: expiry is not looked at. *)
ExpiredNever(row) == FALSE

Expired(row) == now > row.exp

RefreshFind(w) ==
    /\ pc[w] = "refreshFind"
    /\ UNCHANGED <<storeVars, actor, seen, access, tally, clientVars, now, req>>
    /\ LET t == req[w].token IN
       \/ /\ t = None \/ (t # None /\ tokens[t] = None)
          /\ Reply(w, 401) /\ UNCHANGED cred
       \/ t # None /\ Refused /\ Reply(w, 500) /\ UNCHANGED cred
       \/ /\ t # None /\ tokens[t] # None
          /\ cred' = [cred EXCEPT ![w] = tokens[t]]
          /\ Goto(w, IF Expired(tokens[t]) THEN "dropExpired" ELSE "refreshLoad")

(* Mutant: the old token stays. *)
DeleteNothing(t) == UNCHANGED tokens

(* DELETE by the primary key of the row read; no row deleted is no error. *)
Delete(t) == tokens' = [tokens EXCEPT ![t] = None]

DropExpired(w) ==
    /\ pc[w] = "dropExpired"
    /\ Delete(req[w].token) \/ (Refused /\ UNCHANGED tokens)
    /\ Reply(w, 401)
    /\ UNCHANGED <<users, minted, readVars, clientVars, now, req>>

(* Mutant: a failed load starts the exchange over. *)
RefreshLoadRetry(w) ==
    /\ pc[w] = "refreshLoad"
    /\ UNCHANGED <<storeVars, actor, cred, access, tally, clientVars, now, req>>
    /\ \/ Refused /\ Goto(w, "refreshFind") /\ UNCHANGED seen
       \/ SelectUser(w, cred[w].user) /\ Goto(w, "rotate")

RefreshLoad(w) ==
    /\ pc[w] = "refreshLoad"
    /\ UNCHANGED <<storeVars, actor, cred, access, tally, clientVars, now, req>>
    /\ LET u == cred[w].user IN
       \/ /\ ~Exists(u) \/ Refused
          /\ Reply(w, 500) /\ UNCHANGED seen
       \/ Exists(u) /\ SelectUser(w, u) /\ Goto(w, "rotate")

(* Mutant: deleting no row is taken for a failure. *)
RotateStrict(w) ==
    /\ pc[w] = "rotate"
    /\ UNCHANGED <<users, minted, readVars, clientVars, now, req>>
    /\ \/ tokens[req[w].token] # None /\ Delete(req[w].token) /\ Committed(w, "mint")
       \/ (tokens[req[w].token] = None \/ Refused) /\ Reply(w, 500) /\ UNCHANGED tokens

Rotate(w) ==
    /\ pc[w] = "rotate"
    /\ UNCHANGED <<users, minted, readVars, clientVars, now, req>>
    /\ \/ Delete(req[w].token) /\ Committed(w, "mint")
       \/ Refused /\ Reply(w, 500) /\ UNCHANGED tokens

SessionStep(w) ==
    \/ Authenticate(w) \/ LoginFind(w) \/ Mint(w)
    \/ RefreshFind(w) \/ DropExpired(w) \/ RefreshLoad(w) \/ Rotate(w)
=============================================================================
