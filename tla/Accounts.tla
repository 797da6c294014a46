------------------------------- MODULE Accounts -------------------------------
(***************************************************************************)
(* The account operations of auth.Service and their handlers: Register,    *)
(* CreateUser, ListUsers, UpdateUserStatus, UpdateUserRole, DeleteUser.    *)
(* No transaction spans two statements, so each statement is one action    *)
(* and other workers run between them.                                     *)
(***************************************************************************)
EXTENDS AuthStore

CONSTANTS
    DefaultPage, MaxPage,   \* ListUsers: 20 and 100 in the code
    IntMax                  \* the largest int: 2^63 - 1 in the build

ASSUME PageAssumption ==
    /\ IntMax \in Nat /\ MaxPage \in 1..IntMax /\ DefaultPage \in 1..MaxPage

AllowedRoles == {Role("USER"), Role("ANALYZER"), Role("MONITOR"), Role("TEAM_LEADER")}

accountsFrame == <<tokens, minted, actor, cred, access, clientVars, now, req>>

Taken(username, email) ==
    \E u \in UserIds :
        Exists(u) /\ (users[u].username = username \/ users[u].email = email)

MissingFields(r) == r.username = <<>> \/ r.email = <<>> \/ r.password = None

SelectUser(w, u) == seen' = [seen EXCEPT ![w] = CopyOf(u)]

(* Mutant: the role is not looked at. *)
ProtectedNever(u) == FALSE

(* The refusal to modify an ADMIN. *)
Protected(u) == IsAdmin(u)

(* The opening read of the three admin updates: 404 without a row, 500 for  *)
(* an id PostgreSQL cannot parse, 400 for an ADMIN.                         *)
FindTarget(w, label) ==
    /\ UNCHANGED <<users, tally, accountsFrame>>
    /\ LET u == req[w].target IN
       \/ /\ u = Malformed \/ Refused
          /\ Reply(w, 500) /\ UNCHANGED seen
       \/ /\ u \in UserIds /\ ~Exists(u)
          /\ Reply(w, 404) /\ UNCHANGED seen
       \/ /\ u \in UserIds /\ Protected(u)
          /\ Reply(w, 400) /\ UNCHANGED seen
       \/ /\ u \in UserIds /\ Exists(u) /\ ~Protected(u)
          /\ SelectUser(w, u) /\ Goto(w, label)

(* UPDATE DEMO.USER ... WHERE id = ?; the constraints may refuse the row. *)
UpdateRow(w, u, row, label) ==
    /\ UNCHANGED <<seen, tally, accountsFrame>>
    /\ \/ /\ Admissible(u, row)
          /\ users' = [users EXCEPT ![u] = row]
          /\ Committed(w, label)
       \/ /\ ~Admissible(u, row) \/ Refused
          /\ Reply(w, 500) /\ UNCHANGED users

(* The reload that fills the response. *)
Reload(w, label) ==
    /\ pc[w] = label
    /\ UNCHANGED <<users, tally, accountsFrame>>
    /\ \/ SelectUser(w, req[w].target) /\ Reply(w, 200)
       \/ Refused /\ Reply(w, 500) /\ UNCHANGED seen
-----------------------------------------------------------------------------
(* CreateUser and UpdateUserRole: does DEMO.ROLE have the code? *)
RoleCount(w) ==
    /\ pc[w] = "roleCount"
    /\ UNCHANGED <<users, seen, tally, accountsFrame>>
    /\ LET create == req[w].op = "CreateUser"
           missing == create /\ MissingFields(req[w])
       IN \/ /\ missing \/ req[w].role \notin RoleTable \/ Refused
             /\ Reply(w, 500)
          \/ /\ ~missing /\ req[w].role \in RoleTable
             /\ Goto(w, IF create THEN "userCount" ELSE "roleFind")

(* Register and CreateUser: is the username or the email taken? *)
UserCount(w) ==
    /\ pc[w] = "userCount"
    /\ UNCHANGED <<users, seen, tally, accountsFrame>>
    /\ LET r == req[w] IN
       \/ /\ MissingFields(r) \/ Refused
          /\ Reply(w, 500)
       \/ /\ ~MissingFields(r) /\ Taken(r.username, r.email)
          /\ Reply(w, 409)
       \/ /\ ~MissingFields(r) /\ ~Taken(r.username, r.email)
          /\ Goto(w, "insert")

(* Mutant: ON CONFLICT DO NOTHING, so a row the index refuses is no error. *)
InsertUserOrIgnore(w) ==
    /\ pc[w] = "insert"
    /\ UNCHANGED <<tally, accountsFrame>>
    /\ LET r == req[w]
           row == [username |-> r.username, email |-> r.email, password |-> r.password,
                   role |-> IF r.op = "Register" THEN Role("USER") ELSE r.role]
       IN \E u \in UserIds :
          /\ ~Exists(u)
          /\ users' = IF Admissible(u, row) THEN [users EXCEPT ![u] = row] ELSE users
          /\ seen' = [seen EXCEPT ![w] = [id |-> u, username |-> row.username,
                                         email |-> row.email, role |-> row.role]]
          /\ Reply(w, 201)

(* The INSERT, after bcrypt.  A unique index refusing the row is an error   *)
(* like any other: 500.  The new row's uuid is random.                      *)
InsertUser(w) ==
    /\ pc[w] = "insert"
    /\ UNCHANGED <<tally, accountsFrame>>
    /\ LET r == req[w]
           row == [username |-> r.username, email |-> r.email, password |-> r.password,
                   role |-> IF r.op = "Register" THEN Role("USER") ELSE r.role]
       IN \E u \in UserIds :
          /\ ~Exists(u)
          /\ \/ /\ Admissible(u, row)
                /\ users' = [users EXCEPT ![u] = row]
                /\ \/ /\ Reply(w, 201)
                      /\ seen' = [seen EXCEPT ![w] =
                            [id |-> u, username |-> row.username,
                             email |-> row.email, role |-> row.role]]
                   \/ Unacked /\ Reply(w, 500) /\ UNCHANGED seen
             \/ /\ ~Admissible(u, row) \/ Refused
                /\ Reply(w, 500) /\ UNCHANGED <<users, seen>>
-----------------------------------------------------------------------------
(* The role UpdateUserStatus computes from the row it read. *)
StatusRole(role, active) == [role EXCEPT !.inactive = ~active]

StatusFind(w) == pc[w] = "statusFind" /\ FindTarget(w, "statusUpdate")

StatusUpdate(w) ==
    /\ pc[w] = "statusUpdate"
    /\ LET u == req[w].target IN
       UpdateRow(w, u, [users[u] EXCEPT !.role = StatusRole(seen[w].role, req[w].active)],
                 "statusReload")

StatusReload(w) == Reload(w, "statusReload")

RoleFind(w) == pc[w] = "roleFind" /\ FindTarget(w, "roleUpdate")

RoleUpdate(w) ==
    /\ pc[w] = "roleUpdate"
    /\ LET u == req[w].target IN
       IF req[w].role = AdminRole
       THEN Reply(w, 400) /\ UNCHANGED <<users, seen, tally, accountsFrame>>
       ELSE UpdateRow(w, u, [users[u] EXCEPT !.role = req[w].role], "roleReload")

RoleReload(w) == Reload(w, "roleReload")

DeleteFind(w) == pc[w] = "deleteFind" /\ FindTarget(w, "deleteUpdate")

(* Mutant: the name is replaced instead of extended. *)
DeletedNameReplaced(name) == <<now>>

(* "<name>_deleted_<unix time>", from the row as it was read. *)
DeletedName(name) == Append(name, now)

(* Mutant: the row is removed, and its tokens by the cascade. *)
DeleteUpdateHard(w) ==
    /\ pc[w] = "deleteUpdate"
    /\ users' = [users EXCEPT ![req[w].target] = None]
    /\ tokens' = [t \in TokenIds |->
                     IF tokens[t] # None /\ tokens[t].user = req[w].target
                     THEN None ELSE tokens[t]]
    /\ Reply(w, 204)
    /\ UNCHANGED <<minted, readVars, clientVars, now, req>>

DeleteUpdate(w) ==
    /\ pc[w] = "deleteUpdate"
    /\ LET u == req[w].target IN
       UpdateRow(w, u, [users[u] EXCEPT !.username = DeletedName(seen[w].username),
                                        !.email = DeletedName(seen[w].email),
                                        !.role = DeletedRole],
                 "purge")

(* The user's refresh tokens go; a failure is only logged. *)
PurgeTokens(w) ==
    /\ pc[w] = "purge"
    /\ \/ tokens' = [t \in TokenIds |->
                        IF tokens[t] # None /\ tokens[t].user = req[w].target
                        THEN None ELSE tokens[t]]
       \/ Refused /\ UNCHANGED tokens
    /\ Reply(w, 204)
    /\ UNCHANGED <<users, minted, readVars, clientVars, now, req>>
-----------------------------------------------------------------------------
UserTotal == Cardinality({u \in UserIds : Exists(u)})

(* Int arithmetic keeps what fits the width, in two's complement.           *)
Wrap(n) == ((n + IntMax + 1) % (2 * (IntMax + 1))) - (IntMax + 1)

IsNumber(s) == s # <<>> /\ \A i \in DOMAIN s : s[i] # 10

parsePositiveInt(s) ==
    LET result[i \in 0..Len(s)] == IF i = 0 THEN 0 ELSE Wrap(result[i - 1] * 10 + s[i])
    IN result[Len(s)]

(* A limit outside 1..MaxPage is replaced by the default. *)
PageSize(limit) ==
    IF IsNumber(limit) /\ parsePositiveInt(limit) \in 1..MaxPage
    THEN parsePositiveInt(limit) ELSE DefaultPage

(* Mutant: the sign of the offset is not looked at. *)
PageStartUnchecked(offset) == IF IsNumber(offset) THEN parsePositiveInt(offset) ELSE 0

(* A negative offset, which only a wrap yields, is replaced by 0. *)
PageStart(offset) ==
    IF IsNumber(offset) /\ parsePositiveInt(offset) \in 0..IntMax
    THEN parsePositiveInt(offset) ELSE 0

(* Mutant: no test for an offset past the end. *)
PageLengthUnclamped(n, size, offset) == IF n - offset < size THEN n - offset ELSE size

(* Rows of LIMIT size OFFSET offset over n rows. *)
PageLength(n, size, offset) ==
    IF n <= offset THEN 0 ELSE IF n - offset < size THEN n - offset ELSE size

(* ListUsers: the count, then the page, in two statements. *)
ListCount(w) ==
    /\ pc[w] = "listCount"
    /\ UNCHANGED <<users, seen, accountsFrame>>
    /\ \/ /\ tally' = [tally EXCEPT ![w].total = UserTotal]
          /\ Goto(w, "listPage")
       \/ Refused /\ Reply(w, 500) /\ UNCHANGED tally

(* Mutant: the page leaves out the soft-deleted, the count does not. *)
ListPageLive(w) ==
    /\ pc[w] = "listPage"
    /\ UNCHANGED <<users, seen, accountsFrame>>
    /\ tally' = [tally EXCEPT ![w].items =
                    PageLength(Cardinality({u \in UserIds : Exists(u) /\ users[u].role # DeletedRole}),
                               PageSize(req[w].limit), PageStart(req[w].offset))]
    /\ Reply(w, 200)

ListPage(w) ==
    /\ pc[w] = "listPage"
    /\ UNCHANGED <<users, seen, accountsFrame>>
    /\ \/ /\ tally' = [tally EXCEPT ![w].items =
                         PageLength(UserTotal, PageSize(req[w].limit), PageStart(req[w].offset))]
          /\ Reply(w, 200)
       \/ Refused /\ Reply(w, 500) /\ UNCHANGED tally

AccountStep(w) ==
    \/ RoleCount(w) \/ UserCount(w) \/ InsertUser(w)
    \/ StatusFind(w) \/ StatusUpdate(w) \/ StatusReload(w)
    \/ RoleFind(w) \/ RoleUpdate(w) \/ RoleReload(w)
    \/ DeleteFind(w) \/ DeleteUpdate(w) \/ PurgeTokens(w)
    \/ ListCount(w) \/ ListPage(w)
=============================================================================
