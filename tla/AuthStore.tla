------------------------------ MODULE AuthStore ------------------------------
(***************************************************************************)
(* The tables DEMO.USER, DEMO.ROLE and DEMO.REFRESH_TOKEN, the constraints *)
(* PostgreSQL enforces on them, the requests the API goroutines carry, and *)
(* the few steps every handler shares: answering, moving on, a failed      *)
(* statement.  Accounts and Sessions add one action per SQL statement.     *)
(*                                                                         *)
(* A name (username or email) is the sequence of what it was built from:   *)
(* <<>> is "", <<"ann">> a plain name, <<"ann", 7>> is "ann_deleted_7".    *)
(* A role "X" or "X_INACTIVE" is a record of the base and the suffix.      *)
(***************************************************************************)
EXTENDS Integers, Sequences, FiniteSets

CONSTANTS
    Workers,        \* goroutines serving requests
    UserIds,        \* uuids of DEMO.USER, numbers because First orders by id
    TokenIds,       \* refresh tokens that crypto/rand may yield
    NameAtoms,      \* what names are built from, besides deletion times
    Passwords,
    RoleCodes,      \* the codes a role may be built from
    RoleTable,      \* the rows of DEMO.ROLE
    InitUsers,      \* the rows an earlier run, or the operator, left
    InitTokens,     \* the refresh tokens an earlier run left
    InitJwts,       \* the access tokens an earlier run handed out
    NameWidth,      \* components that fit username varchar(64)
    JWTTTL, RefreshTTL,
    SecretSet,      \* JWT_SECRET is configured
    Faults,         \* which of FaultKinds may happen
    Malformed,      \* a path id that is not a uuid
    None            \* NULL, no row, nil

VARIABLES
    users,          \* DEMO.USER by id
    tokens,         \* DEMO.REFRESH_TOKEN by the opaque token whose hash is stored
    minted,         \* tokens crypto/rand has yielded; it never repeats itself
    jwts,           \* access tokens clients hold
    held,           \* refresh tokens clients were given, with refresh_expires_at
    now,            \* the clock, in seconds
    pc,             \* where each worker is
    req,            \* the request it serves
    actor,          \* authctx: the authenticated user
    seen,           \* the USER row the handler read
    cred,           \* the REFRESH_TOKEN row the handler read
    access,         \* the access token it generated
    tally,          \* ListUsers: the count and the page length
    status,         \* the HTTP status it answered
    spent           \* history: tokens already exchanged with success

storeVars == <<users, tokens, minted>>
readVars  == <<actor, seen, cred, access, tally>>
clientVars == <<jwts, held, spent>>
vars == <<storeVars, readVars, clientVars, now, pc, req, status>>
-----------------------------------------------------------------------------
RoleRec == [base : RoleCodes, inactive : BOOLEAN]
Role(code) == [base |-> code, inactive |-> FALSE]
AdminRole   == Role("ADMIN")
DeletedRole == Role("DELETED")

SeededRoles ==
    {Role("USER"), Role("ADMIN"), Role("ANALYZER"), Role("MONITOR"), Role("TEAM_LEADER")}

Name == Seq(NameAtoms \cup Nat)
Row == [username : Name, email : Name, password : Passwords, role : RoleRec]
Copy == [id : UserIds, username : Name, email : Name, role : RoleRec]
TokenRow == [user : UserIds, exp : Nat]
Jwt == [sub : UserIds, exp : Nat]

FaultKinds == {"refused",   \* the statement fails and changes nothing
               "unacked",   \* it commits, but the connection breaks first
               "crash"}     \* the process dies; compose restarts it

ASSUME ConstantsAssumption ==
    /\ UserIds \subseteq Nat /\ IsFiniteSet(UserIds)
    /\ NameWidth \in Nat /\ JWTTTL \in Nat /\ RefreshTTL \in Nat
    /\ SecretSet \in BOOLEAN
    /\ Faults \subseteq FaultKinds
    /\ {"USER", "ADMIN", "ANALYZER", "MONITOR", "TEAM_LEADER", "DELETED"} \subseteq RoleCodes
    /\ SeededRoles \subseteq RoleTable /\ RoleTable \subseteq RoleRec
    /\ None \notin UserIds \cup TokenIds \cup Passwords
    /\ Malformed \notin UserIds
    /\ None \notin Row /\ None \notin Copy /\ None \notin TokenRow /\ None \notin Jwt

Exists(u) == users[u] # None

IsAdmin(u) == users[u] # None /\ users[u].role = AdminRole

(* Two rows with equal names, which the two unique indexes rule out. *)
Clash(a, b) == a.username = b.username \/ a.email = b.email

(* Mutant: uniqueIndex dropped from the gorm tags. *)
AdmissibleUnindexed(u, row) == row.role \in RoleTable /\ Len(row.username) <= NameWidth

(* The unique indexes, the foreign key to ROLE and the column width. *)
Admissible(u, row) ==
    /\ \A v \in UserIds \ {u} : Exists(v) => ~Clash(users[v], row)
    /\ row.role \in RoleTable
    /\ Len(row.username) <= NameWidth

(* The tables an earlier run left satisfy the constraints, and hold no      *)
(* ADMIN_INACTIVE: no handler writes that role, and activating it would     *)
(* make an ADMIN.                                                           *)
ASSUME InitAssumption ==
    /\ InitUsers \in [UserIds -> Row \cup {None}]
    /\ \A u, v \in UserIds :
         InitUsers[u] # None =>
            /\ InitUsers[u].role \in RoleTable
            /\ InitUsers[u].username # <<>> /\ InitUsers[u].email # <<>>
            /\ InitUsers[u].role # [base |-> "ADMIN", inactive |-> TRUE]
            /\ u # v /\ InitUsers[v] # None => ~Clash(InitUsers[u], InitUsers[v])
    /\ InitTokens \in [TokenIds -> TokenRow \cup {None}]
    /\ \A t \in TokenIds : InitTokens[t] # None => InitUsers[InitTokens[t].user] # None
    /\ InitJwts \subseteq Jwt

CopyOf(u) == [id |-> u, username |-> users[u].username,
              email |-> users[u].email, role |-> users[u].role]
-----------------------------------------------------------------------------
AdminOps == {"CreateUser", "ListUsers", "UpdateUserStatus", "UpdateUserRole", "DeleteUser"}
PublicOps == {"Register", "Login", "Refresh"}
Endpoints == AdminOps \cup PublicOps \cup {"Me"}

(* A query parameter character by character: the digits, and 10 for any     *)
(* other; <<>> is an absent one.                                            *)
Digits == Seq(0..10)

(* arrived and replay are history: when the request came, and whether its   *)
(* token had been exchanged by then.                                        *)
Request ==
    [op : Endpoints \cup {"none"}, username : Name, email : Name, password : Passwords \cup {None},
     role : RoleRec \cup {None}, target : UserIds \cup {None, Malformed},
     active : BOOLEAN, token : TokenIds \cup {None}, bearer : Jwt \cup {None},
     limit : Digits, offset : Digits, wellFormed : BOOLEAN, arrived : Nat, replay : BOOLEAN]

NoRequest ==
    [op |-> "none", username |-> <<>>, email |-> <<>>, password |-> None,
     role |-> None, target |-> None, active |-> FALSE, token |-> None,
     bearer |-> None, limit |-> <<>>, offset |-> <<>>, wellFormed |-> TRUE, arrived |-> 0,
     replay |-> FALSE]

Goto(w, label) == pc' = [pc EXCEPT ![w] = label] /\ UNCHANGED status

Reply(w, code) ==
    /\ pc' = [pc EXCEPT ![w] = "done"]
    /\ status' = [status EXCEPT ![w] = code]

Refused == "refused" \in Faults
Unacked == "unacked" \in Faults

(* A committed statement: the handler goes on, or sees a connection error. *)
Committed(w, label) == Goto(w, label) \/ (Unacked /\ Reply(w, 500))
=============================================================================
