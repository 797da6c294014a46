---------------------------- MODULE MCAuthService ----------------------------
(***************************************************************************)
(* Small instances of AuthService: one administrator and one user from an  *)
(* earlier run, two or three workers, a handful of names and tokens.       *)
(***************************************************************************)
EXTENDS AuthService, TLC

CONSTANTS w1, w2, w3, t1, t2, t3, t4, secret, other, root, ann, bob, mail

MCIds3 == 0..2
MCIds4 == 0..3
MCAtoms == {root, ann, bob, mail}

AdminRow == [username |-> <<root>>, email |-> <<root>>, password |-> secret, role |-> AdminRole]
UserRow(role) == [username |-> <<ann>>, email |-> <<mail>>, password |-> secret, role |-> role]

MCRoleCodes == {"USER", "ADMIN", "ANALYZER", "MONITOR", "TEAM_LEADER", "DELETED"}

(* An ADMIN, a USER, and rows free for sign-ups. *)
MCUsers ==
    [u \in UserIds |-> IF u = 0 THEN AdminRow ELSE IF u = 2 THEN UserRow(Role("USER")) ELSE None]

MCAdminOnly == [u \in UserIds |-> IF u = 0 THEN AdminRow ELSE None]

MCNoTokens == [t \in TokenIds |-> None]
MCAnnToken == [t \in TokenIds |-> IF t = t1 THEN [user |-> 2, exp |-> RefreshTTL] ELSE None]
MCOldToken == [t \in TokenIds |-> IF t = t1 THEN [user |-> 2, exp |-> 0] ELSE None]
MCAdminJwt == {[sub |-> 0, exp |-> 9]}
MCShortJwts == {[sub |-> 0, exp |-> 2], [sub |-> 2, exp |-> 1]}

(* An operator may add rows to DEMO.ROLE; these let the soft states in. *)
MCSoftRoles == SeededRoles \cup {DeletedRole, [base |-> "USER", inactive |-> TRUE],
                                 [base |-> "ANALYZER", inactive |-> TRUE]}
MCRoleInputs == {Role("ANALYZER"), AdminRole}

MCAnn == {<<ann>>}
MCBob == {<<bob>>}
MCMail == {<<mail>>}
MCAnnBob == {<<ann>>, <<bob>>}
MCMailBob == {<<mail>>, <<bob>>}
MCBobOrNone == {<<bob>>, <<>>}

(* Absent, 3, 258 and 130, the last two beyond IntMax, and not a number.    *)
MCLimits == {<<3>>, <<2, 5, 8>>, <<1, 10>>}
MCOffsets == {<<>>, <<5>>, <<1, 3, 0>>}
MCOneLimit == {<<1>>}
MCNoOffset == {<<>>}

Workers2 == Permutations({w1, w2})
Workers3 == Permutations({w1, w2, w3})
=============================================================================
