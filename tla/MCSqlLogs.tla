------------------------------ MODULE MCSqlLogs ------------------------------
(***************************************************************************)
(* Small instances of SqlLogService.  One record is abnormal by every      *)
(* rule, one sits on the thresholds, one is harmless.                      *)
(***************************************************************************)
EXTENDS SqlLogService

CONSTANTS w1, w2, main, db1, odd, q1, q2

Slow     == [db |-> db1, query |-> q1, ms |-> 2, count |-> 2]
Boundary == [db |-> odd, query |-> q2, ms |-> 1, count |-> 1]
Harmless == [db |-> db1, query |-> q2, ms |-> 0, count |-> 2]

MCZeroTime == -9
MCNoRows == <<>>
MCOneRow == <<[entry |-> Harmless, at |-> 0]>>

Lines(records, bad, long) == [records |-> records, bad |-> bad, long |-> long]
MCBoot == Lines(<<Boundary>>, 0, FALSE)
MCNoBoot == Lines(<<>>, 0, FALSE)

Upload(file) == [op |-> "upload", caller |-> "USER", wellFormed |-> TRUE, file |-> file]
Scan(db, limit, ms, count) ==
    [op |-> "scan", caller |-> "USER", wellFormed |-> TRUE, db |-> db,
     limit |-> limit, ms |-> ms, count |-> count]
Query(op, db) == [op |-> op, caller |-> "USER", db |-> db]
AI(db, limit) == [op |-> "ai", db |-> db, limit |-> limit]

Report(op, caller) ==
    [op |-> op, caller |-> caller, db |-> None, from |-> None, to |-> None, dateOnly |-> FALSE,
     limit |-> None, cap |-> None, slow |-> None, freqSlow |-> None, freq |-> None,
     pcts |-> None, top |-> None]

(* Everything but the database is asked for. *)
Detailed(op, caller) ==
    [Report(op, caller) EXCEPT !.from = ZeroTime, !.to = 0, !.dateOnly = TRUE, !.limit = 0,
                               !.cap = 1, !.slow = 1, !.pcts = <<100, Blank, 0, 50>>, !.top = 1]

MCUploads == {Upload(Lines(<<Slow, Boundary>>, 0, FALSE)), Upload(Lines(<<Harmless>>, 1, FALSE))}
MCLongLine == {Upload(Lines(<<Harmless>>, 0, TRUE))}
MCScans == {Scan(None, None, None, None), Scan(odd, 1, 0, 0)}
MCFuture == [Report("csv", "ADMIN") EXCEPT !.from = 2]
MCReports == {Report("report", "ADMIN"), MCFuture, Detailed("pdf", "TEAM_LEADER")}
MCRefused == {[Upload(MCNoBoot) EXCEPT !.wellFormed = FALSE],
              [Report("csv", "ADMIN") EXCEPT !.pcts = <<50, 101>>, !.to = Bad],
              Report("report", "TEAM_LEADER"), Report("csv", None)}
MCQueries == {Query("databases", None), Query("byDB", db1), Query("byDB", odd)}
MCAI == {AI(db1, None), AI(db1, 1), AI(db1, Bad)}
MCReads == MCScans \cup MCReports \cup MCRefused \cup MCQueries \cup MCAI

(* Reads leave the table alone and do not see each other: one worker gets   *)
(* them all, besides uploads; the other gets uploads only.                  *)
MCRequests == (w1 :> MCUploads) @@ (w2 :> MCUploads \cup MCLongLine \cup MCReads)
MCAIRequests == (w1 :> {Upload(MCNoBoot)}) @@ (w2 :> MCAI)
=============================================================================
