---------------------------- MODULE SqlLogService ----------------------------
(***************************************************************************)
(* The SQL-log endpoints and the load of the log file at startup: workers  *)
(* that serve uploads, scans, queries and reports behind the middleware    *)
(* that reads the caller's row, and AI analyses without it, one action per *)
(* SQL statement, and the main goroutine, which inserts the file before    *)
(* the workers start.                                                      *)
(***************************************************************************)
EXTENDS SqlLogStore

CONSTANTS
    Workers, Main,
    InitLog,        \* the rows earlier runs stored
    BootFile,       \* logfile/logsql.txt; an empty one when there is none
    Requests,       \* what clients send, by the worker that gets it
    BatchSize,      \* rows of one INSERT: 500
    Faults,         \* which of FaultKinds may happen
    MaxRows,        \* bound on the table
    MaxTime         \* bound on the clock

VARIABLES
    log,            \* DEMO.SQL_LOG
    now,            \* the clock
    pc,             \* where each goroutine is
    req,            \* the request it serves
    gone,           \* its context is cancelled: the client hung up
    batch,          \* the records it parsed
    staged,         \* rows inserted in its open transaction
    filter,         \* the report's filter
    ans,            \* what it will answer
    status,         \* the HTTP status it answered
    stored,         \* history: rows this request added to the table
    failed          \* history: one of its statements failed

Procs == Workers \cup {Main}
localVars == <<batch, staged, filter, ans>>
vars == <<log, now, pc, req, gone, localVars, status, stored, failed>>

FaultKinds == {"refused",   \* a statement fails and changes nothing
               "unacked",   \* a commit succeeds, but the connection breaks first
               "cancel",    \* a client hangs up
               "pdf",       \* gofpdf reports an error
               "crash"}     \* the process dies; compose restarts it

(* A request's caller is the role the middleware will read; None when it   *)
(* finds no user, or no valid token.                                        *)
Roles == {"ADMIN", "TEAM_LEADER", "USER"}
Callers == Roles \cup {None}

ReportOps == {"report", "csv", "pdf"}

UploadReq == [op : {"upload"}, caller : Callers, wellFormed : BOOLEAN, file : File]
ScanReq == [op : {"scan"}, caller : Callers, wellFormed : BOOLEAN, db : DBs \cup {None},
            limit : Int \cup {None}, ms : Nat \cup {None}, count : Nat \cup {None}]
QueryReq == [op : {"databases", "byDB"}, caller : Callers, db : DBs \cup {None}]
ReportReq == [op : ReportOps, caller : Callers, db : DBs \cup {None},
              from : Int \cup {None, Bad}, to : Int \cup {None, Bad}, dateOnly : BOOLEAN,
              limit : Int \cup {None}, cap : Int \cup {None}, slow : Int \cup {None},
              freqSlow : Int \cup {None}, freq : Int \cup {None},
              pcts : Seq(Int \cup {Bad, Blank}) \cup {None}, top : Int \cup {None, Bad}]
AIReq == [op : {"ai"}, db : DBs \cup {None}, limit : Int \cup {None, Bad}]

ASSUME ServiceAssumption ==
    /\ Main \notin Workers
    /\ InitLog \in Seq(Row) /\ BootFile \in File
    /\ Requests \in [Workers -> SUBSET (UploadReq \cup ScanReq \cup QueryReq \cup ReportReq \cup AIReq)]
    /\ BatchSize \in Nat \ {0}
    /\ Faults \subseteq FaultKinds
    /\ MaxRows \in Nat /\ MaxTime \in Nat

NoRequest == [op |-> "none"]
NoFilter == [db |-> None]

NoAnswer ==
    [total |-> 0, inserted |-> 0, skipped |-> 0, items |-> <<>>, names |-> {},
     byDB |-> [d \in DBs |-> 0], anomalies |-> 0, suggestions |-> 0,
     pctAll |-> <<>>, pcts |-> [d \in DBs |-> <<>>],
     topAll |-> <<>>, tops |-> [d \in DBs |-> <<>>], parts |-> {}, analyses |-> 0]

Init ==
    /\ log = InitLog
    /\ now = 0
    /\ pc = [p \in Procs |-> IF p = Main THEN "load" ELSE "idle"]
    /\ req = [w \in Workers |-> NoRequest]
    /\ gone = [p \in Procs |-> FALSE]
    /\ batch = [p \in Procs |-> <<>>]
    /\ staged = [p \in Procs |-> <<>>]
    /\ filter = [w \in Workers |-> NoFilter]
    /\ ans = [w \in Workers |-> NoAnswer]
    /\ status = [w \in Workers |-> 0]
    /\ stored = [p \in Procs |-> 0]
    /\ failed = [w \in Workers |-> FALSE]
-----------------------------------------------------------------------------
Goto(p, label) == pc' = [pc EXCEPT ![p] = label] /\ UNCHANGED status

Reply(w, code) ==
    /\ pc' = [pc EXCEPT ![w] = "done"]
    /\ status' = [status EXCEPT ![w] = code]

(* What the handler answers, or main does, when its work is over. *)
Conclude(p, code) == IF p = Main THEN Goto(Main, "serving") ELSE Reply(p, code)

Refusable(p) == gone[p] \/ "refused" \in Faults

NoteFailure(p) == failed' = [w \in Workers |-> failed[w] \/ w = p]

(* A failed statement: 500, and at startup only a line in the log. *)
Fail(p) ==
    /\ Conclude(p, 500)
    /\ NoteFailure(p)

Answer(w, field, value) == ans' = [ans EXCEPT ![w][field] = value]

statementFrame == <<now, req, gone, batch, staged, filter, stored>>

(* A SELECT: it returns and the handler goes on with Then, or it fails. *)
Select(w, label, Then) ==
    /\ pc[w] = label
    /\ UNCHANGED <<log, statementFrame>>
    /\ \/ ~gone[w] /\ Then /\ UNCHANGED failed
       \/ Refusable(w) /\ Fail(w) /\ UNCHANGED ans

(* A row's id is its place in the table. *)
IdsWhere(Test(_)) == {i \in DOMAIN log : Test(log[i])}
-----------------------------------------------------------------------------
(* Ingest: upload and startup. *)

Input(p) == IF p = Main THEN BootFile ELSE req[p].file

(* Mutant: a line that does not parse is not counted. *)
ConsumedUncounted(p, records, bad) ==
    /\ batch' = [batch EXCEPT ![p] = records]
    /\ ans' = [w \in Workers |->
                 IF w = p THEN [ans[w] EXCEPT !.total = Len(records), !.skipped = bad] ELSE ans[w]]
    /\ IF records = <<>> THEN Conclude(p, 200) ELSE Goto(p, "insert")

(* onEntry was called with records, onError for bad lines. *)
Consumed(p, records, bad) ==
    /\ batch' = [batch EXCEPT ![p] = records]
    /\ ans' = [w \in Workers |->
                 IF w = p THEN [ans[w] EXCEPT !.total = Len(records) + bad, !.skipped = bad]
                 ELSE ans[w]]
    /\ IF records = <<>> THEN Conclude(p, 200) ELSE Goto(p, "insert")

(* ParseStream.  A line over 1 MiB is an error; it looks at the context     *)
(* before each line, and a cancellation is not taken for an error: what was *)
(* parsed so far goes on.                                                   *)
Parse(p) ==
    /\ pc[p] \in {"parse", "load"}
    /\ UNCHANGED <<log, now, req, gone, staged, filter, stored, failed>>
    /\ LET file == Input(p) IN
       \/ ~file.long /\ Consumed(p, file.records, file.bad)
       \/ file.long /\ Conclude(p, 400) /\ UNCHANGED <<batch, ans>>
       \/ /\ gone[p]
          /\ \E n \in 0 .. Len(file.records), b \in 0 .. file.bad :
                Consumed(p, SubSeq(file.records, 1, n), b)

(* Mutant: no transaction, each INSERT commits on its own. *)
InsertChunkAlone(p) ==
    /\ pc[p] = "insert"
    /\ UNCHANGED <<now, req, gone, batch, filter, ans>>
    /\ LET k == Len(staged[p])
           upto == IF k + BatchSize < Len(batch[p]) THEN k + BatchSize ELSE Len(batch[p])
           rows == Stamped(SubSeq(batch[p], k + 1, upto), now)
       IN \/ /\ ~gone[p]
             /\ log' = log \o rows
             /\ stored' = [stored EXCEPT ![p] = @ + Len(rows)]
             /\ staged' = [staged EXCEPT ![p] = @ \o rows]
             /\ IF upto = Len(batch[p]) THEN Conclude(p, 200) ELSE Goto(p, "insert")
             /\ UNCHANGED failed
          \/ /\ Refusable(p)
             /\ Fail(p) /\ UNCHANGED <<log, staged, stored>>

(* CreateInBatches: one INSERT of the next BatchSize rows, all of them in   *)
(* one transaction.                                                         *)
InsertChunk(p) ==
    /\ pc[p] = "insert"
    /\ UNCHANGED <<log, now, req, gone, batch, filter, ans, stored>>
    /\ LET k == Len(staged[p])
           upto == IF k + BatchSize < Len(batch[p]) THEN k + BatchSize ELSE Len(batch[p])
       IN \/ /\ ~gone[p]
             /\ staged' = [staged EXCEPT ![p] = @ \o Stamped(SubSeq(batch[p], k + 1, upto), now)]
             /\ Goto(p, IF upto = Len(batch[p]) THEN "commit" ELSE "insert")
             /\ UNCHANGED failed
          \/ /\ Refusable(p)
             /\ Fail(p) /\ UNCHANGED staged

(* The rows become visible together. *)
Commit(p) ==
    /\ pc[p] = "commit"
    /\ UNCHANGED <<now, req, gone, batch, filter>>
    /\ staged' = [staged EXCEPT ![p] = <<>>]
    /\ \/ /\ ~gone[p]
          /\ log' = log \o staged[p]
          /\ stored' = [stored EXCEPT ![p] = Len(staged[p])]
          /\ \/ /\ Conclude(p, 200)
                /\ ans' = [w \in Workers |->
                             IF w = p THEN [ans[w] EXCEPT !.inserted = Len(batch[p])] ELSE ans[w]]
                /\ UNCHANGED failed
             \/ /\ "unacked" \in Faults
                /\ Fail(p) /\ UNCHANGED ans
       \/ /\ Refusable(p)
          /\ Fail(p) /\ UNCHANGED <<log, stored, ans>>
-----------------------------------------------------------------------------
(* Scan: the count, then the list. *)

ScanIds(r) ==
    IdsWhere(LAMBDA row : Named(row, r.db) /\
                Abnormal(row, Override(r.ms, ScanMs), Override(r.count, ScanCount)))

ScanTotal(w) ==
    Select(w, "scanCount",
        LET total == Cardinality(ScanIds(req[w])) IN
        /\ Answer(w, "total", total)
        /\ IF total = 0 THEN Reply(w, 200) ELSE Goto(w, "scanList"))

List(w, ids, n) == \E items \in Listings(log, ids, n, Worse) : Answer(w, "items", items)

(* Mutant: the list is made with the default thresholds. *)
ScanListDefaults(w) ==
    Select(w, "scanList",
        /\ List(w, ScanIds([req[w] EXCEPT !.ms = None, !.count = None]), ScanLimit(req[w].limit))
        /\ Reply(w, 200))

ScanList(w) ==
    Select(w, "scanList",
        List(w, ScanIds(req[w]), ScanLimit(req[w].limit)) /\ Reply(w, 200))

(* Mutant: names are passed on as they are. *)
ListDatabasesUnfiltered(w) ==
    Select(w, "databases",
        /\ Answer(w, "names", {row.entry.db : row \in Range(log)})
        /\ Reply(w, 200))

ListDatabases(w) ==
    Select(w, "databases",
        /\ Answer(w, "names", {row.entry.db : row \in Range(log)} \cap SafeDBs)
        /\ Reply(w, 200))

(* ORDER BY created_at DESC, id DESC. *)
FindByDB(db) ==
    SetToSortSeq(IdsWhere(LAMBDA row : row.entry.db = db),
                 LAMBDA i, j : log[i].at > log[j].at \/ (log[i].at = log[j].at /\ i > j))

ListByDB(w) ==
    Select(w, "byDB", Answer(w, "items", FindByDB(req[w].db)) /\ Reply(w, 200))
-----------------------------------------------------------------------------
(* AI analysis.  The error of the query is lost: the limit's conversion     *)
(* overwrites it.  Rows are sorted only when there are too many.            *)
SlowQueries(db) ==
    IdsWhere(LAMBDA row : row.entry.db = db /\ Abnormal(row, ScanMs, ScanCount))

AILimit(n) == IF n = None \/ n = Bad \/ n <= 0 THEN DefaultAI ELSE n

TopSlow(ids, n) ==
    IF Cardinality(ids) > n THEN Listings(log, ids, n, Slower)
    ELSE Listings(log, ids, n, Unordered)

Analyzable(w, ids) ==
    /\ \E items \in TopSlow(ids, AILimit(req[w].limit)) : Answer(w, "items", items)
    /\ IF req[w].limit = Bad THEN Reply(w, 500)
       ELSE IF ids = {} THEN Reply(w, 200) ELSE Goto(w, "aiCall")

AIFind(w) ==
    /\ pc[w] = "aiFind"
    /\ UNCHANGED <<log, statementFrame>>
    /\ \/ ~gone[w] /\ Analyzable(w, SlowQueries(req[w].db)) /\ UNCHANGED failed
       \/ Refusable(w) /\ Analyzable(w, {}) /\ NoteFailure(w)

(* One call of the external service per query; an answer that does not     *)
(* come is replaced by a fixed suggestion.                                  *)
AICall(w) ==
    /\ pc[w] = "aiCall"
    /\ UNCHANGED <<log, statementFrame, failed>>
    /\ Answer(w, "analyses", ans[w].analyses + 1)
    /\ IF ans[w].analyses + 1 = Len(ans[w].items) THEN Reply(w, 200) ELSE Goto(w, "aiCall")
-----------------------------------------------------------------------------
(* Analyze: eight statements, each on the table of its moment. *)

Windowed(f) == IdsWhere(LAMBDA row : InWindow(row, f))
WindowedOf(f, d) == IdsWhere(LAMBDA row : InWindow(row, f) /\ row.entry.db = d)
AnomalousIds(f) == IdsWhere(LAMBDA row : InWindow(row, f) /\ Anomalous(row, f))

CountTotal(w) ==
    Select(w, "total", Answer(w, "total", Cardinality(Windowed(filter[w]))) /\ Goto(w, "byDBCount"))

CountByDB(w) ==
    Select(w, "byDBCount",
        /\ Answer(w, "byDB", [d \in DBs |-> Cardinality(WindowedOf(filter[w], d))])
        /\ Goto(w, "anomalyList"))

(* Of the rows listed, those with a suggestion. *)
Carriers(items, f) == {i \in DOMAIN items : Suggestions(log[items[i]], f) # {}}

ListAnomalies(w) ==
    Select(w, "anomalyList",
        /\ \E items \in Listings(log, AnomalousIds(filter[w]), filter[w].limit, Worse) :
              ans' = [ans EXCEPT ![w].items = items,
                                 ![w].suggestions = Cardinality(Carriers(items, filter[w]))]
        /\ Goto(w, "anomalyCount"))

(* Mutant: the count of the scan, CountAbnormal, is used instead. *)
CountAnomaliesOfScan(w) ==
    Select(w, "anomalyCount",
        /\ Answer(w, "anomalies", Cardinality(IdsWhere(LAMBDA row : Abnormal(row, ScanMs, ScanCount))))
        /\ Goto(w, "pctAll"))

CountAnomalies(w) ==
    Select(w, "anomalyCount",
        Answer(w, "anomalies", Cardinality(AnomalousIds(filter[w]))) /\ Goto(w, "pctAll"))

(* The percentiles of no rows are NULL, which makes an empty map. *)
Spread(ids, f) == IF ids = {} THEN <<>> ELSE Percentiles(log, ids, f.pcts)

PercentilesOverall(w) ==
    Select(w, "pctAll",
        Answer(w, "pctAll", Spread(Windowed(filter[w]), filter[w])) /\ Goto(w, "pctByDB"))

PercentilesByDB(w) ==
    Select(w, "pctByDB",
        /\ Answer(w, "pcts", [d \in DBs |-> Spread(WindowedOf(filter[w], d), filter[w])])
        /\ Goto(w, "topAll"))

TopPatternsOverall(w) ==
    Select(w, "topAll",
        /\ \E top \in TopPatterns(log, Windowed(filter[w]), filter[w].top) : Answer(w, "topAll", top)
        /\ Goto(w, "topByDB"))

(* Equally frequent patterns of one database are taken in a fixed order.    *)
TopPatternsByDB(w) ==
    Select(w, "topByDB",
        /\ Answer(w, "tops",
              [d \in DBs |-> CHOOSE top \in TopPatterns(log, WindowedOf(filter[w], d), filter[w].top) : TRUE])
        /\ \/ req[w].op = "report" /\ Reply(w, 200)
           \/ req[w].op \in {"csv", "pdf"} /\ Goto(w, req[w].op))

(* What a document holds besides the totals and the table of anomalies:     *)
(* ExportCSV and ExportPDF print a part when there is something in it.      *)
Parts(a) ==
    {part \in {"byDB", "pctAll", "pctByDB", "topAll", "topByDB"} :
        \/ part = "byDB" /\ \E d \in DBs : a.byDB[d] > 0
        \/ part = "pctAll" /\ a.pctAll # <<>>
        \/ part = "pctByDB" /\ \E d \in DBs : a.pcts[d] # <<>>
        \/ part = "topAll" /\ a.topAll # <<>>
        \/ part = "topByDB" /\ \E d \in DBs : a.tops[d] # <<>>}

ExportCSV(w) ==
    /\ pc[w] = "csv"
    /\ Answer(w, "parts", Parts(ans[w]))
    /\ Reply(w, 200)
    /\ UNCHANGED <<log, statementFrame, failed>>

ExportPDF(w) ==
    /\ pc[w] = "pdf"
    /\ Answer(w, "parts", Parts(ans[w]))
    /\ \/ Reply(w, 200)
       \/ "pdf" \in Faults /\ Reply(w, 500)
    /\ UNCHANGED <<log, statementFrame, failed>>
-----------------------------------------------------------------------------
Entrance(op) ==
    CASE op = "upload"    -> "parse"
      [] op = "scan"      -> "scanCount"
      [] op = "databases" -> "databases"
      [] op = "byDB"      -> "byDB"
      [] op \in ReportOps -> "total"
      [] op = "ai"        -> "aiFind"

(* The 400s in front of the first statement. *)
Refusal(r) ==
    \/ r.op \in {"upload", "scan"} /\ ~r.wellFormed
    \/ r.op = "byDB" /\ r.db \notin SafeDBs
    \/ r.op \in ReportOps /\ FilterRefused(r)
    \/ r.op = "ai" /\ r.db = None

(* RequireAdminRole, RequireAnyRole("ADMIN", "TEAM_LEADER"), or neither. *)
Admitted(op) ==
    CASE op = "report"         -> {"ADMIN"}
      [] op \in {"csv", "pdf"} -> {"ADMIN", "TEAM_LEADER"}
      [] OTHER                 -> Roles

(* The handler reads its parameters; a report's window is fixed by then. *)
Enter(w, r) ==
    /\ IF Refusal(r) THEN Reply(w, 400) ELSE Goto(w, Entrance(r.op))
    /\ filter' = [filter EXCEPT ![w] =
                     IF r.op \in ReportOps /\ ~Refusal(r) THEN Filter(r, now) ELSE NoFilter]

(* RequireAuth's SELECT of the caller's row and the test of the role. *)
Authenticate(w) ==
    /\ pc[w] = "auth"
    /\ \/ /\ ~gone[w] /\ req[w].caller \in Admitted(req[w].op)
          /\ Enter(w, req[w]) /\ UNCHANGED failed
       \/ /\ ~gone[w] /\ req[w].caller \in Roles \ Admitted(req[w].op)
          /\ Reply(w, 403) /\ UNCHANGED <<filter, failed>>
       \/ /\ ~gone[w] /\ req[w].caller = None
          /\ Reply(w, 401) /\ UNCHANGED <<filter, failed>>
       \/ /\ Refusable(w)
          /\ Reply(w, 401) /\ NoteFailure(w) /\ UNCHANGED filter
    /\ UNCHANGED <<log, now, req, gone, batch, staged, ans, stored>>

(* Bound: there is room in the table for every file under way. *)
Room(file) ==
    Len(log) + Len(file.records)
      + MapThenSumSet(LAMBDA w : IF req[w].op = "upload" THEN Len(req[w].file.records) ELSE 0, Workers)
    <= MaxRows

(* Once main serves, a worker takes a request. *)
Receive(w) ==
    /\ pc[w] = "idle" /\ pc[Main] = "serving"
    /\ \E r \in Requests[w] :
         /\ r.op = "upload" => Room(r.file)
         /\ req' = [req EXCEPT ![w] = r]
         /\ IF r.op = "ai" THEN Enter(w, r) ELSE Goto(w, "auth") /\ UNCHANGED filter
    /\ UNCHANGED <<log, now, gone, batch, staged, ans, stored, failed>>

HangUp(w) ==
    /\ "cancel" \in Faults
    /\ pc[w] \notin {"idle", "done"} /\ ~gone[w]
    /\ gone' = [gone EXCEPT ![w] = TRUE]
    /\ UNCHANGED <<log, now, pc, req, localVars, status, stored, failed>>

(* The goroutines of W end; an open transaction is rolled back. *)
Release(W) ==
    /\ req' = [w \in Workers |-> IF w \in W THEN NoRequest ELSE req[w]]
    /\ gone' = [p \in Procs |-> gone[p] /\ p \notin W]
    /\ batch' = [p \in Procs |-> IF p \in W THEN <<>> ELSE batch[p]]
    /\ staged' = [p \in Procs |-> IF p \in W THEN <<>> ELSE staged[p]]
    /\ filter' = [w \in Workers |-> IF w \in W THEN NoFilter ELSE filter[w]]
    /\ ans' = [w \in Workers |-> IF w \in W THEN NoAnswer ELSE ans[w]]
    /\ status' = [w \in Workers |-> IF w \in W THEN 0 ELSE status[w]]
    /\ stored' = [p \in Procs |-> IF p \in W THEN 0 ELSE stored[p]]
    /\ failed' = [w \in Workers |-> failed[w] /\ w \notin W]
    /\ UNCHANGED <<log, now>>

Finish(w) ==
    /\ pc[w] = "done"
    /\ pc' = [pc EXCEPT ![w] = "idle"]
    /\ Release({w})

(* The process dies and starts over: main loads the file once more. *)
Crash ==
    /\ "crash" \in Faults
    /\ Len(log) + Len(BootFile.records) <= MaxRows
    /\ pc' = [p \in Procs |-> IF p = Main THEN "load" ELSE "idle"]
    /\ Release(Procs)

Tick ==
    /\ now < MaxTime
    /\ now' = now + 1
    /\ UNCHANGED <<log, pc, req, gone, localVars, status, stored, failed>>

Ingest(p) == Parse(p) \/ InsertChunk(p) \/ Commit(p)
ScanStep(w) == ScanTotal(w) \/ ScanList(w) \/ ListDatabases(w) \/ ListByDB(w)
AIStep(w) == AIFind(w) \/ AICall(w)
ReportStep(w) ==
    \/ CountTotal(w) \/ CountByDB(w) \/ ListAnomalies(w) \/ CountAnomalies(w)
    \/ PercentilesOverall(w) \/ PercentilesByDB(w) \/ TopPatternsOverall(w) \/ TopPatternsByDB(w)
    \/ ExportCSV(w) \/ ExportPDF(w)

Next ==
    \/ Tick \/ Crash
    \/ \E p \in Procs : Ingest(p)
    \/ \E w \in Workers : Receive(w) \/ Authenticate(w) \/ HangUp(w) \/ Finish(w)
    \/ \E w \in Workers : ScanStep(w) \/ AIStep(w) \/ ReportStep(w)

Spec == Init /\ [][Next]_vars
-----------------------------------------------------------------------------
Labels == {"idle", "load", "serving", "auth", "parse", "insert", "commit", "scanCount", "scanList",
           "databases", "byDB", "aiFind", "aiCall", "total", "byDBCount", "anomalyList",
           "anomalyCount", "pctAll", "pctByDB", "topAll", "topByDB", "csv", "pdf", "done"}

FilterRec == [from : Int, to : Int, db : DBs \cup {None}, limit : Nat \ {0},
              slow : Nat \ {0}, freqSlow : Nat \ {0}, freq : Nat \ {0},
              pcts : (SUBSET (0..100)) \ {{}}, top : 1..MaxTop]

Codes == {0, 200, 400, 401, 403, 500}

(* Type correctness.  A report's limit, thresholds and number of patterns   *)
(* are positive whatever the client sends, so LIMIT never means "none", and *)
(* percentile_disc gets fractions in 0..1, at least one of them.            *)
TypeOK ==
    /\ log \in Seq(Row)
    /\ now \in Nat
    /\ pc \in [Procs -> Labels]
    /\ \A w \in Workers : req[w] \in Requests[w] \cup {NoRequest}
    /\ gone \in [Procs -> BOOLEAN]
    /\ batch \in [Procs -> Seq(Entry)]
    /\ staged \in [Procs -> Seq(Row)]
    /\ \A w \in Workers : filter[w] \in FilterRec \cup {NoFilter}
    /\ status \in [Workers -> Codes]
    /\ stored \in [Procs -> Nat]
    /\ failed \in [Workers -> BOOLEAN]

(* Whatever uploads race, fail, are cancelled or die, and however many      *)
(* INSERTs a file takes, the table grows by all the valid lines of one      *)
(* file that has no line too long, at once.                                 *)
Uploads == {r \in UNION {Requests[w] : w \in Workers} : r.op = "upload" /\ r.wellFormed}
StorableFiles == {f \in {r.file : r \in Uploads} \cup {BootFile} : ~f.long}

Batches == INSTANCE BatchLog WITH Files <- {f.records : f \in StorableFiles}
BatchLogSpec == Batches!Spec

(* The counts an upload is answered with are what the table got: a 200      *)
(* stored what it says and, unless the client hung up, every valid line; a  *)
(* refusal stored nothing; a 500 nothing or, unacknowledged, all.           *)
UploadAccounted ==
    \A w \in Workers :
        req[w].op = "upload" /\ status[w] # 0 =>
            LET file == req[w].file IN
            /\ status[w] = 200 =>
                 /\ ans[w].inserted = stored[w]
                 /\ ans[w].total = ans[w].inserted + ans[w].skipped
                 /\ ~gone[w] => stored[w] = Len(file.records) /\ ans[w].total = LinesOf(file)
            /\ status[w] \in {400, 401, 403} => stored[w] = 0
            /\ status[w] = 500 => stored[w] \in {0, Len(file.records)}

(* A scan counts and lists in two statements with uploads in between: the   *)
(* list has what the total promises, up to the limit, and never more than   *)
(* the limit.                                                               *)
ScanCoversTotal ==
    \A w \in Workers :
        req[w].op = "scan" /\ status[w] = 200 =>
            LET limit == ScanLimit(req[w].limit)
            IN /\ Len(ans[w].items) <= limit
               /\ Len(ans[w].items) >= limit \/ Len(ans[w].items) >= ans[w].total

(* A name ListDatabases gave can be asked of ListByDB, and has rows.        *)
ListedDatabasesAnswer ==
    \A w \in Workers : \A d \in ans[w].names :
        /\ ~Refusal([op |-> "byDB", db |-> d])
        /\ \E row \in Range(log) : row.entry.db = d

Covered(op, f, a) ==
    /\ a.total <= SumFunction(a.byDB)
    /\ Len(a.items) <= a.anomalies
    /\ Len(a.items) <= f.limit
    /\ \A d \in DBs : a.byDB[d] > 0 => a.pcts[d] # <<>> /\ a.tops[d] # <<>>
    /\ \A i \in DOMAIN a.items :
          LET e == log[a.items[i]].entry IN
          100 \in f.pcts => e.ms <= a.pcts[e.db][100].ms /\ e.ms <= a.pctAll[100].ms
    /\ \A d \in DBs : Cardinality(DOMAIN a.tops[d]) < f.top => a.byDB[d] <= SumFunction(a.tops[d])
    /\ op # "report" /\ ("byDB" \in a.parts \/ a.items # <<>>) =>
          {"pctAll", "pctByDB", "topAll", "topByDB"} \subseteq a.parts

(* The statements of one report see the table at eight moments.  Since it   *)
(* only grows, each part covers the parts read before it: the databases the *)
(* total, the count of anomalies the list, a database's percentiles and     *)
(* patterns its rows; a document that names a database or an anomaly has    *)
(* all that follows.  The list keeps to the limit of the filter.  That is   *)
(* not the cap a request sends: with a limit of zero or less the list may   *)
(* be longer, see ClampLimit.                                               *)
ReportOrdered ==
    \A w \in Workers :
        req[w].op \in ReportOps /\ status[w] = 200 => Covered(req[w].op, filter[w], ans[w])

DefaultThresholds == [slow |-> SlowMs, freqSlow |-> FreqSlowMs, freq |-> FreqCount]

(* The rule is applied twice, in SQL and in Go: every row the report lists  *)
(* has a reason of its own and something to suggest, so as many suggestions *)
(* are counted as rows listed; and what a scan with the default thresholds  *)
(* calls abnormal the report would list.                                    *)
AnomaliesExplained ==
    \A w \in Workers :
        /\ req[w].op \in ReportOps =>
             /\ ans[w].suggestions = Len(ans[w].items)
             /\ \A i \in DOMAIN ans[w].items :
                    Reasons(log[ans[w].items[i]], filter[w]) \ {"select_star"} # {}
        /\ req[w].op = "scan" /\ req[w].ms = None /\ req[w].count = None =>
             \A i \in DOMAIN ans[w].items :
                "frequent_and_slow" \in Reasons(log[ans[w].items[i]], DefaultThresholds)
-----------------------------------------------------------------------------
(* internal/http/handlers/ai_analysis.go:97-101: a query that fails is      *)
(* answered 500 "Failed to query database".                                 *)
AIFailureReported ==
    \A w \in Workers : req[w].op = "ai" /\ failed[w] => status[w] # 200
=============================================================================
