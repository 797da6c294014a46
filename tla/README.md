# Verification of go-demo

TLA+ models of the API under `src/`, the TLC runs that check them, and TLAPS
proofs of what matters most. Three models cover it: accounts and sessions
(`AuthService`), the SQL log with what reads it (`SqlLogService`), and the
process around the handlers, from main's first step to its exit (`HttpServer`).
The handlers of the first two share nothing but the middleware; the third
treats a handler as something that reads, waits, panics and answers. Section 1
is the inventory of the whole program, section 7 what is left.

## 1. The system

| Component | State | Operations | Talks to |
|---|---|---|---|
| auth service (`internal/auth/service.go`) | none of its own; rows of `DEMO.USER`, `DEMO.REFRESH_TOKEN` | Register, CreateUser, Login, Refresh, ListUsers, UpdateUserStatus, UpdateUserRole, DeleteUser, token mint and parse | database, clock, random source |
| auth handlers and middleware (`internal/http/handlers/auth.go`, `middleware.go`, `internal/authctx`) | the request, the caller's row copied into its context | decode, refuse, call the service, map its errors to a status | auth service |
| database schema (`internal/db`) | `DEMO.ROLE`, `DEMO.USER`, `DEMO.REFRESH_TOKEN` with unique indexes and foreign keys; the seeded roles | one autocommitted statement at a time | PostgreSQL |
| SQL-log ingest (`internal/sqllog/parser.go`, `repo.go`, `sqllog_upload.go`) | `DEMO.SQL_LOG`, insert only | parse a stream, insert a batch, count what was skipped | database |
| SQL-log scan, queries, report, statistics (`internal/sqllog/report.go`, `stats.go`, `sqllog_*.go`) | none | counts and lists in separate statements; CSV and PDF | database |
| AI analysis (`ai_analysis.go`) | none | read slow queries, call an external service once per query | database, OpenAI |
| HTTP pipeline (`internal/http/middleware.go`, `router.go`) | per request: the status written, whether it was logged | request id, recover, CORS, logging, routing | every handler |
| lifecycle (`cmd/api/main.go`, `internal/http/server.go`) | main's place, the pool, the listener, the connections of `net/http` | connect, seed, migrate, load the log file, serve, shut down | everything |
| configuration, health, metrics, seed command | constants | - | - |
| log shipping, generated docs, load test | third-party configuration, generated text | - | - |

Each HTTP request runs in a goroutine of its own and the goroutines share
nothing but the database. No operation opens a transaction around two
statements (but `CreateInBatches`, which wraps its INSERTs in one), so **every two statements of one operation are a place where any
other request may run**, and what an operation read may be stale when it
writes. That, failing or half-acknowledged statements, a process that is
restarted with its requests lost (`docker-compose.yml:6`), answers that never
arrive, a signal at any moment, clients and an external service that stall, and
the clock are what is hard here. `PROJECT.json` lists each hazard
at its line.

What makes the components correct:

* accounts: names are unique whatever races; ADMIN rows are never made,
  changed or removed through the API; a soft delete loses no identity; a status
  change touches only the status; what a sign-up is answered is true;
* sessions: a refresh token buys one session, before its expiry, for a user who
  is there; a refusal has a cause;
* authorization: who acts on an admin route is an ADMIN while acting;
* listing: the page agrees with the total sent with it;
* the SQL log: it grows by whole files whatever fails, and what an upload is
  answered is what the table got;
* its readers: the statements behind one answer see the table at different
  moments, and the answer's parts may differ only in the direction in which the
  table grows; what is listed has a reason to be;
* the process: no handler outlives the pool; a stop ends, and says by its exit
  status when it cut something off; the access log tells the status that went
  out;
* everywhere: a request is answered.

## 2. Modules

| Module | Models | From |
|---|---|---|
| `AuthStore` | the tables and their constraints, the requests, the steps every handler shares | `internal/db`, `handlers/auth.go`, `json.go` |
| `Accounts` | the statements of Register, CreateUser, ListUsers, UpdateUserStatus, UpdateUserRole, DeleteUser | `auth/service.go`, `handlers/auth.go` |
| `Sessions` | RequireAuth, RequireAdminRole, Me, Login, GenerateRefreshToken, Refresh | `auth/service.go`, `handlers/middleware.go` |
| `AuthService` | composition: workers receive, serve, answer, crash; the clock; the properties | `http/router.go`, `cmd/api/main.go` |
| `UserDirectory` | the abstract promise: each account operation as one step on the table | - |
| `MCAuthService` | small instances for TLC | - |
| `AuthServiceProofs` | the inductive invariant and what follows from it | - |
| `AuthAnswerProofs` | what answers promise although others run in between: `PageCoversTotal`, `PageAsAsked`, `SignUpAccounted`, `RefusedForCause`; what the refuted promises need | - |
| `DirectoryProofs` | `AuthService` implements `UserDirectory` | - |
| `SqlLogStore` | the rows of `DEMO.SQL_LOG`, log files, filters, limits, thresholds, reasons, percentiles, patterns: operators only | `internal/sqllog`, `handlers/sqllog_*.go` |
| `SqlLogService` | uploads, scans, queries, reports and AI analyses as workers, the load of the file at startup, crashes; the properties | `handlers/sqllog_*.go`, `ai_analysis.go`, `sqllog/*.go`, `cmd/api/main.go` |
| `BatchLog` | the abstract promise: a log that grows by one file in one step | - |
| `MCSqlLogs` | small instances for TLC | - |
| `SqlLogProofs` | the inductive invariant, what follows, and `SqlLogService` implements `BatchLog` | - |
| `SumProofs` | lemmas: sums over finite sets, functions defined by recursion | - |
| `ReportProofs` | lemmas: what each statement of a report has found, and that it outlives the table's growth | - |
| `SqlLogReadProofs` | what readers promise while the table grows: `ScanCoversTotal`, `AnomaliesExplained`, `ReportOrdered` | - |
| `HttpServer` | main, the listener, `Shutdown`, connections and their deadlines, the middleware chain; the properties | `cmd/api/main.go`, `internal/http/server.go`, `middleware.go`, `router.go`, `ai_analysis.go` |
| `MCHttpServer` | a small instance for TLC | - |
| `HttpServerProofs` | its inductive invariant and what follows | - |

`AuthService` extends `Sessions`, which extends `Accounts`, which extends
`AuthStore`: one state, split by topic.

### State of `AuthService`

| Variable | In the code |
|---|---|
| `users`, `tokens` | the rows of `DEMO.USER` and `DEMO.REFRESH_TOKEN`; a token stands for the hash that is stored |
| `minted` | tokens `crypto/rand` has yielded (it never repeats one) |
| `now` | `time.Now`, in seconds |
| `pc[w]` | the statement goroutine `w` is about to run; `idle`, `auth` (the middleware) and `done` (answered) besides |
| `req[w]` | the decoded request; `arrived` and `replay` are history |
| `actor[w]`, `seen[w]`, `cred[w]`, `access[w]`, `tally[w]` | `authctx` user, the USER row read, the REFRESH_TOKEN row read, the access token, ListUsers' count and page length |
| `status[w]` | the HTTP status written |
| `jwts`, `held` | what clients were given; `spent` (history) the tokens exchanged with success |

**One action is one SQL statement** with the code around it up to the next
statement: `Refresh` is `RefreshFind`, `RefreshLoad`, `Rotate`, `Mint`, with
`DropExpired` on its refusing path. Everything up to the answer that follows
the last statement (copying rows into the response, choosing the status) belongs to that
statement's action. `Faults` says what may go wrong with a statement: it is
`refused` (also what a client that disconnects causes, through the cancelled
context), it commits but is `unacked`, or the process dies (`crash`). Statements
refuse rows by the constraints: `Admissible` is the two unique indexes, the
foreign key to `DEMO.ROLE` and the width of the name column.

Abstractions: a name is the sequence of what it was built from
(`<<"ann", 7>>` is `ann_deleted_7`, `<<>>` is empty); a role is a record of its
code and whether `_INACTIVE` is appended; a password is a value compared
for equality; a body that does not decode is the flag `wellFormed`; a path id
is a uuid or `Malformed`. `DEMO.ROLE` is the constant `RoleTable`: it holds the
seeded roles and what an operator added, since nothing in the program writes
other rows. A page parameter is the sequence of its digits, with 10 for any other
character, and `parsePositiveInt` computes it at the width of an int (`Wrap`):
it tests no overflow, so 18446744073709551666 is read as 50. The order of rows
in a page, response bodies and audit columns are left out.

`RoleUpdate` still refuses ADMIN as the service does, although the handler has
already refused it; that branch of the code cannot be reached.

### State of `SqlLogService`

| Variable | In the code |
|---|---|
| `log` | the rows of `DEMO.SQL_LOG`; a row's id is its place |
| `now` | the clock, read at an INSERT (`created_at`) and by a report's filter |
| `pc[p]` | the statement goroutine `p` is about to run; main is one of them: `load`, `insert`, `commit`, `serving` |
| `req[w]`, `filter[w]` | the decoded request, the `ReportFilter` made of it |
| `gone[p]` | the request's context is cancelled |
| `batch[p]`, `staged[p]` | the entries parsed, the rows inserted in the open transaction |
| `ans[w]`, `status[w]` | what the handler has computed so far, the status written |
| `stored[p]`, `failed[w]` | history: rows this request added; one of its statements failed |

Again one action is one statement, with what the handler computes up to the
next: `Authenticate` is the SELECT of the caller's row with the role test of the
route (ADMIN for the JSON report, ADMIN or TEAM_LEADER for the downloads, none
for the AI analysis), `InsertChunk` one INSERT of `CreateInBatches`, `Commit`
its COMMIT, `CountTotal` to `TopPatternsByDB` the eight statements of `Analyze`;
`ExportCSV` and `ExportPDF` write the document after them. When a
client hangs up, `net/http` cancels the context: `Parse` stops at a line, without
an error the handler cares about, and every statement after that is refused.

Abstractions: a log file is what `ParseStream` makes of it: the records of its
valid lines, the number of the others, and whether a line of more than 1 MiB
follows. Milliseconds, counts, limits, days and the week are scaled by constants. A
query is a value of `Queries`, already normalised. The caller is the role the
middleware will read; where a role comes from is `AuthService`'s subject. A time that was sent is an integer, `Bad`, or
`ZeroTime` (0001-01-01, which `Analyze` takes for "not sent"); `dateOnly` marks
a `to` without a time of day, which is moved to the end of its day. Percentiles
are the parts between commas, each a number, `Bad` or `Blank`; of more than ten
the smallest ten are taken. A list holds row ids; where `ORDER BY` leaves a
tie, any order and any cut at the limit may come back (`Listings`). The percentiles of no rows are
an empty map. A document is the set of parts in it. What a page break of `gofpdf` does to a
table is not modelled.

### State of `HttpServer`

| Variable | In the code |
|---|---|
| `phase`, `exit` | the place of main between `db.New` and the exit; the status it exits with |
| `sig` | SIGINT or SIGTERM came; before `NotifyContext` it kills, after it cancels the context `Start` selects on |
| `db` | the pool: not open, open, closed by main's deferred call |
| `lst` | the listener and the goroutine of server.go:35; a failure is remembered until the restart, as the log does |
| `waited` | ticks since `Shutdown` was called |
| `conn[c]`, `age[c]` | the state `net/http` keeps of a connection; ticks since it was accepted or its request came |
| `req[c]` | the request in the chain: its stage (reading the body, working, calling the AI service, responding, returned), the status `wrote`, the status `logged`, and history (`panicked`, `cut`) |

The chain is the router's: request id, recover, CORS, logging. `withCORS`
answers every OPTIONS, so neither the logging nor the mux's own OPTIONS route
(router.go:73) is reached; a panic passes the logging middleware without a line
in the log and is recovered outside it, with a 500 unless a status went out
before. An `Accept` that fails for good (`AcceptFails`) makes `Serve` return while
requests are under way, and main exits with 1 at once, cutting them off
(`ServeFailed`). `Shutdown` closes the listener and polls: idle connections are closed,
new ones after five seconds; when none is left it returns nil and main's
deferred `Close` runs; when its ten seconds are over it returns an error, and
`os.Exit(1)` skips the `Close` and cuts off what is under way.

Abstractions: a poll, and accepting a connection and noting it, are atomic, as
`net/http` intends. The CORS headers are left out: which ones an answer carries is
a function of the configuration and of that request, and no step later changes
them. Kind `plain`
stands for every route with one answer, its body read or not; two statuses stand
for all. Timeouts are counted in ticks and only their order matters.

## 3. Runs

| Run | Shows | Instance |
|---|---|---|
| `accounts` | `AdminNeverStale`, `UniqueIdentities`, `SignUpAccounted`, `AdminsFixed`, `IdentityRecoverable`, `DirectorySpec` | two workers, three ids, a name both want, failing statements, unacknowledged commits |
| `sessions` | `ReplayRejected`, `ExpiredRejected`, `OwnerPresent` | two workers, three tokens, one left expiring by an earlier run, unacknowledged commits and crashes, clock 0..1 |
| `calm_refresh` | `RefusedForCause` | three workers, four tokens, no faults, clock 0..2 |
| `endpoints` | `TypeOK`, `PageCoversTotal`, `PageAsAsked`, `Answered` | two fair workers, sign-up, refresh, delete and listing, failing statements, an int of 8 bits |
| `http_server` | `TypeOK`, `HandlersHaveDatabase`, `CutIsReported`, `AccessLogFaithful`, `SignalEnds`, `RequestEnds` | two connections; boot, port, accept and panic faults; grace and write timeout of 2 ticks, read timeout and idle grace of 1; two AI calls |
| `sql_logs` | `TypeOK`, `UploadAccounted`, `ScanCoversTotal`, `ListedDatabasesAnswer`, `ReportOrdered`, `AnomaliesExplained`, `BatchLogSpec` | two workers, one of which only uploads, three files, batch size 1, callers of every role, one row from before and a startup file, all five faults, at most 5 rows, clock 0..1 |

Six runs state what a document, a comment or a test says, and TLC refutes each:

| Run | Says | What happens |
|---|---|---|
| `rotation_race` | README.md:10 "rotation on use" | two refreshes read one token row; both delete it, the second deleting nothing, and both mint |
| `login_name` | handlers/auth.go:117-118 "Login with username or email" | a username equal to another row's email hides that row from `First` |
| `status_race` | service.go:308-310 | deactivation writes back the role it read, over a role change in between |
| `delete_refresh_race` | service.go:392 "Delete all refresh tokens for this user" | a refresh under way stores a token after the purge |
| `seeded_delete` | auth_test.go:528-537 expects 204 | role `DELETED` is not in `DEMO.ROLE`: the foreign key refuses, 500 |
| `ai_failure` | ai_analysis.go:97-101 answers a failed query with 500 "Failed to query database" | `err` has been overwritten at line 86: the answer is 200 with an empty list |

More of the same kind that no run is spent on, all visible in the actions: two
sign-ups that race for a name both pass the count, and the loser, refused by the
index, is answered 500 (`InsertUser`; docs/architecture.md:78 says 409); an
empty field in a sign-up is answered 500 (`UserCount`; docs/architecture.md:76
says 400, auth_test.go:152 expects 500); deactivating a user is a 500 with the seeded
roles (auth_test.go:453 expects 200); an id that is no uuid is a 500
(`FindTarget`; auth_test.go:486 and 561 expect 404); assigning ADMIN is a 400
(auth_test.go:489-503 expects 200); a limit of the AI analysis that is no number
is a 500 "Failed to query database" (`Analyzable`); a file with one line over
1 MiB is refused whole (`Parse`; parser.go:55-56 "does not stop on bad lines",
main.go:64 "continue with valid entries"); `cap` lifts the report's limit over
the documented maximum of 5000 (`Filter`; sqllog_report.go:171), and a limit of
zero gets the default of 500 even over a smaller `cap`, the "hard cap upper
bound" (`ClampLimit`; sqllog_report.go:41); an unset `ALLOWED_ORIGINS` admits
every origin outside production (config.go:47-49, not modelled; README.md:41 says "unset means disabled");
and `REQUEST_TIMEOUT` (README.md:39) is read at config.go:32 and used nowhere,
so nothing but a client that hangs up ends a slow AI call.

### Bounds

`MaxTime` bounds the clock. `Stocked` lets a sign-up or a login arrive only
while the finite stock of ids and tokens has one for it: the code never runs out. Two
workers are enough for every race found here, as each is between a read and a write
of one other request; `calm_refresh` has three, so that a request can be refused because of one
request after being passed by another. Three ids are an ADMIN, a user and a
free row. Page sizes 2 and 3 stand for 20 and 100 and an int has 8 bits
(`IntMax` 127), so that limits and offsets of three digits wrap to negative and
to small positive numbers; the default, the clamp and an offset past the end
happen too.
Symmetry over workers is used with safety properties only. Tables start as an
earlier run would have left them (`InitUsers`, `InitTokens`, `InitJwts`), which
saves the steps to get there.

In `sql_logs` one record is abnormal by every rule, one sits exactly on the
thresholds and has a database name `ListByDB` refuses, one is harmless. `MaxRows`
bounds the table: an upload arrives, and a crash happens, only while its file
still fits; five rows hold one from before, the startup file and three more.
Reads do not change anything another goroutine sees, so one worker gets them
all and the other only uploads; that loses no interleaving and saves most of
the states. `BatchSize` 1 makes the two records of a file two INSERTs. The
default limits (2) are below the caps (3), and one request, the PDF, asks for all
parameters at once: the zero time, a date alone, percentiles with a blank and
more than are taken, limit 0
with cap 1, where `clampLimit` answers the default of 2, above the cap. One CSV
has a window that begins in the future. Totals
smaller than the databases' sum, lists longer than their total, lists cut at
the limit, commits unacknowledged and parses cut short all occur.

In `http_server` two connections are enough for one to be served, cut or idle
while the other is new or stalled. The counters of ticks stop where no guard
tells higher values apart. The grace of 2 ticks is not above the write
timeout of 2, and AI calls take any number of ticks, so requests outlast the
grace, the write deadline or both. `CHECK_DEADLOCK` is off because the stopped
process really stops. A second signal changes nothing the properties speak of.

`RefusedForCause` is checked without deletes and faults because its point is
that, even then, racing refreshes can refuse each other; it says that nothing
else does. `OwnerPresent` is the reason a refresh does not fail on its load:
rows of `DEMO.USER` are never removed.

### Fairness

`FairSpec` asks weak fairness of `Serve(w)` for each worker: a goroutine that
has accepted a request is scheduled until it has answered, and a statement
returns, with a result or an error. Nothing is asked of arrivals, of the clock,
of a crash, or of which way a statement goes. The program may wait for ever for
a request, but it never deadlocks: an idle worker can always accept another request,
and deadlock is checked in every run of the two services.

In `HttpServer` the clock advances, main and the listener goroutine run, and so
does each handler: its reads fail at the deadline, its calls are cancelled when the client
has gone, it returns and is flushed. Nothing is asked of a client (`BodyArrives`,
`HangUp`), of the AI service (`CallAnswered`), of panics, of a failing `Accept` or of the signal, so
`SignalEnds` and `RequestEnds` hold although all of them stall. `RequestEnds`
promises nothing of an AI analysis while its client stays: the code sets no limit.

## 4. Proofs

TLAPS proves, for any number of workers, users, tokens, names and roles, any
lifetimes, any inputs and any set of faults, `Spec => []P` for `TypeOK`,
`AdminNeverStale`, `UniqueIdentities`, `ReplayRejected`, `ExpiredRejected`,
`OwnerPresent`, the two action properties `AdminsFixed` and
`IdentityRecoverable`, and the refinement `DirectorySpec`
(`DirectoryProofs!ImplementsDirectory`).

None of the invariants is inductive. `IInv` is, and has three parts:

* `TypeOK`;
* `TablesOK`: names unique and not empty, a token's user there, what was spent
  gone, and no role with base ADMIN other than ADMIN itself. The last is needed
  because activation strips a suffix: a row `ADMIN_INACTIVE`, which only an operator could have
  written, would become an ADMIN (hence `InitAssumption` rules it out);
* `StepOK(w)`: what a worker's position says of its locals. `RouteOK`: which
  endpoint a step belongs to. `AdminStepOK`: from the middleware to the answer
  the caller is an ADMIN; a target past its check is there, is not an
  ADMIN, and has names with the same heads as the copy that was read.
  `SessionStepOK`: a token past its check had not expired on arrival; once it has been
  deleted it is gone at `mint`; a replayed token never gets past `RefreshFind`.

A worker's part of the invariant must survive the steps of the others. `Kept`,
`RowsKept` and `TokensKept` say what any step leaves true (rows stay, ADMINs
stay ADMINs, others stay others, names keep their heads, a minted token that is gone
stays gone), and `KeptOK` proves once that this is enough. Then there is one
lemma per action, and `InvariantHolds` puts them together. The action
properties follow from `RowsKept`. For the refinement each action either leaves
`users` alone or is one of `Create`, `SetRole`, `Retire`, with the abstract
guard supplied by `IInv`.

For the SQL log, `SqlLogProofs` proves for any number of workers, any requests,
files, batch size, thresholds and faults `TypeOK`, `UploadAccounted`,
`ListedDatabasesAnswer` and the refinement `BatchLogSpec`
(`ImplementsBatchLog`). Its `IInv` is `TypeOK`, the domains EXCEPT relies on
(`ShapesOK`), that main is loading or serving and has no client
(`MainOK`), and for each goroutine `IngestOK`: from parsing to commit nothing is stored,
what is staged is a beginning of the batch, and unless its client hung up the
batch is the whole of a file that has no line too long. `WorkerOK` adds what
the answer counts at each place, and that the names in it are in the table. A step
of one goroutine leaves the others' locals alone and the log grows, so
`Assemble` needs only the stepping goroutine's part; the fourteen reading
statements are all `Quiet`. A commit of a waiting client then appends exactly the rows
of one storable file, which is `BatchLog`'s step.

Two modules prove what an answer promises although its parts were read at
different moments; each has an invariant of its own, inductive relative to `IInv`.
`SqlLogReadProofs`: `RInv` says for each place of a scan or report what was
computed so far *and still holds of the table as it is now*. That can be kept
because the table only grows: rows stay (`RowsStay`), so selections by a fixed
filter grow, so their cardinalities do (`SelectionsGrow`), and a partial answer
that was covered stays covered (`PromiseKept`). `ScanCoversTotal` and
`AnomaliesExplained` follow.

`ReportOrdered` needs what each statement of `Analyze` computed, over the table
of its moment, in a form that outlives it. `ReportProofs` has it, one lemma per statement
(`CountsMade`, `SpreadsMade`, `PatternsMade`, ...) and one fact per part of the
answer (`PartsOK`): the total is at most the rows now in the window; so is each
database's count for its own rows, and their sum is at least that total; a database that was
counted or has a row listed gets percentiles and patterns; the hundredth percentile
is the largest value (`PercentileReaches`, `HundredthIsLargest`), so no row listed
before exceeds it; and patterns fewer than asked for are all there are
(`MostFrequentExist`, `TopPatternsUnfold`), so their counts account for every row counted before. A
sum over groups bounds the union of the groups (`UnionWithinSum`). `PartsKept`
carries them through a commit of another worker, and a `...Keeps` lemma through
each statement.

A sum is a fold, and what a fold yields is induction. The provers take no
induction principle with an operator parameter, so `SumProofs` goes around it:
a counterexample set of naturals has a least member (`WFMin`), which the step
refutes; that gives induction over numbers and over the subsets of a finite
set, the existence of the recursive functions `SumFunctionOnSet` is built from, and the
equation it satisfies when an element is added (`SumAddElement`).

`AuthAnswerProofs`: the page invariant says that the total a listing has read is
at most the number of rows there are, which no step lowers, a soft delete
keeping its row. `PageAsAsked` is arithmetic: the wrapped value after each digit is
within the width, and as long as the number written so far fits nothing wraps
(`ParsedAsWritten`, by induction on the prefix); powers are `PowerOfTen`, because the
provers have no `^`. `SignUpAccounted`: a 201 names a row with the heads of
the names and the password that were sent and that no other 201 claims, a 409 has a row
with one of the names to show (`SignUpInv`). Only a sign-up's INSERT answers 201 and only its
count 409 (`AnsweredBy`), and both facts outlive what others do, since rows stay,
names keep their heads (`RowsKept`) and passwords do not change
(`PasswordsStay`). It is what a sign-up promises when its acknowledgement may be
lost: a 500 promises nothing. For `RefusedForCause` the
invariant `CInv` says that clients know every stored token and that a token gone
from the table is gone for a cause: expired, exchanged, or being exchanged. It
needs `Calm`, the theorem's assumption: no faults, no
deletes, a signing secret; without it a rotation may die half-way and the
property is false, as the code intends.

Its last section turns four of the refutations of section 3 round. Each theorem has
the form `Spec /\ []H => P`, where `P` is a promise TLC refutes and `H` excludes
what its trace shows and nothing else:

| Theorem | `P` | `H` |
|---|---|---|
| `RotationNeedsTurns` | `RotationSingleUse` | no refresh is about to delete a token another has just deleted |
| `LoginNeedsNamesApart` | `OwnerCanLogin` | no username is another row's email |
| `StatusNeedsNoRoleChange` | `StatusKeepsRole` | no role change or deletion of a row is about to write while a status update of it is |
| `PurgeNeedsNoMint` | `DeletedHasNoTokens` | between purge and answer no request is about to store a token for that user (and statements do not fail: a failing purge is answered 204) |

So nothing else in the code breaks the promise, whatever runs besides, and a
repair has only `H` to establish. Each `H` was tried as a constraint of the
run that refutes its `P`: TLC then finds no violation, and still meets two
refreshes of one token, a refresh under way at a deletion, and a role change
under way at a status update.

`HttpServerProofs` proves its four invariants for any number of connections,
any timeouts and faults. `IInv` adds to the types what main's place
says of pool and listener (`MainOK`), that connections exist only between a
successful listen and the moment `Shutdown` has seen them all gone, and that a
cut request implies the expired deadline or a failed listener (`ConnectionOK`), and per stage what
was written and logged (`StageOK`). That the pool outlives the handlers
is then `phase` alone: connections need `select` or `draining`, and there the
pool is open.

The assumptions are `ConstantsAssumption`, `InitAssumption`, `PageAssumption`,
`InputAssumption`, `StoreAssumption`, `ServiceAssumption` and
`ServerAssumption`, which TLC evaluates in every run of their model.

Two of their clauses are there for the proofs: `DBs` is finite, as a scanner that
takes lines of at most 1 MiB (parser.go:60) leaves finitely many names, and the
default percentiles are not empty (a literal, report.go:38).

Every invariant and action property of the passing runs is proved. Only
model-checked: the liveness properties `Answered`, `SignalEnds` and
`RequestEnds`, since liveness and ENABLED are out of this prover's reach.

## 5. Mutants

Beside several definitions stands a variant (`...Never`, `...Strict`,
`...Unindexed`, ...) with a plausible bug: a missing index, a role check that is
not made, an INSERT that skips a conflict, a delete that does nothing, a hard delete, a retry, `Close` where
`Shutdown` belongs, a deadline that is not set or not looked at. With the variant
in place of the definition each property is violated in its own run.

## 6. Not modelled

The two services and the server are not composed into one state machine: a
request of `HttpServer` stands for any handler, and what the server can do to a
handler (cancel its context, end the process) is a fault of the service models.
Left out: the layout of CSV and PDF, the
characters of times and numbers, the regular expressions that normalise a query,
the text of AI suggestions, request ids, the CORS headers, what the access log holds besides the
status, bcrypt and JWT
internals (a password matches or not, a signature verifies or not), the logger,
the expvar counters (nothing increments them), the parsing of the environment, the seed command, which
calls what main calls,
the generated API documentation, and the third-party log shipping. The
connection pool has 25 places: a statement takes one and gives it back, a transaction
keeps one and never asks for another, so goroutines wait for it but not for each other.
`IsUserActive`, `RequireRoles` and `withLogging` have no caller, and
`InsertBatch`'s test for missing fields cannot fail, since
`ParseLine` refuses such lines.

That a restart inserts the startup file again, and that a repeated upload
doubles its rows, is what the code does: `BatchLog` allows it, and no document
says otherwise.

## 7. Plan

1. Done: `AuthStore`, `Accounts`, `Sessions`, `AuthService`, `UserDirectory`;
   `SqlLogStore`, `SqlLogService`, `BatchLog`; `HttpServer`; and their proofs.
   Every safety and action property of the passing runs is proved.
2. What the code should promise once repaired, as abstract specifications: a
   rotation that fails when its DELETE removes no row, a status update that
   tests the role it read; each against the same clients.
3. `sanitizeFractions` and the parsing of percentiles at character level, against
   a reference definition over bounded inputs.
