--------------------------- MODULE SqlLogReadProofs ---------------------------
(***************************************************************************)
(* What the reading handlers of SqlLogService promise although uploads     *)
(* commit between their statements: an invariant of each handler's partial *)
(* answer, inductive relative to IInv, and the properties it gives.  It    *)
(* rests on one fact: the table only grows, so a row keeps its id and its  *)
(* contents, and what a query selected it selects again.  That the parts   *)
(* of a report differ only as the table grows (ReportOrdered) rests on     *)
(* what ReportProofs says of each of its statements.                       *)
(***************************************************************************)
EXTENDS ReportProofs

OtherLabels == {"parse", "insert", "commit", "databases", "byDB", "aiFind", "aiCall"}

(* A goroutine at label, serving r with filter f, its answer a so far,      *)
(* answered with code (0: not yet).                                         *)
PlaceOK(label, r, a) ==
    /\ label \in {"scanCount", "scanList"} => r.op = "scan"
    /\ label \in ReportLabels => r.op \in ReportOps
    /\ label \in OtherLabels => r.op \notin {"scan"} \cup ReportOps
    /\ label = "scanCount" => a = NoAnswer

(* A scan: the count is no more than the list will find, and what is listed *)
(* with the default thresholds is an anomaly of a default report.           *)
ScanOK(label, r, a, code) ==
    /\ label = "scanList" => a.total \in Nat /\ a.total <= Cardinality(ScanIds(r))
    /\ code = 200 =>
         /\ Len(a.items) <= ScanLimit(r.limit)
         /\ Len(a.items) >= ScanLimit(r.limit) \/ Len(a.items) >= a.total
    /\ r.ms = None /\ r.count = None =>
         \A i \in DOMAIN a.items :
            /\ a.items[i] \in DOMAIN log
            /\ "frequent_and_slow" \in Reasons(log[a.items[i]], DefaultThresholds)

(* A report: each row listed is an anomaly and carries a suggestion, and    *)
(* the count that follows is no less than the list.  PartsOK has the rest.  *)
ReportOK(label, f, a, code) ==
    /\ label \in ReportLabels => f \in FilterRec
    /\ a.items \in Seq(Nat)
    /\ \A i \in DOMAIN a.items : a.items[i] \in DOMAIN log /\ Anomalous(log[a.items[i]], f)
    /\ a.suggestions = Len(a.items)
    /\ label = "anomalyCount" => Len(a.items) <= Cardinality(AnomalousIds(f))
    /\ label \in CountedLabels \/ code = 200 => Len(a.items) <= a.anomalies

Promise(label, r, f, a, code) ==
    /\ PlaceOK(label, r, a)
    /\ r.op = "scan" => ScanOK(label, r, a, code)
    /\ r.op \in ReportOps => ReportOK(label, f, a, code) /\ PartsOK(label, r.op, f, a, code)

ReadOK(w) == Promise(pc[w], req[w], filter[w], ans[w], status[w])

RInv == \A w \in Workers : ReadOK(w)
-----------------------------------------------------------------------------
(* The table only grows. *)

LEMMA RowsStay ==
  ASSUME log \in Seq(Row), Grows
  PROVE  \A i \in DOMAIN log : i \in DOMAIN log' /\ log'[i] = log[i]
<1>1. CASE log' = log
  BY <1>1
<1>2. ASSUME NEW more \in Seq(Row), log' = log \o more
      PROVE  \A i \in DOMAIN log : i \in DOMAIN log' /\ log'[i] = log[i]
  <2>1. /\ Len(log) \in Nat /\ Len(more) \in Nat
        /\ DOMAIN log = 1 .. Len(log)
        /\ DOMAIN log' = 1 .. Len(log) + Len(more)
        /\ \A i \in 1 .. Len(log) : log'[i] = log[i]
    BY <1>2, ConcatProperties, LenProperties
  <2>2. QED
    BY <2>1
<1>3. QED
  BY <1>1, <1>2 DEF Grows

(* A query that selected some rows selects them again. *)
LEMMA SelectionsGrow ==
  ASSUME log \in Seq(Row), log' \in Seq(Row), Grows, NEW r, NEW f
  PROVE  /\ Cardinality(ScanIds(r)) \in Nat /\ Cardinality(ScanIds(r)') \in Nat
         /\ Cardinality(ScanIds(r)) <= Cardinality(ScanIds(r)')
         /\ Cardinality(AnomalousIds(f)) \in Nat /\ Cardinality(AnomalousIds(f)') \in Nat
         /\ Cardinality(AnomalousIds(f)) <= Cardinality(AnomalousIds(f)')
<1>1. /\ ScanIds(r) \subseteq DOMAIN log /\ ScanIds(r)' \subseteq DOMAIN log'
      /\ ScanIds(r) \subseteq ScanIds(r)'
  BY RowsStay DEF ScanIds, IdsWhere
<1>2. /\ AnomalousIds(f) \subseteq DOMAIN log /\ AnomalousIds(f)' \subseteq DOMAIN log'
      /\ AnomalousIds(f) \subseteq AnomalousIds(f)'
  BY RowsStay DEF AnomalousIds, IdsWhere
<1>3. QED
  BY <1>1, <1>2, FiniteIds, FS_Subset

(* So do the rows of a report's window, and what was made of them holds of  *)
(* the longer table.                                                        *)
LEMMA WindowsGrow ==
  ASSUME log \in Seq(Row), log' \in Seq(Row), Grows, NEW f
  PROVE  /\ Cardinality(Windowed(f)) \in Nat /\ Cardinality(Windowed(f)') \in Nat
         /\ Cardinality(Windowed(f)) <= Cardinality(Windowed(f)')
         /\ \A d \in DBs : /\ Cardinality(WindowedOf(f, d)) \in Nat
                           /\ Cardinality(WindowedOf(f, d)') \in Nat
                           /\ Cardinality(WindowedOf(f, d)) <= Cardinality(WindowedOf(f, d)')
<1>1. /\ Windowed(f) \subseteq DOMAIN log /\ Windowed(f)' \subseteq DOMAIN log'
      /\ Windowed(f) \subseteq Windowed(f)'
  BY RowsStay DEF Windowed, IdsWhere
<1>2. \A d \in DBs : /\ WindowedOf(f, d) \subseteq DOMAIN log
                     /\ WindowedOf(f, d)' \subseteq DOMAIN log'
                     /\ WindowedOf(f, d) \subseteq WindowedOf(f, d)'
  BY RowsStay DEF WindowedOf, IdsWhere
<1>3. QED
  BY <1>1, <1>2, FiniteIds, FS_Subset

LEMMA PartsKept ==
  ASSUME log \in Seq(Row), log' \in Seq(Row), Grows,
         NEW label, NEW op, NEW f, NEW a, NEW code, PartsOK(label, op, f, a, code)
  PROVE  PartsOK(label, op, f, a, code)'
<1>1. ListedInWindow(f, a.items)
  BY DEF PartsOK
<1>2. \A i \in DOMAIN a.items : /\ a.items[i] \in DOMAIN log'
                               /\ log'[a.items[i]] = log[a.items[i]]
  BY <1>1, RowsStay DEF ListedInWindow
<1>3. ListedInWindow(f, a.items)'
  BY <1>1, <1>2 DEF ListedInWindow, InWindow, Named
<1>4. Met(a.byDB, a.items)' = Met(a.byDB, a.items)
  BY <1>2 DEF Met
<1>5. TotalWithin(f, a.total) => TotalWithin(f, a.total)'
  <2>1. /\ Cardinality(Windowed(f)) \in Nat /\ Cardinality(Windowed(f)') \in Nat
        /\ Cardinality(Windowed(f)) <= Cardinality(Windowed(f)')
    BY WindowsGrow
  <2>2. QED
    BY <2>1 DEF TotalWithin
<1>6. CountsWithin(f, a.byDB) => CountsWithin(f, a.byDB)'
  <2>1. SUFFICES ASSUME CountsWithin(f, a.byDB), NEW d \in DBs
                 PROVE  a.byDB[d] \in Nat /\ a.byDB[d] <= Cardinality(WindowedOf(f, d)')
    BY DEF CountsWithin
  <2>2. a.byDB[d] \in Nat /\ a.byDB[d] <= Cardinality(WindowedOf(f, d))
    BY <2>1 DEF CountsWithin
  <2>3. /\ Cardinality(WindowedOf(f, d)) \in Nat /\ Cardinality(WindowedOf(f, d)') \in Nat
        /\ Cardinality(WindowedOf(f, d)) <= Cardinality(WindowedOf(f, d)')
    BY WindowsGrow
  <2>4. QED
    BY <2>2, <2>3
<1>7. SpreadCovers(f, a.byDB, a.items, a.pctAll) => SpreadCovers(f, a.byDB, a.items, a.pctAll)'
  BY <1>2, <1>4 DEF SpreadCovers
<1>8. SpreadsCover(f, a.byDB, a.items, a.pcts) => SpreadsCover(f, a.byDB, a.items, a.pcts)'
  BY <1>2, <1>4 DEF SpreadsCover
<1>9. PatternsCover(a.byDB, a.items, a.topAll) => PatternsCover(a.byDB, a.items, a.topAll)'
  BY <1>4 DEF PatternsCover
<1>10. PatternsByDBCover(f, a.byDB, a.items, a.tops) => PatternsByDBCover(f, a.byDB, a.items, a.tops)'
  BY <1>4 DEF PatternsByDBCover
<1>11. QED
  BY <1>3, <1>5, <1>6, <1>7, <1>8, <1>9, <1>10 DEF PartsOK

(* What was promised stays so, whatever is stored. *)
LEMMA PromiseKept ==
  ASSUME log \in Seq(Row), log' \in Seq(Row), Grows,
         NEW label, NEW r, NEW f, NEW a, NEW code, Promise(label, r, f, a, code)
  PROVE  Promise(label, r, f, a, code)'
<1>1. \A i \in DOMAIN log : i \in DOMAIN log' /\ log'[i] = log[i]
  BY RowsStay
<1>2. PlaceOK(label, r, a)'
  BY DEF Promise, PlaceOK
<1>3. ASSUME ScanOK(label, r, a, code)
      PROVE  ScanOK(label, r, a, code)'
  <2>1. a.total \in Nat /\ a.total <= Cardinality(ScanIds(r))
          => a.total <= Cardinality(ScanIds(r)')
    <3>1. /\ Cardinality(ScanIds(r)) \in Nat /\ Cardinality(ScanIds(r)') \in Nat
          /\ Cardinality(ScanIds(r)) <= Cardinality(ScanIds(r)')
      BY SelectionsGrow
    <3>2. QED
      BY <3>1
  <2>2. \A i \in DOMAIN a.items :
          a.items[i] \in DOMAIN log => log'[a.items[i]] = log[a.items[i]]
    BY <1>1
  <2>3. QED
    BY <1>1, <1>3, <2>1, <2>2 DEF ScanOK
<1>4. ASSUME ReportOK(label, f, a, code)
      PROVE  ReportOK(label, f, a, code)'
  <2>1. Len(a.items) \in Nat
    BY <1>4 DEF ReportOK
  <2>2. Len(a.items) <= Cardinality(AnomalousIds(f))
          => Len(a.items) <= Cardinality(AnomalousIds(f)')
    BY <2>1, SelectionsGrow
  <2>3. \A i \in DOMAIN a.items :
          a.items[i] \in DOMAIN log => log'[a.items[i]] = log[a.items[i]]
    BY <1>1
  <2>4. QED
    BY <1>1, <1>4, <2>2, <2>3 DEF ReportOK
<1>5. PartsOK(label, r.op, f, a, code) => PartsOK(label, r.op, f, a, code)'
  <2>1. PICK op : op = r.op
    OBVIOUS
  <2>2. PartsOK(label, op, f, a, code) => PartsOK(label, op, f, a, code)'
    BY PartsKept
  <2>3. QED
    BY <2>1, <2>2
<1>6. QED
  BY <1>2, <1>3, <1>4, <1>5 DEF Promise

-----------------------------------------------------------------------------
(* Steps. *)

Still(v) ==
    /\ pc'[v] = pc[v] /\ req'[v] = req[v] /\ filter'[v] = filter[v]
    /\ ans'[v] = ans[v] /\ status'[v] = status[v]

(* It is enough to look at the goroutine that moves, on the table it saw. *)
LEMMA StepKeeps ==
  ASSUME IInv, IInv', RInv, Grows, NEW p,
         \A v \in Workers \ {p} : Still(v),
         p \in Workers => Promise(pc'[p], req'[p], filter'[p], ans'[p], status'[p])
  PROVE  RInv'
<1>1. log \in Seq(Row) /\ log' \in Seq(Row)
  BY DEF IInv, TypeOK
<1>2. ASSUME NEW v \in Workers
      PROVE  ReadOK(v)'
  <2>1. Promise(pc'[v], req'[v], filter'[v], ans'[v], status'[v])
    <3>1. CASE v = p
      BY <3>1
    <3>2. CASE v # p
      BY <3>2 DEF Still, RInv, ReadOK
    <3>3. QED
      BY <3>1, <3>2
  <2>2. PICK label, r, f, a, code :
          /\ label = pc'[v] /\ r = req'[v] /\ f = filter'[v] /\ a = ans'[v] /\ code = status'[v]
    OBVIOUS
  <2>3. Promise(label, r, f, a, code)
    BY <2>1, <2>2
  <2>4. Promise(label, r, f, a, code)'
    BY <1>1, <2>3, PromiseKept
  <2>5. QED
    BY <2>2, <2>4 DEF ReadOK
<1>3. QED
  BY <1>2 DEF RInv

(* Nothing is listed yet. *)
LEMMA FreshPromise ==
  ASSUME NEW label, NEW r, NEW f, NEW code,
         code # 200,
         \/ label \in {"idle", "auth", "done"}
         \/ /\ label = Entrance(r.op)
            /\ r.op \in {"upload", "scan", "databases", "byDB", "ai"} \cup ReportOps
            /\ r.op \in ReportOps => f \in FilterRec
  PROVE  Promise(label, r, f, NoAnswer, code)
<1>1. /\ NoAnswer.items = <<>> /\ NoAnswer.suggestions = 0
      /\ Len(<<>>) = 0 /\ <<>> \in Seq(Nat) /\ DOMAIN <<>> = {}
  BY DEF NoAnswer
<1>2. /\ label \notin {"scanList", "anomalyCount"} \cup CountedLabels
      /\ PlaceOK(label, r, NoAnswer)
  BY DEF PlaceOK, Entrance, ReportOps, CountedLabels, ReportLabels, OtherLabels
<1>3. ScanOK(label, r, NoAnswer, code)
  BY <1>1, <1>2 DEF ScanOK
<1>4. r.op \in ReportOps => ReportOK(label, f, NoAnswer, code)
  BY <1>1, <1>2 DEF ReportOK, ReportLabels, CountedLabels
<1>5. r.op \in ReportOps => PartsOK(label, r.op, f, NoAnswer, code)
  <2>1. r.op \in ReportOps => label \in {"idle", "auth", "done", "total"}
    BY DEF Entrance, ReportOps
  <2>2. ListedInWindow(f, NoAnswer.items)
    BY <1>1 DEF ListedInWindow
  <2>3. QED
    BY <2>1, <2>2 DEF PartsOK, After, CountedLabels
<1>6. QED
  BY <1>2, <1>3, <1>4, <1>5 DEF Promise

(* A request that is neither a scan nor a report promises nothing. *)
LEMMA OtherPromise ==
  ASSUME NEW label \in OtherLabels \cup {"done"}, NEW r, NEW f, NEW a, NEW code,
         r.op \notin {"scan"} \cup ReportOps
  PROVE  Promise(label, r, f, a, code)
BY DEF Promise, PlaceOK, OtherLabels, ReportLabels, CountedLabels

LEMMA AnswerFields ==
  ASSUME ShapesOK, NEW w \in Workers, NEW field \in Fields, NEW value, Answer(w, field, value)
  PROVE  /\ ans'[w][field] = value
         /\ \A other \in Fields \ {field} : ans'[w][other] = ans[w][other]
         /\ \A v \in Workers \ {w} : ans'[v] = ans[v]
BY DEF ShapesOK, Answer

LEMMA IngestKeeps ==
  ASSUME IInv, IInv', RInv, NEW p \in Procs, Ingest(p)
  PROVE  RInv'
<1>1. /\ TypeOK /\ ShapesOK /\ Main \notin Workers
      /\ pc[p] \in {"parse", "insert", "commit", "load"}
  BY ServiceAssumption DEF IInv, Ingest, Parse, InsertChunk, Commit
<1>2. /\ req' = req /\ filter' = filter
      /\ \A v \in Workers \ {p} : ans'[v] = ans[v]
      /\ \/ \E label \in {"insert", "commit"} : Goto(p, label)
         \/ \E code \in {200, 400, 500} : Conclude(p, code)
  <2>1. ASSUME NEW records, NEW bad, Consumed(p, records, bad)
        PROVE  /\ \A v \in Workers \ {p} : ans'[v] = ans[v]
               /\ Conclude(p, 200) \/ Goto(p, "insert")
    BY <2>1 DEF Consumed
  <2>2. CASE Parse(p)
    <3>1. /\ UNCHANGED <<req, filter>>
          /\ \/ \E records, bad : Consumed(p, records, bad)
             \/ Conclude(p, 400) /\ UNCHANGED ans
      BY <2>2 DEF Parse
    <3>2. QED
      BY <2>1, <3>1
  <2>3. CASE InsertChunk(p)
    <3>1. /\ UNCHANGED <<req, filter, ans>>
          /\ Goto(p, "commit") \/ Goto(p, "insert") \/ Conclude(p, 500)
      BY <2>3 DEF InsertChunk, Fail
    <3>2. QED
      BY <3>1
  <2>4. CASE Commit(p)
    <3>1. /\ UNCHANGED <<req, filter>>
          /\ \A v \in Workers \ {p} : ans'[v] = ans[v]
          /\ Conclude(p, 200) \/ Conclude(p, 500)
      BY <2>4 DEF Commit, Fail
    <3>2. QED
      BY <3>1
  <2>5. QED
    BY <2>2, <2>3, <2>4 DEF Ingest
<1>3. Grows
  <2>1. staged[p] \in Seq(Row)
    BY <1>1 DEF TypeOK
  <2>2. log' = log \/ log' = log \o staged[p]
    BY DEF Ingest, Parse, InsertChunk, Commit
  <2>3. QED
    BY <2>1, <2>2 DEF Grows
<1>4. /\ \A v \in Workers \ {p} : pc'[v] = pc[v] /\ status'[v] = status[v]
      /\ p \in Workers => pc'[p] \in {"insert", "commit", "done"}
  BY <1>1, <1>2 DEF Goto, Conclude, Reply, TypeOK, Procs
<1>5. \A v \in Workers \ {p} : Still(v)
  BY <1>2, <1>4 DEF Still
<1>6. p \in Workers => Promise(pc'[p], req'[p], filter'[p], ans'[p], status'[p])
  <2>1. p \in Workers => WorkerOK(p)
    BY DEF IInv
  <2>2. p \in Workers => req[p].op = "upload"
    BY <1>1, <2>1 DEF WorkerOK
  <2>3. QED
    BY <1>2, <1>4, <2>2, OtherPromise DEF OtherLabels, ReportOps
<1>7. QED
  BY <1>3, <1>5, <1>6, StepKeeps

(* Where a goroutine goes, and that it alone moves. *)
Moves(w, label, code) ==
    /\ pc'[w] = label /\ status'[w] = code
    /\ \A v \in Workers \ {w} : pc'[v] = pc[v] /\ status'[v] = status[v]

LEMMA PlainMoves ==
  ASSUME IInv, NEW w \in Workers, pc[w] # "done"
  PROVE  /\ \A label : Goto(w, label) => Moves(w, label, 0)
         /\ \A code : Reply(w, code) => Moves(w, "done", code)
<1>1. TypeOK /\ w \in Procs /\ status[w] = 0
  BY DEF IInv, WorkerOK, Procs
<1>2. ASSUME NEW label, Goto(w, label) PROVE Moves(w, label, 0)
  BY <1>1, <1>2 DEF Goto, Moves, TypeOK, Procs
<1>3. ASSUME NEW code, Reply(w, code) PROVE Moves(w, "done", code)
  BY <1>1, <1>3 DEF Reply, Moves, TypeOK, Procs
<1>4. QED
  BY <1>2, <1>3

LEMMA ArrivalKeeps ==
  ASSUME IInv, IInv', RInv, NEW w \in Workers, Receive(w) \/ Authenticate(w)
  PROVE  RInv'
<1>1. /\ DOMAIN req = Workers /\ DOMAIN filter = Workers
      /\ ans[w] = NoAnswer /\ pc[w] \in {"idle", "auth"}
      /\ pc[w] = "auth" => req[w] \in Requests[w]
  BY DEF IInv, ShapesOK, WorkerOK, Receive, Authenticate
<1>2. PICK r \in Requests[w] :
         /\ req'[w] = r /\ \A v \in Workers \ {w} : req'[v] = req[v]
         /\ \/ Enter(w, r)
            \/ /\ \/ Goto(w, "auth")
                  \/ \E code \in {401, 403} : Reply(w, code)
               /\ UNCHANGED filter
         /\ UNCHANGED <<log, ans>>
  <2>1. CASE Receive(w)
    <3>1. PICK r \in Requests[w] :
             /\ req' = [req EXCEPT ![w] = r]
             /\ Enter(w, r) \/ (Goto(w, "auth") /\ UNCHANGED filter)
             /\ UNCHANGED <<log, ans>>
      BY <2>1 DEF Receive
    <3>2. req'[w] = r /\ \A v \in Workers \ {w} : req'[v] = req[v]
      BY <1>1, <3>1
    <3>3. QED
      BY <3>1, <3>2
  <2>2. CASE Authenticate(w)
    <3>1. /\ \/ Enter(w, req[w])
             \/ (Reply(w, 401) \/ Reply(w, 403)) /\ UNCHANGED filter
          /\ UNCHANGED <<log, req, ans>> /\ req[w] \in Requests[w]
      BY <1>1, <2>2 DEF Authenticate
    <3>2. QED
      BY <3>1
  <2>3. QED
    BY <2>1, <2>2
<1>3. /\ \/ Goto(w, "auth")
         \/ Goto(w, Entrance(r.op)) /\ (r.op \in ReportOps => filter'[w] \in FilterRec)
         \/ \E code \in {400, 401, 403} : Reply(w, code)
      /\ \A v \in Workers \ {w} : filter'[v] = filter[v]
  <2>1. r.op \in ReportOps /\ ~Refusal(r) => Filter(r, now) \in FilterRec
    BY RequestKinds, FilterType DEF Refusal, IInv, TypeOK
  <2>2. QED
    BY <1>1, <1>2, <2>1 DEF Enter
<1>4. PICK label \in {"auth", "done", Entrance(r.op)}, code \in {0, 400, 401, 403} :
         /\ Moves(w, label, code)
         /\ label \in {"auth", "done"} \/ (r.op \in ReportOps => filter'[w] \in FilterRec)
  <2>1. Goto(w, "auth") => Moves(w, "auth", 0)
    BY <1>1, PlainMoves
  <2>2. Goto(w, Entrance(r.op)) => Moves(w, Entrance(r.op), 0)
    BY <1>1, PlainMoves
  <2>3. ASSUME NEW code \in {400, 401, 403}, Reply(w, code)
        PROVE  Moves(w, "done", code)
    BY <1>1, <2>3, PlainMoves
  <2>4. QED
    BY <1>3, <2>1, <2>2, <2>3
<1>5. Promise(label, r, filter'[w], NoAnswer, code)
  BY <1>4, RequestKinds, FreshPromise
<1>6. \A v \in Workers \ {w} : Still(v)
  BY <1>2, <1>3, <1>4 DEF Still, Moves
<1>7. /\ Grows /\ ans'[w] = NoAnswer /\ req'[w] = r
      /\ pc'[w] = label /\ status'[w] = code
  BY <1>1, <1>2, <1>4 DEF Grows, Moves
<1>8. QED
  BY <1>5, <1>6, <1>7, StepKeeps

LEMMA EndKeeps ==
  ASSUME IInv, IInv', RInv,
         NEW W \in SUBSET Procs, Release(W),
         \A w \in Workers \cap W : pc'[w] = "idle",
         \A w \in Workers \ W : pc'[w] = pc[w]
  PROVE  RInv'
<1>1. log \in Seq(Row) /\ log' \in Seq(Row) /\ Grows
  BY DEF IInv, TypeOK, Release, Grows
<1>2. ASSUME NEW v \in Workers
      PROVE  ReadOK(v)'
  <2>1. Promise(pc'[v], req'[v], filter'[v], ans'[v], status'[v])
    <3>1. CASE v \in W
      BY <3>1, FreshPromise DEF Release
    <3>2. CASE v \notin W
      BY <3>2 DEF Release, RInv, ReadOK
    <3>3. QED
      BY <3>1, <3>2
  <2>2. PICK label, r, f, a, code :
          /\ label = pc'[v] /\ r = req'[v] /\ f = filter'[v] /\ a = ans'[v] /\ code = status'[v]
    OBVIOUS
  <2>3. Promise(label, r, f, a, code)'
    BY <1>1, <2>1, <2>2, PromiseKept
  <2>4. QED
    BY <2>2, <2>3 DEF ReadOK
<1>3. QED
  BY <1>2 DEF RInv

-----------------------------------------------------------------------------
(* The reading handlers. *)

LEMMA LimitPositive ==
  ASSUME NEW w \in Workers, NEW r \in Requests[w], r.op = "scan"
  PROVE  ScanLimit(r.limit) \in Nat \ {0}
<1>1. r.limit \in Int \cup {None}
  BY ServiceAssumption DEF UploadReq, ScanReq, QueryReq, ReportReq, AIReq, ReportOps
<1>2. DefaultScan \in Nat \ {0} /\ MaxScan \in Nat \ {0}
  BY StoreAssumption
<1>3. QED
  BY <1>1, <1>2 DEF ScanLimit

(* What ORDER BY and LIMIT return: rows of the selection, all of them or as *)
(* many as the limit.                                                       *)
LEMMA ListingShape ==
  ASSUME NEW ids \in SUBSET DOMAIN log, log \in Seq(Row), NEW n \in Nat,
         NEW items \in Listings(log, ids, n, Worse)
  PROVE  /\ items \in Seq(Nat) /\ DOMAIN items = 1 .. Len(items)
         /\ \A i \in DOMAIN items : items[i] \in ids
         /\ Len(items) <= n /\ Len(items) <= Cardinality(ids)
         /\ Len(items) = n \/ Len(items) = Cardinality(ids)
<1> DEFINE size == IF Cardinality(ids) < n THEN Cardinality(ids) ELSE n
<1>1. Cardinality(ids) \in Nat /\ ids \subseteq Nat
  BY FiniteIds, LenProperties
<1>2. size \in Nat /\ size <= n /\ size <= Cardinality(ids) /\ size \in {n, Cardinality(ids)}
  BY <1>1
<1>3. items \in [1 .. size -> ids]
  BY DEF Listings
<1> HIDE DEF size
<1>4. items \in Seq(Nat) /\ Len(items) = size /\ DOMAIN items = 1 .. Len(items)
  BY <1>1, <1>2, <1>3
<1>5. QED
  BY <1>2, <1>3, <1>4

(* A reading handler's step, from the promise at its new place. *)
LEMMA ReadKeeps ==
  ASSUME IInv, IInv', RInv, NEW w \in Workers, Quiet(w),
         Promise(pc'[w], req[w], filter[w], ans'[w], status'[w])
  PROVE  RInv'
<1>1. pc[w] # "done"
  BY DEF Quiet, ReadLabels
<1>2. \A v \in Workers \ {w} : pc'[v] = pc[v] /\ status'[v] = status[v]
  BY <1>1, PlainMoves DEF Quiet, Moves
<1>3. Grows /\ \A v \in Workers \ {w} : Still(v)
  BY <1>2 DEF Quiet, Still, Grows
<1>4. QED
  BY <1>3, StepKeeps DEF Quiet

LEMMA OthersKeep ==
  ASSUME IInv, IInv', RInv, NEW w \in Workers,
         ListDatabases(w) \/ ListByDB(w) \/ AIStep(w)
  PROVE  RInv'
<1>1. Quiet(w) /\ pc[w] \in {"databases", "byDB", "aiFind", "aiCall"}
  BY ScanQuiet, AIQuiet DEF ScanStep, AIStep, AIFind, AICall, ListDatabases, ListByDB, Select
<1>2. req[w].op \notin {"scan"} \cup ReportOps
  BY <1>1 DEF RInv, ReadOK, Promise, PlaceOK, OtherLabels
<1>3. \/ Goto(w, "aiCall")
      \/ \E code : Reply(w, code)
  <2>1. Main \notin Workers
    BY ServiceAssumption
  <2>2. QED
    BY <2>1 DEF AIStep, AIFind, AICall, ListDatabases, ListByDB, Select, Analyzable, Fail, Conclude
<1>4. pc'[w] \in OtherLabels \cup {"done"}
  BY <1>1, <1>3, PlainMoves DEF Moves, OtherLabels
<1>5. QED
  BY <1>1, <1>2, <1>4, OtherPromise, ReadKeeps

(* A statement that failed: nothing more is promised. *)
LEMMA FailedPromise ==
  ASSUME IInv, RInv, NEW w \in Workers, pc[w] # "done", Fail(w), UNCHANGED ans
  PROVE  Promise(pc'[w], req[w], filter[w], ans'[w], status'[w])
<1>1. pc'[w] = "done" /\ status'[w] = 500
  BY PlainMoves, ServiceAssumption DEF Fail, Conclude, Moves
<1>2. \A op, f, a : PartsOK(pc[w], op, f, a, status[w]) => PartsOK("done", op, f, a, 500)
  BY DEF PartsOK, After, CountedLabels
<1>3. QED
  BY <1>1, <1>2 DEF RInv, ReadOK, Promise, PlaceOK, ScanOK, ReportOK, ReportLabels, OtherLabels,
                    CountedLabels

LEMMA ScanTotalKeeps ==
  ASSUME IInv, IInv', RInv, NEW w \in Workers, ScanTotal(w)
  PROVE  RInv'
<1>1. /\ Quiet(w) /\ pc[w] = "scanCount" /\ log \in Seq(Row) /\ ShapesOK
      /\ req[w].op = "scan" /\ ans[w] = NoAnswer
      /\ req[w] \in Requests[w]
  BY ScanQuiet DEF ScanStep, ScanTotal, Select, IInv, TypeOK, RInv, ReadOK, Promise, PlaceOK,
                   NoRequest
<1> DEFINE total == Cardinality(ScanIds(req[w]))
<1>2. total \in Nat
  BY <1>1, FiniteIds DEF ScanIds, IdsWhere
<1>3. ScanLimit(req[w].limit) \in Nat \ {0}
  BY <1>1, LimitPositive
<1>4. ASSUME Answer(w, "total", total)
      PROVE  ans'[w].total = total /\ ans'[w].items = <<>> /\ Len(<<>>) = 0 /\ DOMAIN <<>> = {}
  BY <1>1, <1>4, AnswerFields DEF Fields, NoAnswer
<1>5. \/ Fail(w) /\ UNCHANGED ans
      \/ Answer(w, "total", total) /\ total = 0 /\ Reply(w, 200)
      \/ Answer(w, "total", total) /\ Goto(w, "scanList")
  BY DEF ScanTotal, Select
<1> HIDE DEF total
<1>6. CASE Fail(w) /\ UNCHANGED ans
  BY <1>1, <1>6, FailedPromise, ReadKeeps
<1>7. CASE Answer(w, "total", total) /\ total = 0 /\ Reply(w, 200)
  <2>1. pc'[w] = "done" /\ status'[w] = 200
    BY <1>1, <1>7, PlainMoves DEF Moves
  <2>2. Promise(pc'[w], req[w], filter[w], ans'[w], status'[w])
    BY <1>1, <1>3, <1>4, <1>7, <2>1
       DEF Promise, PlaceOK, ScanOK, ReportLabels, CountedLabels, OtherLabels, ReportOps
  <2>3. QED
    BY <1>1, <2>2, ReadKeeps
<1>8. CASE Answer(w, "total", total) /\ Goto(w, "scanList")
  <2>1. pc'[w] = "scanList" /\ status'[w] = 0
    BY <1>1, <1>8, PlainMoves DEF Moves
  <2>2. ScanOK("scanList", req[w], ans'[w], 0)
    BY <1>2, <1>4, <1>8 DEF ScanOK, total
  <2>3. Promise(pc'[w], req[w], filter[w], ans'[w], status'[w])
    BY <1>1, <2>1, <2>2 DEF Promise, PlaceOK, ReportLabels, CountedLabels, OtherLabels, ReportOps
  <2>4. QED
    BY <1>1, <2>3, ReadKeeps
<1>9. QED
  BY <1>5, <1>6, <1>7, <1>8

(* Above both of the scan's default thresholds a row is frequent and slow   *)
(* for the report.                                                          *)
LEMMA AbnormalIsAnomalous ==
  ASSUME log \in Seq(Row), NEW i \in DOMAIN log, Abnormal(log[i], ScanMs, ScanCount)
  PROVE  "frequent_and_slow" \in Reasons(log[i], DefaultThresholds)
<1>1. log[i].entry.ms \in Nat /\ log[i].entry.count \in Nat
  <2>1. log[i] \in Row
    BY LenProperties, ElementOfSeq
  <2>2. QED
    BY <2>1 DEF Row, Entry
<1>2. /\ ScanMs \in Nat /\ ScanCount \in Nat /\ FreqSlowMs \in Nat /\ FreqCount \in Nat
      /\ FreqSlowMs <= ScanMs + 1 /\ FreqCount <= ScanCount + 1
  BY StoreAssumption
<1>3. log[i].entry.ms >= FreqSlowMs /\ log[i].entry.count >= FreqCount
  BY <1>1, <1>2 DEF Abnormal
<1>4. QED
  BY <1>3 DEF Reasons, DefaultThresholds

LEMMA ScanListKeeps ==
  ASSUME IInv, IInv', RInv, NEW w \in Workers, ScanList(w)
  PROVE  RInv'
<1> DEFINE ids == ScanIds(req[w])
           limit == ScanLimit(req[w].limit)
<1>1. /\ Quiet(w) /\ pc[w] = "scanList" /\ log \in Seq(Row) /\ ShapesOK
      /\ req[w].op = "scan" /\ req[w] \in Requests[w]
      /\ ans[w].total \in Nat /\ ans[w].total <= Cardinality(ids)
  BY ScanQuiet DEF ScanStep, ScanList, Select, IInv, TypeOK, RInv, ReadOK, Promise, PlaceOK, ScanOK,
                   NoRequest
<1>2. /\ ids \in SUBSET DOMAIN log /\ limit \in Nat \ {0}
      /\ Cardinality(ids) \in Nat
  BY <1>1, LimitPositive, FiniteIds DEF ScanIds, IdsWhere
<1>3. CASE Fail(w) /\ UNCHANGED ans
  BY <1>1, <1>3, FailedPromise, ReadKeeps
<1>4. ASSUME NEW items \in Listings(log, ids, limit, Worse),
             Answer(w, "items", items), Reply(w, 200)
      PROVE  RInv'
  <2>1. /\ pc'[w] = "done" /\ status'[w] = 200
        /\ ans'[w].items = items /\ ans'[w].total = ans[w].total
    BY <1>1, <1>4, PlainMoves, AnswerFields DEF Moves, Fields
  <2>2. /\ \A i \in DOMAIN items : items[i] \in ids
        /\ items \in Seq(Nat) /\ Len(items) <= limit
        /\ Len(items) = limit \/ Len(items) = Cardinality(ids)
    BY <1>1, <1>2, ListingShape
  <2>3. Len(items) >= limit \/ Len(items) >= ans[w].total
    BY <1>1, <1>2, <2>2
  <2>4. ASSUME req[w].ms = None, req[w].count = None, NEW i \in DOMAIN items
        PROVE  /\ items[i] \in DOMAIN log
               /\ "frequent_and_slow" \in Reasons(log[items[i]], DefaultThresholds)
    <3>1. items[i] \in DOMAIN log /\ Abnormal(log[items[i]], ScanMs, ScanCount)
      BY <2>2, <2>4 DEF ScanIds, IdsWhere, Override
    <3>2. QED
      BY <1>1, <3>1, AbnormalIsAnomalous
  <2>5. ScanOK("done", req[w], ans'[w], 200)
    BY <2>1, <2>2, <2>3, <2>4 DEF ScanOK
  <2>6. Promise(pc'[w], req[w], filter[w], ans'[w], status'[w])
    BY <1>1, <2>1, <2>5 DEF Promise, PlaceOK, ReportLabels, CountedLabels, OtherLabels, ReportOps
  <2>7. QED
    BY <1>1, <2>6, ReadKeeps
<1>5. QED
  BY <1>3, <1>4 DEF ScanList, Select, List

(* A report before one of its statements. *)
LEMMA ReportContext ==
  ASSUME IInv, RInv, NEW w \in Workers, ReportStep(w), pc[w] \in ReportLabels
  PROVE  /\ log \in Seq(Row) /\ ShapesOK /\ Quiet(w) /\ pc[w] # "done"
         /\ req[w].op \in ReportOps /\ filter[w] \in FilterRec
         /\ PlaceOK(pc[w], req[w], ans[w]) /\ ReportOK(pc[w], filter[w], ans[w], 0)
         /\ PartsOK(pc[w], req[w].op, filter[w], ans[w], 0)
<1>1. Promise(pc[w], req[w], filter[w], ans[w], status[w])
  BY DEF RInv, ReadOK
<1>2. pc[w] # "done" /\ status[w] = 0
  BY DEF IInv, WorkerOK, ReportLabels, CountedLabels
<1>3. req[w].op \in ReportOps
  BY <1>1 DEF Promise, PlaceOK
<1>4. QED
  BY <1>1, <1>2, <1>3, ReportQuiet DEF Promise, ReportOK, IInv, TypeOK

LEMMA FailureKeeps ==
  ASSUME IInv, IInv', RInv, NEW w \in Workers, ReportStep(w), pc[w] \in ReportLabels,
         Fail(w), UNCHANGED ans
  PROVE  RInv'
BY ReportContext, FailedPromise, ReadKeeps

(* The steps of a report that list nothing. *)
LEMMA PlainReportKeeps ==
  ASSUME IInv, IInv', RInv, NEW w \in Workers, ReportStep(w), pc[w] \in ReportLabels,
         NEW label \in ReportLabels \cup {"done"}, NEW code, Moves(w, label, code),
         NEW field \in Fields \ {"items", "suggestions"}, NEW value, Answer(w, field, value),
         ReportOK(label, filter[w], ans'[w], code),
         PartsOK(label, req[w].op, filter[w], ans'[w], code)
  PROVE  RInv'
<1>1. req[w].op \in ReportOps /\ Quiet(w)
  BY ReportContext
<1>2. Promise(label, req[w], filter[w], ans'[w], code)
  BY <1>1 DEF Promise, PlaceOK, ReportLabels, CountedLabels, OtherLabels, ReportOps
<1>3. pc'[w] = label /\ status'[w] = code
  BY DEF Moves
<1>4. QED
  BY <1>1, <1>2, <1>3, ReadKeeps

(* What ReportOK says is about the list and its count. *)
LEMMA ReportOKFrame ==
  ASSUME NEW old, NEW f, NEW a, ReportOK(old, f, a, 0), f \in FilterRec,
         NEW b, b.items = a.items, b.suggestions = a.suggestions, b.anomalies = a.anomalies,
         NEW label, label # "anomalyCount",
         NEW code, label \in CountedLabels \/ code = 200 => old \in CountedLabels
  PROVE  ReportOK(label, f, b, code)
BY DEF ReportOK

LEMMA CountTotalKeeps ==
  ASSUME IInv, IInv', RInv, NEW w \in Workers, CountTotal(w)
  PROVE  RInv'
<1> DEFINE f == filter[w]
<1>1. ReportStep(w) /\ pc[w] = "total" /\ pc[w] \in ReportLabels
  BY DEF ReportStep, CountTotal, Select, ReportLabels, CountedLabels
<1>2. /\ log \in Seq(Row) /\ ShapesOK /\ pc[w] # "done" /\ f \in FilterRec
      /\ ReportOK("total", f, ans[w], 0) /\ PartsOK("total", req[w].op, f, ans[w], 0)
  BY <1>1, ReportContext
<1>3. CASE Fail(w) /\ UNCHANGED ans
  BY <1>1, <1>3, FailureKeeps
<1>4. ASSUME NEW value, value = Cardinality(Windowed(f)),
             Answer(w, "total", value), Goto(w, "byDBCount")
      PROVE  RInv'
  <2>1. PICK b : b = ans'[w]
    OBVIOUS
  <2>2. b.total = value /\ \A other \in Fields \ {"total"} : b[other] = ans[w][other]
    BY <1>2, <1>4, <2>1, AnswerFields DEF Fields
  <2>3. TotalWithin(f, value)
    BY <1>2, <1>4, WindowIds, FiniteIds DEF TotalWithin
  <2>4. PartsOK("byDBCount", req[w].op, f, b, 0)
    BY <1>2, <2>2, <2>3 DEF PartsOK, After, CountedLabels, Fields
  <2>5. ReportOK("byDBCount", f, b, 0)
    BY <1>2, <2>2, ReportOKFrame DEF Fields, CountedLabels
  <2>6. Moves(w, "byDBCount", 0) /\ "byDBCount" \in ReportLabels \cup {"done"}
    BY <1>2, <1>4, PlainMoves DEF ReportLabels, CountedLabels
  <2>7. "total" \in Fields \ {"items", "suggestions"}
    BY DEF Fields
  <2>8. QED
    BY <1>1, <1>4, <2>1, <2>4, <2>5, <2>6, <2>7, PlainReportKeeps
<1>5. QED
  BY <1>3, <1>4 DEF CountTotal, Select

LEMMA CountByDBKeeps ==
  ASSUME IInv, IInv', RInv, NEW w \in Workers, CountByDB(w)
  PROVE  RInv'
<1> DEFINE f == filter[w]
<1>1. ReportStep(w) /\ pc[w] = "byDBCount" /\ pc[w] \in ReportLabels
  BY DEF ReportStep, CountByDB, Select, ReportLabels, CountedLabels
<1>2. /\ log \in Seq(Row) /\ ShapesOK /\ pc[w] # "done" /\ f \in FilterRec
      /\ ReportOK("byDBCount", f, ans[w], 0) /\ PartsOK("byDBCount", req[w].op, f, ans[w], 0)
  BY <1>1, ReportContext
<1>3. CASE Fail(w) /\ UNCHANGED ans
  BY <1>1, <1>3, FailureKeeps
<1>4. ASSUME NEW value, value = [d \in DBs |-> Cardinality(WindowedOf(f, d))],
             Answer(w, "byDB", value), Goto(w, "anomalyList")
      PROVE  RInv'
  <2>1. PICK b : b = ans'[w]
    OBVIOUS
  <2>2. b.byDB = value /\ \A other \in Fields \ {"byDB"} : b[other] = ans[w][other]
    BY <1>2, <1>4, <2>1, AnswerFields DEF Fields
  <2>3. CountsWithin(f, value) /\ ans[w].total <= SumFunction(value)
    BY <1>2, <1>4, CountsMade DEF PartsOK
  <2>4. PartsOK("anomalyList", req[w].op, f, b, 0)
    BY <1>2, <2>2, <2>3 DEF PartsOK, After, CountedLabels, Fields
  <2>5. ReportOK("anomalyList", f, b, 0)
    BY <1>2, <2>2, ReportOKFrame DEF Fields, CountedLabels
  <2>6. Moves(w, "anomalyList", 0) /\ "anomalyList" \in ReportLabels \cup {"done"}
    BY <1>2, <1>4, PlainMoves DEF ReportLabels, CountedLabels
  <2>7. "byDB" \in Fields \ {"items", "suggestions"}
    BY DEF Fields
  <2>8. QED
    BY <1>1, <1>4, <2>1, <2>4, <2>5, <2>6, <2>7, PlainReportKeeps
<1>5. QED
  BY <1>3, <1>4 DEF CountByDB, Select

LEMMA PercentilesOverallKeeps ==
  ASSUME IInv, IInv', RInv, NEW w \in Workers, PercentilesOverall(w)
  PROVE  RInv'
<1> DEFINE f == filter[w]
<1>1. ReportStep(w) /\ pc[w] = "pctAll" /\ pc[w] \in ReportLabels
  BY DEF ReportStep, PercentilesOverall, Select, ReportLabels, CountedLabels
<1>2. /\ log \in Seq(Row) /\ ShapesOK /\ pc[w] # "done" /\ f \in FilterRec
      /\ ReportOK("pctAll", f, ans[w], 0) /\ PartsOK("pctAll", req[w].op, f, ans[w], 0)
  BY <1>1, ReportContext
<1>3. CountsWithin(f, ans[w].byDB) /\ ListedInWindow(f, ans[w].items)
  BY <1>2 DEF PartsOK, After, CountedLabels
<1>4. CASE Fail(w) /\ UNCHANGED ans
  BY <1>1, <1>4, FailureKeeps
<1>5. ASSUME NEW value, value = Spread(Windowed(f), f),
             Answer(w, "pctAll", value), Goto(w, "pctByDB")
      PROVE  RInv'
  <2>1. PICK b : b = ans'[w]
    OBVIOUS
  <2>2. b.pctAll = value /\ \A other \in Fields \ {"pctAll"} : b[other] = ans[w][other]
    BY <1>2, <1>5, <2>1, AnswerFields DEF Fields
  <2>3. SpreadCovers(f, ans[w].byDB, ans[w].items, value)
    BY <1>2, <1>3, <1>5, SpreadMade
  <2>4. PartsOK("pctByDB", req[w].op, f, b, 0)
    BY <1>2, <2>2, <2>3 DEF PartsOK, After, CountedLabels, Fields
  <2>5. ReportOK("pctByDB", f, b, 0)
    BY <1>2, <2>2, ReportOKFrame DEF Fields, CountedLabels
  <2>6. Moves(w, "pctByDB", 0) /\ "pctByDB" \in ReportLabels \cup {"done"}
    BY <1>2, <1>5, PlainMoves DEF ReportLabels, CountedLabels
  <2>7. "pctAll" \in Fields \ {"items", "suggestions"}
    BY DEF Fields
  <2>8. QED
    BY <1>1, <1>5, <2>1, <2>4, <2>5, <2>6, <2>7, PlainReportKeeps
<1>6. QED
  BY <1>4, <1>5 DEF PercentilesOverall, Select

LEMMA PercentilesByDBKeeps ==
  ASSUME IInv, IInv', RInv, NEW w \in Workers, PercentilesByDB(w)
  PROVE  RInv'
<1> DEFINE f == filter[w]
<1>1. ReportStep(w) /\ pc[w] = "pctByDB" /\ pc[w] \in ReportLabels
  BY DEF ReportStep, PercentilesByDB, Select, ReportLabels, CountedLabels
<1>2. /\ log \in Seq(Row) /\ ShapesOK /\ pc[w] # "done" /\ f \in FilterRec
      /\ ReportOK("pctByDB", f, ans[w], 0) /\ PartsOK("pctByDB", req[w].op, f, ans[w], 0)
  BY <1>1, ReportContext
<1>3. CountsWithin(f, ans[w].byDB) /\ ListedInWindow(f, ans[w].items)
  BY <1>2 DEF PartsOK, After, CountedLabels
<1>4. CASE Fail(w) /\ UNCHANGED ans
  BY <1>1, <1>4, FailureKeeps
<1>5. ASSUME NEW value, value = [d \in DBs |-> Spread(WindowedOf(f, d), f)],
             Answer(w, "pcts", value), Goto(w, "topAll")
      PROVE  RInv'
  <2>1. PICK b : b = ans'[w]
    OBVIOUS
  <2>2. b.pcts = value /\ \A other \in Fields \ {"pcts"} : b[other] = ans[w][other]
    BY <1>2, <1>5, <2>1, AnswerFields DEF Fields
  <2>3. SpreadsCover(f, ans[w].byDB, ans[w].items, value)
    BY <1>2, <1>3, <1>5, SpreadsMade
  <2>4. PartsOK("topAll", req[w].op, f, b, 0)
    BY <1>2, <2>2, <2>3 DEF PartsOK, After, CountedLabels, Fields
  <2>5. ReportOK("topAll", f, b, 0)
    BY <1>2, <2>2, ReportOKFrame DEF Fields, CountedLabels
  <2>6. Moves(w, "topAll", 0) /\ "topAll" \in ReportLabels \cup {"done"}
    BY <1>2, <1>5, PlainMoves DEF ReportLabels, CountedLabels
  <2>7. "pcts" \in Fields \ {"items", "suggestions"}
    BY DEF Fields
  <2>8. QED
    BY <1>1, <1>5, <2>1, <2>4, <2>5, <2>6, <2>7, PlainReportKeeps
<1>6. QED
  BY <1>4, <1>5 DEF PercentilesByDB, Select

LEMMA TopPatternsOverallKeeps ==
  ASSUME IInv, IInv', RInv, NEW w \in Workers, TopPatternsOverall(w)
  PROVE  RInv'
<1> DEFINE f == filter[w]
<1>1. ReportStep(w) /\ pc[w] = "topAll" /\ pc[w] \in ReportLabels
  BY DEF ReportStep, TopPatternsOverall, Select, ReportLabels, CountedLabels
<1>2. /\ log \in Seq(Row) /\ ShapesOK /\ pc[w] # "done" /\ f \in FilterRec
      /\ ReportOK("topAll", f, ans[w], 0) /\ PartsOK("topAll", req[w].op, f, ans[w], 0)
  BY <1>1, ReportContext
<1>3. CountsWithin(f, ans[w].byDB) /\ ListedInWindow(f, ans[w].items)
  BY <1>2 DEF PartsOK, After, CountedLabels
<1>4. CASE Fail(w) /\ UNCHANGED ans
  BY <1>1, <1>4, FailureKeeps
<1>5. ASSUME NEW value, value \in TopPatterns(log, Windowed(f), f.top),
             Answer(w, "topAll", value), Goto(w, "topByDB")
      PROVE  RInv'
  <2>1. PICK b : b = ans'[w]
    OBVIOUS
  <2>2. b.topAll = value /\ \A other \in Fields \ {"topAll"} : b[other] = ans[w][other]
    BY <1>2, <1>5, <2>1, AnswerFields DEF Fields
  <2>3. PatternsCover(ans[w].byDB, ans[w].items, value)
    BY <1>2, <1>3, <1>5, PatternsMade
  <2>4. PartsOK("topByDB", req[w].op, f, b, 0)
    BY <1>2, <2>2, <2>3 DEF PartsOK, After, CountedLabels, Fields
  <2>5. ReportOK("topByDB", f, b, 0)
    BY <1>2, <2>2, ReportOKFrame DEF Fields, CountedLabels
  <2>6. Moves(w, "topByDB", 0) /\ "topByDB" \in ReportLabels \cup {"done"}
    BY <1>2, <1>5, PlainMoves DEF ReportLabels, CountedLabels
  <2>7. "topAll" \in Fields \ {"items", "suggestions"}
    BY DEF Fields
  <2>8. QED
    BY <1>1, <1>5, <2>1, <2>4, <2>5, <2>6, <2>7, PlainReportKeeps
<1>6. QED
  BY <1>4, <1>5 DEF TopPatternsOverall, Select

LEMMA CountAnomaliesKeeps ==
  ASSUME IInv, IInv', RInv, NEW w \in Workers, CountAnomalies(w)
  PROVE  RInv'
<1> DEFINE f == filter[w]
           count == Cardinality(AnomalousIds(f))
<1>1. ReportStep(w) /\ pc[w] = "anomalyCount" /\ pc[w] \in ReportLabels
  BY DEF ReportStep, CountAnomalies, Select, ReportLabels
<1>2. /\ ShapesOK /\ pc[w] # "done" /\ f \in FilterRec
      /\ ReportOK("anomalyCount", f, ans[w], 0) /\ PartsOK("anomalyCount", req[w].op, f, ans[w], 0)
  BY <1>1, ReportContext
<1>3. CASE Fail(w) /\ UNCHANGED ans
  BY <1>1, <1>3, FailureKeeps
<1>4. ASSUME Answer(w, "anomalies", count), Goto(w, "pctAll")
      PROVE  RInv'
  <2>1. PICK b : b = ans'[w]
    OBVIOUS
  <2>2. b.anomalies = count /\ \A other \in Fields \ {"anomalies"} : b[other] = ans[w][other]
    BY <1>2, <1>4, <2>1, AnswerFields DEF Fields
  <2>3. PartsOK("pctAll", req[w].op, f, b, 0)
    BY <1>2, <2>2 DEF PartsOK, After, CountedLabels, Fields
  <2>4. ReportOK("pctAll", f, b, 0)
    BY <1>2, <2>2 DEF ReportOK, Fields
  <2>5. Moves(w, "pctAll", 0) /\ "pctAll" \in ReportLabels \cup {"done"}
    BY <1>2, <1>4, PlainMoves DEF ReportLabels, CountedLabels
  <2>6. "anomalies" \in Fields \ {"items", "suggestions"}
    BY DEF Fields
  <2>7. QED
    BY <1>1, <1>4, <2>1, <2>3, <2>4, <2>5, <2>6, PlainReportKeeps
<1>5. QED
  BY <1>3, <1>4 DEF CountAnomalies, Select

LEMMA IntervalSize == ASSUME NEW n \in Nat PROVE Cardinality(1 .. n) = n
  BY FS_Interval

LEMMA ListAnomaliesKeeps ==
  ASSUME IInv, IInv', RInv, NEW w \in Workers, ListAnomalies(w)
  PROVE  RInv'
<1> DEFINE f == filter[w]
           ids == AnomalousIds(f)
<1>1. /\ Quiet(w) /\ pc[w] = "anomalyList" /\ log \in Seq(Row) /\ ShapesOK
      /\ req[w].op \in ReportOps /\ f \in FilterRec
      /\ PartsOK("anomalyList", req[w].op, f, ans[w], 0)
  BY ReportContext DEF ReportStep, ListAnomalies, Select, ReportLabels
<1>2. CASE Fail(w) /\ UNCHANGED ans
  BY <1>1, <1>2, FailedPromise, ReadKeeps
<1>3. ASSUME NEW items \in Listings(log, ids, f.limit, Worse), Goto(w, "anomalyCount"),
             ans' = [ans EXCEPT ![w].items = items,
                                ![w].suggestions = Cardinality(Carriers(items, f))]
      PROVE  RInv'
  <2>1. f.limit \in Nat /\ ids \in SUBSET DOMAIN log
    BY <1>1 DEF FilterRec, AnomalousIds, IdsWhere
  <2>2. /\ items \in Seq(Nat) /\ DOMAIN items = 1 .. Len(items)
        /\ \A i \in DOMAIN items : items[i] \in ids
        /\ Len(items) <= Cardinality(ids)
    BY <1>1, <1>3, <2>1, ListingShape
  <2>3. \A i \in DOMAIN items : items[i] \in DOMAIN log /\ Anomalous(log[items[i]], f)
    BY <2>2 DEF AnomalousIds, IdsWhere
  <2>4. Carriers(items, f) = 1 .. Len(items)
    <3>1. \A i \in DOMAIN items : "add_index_on_where_columns" \in Suggestions(log[items[i]], f)
      BY <2>3 DEF Anomalous, Suggestions, Reasons
    <3>2. QED
      BY <2>2, <3>1 DEF Carriers
  <2>5. Cardinality(Carriers(items, f)) = Len(items)
    <3>1. Len(items) \in Nat
      BY <2>2
    <3>2. Cardinality(1 .. Len(items)) = Len(items)
      BY <3>1, IntervalSize
    <3>3. QED
      BY <2>4, <3>2
  <2>6. ans'[w].items = items /\ ans'[w].suggestions = Len(items)
    <3>1. DOMAIN ans = Workers /\ {"items", "suggestions"} \subseteq DOMAIN ans[w]
      BY <1>1 DEF ShapesOK, Fields
    <3>2. PICK n : n = Cardinality(Carriers(items, f))
      OBVIOUS
    <3>3. ans' = [ans EXCEPT ![w].items = items, ![w].suggestions = n]
      BY <1>3, <3>2
    <3>4. ans'[w].items = items /\ ans'[w].suggestions = n
      BY <3>1, <3>3
    <3>5. QED
      BY <2>5, <3>2, <3>4
  <2>7. pc'[w] = "anomalyCount" /\ status'[w] = 0
    BY <1>1, <1>3, PlainMoves DEF Moves
  <2>8. ReportOK("anomalyCount", f, ans'[w], 0)
    BY <1>1, <2>2, <2>3, <2>6 DEF ReportOK, CountedLabels
  <2>9. PartsOK("anomalyCount", req[w].op, f, ans'[w], 0)
    <3>1. PICK b : b = ans'[w]
      OBVIOUS
    <3>2. b.items = items /\ b.total = ans[w].total /\ b.byDB = ans[w].byDB
      <4>1. DOMAIN ans = Workers /\ {"items", "suggestions", "total", "byDB"} \subseteq DOMAIN ans[w]
        BY <1>1 DEF ShapesOK, Fields
      <4>2. PICK n : n = Cardinality(Carriers(items, f))
        OBVIOUS
      <4>3. ans' = [ans EXCEPT ![w].items = items, ![w].suggestions = n]
        BY <1>3, <4>2
      <4>4. QED
        BY <3>1, <4>1, <4>3
    <3>3. ListedInWindow(f, items)
      BY <2>2 DEF ListedInWindow, AnomalousIds, IdsWhere
    <3>4. Len(items) <= f.limit
      BY <1>1, <1>3, <2>1, ListingShape
    <3>5. PartsOK("anomalyCount", req[w].op, f, b, 0)
      BY <1>1, <3>2, <3>3, <3>4 DEF PartsOK, After, CountedLabels
    <3>6. QED
      BY <3>1, <3>5
  <2>10. Promise(pc'[w], req[w], filter[w], ans'[w], status'[w])
    BY <1>1, <2>7, <2>8, <2>9 DEF Promise, PlaceOK, ReportLabels, CountedLabels, OtherLabels, ReportOps
  <2>11. QED
    BY <1>1, <2>10, ReadKeeps
<1>4. QED
  BY <1>2, <1>3 DEF ListAnomalies, Select

LEMMA TopPatternsByDBKeeps ==
  ASSUME IInv, IInv', RInv, NEW w \in Workers, TopPatternsByDB(w)
  PROVE  RInv'
<1> DEFINE f == filter[w]
           op == req[w].op
<1>1. ReportStep(w) /\ pc[w] = "topByDB" /\ pc[w] \in ReportLabels
  BY DEF ReportStep, TopPatternsByDB, Select, ReportLabels, CountedLabels
<1>2. /\ log \in Seq(Row) /\ ShapesOK /\ pc[w] # "done" /\ f \in FilterRec
      /\ ReportOK("topByDB", f, ans[w], 0) /\ PartsOK("topByDB", op, f, ans[w], 0)
  BY <1>1, ReportContext
<1>3. CountsWithin(f, ans[w].byDB) /\ ListedInWindow(f, ans[w].items)
  BY <1>2 DEF PartsOK, After, CountedLabels
<1>4. CASE Fail(w) /\ UNCHANGED ans
  BY <1>1, <1>4, FailureKeeps
<1>5. ASSUME NEW value, value = [d \in DBs |-> CHOOSE top \in TopPatterns(log, WindowedOf(f, d), f.top) : TRUE],
             Answer(w, "tops", value),
             NEW label, NEW code, Moves(w, label, code),
             \/ label = "done" /\ code = 200 /\ op = "report"
             \/ label \in {"csv", "pdf"} /\ code = 0
      PROVE  RInv'
  <2>1. PICK b : b = ans'[w]
    OBVIOUS
  <2>2. b.tops = value /\ \A other \in Fields \ {"tops"} : b[other] = ans[w][other]
    BY <1>2, <1>5, <2>1, AnswerFields DEF Fields
  <2>3. PatternsByDBCover(f, ans[w].byDB, ans[w].items, value)
    BY <1>2, <1>3, <1>5, PatternsByDBMade
  <2>4. PartsOK(label, op, f, b, code)
    BY <1>2, <1>5, <2>2, <2>3 DEF PartsOK, After, CountedLabels, Fields
  <2>5. ReportOK(label, f, b, code)
    BY <1>2, <1>5, <2>2, ReportOKFrame DEF Fields, CountedLabels
  <2>6. label \in ReportLabels \cup {"done"} /\ "tops" \in Fields \ {"items", "suggestions"}
    BY <1>5 DEF ReportLabels, CountedLabels, Fields
  <2>7. QED
    BY <1>1, <1>5, <2>1, <2>4, <2>5, <2>6, PlainReportKeeps
<1>6. ASSUME NEW value, value = [d \in DBs |-> CHOOSE top \in TopPatterns(log, WindowedOf(f, d), f.top) : TRUE],
             Answer(w, "tops", value),
             \/ op = "report" /\ Reply(w, 200)
             \/ op \in {"csv", "pdf"} /\ Goto(w, op)
      PROVE  RInv'
  <2>1. CASE op = "report" /\ Reply(w, 200)
    <3>1. Moves(w, "done", 200)
      BY <1>2, <2>1, PlainMoves
    <3>2. QED
      BY <1>5, <1>6, <2>1, <3>1
  <2>2. CASE op \in {"csv", "pdf"} /\ Goto(w, op)
    <3>1. Moves(w, op, 0)
      BY <1>2, <2>2, PlainMoves
    <3>2. QED
      BY <1>5, <1>6, <2>2, <3>1
  <2>3. QED
    BY <1>6, <2>1, <2>2
<1>7. QED
  BY <1>4, <1>6 DEF TopPatternsByDB, Select

(* The documents are printed from the answer. *)
LEMMA ExportKeeps ==
  ASSUME IInv, IInv', RInv, NEW w \in Workers, ExportCSV(w) \/ ExportPDF(w)
  PROVE  RInv'
<1> DEFINE f == filter[w]
<1>1. /\ ReportStep(w) /\ pc[w] \in {"csv", "pdf"} /\ pc[w] \in ReportLabels
      /\ Answer(w, "parts", Parts(ans[w]))
      /\ Reply(w, 200) \/ Reply(w, 500)
  BY DEF ReportStep, ExportCSV, ExportPDF, ReportLabels, CountedLabels
<1>2. /\ ShapesOK /\ pc[w] # "done" /\ f \in FilterRec
      /\ ReportOK(pc[w], f, ans[w], 0) /\ PartsOK(pc[w], req[w].op, f, ans[w], 0)
  BY <1>1, ReportContext
<1>3. PICK code \in {200, 500} : Moves(w, "done", code)
  BY <1>1, <1>2, PlainMoves
<1>4. PICK b : b = ans'[w]
  OBVIOUS
<1>5. b.parts = Parts(ans[w]) /\ \A other \in Fields \ {"parts"} : b[other] = ans[w][other]
  BY <1>1, <1>2, <1>4, AnswerFields DEF Fields
<1>6. Parts(b) = Parts(ans[w])
  BY <1>5 DEF Parts, Fields
<1>7. PartsOK("done", req[w].op, f, b, code)
  BY <1>1, <1>2, <1>3, <1>5, <1>6 DEF PartsOK, After, CountedLabels, Fields
<1>8. ReportOK("done", f, b, code)
  BY <1>1, <1>2, <1>5, ReportOKFrame DEF Fields, CountedLabels
<1>9. "done" \in ReportLabels \cup {"done"} /\ "parts" \in Fields \ {"items", "suggestions"}
  BY DEF Fields
<1>10. QED
  BY <1>1, <1>3, <1>4, <1>7, <1>8, <1>9, PlainReportKeeps

LEMMA ReportKeeps ==
  ASSUME IInv, IInv', RInv, NEW w \in Workers, ReportStep(w)
  PROVE  RInv'
BY CountTotalKeeps, CountByDBKeeps, ListAnomaliesKeeps, CountAnomaliesKeeps, PercentilesOverallKeeps,
   PercentilesByDBKeeps, TopPatternsOverallKeeps, TopPatternsByDBKeeps, ExportKeeps DEF ReportStep
-----------------------------------------------------------------------------
LEMMA RInvInit == Init => RInv
<1> SUFFICES ASSUME Init, NEW w \in Workers PROVE ReadOK(w)
  BY DEF RInv
<1>1. /\ pc[w] = "idle" /\ req[w] = NoRequest /\ ans[w] = NoAnswer /\ status[w] = 0
  BY ServiceAssumption DEF Init, Procs
<1>2. QED
  BY <1>1, FreshPromise DEF ReadOK

LEMMA RInvNext == IInv /\ IInv' /\ RInv /\ [Next]_vars => RInv'
<1> SUFFICES ASSUME IInv, IInv', RInv, [Next]_vars PROVE RInv'
  OBVIOUS
<1>1. CASE Tick \/ (\E w \in Workers : HangUp(w)) \/ UNCHANGED vars
  <2>1. log' = log /\ \A v \in Workers : Still(v)
    BY <1>1 DEF Tick, HangUp, vars, localVars, Still
  <2>2. Grows /\ Main \notin Workers
    BY <2>1, ServiceAssumption DEF Grows
  <2>3. QED
    BY <2>1, <2>2, StepKeeps
<1>2. CASE Crash
  <2>1. /\ Release(Procs) /\ Procs \in SUBSET Procs /\ Workers \ Procs = {}
        /\ \A w \in Workers \cap Procs : pc'[w] = "idle"
    BY <1>2, ServiceAssumption DEF Crash, Procs
  <2>2. QED
    BY <2>1, EndKeeps
<1>3. ASSUME NEW w \in Workers, Finish(w) PROVE RInv'
  <2>1. /\ Release({w}) /\ {w} \in SUBSET Procs
        /\ \A v \in Workers \cap {w} : pc'[v] = "idle"
        /\ \A v \in Workers \ {w} : pc'[v] = pc[v]
    BY <1>3 DEF Finish, Procs, IInv, TypeOK
  <2>2. QED
    BY <2>1, EndKeeps
<1>4. ASSUME NEW p \in Procs, Ingest(p) PROVE RInv'
  BY <1>4, IngestKeeps
<1>5. ASSUME NEW w \in Workers, Receive(w) \/ Authenticate(w) PROVE RInv'
  BY <1>5, ArrivalKeeps
<1>6. ASSUME NEW w \in Workers, ScanStep(w) \/ AIStep(w) \/ ReportStep(w) PROVE RInv'
  BY <1>6, ScanTotalKeeps, ScanListKeeps, OthersKeep, ReportKeeps DEF ScanStep
<1>7. QED
  BY <1>1, <1>2, <1>3, <1>4, <1>5, <1>6 DEF Next

(* Every handler's partial answer keeps the promise of its place. *)
THEOREM ReadInvariant == Spec => []RInv
<1>1. Init => RInv
  BY RInvInit
<1>2. IInv /\ IInv' /\ RInv /\ [Next]_vars => RInv'
  BY RInvNext
<1>3. QED
  BY <1>1, <1>2, InvariantHolds, PTL DEF Spec

(* ScanCoversTotal: whatever uploads commit between the scan's two          *)
(* statements, its list has what its total promises, up to the limit.       *)
THEOREM ScanCoversTotalHolds == Spec => []ScanCoversTotal
<1>1. RInv => ScanCoversTotal
  BY DEF RInv, ReadOK, Promise, ScanOK, ScanCoversTotal
<1>2. QED
  BY <1>1, ReadInvariant, PTL

(* AnomaliesExplained: each row a report lists, on the table as it is now,  *)
(* has a reason and was counted with a suggestion; a default scan's         *)
(* anomalies are a default report's.                                        *)
THEOREM AnomaliesExplainedHolds == Spec => []AnomaliesExplained
<1>1. ASSUME NEW row, NEW f, Anomalous(row, f)
      PROVE  Reasons(row, f) \ {"select_star"} # {}
  <2>1. "slow_query" \in Reasons(row, f) \/ "frequent_and_slow" \in Reasons(row, f)
    BY <1>1 DEF Anomalous, Reasons
  <2>2. QED
    BY <2>1
<1>2. RInv => AnomaliesExplained
  BY <1>1 DEF RInv, ReadOK, Promise, ScanOK, ReportOK, AnomaliesExplained
<1>3. QED
  BY <1>2, ReadInvariant, PTL

(* What a finished document names has all that follows. *)
LEMMA DocumentComplete ==
  ASSUME log \in Seq(Row), NEW f, NEW a, a.items \in Seq(Nat), ListedInWindow(f, a.items),
         SpreadCovers(f, a.byDB, a.items, a.pctAll), SpreadsCover(f, a.byDB, a.items, a.pcts),
         PatternsCover(a.byDB, a.items, a.topAll), PatternsByDBCover(f, a.byDB, a.items, a.tops),
         "byDB" \in Parts(a) \/ a.items # <<>>
  PROVE  {"pctAll", "pctByDB", "topAll", "topByDB"} \subseteq Parts(a)
<1>1. PICK d \in Met(a.byDB, a.items) : TRUE
  <2>1. CASE "byDB" \in Parts(a)
    BY <2>1 DEF Parts, Met
  <2>2. CASE a.items # <<>>
    <3>1. 1 \in DOMAIN a.items
      BY <2>2
    <3>2. log[a.items[1]].entry.db \in DBs
      BY <3>1, RowFields DEF ListedInWindow
    <3>3. QED
      BY <3>1, <3>2 DEF Met
  <2>3. QED
    BY <2>1, <2>2
<1>2. d \in DBs
  BY DEF Met
<1>3. a.pctAll # <<>> /\ a.pcts[d] # <<>> /\ a.topAll # <<>> /\ a.tops[d] # <<>>
  BY <1>1 DEF SpreadCovers, SpreadsCover, PatternsCover, PatternsByDBCover
<1>4. QED
  BY <1>2, <1>3 DEF Parts

(* ReportOrdered: although uploads commit between the eight statements of   *)
(* Analyze, each part of a finished report covers those read before it: the *)
(* databases the total, the count the list, the percentiles and patterns of *)
(* a database its rows; and a document that names a database or an anomaly  *)
(* has all that follows.                                                    *)
THEOREM ReportOrderedHolds == Spec => []ReportOrdered
<1>1. IInv /\ RInv => ReportOrdered
  <2>1. SUFFICES ASSUME IInv, RInv, NEW w \in Workers, req[w].op \in ReportOps, status[w] = 200
                 PROVE  Covered(req[w].op, filter[w], ans[w])
    BY DEF ReportOrdered
  <2>2. PICK a, f, op : a = ans[w] /\ f = filter[w] /\ op = req[w].op
    OBVIOUS
  <2>3. ReportOK(pc[w], f, a, 200) /\ PartsOK(pc[w], op, f, a, 200) /\ log \in Seq(Row)
    BY <2>1, <2>2 DEF RInv, ReadOK, Promise, IInv, TypeOK
  <2>4. /\ ListedInWindow(f, a.items) /\ CountsWithin(f, a.byDB)
        /\ a.total <= SumFunction(a.byDB) /\ Len(a.items) <= f.limit
        /\ SpreadCovers(f, a.byDB, a.items, a.pctAll) /\ SpreadsCover(f, a.byDB, a.items, a.pcts)
        /\ PatternsCover(a.byDB, a.items, a.topAll) /\ PatternsByDBCover(f, a.byDB, a.items, a.tops)
        /\ op # "report" => a.parts = Parts(a)
    BY <2>3 DEF PartsOK
  <2>5. a.items \in Seq(Nat) /\ Len(a.items) <= a.anomalies
    BY <2>3 DEF ReportOK
  <2>6. \A d \in DBs : a.byDB[d] > 0 => a.pcts[d] # <<>> /\ a.tops[d] # <<>>
    BY <2>4 DEF SpreadsCover, PatternsByDBCover, Met
  <2>7. \A i \in DOMAIN a.items :
           100 \in f.pcts => /\ log[a.items[i]].entry.ms <= a.pcts[log[a.items[i]].entry.db][100].ms
                             /\ log[a.items[i]].entry.ms <= a.pctAll[100].ms
    BY <2>4 DEF SpreadCovers, SpreadsCover
  <2>8. \A d \in DBs : Cardinality(DOMAIN a.tops[d]) < f.top => a.byDB[d] <= SumFunction(a.tops[d])
    BY <2>4 DEF PatternsByDBCover
  <2>9. op # "report" /\ ("byDB" \in a.parts \/ a.items # <<>>) =>
           {"pctAll", "pctByDB", "topAll", "topByDB"} \subseteq a.parts
    BY <2>3, <2>4, <2>5, DocumentComplete
  <2>10. QED
    BY <2>2, <2>4, <2>5, <2>6, <2>7, <2>8, <2>9 DEF Covered
<1>2. QED
  BY <1>1, ReadInvariant, InvariantHolds, PTL
=============================================================================
