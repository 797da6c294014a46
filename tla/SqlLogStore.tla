----------------------------- MODULE SqlLogStore -----------------------------
(***************************************************************************)
(* DEMO.SQL_LOG, the lines a log file is made of, and the functions of     *)
(* internal/sqllog that read them: which lines parse, which rows a query   *)
(* selects, what a report makes of a row.  The table is the sequence of    *)
(* its rows in the order of their ids.  Times and counts are scaled: the   *)
(* constants stand for 500 ms, 100 executions, 7 days and the like.        *)
(***************************************************************************)
EXTENDS Integers, Sequences, FiniteSets, SequencesExt

CONSTANTS
    DBs,            \* database names a log line of at most 1 MiB may carry
    SafeDBs,        \* those that match dbNameRE
    Queries,        \* query texts, normalised: literals replaced, lower case
    StarQueries,    \* those that contain "select *"
    Bad,            \* a number or a time that does not parse
    Blank,          \* nothing between two commas
    ScanMs, ScanCount,              \* AbnormalExecTimeThreshold, ...CountThreshold
    DefaultScan, MaxScan,           \* a scan's limit: 100 and 1000
    SlowMs, FreqSlowMs, FreqCount,  \* the report's thresholds
    DefaultAnomalies, AnomaliesCap, \* the report's limit: 500 and 5000
    DefaultTop, MaxTop,             \* its patterns: 20 and 200
    DefaultPcts, MaxPcts,           \* its percentiles: 50,75,90,95,99, and at most 10
    Week, Day,                      \* its default window; the length of a day
    ZeroTime,                       \* 0001-01-01T00:00:00Z, Go's "no time"
    DefaultAI,                      \* queries the AI analysis looks at: 5
    None                            \* a parameter that was not sent

ASSUME StoreAssumption ==
    /\ IsFiniteSet(DBs) /\ SafeDBs \subseteq DBs /\ StarQueries \subseteq Queries
    /\ ScanMs \in Nat /\ ScanCount \in Nat /\ Week \in Nat
    /\ \A n \in {SlowMs, FreqSlowMs, FreqCount, DefaultScan, MaxScan, DefaultAnomalies,
                 AnomaliesCap, DefaultTop, MaxTop, DefaultAI, MaxPcts, Day} : n \in Nat \ {0}
    /\ FreqSlowMs <= ScanMs + 1 /\ FreqCount <= ScanCount + 1
    /\ DefaultTop <= MaxTop
    /\ DefaultPcts \subseteq 0..100 /\ DefaultPcts # {}
    /\ ZeroTime \in Int \ Nat
    /\ None # Bad /\ None # Blank /\ Bad # Blank
    /\ {None, Bad, Blank} \cap (Int \cup DBs \cup Seq(Int \cup {Bad, Blank})) = {}

Entry == [db : DBs, query : Queries, ms : Nat, count : Nat]
Row == [entry : Entry, at : Nat]    \* with created_at

(* What ParseStream makes of a log file: the records of its valid lines,    *)
(* the number of lines that do not parse, and whether a line of more than   *)
(* 1 MiB follows them, at which the scanner stops.                          *)
File == [records : Seq(Entry), bad : Nat, long : BOOLEAN]

LinesOf(file) == Len(file.records) + file.bad

(* Rows of one INSERT share a created_at. *)
Stamped(entries, time) == [i \in DOMAIN entries |-> [entry |-> entries[i], at |-> time]]
-----------------------------------------------------------------------------
(* Queries. *)

Named(row, db) == db \in {None, row.entry.db}

(* Abnormal for a scan: strictly above both thresholds. *)
Abnormal(row, ms, count) == row.entry.ms > ms /\ row.entry.count > count

Worse(r, s) ==
    \/ r.entry.ms > s.entry.ms
    \/ r.entry.ms = s.entry.ms /\ r.entry.count > s.entry.count

Slower(r, s) == r.entry.ms > s.entry.ms

Unordered(r, s) == FALSE

(* ORDER BY and LIMIT n: the ways to list n of the rows ids, or all of them *)
(* when there are fewer, with no row behind one that it comes Before.  How  *)
(* ties are ordered is the database's choice.                               *)
Listings(rows, ids, n, Before(_, _)) ==
    LET size == IF Cardinality(ids) < n THEN Cardinality(ids) ELSE n
    IN {s \in [1..size -> ids] :
          /\ \A i, j \in 1..size : i < j => s[i] # s[j] /\ ~Before(rows[s[j]], rows[s[i]])
          /\ \A k \in ids \ Range(s), i \in 1..size : ~Before(rows[k], rows[s[i]])}

(* The scan's limit, clamped by the handler and again by the repository. *)
ScanLimit(n) ==
    IF n = None THEN DefaultScan ELSE IF n < 1 THEN 1 ELSE IF n > MaxScan THEN MaxScan ELSE n

Override(value, default) == IF value = None THEN default ELSE value
-----------------------------------------------------------------------------
(* The report. *)

(* Mutant: a limit of zero or less is passed on. *)
ClampLimitAsSent(n, cap) == IF n > cap THEN cap ELSE n

(* A limit of zero or less is replaced by the default, whatever the cap.    *)
ClampLimit(n, cap) ==
    IF n <= 0 THEN DefaultAnomalies ELSE IF n > cap THEN cap ELSE n

Positive(value, default) == IF value = None \/ value <= 0 THEN default ELSE value

(* parsePercentiles: every part between commas is blank or a number in      *)
(* 0..100, and one is a number; the smallest MaxPcts of them are taken.     *)
PctsRefused(parts) ==
    \/ \E i \in DOMAIN parts : parts[i] # Blank /\ parts[i] \notin 0..100
    \/ \A i \in DOMAIN parts : parts[i] = Blank

Smallest(S, n) == {p \in S : Cardinality({q \in S : q < p}) < n}

PctsAsked(parts) ==
    IF parts = None THEN DefaultPcts ELSE Smallest(Range(parts) \ {Blank}, MaxPcts)

(* The errors of parseReportFilter.  Limits, caps and thresholds that do    *)
(* not parse count as not sent.                                             *)
FilterRefused(r) ==
    \/ Bad \in {r.from, r.to, r.top}
    \/ r.pcts # None /\ PctsRefused(r.pcts)

(* parseReportFilter, then the defaults of Analyze.  The zero time counts   *)
(* as not sent; a date alone as "to" includes its day.  A window that ends  *)
(* before it begins is ended now; it may still begin later than that.       *)
Filter(r, time) ==
    LET from == IF r.from \in {None, ZeroTime} THEN time - Week ELSE r.from
        upto == Override(r.to, time)
        to == IF r.to # None /\ r.dateOnly THEN upto + Day - 1 ELSE upto
    IN [from |-> from,
        to |-> IF to = ZeroTime \/ from > to THEN time ELSE to,
        db |-> r.db,
        limit |-> ClampLimit(Override(r.limit, DefaultAnomalies), Positive(r.cap, AnomaliesCap)),
        slow |-> Positive(r.slow, SlowMs),
        freqSlow |-> Positive(r.freqSlow, FreqSlowMs),
        freq |-> Positive(r.freq, FreqCount),
        pcts |-> PctsAsked(r.pcts),
        top |-> IF r.top = None THEN DefaultTop
                ELSE IF r.top < 1 THEN 1 ELSE IF r.top > MaxTop THEN MaxTop ELSE r.top]

InWindow(row, f) == f.from <= row.at /\ row.at <= f.to /\ Named(row, f.db)

(* The report's rule: slow, or frequent and slow, thresholds included. *)
Anomalous(row, f) ==
    \/ row.entry.ms >= f.slow
    \/ row.entry.ms >= f.freqSlow /\ row.entry.count >= f.freq

(* Mutant: the scan's strict comparison. *)
ReasonsStrict(row, f) ==
    {r \in {"slow_query", "frequent_and_slow"} :
        \/ r = "slow_query" /\ row.entry.ms > f.slow
        \/ r = "frequent_and_slow" /\ row.entry.ms > f.freqSlow /\ row.entry.count > f.freq}

Reasons(row, f) ==
    {r \in {"slow_query", "frequent_and_slow", "select_star"} :
        \/ r = "slow_query" /\ row.entry.ms >= f.slow
        \/ r = "frequent_and_slow" /\ row.entry.ms >= f.freqSlow /\ row.entry.count >= f.freq
        \/ r = "select_star" /\ row.entry.query \in StarQueries}

Suggestions(row, f) ==
    {s \in {"avoid_select_star", "add_index_on_where_columns", "consider_caching"} :
        \/ s = "avoid_select_star" /\ "select_star" \in Reasons(row, f)
        \/ s = "add_index_on_where_columns"
           /\ Reasons(row, f) \cap {"slow_query", "frequent_and_slow"} # {}
        \/ s = "consider_caching" /\ row.entry.count >= f.freq}

(* percentile_disc(p) of a column over some rows: the first value whose    *)
(* rank reaches p.                                                          *)
Percentile(column, p) ==
    LET upTo(v) == Cardinality({i \in DOMAIN column : column[i] <= v})
        reaches(v) == upTo(v) * 100 >= p * Cardinality(DOMAIN column)
    IN CHOOSE v \in Range(column) :
          reaches(v) /\ \A u \in Range(column) : u < v => ~reaches(u)

Percentiles(rows, ids, pcts) ==
    [p \in pcts |->
        [ms |-> Percentile([i \in ids |-> rows[i].entry.ms], p),
         count |-> Percentile([i \in ids |-> rows[i].entry.count], p)]]

Occurrences(rows, ids, q) == Cardinality({i \in ids : rows[i].entry.query = q})

(* The ways to take the n most frequent patterns. *)
TopPatterns(rows, ids, n) ==
    LET present == {rows[i].entry.query : i \in ids}
        size == IF Cardinality(present) < n THEN Cardinality(present) ELSE n
        count(q) == Occurrences(rows, ids, q)
    IN {[q \in T |-> count(q)] :
          T \in {U \in SUBSET present :
                   /\ Cardinality(U) = size
                   /\ \A q \in U, r \in present \ U : count(r) <= count(q)}}
=============================================================================
