---------------------------- MODULE ReportProofs ----------------------------
(***************************************************************************)
(* What the statements of a report compute over any rows: a percentile is  *)
(* a value of the column that the asked share of the rows reaches; the     *)
(* most frequent patterns exist, and when there is room for all of them    *)
(* they account for every row; the counts by database account for the      *)
(* total.                                                                  *)
(***************************************************************************)
EXTENDS SqlLogProofs

(* Some element of a finite set has the largest value. *)
LEMMA Largest ==
  ASSUME NEW S, IsFiniteSet(S), S # {}, NEW f, \A x \in S : f[x] \in Nat
  PROVE  \E m \in S : \A x \in S : f[x] <= f[m]
<1> DEFINE G == {T \in SUBSET S : T = {} \/ \E m \in T : \A x \in T : f[x] <= f[m]}
<1>1. G \in SUBSET SUBSET S /\ {} \in G
  OBVIOUS
<1>2. ASSUME NEW T \in G, NEW y \in S \ T
      PROVE  T \cup {y} \in G
  <2>1. CASE T = {}
    BY <2>1
  <2>2. CASE T # {}
    <3>1. PICK m \in T : \A x \in T : f[x] <= f[m]
      BY <2>2
    <3>2. T \subseteq S /\ f[m] \in Nat /\ f[y] \in Nat /\ \A x \in T : f[x] \in Nat
      OBVIOUS
    <3>3. CASE f[y] <= f[m]
      BY <3>1, <3>2, <3>3
    <3>4. CASE f[m] <= f[y]
      <4>1. \A x \in T \cup {y} : f[x] <= f[y]
        BY <3>1, <3>2, <3>4
      <4>2. QED
        BY <3>2, <4>1
    <3>5. QED
      BY <3>2, <3>3, <3>4
  <2>3. QED
    BY <2>1, <2>2
<1> HIDE DEF G
<1>3. G = SUBSET S
  BY <1>1, <1>2, SubsetsByInduction
<1>4. S \in G
  BY <1>3
<1>5. QED
  BY <1>4 DEF G
-----------------------------------------------------------------------------
(* Percentiles. *)

UpTo(column, v) == Cardinality({i \in DOMAIN column : column[i] <= v})

LEMMA ShareOf == ASSUME NEW n \in Nat, NEW p \in 0 .. 100 PROVE p * n <= n * 100
  OBVIOUS

(* percentile_disc: a value of the column that p percent of the rows do not *)
(* exceed, and no smaller value of the column is.                           *)
LEMMA PercentileReaches ==
  ASSUME NEW column, IsFiniteSet(DOMAIN column), DOMAIN column # {},
         \A i \in DOMAIN column : column[i] \in Nat,
         NEW p \in 0 .. 100
  PROVE  LET v == Percentile(column, p)
             n == Cardinality(DOMAIN column)
         IN /\ v \in Range(column)
            /\ p * n <= UpTo(column, v) * 100
            /\ \A u \in Range(column) : u < v => UpTo(column, u) * 100 < p * n
<1> DEFINE n == Cardinality(DOMAIN column)
           reaches(v) == UpTo(column, v) * 100 >= p * n
           G == {v \in Range(column) : reaches(v)}
<1>1. n \in Nat /\ p * n \in Nat /\ \A v : UpTo(column, v) \in Nat
  <2>1. n \in Nat
    BY FS_CardinalityType
  <2>2. \A v : UpTo(column, v) \in Nat
    BY FS_Subset, FS_CardinalityType DEF UpTo
  <2>3. QED
    BY <2>1, <2>2
<1>2. Range(column) \subseteq Nat
  BY DEF Range
<1>3. PICK m \in DOMAIN column : \A i \in DOMAIN column : column[i] <= column[m]
  BY Largest
<1>4. column[m] \in G
  <2>1. {i \in DOMAIN column : column[i] <= column[m]} = DOMAIN column
    BY <1>3
  <2>2. UpTo(column, column[m]) = n
    BY <2>1 DEF UpTo
  <2>3. p * n <= n * 100
    BY <1>1, ShareOf
  <2>4. QED
    BY <1>1, <2>2, <2>3 DEF Range
<1>5. PICK v \in G : \A u \in G : v <= u
  <2>1. G \in SUBSET Nat /\ G # {}
    BY <1>2, <1>4
  <2>2. QED
    BY <2>1, SmallestNumber
<1>6. v \in Range(column) /\ reaches(v) /\ \A u \in Range(column) : u < v => ~reaches(u)
  BY <1>2, <1>5
<1>7. Percentile(column, p) =
        CHOOSE w \in Range(column) : reaches(w) /\ \A u \in Range(column) : u < w => ~reaches(u)
  BY DEF Percentile, UpTo
<1>8. /\ Percentile(column, p) \in Range(column) /\ reaches(Percentile(column, p))
      /\ \A u \in Range(column) : u < Percentile(column, p) => ~reaches(u)
  <2> HIDE DEF reaches
  <2>1. QED
    BY <1>6, <1>7
<1>9. QED
  BY <1>1, <1>8

(* The 100th percentile is the largest value. *)
LEMMA HundredthIsLargest ==
  ASSUME NEW column, IsFiniteSet(DOMAIN column), NEW j \in DOMAIN column,
         \A i \in DOMAIN column : column[i] \in Nat
  PROVE  column[j] <= Percentile(column, 100)
<1> DEFINE v == Percentile(column, 100)
           below == {i \in DOMAIN column : column[i] <= v}
<1>1. 100 * Cardinality(DOMAIN column) <= UpTo(column, v) * 100
  BY PercentileReaches
<1>2. /\ Cardinality(below) = UpTo(column, v) /\ Cardinality(below) \in Nat
      /\ Cardinality(DOMAIN column) \in Nat
      /\ Cardinality(below) <= Cardinality(DOMAIN column)
      /\ Cardinality(below) = Cardinality(DOMAIN column) => below = DOMAIN column
  BY FS_Subset, FS_CardinalityType DEF UpTo
<1>3. below = DOMAIN column
  BY <1>1, <1>2
<1>4. QED
  BY <1>3
-----------------------------------------------------------------------------
(* Rows by database and by pattern. *)

LEMMA FiniteIds ==
  ASSUME NEW table \in Seq(Row), NEW S \in SUBSET DOMAIN table
  PROVE  IsFiniteSet(S) /\ Cardinality(S) \in Nat
<1>1. Len(table) \in Nat /\ DOMAIN table = 1 .. Len(table)
  BY LenProperties
<1>2. IsFiniteSet(DOMAIN table)
  BY <1>1, FS_Interval
<1>3. IsFiniteSet(S)
  BY <1>2, FS_Subset
<1>4. QED
  BY <1>3, FS_CardinalityType

LEMMA RowFields ==
  ASSUME NEW table \in Seq(Row), NEW i \in DOMAIN table
  PROVE  /\ table[i] \in Row /\ table[i].at \in Nat
         /\ table[i].entry.db \in DBs /\ table[i].entry.query \in Queries
         /\ table[i].entry.ms \in Nat /\ table[i].entry.count \in Nat
<1>1. table[i] \in Row
  BY LenProperties, ElementOfSeq
<1>2. QED
  BY <1>1 DEF Row, Entry

(* The rows of a window are those of the databases together. *)
LEMMA WindowByDB ==
  ASSUME log \in Seq(Row), NEW f
  PROVE  Cardinality(Windowed(f)) <= SumFunction([d \in DBs |-> Cardinality(WindowedOf(f, d))])
<1> DEFINE part == [d \in DBs |-> WindowedOf(f, d)]
           size == [d \in DBs |-> Cardinality(WindowedOf(f, d))]
<1>1. \A d \in DBs : WindowedOf(f, d) \subseteq DOMAIN log
  BY DEF WindowedOf, IdsWhere
<1>2. \A d \in DBs : IsFiniteSet(part[d]) /\ size[d] = Cardinality(part[d])
  BY <1>1, FiniteIds
<1>3. Windowed(f) = UNION {part[d] : d \in DBs}
  BY RowFields DEF Windowed, WindowedOf, IdsWhere
<1>4. SumFunction(size) = SumFunctionOnSet(size, DBs)
  BY DEF SumFunction
<1> HIDE DEF part, size
<1>5. Cardinality(UNION {part[d] : d \in DBs}) <= SumFunctionOnSet(size, DBs)
  BY <1>2, UnionWithinSum, StoreAssumption
<1>6. QED
  BY <1>3, <1>4, <1>5 DEF size

PatternsOf(table, ids) == {table[i].entry.query : i \in ids}

LEMMA FinitePatterns ==
  ASSUME NEW table \in Seq(Row), NEW ids \in SUBSET DOMAIN table
  PROVE  /\ IsFiniteSet(PatternsOf(table, ids))
         /\ \A q : IsFiniteSet({i \in ids : table[i].entry.query = q})
         /\ \A q : Occurrences(table, ids, q) \in Nat
<1> DEFINE part == [i \in ids |-> {table[i].entry.query}]
           size == [i \in ids |-> Cardinality(part[i])]
<1>1. IsFiniteSet(ids)
  BY FiniteIds
<1>2. \A i \in ids : IsFiniteSet(part[i]) /\ size[i] = Cardinality(part[i])
  BY FS_Singleton
<1>3. PatternsOf(table, ids) = UNION {part[i] : i \in ids}
  BY DEF PatternsOf
<1> HIDE DEF part, size
<1>4. /\ IsFiniteSet(UNION {part[i] : i \in ids})
      /\ Cardinality(UNION {part[i] : i \in ids}) <= SumFunctionOnSet(size, ids)
  BY <1>1, <1>2, UnionWithinSum
<1>5. \A q : {i \in ids : table[i].entry.query = q} \in SUBSET DOMAIN table
  OBVIOUS
<1>6. QED
  BY <1>3, <1>4, <1>5, FiniteIds DEF Occurrences

MostFrequent(table, ids, U) ==
    \A q \in U, r \in PatternsOf(table, ids) \ U : Occurrences(table, ids, r) <= Occurrences(table, ids, q)

(* However many patterns are asked for, some are the most frequent. *)
LEMMA MostFrequentExist ==
  ASSUME NEW table \in Seq(Row), NEW ids \in SUBSET DOMAIN table,
         NEW size \in Nat, size <= Cardinality(PatternsOf(table, ids))
  PROVE  \E U \in SUBSET PatternsOf(table, ids) :
            Cardinality(U) = size /\ MostFrequent(table, ids, U)
<1> DEFINE present == PatternsOf(table, ids)
           taken(k) == \E U \in SUBSET present : Cardinality(U) = k /\ MostFrequent(table, ids, U)
           G == {k \in Nat : k <= Cardinality(present) => taken(k)}
<1>1. IsFiniteSet(present) /\ Cardinality(present) \in Nat
  BY FinitePatterns, FS_CardinalityType
<1>2. 0 \in G
  <2>1. {} \in SUBSET present /\ Cardinality({}) = 0 /\ MostFrequent(table, ids, {})
    BY FS_EmptySet DEF MostFrequent
  <2>2. QED
    BY <2>1
<1>3. ASSUME NEW k \in G, k + 1 <= Cardinality(present)
      PROVE  taken(k + 1)
  <2>1. PICK U \in SUBSET present : Cardinality(U) = k /\ MostFrequent(table, ids, U)
    BY <1>1, <1>3
  <2>2. IsFiniteSet(U) /\ IsFiniteSet(present \ U)
    BY <1>1, FS_Subset
  <2>3. present \ U # {}
    <3>1. U # present
      BY <1>1, <1>3, <2>1
    <3>2. QED
      BY <3>1
  <2>4. PICK r \in present \ U : \A s \in present \ U :
           Occurrences(table, ids, s) <= Occurrences(table, ids, r)
    <3> DEFINE count == [s \in present \ U |-> Occurrences(table, ids, s)]
    <3>1. \A s \in present \ U : count[s] \in Nat
      BY FinitePatterns
    <3>2. \E r \in present \ U : \A s \in present \ U : count[s] <= count[r]
      <4> HIDE DEF count
      <4>1. QED
        BY <2>2, <2>3, <3>1, Largest
    <3>3. QED
      BY <3>2
  <2>5. Cardinality(U \cup {r}) = k + 1
    BY <2>1, <2>2, FS_AddElement
  <2>6. MostFrequent(table, ids, U \cup {r})
    BY <2>1, <2>4 DEF MostFrequent
  <2>7. QED
    BY <2>5, <2>6
<1> HIDE DEF taken
<1>4. ASSUME NEW k \in G
      PROVE  k + 1 \in G
  BY <1>3
<1>5. G \in SUBSET Nat
  OBVIOUS
<1> HIDE DEF G
<1>6. G = Nat
  BY <1>2, <1>4, <1>5, NumbersByInduction
<1>7. size \in G
  BY <1>6
<1>8. QED
  BY <1>7 DEF G, taken

(* TopPatterns, with its local names written out. *)
LEMMA TopPatternsUnfold ==
  ASSUME NEW table, NEW ids, NEW n, NEW size,
         size = IF Cardinality(PatternsOf(table, ids)) < n THEN Cardinality(PatternsOf(table, ids)) ELSE n
  PROVE  TopPatterns(table, ids, n) =
           {[q \in T |-> Occurrences(table, ids, q)] :
              T \in {U \in SUBSET PatternsOf(table, ids) :
                       Cardinality(U) = size /\ MostFrequent(table, ids, U)}}
BY DEF TopPatterns, PatternsOf, MostFrequent

(* The statement always has an answer. *)
LEMMA TopPatternsExist ==
  ASSUME NEW table \in Seq(Row), NEW ids \in SUBSET DOMAIN table, NEW n \in Nat
  PROVE  TopPatterns(table, ids, n) # {}
<1> DEFINE all == Cardinality(PatternsOf(table, ids))
           size == IF all < n THEN all ELSE n
<1>1. all \in Nat /\ size \in Nat /\ size <= all
  <2>1. all \in Nat
    BY FinitePatterns, FS_CardinalityType
  <2>2. QED
    BY <2>1
<1>2. PICK U \in SUBSET PatternsOf(table, ids) : Cardinality(U) = size /\ MostFrequent(table, ids, U)
  BY <1>1, MostFrequentExist
<1>3. [q \in U |-> Occurrences(table, ids, q)] \in TopPatterns(table, ids, n)
  BY <1>2, TopPatternsUnfold
<1>4. QED
  BY <1>3

(* Over some rows there is a pattern, and when fewer are given than were    *)
(* asked for, they account for every row.                                   *)
LEMMA TopPatternsAccount ==
  ASSUME NEW table \in Seq(Row), NEW ids \in SUBSET DOMAIN table, NEW n \in Nat \ {0},
         NEW top \in TopPatterns(table, ids, n)
  PROVE  /\ ids # {} => top # <<>>
         /\ SumFunction(top) \in Nat
         /\ Cardinality(DOMAIN top) < n => Cardinality(ids) <= SumFunction(top)
<1> DEFINE present == PatternsOf(table, ids)
           all == Cardinality(present)
           size == IF all < n THEN all ELSE n
<1>1. IsFiniteSet(present) /\ all \in Nat
  BY FinitePatterns, FS_CardinalityType
<1>2. PICK T \in SUBSET present :
         Cardinality(T) = size /\ top = [q \in T |-> Occurrences(table, ids, q)]
  BY TopPatternsUnfold
<1>3. DOMAIN top = T
  BY <1>2
<1>4. ids # {} => top # <<>>
  <2>1. SUFFICES ASSUME ids # {}, top = <<>> PROVE FALSE
    OBVIOUS
  <2>2. present # {}
    BY <2>1 DEF PatternsOf
  <2>3. all # 0
    BY <1>1, <2>2, FS_EmptySet
  <2>4. T = {}
    BY <1>3, <2>1
  <2>5. Cardinality(T) = 0
    BY <2>4, FS_EmptySet
  <2>6. QED
    BY <1>1, <1>2, <2>3, <2>5
<1>5. ASSUME Cardinality(DOMAIN top) < n
      PROVE  Cardinality(ids) <= SumFunction(top)
  <2>1. Cardinality(T) = all
    BY <1>1, <1>2, <1>3, <1>5
  <2>2. T = present
    BY <1>1, <2>1, FS_Subset
  <2> DEFINE part == [q \in T |-> {i \in ids : table[i].entry.query = q}]
  <2>3. \A q \in T : IsFiniteSet(part[q]) /\ top[q] = Cardinality(part[q])
    BY <1>2, FinitePatterns DEF Occurrences
  <2>4. ids = UNION {part[q] : q \in T}
    <3>1. \A i \in ids : table[i].entry.query \in T /\ i \in part[table[i].entry.query]
      BY <2>2 DEF PatternsOf
    <3>2. \A q \in T : part[q] \subseteq ids
      OBVIOUS
    <3> HIDE DEF part
    <3>3. QED
      BY <3>1, <3>2
  <2>5. IsFiniteSet(T)
    BY <1>1, <2>2
  <2> HIDE DEF part
  <2>6. Cardinality(UNION {part[q] : q \in T}) <= SumFunctionOnSet(top, T)
    BY <2>3, <2>5, UnionWithinSum
  <2>7. QED
    BY <1>3, <2>4, <2>6 DEF SumFunction
<1>6. SumFunction(top) \in Nat
  <2>1. IsFiniteSet(T) /\ \A q \in T : top[q] \in Nat
    BY <1>1, <1>2, FinitePatterns, FS_Subset
  <2>2. QED
    BY <1>3, <2>1, SumOfNaturals DEF SumFunction
<1>7. QED
  BY <1>4, <1>5, <1>6

(* Over some rows there are percentiles, and the 100th is no less than any  *)
(* row's time.                                                              *)
LEMMA SpreadAccounts ==
  ASSUME log \in Seq(Row), NEW ids \in SUBSET DOMAIN log, ids # {},
         NEW f, f.pcts \in (SUBSET (0..100)) \ {{}}
  PROVE  /\ Spread(ids, f) # <<>>
         /\ 100 \in f.pcts => \A i \in ids : log[i].entry.ms <= Spread(ids, f)[100].ms
<1>1. Spread(ids, f) = Percentiles(log, ids, f.pcts)
  BY DEF Spread
<1>2. DOMAIN Spread(ids, f) = f.pcts /\ f.pcts # {}
  BY <1>1 DEF Percentiles
<1>3. Spread(ids, f) # <<>>
  BY <1>2
<1>4. ASSUME 100 \in f.pcts, NEW j \in ids
      PROVE  log[j].entry.ms <= Spread(ids, f)[100].ms
  <2> DEFINE column == [i \in ids |-> log[i].entry.ms]
  <2>1. Spread(ids, f)[100].ms = Percentile(column, 100)
    BY <1>1, <1>4 DEF Percentiles
  <2>2. IsFiniteSet(DOMAIN column) /\ j \in DOMAIN column /\ column[j] = log[j].entry.ms
    BY FiniteIds
  <2>3. \A i \in DOMAIN column : column[i] \in Nat
    BY RowFields
  <2> HIDE DEF column
  <2>4. column[j] <= Percentile(column, 100)
    BY <2>2, <2>3, HundredthIsLargest
  <2>5. QED
    BY <2>1, <2>2, <2>4
<1>5. QED
  BY <1>3, <1>4
-----------------------------------------------------------------------------
(* What a report, with filter f, has so far in each part of its answer, in  *)
(* terms of the table as it is now.                                         *)

CountedLabels == {"pctAll", "pctByDB", "topAll", "topByDB", "csv", "pdf"}
ReportLabels == {"total", "byDBCount", "anomalyList", "anomalyCount"} \cup CountedLabels

(* Where a report is when the statement at label has been made. *)
After(label) ==
    CASE label = "byDBCount"   -> {"anomalyList", "anomalyCount"} \cup CountedLabels
      [] label = "anomalyList" -> {"anomalyCount"} \cup CountedLabels
      [] label = "pctAll"      -> {"pctByDB", "topAll", "topByDB", "csv", "pdf"}
      [] label = "pctByDB"     -> {"topAll", "topByDB", "csv", "pdf"}
      [] label = "topAll"      -> {"topByDB", "csv", "pdf"}
      [] label = "topByDB"     -> {"csv", "pdf"}

(* The databases it met: those with rows counted, or with one listed. *)
Met(byDB, items) ==
    {d \in DBs : byDB[d] > 0 \/ \E i \in DOMAIN items : log[items[i]].entry.db = d}

ListedInWindow(f, items) ==
    \A i \in DOMAIN items : items[i] \in DOMAIN log /\ InWindow(log[items[i]], f)

TotalWithin(f, total) == total \in Nat /\ total <= Cardinality(Windowed(f))

CountsWithin(f, byDB) ==
    \A d \in DBs : byDB[d] \in Nat /\ byDB[d] <= Cardinality(WindowedOf(f, d))

SpreadCovers(f, byDB, items, pctAll) ==
    /\ Met(byDB, items) # {} => pctAll # <<>>
    /\ 100 \in f.pcts => \A i \in DOMAIN items : log[items[i]].entry.ms <= pctAll[100].ms

SpreadsCover(f, byDB, items, pcts) ==
    /\ \A d \in Met(byDB, items) : pcts[d] # <<>>
    /\ 100 \in f.pcts => \A i \in DOMAIN items :
                            log[items[i]].entry.ms <= pcts[log[items[i]].entry.db][100].ms

PatternsCover(byDB, items, topAll) == Met(byDB, items) # {} => topAll # <<>>

PatternsByDBCover(f, byDB, items, tops) ==
    /\ \A d \in Met(byDB, items) : tops[d] # <<>>
    /\ \A d \in DBs : Cardinality(DOMAIN tops[d]) < f.top => byDB[d] <= SumFunction(tops[d])

PartsOK(label, op, f, a, code) ==
    LET made(statement) == code = 200 \/ label \in After(statement)
    IN /\ ListedInWindow(f, a.items)
       /\ label = "byDBCount" => TotalWithin(f, a.total)
       /\ made("byDBCount") => CountsWithin(f, a.byDB) /\ a.total <= SumFunction(a.byDB)
       /\ made("anomalyList") => Len(a.items) <= f.limit
       /\ made("pctAll") => SpreadCovers(f, a.byDB, a.items, a.pctAll)
       /\ made("pctByDB") => SpreadsCover(f, a.byDB, a.items, a.pcts)
       /\ made("topAll") => PatternsCover(a.byDB, a.items, a.topAll)
       /\ made("topByDB") => PatternsByDBCover(f, a.byDB, a.items, a.tops)
       /\ code = 200 /\ op # "report" => a.parts = Parts(a)
-----------------------------------------------------------------------------
(* What each statement adds to that. *)

LEMMA WindowIds ==
  ASSUME NEW f
  PROVE  /\ Windowed(f) \in SUBSET DOMAIN log
         /\ \A d : WindowedOf(f, d) \in SUBSET DOMAIN log
BY DEF Windowed, WindowedOf, IdsWhere

(* What was met is in the window. *)
LEMMA MetInWindow ==
  ASSUME log \in Seq(Row), NEW f, NEW byDB, NEW items,
         CountsWithin(f, byDB), ListedInWindow(f, items)
  PROVE  /\ \A d \in Met(byDB, items) : WindowedOf(f, d) # {}
         /\ Met(byDB, items) # {} => Windowed(f) # {}
         /\ \A i \in DOMAIN items : /\ items[i] \in Windowed(f)
                                    /\ log[items[i]].entry.db \in DBs
                                    /\ items[i] \in WindowedOf(f, log[items[i]].entry.db)
<1>1. \A i \in DOMAIN items : /\ items[i] \in Windowed(f)
                              /\ log[items[i]].entry.db \in DBs
                              /\ items[i] \in WindowedOf(f, log[items[i]].entry.db)
  BY RowFields DEF ListedInWindow, Windowed, WindowedOf, IdsWhere
<1>2. ASSUME NEW d \in Met(byDB, items)
      PROVE  WindowedOf(f, d) # {}
  <2>1. CASE byDB[d] > 0
    <3>1. Cardinality(WindowedOf(f, d)) # 0
      <4>1. /\ byDB[d] \in Nat /\ byDB[d] <= Cardinality(WindowedOf(f, d))
            /\ Cardinality(WindowedOf(f, d)) \in Nat
        BY WindowIds, FiniteIds DEF CountsWithin, Met
      <4>2. QED
        BY <2>1, <4>1
    <3>2. QED
      BY <3>1, FS_EmptySet
  <2>2. CASE \E i \in DOMAIN items : log[items[i]].entry.db = d
    BY <1>1, <2>2
  <2>3. QED
    BY <2>1, <2>2 DEF Met
<1>3. \A d : WindowedOf(f, d) \subseteq Windowed(f)
  BY DEF Windowed, WindowedOf, IdsWhere
<1>4. QED
  BY <1>1, <1>2, <1>3

LEMMA CountsMade ==
  ASSUME log \in Seq(Row), NEW f, NEW total, TotalWithin(f, total), NEW byDB,
         byDB = [d \in DBs |-> Cardinality(WindowedOf(f, d))]
  PROVE  CountsWithin(f, byDB) /\ total <= SumFunction(byDB)
<1>1. \A d \in DBs : byDB[d] \in Nat /\ byDB[d] = Cardinality(WindowedOf(f, d))
  BY WindowIds, FiniteIds
<1>2. Cardinality(Windowed(f)) \in Nat
  BY WindowIds, FiniteIds
<1>3. SumFunction(byDB) \in Nat
  <2>1. SumFunction(byDB) = SumFunctionOnSet(byDB, DBs)
    BY DEF SumFunction
  <2>2. QED
    BY <1>1, <2>1, SumOfNaturals, StoreAssumption
<1>4. Cardinality(Windowed(f)) <= SumFunction(byDB)
  BY WindowByDB
<1>5. QED
  BY <1>1, <1>2, <1>3, <1>4 DEF CountsWithin, TotalWithin

LEMMA SpreadMade ==
  ASSUME log \in Seq(Row), NEW f \in FilterRec, NEW byDB, NEW items,
         CountsWithin(f, byDB), ListedInWindow(f, items)
  PROVE  SpreadCovers(f, byDB, items, Spread(Windowed(f), f))
<1>1. f.pcts \in (SUBSET (0..100)) \ {{}}
  BY DEF FilterRec
<1>2. Windowed(f) # {} =>
        /\ Spread(Windowed(f), f) # <<>>
        /\ 100 \in f.pcts => \A i \in Windowed(f) : log[i].entry.ms <= Spread(Windowed(f), f)[100].ms
  BY <1>1, WindowIds, SpreadAccounts
<1>3. QED
  BY <1>2, MetInWindow DEF SpreadCovers

LEMMA SpreadsMade ==
  ASSUME log \in Seq(Row), NEW f \in FilterRec, NEW byDB, NEW items,
         CountsWithin(f, byDB), ListedInWindow(f, items),
         NEW pcts, pcts = [d \in DBs |-> Spread(WindowedOf(f, d), f)]
  PROVE  SpreadsCover(f, byDB, items, pcts)
<1>1. f.pcts \in (SUBSET (0..100)) \ {{}}
  BY DEF FilterRec
<1>2. ASSUME NEW d \in DBs, WindowedOf(f, d) # {}
      PROVE  /\ pcts[d] # <<>>
             /\ 100 \in f.pcts => \A i \in WindowedOf(f, d) : log[i].entry.ms <= pcts[d][100].ms
  BY <1>1, <1>2, WindowIds, SpreadAccounts
<1>3. \A d \in Met(byDB, items) : pcts[d] # <<>>
  BY <1>2, MetInWindow DEF Met
<1>4. ASSUME 100 \in f.pcts, NEW i \in DOMAIN items
      PROVE  log[items[i]].entry.ms <= pcts[log[items[i]].entry.db][100].ms
  <2>1. /\ log[items[i]].entry.db \in DBs
        /\ items[i] \in WindowedOf(f, log[items[i]].entry.db)
    BY <1>4, MetInWindow
  <2>2. QED
    BY <1>2, <1>4, <2>1
<1>5. QED
  BY <1>3, <1>4 DEF SpreadsCover

LEMMA FilterTop == ASSUME NEW f \in FilterRec PROVE f.top \in Nat \ {0}
<1>1. MaxTop \in Nat
  BY StoreAssumption
<1>2. f.top \in 1 .. MaxTop
  BY DEF FilterRec
<1>3. QED
  BY <1>1, <1>2

LEMMA PatternsMade ==
  ASSUME log \in Seq(Row), NEW f \in FilterRec, NEW byDB, NEW items,
         CountsWithin(f, byDB), ListedInWindow(f, items),
         NEW top \in TopPatterns(log, Windowed(f), f.top)
  PROVE  PatternsCover(byDB, items, top)
<1>1. f.top \in Nat \ {0}
  BY FilterTop
<1>2. Windowed(f) # {} => top # <<>>
  BY <1>1, WindowIds, TopPatternsAccount
<1>3. QED
  BY <1>2, MetInWindow DEF PatternsCover

LEMMA PatternsByDBMade ==
  ASSUME log \in Seq(Row), NEW f \in FilterRec, NEW byDB, NEW items,
         CountsWithin(f, byDB), ListedInWindow(f, items),
         NEW tops, tops = [d \in DBs |-> CHOOSE top \in TopPatterns(log, WindowedOf(f, d), f.top) : TRUE]
  PROVE  PatternsByDBCover(f, byDB, items, tops)
<1>1. f.top \in Nat \ {0}
  BY FilterTop
<1>2. ASSUME NEW d \in DBs
      PROVE  /\ WindowedOf(f, d) # {} => tops[d] # <<>>
             /\ SumFunction(tops[d]) \in Nat
             /\ Cardinality(DOMAIN tops[d]) < f.top => Cardinality(WindowedOf(f, d)) <= SumFunction(tops[d])
  <2>1. PICK T : T = TopPatterns(log, WindowedOf(f, d), f.top)
    OBVIOUS
  <2>2. T # {}
    BY <1>1, <2>1, WindowIds, TopPatternsExist
  <2>3. tops[d] \in T
    BY <2>1, <2>2
  <2>4. QED
    BY <1>1, <2>1, <2>3, WindowIds, TopPatternsAccount
<1>3. \A d \in Met(byDB, items) : tops[d] # <<>>
  BY <1>2, MetInWindow DEF Met
<1>4. ASSUME NEW d \in DBs, Cardinality(DOMAIN tops[d]) < f.top
      PROVE  byDB[d] <= SumFunction(tops[d])
  <2>1. /\ byDB[d] \in Nat /\ byDB[d] <= Cardinality(WindowedOf(f, d))
        /\ Cardinality(WindowedOf(f, d)) \in Nat
    BY WindowIds, FiniteIds DEF CountsWithin
  <2>2. /\ SumFunction(tops[d]) \in Nat
        /\ Cardinality(WindowedOf(f, d)) <= SumFunction(tops[d])
    BY <1>2, <1>4
  <2>3. QED
    BY <2>1, <2>2
<1>5. QED
  BY <1>3, <1>4 DEF PatternsByDBCover
=============================================================================
