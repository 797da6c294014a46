----------------------------- MODULE SqlLogProofs -----------------------------
(***************************************************************************)
(* The inductive invariant of SqlLogService, what follows from it, and the *)
(* refinement of BatchLog, for any number of workers, any files, requests  *)
(* and batch size and any faults.                                          *)
(***************************************************************************)
EXTENDS SqlLogService, SumProofs, SequenceTheorems

ReadLabels == {"scanCount", "scanList", "databases", "byDB", "aiFind", "aiCall", "total",
               "byDBCount", "anomalyList", "anomalyCount", "pctAll", "pctByDB", "topAll", "topByDB",
               "csv", "pdf"}

Fields == {"total", "inserted", "skipped", "items", "names", "byDB", "anomalies", "suggestions",
           "pctAll", "pcts", "topAll", "tops", "parts", "analyses"}

Files == {f.records : f \in StorableFiles}

(* A name may be offered: ListByDB takes it and the table has it. *)
Offerable(d) == d \in SafeDBs /\ \E row \in Range(log) : row.entry.db = d

(* What EXCEPT needs to know of the functions that TypeOK leaves open. *)
ShapesOK ==
    /\ DOMAIN req = Workers /\ DOMAIN filter = Workers /\ DOMAIN ans = Workers
    /\ \A w \in Workers : DOMAIN ans[w] = Fields

MainOK == pc[Main] \in {"load", "insert", "commit", "serving"} /\ ~gone[Main]

(* Between parsing and commit: nothing is stored, what is staged is a       *)
(* beginning of the batch, and the batch is the whole of a file that parsed *)
(* unless the client hung up.                                               *)
IngestOK(p) ==
    /\ pc[p] \in {"idle", "load", "auth", "parse"} => staged[p] = <<>> /\ stored[p] = 0
    /\ pc[p] \in {"insert", "commit"} =>
         /\ stored[p] = 0
         /\ Len(staged[p]) <= Len(batch[p])
         /\ \A i \in 1 .. Len(staged[p]) : staged[p][i].entry = batch[p][i]
         /\ ~gone[p] => batch[p] = Input(p).records /\ ~Input(p).long
    /\ pc[p] = "commit" => Len(staged[p]) = Len(batch[p])

(* UploadAccounted for one worker. *)
Accounted(w) ==
    LET file == req[w].file IN
    /\ status[w] = 200 =>
         /\ ans[w].inserted = stored[w]
         /\ ans[w].total = ans[w].inserted + ans[w].skipped
         /\ ~gone[w] => stored[w] = Len(file.records) /\ ans[w].total = LinesOf(file)
    /\ status[w] \in {400, 401, 403} => stored[w] = 0
    /\ status[w] = 500 => stored[w] \in {0, Len(file.records)}

(* A worker's place says what it serves and what its answer counts so far. *)
WorkerOK(w) ==
    /\ pc[w] \notin {"load", "serving"}
    /\ pc[w] = "idle" => req[w] = NoRequest /\ status[w] = 0 /\ ans[w] = NoAnswer
    /\ pc[w] = "auth" => req[w] \in Requests[w]
    /\ pc[w] \in {"parse", "insert", "commit"} =>
         req[w] \in Requests[w] /\ req[w].op = "upload" /\ req[w].wellFormed
    /\ pc[w] \in ReadLabels => req[w].op # "upload"
    /\ pc[w] \in {"auth", "parse"} => ans[w] = NoAnswer
    /\ pc[w] \in {"insert", "commit"} =>
         /\ ans[w].total = Len(batch[w]) + ans[w].skipped
         /\ ans[w].skipped \in Nat
         /\ ~gone[w] => ans[w].skipped = req[w].file.bad
    /\ pc[w] # "done" => status[w] = 0
    /\ req[w].op = "upload" => Accounted(w)
    /\ \A d \in ans[w].names : Offerable(d)

IInv ==
    /\ TypeOK
    /\ ShapesOK
    /\ MainOK
    /\ \A p \in Procs : IngestOK(p)
    /\ \A w \in Workers : WorkerOK(w)
-----------------------------------------------------------------------------
(* Requests and files. *)

LEMMA RequestKinds ==
  ASSUME NEW w \in Workers, NEW r \in Requests[w]
  PROVE  /\ r \in UploadReq \cup ScanReq \cup QueryReq \cup ReportReq \cup AIReq
         /\ r.op \in {"upload", "scan", "databases", "byDB", "ai"} \cup ReportOps
         /\ r.op = "upload" => r \in UploadReq
         /\ r.op \in ReportOps => r \in ReportReq
<1>1. r \in UploadReq \cup ScanReq \cup QueryReq \cup ReportReq \cup AIReq
  BY ServiceAssumption
<1>2. QED
  BY <1>1 DEF UploadReq, ScanReq, QueryReq, ReportReq, AIReq, ReportOps

LEMMA InputIsFile ==
  ASSUME NEW p \in Procs,
         p \in Workers => req[p] \in Requests[p] /\ req[p].op = "upload"
  PROVE  /\ Input(p) \in File
         /\ Input(p).records \in Seq(Entry)
         /\ Input(p).bad \in Nat
         /\ Input(p).long \in BOOLEAN
<1>1. Input(p) \in File
  <2>1. CASE p = Main
    BY <2>1, ServiceAssumption DEF Input
  <2>2. CASE p \in Workers
    BY <2>2, RequestKinds, ServiceAssumption DEF Input, UploadReq
  <2>3. QED
    BY <2>1, <2>2 DEF Procs
<1>2. QED
  BY <1>1 DEF File

(* A worker's file, once it is being stored, is one of those the log may    *)
(* grow by.                                                                 *)
LEMMA StorableInput ==
  ASSUME NEW p \in Procs,
         p \in Workers => req[p] \in Requests[p] /\ req[p].op = "upload" /\ req[p].wellFormed,
         ~Input(p).long
  PROVE  Input(p).records \in Files
<1>1. Input(p) \in StorableFiles
  <2>1. CASE p = Main
    BY <2>1 DEF Input, StorableFiles
  <2>2. CASE p \in Workers
    <3>1. req[p] \in Uploads
      BY <2>2 DEF Uploads
    <3>2. QED
      BY <3>1, <2>2, ServiceAssumption DEF Input, StorableFiles
  <2>3. QED
    BY <2>1, <2>2 DEF Procs
<1>2. QED
  BY <1>1 DEF Files

(* Of some numbers, the smallest are some. *)
LEMMA SmallestSome ==
  ASSUME NEW S \in SUBSET Nat, S # {}, NEW n \in Nat \ {0}
  PROVE  Smallest(S, n) # {}
<1>1. PICK p \in S : \A q \in S : p <= q
  BY SmallestNumber
<1>2. {q \in S : q < p} = {}
  <2>1. \A q \in S : ~(q < p)
    BY <1>1
  <2>2. QED
    BY <2>1
<1>3. Cardinality({q \in S : q < p}) = 0
  BY <1>2, FS_EmptySet
<1>4. p \in Smallest(S, n)
  BY <1>3 DEF Smallest
<1>5. QED
  BY <1>4

(* The percentiles asked for are at least one, all of them in 0..100. *)
LEMMA PctsType ==
  ASSUME NEW parts, parts # None => ~PctsRefused(parts)
  PROVE  PctsAsked(parts) \in (SUBSET (0..100)) \ {{}}
<1>1. /\ DefaultPcts \in (SUBSET (0..100)) \ {{}}
      /\ MaxPcts \in Nat \ {0}
  BY StoreAssumption
<1>2. CASE parts = None
  BY <1>1, <1>2 DEF PctsAsked
<1>3. CASE parts # None
  <2> DEFINE S == Range(parts) \ {Blank}
  <2>1. S \subseteq 0..100 /\ S # {}
    BY <1>3 DEF PctsRefused, Range
  <2>2. S \in SUBSET Nat
    BY <2>1
  <2>3. PctsAsked(parts) = Smallest(S, MaxPcts)
    BY <1>3 DEF PctsAsked
  <2> HIDE DEF S
  <2>4. Smallest(S, MaxPcts) # {}
    BY <1>1, <2>1, <2>2, SmallestSome
  <2>5. Smallest(S, MaxPcts) \subseteq S
    BY DEF Smallest
  <2>6. QED
    BY <2>1, <2>3, <2>4, <2>5
<1>4. QED
  BY <1>2, <1>3

LEMMA FilterType ==
  ASSUME NEW r \in ReportReq, ~FilterRefused(r), NEW time \in Nat
  PROVE  Filter(r, time) \in FilterRec
<1>1. /\ r.db \in DBs \cup {None}
      /\ r.from \in Int \cup {None} /\ r.to \in Int \cup {None}
      /\ r.limit \in Int \cup {None} /\ r.cap \in Int \cup {None}
      /\ r.slow \in Int \cup {None} /\ r.freqSlow \in Int \cup {None}
      /\ r.freq \in Int \cup {None} /\ r.top \in Int \cup {None}
  BY DEF ReportReq, FilterRefused
<1>2. /\ Week \in Nat /\ MaxTop \in Nat \ {0} /\ DefaultTop \in 1 .. MaxTop
      /\ AnomaliesCap \in Nat \ {0} /\ DefaultAnomalies \in Nat \ {0}
      /\ SlowMs \in Nat \ {0} /\ FreqSlowMs \in Nat \ {0} /\ FreqCount \in Nat \ {0}
      /\ Day \in Nat
  <2>1. /\ Week \in Nat /\ MaxTop \in Nat \ {0} /\ DefaultTop \in Nat \ {0} /\ DefaultTop <= MaxTop
    BY StoreAssumption
  <2>2. AnomaliesCap \in Nat \ {0} /\ DefaultAnomalies \in Nat \ {0} /\ Day \in Nat
    BY StoreAssumption
  <2>3. SlowMs \in Nat \ {0} /\ FreqSlowMs \in Nat \ {0} /\ FreqCount \in Nat \ {0}
    BY StoreAssumption
  <2>4. QED
    BY <2>1, <2>2, <2>3
<1>3. ASSUME NEW v \in Int \cup {None}, NEW default \in Int
      PROVE  Override(v, default) \in Int
  BY DEF Override
<1>4. ASSUME NEW v \in Int \cup {None}, NEW default \in Nat \ {0}
      PROVE  Positive(v, default) \in Nat \ {0}
  BY DEF Positive
<1>5. Filter(r, time).from \in Int /\ Filter(r, time).to \in Int
  <2>1. (IF r.from \in {None, ZeroTime} THEN time - Week ELSE r.from) \in Int
    BY <1>1, <1>2
  <2>2. Override(r.to, time) \in Int
    <3>1. time \in Int
      OBVIOUS
    <3>2. QED
      BY <1>1, <1>3, <3>1
  <2>3. (IF r.to # None /\ r.dateOnly THEN Override(r.to, time) + Day - 1
         ELSE Override(r.to, time)) \in Int
    BY <1>2, <2>2
  <2>4. time \in Int
    OBVIOUS
  <2>5. QED
    BY <2>1, <2>2, <2>3, <2>4 DEF Filter
<1>6. ClampLimit(Override(r.limit, DefaultAnomalies), Positive(r.cap, AnomaliesCap)) \in Nat \ {0}
  <2>1. Override(r.limit, DefaultAnomalies) \in Int
    <3>1. DefaultAnomalies \in Int
      BY <1>2
    <3>2. QED
      BY <1>1, <1>3, <3>1
  <2>2. Positive(r.cap, AnomaliesCap) \in Nat \ {0}
    BY <1>1, <1>2, <1>4
  <2>3. QED
    BY <2>1, <2>2, <1>2 DEF ClampLimit
<1>7. /\ Positive(r.slow, SlowMs) \in Nat \ {0}
      /\ Positive(r.freqSlow, FreqSlowMs) \in Nat \ {0}
      /\ Positive(r.freq, FreqCount) \in Nat \ {0}
  BY <1>1, <1>2, <1>4
<1>8. (IF r.top = None THEN DefaultTop
       ELSE IF r.top < 1 THEN 1 ELSE IF r.top > MaxTop THEN MaxTop ELSE r.top) \in 1 .. MaxTop
  BY <1>1, <1>2
<1>9. PctsAsked(r.pcts) \in (SUBSET (0..100)) \ {{}}
  BY PctsType DEF FilterRefused
<1>10. QED
  BY <1>1, <1>5, <1>6, <1>7, <1>8, <1>9 DEF Filter, FilterRec
-----------------------------------------------------------------------------
(* Sequences of rows. *)

LEMMA StampedType ==
  ASSUME NEW entries \in Seq(Entry), NEW time \in Nat
  PROVE  /\ Stamped(entries, time) \in Seq(Row)
         /\ Len(Stamped(entries, time)) = Len(entries)
         /\ \A i \in 1 .. Len(entries) : Stamped(entries, time)[i].entry = entries[i]
<1>1. Stamped(entries, time) = [i \in 1 .. Len(entries) |-> [entry |-> entries[i], at |-> time]]
  BY LenProperties DEF Stamped
<1>2. \A i \in 1 .. Len(entries) : [entry |-> entries[i], at |-> time] \in Row
  BY ElementOfSeq DEF Row
<1>3. Len(entries) \in Nat
  BY LenProperties
<1>4. Stamped(entries, time) \in Seq(Row)
  BY <1>1, <1>2, <1>3
<1>5. QED
  BY <1>1, <1>3, <1>4

(* One more INSERT lengthens the staged beginning of the batch. *)
LEMMA ChunkStaged ==
  ASSUME NEW b \in Seq(Entry), NEW s \in Seq(Row), NEW time \in Nat,
         Len(s) <= Len(b),
         \A i \in 1 .. Len(s) : s[i].entry = b[i],
         NEW upto \in Len(s) .. Len(b)
  PROVE  LET more == s \o Stamped(SubSeq(b, Len(s) + 1, upto), time) IN
         /\ more \in Seq(Row)
         /\ Len(more) = upto
         /\ \A i \in 1 .. upto : more[i].entry = b[i]
<1> DEFINE chunk == SubSeq(b, Len(s) + 1, upto)
           new == Stamped(chunk, time)
<1>1. Len(s) \in Nat /\ Len(b) \in Nat /\ upto \in Int
  BY LenProperties
<1>2. \A i \in Len(s) + 1 .. upto : b[i] \in Entry
  BY <1>1, ElementOfSeq
<1>3. /\ chunk \in Seq(Entry)
      /\ Len(chunk) = upto - Len(s)
      /\ \A i \in 1 .. upto - Len(s) : chunk[i] = b[Len(s) + i]
  <2>1. /\ chunk \in Seq(Entry)
        /\ Len(chunk) = IF Len(s) + 1 <= upto THEN upto - (Len(s) + 1) + 1 ELSE 0
        /\ \A i \in 1 .. upto - (Len(s) + 1) + 1 : chunk[i] = b[(Len(s) + 1) + i - 1]
    BY <1>1, <1>2, SubSeqProperties
  <2>2. QED
    BY <2>1, <1>1
<1>4. /\ new \in Seq(Row)
      /\ Len(new) = upto - Len(s)
      /\ \A i \in 1 .. upto - Len(s) : new[i].entry = b[Len(s) + i]
  <2> HIDE DEF chunk
  <2>1. /\ new \in Seq(Row) /\ Len(new) = Len(chunk)
        /\ \A i \in 1 .. Len(chunk) : new[i].entry = chunk[i]
    BY <1>3, StampedType
  <2>2. QED
    BY <1>3, <2>1
<1> HIDE DEF new
<1>5. /\ s \o new \in Seq(Row)
      /\ Len(s \o new) = upto
      /\ \A i \in 1 .. upto : (s \o new)[i] = IF i <= Len(s) THEN s[i] ELSE new[i - Len(s)]
  BY <1>1, <1>4, ConcatProperties
<1>6. ASSUME NEW i \in 1 .. upto
      PROVE  (s \o new)[i].entry = b[i]
  <2>1. CASE i <= Len(s)
    BY <2>1, <1>1, <1>5
  <2>2. CASE ~(i <= Len(s))
    <3>1. i - Len(s) \in 1 .. upto - Len(s) /\ Len(s) + (i - Len(s)) = i
      BY <2>2, <1>1
    <3>2. new[i - Len(s)].entry = b[Len(s) + (i - Len(s))]
      BY <3>1, <1>4
    <3>3. QED
      BY <2>2, <3>1, <3>2, <1>5
  <2>3. QED
    BY <2>1, <2>2
<1>7. QED
  BY <1>5, <1>6 DEF new

LEMMA AddedRows ==
  ASSUME NEW l \in Seq(Row), NEW s \in Seq(Row)
  PROVE  SubSeq(l \o s, Len(l) + 1, Len(l \o s)) = s
<1>1. Len(l) \in Nat /\ Len(s) \in Nat /\ Len(l \o s) = Len(l) + Len(s)
  BY LenProperties, ConcatProperties
<1>2. CASE s = <<>>
  <2>1. Len(l \o s) = Len(l)
    BY <1>1, <1>2, EmptySeq
  <2>2. QED
    BY <1>1, <1>2, <2>1, SubSeqEmpty
<1>3. CASE s # <<>>
  <2>1. Len(s) >= 1
    BY <1>1, <1>3, EmptySeq
  <2>2. SubSeq(l \o s, Len(l) + 1, Len(l) + Len(s))
          = SubSeq(s, Len(l) + 1 - Len(l), Len(l) + Len(s) - Len(l))
    BY <1>1, <2>1, SubSeqOfConcat2
  <2>3. Len(l) + 1 - Len(l) = 1 /\ Len(l) + Len(s) - Len(l) = Len(s)
    BY <1>1
  <2>4. QED
    BY <1>1, <2>2, <2>3, SubSeqFull
<1>4. QED
  BY <1>2, <1>3

(* The log only grows, so a name once offered stays one. *)
LEMMA OfferableKept ==
  ASSUME NEW more \in Seq(Row), log \in Seq(Row), log' = log \o more \/ log' = log,
         NEW d, Offerable(d)
  PROVE  Offerable(d)'
<1>1. Range(log) \subseteq Range(log \o more)
  <2>1. ASSUME NEW i \in DOMAIN log
        PROVE  log[i] \in Range(log \o more)
    <3>1. Len(log) \in Nat /\ Len(more) \in Nat /\ i \in 1 .. Len(log)
      BY LenProperties
    <3>2. log \o more \in Seq(Row) /\ Len(log \o more) = Len(log) + Len(more)
          /\ (log \o more)[i] = log[i]
      BY <3>1, ConcatProperties
    <3>3. i \in DOMAIN (log \o more)
      BY <3>1, <3>2, LenProperties
    <3>4. QED
      BY <3>2, <3>3 DEF Range
  <2>2. QED
    BY <2>1 DEF Range
<1>2. QED
  BY <1>1 DEF Offerable

LEMMA NoAnswerShape == DOMAIN NoAnswer = Fields /\ NoAnswer.names = {} /\ NoAnswer.inserted = 0
BY DEF NoAnswer, Fields

LEMMA InitInv == Init => IInv
<1> SUFFICES ASSUME Init PROVE IInv
  OBVIOUS
<1> USE DEF Init
<1>1. TypeOK
  <2>1. log \in Seq(Row) /\ now \in Nat
    BY ServiceAssumption
  <2>2. pc \in [Procs -> Labels] /\ gone \in [Procs -> BOOLEAN] /\ stored \in [Procs -> Nat]
    BY DEF Labels
  <2>3. batch \in [Procs -> Seq(Entry)] /\ staged \in [Procs -> Seq(Row)]
    BY EmptySeq
  <2>4. /\ \A w \in Workers : req[w] \in Requests[w] \cup {NoRequest}
        /\ \A w \in Workers : filter[w] \in FilterRec \cup {NoFilter}
    BY DEF NoRequest
  <2>5. status \in [Workers -> Codes] /\ failed \in [Workers -> BOOLEAN]
    BY DEF Codes
  <2>6. QED
    BY <2>1, <2>2, <2>3, <2>4, <2>5 DEF TypeOK
<1>2. ShapesOK
  BY NoAnswerShape DEF ShapesOK
<1>3. MainOK
  BY DEF MainOK, Procs
<1>4. ASSUME NEW p \in Procs PROVE IngestOK(p)
  BY <1>4 DEF IngestOK
<1>5. ASSUME NEW w \in Workers PROVE WorkerOK(w)
  <2>1. /\ pc[w] = "idle" /\ req[w] = NoRequest /\ status[w] = 0 /\ ans[w] = NoAnswer
    BY ServiceAssumption DEF Procs
  <2>2. req[w].op # "upload" /\ ans[w].names = {}
    BY <2>1, NoAnswerShape DEF NoRequest
  <2>3. QED
    BY <2>1, <2>2 DEF WorkerOK, ReadLabels
<1>6. QED
  BY <1>1, <1>2, <1>3, <1>4, <1>5 DEF IInv
-----------------------------------------------------------------------------
(* A step of one goroutine leaves the others' places and locals alone. *)

SameAt(q) ==
    /\ pc'[q] = pc[q] /\ gone'[q] = gone[q]
    /\ batch'[q] = batch[q] /\ staged'[q] = staged[q] /\ stored'[q] = stored[q]
    /\ q \in Workers => req'[q] = req[q] /\ status'[q] = status[q] /\ ans'[q] = ans[q]

Grows == log' = log \/ \E more \in Seq(Row) : log' = log \o more

LEMMA Assemble ==
  ASSUME IInv, NEW p \in Procs, Grows,
         TypeOK', ShapesOK',
         \A q \in Procs \ {p} : SameAt(q),
         p = Main => MainOK',
         IngestOK(p)',
         p \in Workers => WorkerOK(p)'
  PROVE  IInv'
<1>1. MainOK'
  BY DEF IInv, MainOK, SameAt, Procs
<1>2. ASSUME NEW q \in Procs \ {p}
      PROVE  IngestOK(q)'
  <2>1. SameAt(q) /\ IngestOK(q)
    BY DEF IInv
  <2>2. Input(q)' = Input(q)
    BY <2>1 DEF SameAt, Input, Procs
  <2>3. QED
    BY <2>1, <2>2 DEF SameAt, IngestOK
<1>3. ASSUME NEW w \in Workers \ {p}
      PROVE  WorkerOK(w)'
  <2>1. SameAt(w) /\ WorkerOK(w)
    BY DEF IInv, Procs
  <2>2. /\ pc'[w] = pc[w] /\ gone'[w] = gone[w] /\ batch'[w] = batch[w]
        /\ stored'[w] = stored[w] /\ req'[w] = req[w] /\ status'[w] = status[w]
        /\ ans'[w] = ans[w]
    BY <2>1 DEF SameAt
  <2>3. Accounted(w)' <=> Accounted(w)
    BY <2>2 DEF Accounted
  <2>4. ASSUME NEW d, Offerable(d)
        PROVE  Offerable(d)'
    BY <2>4, OfferableKept, EmptySeq DEF Grows, IInv, TypeOK
  <2>5. QED
    BY <2>1, <2>2, <2>3, <2>4 DEF WorkerOK
<1>4. QED
  BY <1>1, <1>2, <1>3 DEF IInv

LEMMA GotoStep ==
  ASSUME TypeOK, NEW p \in Procs, NEW label \in Labels, Goto(p, label)
  PROVE  /\ pc' \in [Procs -> Labels] /\ status' = status
         /\ pc'[p] = label
         /\ \A q \in Procs \ {p} : pc'[q] = pc[q]
BY DEF TypeOK, Goto

LEMMA ConcludeStep ==
  ASSUME TypeOK, NEW p \in Procs, NEW code \in {200, 400, 500}, Conclude(p, code)
  PROVE  /\ pc' \in [Procs -> Labels]
         /\ status' \in [Workers -> Codes]
         /\ pc'[p] = IF p = Main THEN "serving" ELSE "done"
         /\ \A q \in Procs \ {p} : pc'[q] = pc[q]
         /\ p \in Workers => status'[p] = code
         /\ \A w \in Workers \ {p} : status'[w] = status[w]
<1>1. CASE p = Main
  <2>1. Goto(p, "serving") /\ "serving" \in Labels
    BY <1>1 DEF Conclude, Labels
  <2>2. status' = status /\ p \notin Workers
    BY <1>1, <2>1, ServiceAssumption DEF Goto
  <2>3. QED
    BY <1>1, <2>1, <2>2, GotoStep DEF TypeOK
<1>2. CASE p # Main
  <2>1. Reply(p, code) /\ p \in Workers
    BY <1>2 DEF Conclude, Procs
  <2>2. QED
    BY <1>2, <2>1 DEF Reply, TypeOK, Procs, Labels, Codes
<1>3. QED
  BY <1>1, <1>2

(* Where a goroutine ends: done, or for main, serving. *)
LEMMA Ended ==
  ASSUME NEW p \in Procs, pc'[p] = IF p = Main THEN "serving" ELSE "done"
  PROVE  /\ IngestOK(p)'
         /\ p \in Workers => /\ pc'[p] = "done"
                             /\ (\A d \in ans'[p].names : Offerable(d)')
                                /\ (req'[p].op = "upload" => Accounted(p)')
                                => WorkerOK(p)'
         /\ p = Main => (~gone'[Main] => MainOK')
<1>1. IngestOK(p)'
  BY DEF IngestOK
<1>2. p \in Workers => pc'[p] = "done"
  BY ServiceAssumption
<1>3. QED
  BY <1>1, <1>2 DEF WorkerOK, MainOK, ReadLabels

LEMMA FailureNoted ==
  ASSUME NEW p \in Procs, TypeOK, NoteFailure(p)
  PROVE  failed' \in [Workers -> BOOLEAN]
BY DEF NoteFailure, TypeOK
-----------------------------------------------------------------------------
(* Ingest. *)

LEMMA ConsumedInv ==
  ASSUME IInv, NEW p \in Procs, pc[p] \in {"parse", "load"},
         NEW records \in Seq(Entry), NEW bad \in Nat,
         ~gone[p] => records = Input(p).records /\ bad = Input(p).bad /\ ~Input(p).long,
         Consumed(p, records, bad),
         UNCHANGED <<log, now, req, gone, staged, filter, stored, failed>>
  PROVE  IInv'
<1>1. TypeOK /\ ShapesOK /\ IngestOK(p) /\ (p \in Workers => WorkerOK(p))
  BY DEF IInv
<1>2. /\ batch' = [batch EXCEPT ![p] = records]
      /\ ans' = [w \in Workers |->
                   IF w = p THEN [ans[w] EXCEPT !.total = Len(records) + bad, !.skipped = bad]
                   ELSE ans[w]]
      /\ IF records = <<>> THEN Conclude(p, 200) ELSE Goto(p, "insert")
  BY DEF Consumed
<1>3. /\ pc' \in [Procs -> Labels]
      /\ status' \in [Workers -> Codes]
      /\ \A q \in Procs \ {p} : pc'[q] = pc[q]
      /\ \A w \in Workers \ {p} : status'[w] = status[w]
      /\ records = <<>> => /\ pc'[p] = IF p = Main THEN "serving" ELSE "done"
                           /\ p \in Workers => status'[p] = 200
      /\ records # <<>> => pc'[p] = "insert" /\ status' = status
  <2>1. CASE records = <<>>
    <3>1. Conclude(p, 200)
      BY <1>2, <2>1
    <3>2. /\ pc' \in [Procs -> Labels]
          /\ status' \in [Workers -> Codes]
          /\ pc'[p] = IF p = Main THEN "serving" ELSE "done"
          /\ \A q \in Procs \ {p} : pc'[q] = pc[q]
          /\ p \in Workers => status'[p] = 200
          /\ \A w \in Workers \ {p} : status'[w] = status[w]
      BY <1>1, <3>1, ConcludeStep
    <3>3. QED
      BY <2>1, <3>2
  <2>2. CASE records # <<>>
    <3>1. Goto(p, "insert") /\ "insert" \in Labels
      BY <1>2, <2>2 DEF Labels
    <3>2. QED
      BY <1>1, <2>2, <3>1, GotoStep DEF TypeOK
  <2>3. QED
    BY <2>1, <2>2
<1>4. batch' \in [Procs -> Seq(Entry)] /\ batch'[p] = records
      /\ \A q \in Procs \ {p} : batch'[q] = batch[q]
  BY <1>1, <1>2 DEF TypeOK
<1>5. TypeOK'
  BY <1>1, <1>3, <1>4 DEF TypeOK
<1>6. ShapesOK'
  BY <1>1, <1>2 DEF ShapesOK
<1>7. \A q \in Procs \ {p} : SameAt(q)
  BY <1>1, <1>2, <1>3, <1>4 DEF SameAt
<1>8. staged[p] = <<>> /\ stored[p] = 0
  BY <1>1 DEF IngestOK
<1>9. p \in Workers =>
        /\ ans'[p].total = Len(records) + bad /\ ans'[p].skipped = bad
        /\ ans'[p].inserted = 0 /\ ans'[p].names = {}
  <2>1. SUFFICES ASSUME p \in Workers
                 PROVE  /\ ans'[p].total = Len(records) + bad /\ ans'[p].skipped = bad
                        /\ ans'[p].inserted = 0 /\ ans'[p].names = {}
    OBVIOUS
  <2>2. pc[p] = "parse" /\ ans[p] = NoAnswer
    BY <1>1, <2>1 DEF WorkerOK
  <2>3. ans'[p] = [NoAnswer EXCEPT !.total = Len(records) + bad, !.skipped = bad]
    BY <1>2, <2>1, <2>2
  <2>4. QED
    BY <2>3 DEF NoAnswer
<1>10. Input(p)' = Input(p)
  BY DEF Input
<1>11. MainOK /\ (p = Main => ~gone[p])
  BY DEF IInv, MainOK
<1>12. CASE records = <<>>
  <2>1. Len(records) = 0
    BY <1>12
  <2>2. p \in Workers => Accounted(p)'
    <3>1. SUFFICES ASSUME p \in Workers PROVE Accounted(p)'
      OBVIOUS
    <3>2. status'[p] = 200 /\ stored'[p] = 0
      BY <1>3, <1>8, <1>12, <3>1
    <3>3. Input(p) = req[p].file
      BY <3>1, ServiceAssumption DEF Input
    <3>4. ~gone'[p] => Len(req[p].file.records) = 0 /\ req[p].file.bad = bad
      BY <1>12, <2>1, <3>3
    <3>5. LinesOf(req[p].file) = Len(req[p].file.records) + req[p].file.bad
      BY DEF LinesOf
    <3>6. QED
      BY <1>9, <2>1, <3>1, <3>2, <3>4, <3>5 DEF Accounted, LinesOf
  <2>3. IngestOK(p)' /\ (p \in Workers => WorkerOK(p)') /\ (p = Main => MainOK')
    BY <1>3, <1>9, <1>11, <1>12, <2>2, Ended
  <2>4. QED
    BY <1>5, <1>6, <1>7, <2>3, Assemble DEF Grows
<1>13. CASE records # <<>>
  <2>1. IngestOK(p)'
    <3>1. Len(staged'[p]) = 0 /\ Len(batch'[p]) \in Nat
      BY <1>4, <1>8, EmptySeq, LenProperties
    <3>2. QED
      BY <1>3, <1>4, <1>8, <1>10, <1>13, <3>1 DEF IngestOK
  <2>2. p \in Workers => WorkerOK(p)'
    <3>1. SUFFICES ASSUME p \in Workers PROVE WorkerOK(p)'
      OBVIOUS
    <3>2. /\ req[p] \in Requests[p] /\ req[p].op = "upload" /\ req[p].wellFormed
          /\ status[p] = 0
      BY <1>1, <3>1 DEF WorkerOK
    <3>3. ~gone[p] => bad = req[p].file.bad
      BY <3>1, ServiceAssumption DEF Input
    <3>4. QED
      BY <1>3, <1>4, <1>9, <1>13, <3>1, <3>2, <3>3 DEF WorkerOK, ReadLabels, Accounted
  <2>3. p = Main => MainOK'
    BY <1>3, <1>11, <1>13 DEF MainOK
  <2>4. QED
    BY <1>5, <1>6, <1>7, <2>1, <2>2, <2>3, Assemble DEF Grows
<1>14. QED
  BY <1>12, <1>13

(* A goroutine that ends before the commit has stored nothing. *)
LEMMA GiveUpInv ==
  ASSUME IInv, NEW p \in Procs, pc[p] \in {"parse", "load", "insert", "commit"},
         NEW code \in {400, 500}, Conclude(p, code),
         UNCHANGED <<log, now, req, gone, batch, filter, ans, stored>>,
         staged' \in [Procs -> Seq(Row)],
         \A q \in Procs \ {p} : staged'[q] = staged[q],
         failed' \in [Workers -> BOOLEAN]
  PROVE  IInv'
<1>1. TypeOK /\ ShapesOK /\ MainOK /\ IngestOK(p) /\ (p \in Workers => WorkerOK(p))
  BY DEF IInv
<1>2. /\ pc' \in [Procs -> Labels]
      /\ status' \in [Workers -> Codes]
      /\ pc'[p] = IF p = Main THEN "serving" ELSE "done"
      /\ \A q \in Procs \ {p} : pc'[q] = pc[q]
      /\ p \in Workers => status'[p] = code
      /\ \A w \in Workers \ {p} : status'[w] = status[w]
  BY <1>1, ConcludeStep
<1>3. TypeOK' /\ ShapesOK'
  BY <1>1, <1>2 DEF TypeOK, ShapesOK
<1>4. \A q \in Procs \ {p} : SameAt(q)
  BY <1>2 DEF SameAt
<1>5. stored[p] = 0
  BY <1>1 DEF IngestOK
<1>6. p \in Workers => Accounted(p)' /\ \A d \in ans'[p].names : Offerable(d)'
  BY <1>1, <1>2, <1>5 DEF Accounted, WorkerOK, Offerable
<1>7. IngestOK(p)' /\ (p \in Workers => WorkerOK(p)') /\ (p = Main => MainOK')
  BY <1>1, <1>2, <1>6, Ended DEF MainOK
<1>8. QED
  BY <1>3, <1>4, <1>7, Assemble DEF Grows

LEMMA ParseInv ==
  ASSUME IInv, NEW p \in Procs, Parse(p)
  PROVE  IInv'
<1>1. /\ pc[p] \in {"parse", "load"}
      /\ UNCHANGED <<log, now, req, gone, staged, filter, stored, failed>>
  BY DEF Parse
<1>2. /\ Input(p).records \in Seq(Entry)
      /\ Input(p).bad \in Nat
      /\ Input(p).long \in BOOLEAN
  <2>1. p \in Workers => req[p] \in Requests[p] /\ req[p].op = "upload"
    BY <1>1 DEF IInv, WorkerOK
  <2>2. QED
    BY <2>1, InputIsFile
<1>3. CASE ~Input(p).long /\ Consumed(p, Input(p).records, Input(p).bad)
  BY <1>1, <1>2, <1>3, ConsumedInv
<1>4. CASE Conclude(p, 400) /\ UNCHANGED <<batch, ans>>
  <2>1. staged' \in [Procs -> Seq(Row)] /\ failed' \in [Workers -> BOOLEAN]
    BY <1>1 DEF IInv, TypeOK
  <2>2. \A q \in Procs \ {p} : staged'[q] = staged[q]
    BY <1>1
  <2>3. UNCHANGED <<log, now, req, gone, batch, filter, ans, stored>>
    BY <1>1, <1>4
  <2>4. QED
    BY <1>1, <1>4, <2>1, <2>2, <2>3, GiveUpInv
<1>5. ASSUME gone[p], NEW n \in 0 .. Len(Input(p).records), NEW b \in 0 .. Input(p).bad,
             Consumed(p, SubSeq(Input(p).records, 1, n), b)
      PROVE  IInv'
  <2>1. Len(Input(p).records) \in Nat
    BY <1>2, LenProperties
  <2>2. \A i \in 1 .. n : Input(p).records[i] \in Entry
    BY <1>2, <2>1, ElementOfSeq
  <2>3. SubSeq(Input(p).records, 1, n) \in Seq(Entry) /\ b \in Nat
    BY <1>2, <2>1, <2>2, SubSeqProperties
  <2>4. QED
    BY <1>1, <1>5, <2>3, ConsumedInv
<1>6. QED
  BY <1>3, <1>4, <1>5 DEF Parse

LEMMA InsertChunkInv ==
  ASSUME IInv, NEW p \in Procs, InsertChunk(p)
  PROVE  IInv'
<1> DEFINE k == Len(staged[p])
           upto == IF k + BatchSize < Len(batch[p]) THEN k + BatchSize ELSE Len(batch[p])
           more == staged[p] \o Stamped(SubSeq(batch[p], k + 1, upto), now)
           label == IF upto = Len(batch[p]) THEN "commit" ELSE "insert"
<1>1. /\ pc[p] = "insert"
      /\ UNCHANGED <<log, now, req, gone, batch, filter, ans, stored>>
      /\ \/ /\ staged' = [staged EXCEPT ![p] = more]
            /\ Goto(p, label)
            /\ UNCHANGED failed
         \/ /\ Fail(p) /\ UNCHANGED staged
  BY DEF InsertChunk
<1>2. TypeOK /\ ShapesOK /\ MainOK /\ IngestOK(p) /\ (p \in Workers => WorkerOK(p))
  BY DEF IInv
<1>3. CASE Fail(p) /\ UNCHANGED staged
  <2>1. Conclude(p, 500) /\ failed' \in [Workers -> BOOLEAN]
    BY <1>2, <1>3, FailureNoted DEF Fail
  <2>2. staged' \in [Procs -> Seq(Row)] /\ \A q \in Procs \ {p} : staged'[q] = staged[q]
    BY <1>2, <1>3 DEF TypeOK
  <2>3. QED
    BY <1>1, <2>1, <2>2, GiveUpInv
<1>4. ASSUME staged' = [staged EXCEPT ![p] = more], Goto(p, label), UNCHANGED failed
      PROVE  IInv'
  <2>1. /\ batch[p] \in Seq(Entry) /\ staged[p] \in Seq(Row) /\ now \in Nat
        /\ k \in Nat /\ Len(batch[p]) \in Nat /\ BatchSize \in Nat /\ k <= Len(batch[p])
        /\ \A i \in 1 .. k : staged[p][i].entry = batch[p][i]
    BY <1>1, <1>2, LenProperties, ServiceAssumption DEF TypeOK, IngestOK
  <2>2. upto \in k .. Len(batch[p])
    BY <2>1
  <2>3. /\ more \in Seq(Row)
        /\ Len(more) = upto
        /\ \A i \in 1 .. upto : more[i].entry = batch[p][i]
    <3> HIDE DEF upto
    <3>1. QED
      BY <2>1, <2>2, ChunkStaged
  <2> HIDE DEF more, upto
  <2>4. /\ staged' \in [Procs -> Seq(Row)]
        /\ staged'[p] = more
        /\ \A q \in Procs \ {p} : staged'[q] = staged[q]
    BY <1>2, <1>4, <2>3 DEF TypeOK
  <2>5. /\ pc' \in [Procs -> Labels] /\ status' = status
        /\ pc'[p] = label
        /\ \A q \in Procs \ {p} : pc'[q] = pc[q]
    <3>1. label \in Labels
      BY DEF Labels
    <3>2. QED
      BY <1>2, <1>4, <3>1, GotoStep
  <2>6. TypeOK' /\ ShapesOK'
    BY <1>1, <1>2, <1>4, <2>4, <2>5 DEF TypeOK, ShapesOK
  <2>7. \A q \in Procs \ {p} : SameAt(q)
    BY <1>1, <2>4, <2>5 DEF SameAt
  <2>8. IngestOK(p)'
    <3>1. Input(p)' = Input(p)
      BY <1>1 DEF Input
    <3>2. /\ stored'[p] = 0
          /\ ~gone'[p] => batch'[p] = Input(p)' .records /\ ~Input(p)' .long
      BY <1>1, <1>2, <3>1 DEF IngestOK
    <3>3. /\ Len(staged'[p]) <= Len(batch'[p])
          /\ \A i \in 1 .. Len(staged'[p]) : staged'[p][i].entry = batch'[p][i]
          /\ pc'[p] = "commit" => Len(staged'[p]) = Len(batch'[p])
      BY <1>1, <2>1, <2>2, <2>3, <2>4, <2>5
    <3>4. QED
      BY <2>5, <3>2, <3>3 DEF IngestOK
  <2>9. p \in Workers => WorkerOK(p)'
    BY <1>1, <1>2, <2>5 DEF WorkerOK, ReadLabels, Accounted, Offerable
  <2>10. p = Main => MainOK'
    BY <1>1, <1>2, <2>5 DEF MainOK
  <2>11. QED
    BY <1>1, <2>6, <2>7, <2>8, <2>9, <2>10, Assemble DEF Grows
<1>5. QED
  BY <1>1, <1>3, <1>4

LEMMA CommitInv ==
  ASSUME IInv, NEW p \in Procs, Commit(p)
  PROVE  IInv'
<1>1. /\ pc[p] = "commit"
      /\ UNCHANGED <<now, req, gone, batch, filter>>
      /\ staged' = [staged EXCEPT ![p] = <<>>]
  BY DEF Commit
<1>2. TypeOK /\ ShapesOK /\ MainOK /\ IngestOK(p) /\ (p \in Workers => WorkerOK(p))
  BY DEF IInv
<1>3. /\ staged' \in [Procs -> Seq(Row)]
      /\ \A q \in Procs \ {p} : staged'[q] = staged[q]
  BY <1>1, <1>2, EmptySeq DEF TypeOK
<1>4. CASE Fail(p) /\ UNCHANGED <<log, stored, ans>>
  BY <1>1, <1>2, <1>3, <1>4, FailureNoted, GiveUpInv DEF Fail
<1>5. ASSUME ~gone[p],
             log' = log \o staged[p],
             stored' = [stored EXCEPT ![p] = Len(staged[p])],
             \/ /\ Conclude(p, 200)
                /\ ans' = [w \in Workers |->
                             IF w = p THEN [ans[w] EXCEPT !.inserted = Len(batch[p])] ELSE ans[w]]
                /\ UNCHANGED failed
             \/ Fail(p) /\ UNCHANGED ans
      PROVE  IInv'
  <2>1. /\ log \in Seq(Row) /\ staged[p] \in Seq(Row) /\ batch[p] \in Seq(Entry)
        /\ Len(staged[p]) = Len(batch[p]) /\ Len(batch[p]) \in Nat
        /\ batch[p] = Input(p).records
    BY <1>1, <1>2, <1>5, LenProperties DEF TypeOK, IngestOK
  <2>2. log' \in Seq(Row) /\ Grows
    BY <1>5, <2>1, ConcatProperties DEF Grows
  <2>3. PICK code \in {200, 500} :
           /\ Conclude(p, code)
           /\ code = 200 =>
                ans' = [w \in Workers |->
                          IF w = p THEN [ans[w] EXCEPT !.inserted = Len(batch[p])] ELSE ans[w]]
           /\ code = 500 => ans' = ans
           /\ failed' \in [Workers -> BOOLEAN]
    <3>1. CASE /\ Conclude(p, 200)
               /\ ans' = [w \in Workers |->
                            IF w = p THEN [ans[w] EXCEPT !.inserted = Len(batch[p])] ELSE ans[w]]
               /\ UNCHANGED failed
      <4>1. failed' \in [Workers -> BOOLEAN]
        BY <1>2, <3>1 DEF TypeOK
      <4>2. QED
        BY <3>1, <4>1
    <3>2. CASE Fail(p) /\ UNCHANGED ans
      <4>1. Conclude(p, 500) /\ failed' \in [Workers -> BOOLEAN]
        BY <1>2, <3>2, FailureNoted DEF Fail
      <4>2. QED
        BY <3>2, <4>1
    <3>3. QED
      BY <1>5, <3>1, <3>2
  <2>4. /\ pc' \in [Procs -> Labels]
        /\ status' \in [Workers -> Codes]
        /\ pc'[p] = IF p = Main THEN "serving" ELSE "done"
        /\ \A q \in Procs \ {p} : pc'[q] = pc[q]
        /\ p \in Workers => status'[p] = code
        /\ \A w \in Workers \ {p} : status'[w] = status[w]
    BY <1>2, <2>3, ConcludeStep
  <2>5. /\ stored' \in [Procs -> Nat]
        /\ stored'[p] = Len(batch[p])
        /\ \A q \in Procs \ {p} : stored'[q] = stored[q]
    BY <1>2, <1>5, <2>1 DEF TypeOK
  <2>6. TypeOK'
    BY <1>1, <1>2, <1>3, <2>2, <2>3, <2>4, <2>5 DEF TypeOK
  <2>7. ShapesOK' /\ \A w \in Workers \ {p} : ans'[w] = ans[w]
    BY <1>1, <1>2, <2>3 DEF ShapesOK
  <2>8. \A q \in Procs \ {p} : SameAt(q)
    BY <1>1, <1>3, <2>4, <2>5, <2>7 DEF SameAt
  <2>9. p \in Workers => Accounted(p)' /\ \A d \in ans'[p].names : Offerable(d)'
    <3>1. SUFFICES ASSUME p \in Workers
                   PROVE  Accounted(p)' /\ \A d \in ans'[p].names : Offerable(d)'
      OBVIOUS
    <3>2. /\ Input(p) = req[p].file
          /\ ans[p].total = Len(batch[p]) + ans[p].skipped
          /\ ans[p].skipped = req[p].file.bad
          /\ ans[p].skipped \in Nat
          /\ DOMAIN ans[p] = Fields
          /\ \A d \in ans[p].names : Offerable(d)
      BY <1>1, <1>2, <1>5, <3>1, ServiceAssumption DEF WorkerOK, Input, ShapesOK
    <3>3. /\ ans'[p].names = ans[p].names /\ ans'[p].total = ans[p].total
          /\ ans'[p].skipped = ans[p].skipped
          /\ code = 200 => ans'[p].inserted = Len(batch[p])
      <4>1. CASE code = 200
        <5>1. ans'[p] = [ans[p] EXCEPT !.inserted = Len(batch[p])]
          BY <2>3, <3>1, <4>1
        <5>2. QED
          BY <3>2, <5>1 DEF Fields
      <4>2. CASE code = 500
        BY <2>3, <4>2
      <4>3. QED
        BY <4>1, <4>2
    <3>4. Accounted(p)'
      BY <1>1, <2>1, <2>4, <2>5, <3>1, <3>2, <3>3 DEF Accounted, LinesOf
    <3>5. \A d \in ans'[p].names : Offerable(d)'
      BY <1>5, <2>1, <3>2, <3>3, OfferableKept
    <3>6. QED
      BY <3>4, <3>5
  <2>10. IngestOK(p)' /\ (p \in Workers => WorkerOK(p)') /\ (p = Main => MainOK')
    BY <1>1, <1>2, <2>4, <2>9, Ended DEF MainOK
  <2>11. QED
    BY <2>2, <2>6, <2>7, <2>8, <2>10, Assemble
<1>6. QED
  BY <1>4, <1>5 DEF Commit
-----------------------------------------------------------------------------
(* A statement of a reading handler leaves everything alone but its         *)
(* worker's place and answer.                                               *)

Quiet(w) ==
    /\ pc[w] \in ReadLabels
    /\ UNCHANGED <<log, now, req, gone, batch, staged, filter, stored>>
    /\ \/ \E label \in ReadLabels : Goto(w, label)
       \/ \E code \in {200, 500} : Reply(w, code)
    /\ failed' \in [Workers -> BOOLEAN]
    /\ DOMAIN ans' = Workers /\ DOMAIN ans'[w] = Fields
    /\ \A v \in Workers \ {w} : ans'[v] = ans[v]
    /\ \A d \in ans'[w].names : Offerable(d)

LEMMA QuietInv ==
  ASSUME IInv, NEW w \in Workers, Quiet(w)
  PROVE  IInv'
<1>1. /\ TypeOK /\ ShapesOK /\ MainOK /\ IngestOK(w) /\ WorkerOK(w)
      /\ w \in Procs /\ w # Main
  BY ServiceAssumption DEF IInv, Procs
<1>2. PICK label \in ReadLabels \cup {"done"}, code \in {0, 200, 500} :
         /\ pc' = [pc EXCEPT ![w] = label]
         /\ status' = [status EXCEPT ![w] = code]
         /\ label # "done" => code = 0
  <2>1. CASE \E label \in ReadLabels : Goto(w, label)
    <3>1. status' = [status EXCEPT ![w] = 0]
      <4>1. status[w] = 0 /\ status \in [Workers -> Codes]
        BY <1>1 DEF Quiet, WorkerOK, ReadLabels, TypeOK
      <4>2. QED
        BY <2>1, <4>1 DEF Goto
    <3>2. QED
      BY <2>1, <3>1 DEF Goto
  <2>2. ASSUME NEW c \in {200, 500}, Reply(w, c)
        PROVE  /\ pc' = [pc EXCEPT ![w] = "done"]
               /\ status' = [status EXCEPT ![w] = c]
    BY <2>2 DEF Reply
  <2>3. QED
    BY <2>1, <2>2 DEF Quiet
<1>3. /\ pc' \in [Procs -> Labels] /\ pc'[w] = label
      /\ \A q \in Procs \ {w} : pc'[q] = pc[q]
      /\ status' \in [Workers -> Codes] /\ status'[w] = code
      /\ \A v \in Workers \ {w} : status'[v] = status[v]
  <2>1. label \in Labels
    BY DEF ReadLabels, Labels
  <2>2. QED
    BY <1>1, <1>2, <2>1 DEF TypeOK, Codes
<1>4. TypeOK' /\ ShapesOK'
  <2>1. /\ UNCHANGED <<log, now, req, gone, batch, staged, filter, stored>>
        /\ failed' \in [Workers -> BOOLEAN]
        /\ DOMAIN ans' = Workers /\ \A v \in Workers : DOMAIN ans'[v] = Fields
    BY <1>1 DEF Quiet, ShapesOK
  <2>2. TypeOK'
    BY <1>1, <1>3, <2>1 DEF TypeOK
  <2>3. QED
    BY <1>1, <2>1, <2>2 DEF ShapesOK
<1>5. \A q \in Procs \ {w} : SameAt(q)
  BY <1>3 DEF SameAt, Quiet
<1>6. IngestOK(w)'
  BY <1>3 DEF IngestOK, ReadLabels
<1>7. WorkerOK(w)'
  <2>1. req'[w].op # "upload" /\ \A d \in ans'[w].names : Offerable(d)'
    BY <1>1 DEF Quiet, WorkerOK, Offerable
  <2>2. pc'[w] \in ReadLabels \cup {"done"} /\ (pc'[w] # "done" => status'[w] = 0)
    BY <1>2, <1>3
  <2>3. QED
    BY <2>1, <2>2 DEF WorkerOK, ReadLabels
<1>8. QED
  BY <1>1, <1>4, <1>5, <1>6, <1>7, Assemble DEF Grows, Quiet

(* A statement that failed, and one whose result is no list of names. *)
LEMMA QuietFail ==
  ASSUME IInv, NEW w \in Workers, pc[w] \in ReadLabels, UNCHANGED <<log, statementFrame>>,
         Fail(w), UNCHANGED ans
  PROVE  Quiet(w)
<1>1. Reply(w, 500)
  BY ServiceAssumption DEF Fail, Conclude
<1>2. failed' \in [Workers -> BOOLEAN]
  BY FailureNoted DEF Fail, IInv, Procs
<1>3. QED
  BY <1>1, <1>2 DEF Quiet, statementFrame, IInv, ShapesOK, WorkerOK

LEMMA QuietAnswer ==
  ASSUME IInv, NEW w \in Workers, pc[w] \in ReadLabels, UNCHANGED <<log, statementFrame>>,
         NEW field \in Fields \ {"names"}, NEW value, Answer(w, field, value),
         failed' \in [Workers -> BOOLEAN],
         \/ \E label \in ReadLabels : Goto(w, label)
         \/ \E code \in {200, 500} : Reply(w, code)
  PROVE  Quiet(w)
<1>1. /\ DOMAIN ans = Workers /\ DOMAIN ans[w] = Fields
      /\ \A d \in ans[w].names : Offerable(d)
  BY DEF IInv, ShapesOK, WorkerOK
<1>2. /\ DOMAIN ans' = Workers /\ DOMAIN ans'[w] = Fields
      /\ \A v \in Workers \ {w} : ans'[v] = ans[v]
      /\ ans'[w].names = ans[w].names
  BY <1>1 DEF Answer
<1>3. QED
  BY <1>1, <1>2 DEF Quiet, statementFrame

LEMMA ScanQuiet ==
  ASSUME IInv, NEW w \in Workers, ScanStep(w)
  PROVE  Quiet(w)
<1> USE DEF ReadLabels, Fields, Select
<1>1. failed \in [Workers -> BOOLEAN] /\ log \in Seq(Row)
  BY DEF IInv, TypeOK
<1>2. CASE ScanTotal(w)
  <2>1. /\ pc[w] = "scanCount" /\ UNCHANGED <<log, statementFrame>>
        /\ \/ /\ Answer(w, "total", Cardinality(ScanIds(req[w]))) /\ UNCHANGED failed
              /\ Reply(w, 200) \/ Goto(w, "scanList")
           \/ Fail(w) /\ UNCHANGED ans
    BY <1>2 DEF ScanTotal
  <2>2. QED
    BY <1>1, <2>1, QuietAnswer, QuietFail
<1>3. CASE ScanList(w)
  <2>1. /\ pc[w] = "scanList" /\ UNCHANGED <<log, statementFrame>>
        /\ \/ /\ \E items : Answer(w, "items", items)
              /\ UNCHANGED failed /\ Reply(w, 200)
           \/ Fail(w) /\ UNCHANGED ans
    BY <1>3 DEF ScanList, List
  <2>2. QED
    BY <1>1, <2>1, QuietAnswer, QuietFail
<1>4. CASE ListByDB(w)
  <2>1. /\ pc[w] = "byDB" /\ UNCHANGED <<log, statementFrame>>
        /\ \/ /\ Answer(w, "items", FindByDB(req[w].db))
              /\ UNCHANGED failed /\ Reply(w, 200)
           \/ Fail(w) /\ UNCHANGED ans
    BY <1>4 DEF ListByDB
  <2>2. QED
    BY <1>1, <2>1, QuietAnswer, QuietFail
<1>5. CASE ListDatabases(w)
  <2>1. /\ pc[w] = "databases" /\ UNCHANGED <<log, statementFrame>>
        /\ \/ /\ Answer(w, "names", {row.entry.db : row \in Range(log)} \cap SafeDBs)
              /\ UNCHANGED failed /\ Reply(w, 200)
           \/ Fail(w) /\ UNCHANGED ans
    BY <1>5 DEF ListDatabases
  <2>2. CASE Fail(w) /\ UNCHANGED ans
    BY <2>1, <2>2, QuietFail
  <2>3. CASE /\ Answer(w, "names", {row.entry.db : row \in Range(log)} \cap SafeDBs)
             /\ UNCHANGED failed /\ Reply(w, 200)
    <3>1. DOMAIN ans = Workers /\ DOMAIN ans[w] = Fields
      BY DEF IInv, ShapesOK
    <3>2. /\ DOMAIN ans' = Workers /\ DOMAIN ans'[w] = Fields
          /\ \A v \in Workers \ {w} : ans'[v] = ans[v]
          /\ ans'[w].names = {row.entry.db : row \in Range(log)} \cap SafeDBs
      BY <2>3, <3>1 DEF Answer
    <3>3. \A d \in ans'[w].names : Offerable(d)
      BY <3>2 DEF Offerable
    <3>4. QED
      BY <1>1, <2>1, <2>3, <3>2, <3>3 DEF Quiet, statementFrame
  <2>4. QED
    BY <2>1, <2>2, <2>3
<1>6. QED
  BY <1>2, <1>3, <1>4, <1>5 DEF ScanStep

LEMMA AIQuiet ==
  ASSUME IInv, NEW w \in Workers, AIStep(w)
  PROVE  Quiet(w)
<1> USE DEF ReadLabels, Fields
<1>1. failed \in [Workers -> BOOLEAN]
  BY DEF IInv, TypeOK
<1>2. CASE AIFind(w)
  <2>1. PICK ids :
          /\ pc[w] = "aiFind" /\ UNCHANGED <<log, statementFrame>>
          /\ Analyzable(w, ids)
          /\ failed' = failed \/ NoteFailure(w)
    BY <1>2 DEF AIFind
  <2>2. failed' \in [Workers -> BOOLEAN]
    BY <1>1, <2>1, FailureNoted DEF IInv, Procs
  <2>3. /\ \E items : Answer(w, "items", items)
        /\ Reply(w, 500) \/ Reply(w, 200) \/ Goto(w, "aiCall")
    BY <2>1 DEF Analyzable
  <2>4. QED
    BY <2>1, <2>2, <2>3, QuietAnswer
<1>3. CASE AICall(w)
  <2>1. /\ pc[w] = "aiCall" /\ UNCHANGED <<log, statementFrame, failed>>
        /\ Answer(w, "analyses", ans[w].analyses + 1)
        /\ Reply(w, 200) \/ Goto(w, "aiCall")
    BY <1>3 DEF AICall
  <2>2. QED
    BY <1>1, <2>1, QuietAnswer
<1>4. QED
  BY <1>2, <1>3 DEF AIStep

LEMMA ReportQuiet ==
  ASSUME IInv, NEW w \in Workers, ReportStep(w)
  PROVE  Quiet(w)
<1> USE DEF ReadLabels, Fields, Select
<1>1. failed \in [Workers -> BOOLEAN]
  BY DEF IInv, TypeOK
<1>2. CASE CountTotal(w)
  <2>1. /\ pc[w] = "total" /\ UNCHANGED <<log, statementFrame>>
        /\ \/ /\ Answer(w, "total", Cardinality(Windowed(filter[w])))
              /\ UNCHANGED failed /\ Goto(w, "byDBCount")
           \/ Fail(w) /\ UNCHANGED ans
    BY <1>2 DEF CountTotal
  <2>2. QED
    BY <1>1, <2>1, QuietAnswer, QuietFail
<1>3. CASE CountByDB(w)
  <2>1. /\ pc[w] = "byDBCount" /\ UNCHANGED <<log, statementFrame>>
        /\ \/ /\ Answer(w, "byDB", [d \in DBs |-> Cardinality(WindowedOf(filter[w], d))])
              /\ UNCHANGED failed /\ Goto(w, "anomalyList")
           \/ Fail(w) /\ UNCHANGED ans
    BY <1>3 DEF CountByDB
  <2>2. QED
    BY <1>1, <2>1, QuietAnswer, QuietFail
<1>4. CASE CountAnomalies(w)
  <2>1. /\ pc[w] = "anomalyCount" /\ UNCHANGED <<log, statementFrame>>
        /\ \/ /\ Answer(w, "anomalies", Cardinality(AnomalousIds(filter[w])))
              /\ UNCHANGED failed /\ Goto(w, "pctAll")
           \/ Fail(w) /\ UNCHANGED ans
    BY <1>4 DEF CountAnomalies
  <2>2. QED
    BY <1>1, <2>1, QuietAnswer, QuietFail
<1>5. CASE PercentilesOverall(w)
  <2>1. /\ pc[w] = "pctAll" /\ UNCHANGED <<log, statementFrame>>
        /\ \/ /\ Answer(w, "pctAll", Spread(Windowed(filter[w]), filter[w]))
              /\ UNCHANGED failed /\ Goto(w, "pctByDB")
           \/ Fail(w) /\ UNCHANGED ans
    BY <1>5 DEF PercentilesOverall
  <2>2. QED
    BY <1>1, <2>1, QuietAnswer, QuietFail
<1>6. CASE PercentilesByDB(w)
  <2>1. /\ pc[w] = "pctByDB" /\ UNCHANGED <<log, statementFrame>>
        /\ \/ /\ Answer(w, "pcts", [d \in DBs |-> Spread(WindowedOf(filter[w], d), filter[w])])
              /\ UNCHANGED failed /\ Goto(w, "topAll")
           \/ Fail(w) /\ UNCHANGED ans
    BY <1>6 DEF PercentilesByDB
  <2>2. QED
    BY <1>1, <2>1, QuietAnswer, QuietFail
<1>7. CASE TopPatternsOverall(w)
  <2>1. /\ pc[w] = "topAll" /\ UNCHANGED <<log, statementFrame>>
        /\ \/ /\ \E top : Answer(w, "topAll", top)
              /\ UNCHANGED failed /\ Goto(w, "topByDB")
           \/ Fail(w) /\ UNCHANGED ans
    BY <1>7 DEF TopPatternsOverall
  <2>2. QED
    BY <1>1, <2>1, QuietAnswer, QuietFail
<1>8. CASE TopPatternsByDB(w)
  <2>1. /\ pc[w] = "topByDB" /\ UNCHANGED <<log, statementFrame>>
        /\ \/ /\ \E tops : Answer(w, "tops", tops)
              /\ UNCHANGED failed
              /\ \/ Reply(w, 200)
                 \/ Goto(w, "csv") \/ Goto(w, "pdf")
           \/ Fail(w) /\ UNCHANGED ans
    BY <1>8 DEF TopPatternsByDB
  <2>2. QED
    BY <1>1, <2>1, QuietAnswer, QuietFail
<1>9. CASE ListAnomalies(w)
  <2>1. /\ pc[w] = "anomalyList" /\ UNCHANGED <<log, statementFrame>>
        /\ \/ /\ \E items, n : ans' = [ans EXCEPT ![w].items = items, ![w].suggestions = n]
              /\ UNCHANGED failed /\ Goto(w, "anomalyCount")
           \/ Fail(w) /\ UNCHANGED ans
    BY <1>9 DEF ListAnomalies
  <2>2. ASSUME NEW items, NEW n, UNCHANGED failed, Goto(w, "anomalyCount"),
               ans' = [ans EXCEPT ![w].items = items, ![w].suggestions = n]
        PROVE  Quiet(w)
    <3>1. /\ DOMAIN ans = Workers /\ DOMAIN ans[w] = Fields
          /\ \A d \in ans[w].names : Offerable(d)
      BY DEF IInv, ShapesOK, WorkerOK
    <3>2. /\ DOMAIN ans' = Workers /\ DOMAIN ans'[w] = Fields
          /\ \A v \in Workers \ {w} : ans'[v] = ans[v]
          /\ ans'[w].names = ans[w].names
      BY <2>2, <3>1
    <3>3. QED
      BY <1>1, <2>1, <2>2, <3>1, <3>2 DEF Quiet, statementFrame
  <2>3. QED
    BY <2>1, <2>2, QuietFail
<1>10. CASE ExportCSV(w) \/ ExportPDF(w)
  <2>1. /\ pc[w] \in {"csv", "pdf"} /\ UNCHANGED <<log, statementFrame, failed>>
        /\ Answer(w, "parts", Parts(ans[w]))
        /\ Reply(w, 200) \/ Reply(w, 500)
    BY <1>10 DEF ExportCSV, ExportPDF
  <2>2. QED
    BY <1>1, <2>1, QuietAnswer
<1>11. QED
  BY <1>2, <1>3, <1>4, <1>5, <1>6, <1>7, <1>8, <1>9, <1>10 DEF ReportStep
-----------------------------------------------------------------------------
(* Arrivals, disconnections, answers, restarts, time. *)

LEMMA EntranceLabel ==
  ASSUME NEW w \in Workers, NEW r \in Requests[w]
  PROVE  /\ r.op = "upload" => Entrance(r.op) = "parse"
         /\ r.op # "upload" => Entrance(r.op) \in ReadLabels
         /\ Entrance(r.op) \in Labels
BY RequestKinds DEF Entrance, ReadLabels, Labels, ReportOps

(* A worker is given its request and a place: refused, to the middleware,   *)
(* or to the handler.                                                       *)
Admission(w, r, label, code) ==
    /\ pc[w] \in {"idle", "auth"}
    /\ r \in Requests[w] /\ req'[w] = r
    /\ DOMAIN req' = Workers /\ \A v \in Workers \ {w} : req'[v] = req[v]
    /\ pc' = [pc EXCEPT ![w] = label]
    /\ status' = [status EXCEPT ![w] = code]
    /\ \/ label = "done" /\ code \in {400, 401, 403}
       \/ label = "auth" /\ code = 0
       \/ label = Entrance(r.op) /\ code = 0 /\ (r.op = "upload" => r.wellFormed)
    /\ DOMAIN filter' = Workers /\ filter'[w] \in FilterRec \cup {NoFilter}
    /\ \A v \in Workers \ {w} : filter'[v] = filter[v]
    /\ failed' \in [Workers -> BOOLEAN]
    /\ UNCHANGED <<log, now, gone, batch, staged, ans, stored>>

LEMMA AdmissionInv ==
  ASSUME IInv, NEW w \in Workers, NEW r, NEW label, NEW code, Admission(w, r, label, code)
  PROVE  IInv'
<1>1. /\ TypeOK /\ ShapesOK /\ MainOK /\ IngestOK(w) /\ WorkerOK(w)
      /\ w \in Procs /\ w # Main
  BY ServiceAssumption DEF IInv, Procs
<1>2. /\ UNCHANGED <<log, now, gone, batch, staged, ans, stored>>
      /\ pc[w] \in {"idle", "auth"} /\ r \in Requests[w]
      /\ label = "done" \/ code = 0
  BY DEF Admission
<1>3. /\ label = "done" \/ label = "auth"
         \/ (r.op = "upload" /\ r.wellFormed /\ label = "parse")
         \/ (r.op # "upload" /\ label \in ReadLabels)
      /\ label \in Labels
  BY <1>2, EntranceLabel DEF Admission, Labels
<1>4. /\ pc' \in [Procs -> Labels] /\ pc'[w] = label
      /\ status' \in [Workers -> Codes] /\ status'[w] = code
      /\ \A q \in Procs \ {w} : pc'[q] = pc[q]
      /\ \A v \in Workers \ {w} : status'[v] = status[v]
  BY <1>1, <1>3 DEF TypeOK, Admission, Codes
<1>5. /\ DOMAIN req' = Workers /\ req'[w] = r
      /\ \A v \in Workers \ {w} : req'[v] = req[v]
  BY <1>1 DEF ShapesOK, Admission
<1>6. TypeOK'
  <2>1. \A v \in Workers : req'[v] \in Requests[v] \cup {NoRequest}
    BY <1>1, <1>2, <1>5 DEF TypeOK
  <2>2. \A v \in Workers : filter'[v] \in FilterRec \cup {NoFilter}
    BY <1>1 DEF TypeOK, Admission
  <2>3. failed' \in [Workers -> BOOLEAN]
    BY DEF Admission
  <2>4. QED
    BY <1>1, <1>2, <1>4, <2>1, <2>2, <2>3 DEF TypeOK
<1>7. ShapesOK'
  BY <1>1, <1>2, <1>5 DEF ShapesOK, Admission
<1>8. \A q \in Procs \ {w} : SameAt(q)
  BY <1>2, <1>4, <1>5 DEF SameAt
<1>9. staged[w] = <<>> /\ stored[w] = 0 /\ ans[w] = NoAnswer
  BY <1>1, <1>2 DEF IngestOK, WorkerOK
<1>10. IngestOK(w)'
  BY <1>2, <1>3, <1>4, <1>9 DEF IngestOK, ReadLabels
<1>11. WorkerOK(w)'
  <2>1. Accounted(w)'
    <3>1. stored'[w] = 0 /\ code \in {0, 400, 401, 403}
      BY <1>2, <1>9 DEF Admission
    <3>2. QED
      BY <1>4, <3>1 DEF Accounted
  <2>2. \A d \in ans'[w].names : Offerable(d)'
    BY <1>2, <1>9, NoAnswerShape
  <2>3. QED
    BY <1>2, <1>3, <1>4, <1>5, <1>9, <2>1, <2>2 DEF WorkerOK, ReadLabels
<1>12. QED
  BY <1>1, <1>2, <1>6, <1>7, <1>8, <1>10, <1>11, Assemble DEF Grows

(* The handler's first step: a 400, or its first statement. *)
LEMMA EnterAdmits ==
  ASSUME IInv, NEW w \in Workers, NEW r \in Requests[w], Enter(w, r), status[w] = 0
  PROVE  /\ \/ Reply(w, 400)
            \/ Goto(w, Entrance(r.op)) /\ (r.op = "upload" => r.wellFormed)
         /\ DOMAIN filter' = Workers /\ filter'[w] \in FilterRec \cup {NoFilter}
         /\ \A v \in Workers \ {w} : filter'[v] = filter[v]
<1>1. DOMAIN filter = Workers /\ now \in Nat
  BY DEF IInv, ShapesOK, TypeOK
<1>2. r.op \in ReportOps /\ ~Refusal(r) => Filter(r, now) \in FilterRec
  BY <1>1, RequestKinds, FilterType DEF Refusal
<1>3. QED
  BY <1>1, <1>2 DEF Enter, Refusal

LEMMA ReceiveInv ==
  ASSUME IInv, NEW w \in Workers, Receive(w)
  PROVE  IInv'
<1>1. /\ failed \in [Workers -> BOOLEAN] /\ status \in [Workers -> Codes]
      /\ DOMAIN filter = Workers /\ filter[w] \in FilterRec \cup {NoFilter}
      /\ DOMAIN req = Workers /\ pc[w] = "idle" /\ status[w] = 0
  BY DEF IInv, TypeOK, ShapesOK, WorkerOK, Receive
<1>2. PICK r \in Requests[w] :
         /\ req' = [req EXCEPT ![w] = r]
         /\ IF r.op = "ai" THEN Enter(w, r) ELSE Goto(w, "auth") /\ UNCHANGED filter
         /\ UNCHANGED <<log, now, gone, batch, staged, ans, stored, failed>>
  BY DEF Receive
<1>3. /\ status = [status EXCEPT ![w] = 0]
      /\ DOMAIN req' = Workers /\ req'[w] = r
      /\ \A v \in Workers \ {w} : req'[v] = req[v]
  BY <1>1, <1>2
<1>4. \E label, code : Admission(w, r, label, code)
  <2>1. CASE r.op # "ai"
    BY <1>1, <1>2, <1>3, <2>1 DEF Admission, Goto
  <2>2. CASE r.op = "ai"
    <3>1. /\ Reply(w, 400) \/ (Goto(w, Entrance(r.op)) /\ (r.op = "upload" => r.wellFormed))
          /\ DOMAIN filter' = Workers /\ filter'[w] \in FilterRec \cup {NoFilter}
          /\ \A v \in Workers \ {w} : filter'[v] = filter[v]
      BY <1>1, <1>2, <2>2, EnterAdmits
    <3>2. CASE Reply(w, 400)
      <4>1. Admission(w, r, "done", 400)
        BY <1>1, <1>2, <3>1, <3>2 DEF Admission, Reply
      <4>2. QED
        BY <4>1
    <3>3. CASE Goto(w, Entrance(r.op)) /\ (r.op = "upload" => r.wellFormed)
      <4>1. Admission(w, r, Entrance(r.op), 0)
        BY <1>1, <1>2, <1>3, <3>1, <3>3 DEF Admission, Goto
      <4>2. QED
        BY <4>1
    <3>4. QED
      BY <3>1, <3>2, <3>3
  <2>3. QED
    BY <2>1, <2>2
<1>5. QED
  BY <1>4, AdmissionInv

LEMMA AuthenticateInv ==
  ASSUME IInv, NEW w \in Workers, Authenticate(w)
  PROVE  IInv'
<1> DEFINE r == req[w]
<1>1. /\ failed \in [Workers -> BOOLEAN] /\ status \in [Workers -> Codes]
      /\ DOMAIN filter = Workers /\ filter[w] \in FilterRec \cup {NoFilter}
      /\ pc[w] = "auth" /\ status[w] = 0 /\ r \in Requests[w] /\ req[w] = r
      /\ DOMAIN req = Workers
  BY DEF IInv, TypeOK, ShapesOK, WorkerOK, Authenticate
<1>2. /\ \/ Enter(w, r) /\ UNCHANGED failed
         \/ /\ Reply(w, 401) \/ Reply(w, 403)
            /\ UNCHANGED filter /\ failed' \in [Workers -> BOOLEAN]
      /\ UNCHANGED <<log, now, req, gone, batch, staged, ans, stored>>
  <2>1. NoteFailure(w) => failed' \in [Workers -> BOOLEAN]
    BY DEF NoteFailure
  <2>2. UNCHANGED failed => failed' \in [Workers -> BOOLEAN]
    BY <1>1
  <2>3. QED
    BY <2>1, <2>2 DEF Authenticate
<1>3. status = [status EXCEPT ![w] = 0] /\ req' = req
  BY <1>1, <1>2
<1> HIDE DEF r
<1>4. \E label, code : Admission(w, r, label, code)
  <2>1. ASSUME NEW code \in {401, 403}, Reply(w, code), UNCHANGED filter,
               failed' \in [Workers -> BOOLEAN]
        PROVE  Admission(w, r, "done", code)
    BY <1>1, <1>2, <1>3, <2>1 DEF Admission, Reply
  <2>2. CASE Enter(w, r) /\ UNCHANGED failed
    <3>1. /\ Reply(w, 400) \/ (Goto(w, Entrance(r.op)) /\ (r.op = "upload" => r.wellFormed))
          /\ DOMAIN filter' = Workers /\ filter'[w] \in FilterRec \cup {NoFilter}
          /\ \A v \in Workers \ {w} : filter'[v] = filter[v]
      BY <1>1, <2>2, EnterAdmits
    <3>2. CASE Reply(w, 400)
      <4>1. Admission(w, r, "done", 400)
        BY <1>1, <1>2, <1>3, <2>2, <3>1, <3>2 DEF Admission, Reply
      <4>2. QED
        BY <4>1
    <3>3. CASE Goto(w, Entrance(r.op)) /\ (r.op = "upload" => r.wellFormed)
      <4>1. Admission(w, r, Entrance(r.op), 0)
        BY <1>1, <1>2, <1>3, <2>2, <3>1, <3>3 DEF Admission, Goto
      <4>2. QED
        BY <4>1
    <3>4. QED
      BY <3>1, <3>2, <3>3
  <2>3. QED
    BY <1>2, <2>1, <2>2
<1>5. QED
  BY <1>4, AdmissionInv

LEMMA HangUpInv ==
  ASSUME IInv, NEW w \in Workers, HangUp(w)
  PROVE  IInv'
<1>1. /\ TypeOK /\ ShapesOK /\ MainOK /\ IngestOK(w) /\ WorkerOK(w)
      /\ w \in Procs /\ w # Main
  BY ServiceAssumption DEF IInv, Procs
<1>2. /\ pc[w] \notin {"idle", "done"}
      /\ gone' = [gone EXCEPT ![w] = TRUE]
      /\ UNCHANGED <<log, now, pc, req, batch, staged, filter, ans, status, stored, failed>>
  BY DEF HangUp, localVars
<1>3. TypeOK' /\ ShapesOK'
  BY <1>1, <1>2 DEF TypeOK, ShapesOK
<1>4. /\ gone'[w] = TRUE
      /\ \A q \in Procs \ {w} : SameAt(q)
  BY <1>1, <1>2 DEF SameAt, TypeOK
<1>5. IngestOK(w)'
  BY <1>1, <1>2, <1>4 DEF IngestOK
<1>6. WorkerOK(w)'
  <2>1. status'[w] = 0 /\ \A d \in ans'[w].names : Offerable(d)'
    BY <1>1, <1>2 DEF WorkerOK, Offerable
  <2>2. Accounted(w)'
    BY <2>1 DEF Accounted
  <2>3. QED
    BY <1>1, <1>2, <1>4, <2>1, <2>2 DEF WorkerOK
<1>7. QED
  BY <1>1, <1>2, <1>3, <1>4, <1>5, <1>6, Assemble DEF Grows

(* A released worker is as at the start. *)
LEMMA Released ==
  ASSUME IInv, NEW W \in SUBSET Procs, Release(W)
  PROVE  /\ ShapesOK'
         /\ pc' \in [Procs -> Labels] => TypeOK'
         /\ \A p \in Procs \cap W : staged'[p] = <<>> /\ stored'[p] = 0 /\ gone'[p] = FALSE
         /\ \A w \in Workers \cap W : req'[w] = NoRequest /\ status'[w] = 0 /\ ans'[w] = NoAnswer
         /\ \A q \in Procs \ W : pc'[q] = pc[q] => SameAt(q)
<1>1. TypeOK /\ ShapesOK
  BY DEF IInv
<1>2. /\ \A p \in Procs \cap W : staged'[p] = <<>> /\ stored'[p] = 0 /\ gone'[p] = FALSE
      /\ \A w \in Workers \cap W : req'[w] = NoRequest /\ status'[w] = 0 /\ ans'[w] = NoAnswer
      /\ \A q \in Procs \ W : pc'[q] = pc[q] => SameAt(q)
  BY <1>1 DEF Release, SameAt, TypeOK
<1>3. ShapesOK'
  BY <1>1, NoAnswerShape DEF Release, ShapesOK
<1>4. ASSUME pc' \in [Procs -> Labels]
      PROVE  TypeOK'
  <2>1. log' \in Seq(Row) /\ now' \in Nat
    BY <1>1 DEF TypeOK, Release
  <2>2. /\ gone' \in [Procs -> BOOLEAN] /\ batch' \in [Procs -> Seq(Entry)]
        /\ staged' \in [Procs -> Seq(Row)] /\ stored' \in [Procs -> Nat]
    BY <1>1, EmptySeq DEF TypeOK, Release
  <2>3. /\ status' \in [Workers -> Codes]
        /\ failed' \in [Workers -> BOOLEAN]
    BY <1>1 DEF TypeOK, Release, Codes
  <2>4. ASSUME NEW w \in Workers
        PROVE  /\ req'[w] \in Requests[w] \cup {NoRequest}
               /\ filter'[w] \in FilterRec \cup {NoFilter}
    <3>1. CASE w \in W
      BY <3>1 DEF Release, NoRequest
    <3>2. CASE w \notin W
      BY <1>1, <3>2 DEF Release, TypeOK
    <3>3. QED
      BY <3>1, <3>2
  <2>5. QED
    BY <1>4, <2>1, <2>2, <2>3, <2>4 DEF TypeOK
<1>5. QED
  BY <1>2, <1>3, <1>4

LEMMA IdleOK ==
  ASSUME NEW w \in Workers, pc'[w] = "idle", staged'[w] = <<>>, stored'[w] = 0,
         req'[w] = NoRequest, status'[w] = 0, ans'[w] = NoAnswer
  PROVE  IngestOK(w)' /\ WorkerOK(w)'
<1>1. IngestOK(w)'
  BY DEF IngestOK
<1>2. ans'[w].names = {} /\ req'[w].op = "none"
  BY NoAnswerShape DEF NoRequest
<1>3. QED
  BY <1>1, <1>2 DEF WorkerOK, ReadLabels

LEMMA FinishInv ==
  ASSUME IInv, NEW w \in Workers, Finish(w)
  PROVE  IInv'
<1>1. TypeOK /\ MainOK /\ w \in Procs /\ w # Main
  BY ServiceAssumption DEF IInv, Procs
<1>2. pc' = [pc EXCEPT ![w] = "idle"] /\ Release({w}) /\ {w} \in SUBSET Procs
  BY <1>1 DEF Finish
<1>3. /\ pc' \in [Procs -> Labels] /\ pc'[w] = "idle"
      /\ \A q \in Procs \ {w} : pc'[q] = pc[q]
  BY <1>1, <1>2 DEF TypeOK, Labels
<1>4. /\ ShapesOK' /\ TypeOK'
      /\ staged'[w] = <<>> /\ stored'[w] = 0
      /\ req'[w] = NoRequest /\ status'[w] = 0 /\ ans'[w] = NoAnswer
      /\ \A q \in Procs \ {w} : SameAt(q)
  BY <1>1, <1>2, <1>3, Released
<1>5. IngestOK(w)' /\ WorkerOK(w)'
  BY <1>3, <1>4, IdleOK
<1>6. Grows
  BY <1>2 DEF Release, Grows
<1>7. QED
  BY <1>1, <1>4, <1>5, <1>6, Assemble

LEMMA CrashInv ==
  ASSUME IInv, Crash
  PROVE  IInv'
<1>1. /\ pc' = [p \in Procs |-> IF p = Main THEN "load" ELSE "idle"]
      /\ Release(Procs) /\ Procs \in SUBSET Procs
  BY DEF Crash
<1>2. pc' \in [Procs -> Labels] /\ pc'[Main] = "load" /\ \A w \in Workers : pc'[w] = "idle"
  BY <1>1, ServiceAssumption DEF Procs, Labels
<1>3. /\ ShapesOK' /\ TypeOK'
      /\ \A p \in Procs : staged'[p] = <<>> /\ stored'[p] = 0 /\ gone'[p] = FALSE
      /\ \A w \in Workers : req'[w] = NoRequest /\ status'[w] = 0 /\ ans'[w] = NoAnswer
  BY <1>1, <1>2, Released DEF Procs
<1>4. \A w \in Workers : IngestOK(w)' /\ WorkerOK(w)'
  BY <1>2, <1>3, IdleOK DEF Procs
<1>5. Main \in Procs
  BY DEF Procs
<1>6. IngestOK(Main)' /\ MainOK'
  BY <1>2, <1>3, <1>5 DEF IngestOK, MainOK
<1>7. QED
  BY <1>3, <1>4, <1>6 DEF IInv, Procs

LEMMA QuietTime ==
  ASSUME IInv, now' \in Nat,
         UNCHANGED <<log, pc, req, gone, localVars, status, stored, failed>>
  PROVE  IInv'
<1>1. TypeOK' /\ ShapesOK' /\ MainOK'
  BY DEF IInv, TypeOK, ShapesOK, MainOK, localVars
<1>2. ASSUME NEW p \in Procs
      PROVE  IngestOK(p)'
  BY DEF IInv, IngestOK, Input, localVars
<1>3. ASSUME NEW w \in Workers
      PROVE  WorkerOK(w)'
  BY DEF IInv, WorkerOK, Accounted, Offerable, localVars
<1>4. QED
  BY <1>1, <1>2, <1>3 DEF IInv

LEMMA NextInv == IInv /\ [Next]_vars => IInv'
<1> SUFFICES ASSUME IInv, [Next]_vars PROVE IInv'
  OBVIOUS
<1>1. CASE Tick
  BY <1>1, QuietTime DEF Tick, IInv, TypeOK
<1>2. CASE Crash
  BY <1>2, CrashInv
<1>3. ASSUME NEW p \in Procs, Ingest(p) PROVE IInv'
  BY <1>3, ParseInv, InsertChunkInv, CommitInv DEF Ingest
<1>4. ASSUME NEW w \in Workers, Receive(w) \/ Authenticate(w) \/ HangUp(w) \/ Finish(w)
      PROVE  IInv'
  BY <1>4, ReceiveInv, AuthenticateInv, HangUpInv, FinishInv
<1>5. ASSUME NEW w \in Workers, ScanStep(w) \/ AIStep(w) \/ ReportStep(w) PROVE IInv'
  BY <1>5, ScanQuiet, AIQuiet, ReportQuiet, QuietInv
<1>6. CASE UNCHANGED vars
  <2>1. now' \in Nat
    BY <1>6 DEF vars, IInv, TypeOK
  <2>2. QED
    BY <1>6, <2>1, QuietTime DEF vars
<1>7. QED
  BY <1>1, <1>2, <1>3, <1>4, <1>5, <1>6 DEF Next

(* The inductive invariant, for any number of workers and every fault.      *)
THEOREM InvariantHolds == Spec => []IInv
BY InitInv, NextInv, PTL DEF Spec

(* TypeOK: a report's limit and thresholds stay positive whatever is asked  *)
(* (parseReportFilter, clampLimit).                                         *)
THEOREM TypeOKHolds == Spec => []TypeOK
<1>1. IInv => TypeOK
  BY DEF IInv
<1>2. QED
  BY <1>1, InvariantHolds, PTL

(* UploadAccounted: what Upload answers is what the table got.              *)
THEOREM UploadAccountedHolds == Spec => []UploadAccounted
<1>1. IInv => UploadAccounted
  BY DEF IInv, WorkerOK, Accounted, UploadAccounted
<1>2. QED
  BY <1>1, InvariantHolds, PTL

(* ListedDatabasesAnswer: what ListDatabases offers, ListByDB takes.        *)
THEOREM ListedDatabasesAnswerHolds == Spec => []ListedDatabasesAnswer
<1>1. ASSUME IInv, NEW w \in Workers, NEW d \in ans[w].names
      PROVE  /\ ~Refusal([op |-> "byDB", db |-> d])
             /\ \E row \in Range(log) : row.entry.db = d
  <2>1. Offerable(d)
    BY <1>1 DEF IInv, WorkerOK
  <2>2. QED
    BY <2>1 DEF Offerable, Refusal, ReportOps
<1>2. IInv => ListedDatabasesAnswer
  BY <1>1 DEF ListedDatabasesAnswer
<1>3. QED
  BY <1>2, InvariantHolds, PTL

(* A commit that the client waits for adds the whole of one storable file;  *)
(* no other step touches the table.                                         *)
LEMMA CommitStores ==
  ASSUME IInv, NEW p \in Procs, Commit(p), log' # log
  PROVE  Batches!Next
<1>1. /\ pc[p] = "commit" /\ ~gone[p] /\ log' = log \o staged[p]
  BY DEF Commit
<1>2. /\ log \in Seq(Row) /\ staged[p] \in Seq(Row) /\ batch[p] \in Seq(Entry)
      /\ Len(staged[p]) = Len(batch[p])
      /\ \A i \in 1 .. Len(batch[p]) : staged[p][i].entry = batch[p][i]
      /\ batch[p] = Input(p).records /\ ~Input(p).long
  BY <1>1 DEF IInv, TypeOK, IngestOK
<1>3. Input(p).records \in Files
  <2>1. p \in Workers => req[p] \in Requests[p] /\ req[p].op = "upload" /\ req[p].wellFormed
    BY <1>1 DEF IInv, WorkerOK
  <2>2. QED
    BY <1>2, <2>1, StorableInput
<1>4. Batches!Added = staged[p]
  BY <1>1, <1>2, AddedRows DEF Batches!Added
<1>5. [i \in DOMAIN staged[p] |-> staged[p][i].entry] = batch[p]
  <2>1. DOMAIN staged[p] = 1 .. Len(batch[p])
    BY <1>2, LenProperties
  <2>2. batch[p] = [i \in 1 .. Len(batch[p]) |-> batch[p][i]]
    BY <1>2, LenProperties
  <2>3. QED
    BY <1>2, <2>1, <2>2
<1>6. Batches!Store(Input(p).records)
  BY <1>1, <1>2, <1>4, <1>5 DEF Batches!Store
<1>7. QED
  BY <1>3, <1>6 DEF Batches!Next, Files

(* BatchLogSpec: however uploads interleave, fail, are cancelled or die,    *)
(* DEMO.SQL_LOG grows by whole files (Upload, loadSQLLogOnStartup).         *)
THEOREM ImplementsBatchLog == Spec => BatchLogSpec
<1>1. Init => Batches!Init
  BY DEF Init, Batches!Init
<1>2. ASSUME IInv, [Next]_vars
      PROVE  [Batches!Next]_log
  <2>1. ASSUME NEW w \in Workers, ScanStep(w) \/ AIStep(w) \/ ReportStep(w)
        PROVE  log' = log
    BY <1>2, <2>1, ScanQuiet, AIQuiet, ReportQuiet DEF Quiet
  <2>2. ASSUME NEW w \in Workers,
               Receive(w) \/ Authenticate(w) \/ HangUp(w) \/ Finish(w)
        PROVE  log' = log
    BY <2>2 DEF Receive, Authenticate, HangUp, Finish, Release
  <2>3. ASSUME NEW p \in Procs, Ingest(p)
        PROVE  [Batches!Next]_log
    <3>1. CASE Parse(p)
      BY <3>1 DEF Parse
    <3>2. CASE InsertChunk(p)
      BY <3>2 DEF InsertChunk
    <3>3. CASE Commit(p)
      BY <1>2, <3>3, CommitStores
    <3>4. QED
      BY <2>3, <3>1, <3>2, <3>3 DEF Ingest
  <2>4. Tick \/ Crash \/ UNCHANGED vars => log' = log
    BY DEF Tick, Crash, Release, vars
  <2>5. QED
    BY <1>2, <2>1, <2>2, <2>3, <2>4 DEF Next
<1>3. QED
  BY <1>1, <1>2, InvariantHolds, PTL DEF Spec, BatchLogSpec, Batches!Spec
=============================================================================
