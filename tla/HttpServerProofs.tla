-------------------------- MODULE HttpServerProofs --------------------------
(***************************************************************************)
(* The safety properties of HttpServer, for any number of connections, any *)
(* time limits and every fault.                                            *)
(***************************************************************************)
EXTENDS HttpServer, TLAPS

(* What is known of a request at a stage of the chain. *)
StageOK(r, stage) ==
    /\ stage \in {"reading", "working", "calling", "responding"} =>
          r.kind # "preflight" /\ r.logged = 0 /\ ~r.panicked
    /\ stage \in {"reading", "working", "calling"} => r.wrote = 0
    /\ stage = "calling" => r.calls # 0
    /\ stage = "responding" => r.wrote \in Codes
    /\ stage = "returned" =>
          IF r.kind = "preflight" \/ r.panicked THEN r.logged = 0 /\ r.wrote # 0
          ELSE r.logged = r.wrote
    /\ stage # "none" => ~r.cut

RecordOK(r) == r \in Request /\ StageOK(r, r.stage)

(* Where main is decides what the listener and the pool are. *)
MainOK ==
    /\ phase \in {"seed", "migrate", "load", "select", "draining", "closing"} => db = "open"
    /\ phase = "closed" => db = "closed"
    /\ phase \in Booting => lst = "off"
    /\ phase = "exited" => lst \in {"off", "failed"}
    /\ lst = "listening" => phase = "select"
    /\ phase \in {"draining", "closing", "closed"} => sig
    /\ exit # None => phase = "exited"
    /\ exit = 0 => db = "closed"

(* Connections exist only after a listener that listened, until main has    *)
(* seen all of them gone; a request is cut only by the deadline or by the   *)
(* listener's failure.                                                      *)
Listened == {"listening", "closed", "failed"}
CutCause == lst = "failed" \/ (sig /\ waited = Grace)

ConnectionOK(c) ==
    /\ conn[c] # "none" => phase \in {"select", "draining"} /\ lst \in Listened
    /\ req[c].cut => phase = "exited" /\ exit = 1 /\ CutCause

IInv ==
    /\ TypeOK
    /\ MainOK
    /\ \A c \in Conns : RecordOK(req[c]) /\ ConnectionOK(c)

Kept(r, q, fields) == \A f \in fields : r[f] = q[f]

USE DEF Booting, Codes, Kinds, Listened

(* The limits are positive. *)
LEMMA Limits ==
    /\ MaxCalls \in Nat \ {0} /\ NewGrace \in Nat \ {0} /\ Grace \in Nat \ {0}
    /\ ReadTimeout \in Nat \ {0} /\ WriteTimeout \in Nat \ {0}
  BY ServerAssumption DEF ServerAssumption

(* Setting one field leaves a request, and its other fields as they were. *)
LEMMA HeaderRecord ==
    ASSUME NEW q \in Request, NEW code \in Codes \cup {500}
    PROVE  /\ WriteHeader(q, code) \in Request /\ WriteHeader(q, code).wrote = code
           /\ Kept(WriteHeader(q, code), q, {"kind", "calls", "gone", "logged", "panicked", "cut"})
  BY DEF WriteHeader, Request, Kept

LEMMA CallsRecord ==
    ASSUME NEW q \in Request, NEW n \in 0..MaxCalls
    PROVE  /\ [q EXCEPT !.calls = n] \in Request /\ [q EXCEPT !.calls = n].calls = n
           /\ Kept([q EXCEPT !.calls = n], q, {"kind", "gone", "wrote", "logged", "panicked", "cut"})
  BY DEF Request, Kept

LEMMA PanicRecord ==
    ASSUME NEW q \in Request, NEW v \in BOOLEAN
    PROVE  /\ [q EXCEPT !.panicked = v] \in Request /\ [q EXCEPT !.panicked = v].panicked = v
           /\ Kept([q EXCEPT !.panicked = v], q, {"kind", "calls", "gone", "wrote", "logged", "cut"})
  BY DEF Request, Kept

LEMMA GoneRecord ==
    ASSUME NEW q \in Request, NEW v \in BOOLEAN
    PROVE  /\ [q EXCEPT !.gone = v] \in Request
           /\ Kept([q EXCEPT !.gone = v], q, {"kind", "stage", "calls", "wrote", "logged", "panicked", "cut"})
  BY DEF Request, Kept

LEMMA CutRecord ==
    ASSUME NEW q \in Request, NEW v \in BOOLEAN PROVE [q EXCEPT !.cut = v] \in Request
  BY DEF Request

LEMMA NothingYet == RecordOK(NoRequest) /\ RecordOK([NoRequest EXCEPT !.cut = TRUE])
  <1>0. 0 \in 0..MaxCalls
    BY Limits
  <1>1. NoRequest \in Request /\ [NoRequest EXCEPT !.cut = TRUE] \in Request
    <2>1. NoRequest \in Request
      BY <1>0 DEF NoRequest, Request
    <2>2. [NoRequest EXCEPT !.cut = TRUE] \in Request
      BY <2>1, CutRecord
    <2> QED
      BY <2>1, <2>2
  <1>2. NoRequest.stage = "none" /\ [NoRequest EXCEPT !.cut = TRUE].stage = "none"
    BY DEF NoRequest
  <1> QED
    BY <1>1, <1>2 DEF RecordOK, StageOK

LEMMA InitHolds == Init => IInv
  <1> SUFFICES ASSUME Init PROVE IInv
    OBVIOUS
  <1>1. TypeOK
    <2>1. req \in [Conns -> Request] /\ \A c \in Conns : req[c].stage = "none"
      BY NothingYet DEF Init, RecordOK, NoRequest
    <2>2. 0 \in 0..Grace /\ 0 \in 0 .. WriteTimeout + NewGrace + 1
      BY Limits
    <2> QED
      BY <2>1, <2>2 DEF Init, TypeOK
  <1>2. MainOK
    BY ServerAssumption DEF Init, MainOK
  <1>3. \A c \in Conns : RecordOK(req[c]) /\ ConnectionOK(c)
    BY NothingYet DEF Init, ConnectionOK, NoRequest
  <1> QED
    BY <1>1, <1>2, <1>3 DEF IInv
-----------------------------------------------------------------------------
(* Steps of one request. *)

(* A step within the chain keeps the invariant when the record it leaves is *)
(* one a goroutine still works on.                                          *)
LEMMA StepKeeps ==
    ASSUME IInv, NEW c \in Conns, NEW from, NEW r \in Request,
           NEW to \in {"reading", "working", "calling", "responding", "returned"},
           Step(c, from, to, r), StageOK(r, to)
    PROVE  IInv'
  <1> USE DEF Step, serverSide
  <1> DEFINE q == [r EXCEPT !.stage = to]
  <1>1. q \in Request /\ q.stage = to
    BY DEF Request
  <1>2. Kept(q, r, {"kind", "calls", "gone", "wrote", "logged", "panicked", "cut"})
    BY DEF Kept, Request
  <1>3. req' = [req EXCEPT ![c] = q] /\ conn[c] = "active"
    OBVIOUS
  <1> HIDE DEF q
  <1>4. RecordOK(q) /\ ~q.cut
    BY <1>1, <1>2 DEF RecordOK, StageOK, Kept
  <1>5. TypeOK'
    BY <1>1, <1>3 DEF IInv, TypeOK
  <1>6. MainOK'
    BY DEF IInv, MainOK
  <1>7. \A d \in Conns : RecordOK(req'[d])
    BY <1>3, <1>4 DEF IInv, TypeOK
  <1>8. \A d \in Conns : ConnectionOK(d)'
    BY <1>3, <1>4 DEF IInv, TypeOK, ConnectionOK
  <1> QED
    BY <1>5, <1>6, <1>7, <1>8 DEF IInv

(* The request a step begins with. *)
LEMMA StepFrom ==
    ASSUME IInv, NEW c \in Conns, NEW from, NEW to, NEW r, Step(c, from, to, r)
    PROVE  req[c] \in Request /\ StageOK(req[c], from)
  BY DEF IInv, Step, RecordOK

LEMMA BodyArrivesKeeps == ASSUME IInv, NEW c \in Conns, BodyArrives(c) PROVE IInv'
  <1>1. req[c] \in Request /\ StageOK(req[c], "reading")
    BY StepFrom DEF BodyArrives
  <1>2. StageOK(req[c], "working")
    BY <1>1 DEF StageOK
  <1> QED
    BY <1>1, <1>2, StepKeeps DEF BodyArrives

(* A request in hand may be answered with any status. *)
LEMMA AnswerKeeps ==
    ASSUME IInv, NEW c \in Conns, NEW from \in {"reading", "working"}, NEW code \in Codes,
           Step(c, from, "responding", WriteHeader(req[c], code))
    PROVE  IInv'
  <1> DEFINE r == WriteHeader(req[c], code)
  <1>1. req[c] \in Request /\ StageOK(req[c], from)
    BY StepFrom
  <1>2. r \in Request /\ r.wrote = code
        /\ Kept(r, req[c], {"kind", "calls", "gone", "logged", "panicked", "cut"})
    BY <1>1, HeaderRecord
  <1>3. Step(c, from, "responding", r)
    OBVIOUS
  <1> HIDE DEF r
  <1>4. StageOK(r, "responding")
    BY <1>1, <1>2 DEF StageOK, Kept
  <1> QED
    BY <1>2, <1>3, <1>4, StepKeeps

LEMMA BodyGivenUpKeeps == ASSUME IInv, NEW c \in Conns, BodyGivenUp(c) PROVE IInv'
  BY AnswerKeeps DEF BodyGivenUp

LEMMA AnswersKeeps == ASSUME IInv, NEW c \in Conns, Answers(c) PROVE IInv'
  BY AnswerKeeps DEF Answers

LEMMA AnalyseKeeps == ASSUME IInv, NEW c \in Conns, Analyse(c) PROVE IInv'
  <1>1. ASSUME NEW n \in 1..MaxCalls, Step(c, "working", "calling", [req[c] EXCEPT !.calls = n])
        PROVE  IInv'
    <2> DEFINE r == [req[c] EXCEPT !.calls = n]
    <2>1. req[c] \in Request /\ StageOK(req[c], "working")
      BY <1>1, StepFrom
    <2>2. n \in 0..MaxCalls /\ n # 0
      BY Limits
    <2>3. r \in Request /\ r.calls = n
          /\ Kept(r, req[c], {"kind", "gone", "wrote", "logged", "panicked", "cut"})
      BY <2>1, <2>2, CallsRecord
    <2>4. Step(c, "working", "calling", r)
      BY <1>1
    <2> HIDE DEF r
    <2>5. StageOK(r, "calling")
      BY <2>1, <2>2, <2>3 DEF StageOK, Kept
    <2> QED
      BY <2>3, <2>4, <2>5, StepKeeps
  <1> QED
    BY <1>1, AnswersKeeps DEF Analyse

LEMMA CallOverKeeps == ASSUME IInv, NEW c \in Conns, CallOver(c) PROVE IInv'
  <1> DEFINE m == req[c].calls - 1
             r == [req[c] EXCEPT !.calls = m]
  <1>1. \/ req[c].calls > 1 /\ Step(c, "calling", "calling", r)
        \/ Step(c, "calling", "responding", WriteHeader(r, 200))
    BY DEF CallOver
  <1>2. req[c] \in Request /\ StageOK(req[c], "calling")
    BY <1>1, StepFrom
  <1>3. m \in 0..MaxCalls /\ (req[c].calls > 1 => m # 0)
    BY <1>2, Limits DEF StageOK, Request
  <1> HIDE DEF m
  <1>4. r \in Request /\ r.calls = m
        /\ Kept(r, req[c], {"kind", "gone", "wrote", "logged", "panicked", "cut"})
    BY <1>2, <1>3, CallsRecord
  <1> HIDE DEF r
  <1>5. CASE req[c].calls > 1 /\ Step(c, "calling", "calling", r)
    <2>1. StageOK(r, "calling")
      BY <1>2, <1>3, <1>4, <1>5 DEF StageOK, Kept
    <2> QED
      BY <1>4, <1>5, <2>1, StepKeeps
  <1>6. CASE Step(c, "calling", "responding", WriteHeader(r, 200))
    <2> DEFINE q == WriteHeader(r, 200)
    <2>1. q \in Request /\ q.wrote = 200
          /\ Kept(q, r, {"kind", "calls", "gone", "logged", "panicked", "cut"})
      BY <1>4, HeaderRecord
    <2>2. Step(c, "calling", "responding", q)
      BY <1>6
    <2> HIDE DEF q
    <2>3. StageOK(q, "responding")
      BY <1>2, <1>4, <2>1 DEF StageOK, Kept
    <2> QED
      BY <2>1, <2>2, <2>3, StepKeeps
  <1> QED
    BY <1>1, <1>5, <1>6

LEMMA ReturnKeeps == ASSUME IInv, NEW c \in Conns, Return(c) PROVE IInv'
  <1> DEFINE w == req[c].wrote
             r == [req[c] EXCEPT !.logged = w]
  <1>1. Step(c, "responding", "returned", r)
    BY DEF Return
  <1>2. req[c] \in Request /\ StageOK(req[c], "responding")
    BY <1>1, StepFrom
  <1>3. w \in Codes
    BY <1>2 DEF StageOK
  <1>9. w = req[c].wrote
    OBVIOUS
  <1> HIDE DEF w
  <1>4. r \in Request /\ r.logged = w
        /\ Kept(r, req[c], {"kind", "calls", "gone", "wrote", "panicked", "cut"})
    BY <1>2, <1>3 DEF Request, Kept
  <1> HIDE DEF r
  <1>5. StageOK(r, "returned")
    BY <1>2, <1>9, <1>3, <1>4 DEF StageOK, Kept
  <1> QED
    BY <1>1, <1>4, <1>5, StepKeeps

LEMMA PanicKeeps == ASSUME IInv, NEW c \in Conns, Panic(c) PROVE IInv'
  <1> DEFINE p == [req[c] EXCEPT !.panicked = TRUE]
             w == IF req[c].wrote = 0 THEN 500 ELSE req[c].wrote
             r == WriteHeader(p, w)
  <1>1. PICK at \in {"working", "responding"} : Step(c, at, "returned", r)
    BY DEF Panic, Recovered
  <1>2. req[c] \in Request /\ StageOK(req[c], at)
    BY <1>1, StepFrom
  <1>3. w \in Codes \cup {500}
    BY <1>2 DEF StageOK
  <1>4. p \in Request /\ p.panicked
        /\ Kept(p, req[c], {"kind", "calls", "gone", "wrote", "logged", "cut"})
    BY <1>2, PanicRecord
  <1> HIDE DEF p, w
  <1>5. r \in Request /\ r.wrote = w
        /\ Kept(r, p, {"kind", "calls", "gone", "logged", "panicked", "cut"})
    BY <1>3, <1>4, HeaderRecord
  <1> HIDE DEF r
  <1>6. StageOK(r, "returned")
    BY <1>2, <1>3, <1>4, <1>5 DEF StageOK, Kept
  <1> QED
    BY <1>1, <1>5, <1>6, StepKeeps

LEMMA ConnectKeeps == ASSUME IInv, NEW c \in Conns, Connect(c) PROVE IInv'
  <1> USE DEF Connect, serverSide
  <1>1. TypeOK'
    BY NothingYet DEF IInv, TypeOK, RecordOK, NoRequest
  <1>2. MainOK'
    BY DEF IInv, MainOK
  <1>3. \A d \in Conns : RecordOK(req'[d])
    BY NothingYet DEF IInv, TypeOK
  <1>4. \A d \in Conns : ConnectionOK(d)'
    BY DEF IInv, TypeOK, ConnectionOK, MainOK, NoRequest
  <1> QED
    BY <1>1, <1>2, <1>3, <1>4 DEF IInv

LEMMA ReceiveKeeps == ASSUME IInv, NEW c \in Conns, Receive(c) PROVE IInv'
  <1> USE DEF serverSide
  <1>1. PICK k \in Kinds : \E at \in FirstStages(k) : req' = [req EXCEPT ![c] = EnterChain(k, at)]
    BY DEF Receive
  <1>2. PICK at \in FirstStages(k) : req' = [req EXCEPT ![c] = EnterChain(k, at)]
    BY <1>1
  <1> DEFINE r == EnterChain(k, at)
  <1>3. at \in {"reading", "working", "returned"} /\ (at = "returned" <=> k = "preflight")
    BY DEF FirstStages
  <1>4. /\ r.kind = k /\ r.stage = at /\ r.wrote = (IF k = "preflight" THEN 204 ELSE 0)
        /\ r.logged = 0 /\ ~r.panicked /\ ~r.cut
    BY DEF EnterChain
  <1>5. r \in Request
    BY <1>3, Limits DEF EnterChain, Request
  <1> HIDE DEF r
  <1>6. RecordOK(r)
    BY <1>3, <1>4, <1>5 DEF RecordOK, StageOK
  <1>7. req' = [req EXCEPT ![c] = r]
    BY <1>2 DEF r
  <1>8. TypeOK'
    <2>1. 0 \in 0 .. WriteTimeout + NewGrace + 1
      BY Limits
    <2> QED
      BY <1>3, <1>4, <1>5, <1>7, <2>1 DEF IInv, TypeOK, Receive
  <1>9. MainOK'
    BY DEF IInv, MainOK, Receive
  <1>10. \A d \in Conns : RecordOK(req'[d])
    BY <1>6, <1>7 DEF IInv, TypeOK
  <1>11. \A d \in Conns : ConnectionOK(d)'
    BY <1>4, <1>7 DEF IInv, TypeOK, ConnectionOK, Receive
  <1> QED
    BY <1>8, <1>9, <1>10, <1>11 DEF IInv

LEMMA FlushKeeps == ASSUME IInv, NEW c \in Conns, Flush(c) PROVE IInv'
  <1> USE DEF Flush, serverSide
  <1>1. TypeOK'
    <2>1. 0 \in 0 .. WriteTimeout + NewGrace + 1
      BY Limits
    <2> QED
      BY NothingYet, <2>1 DEF IInv, TypeOK, RecordOK, NoRequest
  <1>2. MainOK'
    BY DEF IInv, MainOK
  <1>3. \A d \in Conns : RecordOK(req'[d])
    BY NothingYet DEF IInv, TypeOK
  <1>4. \A d \in Conns : ConnectionOK(d)'
    BY DEF IInv, TypeOK, ConnectionOK, NoRequest
  <1> QED
    BY <1>1, <1>2, <1>3, <1>4 DEF IInv

LEMMA HangUpKeeps == ASSUME IInv, NEW c \in Conns, HangUp(c) PROVE IInv'
  <1> USE DEF serverSide
  <1>0. MainOK'
    BY DEF IInv, MainOK, HangUp
  <1>1. CASE conn[c] \in {"new", "idle"}
    <2>1. /\ conn' = [conn EXCEPT ![c] = "none"] /\ age' = [age EXCEPT ![c] = 0]
          /\ UNCHANGED req
      BY <1>1 DEF HangUp
    <2>2. 0 \in 0 .. WriteTimeout + NewGrace + 1
      BY Limits
    <2>3. TypeOK'
      BY <1>1, <2>1, <2>2 DEF IInv, TypeOK, HangUp
    <2>4. \A d \in Conns : RecordOK(req'[d]) /\ ConnectionOK(d)'
      BY <2>1 DEF IInv, TypeOK, ConnectionOK, HangUp
    <2> QED
      BY <1>0, <2>3, <2>4 DEF IInv
  <1>2. CASE conn[c] = "active"
    <2> DEFINE r == [req[c] EXCEPT !.gone = TRUE]
    <2>1. req' = [req EXCEPT ![c] = r] /\ UNCHANGED <<conn, age>>
      BY <1>2 DEF HangUp, IInv, TypeOK
    <2>2. RecordOK(r) /\ r.stage = req[c].stage /\ r.cut = req[c].cut
      <3>1. RecordOK(req[c])
        BY DEF IInv
      <3>2. /\ r \in Request
            /\ Kept(r, req[c], {"kind", "stage", "calls", "wrote", "logged", "panicked", "cut"})
        BY <3>1, GoneRecord DEF RecordOK
      <3> HIDE DEF r
      <3> QED
        BY <3>1, <3>2 DEF Kept, RecordOK, StageOK
    <2>3. TypeOK'
      BY <2>1, <2>2 DEF IInv, TypeOK, HangUp, RecordOK
    <2>4. \A d \in Conns : RecordOK(req'[d]) /\ ConnectionOK(d)'
      BY <2>1, <2>2 DEF IInv, TypeOK, ConnectionOK, HangUp
    <2> QED
      BY <1>0, <2>3, <2>4 DEF IInv
  <1> QED
    BY <1>1, <1>2 DEF HangUp
-----------------------------------------------------------------------------
(* Steps of main, of the listener and of the clock. *)

(* Every way the process ends.  What is cut off is cut off by the deadline  *)
(* or the listener's failure, and status 0 leaves a closed pool behind.     *)
LEMMA ExitKeeps ==
    ASSUME IInv, NEW code \in {0, 1, 2}, Exit(code), phase # "exited", UNCHANGED db,
           sig' \in BOOLEAN, code = 0 => db = "closed",
           \A c \in Conns : conn[c] = "active" =>
              code = 1 /\ (lst = "failed" \/ (sig' /\ waited = Grace))
    PROVE  IInv'
  <1> DEFINE after(c) == IF conn[c] = "active" THEN [NoRequest EXCEPT !.cut = TRUE] ELSE req[c]
  <1>1. /\ phase' = "exited" /\ exit' = code /\ waited' = waited
        /\ lst' = IF lst = "failed" THEN "failed" ELSE "off"
        /\ conn' = [c \in Conns |-> "none"] /\ age' = [c \in Conns |-> 0]
        /\ req' = [c \in Conns |-> after(c)]
    BY DEF Exit
  <1>2. \A c \in Conns : /\ RecordOK(after(c)) /\ after(c).stage = "none"
                         /\ after(c).cut => code = 1 /\ (lst = "failed" \/ (sig' /\ waited = Grace))
    <2> TAKE c \in Conns
    <2>1. CASE conn[c] = "active"
      BY <2>1, NothingYet DEF NoRequest
    <2>2. CASE conn[c] # "active"
      BY <2>2 DEF IInv, TypeOK, ConnectionOK
    <2> QED
      BY <2>1, <2>2
  <1> HIDE DEF after
  <1>3. 0 \in 0 .. WriteTimeout + NewGrace + 1
    BY Limits
  <1>4. TypeOK'
    BY <1>1, <1>2, <1>3 DEF IInv, TypeOK, RecordOK
  <1>5. MainOK'
    BY <1>1 DEF MainOK
  <1>6. \A c \in Conns : RecordOK(req'[c]) /\ ConnectionOK(c)'
    BY <1>1, <1>2 DEF ConnectionOK, CutCause
  <1> QED
    BY <1>4, <1>5, <1>6 DEF IInv

(* A step of main that leaves the connections alone.                        *)
LEMMA QuietKeeps ==
    ASSUME IInv, TypeOK', MainOK', UNCHANGED clientSide,
           phase # "exited",
           \A c \in Conns : conn[c] # "none" =>
              phase' \in {"select", "draining"} /\ lst' \in Listened
    PROVE  IInv'
  BY DEF IInv, ConnectionOK, clientSide

LEMMA BootStepKeeps ==
    ASSUME IInv, NEW at \in Booting, NEW next \in Booting \ {"open"}, BootStep(at, next)
    PROVE  IInv'
  <1>1. phase = at /\ \A c \in Conns : conn[c] = "none"
    BY DEF BootStep, IInv, ConnectionOK, TypeOK
  <1>2. CASE /\ phase' = next /\ db' = "open"
             /\ UNCHANGED <<exit, lst, waited, clientSide, sig>>
    <2>1. TypeOK'
      BY <1>2 DEF IInv, TypeOK, clientSide
    <2>2. MainOK'
      BY <1>1, <1>2, ServerAssumption DEF IInv, MainOK
    <2> QED
      BY <1>1, <1>2, <2>1, <2>2, QuietKeeps
  <1>3. CASE Exit(1) /\ UNCHANGED <<db, sig>>
    BY <1>1, <1>3, ExitKeeps DEF IInv, TypeOK
  <1> QED
    BY <1>2, <1>3 DEF BootStep

LEMMA StartServerKeeps == ASSUME IInv, StartServer PROVE IInv'
  <1>1. phase = "load" /\ \A c \in Conns : conn[c] = "none"
    BY DEF StartServer, IInv, ConnectionOK
  <1>2. TypeOK'
    BY DEF StartServer, IInv, TypeOK, clientSide
  <1>3. MainOK'
    BY DEF StartServer, IInv, MainOK
  <1> QED
    BY <1>1, <1>2, <1>3, QuietKeeps DEF StartServer

LEMMA SignalKeeps == ASSUME IInv, Signal PROVE IInv'
  <1>1. CASE phase \in Booting
    <2>1. \A c \in Conns : conn[c] = "none"
      BY <1>1 DEF IInv, ConnectionOK
    <2> QED
      BY <1>1, <2>1, ExitKeeps DEF Signal
  <1>2. CASE phase \notin Booting
    <2>1. TypeOK'
      BY <1>2 DEF Signal, IInv, TypeOK, clientSide
    <2>2. MainOK'
      BY <1>2 DEF Signal, IInv, MainOK
    <2>3. \A c \in Conns : conn[c] # "none" =>
             phase' \in {"select", "draining"} /\ lst' \in Listened
      BY <1>2 DEF Signal, IInv, ConnectionOK
    <2> QED
      BY <1>2, <2>1, <2>2, <2>3, QuietKeeps DEF Signal
  <1> QED
    BY <1>1, <1>2

LEMMA ListenKeeps == ASSUME IInv, Listen PROVE IInv'
  <1>1. \A c \in Conns : conn[c] = "none"
    BY DEF Listen, IInv, ConnectionOK
  <1>2. phase \notin Booting \cup {"exited"}
    BY DEF Listen, IInv, MainOK
  <1>3. TypeOK'
    BY DEF Listen, IInv, TypeOK, clientSide
  <1>4. MainOK'
    BY <1>2 DEF Listen, IInv, MainOK
  <1> QED
    BY <1>1, <1>2, <1>3, <1>4, QuietKeeps DEF Listen

LEMMA AcceptFailsKeeps == ASSUME IInv, AcceptFails PROVE IInv'
  <1>1. phase = "select" /\ lst' = "failed" /\ UNCHANGED phase
    BY DEF AcceptFails, IInv, MainOK
  <1>2. TypeOK'
    BY DEF AcceptFails, IInv, TypeOK, clientSide
  <1>3. MainOK'
    BY <1>1 DEF AcceptFails, IInv, MainOK
  <1> QED
    BY <1>1, <1>2, <1>3, QuietKeeps DEF AcceptFails

LEMMA ServeFailedKeeps == ASSUME IInv, ServeFailed PROVE IInv'
  BY ExitKeeps DEF ServeFailed, IInv, TypeOK

LEMMA BeginShutdownKeeps == ASSUME IInv, BeginShutdown PROVE IInv'
  <1>1. TypeOK'
    BY Limits DEF BeginShutdown, IInv, TypeOK, clientSide
  <1>2. MainOK'
    BY DEF BeginShutdown, IInv, MainOK
  <1>3. \A c \in Conns : conn[c] # "none" =>
           phase' \in {"select", "draining"} /\ lst' \in Listened
    BY DEF BeginShutdown, IInv, ConnectionOK
  <1> QED
    BY <1>1, <1>2, <1>3, QuietKeeps DEF BeginShutdown

LEMMA PollKeeps == ASSUME IInv, Poll PROVE IInv'
  <1>1. \A c \in Conns : conn[c] = "active" => Busy(c)
    BY DEF Busy
  <1>2. 0 \in 0 .. WriteTimeout + NewGrace + 1
    BY Limits
  <1>3. /\ conn' = [c \in Conns |-> IF Busy(c) THEN conn[c] ELSE "none"]
        /\ age' = [c \in Conns |-> IF Busy(c) THEN age[c] ELSE 0]
        /\ phase = "draining" /\ phase' \in {"draining", "closing"}
        /\ UNCHANGED <<exit, sig, db, lst, waited, req>>
    BY DEF Poll
  <1>4. TypeOK'
    BY <1>1, <1>2, <1>3 DEF IInv, TypeOK
  <1>5. MainOK'
    BY <1>3 DEF IInv, MainOK
  <1>6. \A c \in Conns : conn'[c] # "none" => conn[c] # "none" /\ phase' = "draining"
    BY DEF Poll
  <1>7. \A c \in Conns : RecordOK(req'[c]) /\ ConnectionOK(c)'
    BY <1>3, <1>6 DEF IInv, ConnectionOK
  <1> QED
    BY <1>4, <1>5, <1>7 DEF IInv

LEMMA DeadlinePassedKeeps == ASSUME IInv, DeadlinePassed PROVE IInv'
  <1>1. waited = Grace
    BY Limits DEF DeadlinePassed, IInv, TypeOK
  <1>2. sig /\ sig \in BOOLEAN
    BY DEF DeadlinePassed, IInv, MainOK, TypeOK
  <1> QED
    BY <1>1, <1>2, ExitKeeps DEF DeadlinePassed

LEMMA CloseDatabaseKeeps == ASSUME IInv, CloseDatabase PROVE IInv'
  <1>1. \A c \in Conns : conn[c] = "none"
    BY DEF CloseDatabase, IInv, ConnectionOK
  <1>2. TypeOK'
    BY DEF CloseDatabase, IInv, TypeOK, clientSide
  <1>3. MainOK'
    BY DEF CloseDatabase, IInv, MainOK
  <1> QED
    BY <1>1, <1>2, <1>3, QuietKeeps DEF CloseDatabase

LEMMA ReturnFromMainKeeps == ASSUME IInv, ReturnFromMain PROVE IInv'
  <1>1. \A c \in Conns : conn[c] = "none"
    BY DEF ReturnFromMain, IInv, ConnectionOK
  <1> QED
    BY <1>1, ExitKeeps DEF ReturnFromMain, IInv, TypeOK, MainOK

LEMMA RestartKeeps == ASSUME IInv, Restart PROVE IInv'
  <1>1. \A c \in Conns : conn[c] = "none"
    BY DEF Restart, IInv, ConnectionOK
  <1>2. NoRequest.stage = "none" /\ ~NoRequest.cut
    BY DEF NoRequest
  <1>3. TypeOK'
    BY <1>1, <1>2, NothingYet, Limits DEF Restart, IInv, TypeOK, RecordOK
  <1>4. MainOK'
    BY ServerAssumption DEF Restart, IInv, MainOK
  <1>5. \A c \in Conns : RecordOK(req'[c]) /\ ConnectionOK(c)'
    BY <1>1, <1>2, NothingYet DEF Restart, ConnectionOK
  <1> QED
    BY <1>3, <1>4, <1>5 DEF IInv

LEMMA TickKeeps == ASSUME IInv, Tick PROVE IInv'
  <1>1. \A c \in Conns : age[c] \in 0 .. WriteTimeout + NewGrace + 1
    BY DEF IInv, TypeOK
  <1>2. \A c \in Conns : age'[c] \in 0 .. WriteTimeout + NewGrace + 1
    BY <1>1, Limits DEF Tick
  <1>3. age' \in [Conns -> 0 .. WriteTimeout + NewGrace + 1]
    BY <1>2 DEF Tick
  <1>4. waited' \in 0..Grace
    BY Limits DEF Tick, IInv, TypeOK
  <1>5. TypeOK'
    BY <1>3, <1>4 DEF Tick, IInv, TypeOK
  <1>6. MainOK'
    BY DEF Tick, IInv, MainOK
  <1>7. \A c \in Conns : RecordOK(req'[c]) /\ ConnectionOK(c)'
    BY DEF Tick, IInv, ConnectionOK
  <1> QED
    BY <1>5, <1>6, <1>7 DEF IInv
-----------------------------------------------------------------------------
LEMMA StutterKeeps == ASSUME IInv, UNCHANGED vars PROVE IInv'
  <1>1. TypeOK'
    BY DEF IInv, TypeOK, vars
  <1>2. MainOK'
    BY DEF IInv, MainOK, vars
  <1>3. \A c \in Conns : RecordOK(req'[c]) /\ ConnectionOK(c)'
    BY DEF IInv, ConnectionOK, CutCause, vars
  <1> QED
    BY <1>1, <1>2, <1>3 DEF IInv

LEMMA NextKeeps == ASSUME IInv, [Next]_vars PROVE IInv'
  <1>1. ASSUME NEW c \in Conns, HandlerStep(c) PROVE IInv'
    BY <1>1, BodyGivenUpKeeps, AnswersKeeps, AnalyseKeeps, CallOverKeeps, ReturnKeeps, FlushKeeps
       DEF HandlerStep, Handle, CallCancelled
  <1>2. ASSUME NEW c \in Conns, OutsideStep(c) PROVE IInv'
    BY <1>2, ConnectKeeps, ReceiveKeeps, BodyArrivesKeeps, CallOverKeeps, HangUpKeeps, PanicKeeps
       DEF OutsideStep, CallAnswered
  <1>3. ASSUME BootSteps PROVE IInv'
    BY <1>3, BootStepKeeps, StartServerKeeps DEF BootSteps, OpenDatabase, SeedRoles, MigrateTable
  <1>4. ASSUME MainStep PROVE IInv'
    BY <1>3, <1>4, ListenKeeps, ServeFailedKeeps, BeginShutdownKeeps, PollKeeps,
       DeadlinePassedKeeps, CloseDatabaseKeeps, ReturnFromMainKeeps DEF MainStep
  <1> QED
    BY <1>1, <1>2, <1>4, TickKeeps, SignalKeeps, RestartKeeps, AcceptFailsKeeps, StutterKeeps DEF Next

(* The inductive invariant holds in every state of every run of the process. *)
THEOREM ServerInvariant == Spec => []IInv
  <1>1. IInv /\ [Next]_vars => IInv'
    BY NextKeeps
  <1> QED
    BY InitHolds, <1>1, PTL DEF Spec

(* Types, and a connection is active exactly while a goroutine works on it. *)
THEOREM ServerTyped == Spec => []TypeOK
  <1>1. IInv => TypeOK
    BY DEF IInv
  <1> QED
    BY ServerInvariant, <1>1, PTL

(* No handler runs without an open database, however the shutdown goes.     *)
THEOREM DatabaseOutlivesHandlers == Spec => []HandlersHaveDatabase
  <1>1. IInv => HandlersHaveDatabase
    BY DEF IInv, MainOK, ConnectionOK, HandlersHaveDatabase
  <1> QED
    BY ServerInvariant, <1>1, PTL

(* A request is cut off only by the deadline of a shutdown or the failure   *)
(* of the listener, with status 1.                                          *)
THEOREM NothingCutSilently == Spec => []CutIsReported
  <1>1. IInv => CutIsReported
    BY DEF IInv, MainOK, ConnectionOK, CutCause, CutIsReported
  <1> QED
    BY ServerInvariant, <1>1, PTL

(* What goes out is what is logged, except what never reaches the log.      *)
THEOREM LogMatchesAnswers == Spec => []AccessLogFaithful
  <1>1. IInv => AccessLogFaithful
    BY DEF IInv, RecordOK, StageOK, AccessLogFaithful
  <1> QED
    BY ServerInvariant, <1>1, PTL
=============================================================================
