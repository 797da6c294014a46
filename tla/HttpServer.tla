----------------------------- MODULE HttpServer -----------------------------
(***************************************************************************)
(* One run of the API process around its handlers: main from the start to  *)
(* the exit, the listener goroutine, the connections net/http serves and   *)
(* the middleware every request passes.  What a handler does with the      *)
(* database is the subject of AuthService and SqlLogService; here it reads *)
(* a body, works, may wait for the AI service, may panic, and answers.     *)
(* Connections, deadlines and Shutdown are net/http's and modelled from    *)
(* how server.go sets them up.  The CORS headers, which depend on the      *)
(* configuration and the request alone, are left out.  A tick stands for   *)
(* some seconds.                                                           *)
(***************************************************************************)
EXTENDS Integers

CONSTANTS
    Conns,          \* client connections
    MaxCalls,       \* queries one AI analysis sends to the service: 5, or ?limit=
    NewGrace,       \* Shutdown takes a connection without a request for idle: 5 s
    Grace,          \* Shutdown's own deadline: 10 s
    ReadTimeout,    \* 30 s
    WriteTimeout,   \* 60 s
    Faults,         \* which of FaultKinds may happen
    None            \* no exit status yet

VARIABLES
    phase,          \* where main is
    exit,           \* the exit status of the process
    sig,            \* SIGINT or SIGTERM was received
    db,             \* the connection pool
    lst,            \* the listener and its goroutine
    waited,         \* ticks since Shutdown was called
    conn,           \* connections: none, new (no request yet), active, idle
    age,            \* ticks since it was accepted, or since its request came
    req             \* the request it carries

vars == <<phase, exit, sig, db, lst, waited, conn, age, req>>

FaultKinds == {"boot",      \* a step of the start fails
               "port",      \* the address is in use
               "accept",    \* Accept fails for good while requests are served
               "panic"}     \* a handler panics

ASSUME ServerAssumption ==
    /\ \A n \in {MaxCalls, NewGrace, Grace, ReadTimeout, WriteTimeout} : n \in Nat \ {0}
    /\ Faults \subseteq FaultKinds
    /\ None \notin {0, 1, 2}

Kinds == {"preflight",  \* OPTIONS
          "plain",      \* anything with one answer, whether it sends a body or not
          "ai"}         \* the AI analysis
Codes == {200, 400}         \* a success and an error stand for all

NoRequest ==
    [kind |-> "none", stage |-> "none", calls |-> 0, gone |-> FALSE,
     wrote |-> 0, logged |-> 0, panicked |-> FALSE, cut |-> FALSE]

Init ==
    /\ phase = "open" /\ exit = None /\ sig = FALSE
    /\ db = "none" /\ lst = "off" /\ waited = 0
    /\ conn = [c \in Conns |-> "none"]
    /\ age = [c \in Conns |-> 0]
    /\ req = [c \in Conns |-> NoRequest]
-----------------------------------------------------------------------------
(* Main. *)

(* os.Exit, or main returns: what is under way goes with the process.  That *)
(* the listener had failed is remembered, as the log does.                  *)
Exit(code) ==
    /\ phase' = "exited" /\ exit' = code
    /\ lst' = IF lst = "failed" THEN "failed" ELSE "off"
    /\ conn' = [c \in Conns |-> "none"]
    /\ age' = [c \in Conns |-> 0]
    /\ req' = [c \in Conns |->
                 IF conn[c] = "active" THEN [NoRequest EXCEPT !.cut = TRUE]
                 ELSE req[c]]
    /\ UNCHANGED waited

clientSide == <<conn, age, req>>

(* db.New, SeedDefaultRoles and Migrate: a failure ends the process, and    *)
(* os.Exit runs no deferred Close.                                          *)
BootStep(at, next) ==
    /\ phase = at
    /\ \/ /\ phase' = next
          /\ db' = "open"
          /\ UNCHANGED <<exit, lst, waited, clientSide>>
       \/ /\ "boot" \in Faults
          /\ Exit(1) /\ UNCHANGED db
    /\ UNCHANGED sig

OpenDatabase == BootStep("open", "seed")
SeedRoles    == BootStep("seed", "migrate")
MigrateTable == BootStep("migrate", "load")

(* The load of the log file, whose failure is only logged; then signals are *)
(* caught and the listener goroutine is started.                            *)
StartServer ==
    /\ phase = "load"
    /\ phase' = "select" /\ lst' = "starting"
    /\ UNCHANGED <<exit, sig, db, waited, clientSide>>

Booting == {"open", "seed", "migrate", "load"}

(* Before NotifyContext a signal kills the process; later ones are noted.   *)
Signal ==
    /\ ~sig /\ phase # "exited"
    /\ sig' = TRUE
    /\ IF phase \in Booting THEN Exit(2)
       ELSE UNCHANGED <<phase, exit, lst, waited, clientSide>>
    /\ UNCHANGED db

(* ListenAndServe: it refuses when Shutdown was called before. *)
Listen ==
    /\ lst = "starting"
    /\ \/ phase = "select" /\ lst' = "listening"
       \/ phase = "select" /\ "port" \in Faults /\ lst' = "failed"
       \/ phase # "select" /\ lst' = "closed"
    /\ UNCHANGED <<phase, exit, sig, db, waited, clientSide>>

(* Accept fails with an error net/http does not retry: Serve returns it,    *)
(* and the connections it has accepted live on.                             *)
AcceptFails ==
    /\ "accept" \in Faults
    /\ lst = "listening" /\ lst' = "failed"
    /\ UNCHANGED <<phase, exit, sig, db, waited, clientSide>>

(* The select of Start: the listener failed, and main exits at once.        *)
ServeFailed ==
    /\ phase = "select" /\ lst = "failed"
    /\ Exit(1) /\ UNCHANGED <<sig, db>>

(* Mutant: Start returns and leaves Shutdown to a goroutine.                *)
BeginShutdownAside ==
    /\ phase = "select" /\ sig
    /\ phase' = "closing" /\ waited' = 0
    /\ lst' = IF lst = "listening" THEN "closed" ELSE lst
    /\ UNCHANGED <<exit, sig, db, clientSide>>

(* Mutant: Close instead of Shutdown, which waits for no handler.           *)
CloseServer ==
    /\ phase = "select" /\ sig
    /\ phase' = "closing" /\ waited' = 0
    /\ lst' = IF lst = "listening" THEN "closed" ELSE lst
    /\ conn' = [c \in Conns |-> "none"]
    /\ UNCHANGED <<exit, sig, db, age, req>>

(* The select of Start: the context is done.  Shutdown closes the listener. *)
BeginShutdown ==
    /\ phase = "select" /\ sig
    /\ phase' = "draining"
    /\ lst' = IF lst = "listening" THEN "closed" ELSE lst
    /\ waited' = 0
    /\ UNCHANGED <<exit, sig, db, clientSide>>

(* Not idle in the sense of closeIdleConns. *)
Busy(c) == conn[c] = "active" \/ (conn[c] = "new" /\ age[c] < NewGrace)

(* One poll of Shutdown: idle connections are closed; when none is left it  *)
(* returns nil.                                                             *)
Poll ==
    /\ phase = "draining"
    /\ conn' = [c \in Conns |-> IF Busy(c) THEN conn[c] ELSE "none"]
    /\ age' = [c \in Conns |-> IF Busy(c) THEN age[c] ELSE 0]
    /\ phase' = IF \E c \in Conns : Busy(c) THEN "draining" ELSE "closing"
    /\ UNCHANGED <<exit, sig, db, lst, waited, req>>

(* Mutant: Shutdown gets a context without a deadline. *)
NoDeadline == FALSE /\ UNCHANGED vars

(* Mutant: the deadline's error is not looked at. *)
DeadlineIgnored ==
    /\ phase = "draining" /\ waited >= Grace
    /\ phase' = "closing"
    /\ UNCHANGED <<exit, sig, db, lst, waited, clientSide>>

(* Its context expired: Start returns the error and main exits with 1.      *)
DeadlinePassed ==
    /\ phase = "draining" /\ waited >= Grace
    /\ Exit(1) /\ UNCHANGED <<sig, db>>

(* Main returns: the deferred Close, then the end of the process. *)
CloseDatabase ==
    /\ phase = "closing"
    /\ phase' = "closed" /\ db' = "closed"
    /\ UNCHANGED <<exit, sig, lst, waited, clientSide>>

ReturnFromMain ==
    /\ phase = "closed"
    /\ Exit(0) /\ UNCHANGED <<sig, db>>

(* restart: unless-stopped. *)
Restart ==
    /\ phase = "exited" /\ ~sig
    /\ phase' = "open" /\ exit' = None /\ db' = "none" /\ lst' = "off" /\ waited' = 0
    /\ req' = [c \in Conns |-> NoRequest]
    /\ UNCHANGED <<sig, conn, age>>
-----------------------------------------------------------------------------
(* The middleware, outermost first: request id, recover, CORS, logging. *)

(* withCORS answers every OPTIONS itself; anything else passes the logging  *)
(* middleware and reaches a handler.                                        *)
EnterChain(k, at) ==
    [kind |-> k, stage |-> at, calls |-> 0, gone |-> FALSE,
     wrote |-> IF k = "preflight" THEN 204 ELSE 0,
     logged |-> 0, panicked |-> FALSE, cut |-> FALSE]

FirstStages(k) ==
    CASE k = "preflight" -> {"returned"}
      [] k = "plain" -> {"reading", "working"}
      [] k = "ai" -> {"working"}

serverSide == <<phase, exit, sig, db, lst, waited>>

Connect(c) ==
    /\ conn[c] = "none" /\ lst = "listening"
    /\ conn' = [conn EXCEPT ![c] = "new"]
    /\ req' = [req EXCEPT ![c] = NoRequest]
    /\ UNCHANGED <<serverSide, age>>

Receive(c) ==
    /\ conn[c] \in {"new", "idle"}
    /\ conn' = [conn EXCEPT ![c] = "active"]
    /\ age' = [age EXCEPT ![c] = 0]
    /\ \E k \in Kinds : \E at \in FirstStages(k) :
          req' = [req EXCEPT ![c] = EnterChain(k, at)]
    /\ UNCHANGED serverSide

(* The request goes from one stage to another, and leaves the record r. *)
Step(c, from, to, r) ==
    /\ conn[c] = "active" /\ req[c].stage = from
    /\ req' = [req EXCEPT ![c] = [r EXCEPT !.stage = to]]
    /\ UNCHANGED <<serverSide, conn, age>>

(* bodyCaptureWriter notes the status on its way to the client. *)
WriteHeader(r, code) == [r EXCEPT !.wrote = code]

BodyArrives(c) == Step(c, "reading", "working", req[c])

(* Mutant: no ReadTimeout. *)
BodyGivenUpByClient(c) ==
    /\ req[c].gone
    /\ Step(c, "reading", "responding", WriteHeader(req[c], 400))

(* The read of the body fails. *)
BodyGivenUp(c) ==
    /\ age[c] >= ReadTimeout \/ req[c].gone
    /\ Step(c, "reading", "responding", WriteHeader(req[c], 400))

Answers(c) ==
    \E code \in Codes : Step(c, "working", "responding", WriteHeader(req[c], code))

Handle(c) == req[c].kind # "ai" /\ Answers(c)

(* AIAnalysis: the calls are made one after the other. *)
Analyse(c) ==
    /\ req[c].kind = "ai"
    /\ \/ Answers(c)
       \/ \E n \in 1..MaxCalls :
             Step(c, "working", "calling", [req[c] EXCEPT !.calls = n])

(* A failed call is replaced by a remark, so each one leads to the next. *)
CallOver(c) ==
    LET r == [req[c] EXCEPT !.calls = @ - 1]
    IN IF req[c].calls > 1 THEN Step(c, "calling", "calling", r)
       ELSE Step(c, "calling", "responding", WriteHeader(r, 200))

CallAnswered(c) == CallOver(c)

(* The call has the request's context, and the client has hung up. *)
CallCancelled(c) == req[c].gone /\ CallOver(c)

(* Mutant: the wrapper does not see the status. *)
ReturnUnseen(c) == Step(c, "responding", "returned", [req[c] EXCEPT !.logged = 200])

(* The handler returns, and withRequestLogging logs the status it saw. *)
Return(c) == Step(c, "responding", "returned", [req[c] EXCEPT !.logged = req[c].wrote])

(* withRecover: http.Error cannot change a status already written. *)
Recovered(r) ==
    WriteHeader([r EXCEPT !.panicked = TRUE], IF r.wrote = 0 THEN 500 ELSE r.wrote)

(* A panic leaves through the logging middleware and is recovered outside.  *)
Panic(c) ==
    /\ "panic" \in Faults
    /\ \E at \in {"working", "responding"} : Step(c, at, "returned", Recovered(req[c]))

(* The chain has returned and net/http sends the answer, unless its write   *)
(* deadline has passed; during a shutdown the connection is closed.         *)
Flush(c) ==
    /\ conn[c] = "active" /\ req[c].stage = "returned"
    /\ LET lost == req[c].gone \/ age[c] > WriteTimeout
       IN conn' = [conn EXCEPT ![c] = IF lost \/ phase # "select" THEN "none" ELSE "idle"]
    /\ req' = [req EXCEPT ![c] = NoRequest]
    /\ age' = [age EXCEPT ![c] = 0]
    /\ UNCHANGED serverSide

(* The client closes, or one of the server's timeouts for a silent          *)
(* connection does.                                                         *)
HangUp(c) ==
    /\ \/ /\ conn[c] \in {"new", "idle"}
          /\ conn' = [conn EXCEPT ![c] = "none"]
          /\ age' = [age EXCEPT ![c] = 0]
          /\ UNCHANGED req
       \/ /\ conn[c] = "active" /\ ~req[c].gone
          /\ req' = [req EXCEPT ![c].gone = TRUE]
          /\ UNCHANGED <<conn, age>>
    /\ UNCHANGED serverSide

(* Bound: a counter stops where no guard tells higher values apart. *)
Tick ==
    /\ phase # "exited"
    /\ age' = [c \in Conns |->
                 IF \/ conn[c] = "new" /\ age[c] < NewGrace
                    \/ conn[c] = "active" /\ age[c] <= WriteTimeout
                 THEN age[c] + 1 ELSE age[c]]
    /\ waited' = IF phase = "draining" /\ waited < Grace THEN waited + 1 ELSE waited
    /\ UNCHANGED <<phase, exit, sig, db, lst, conn, req>>

BootSteps == OpenDatabase \/ SeedRoles \/ MigrateTable \/ StartServer
MainStep ==
    \/ BootSteps \/ Listen \/ ServeFailed \/ BeginShutdown
    \/ Poll \/ DeadlinePassed \/ CloseDatabase \/ ReturnFromMain

HandlerStep(c) ==
    BodyGivenUp(c) \/ Handle(c) \/ Analyse(c) \/ CallCancelled(c) \/ Return(c) \/ Flush(c)

OutsideStep(c) ==
    Connect(c) \/ Receive(c) \/ BodyArrives(c) \/ CallAnswered(c) \/ HangUp(c) \/ Panic(c)

Next ==
    \/ Tick \/ Signal \/ Restart \/ AcceptFails \/ MainStep
    \/ \E c \in Conns : HandlerStep(c) \/ OutsideStep(c)

Spec == Init /\ [][Next]_vars

(* Time passes and goroutines run; neither a client nor the AI service owes *)
(* the server anything.                                                     *)
FairSpec == Spec /\ WF_vars(Tick) /\ WF_vars(MainStep) /\ \A c \in Conns : WF_vars(HandlerStep(c))
-----------------------------------------------------------------------------
Request ==
    [kind : Kinds \cup {"none"},
     stage : {"none", "reading", "working", "calling", "responding", "returned"},
     calls : 0..MaxCalls, gone : BOOLEAN, wrote : Codes \cup {0, 204, 500},
     logged : Codes \cup {0}, panicked : BOOLEAN,
     cut : BOOLEAN]

(* Type correctness; a connection is active exactly while a goroutine works *)
(* on its request.                                                          *)
TypeOK ==
    /\ phase \in Booting \cup {"select", "draining", "closing", "closed", "exited"}
    /\ exit \in {None, 0, 1, 2} /\ sig \in BOOLEAN
    /\ db \in {"none", "open", "closed"}
    /\ lst \in {"off", "starting", "listening", "failed", "closed"}
    /\ waited \in 0..Grace
    /\ conn \in [Conns -> {"none", "new", "active", "idle"}]
    /\ age \in [Conns -> 0 .. WriteTimeout + NewGrace + 1]
    /\ req \in [Conns -> Request]
    /\ \A c \in Conns : conn[c] = "active" <=> req[c].stage # "none"

(* However connections, requests and the signal interleave, no handler runs *)
(* before the database is open or after main has closed it, although the    *)
(* Close is deferred in main and Shutdown is left to net/http.              *)
HandlersHaveDatabase == \A c \in Conns : conn[c] = "active" => db = "open"

(* A request is lost only when it outlasts the grace period of a stop, or   *)
(* when the listener fails under it, and then the exit status says so;      *)
(* status 0 means nothing was cut off and the database was closed.          *)
CutIsReported ==
    /\ \A c \in Conns :
          req[c].cut => exit = 1 /\ (lst = "failed" \/ (sig /\ waited = Grace))
    /\ exit = 0 => db = "closed" /\ \A c \in Conns : ~req[c].cut

(* When the chain has returned, the request is in the access log with the   *)
(* status that goes out, unless it was a preflight or its handler panicked: *)
(* those are answered and never logged.                                     *)
AccessLogFaithful ==
    \A c \in Conns :
        LET r == req[c] IN
        r.stage = "returned" =>
            IF r.kind = "preflight" \/ r.panicked THEN r.logged = 0 /\ r.wrote # 0
            ELSE r.logged = r.wrote

(* Once a signal is received the process ends, whatever clients, handlers   *)
(* and the AI service do or fail to do.                                     *)
SignalEnds == sig ~> phase = "exited"

(* A request ends although its client stalls; an AI analysis, whose calls   *)
(* have no time limit, at least once its client has hung up.                *)
RequestEnds ==
    \A c \in Conns :
        conn[c] = "active" /\ (req[c].kind # "ai" \/ req[c].gone) ~> conn[c] # "active"
=============================================================================
