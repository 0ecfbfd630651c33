--------------------------- MODULE ServerLifecycle --------------------------
(***************************************************************************)
(* The HTTP sessions of a process and its end: the sessions and their      *)
(* servers (src/src/http/index.ts), the closing of a server                *)
(* (src/src/server/index.ts), the intelligence runtime of each server,     *)
(* which admits operations and keeps two embedding pools                   *)
(* (src/src/intelligence/lifecycle/service.ts), and the handlers of        *)
(* signals and failures (src/src/runtime/signals.ts).  Clients leave,      *)
(* sessions expire and signals come at any moment.                         *)
(***************************************************************************)
EXTENDS Naturals, Sequences, FiniteSets, SequencesExt

CONSTANTS Requests,       \* each one that initializes has a server of its own
          Kinds,          \* what each request may be
          Models,         \* the embedding models the configuration may name
          MaxPools,       \* #embeddingPools.size
          MaxFaults, MaxSignals

CONSTANTS Inputs,         \* what the client may send
          Writes,         \* the messages the server sends
          MaxFrame        \* MAX_FRAME_SIZE

VARIABLES req,            \* the HTTP requests
          server,         \* the server each request made
          servers,        \* those that are open
          sessions,       \* those whose session may be asked for
          closing,
          shutdown,       \* "none", "running", "ok" or "failed"
          awaited,        \* the servers that shutdown waits for
          signals,        \* the signals, and the fatal errors, that have come
          exit,           \* the exit code, -1 while the process runs
          faults

VARIABLES rest,           \* what has not arrived
          seen,           \* what has
          frame, discarding,
          received,       \* messages and protocol errors, in order
          writes,         \* the state of each send
          closed

stdio   == <<rest, seen, frame, discarding, received, writes, closed>>

http    == <<req, servers, sessions>>
process == <<closing, shutdown, awaited, signals, exit>>
vars    == <<req, server, servers, sessions, closing, shutdown, awaited, signals, exit, faults>>

NoServer == [close |-> "none", connect |-> "none", transport |-> "none", runtime |-> "open",
             pools |-> << >>, retired |-> {}, failed |-> FALSE]

Is(r, s)      == req[r].at = s
To(r, s)      == req' = [req EXCEPT ![r].at = s]
Ends(r, code) == req' = [req EXCEPT ![r] = [at |-> "done", code |-> code]]

(* The server a request made, or the one whose session it names.           *)
Of(r) == req[r].server

Setup == {"connecting", "initializing", "responding"}
Live  == exit = 0 - 1

(* The client has gone, or the process shuts down.                         *)
Interrupted(r) == closing \/ req[r].gone

Operating(s) == {r \in Requests : req[r].at \in {"operating", "embedding"} /\ Of(r) = s}

-----------------------------------------------------------------------------
(* closeServer: the server leaves the set and its close begins, once.      *)

Closes(sv, S) == [s \in Requests |-> IF s \in S /\ sv[s].close = "none" THEN [sv[s] EXCEPT !.close = "transport"] ELSE sv[s]]

CloseServer(s) ==
    /\ servers' = servers \ {s}
    /\ server' = Closes(server, {s})

DiscardSession(s) ==
    /\ sessions' = sessions \ {s}
    /\ IF s \in sessions THEN CloseServer(s) ELSE UNCHANGED <<servers, server>>

(* The operations the runtime has admitted have ended.                     *)
RuntimeIdle(s)    == Operating(s) = {}
RuntimeAnyhow(s)  == TRUE
RuntimeDrained(s) == RuntimeIdle(s)

(* The stages of a close: the transport, the runtime, whose pools may fail *)
(* to close, and the telemetry, which is closed in any case.               *)
CloseStep(s) ==
    /\ \/ /\ server[s].close = "transport"
          /\ server' = [server EXCEPT ![s].close = "runtime", ![s].runtime = "closing",
                                      ![s].transport = IF @ = "open" THEN "closed" ELSE @]
          /\ UNCHANGED faults
       \/ /\ server[s].close = "runtime" /\ RuntimeDrained(s)
          /\ \/ /\ server' = [server EXCEPT ![s].close = "telemetry", ![s].runtime = "closed", ![s].pools = << >>, ![s].retired = {}]
                /\ UNCHANGED faults
             \/ /\ faults < MaxFaults /\ faults' = faults + 1
                /\ server' = [server EXCEPT ![s].close = "telemetry", ![s].runtime = "closed", ![s].failed = TRUE,
                                            ![s].pools = << >>, ![s].retired = {}]
       \/ server[s].close = "telemetry" /\ server' = [server EXCEPT ![s].close = "closed"] /\ UNCHANGED faults
    /\ UNCHANGED <<http, process>>

-----------------------------------------------------------------------------
(* The requests.                                                           *)

(* handleMcpRequest, up to isLegacyRequest.                                *)
Arrive(r) ==
    /\ Is(r, "none")
    /\ \E k \in Kinds[r], s \in Requests :
         /\ IF k = "initialize" THEN s = r ELSE server[s].connect = "connected"
         /\ req' = [req EXCEPT ![r] = IF closing THEN [at |-> "done", code |-> 503]
                                      ELSE [at |-> "checking", kind |-> k, server |-> s, model |-> << >>, gone |-> FALSE]]
    /\ UNCHANGED <<server, servers, sessions, process, faults>>

Route(r) ==
    /\ Is(r, "checking")
    /\ IF closing THEN Ends(r, 503) /\ UNCHANGED <<server, servers>>
       ELSE IF req[r].kind = "initialize"
       THEN /\ To(r, "connecting")
            /\ server' = [server EXCEPT ![r].connect = "pending"]
            /\ servers' = servers \cup {r}
       ELSE /\ IF Of(r) \in sessions THEN To(r, "handling") ELSE Ends(r, 404)
            /\ UNCHANGED <<server, servers>>
    /\ UNCHANGED <<sessions, process, faults>>

(* server.connect settles, be it long after its request was answered.      *)
Connect(s) ==
    /\ server[s].connect = "pending"
    /\ IF req[s].at = "done" \/ Interrupted(s)
       THEN /\ server' = Closes([server EXCEPT ![s].connect = "connected", ![s].transport = "closed"], {s})
            /\ servers' = servers \ {s}
            /\ UNCHANGED req
       ELSE /\ server' = [server EXCEPT ![s].connect = "connected", ![s].transport = "open"]
            /\ To(s, "initializing")
            /\ UNCHANGED servers
    /\ UNCHANGED <<sessions, process, faults>>

ConnectFails(s) ==
    /\ server[s].connect = "pending" /\ faults < MaxFaults /\ faults' = faults + 1
    /\ server' = Closes([server EXCEPT ![s].connect = "failed"], IF req[s].at = "connecting" THEN {s} ELSE {})
    /\ IF req[s].at = "connecting" THEN servers' = servers \ {s} /\ Ends(s, 500) ELSE UNCHANGED <<servers, req>>
    /\ UNCHANGED <<sessions, process>>

(* onsessioninitialized, when the message does initialize.                 *)
Initialize(r) ==
    /\ Is(r, "initializing")
    /\ To(r, "responding")
    /\ \/ sessions' = IF closing THEN sessions ELSE sessions \cup {r}
       \/ UNCHANGED sessions
    /\ UNCHANGED <<server, servers, process, faults>>

(* A server without a session is closed once it has answered.              *)
Abandoned(r) == r \notin sessions

Respond(r) ==
    /\ Is(r, "responding") /\ Ends(r, 200)
    /\ IF Abandoned(r) THEN CloseServer(r) ELSE UNCHANGED <<server, servers>>
    /\ UNCHANGED <<sessions, process, faults>>

Interrupt(r) ==
    /\ req[r].at \in Setup /\ Interrupted(r)
    /\ CloseServer(r)
    /\ Ends(r, IF closing THEN 503 ELSE 500)
    /\ UNCHANGED <<sessions, process, faults>>

ClientGoes(r) ==
    /\ req[r].at \in Setup /\ ~req[r].gone
    /\ req' = [req EXCEPT ![r].gone = TRUE]
    /\ UNCHANGED <<server, servers, sessions, process, faults>>

(* A DELETE ends its session, whatever else the session is doing.          *)
Delete(r) ==
    /\ Is(r, "handling") /\ req[r].kind = "delete"
    /\ DiscardSession(Of(r))
    /\ Ends(r, 200)
    /\ UNCHANGED <<process, faults>>

Expire(s) ==
    /\ s \in sessions /\ ~closing
    /\ DiscardSession(s)
    /\ UNCHANGED <<req, process, faults>>

-----------------------------------------------------------------------------
(* An operation in the runtime of a server, which keeps the pools of the   *)
(* models used last.                                                       *)

Admit(r) ==
    /\ Is(r, "handling") /\ req[r].kind = "call"
    /\ IF server[Of(r)].runtime = "open" THEN To(r, "operating") ELSE Ends(r, 500)
    /\ UNCHANGED <<server, servers, sessions, process, faults>>

Used(pools, m) == Append(SelectSeq(pools, LAMBDA p : p # m), m)

UsePool(r, m) ==
    LET pools == Used(server[Of(r)].pools, m) IN
    /\ Is(r, "operating")
    /\ req' = [req EXCEPT ![r].at = "embedding", ![r].model = <<m>>]
    /\ server' = [server EXCEPT ![Of(r)].pools = IF Len(pools) > MaxPools THEN Tail(pools) ELSE pools,
                                ![Of(r)].retired = IF Len(pools) > MaxPools THEN @ \cup {Head(pools)} ELSE @]
    /\ UNCHANGED <<servers, sessions, process, faults>>

Retire(s, m) ==
    /\ m \in server[s].retired
    /\ server' = [server EXCEPT ![s].retired = @ \ {m}]
    /\ UNCHANGED <<http, process, faults>>

EndOperation(r) ==
    /\ req[r].at \in {"operating", "embedding"}
    /\ Ends(r, 200)
    /\ UNCHANGED <<server, servers, sessions, process, faults>>

-----------------------------------------------------------------------------
(* The end of the process.  A signal and a fatal error share one shutdown; *)
(* either a second time, or a deadline, ends the process at once.          *)

Shutdown ==
    IF shutdown # "none" THEN UNCHANGED <<closing, shutdown, awaited, servers, server>>
    ELSE /\ closing' = TRUE /\ shutdown' = "running"
         /\ awaited' = servers \cup {s \in Requests : server[s].close \notin {"none", "closed"}}
         /\ servers' = {}
         /\ server' = Closes(server, servers)

Notice(kind) ==
    /\ Live /\ Len(signals) < MaxSignals
    /\ signals' = Append(signals, kind)
    /\ exit' = IF Contains(signals, kind) THEN 1 ELSE exit
    /\ IF Contains(signals, kind) THEN UNCHANGED <<closing, shutdown, awaited, servers, server>> ELSE Shutdown
    /\ UNCHANGED <<req, sessions, faults>>

Settle ==
    /\ Live /\ shutdown = "running" /\ \A s \in awaited : server[s].close = "closed"
    /\ shutdown' = IF \E s \in awaited : server[s].failed THEN "failed" ELSE "ok"
    /\ sessions' = {}
    /\ UNCHANGED <<req, server, servers, closing, awaited, signals, exit, faults>>

(* The reaction of a fatal error runs before that of a signal.             *)
Exit ==
    /\ Live /\ shutdown \in {"ok", "failed"}
    /\ exit' = IF Contains(signals, "fatal") \/ shutdown = "failed" THEN 1 ELSE 0
    /\ UNCHANGED <<req, server, servers, sessions, closing, shutdown, awaited, signals, faults>>

Deadline ==
    /\ Live /\ shutdown = "running"
    /\ exit' = 1
    /\ UNCHANGED <<req, server, servers, sessions, closing, shutdown, awaited, signals, faults>>

Stop == ~Live /\ UNCHANGED vars

Init ==
    /\ req = [r \in Requests |-> [at |-> "none"]]
    /\ server = [r \in Requests |-> NoServer]
    /\ servers = {} /\ sessions = {}
    /\ closing = FALSE /\ shutdown = "none" /\ awaited = {}
    /\ signals = << >> /\ exit = 0 - 1 /\ faults = 0

Next ==
    \/ /\ Live
       /\ \E r \in Requests :
            \/ Arrive(r) \/ Route(r) \/ Connect(r) \/ ConnectFails(r) \/ Initialize(r) \/ Respond(r)
            \/ Interrupt(r) \/ ClientGoes(r) \/ Delete(r) \/ Expire(r) \/ CloseStep(r)
            \/ Admit(r) \/ EndOperation(r) \/ \E m \in Models : UsePool(r, m) \/ Retire(r, m)
    \/ \E k \in {"signal", "fatal"} : Notice(k)
    \/ Settle \/ Exit \/ Deadline \/ Stop

Spec == Init /\ [][Next]_vars

-----------------------------------------------------------------------------
(* No server is lost: one that was made is open and has a session or its   *)
(* setup under way, or is being closed; a pending connection that a close  *)
(* overtook never leaves a transport open.                                 *)
NoServerIsLost ==
    \A s \in Requests :
      /\ server[s].connect # "none" /\ server[s].close = "none" => s \in servers /\ (s \in sessions \/ req[s].at \in Setup)
      /\ server[s].close \notin {"none", "transport"} => server[s].transport # "open"

(* A runtime that has closed keeps no pool and runs no operation, and one  *)
(* that is open keeps as many pools as it may.                             *)
ClosedRuntimesAreEmpty ==
    \A s \in Requests :
      /\ Len(server[s].pools) <= MaxPools
      /\ server[s].runtime = "closed" => server[s].pools = << >> /\ Operating(s) = {}

(* A process that ends with 0 has closed every server without a failure    *)
(* and has seen no fatal error.                                            *)
CleanExits ==
    exit = 0 =>
      /\ ~Contains(signals, "fatal") /\ sessions = {}
      /\ \A s \in Requests : server[s].close = "closed" \/ server[s].connect \in {"none", "failed"}

ServersEndWell == NoServerIsLost /\ ClosedRuntimesAreEmpty /\ CleanExits

-----------------------------------------------------------------------------
(* The stdio transport.                                                    *)

Error == <<"error">>

-----------------------------------------------------------------------------
(* The messages of a line: one, those of a batch, or none.                 *)
Chomp(line) == IF line # << >> /\ Last(line) = "r" THEN Front(line) ELSE line

Message(item) == IF Contains(item, "!") THEN Error ELSE item

ProcessLine(line) ==
    LET text  == Chomp(line)
        items == SelectSeq(text, LAMBDA b : b # "r")
    IN IF text = << >> THEN << >>
       ELSE IF items \in {<< >>, <<"[">>} \/ Contains(items, "?") THEN <<Error>>
       ELSE IF Head(items) # "[" THEN <<Message(items)>>
       ELSE [i \in 1..Len(items) - 1 |-> Message(<<items[i + 1]>>)]

(* One byte of onData: the state of the reader is all that a chunk leaves. *)
TooLong(r) == ~r.discarding /\ Len(r.frame) + 1 > MaxFrame

Byte(r, b) ==
    CASE b = "n"   -> [frame |-> << >>, discarding |-> FALSE,
                       out |-> IF r.discarding THEN r.out ELSE r.out \o ProcessLine(r.frame)]
      [] b # "n" /\ r.discarding  -> r
      [] b # "n" /\ TooLong(r)    -> [frame |-> << >>, discarding |-> TRUE, out |-> Append(r.out, Error)]
      [] b # "n" /\ ~r.discarding /\ ~TooLong(r) -> [r EXCEPT !.frame = Append(@, b)]

ByteKeepingDiscard(r, b) ==
    CASE b = "n"   -> [frame |-> << >>, discarding |-> r.discarding,
                       out |-> IF r.discarding THEN r.out ELSE r.out \o ProcessLine(r.frame)]
      [] b # "n" /\ r.discarding  -> r
      [] b # "n" /\ TooLong(r)    -> [frame |-> << >>, discarding |-> TRUE, out |-> Append(r.out, Error)]
      [] b # "n" /\ ~r.discarding /\ ~TooLong(r) -> [r EXCEPT !.frame = Append(@, b)]

Reads(r, b) == Byte(r, b)

Reader == [frame |-> frame, discarding |-> discarding, out |-> received]

-----------------------------------------------------------------------------
Pending(w) == writes[w] = "pending"

(* A chunk arrives.                                                        *)
OnData ==
    /\ ~closed
    /\ \E k \in 1..Len(rest) :
         LET r == FoldLeft(Reads, Reader, SubSeq(rest, 1, k)) IN
         /\ frame' = r.frame /\ discarding' = r.discarding /\ received' = r.out
         /\ seen' = seen \o SubSeq(rest, 1, k)
         /\ rest' = SubSeq(rest, k + 1, Len(rest))
    /\ UNCHANGED <<writes, closed>>

(* stdin ends or fails, stdout does, or the server closes: what is pending *)
(* is refused.                                                             *)
Close ==
    /\ ~closed /\ closed' = TRUE
    /\ frame' = << >>
    /\ writes' = [w \in Writes |-> IF Pending(w) THEN "failed" ELSE writes[w]]
    /\ \/ UNCHANGED received
       \/ rest = << >> /\ frame # << >> /\ ~discarding /\ received' = Append(received, Error)
    /\ UNCHANGED <<rest, seen, discarding>>

(* A handler closes the transport: the lines after its message are left.   *)
CloseWithin ==
    /\ ~closed /\ closed' = TRUE
    /\ \E k \in 1..Len(rest) :
         LET r == FoldLeft(Reads, Reader, SubSeq(rest, 1, k)) IN
         /\ rest[k] = "n" /\ Len(r.out) > Len(received)
         /\ \E j \in Len(received) + 1..Len(r.out) : r.out[j] # Error /\ received' = SubSeq(r.out, 1, j)
         /\ seen' = seen \o SubSeq(rest, 1, k)
         /\ rest' = SubSeq(rest, k + 1, Len(rest))
    /\ frame' = << >>
    /\ writes' = [w \in Writes |-> IF Pending(w) THEN "failed" ELSE writes[w]]
    /\ UNCHANGED discarding

Send(w) ==
    /\ writes[w] = "none"
    /\ \E to \in IF closed THEN {"failed"} ELSE {"sent", "pending"} : writes' = [writes EXCEPT ![w] = to]
    /\ UNCHANGED <<rest, seen, frame, discarding, received, closed>>

Drain ==
    /\ ~closed /\ \E w \in Writes : Pending(w)
    /\ writes' = [w \in Writes |-> IF Pending(w) THEN "sent" ELSE writes[w]]
    /\ UNCHANGED <<rest, seen, frame, discarding, received, closed>>

Ended == closed /\ (\A w \in Writes : writes[w] # "none") /\ UNCHANGED stdio

StdioInit ==
    /\ rest \in Inputs /\ seen = << >>
    /\ frame = << >> /\ discarding = FALSE /\ received = << >>
    /\ writes = [w \in Writes |-> "none"] /\ closed = FALSE

StdioNext == OnData \/ Close \/ CloseWithin \/ Drain \/ Ended \/ \E w \in Writes : Send(w)

-----------------------------------------------------------------------------
(* The lines of what has arrived, without regard to how it was cut.        *)
LineEnds(bytes)   == SetToSortSeq({i \in DOMAIN bytes : bytes[i] = "n"}, <)
LineOf(bytes, i) == SubSeq(bytes, (IF i = 1 THEN 0 ELSE LineEnds(bytes)[i - 1]) + 1, LineEnds(bytes)[i] - 1)
Fits(line)    == Len(line) <= MaxFrame
Results(line) == IF Fits(line) THEN ProcessLine(line) ELSE <<Error>>
Unended(bytes) == IF LineEnds(bytes) = << >> THEN bytes ELSE SubSeq(bytes, Last(LineEnds(bytes)) + 1, Len(bytes))
Whole(bytes)  ==
    FlattenSeq([i \in DOMAIN LineEnds(bytes) |-> Results(LineOf(bytes, i))]) \o (IF Fits(Unended(bytes)) THEN << >> ELSE <<Error>>)

(* Every line that fits gives its messages and every one that does not one *)
(* error, in order and however the stream was cut; a transport that closed *)
(* gave the first of them and left no write unsettled.                     *)
LinesArrive ==
    /\ ~closed => received = Whole(seen)
    /\ closed  => /\ \A w \in Writes : ~Pending(w)
                  /\ IsPrefix(received, Append(Whole(seen), Error))

=============================================================================
