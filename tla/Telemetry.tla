------------------------------ MODULE Telemetry -----------------------------
(***************************************************************************)
(* Telemetry (src/src/runtime/telemetry.ts): the policy a tool call runs   *)
(* under, the captures that wait for the global switch and for the SDK,    *)
(* the SDK's queue, the transmissions, which ask for the switch again, the *)
(* session, which is renewed, and the close, which waits for a while.  The *)
(* user turns the switch at any moment.                                    *)
(***************************************************************************)
EXTENDS Naturals, Sequences, FiniteSets, SequencesExt

CONSTANTS Runs,           \* the tool calls
          Outcomes,       \* how they may end: [tool, code]
          Known,          \* the registered tools
          Expected,       \* EXPECTED_CODES
          MaxPending,     \* maxPending
          MaxSwitches, MaxSends

VARIABLES enabled,        \* the global switch
          run,            \* each call: its policy and whether it is watched
          pending,        \* the captures under way
          sdk,            \* "none", "creating", "loading", "ready" or "refused"
          queue,          \* the SDK's events
          sending,        \* the transmission under way
          sent,           \* what has left the process
          aged,           \* the session has reached its age
          session,
          closed, terminated, switches

vars == <<enabled, run, pending, sdk, queue, sending, sent, aged, session, closed, terminated, switches>>

NoSending == [at |-> "none", batch |-> << >>]

-----------------------------------------------------------------------------
(* What is told of a failure, and the filter each event passes twice.      *)

Failure(code) ==
    CASE code = "none" -> [outcome |-> "success", code |-> "none"]
      [] code \in Expected -> [outcome |-> "operational_error", code |-> code]
      [] code \notin Expected \cup {"none"} -> [outcome |-> "unexpected_error", code |-> "unexpected_error"]

Filtered(e) ==
    [e EXCEPT !.tool = IF e.tool \in Known THEN e.tool ELSE "unknown",
              !.code = IF e.code \in Expected \cup {"none", "unexpected_error"} THEN e.code ELSE "none"]

Kept(e) == e.event = "exception" => e.outcome = "unexpected_error"

(* The events of one capture; an unexpected failure is one more.           *)
EventsOf(c) ==
    LET f == Failure(c.code)
        e == [event |-> c.event, tool |-> c.tool, outcome |-> f.outcome, code |-> f.code, policy |-> c.policy]
    IN IF f.outcome = "unexpected_error" THEN <<e, [e EXCEPT !.event = "exception"]>> ELSE <<e>>

RotateSession == session' = (IF aged THEN session + 1 ELSE session) /\ aged' = FALSE

-----------------------------------------------------------------------------
(* The tool calls.  A policy is the conjunction of the configurations the  *)
(* call selects; before the first there is none.                           *)

Allows(policy) == policy = <<TRUE>>

Room == ~closed /\ Cardinality(pending) < MaxPending

Enqueue(r, event, tool, code) ==
    pending' = IF Room /\ Allows(run[r].policy)
               THEN pending \cup {[id |-> <<r, event>>, at |-> "switch", event |-> event, tool |-> tool, code |-> code,
                                   policy |-> run[r].selected]}
               ELSE pending

Start(r) ==
    /\ run[r].at = "none"
    /\ run' = [run EXCEPT ![r] = [at |-> "running", policy |-> << >>, selected |-> {}, watched |-> TRUE]]
    /\ UNCHANGED <<enabled, pending, sdk, queue, sending, sent, aged, session, closed, terminated, switches>>

(* select: what a configuration refuses, no later one allows.              *)
SelectedLast(policy, b) == <<b>>
Selected(policy, b)     == IF policy = << >> THEN <<b>> ELSE <<policy[1] /\ b>>

Select(r) ==
    /\ run[r].at = "running" /\ Cardinality(run[r].selected) < 2
    /\ \E b \in BOOLEAN :
         run' = [run EXCEPT ![r].policy = Selected(@, b), ![r].selected = @ \cup {b}]
    /\ UNCHANGED <<enabled, pending, sdk, queue, sending, sent, aged, session, closed, terminated, switches>>

(* The watchdog of a call that still runs.                                 *)
Stall(r) ==
    /\ run[r].at = "running" /\ run[r].watched /\ ~closed
    /\ run' = [run EXCEPT ![r].watched = FALSE]
    /\ \E o \in Outcomes : Enqueue(r, "stalled", o.tool, "tool_stalled")
    /\ UNCHANGED <<enabled, sdk, queue, sending, sent, aged, session, closed, terminated, switches>>

End(r) ==
    /\ run[r].at = "running"
    /\ run' = [run EXCEPT ![r].at = "ended", ![r].watched = FALSE]
    /\ \E o \in Outcomes : Enqueue(r, "call", o.tool, o.code)
    /\ UNCHANGED <<enabled, sdk, queue, sending, sent, aged, session, closed, terminated, switches>>

-----------------------------------------------------------------------------
(* A capture asks for the switch, waits for the SDK, asks again and hands  *)
(* its events to the SDK, unless the process has given up on telemetry.    *)

On == enabled /\ ~terminated

Advance(c, at) == pending' = (pending \ {c}) \cup {[c EXCEPT !.at = at]}
Drop(c)        == pending' = pending \ {c}

Capture(c) ==
    /\ \/ /\ c.at = "switch"
          /\ IF On THEN Advance(c, "sdk") /\ sdk' = (IF sdk = "none" THEN "creating" ELSE sdk) ELSE Drop(c) /\ UNCHANGED sdk
          /\ UNCHANGED <<queue, aged, session>>
       \/ /\ c.at = "sdk" /\ sdk \in {"ready", "refused"}
          /\ IF sdk = "ready" /\ On
             THEN /\ Advance(c, "handed") /\ RotateSession
                  /\ queue' = queue \o SelectSeq([i \in DOMAIN EventsOf(c) |-> Filtered(EventsOf(c)[i])], Kept)
             ELSE Drop(c) /\ UNCHANGED <<queue, aged, session>>
          /\ UNCHANGED sdk
       \/ /\ c.at = "handed"
          /\ Drop(c)
          /\ UNCHANGED <<sdk, queue, aged, session>>
    /\ UNCHANGED <<enabled, run, sending, sent, closed, terminated, switches>>

(* createSdk asks before and after it loads the library; once refused, the *)
(* SDK is refused for good.                                                *)
CreateSdk ==
    /\ sdk \in {"creating", "loading"}
    /\ sdk' = CASE ~On -> "refused" [] On /\ sdk = "creating" -> "loading" [] On /\ sdk = "loading" -> "ready"
    /\ UNCHANGED <<enabled, run, pending, queue, sending, sent, aged, session, closed, terminated, switches>>

LoadFails ==
    /\ sdk = "loading" /\ sdk' = "refused"
    /\ UNCHANGED <<enabled, run, pending, queue, sending, sent, aged, session, closed, terminated, switches>>

-----------------------------------------------------------------------------
(* The SDK flushes its queue; transmit asks for the switch, filters and    *)
(* dates the batch, asks again and sends.  What is not sent is lost.       *)

Flush ==
    /\ queue # << >> /\ sending.at = "none"
    /\ sending' = [at |-> "asked", batch |-> queue] /\ queue' = << >>
    /\ UNCHANGED <<enabled, run, pending, sdk, sent, aged, session, closed, terminated, switches>>

Transmit ==
    /\ \/ /\ sending.at = "asked"
          /\ IF On
             THEN /\ RotateSession
                  /\ sending' = [at |-> "dated",
                                 batch |-> [i \in DOMAIN sending.batch |-> Filtered(sending.batch[i]) @@ [session |-> session']]]
             ELSE sending' = NoSending /\ UNCHANGED <<aged, session>>
          /\ UNCHANGED sent
       \/ /\ sending.at = "dated"
          /\ sending' = NoSending
          /\ sent' = IF On THEN sent \o [i \in DOMAIN sending.batch |-> sending.batch[i] @@ [off |-> ~enabled, late |-> terminated]]
                     ELSE sent
          /\ UNCHANGED <<aged, session>>
    /\ UNCHANGED <<enabled, run, pending, sdk, queue, closed, terminated, switches>>

-----------------------------------------------------------------------------
Close ==
    /\ ~closed /\ closed' = TRUE
    /\ run' = [r \in Runs |-> IF run[r].at = "running" THEN [run[r] EXCEPT !.watched = FALSE] ELSE run[r]]
    /\ UNCHANGED <<enabled, pending, sdk, queue, sending, sent, aged, session, terminated, switches>>

(* All is sent, or the time for it is over.                                *)
Terminate ==
    /\ closed /\ ~terminated /\ terminated' = TRUE
    /\ UNCHANGED <<enabled, run, pending, sdk, queue, sending, sent, aged, session, closed, switches>>

Switch ==
    /\ switches < MaxSwitches /\ switches' = switches + 1
    /\ enabled' = ~enabled
    /\ UNCHANGED <<run, pending, sdk, queue, sending, sent, aged, session, closed, terminated>>

Age ==
    /\ ~aged /\ session < MaxSends /\ aged' = TRUE
    /\ UNCHANGED <<enabled, run, pending, sdk, queue, sending, sent, session, closed, terminated, switches>>

Stop == terminated /\ UNCHANGED vars

Init ==
    /\ enabled \in BOOLEAN
    /\ run = [r \in Runs |-> [at |-> "none", policy |-> << >>, selected |-> {}, watched |-> FALSE]]
    /\ pending = {} /\ sdk = "none" /\ queue = << >> /\ sending = NoSending /\ sent = << >>
    /\ aged = FALSE /\ session = 0 /\ closed = FALSE /\ terminated = FALSE /\ switches = 0

Next ==
    \/ \E r \in Runs : Start(r) \/ Select(r) \/ Stall(r) \/ End(r)
    \/ \E c \in pending : Capture(c)
    \/ CreateSdk \/ LoadFails \/ Flush \/ Transmit \/ Close \/ Terminate \/ Switch \/ Age \/ Stop

Spec == Init /\ [][Next]_vars

-----------------------------------------------------------------------------
(* What is sent was allowed by every configuration its call had selected,  *)
(* left while the switch was on and telemetry had not ended, and says no   *)
(* more than a registered tool and an expected code; an exception is told  *)
(* of only when the failure was unexpected.                                *)
TelemetryIsAllowed ==
    /\ Cardinality(pending) <= MaxPending
    /\ \A i \in DOMAIN sent :
         LET e == sent[i] IN
         /\ FALSE \notin e.policy /\ ~e.off /\ ~e.late
         /\ e.tool \in Known \cup {"unknown"} /\ e.code \in Expected \cup {"none", "unexpected_error"}
         /\ e.event = "exception" => e.outcome = "unexpected_error"

=============================================================================
