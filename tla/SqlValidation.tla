--------------------------- MODULE SqlValidation ----------------------------
(***************************************************************************)
(* Patches of SQL files and the validator they consult                     *)
(* (runtime/sql-assistance.ts, sql-postgres.ts, patch/engine.ts): options  *)
(* and configured defaults are resolved once, the candidate is validated   *)
(* before it is previewed or formatted, and what formatting changed is     *)
(* validated again; the adapter gives each request a fresh thread, one at  *)
(* a time, whose place is free when it has ended.  Timers and threads may  *)
(* act at any time; a variant is treated as a version is.                  *)
(***************************************************************************)
EXTENDS Integers, Sequences, FiniteSets, SequencesExt

CONSTANTS Worlds,      \* [calls : sequence of [how, options, candidate], defaults]
          Formatted,   \* what the formatter makes of each content
          Verdicts,    \* what the parser says of it: "valid", "invalid" or "unsupported"
          Loaders,     \* the dialects that have an adapter
          None,        \* an option that is not given
          MaxPending,
          MaxFaults    \* bound: timers that fire and threads that fail

VARIABLES world,
          call,        \* "new", "validating", "decided", "previewed", "written" or "refused"
          stage,       \* what each call validates: its "candidate" or what is "formatted"
          decision,    \* the last decision on it
          receipt,     \* the call whose preview can be applied, 0 when there is none
          queue, active, pending,
          task,        \* of each validation: "none", "open", "ending" or "done"
          result,      \* the status it resolves to
          threads,     \* the threads that run
          fired        \* faults so far

adapter == <<queue, active, pending, task, result, threads>>
vars == <<world, call, stage, decision, receipt, adapter, fired>>

Calls == DOMAIN world.calls
Validations == Calls \X {"candidate", "formatted"}
NoOptions == [policy |-> None, dialect |-> None, version |-> None]

Init == /\ world \in Worlds
        /\ call = [c \in Calls |-> "new"] /\ stage = [c \in Calls |-> "candidate"]
        /\ decision = [c \in Calls |-> << >>] /\ receipt = 0
        /\ queue = << >> /\ active = {} /\ pending = 0 /\ task = [v \in Validations |-> "none"]
        /\ result = [v \in Validations |-> "unavailable"] /\ threads = {} /\ fired = 0

Faulty == fired < MaxFaults /\ fired' = fired + 1

----------------------------------------------------------------------------
(* resolveSqlAssistanceOptions(): a version of the defaults goes with      *)
(* their dialect.                                                          *)
Or(a, b) == IF a # None THEN a ELSE b

Resolve(o, d) ==
    LET policy  == Or(Or(o.policy, d.policy), "advisory")
        dialect == Or(o.dialect, d.dialect)
        changed == o.dialect # None /\ dialect # d.dialect
    IN [policy     |-> policy,
        dialect    |-> dialect,
        version    |-> Or(o.version, IF changed THEN None ELSE d.version),
        requested  |-> policy = "required" \/ o # NoOptions,
        overridden |-> o.policy = "skip" \/ (d.policy = "required" /\ o.policy = "advisory")]

(* A receipt is applied to its preview's candidate, under its options.     *)
Asked(c) == IF world.calls[c].how = "receipt" THEN world.calls[receipt] ELSE world.calls[c]
Options(c) == Resolve(Asked(c).options, world.defaults)
Content(c, s) == IF s = "candidate" THEN Asked(c).candidate ELSE Formatted[Asked(c).candidate]

(* decideSqlPatch()                                                        *)
Decide(c, status, validator) ==
    [allowed    |-> Options(c).policy # "required" \/ status = "valid",
     overridden |-> Options(c).overridden, status |-> status, validator |-> validator]

(* What is decided without an adapter.                                     *)
Skipped(o)   == o.policy = "skip" \/ ~o.requested
Unloaded(o)  == o.dialect \notin Loaders
(* The one adapter there is knows one dialect and version.                 *)
Supported(o) == o.dialect = "postgresql" /\ o.version \in {None, "18"}

----------------------------------------------------------------------------
(* The adapter.                                                            *)

(* #dispatch(): requests whose thread cannot be created are given up.      *)
Dispatch(q, a, p, tk) ==
    \E failed \in 0 .. (IF a = {} THEN Len(q) ELSE 0) :
       LET lost    == ToSet(SubSeq(q, 1, failed))
           started == IF a = {} /\ failed < Len(q) THEN {q[failed + 1]} ELSE {}
       IN /\ failed = 0 \/ fired + failed <= MaxFaults
          /\ fired' = fired + failed
          /\ queue' = SubSeq(q, 1 + failed + Cardinality(started), Len(q))
          /\ active' = a \cup started /\ pending' = p - failed
          /\ task' = [v \in Validations |-> IF v \in lost THEN "done" ELSE tk[v]]
          /\ threads' = (threads \cap a) \cup started

(* validate(): over the limit the answer is ready.                         *)
Enqueue(v) ==
    IF pending >= MaxPending
    THEN task' = [task EXCEPT ![v] = "done"] /\ UNCHANGED <<queue, active, pending, threads, fired>>
    ELSE Dispatch(Append(queue, v), active, pending + 1, [task EXCEPT ![v] = "open"])

(* #settle(), for the first outcome: a thread is to end before the answer  *)
(* is given, a request that waits goes away.                               *)
Settle(v, status) ==
    /\ task[v] = "open" /\ result' = [result EXCEPT ![v] = status]
    /\ IF v \in active
       THEN task' = [task EXCEPT ![v] = "ending"] /\ UNCHANGED <<queue, active, pending, threads>>
       ELSE /\ task' = [task EXCEPT ![v] = "done"]
            /\ queue' = Remove(queue, v) /\ pending' = pending - 1 /\ UNCHANGED <<active, threads>>

Idle == UNCHANGED <<world, call, stage, decision, receipt>>

Reply(v) == v \in threads /\ Settle(v, Verdicts[Content(v[1], v[2])]) /\ Idle /\ UNCHANGED fired

(* The adapter's timer, or an error of the thread.                         *)
Fail(v) == Settle(v, "unavailable") /\ Idle /\ Faulty

(* The thread has ended, by itself or when told to: #release().            *)
Ended(v) ==
    /\ v \in threads /\ task[v] # "open"
    /\ Dispatch(queue, active \ {v}, pending - 1, [task EXCEPT ![v] = "done"])
    /\ Idle /\ UNCHANGED result

Exit(v) ==
    /\ v \in threads /\ task[v] = "open" /\ fired < MaxFaults
    /\ Dispatch(queue, active \ {v}, pending - 1, [task EXCEPT ![v] = "done"])
    /\ Idle /\ UNCHANGED result

(* The thread did not end in time: the answer is given up, its place kept. *)
Unretired(v) == /\ task[v] = "ending" /\ Faulty
                /\ task' = [task EXCEPT ![v] = "done"] /\ result' = [result EXCEPT ![v] = "unavailable"]
                /\ Idle /\ UNCHANGED <<queue, active, pending, threads>>

----------------------------------------------------------------------------
(* The calls.                                                              *)

(* evaluateSqlCandidate()                                                  *)
Decided(c, status, validator) ==
    /\ call' = [call EXCEPT ![c] = "decided"]
    /\ decision' = [decision EXCEPT ![c] = Decide(c, status, validator)]

Evaluate(c, s) ==
    LET o == Options(c) IN
    /\ stage' = [stage EXCEPT ![c] = s] /\ UNCHANGED <<world, receipt, result>>
    /\ CASE Skipped(o)   -> Decided(c, "skipped", FALSE) /\ UNCHANGED <<queue, active, pending, task, threads, fired>>
         [] ~Skipped(o) /\ Unloaded(o) ->
                Decided(c, "unsupported", FALSE) /\ UNCHANGED <<queue, active, pending, task, threads, fired>>
         [] ~Skipped(o) /\ ~Unloaded(o) /\ ~Supported(o) ->
                Decided(c, "unsupported", TRUE) /\ UNCHANGED <<queue, active, pending, task, threads, fired>>
         [] OTHER -> \/ /\ call' = [call EXCEPT ![c] = "validating"]
                        /\ Enqueue(<<c, s>>) /\ UNCHANGED decision
                     \/ /\ Faulty /\ Decided(c, "unavailable", FALSE)
                        /\ UNCHANGED <<queue, active, pending, task, threads>>

(* The options sent along with a receipt must be those of its preview.     *)
SameOptions(c) == LET own == world.calls[c].options
                  IN own = NoOptions \/ Resolve(own, world.defaults) = Options(c)

Refuse(c) == call' = [call EXCEPT ![c] = "refused"]

Start(c) ==
    /\ call[c] = "new"
    /\ \/ world.calls[c].how # "receipt" /\ Evaluate(c, "candidate")
       \/ /\ world.calls[c].how = "receipt" /\ receipt # 0
          /\ IF SameOptions(c) THEN Evaluate(c, "formatted")
             ELSE Refuse(c) /\ UNCHANGED <<world, stage, decision, receipt, adapter, fired>>

Answered(c) == /\ call[c] = "validating" /\ task[<<c, stage[c]>>] = "done"
               /\ Decided(c, result[<<c, stage[c]>>], TRUE)
               /\ UNCHANGED <<world, stage, receipt, adapter, fired>>

(* bounded(): the deadline answers for the adapter, the caller's signal    *)
(* ends the call; both abandon the validation.                             *)
Abandon(v) == IF task[v] = "open" THEN Settle(v, "unavailable")
              ELSE UNCHANGED adapter

TimeOut(c) == /\ call[c] = "validating" /\ Faulty /\ Abandon(<<c, stage[c]>>)
              /\ Decided(c, "unavailable", FALSE) /\ UNCHANGED <<world, stage, receipt>>

Cancel(c) == /\ call[c] = "validating" /\ Faulty /\ Abandon(<<c, stage[c]>>)
             /\ Refuse(c) /\ UNCHANGED <<world, stage, decision, receipt>>

(* A receipt's candidate is validated anew, by the validator of its        *)
(* preview or, as then, by none.                                           *)
SameValidator(c) == world.calls[c].how = "receipt" => decision[c].validator = decision[receipt].validator

(* Mutant: what formatting changed is not validated again.                 *)
ProceedFormatted(c) ==
    /\ call[c] = "decided"
    /\ IF ~decision[c].allowed \/ (stage[c] = "formatted" /\ ~SameValidator(c))
       THEN Refuse(c) /\ UNCHANGED <<world, stage, decision, receipt, adapter, fired>>
       ELSE IF world.calls[c].how = "preview"
            THEN /\ call' = [call EXCEPT ![c] = "previewed"] /\ receipt' = c
                 /\ UNCHANGED <<world, stage, decision, adapter, fired>>
            ELSE /\ call' = [call EXCEPT ![c] = "written"] /\ stage' = [stage EXCEPT ![c] = "formatted"]
                 /\ UNCHANGED <<world, decision, receipt, adapter, fired>>

(* What follows a decision: formatting changes the content or not.         *)
Proceed(c) ==
    /\ call[c] = "decided"
    /\ IF ~decision[c].allowed \/ (stage[c] = "formatted" /\ ~SameValidator(c))
       THEN Refuse(c) /\ UNCHANGED <<world, stage, decision, receipt, adapter, fired>>
       ELSE IF world.calls[c].how = "preview"
            THEN /\ call' = [call EXCEPT ![c] = "previewed"] /\ receipt' = c
                 /\ UNCHANGED <<world, stage, decision, adapter, fired>>
            ELSE IF stage[c] = "candidate" /\ Content(c, "formatted") # Content(c, "candidate")
                 THEN Evaluate(c, "formatted")
                 ELSE /\ call' = [call EXCEPT ![c] = "written"]
                      /\ UNCHANGED <<world, stage, decision, receipt, adapter, fired>>

Over == (\A c \in Calls : call[c] \notin {"validating", "decided"}) /\ UNCHANGED vars

Next == Over \/ (\E c \in Calls : Start(c) \/ Answered(c) \/ TimeOut(c) \/ Cancel(c) \/ Proceed(c))
             \/ (\E v \in Validations : Reply(v) \/ Fail(v) \/ Ended(v) \/ Exit(v) \/ Unretired(v))

Spec == Init /\ [][Next]_vars

----------------------------------------------------------------------------
(* What is written under the required policy is valid, in the very form    *)
(* that is written; a decision that reports a verdict reports that of what *)
(* was written; where the configuration requires validation, a write that  *)
(* is not valid says that the requirement was overridden; a receipt writes *)
(* what was previewed, formatted.                                          *)
WrittenAsDecided(c) ==
    LET verdict == Verdicts[Content(c, stage[c])] IN
    /\ Content(c, stage[c]) = Formatted[Asked(c).candidate]
    /\ Options(c).policy = "required" => verdict = "valid"
    /\ decision[c].status \in {"valid", "invalid"} => verdict = decision[c].status
    /\ world.defaults.policy = "required" /\ verdict # "valid" => decision[c].overridden

(* A thread that may still run is never joined by a second one; the count  *)
(* is of the requests that hold a place, and nobody waits for a free one.  *)
AdapterAccounts ==
    /\ threads = active /\ Cardinality(active) <= 1
    /\ pending = Len(queue) + Cardinality(active) /\ pending <= MaxPending
    /\ active = {} => queue = << >>
    /\ \A v \in Validations : /\ task[v] = "open" => v \in ToSet(queue) \cup active
                              /\ task[v] = "ending" => v \in active
    /\ \A c \in Calls : call[c] = "validating" => task[<<c, stage[c]>>] # "none"

SqlIsValidated == AdapterAccounts /\ \A c \in Calls : call[c] = "written" => WrittenAsDecided(c)
=============================================================================
