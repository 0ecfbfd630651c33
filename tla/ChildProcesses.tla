--------------------------- MODULE ChildProcesses ---------------------------
(***************************************************************************)
(* The commands that are run as processes of their own: formatters         *)
(* (runtime/process-input.ts), Git (intelligence/workspace/git.ts), Git's  *)
(* inventories (tools/code-intelligence.ts), commands of the service       *)
(* manager (installer/service.ts) and questions to it (service-state.ts),  *)
(* over runtime/subprocess.ts, on a system with process groups.  A leader  *)
(* may start a process of its group and one that leaves it; either may     *)
(* hold the output open.  The two outputs are one here; a process that is  *)
(* killed is gone.                                                         *)
(***************************************************************************)
EXTENDS Naturals, FiniteSets

CONSTANTS Runners,     \* those of "input", "git", "inventory", "service" and "query" to run
          Limit,       \* the most output a call accepts
          MaxOutput    \* bound: what is written

VARIABLES runner,
          deaf,        \* the processes that ignore SIGTERM
          alive, holds,  \* the processes that run, and that hold the output open
          started,     \* the processes started so far
          code,        \* how the leader ended: "none", "ok", "failed" or "signal"
          written, got,  \* bytes written and read
          reader,      \* "reading", "exceeded", "stopping", "failed" or "done"
          term,        \* the termination of the tree: "none", "grace" or "done"
          due,         \* the deadline passed or the caller gave up
          outcome      \* "none", "answered" or "failed"

processes == <<alive, holds, code>>
vars == <<runner, deaf, processes, started, written, got, reader, term, due, outcome>>

Group == {"leader", "child"}

Init == /\ runner \in Runners /\ deaf \in SUBSET Group
        /\ alive = {"leader"} /\ holds = {"leader"} /\ started = {"leader"} /\ code = "none"
        /\ written = 0 /\ got = 0 /\ reader = "reading" /\ term = "none" /\ due = FALSE /\ outcome = "none"

----------------------------------------------------------------------------
(* The processes.                                                          *)
Outside == UNCHANGED <<runner, deaf, got, reader, term, due, outcome>>

Fork == /\ alive \cap Group # {}
        /\ \E p \in {"child", "stray"} \ started : \E open \in BOOLEAN :
             /\ started' = started \cup {p} /\ alive' = alive \cup {p}
             /\ holds' = IF open /\ holds \cap Group # {} THEN holds \cup {p} ELSE holds
        /\ UNCHANGED <<code, written>> /\ Outside

Write == /\ holds # {} /\ written < MaxOutput /\ written' = written + 1
         /\ UNCHANGED <<processes, started>> /\ Outside

Exit == /\ \E p \in alive : \E how \in {"ok", "failed", "signal"} :
             /\ alive' = alive \ {p} /\ holds' = holds \ {p}
             /\ code' = IF p = "leader" THEN how ELSE code
        /\ UNCHANGED <<started, written>> /\ Outside

----------------------------------------------------------------------------
(* terminateProcessTree().  A leader that a signal ended has no exit code. *)
Signal(killed) == /\ alive' = alive \ killed /\ holds' = holds \ killed
                  /\ code' = IF "leader" \in alive \cap killed THEN "signal" ELSE code
Kill == Signal(Group) /\ term' = "done"

HasExitCode == code \in {"ok", "failed"}

(* force and ensureDescendantsExit                                         *)
Terminate(force, ensure) ==
    IF HasExitCode /\ ~force /\ ~ensure THEN term' = "done" /\ UNCHANGED processes
    ELSE IF force \/ HasExitCode THEN Kill
    ELSE Signal(Group \ deaf) /\ term' = "grace"

Ensures == runner \in {"git", "inventory"}

(* The leader ended or the time of grace is over.                          *)
Grace == /\ term = "grace"
         /\ IF code # "none" /\ ~Ensures THEN term' = "done" /\ UNCHANGED processes ELSE Kill
         /\ UNCHANGED <<runner, deaf, started, written, got, reader, due, outcome>>

(* Git's readers ask for the termination once and go on.                   *)
TerminateOnce == IF term = "none" THEN Terminate(FALSE, TRUE) ELSE UNCHANGED <<processes, term>>

----------------------------------------------------------------------------
(* The readers.                                                            *)
Read ==
    /\ outcome = "none" /\ got < written /\ reader \in {"reading", "exceeded"} /\ got' = got + 1
    /\ IF got < Limit \/ reader = "exceeded" THEN UNCHANGED <<processes, term, reader>>
       ELSE CASE runner = "input"     -> reader' = "stopping" /\ Terminate(FALSE, FALSE)
              [] runner = "git"       -> reader' = "failed" /\ TerminateOnce
              [] runner = "inventory" -> reader' = "exceeded" /\ TerminateOnce
              [] OTHER                -> reader' = "stopping" /\ Terminate(TRUE, FALSE)
    /\ UNCHANGED <<runner, deaf, started, written, due, outcome>>

(* The end of the output, or the end of the termination a reader awaits.   *)
Close ==
    /\ outcome = "none"
    /\ \/ /\ reader \in {"reading", "exceeded"} /\ got = written /\ holds = {}
          /\ reader' = IF reader = "reading" THEN "done" ELSE "failed"
       \/ reader = "stopping" /\ term = "done" /\ reader' = "failed"
    /\ UNCHANGED <<runner, deaf, processes, started, written, got, term, due, outcome>>

----------------------------------------------------------------------------
(* The calls.                                                              *)
Fails == outcome' = "failed" /\ Kill

(* The deadline of a command, which an inventory does not have, or its     *)
(* caller's signal, which only Git's calls have: Git's readers go on until *)
(* the output ends.                                                        *)
Deadline == /\ outcome = "none" /\ ~due /\ due' = TRUE
            /\ IF Ensures THEN TerminateOnce /\ UNCHANGED outcome ELSE Fails
            /\ UNCHANGED <<runner, deaf, started, written, got, reader>>

Refuses == \/ runner = "input"   /\ code # "ok"
           \/ runner = "service" /\ code # "ok"
           \/ runner = "query"   /\ code = "signal"

(* Mutant: what Git printed before its deadline is taken for all of it.    *)
FinishAnyway ==
    /\ outcome = "none" /\ reader = "done" /\ code # "none" /\ (term # "grace" \/ ~Ensures)
    /\ IF Refuses THEN Fails
       ELSE outcome' = "answered" /\ UNCHANGED <<processes, term>>
    /\ UNCHANGED <<runner, deaf, started, written, got, reader, due>>

Finish ==
    /\ outcome = "none" /\ reader = "done" /\ code # "none" /\ (term # "grace" \/ ~Ensures)
    /\ IF Refuses THEN Fails
       ELSE /\ outcome' = IF due THEN "failed" ELSE "answered"
            /\ UNCHANGED <<processes, term>>
    /\ UNCHANGED <<runner, deaf, started, written, got, reader, due>>

Fail ==
    /\ outcome = "none" /\ reader = "failed"
    /\ IF Ensures THEN /\ term = "done" /\ (runner = "inventory" => code # "none")
                       /\ outcome' = "failed" /\ UNCHANGED <<processes, term>>
       ELSE Fails
    /\ UNCHANGED <<runner, deaf, started, written, got, reader, due>>

(* The rest is up to the processes.                                        *)
Wait == UNCHANGED vars

Next == Fork \/ Write \/ Exit \/ Grace \/ Read \/ Close \/ Deadline \/ Finish \/ Fail \/ Wait

Spec == Init /\ [][Next]_vars

----------------------------------------------------------------------------
(* An answer is all of the output, of a command that ended as it should;   *)
(* a call that fails leaves no process of its group behind; and once a     *)
(* call's time is over nothing holds it up but a process that left the     *)
(* group with the output open, and only where Git is run.                  *)
ChildrenAreAccounted ==
    /\ outcome = "answered" => /\ got = written /\ got <= Limit /\ holds = {} /\ ~due
                               /\ code # "none" /\ (runner = "input" => code = "ok")
    /\ outcome = "failed" => alive \cap Group = {}
    /\ due /\ outcome = "none" => Ensures /\ (term = "done" => holds \subseteq {"stray"})
=============================================================================
