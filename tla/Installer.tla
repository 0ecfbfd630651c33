----------------------------- MODULE Installer -----------------------------
(***************************************************************************)
(* One run of the installer (src/src/installer): a transaction over the    *)
(* configuration files it shares with the user and over the definition of  *)
(* the managed service, with a rollback journal that is kept in memory.    *)
(* The user, the file system and the service manager act between any two   *)
(* steps.  A file is the user's text (a version, 0 when there is none)     *)
(* and whether ast-mcp's part is in it; the service definition is written  *)
(* whole.  Every file has a directory of its own.                          *)
(***************************************************************************)
EXTENDS Naturals, Sequences, FiniteSets, SequencesExt

CONSTANTS MaxEdits,      \* how often the user interferes
          MaxFaults,     \* how many steps fail by themselves
          Modes,         \* a subset of {"install", "uninstall"}
          Platforms      \* a subset of {"linux", "darwin"}

VARIABLES mode, platform,  \* what is run, and where
          disk, dir,       \* the files, and the directory each is in
          manager,         \* systemd --user, or launchd
          seen,            \* the directories the transaction has identified
          entries,         \* the journal, in the order of first sight
          step, staged,    \* the position in the work, and the pending write
          phase, undo,     \* how far the run is, and the position in the rollback
          prior, armed,    \* the service as it was, and its compensation
          failures,        \* whether the rollback had a failure
          start, latest, touched, faults  \* what the properties compare with

vars == <<mode, platform, disk, dir, manager, seen, entries, step, staged, phase,
          undo, prior, armed, failures, start, latest, touched, faults>>
work == <<disk, dir, manager, seen, entries, prior, armed>>
asked == <<mode, platform, start>>
user  == <<latest, touched>>

File   == {"config", "entry", "unit"}
Absent == [text |-> 0, managed |-> FALSE]
Nobody == [loaded |-> Absent, enabled |-> FALSE, active |-> Absent]
Unseen == "unseen"
Nothing == [file |-> "none", next |-> Absent, expected |-> Absent]

TypeOK ==
    /\ disk \in [File -> [text : Nat, managed : BOOLEAN]]
    /\ dir  \in [File -> {"none", "user", "ours", "moved"}]
    /\ seen \in [File -> {"user", "ours", "moved", Unseen}]
    /\ \A i \in 1..Len(entries) : entries[i].file \in File
    /\ phase \in {"working", "rollback", "compensate", "tidy", "done", "failed"}

-----------------------------------------------------------------------------
(* The work of a run: what is read, written and run, in that order.        *)

Commands ==
    IF platform = "linux" THEN <<"reload", "enable now">>
                          ELSE <<"bootout", "bootstrap", "kickstart">>
RemoveCommands == IF platform = "linux" THEN <<"disable now">> ELSE <<"bootout">>

Work ==
    IF mode = "install"
    THEN <<"read config", "write config", "read entry", "write entry",
           "read config", "write config", "read unit", "query", "write unit",
           "arm">> \o Commands \o <<"ready">>
    ELSE <<"read entry", "write entry", "read unit", "query", "arm">>
         \o RemoveCommands \o <<"write unit">>
         \o (IF platform = "linux" THEN <<"reload">> ELSE <<>>)

Now == IF step <= Len(Work) THEN Work[step] ELSE "end"
FileOf ==
    CASE Now \in {"read config", "write config"} -> "config"
      [] Now \in {"read entry", "write entry"}   -> "entry"
      [] OTHER -> "unit"
Reads  == {"read config", "read entry", "read unit"}
Writes == {"write config", "write entry", "write unit"}
Runs   == {"reload", "enable now", "disable now", "bootout", "bootstrap", "kickstart"}

(* What the installer makes of a file: its part is merged into the user's  *)
(* text or taken out of it, the service definition is replaced or removed. *)
Written(f, c) ==
    [text    |-> IF f = "unit" THEN 0 ELSE c.text,
     managed |-> mode = "install"]

-----------------------------------------------------------------------------
(* What a command of the service manager does; an undefined one fails.     *)

Does(c, m) ==
    CASE c = "reload"      -> [m EXCEPT !.loaded = disk["unit"]]
      [] c = "enable now"  -> [m EXCEPT !.enabled = TRUE,
                                        !.active = IF @ = Absent THEN m.loaded ELSE @]
      [] c = "disable now" -> [m EXCEPT !.enabled = FALSE, !.active = Absent]
      [] c = "enable"      -> [m EXCEPT !.enabled = TRUE]
      [] c = "disable"     -> [m EXCEPT !.enabled = FALSE]
      [] c = "stop"        -> [m EXCEPT !.active = Absent]
      [] c = "start"       -> [m EXCEPT !.active = m.loaded]
      [] c = "bootout"     -> [m EXCEPT !.loaded = Absent, !.active = Absent]
      [] c = "bootstrap"   -> [m EXCEPT !.loaded = disk["unit"], !.active = disk["unit"]]
      [] c = "kickstart"   -> [m EXCEPT !.active = m.loaded]

Possible(c, m) ==
    CASE c = "reload"             -> TRUE
      [] c = "bootstrap"          -> m.loaded = Absent /\ disk["unit"] # Absent
      [] c = "enable"             -> disk["unit"] # Absent
      [] c = "disable"            -> disk["unit"] # Absent \/ m.enabled
      [] OTHER                    -> m.loaded # Absent

-----------------------------------------------------------------------------
(* The journal.                                                            *)

Journalled(f) == \E i \in 1..Len(entries) : entries[i].file = f
Entry(f)      == entries[CHOOSE i \in 1..Len(entries) : entries[i].file = f]
With(f, after) ==
    [i \in 1..Len(entries) |->
        IF entries[i].file = f THEN [entries[i] EXCEPT !.after = after] ELSE entries[i]]

(* The directory is the one that was first seen under this name.           *)
Guard(f)   == seen[f] = Unseen \/ seen[f] = dir[f]
Sees(f, d) == [seen EXCEPT ![f] = IF @ = Unseen /\ d # "none" THEN d ELSE @]
Expected(f) == Journalled(f) => disk[f] = Entry(f).after

Next1 == step' = step + 1 /\ UNCHANGED phase
GivesUp ==
    /\ phase' = "rollback" /\ undo' = Len(entries) /\ staged' = Nothing
    /\ UNCHANGED <<work, step, failures, faults>>

-----------------------------------------------------------------------------
Fresh(r) == r \in [text : {0, 1}, managed : {FALSE}]

Init ==
    /\ mode \in Modes /\ platform \in Platforms
    /\ disk \in [File -> {Absent} \cup [text : {1}, managed : BOOLEAN]
                          \cup {[text |-> 0, managed |-> TRUE]}]
    /\ \A f \in {"config", "entry"} :
          IF mode = "install" THEN Fresh(disk[f]) ELSE disk[f].text = 1
    /\ dir = [f \in File |-> IF disk[f] = Absent THEN "none" ELSE "user"]
    /\ LET left == IF disk["unit"] = Absent THEN [text |-> 0, managed |-> TRUE]
                                            ELSE disk["unit"] IN
       manager \in {Nobody} \cup [loaded : {left}, enabled : BOOLEAN, active : {left, Absent}]
    /\ platform = "darwin" => ~manager.enabled
    /\ platform = "linux" => (disk["unit"] # Absent => manager # Nobody)
    /\ seen = [f \in File |-> Unseen] /\ entries = <<>>
    /\ step = 1 /\ staged = Nothing /\ phase = "working" /\ undo = 0
    /\ prior = Nobody /\ armed = FALSE /\ failures = FALSE
    /\ start = [disk |-> disk, manager |-> manager]
    /\ latest = [f \in File |-> disk[f].text] /\ touched = {} /\ faults = 0

(* The user saves or deletes a file, perhaps in a new directory.           *)
Edit(f) ==
    /\ phase \notin {"done", "failed"} /\ Cardinality(touched) < MaxEdits
    /\ f \notin touched
    /\ \E moved \in BOOLEAN, c \in {Absent, [text |-> latest[f] + 1, managed |-> disk[f].managed]} :
          /\ moved => dir[f] # "none" /\ c = Absent
          /\ ~moved => c # disk[f]
          /\ disk' = [disk EXCEPT ![f] = c]
          /\ dir' = [dir EXCEPT ![f] = IF moved THEN "moved"
                                       ELSE IF @ = "none" THEN "user" ELSE @]
          /\ latest' = [latest EXCEPT ![f] = c.text]
    /\ touched' = touched \cup {f}
    /\ UNCHANGED <<asked, manager, seen, entries, step, staged, phase, undo, prior, armed,
                   failures, faults>>

(* A file is read: it is journalled as it is, and must not have changed    *)
(* since the transaction last saw or wrote it.                             *)
Read ==
    LET f == FileOf IN
    /\ phase = "working" /\ Now \in Reads
    /\ IF Guard(f) /\ Expected(f)
       THEN /\ entries' = IF Journalled(f) THEN entries
                          ELSE Append(entries, [file |-> f, before |-> disk[f], after |-> disk[f]])
            /\ seen' = Sees(f, dir[f]) /\ staged' = Nothing
            /\ Next1 /\ UNCHANGED <<disk, dir, manager, prior, armed, undo, failures, faults>>
       ELSE GivesUp
    /\ UNCHANGED <<asked, user>>

(* The write is prepared: the directory is made, the text is put into a    *)
(* temporary file beside the destination.                                  *)
Stage ==
    LET f == FileOf IN
    /\ phase = "working" /\ Now \in Writes /\ staged = Nothing
    /\ IF Guard(f) /\ Expected(f)
       THEN IF Written(f, disk[f]) = disk[f]
            THEN Next1 /\ UNCHANGED <<work, staged, undo, failures, faults>>
            ELSE LET made == IF dir[f] = "none" THEN "ours" ELSE dir[f] IN
                 /\ staged' = [file |-> f, next |-> Written(f, disk[f]), expected |-> disk[f]]
                 /\ dir' = [dir EXCEPT ![f] = IF Written(f, disk[f]) = Absent THEN @ ELSE made]
                 /\ seen' = Sees(f, dir'[f])
                 /\ UNCHANGED <<disk, manager, entries, step, phase, undo, prior, armed,
                                failures, faults>>
       ELSE GivesUp
    /\ UNCHANGED <<asked, user>>

(* The last comparison and the rename are one step of the program.         *)
GuardedOnly(f) == Guard(f)
Unchanged(f) == Guard(f) /\ disk[f] = staged.expected

Commit ==
    /\ phase = "working" /\ staged # Nothing
    /\ LET f == staged.file IN
       IF Unchanged(f)
       THEN /\ disk' = [disk EXCEPT ![f] = staged.next]
            /\ entries' = With(f, staged.next)
            /\ staged' = Nothing
            /\ Next1 /\ UNCHANGED <<dir, manager, seen, prior, armed, undo, failures, faults>>
       ELSE GivesUp
    /\ UNCHANGED <<asked, user>>

(* The state of the service is asked for and must be one that the rollback *)
(* can reconstruct.                                                        *)
Query ==
    /\ phase = "working" /\ Now = "query"
    /\ IF /\ Entry("unit").before = Absent => manager.loaded = Absent
          /\ platform = "darwin" => (manager.loaded # Absent => manager.active # Absent)
       THEN /\ prior' = manager /\ Next1
            /\ UNCHANGED <<disk, dir, manager, seen, entries, staged, armed, undo, failures, faults>>
       ELSE GivesUp
    /\ UNCHANGED <<asked, user>>

Arm ==
    /\ phase = "working" /\ Now = "arm"
    /\ armed' = TRUE /\ Next1
    /\ UNCHANGED <<asked, user, disk, dir, manager, seen, entries, staged, prior, undo,
                   failures, faults>>

(* Removing ignores the failures of its commands, installing that of the   *)
(* first bootout only.                                                     *)
Ignored == mode = "uninstall" \/ Now = "bootout"

Command ==
    /\ phase = "working" /\ Now \in Runs
    /\ \/ /\ Possible(Now, manager) /\ manager' = Does(Now, manager) /\ Next1
          /\ UNCHANGED <<disk, dir, seen, entries, staged, prior, armed, undo, failures, faults>>
       \/ /\ ~Possible(Now, manager) /\ Ignored /\ Next1
          /\ UNCHANGED <<work, staged, undo, failures, faults>>
       \/ ~Possible(Now, manager) /\ ~Ignored /\ GivesUp
    /\ UNCHANGED <<asked, user>>

(* The endpoint answers, from whichever definition is running.             *)
Ready ==
    /\ phase = "working" /\ Now = "ready"
    /\ IF manager.active # Absent
       THEN Next1 /\ UNCHANGED <<work, staged, undo, failures, faults>>
       ELSE GivesUp
    /\ UNCHANGED <<asked, user>>

(* A step throws: a full disk, an invalid file, a command that times out.  *)
Throws ==
    /\ phase = "working" /\ Now \notin {"arm", "end"} /\ faults < MaxFaults
    /\ faults' = faults + 1
    /\ phase' = "rollback" /\ undo' = Len(entries) /\ staged' = Nothing
    /\ UNCHANGED <<asked, user, work, step, failures>>

Finish ==
    /\ phase = "working" /\ Now = "end"
    /\ phase' = "done"
    /\ UNCHANGED <<asked, user, work, staged, step, undo, failures, faults>>

-----------------------------------------------------------------------------
(* The rollback: the journal backwards, then the service, then the         *)
(* directories the run has made.  A failure does not stop it.              *)

Undone == undo' = undo - 1

Prepare ==
    /\ phase = "rollback" /\ undo > 0 /\ staged = Nothing
    /\ LET e == entries[undo] IN
       \/ /\ e.before = e.after
          /\ Undone /\ staged' = Nothing /\ UNCHANGED <<dir, seen, failures>>
       \/ /\ e.before # e.after /\ (disk[e.file] # e.after \/ ~Guard(e.file))
          /\ Undone /\ staged' = Nothing /\ failures' = TRUE /\ UNCHANGED <<dir, seen>>
       \/ /\ e.before # e.after /\ disk[e.file] = e.after /\ Guard(e.file)
          /\ staged' = [file |-> e.file, next |-> e.before, expected |-> e.after]
          /\ dir' = [dir EXCEPT ![e.file] =
                        IF @ = "none" /\ e.before # Absent THEN "ours" ELSE @]
          /\ seen' = Sees(e.file, dir'[e.file])
          /\ UNCHANGED <<undo, failures>>
    /\ UNCHANGED <<asked, user, disk, manager, entries, prior, armed, step, phase, faults>>

Restore ==
    /\ phase = "rollback" /\ undo > 0 /\ staged # Nothing
    /\ LET f == entries[undo].file IN
       IF Unchanged(f)
       THEN /\ disk' = [disk EXCEPT ![f] = staged.next]
            /\ entries' = With(f, staged.next) /\ UNCHANGED failures
       ELSE failures' = TRUE /\ UNCHANGED <<disk, entries>>
    /\ Undone /\ staged' = Nothing
    /\ UNCHANGED <<asked, user, dir, manager, seen, prior, armed, step, phase, faults>>

RestoreThrows ==
    /\ phase = "rollback" /\ undo > 0 /\ faults < MaxFaults
    /\ faults' = faults + 1 /\ failures' = TRUE
    /\ Undone /\ staged' = Nothing
    /\ UNCHANGED <<asked, user, disk, dir, manager, seen, entries, prior, armed, step, phase>>

Compensations ==
    IF platform = "linux"
    THEN <<"stop", "reload", IF prior.enabled THEN "enable" ELSE "disable">>
         \o (IF prior.active # Absent THEN <<"start">> ELSE <<>>)
    ELSE <<"bootout">>
         \o (IF prior.loaded # Absent THEN <<"bootstrap", "kickstart">> ELSE <<>>)

FilesDone ==
    /\ phase = "rollback" /\ undo = 0
    /\ phase' = "compensate" /\ undo' = 1 /\ staged' = Nothing
    /\ UNCHANGED <<asked, user, disk, dir, manager, seen, entries, prior, armed, step,
                   failures, faults>>

(* The service is touched only while its definition is the original one.   *)
Restored == Guard("unit") /\ disk["unit"] = Entry("unit").before

(* A command that fails is forgiven where the service is gone anyway.      *)
Forgiven(c) ==
    /\ c \in {"stop", "enable", "disable", "bootout"}
    /\ platform = "linux" => Entry("unit").before = Absent
    /\ manager.loaded = Absent

Compensate ==
    /\ phase = "compensate" /\ armed /\ undo <= Len(Compensations)
    /\ LET c == Compensations[undo] IN
       \/ /\ Restored /\ Possible(c, manager)
          /\ manager' = Does(c, manager) /\ undo' = undo + 1
          /\ UNCHANGED <<phase, failures, faults>>
       \/ /\ Restored /\ ~Possible(c, manager) /\ Forgiven(c)
          /\ undo' = undo + 1 /\ UNCHANGED <<manager, phase, failures, faults>>
       \/ /\ ~Restored \/ (~Possible(c, manager) /\ ~Forgiven(c))
          /\ phase' = "tidy" /\ failures' = TRUE /\ UNCHANGED <<manager, undo, faults>>
       \/ /\ faults < MaxFaults /\ faults' = faults + 1
          /\ phase' = "tidy" /\ failures' = TRUE /\ UNCHANGED <<manager, undo>>
    /\ UNCHANGED <<asked, user, disk, dir, seen, entries, staged, prior, armed, step>>

ServiceDone ==
    /\ phase = "compensate" /\ (~armed \/ undo > Len(Compensations))
    /\ phase' = "tidy"
    /\ UNCHANGED <<asked, user, work, staged, step, undo, failures, faults>>

(* Only an empty directory can be removed.                                 *)
Tidy ==
    /\ phase = "tidy" /\ phase' = "failed"
    /\ dir' = [f \in File |-> IF dir[f] = "ours" /\ disk[f] = Absent THEN "none" ELSE dir[f]]
    /\ UNCHANGED <<asked, user, disk, manager, seen, entries, staged, prior, armed, step, undo,
                   failures, faults>>

Ended == phase \in {"done", "failed"} /\ UNCHANGED vars

Next ==
    \/ Read \/ Stage \/ Commit \/ Query \/ Arm \/ Command \/ Ready \/ Throws \/ Finish
    \/ Prepare \/ Restore \/ RestoreThrows \/ FilesDone
    \/ Compensate \/ ServiceDone \/ Tidy
    \/ \E f \in File : Edit(f)
    \/ Ended

Spec == Init /\ [][Next]_vars

-----------------------------------------------------------------------------
(* No text of the user's is lost: what the files they share with ast-mcp   *)
(* hold is always the user's latest text, whatever the run and its         *)
(* rollback do meanwhile; the service definition is the user's again as    *)
(* soon as the run has failed without a failure in the rollback.           *)
EditsSurvive ==
    /\ \A f \in {"config", "entry"} : disk[f].text = latest[f]
    /\ phase = "failed" /\ ("unit" \in touched \/ ~failures)
          => disk["unit"].text = latest["unit"]

(* A failed run whose rollback did not fail leaves the files the user did  *)
(* not touch meanwhile, the directories and the service as it found them.  *)
FailureUndoes ==
    phase = "failed" /\ ~failures =>
        /\ \A f \in File \ touched : disk[f] = start.disk[f]
        /\ \A f \in File : dir[f] = "ours" => disk[f] # Absent
        /\ "unit" \notin touched => manager = start.manager

(* A service is never started from a definition that is neither the        *)
(* original nor the installed one, unless the user put it there before the *)
(* run first looked.                                                       *)
ServiceIsOurs ==
    "unit" \notin touched =>
        manager.active \in {Absent, start.manager.active, start.disk["unit"],
                            Written("unit", Absent)}

InstallIsUndone == EditsSurvive /\ FailureUndoes /\ ServiceIsOurs
=============================================================================
