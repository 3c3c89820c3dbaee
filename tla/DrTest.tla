------------------------------- MODULE DrTest -------------------------------
(***************************************************************************)
(* The recovery drill `dbre dr-test run`: run_dr_test (backup/dr_test.py)  *)
(* over the backups of LocalBackup.  A drill makes a backup, checks it,    *)
(* creates a throwaway database, restores into it, queries it, drops it,   *)
(* and reports one step result for each.                                   *)
(***************************************************************************)
EXTENDS LocalBackup, Sequences

CONSTANT Queries  \* the number of verification queries of a drill

ASSUME QueriesAssumption == Queries \in Nat \ {0}

VARIABLES
  steps,   \* the DrTestSteps of each drill
  scratch  \* the drills whose throwaway database exists

drillVars == <<steps, scratch>>
vars == <<backupVars, drillVars>>

StepNames == {"backup", "checksum", "target", "restore", "query", "cleanup"}

DrTestStep == [name : StepNames, passed : BOOLEAN]

Init ==
  /\ BackupInit
  /\ steps = [j \in Jobs |-> <<>>]
  /\ scratch = {}

Drilling(j) == cmd[j] = "drill"

\* A drill reports one step, and goes on to another.
Report(j, from, name, passed, to) ==
  /\ Drilling(j)
  /\ Move(j, from, to)
  /\ steps' = [steps EXCEPT ![j] = Append(@, [name |-> name, passed |-> passed])]
  /\ UNCHANGED <<now, cmd, place, meta, files, todo, restored, event>>

\* psql cannot be run, or is stopped at its timeout: an ExecutorError that
\* run_dr_test does not catch, and dr_test_run neither.
Raise(j, from) ==
  /\ Drilling(j)
  /\ Move(j, from, "raised")
  /\ UNCHANGED <<now, cmd, place, meta, files, todo, restored, event, steps>>

-----------------------------------------------------------------------------
StartDrill(j) ==
  \/ StartMaking(j, "drill") /\ UNCHANGED drillVars
  \/ \* The settings to connect with are missing.
     /\ Start(j, "drill", "refused")
     /\ UNCHANGED <<now, place, meta, files, todo, restored, event, drillVars>>

BackupStep(j) ==
  /\ \/ Report(j, "made", "backup", TRUE, "check")
     \/ steps[j] = <<>> /\ Report(j, "failed", "backup", FALSE, "report")
  /\ UNCHANGED scratch

ChecksumStep(j) ==
  LET ok == Verified(meta[j], place[j]) IN
  /\ Report(j, "check", "checksum", ok, IF ok THEN "target" ELSE "report")
  /\ UNCHANGED scratch

\* CREATE DATABASE, outside of the try block.  A call that fails may have had
\* its effect.
TargetStep(j) ==
  \/ Report(j, "target", "target", TRUE, "verify") /\ scratch' = scratch \cup {j}
  \/ /\ Report(j, "target", "target", FALSE, "report") \/ Raise(j, "target")
     /\ scratch' \in {scratch, scratch \cup {j}}

\* Mutant: a failed restore returns at once.
RestoreStepReturns(j) ==
  /\ \/ Report(j, "restored", "restore", TRUE, "query")
     \/ steps[j] # <<>> /\ Report(j, "failed", "restore", FALSE, "report")
  /\ UNCHANGED scratch

\* restore_backup has returned or raised (Verify, PgRestore).
RestoreStep(j) ==
  /\ \/ Report(j, "restored", "restore", TRUE, "query")
     \/ steps[j] # <<>> /\ Report(j, "failed", "restore", FALSE, "drop")
  /\ UNCHANGED scratch

Asked(j) == Cardinality({i \in 1..Len(steps[j]) : steps[j][i].name = "query"})

\* A query that fails, or raises, does not end the loop.
QueryStep(j) ==
  /\ Asked(j) < Queries
  /\ \E passed \in BOOLEAN :
       Report(j, "query", "query", passed, IF Asked(j) + 1 = Queries THEN "drop" ELSE "query")
  /\ UNCHANGED scratch

\* The finally block.
CleanupStep(j) ==
  \/ Report(j, "drop", "cleanup", TRUE, "report") /\ scratch' = scratch \ {j}
  \/ /\ Report(j, "drop", "cleanup", FALSE, "report") \/ Raise(j, "drop")
     /\ scratch' \in {scratch, scratch \ {j}}

\* Ctrl-C in the try block: the finally block still runs, and the interrupt
\* leaves the program.
Interrupt(j) ==
  /\ \E from \in {"verify", "restore", "restored", "query"} : Raise(j, from)
  /\ scratch' \in {scratch, scratch \ {j}}

\* Mutant: the last step decides.
PassedAtLast(j) == steps[j][Len(steps[j])].passed

\* DrTestResult.passed
Passed(j) == \A i \in 1..Len(steps[j]) : steps[j][i].passed

\* dr_test_run records the result.
RecordDrill(j) ==
  /\ Drilling(j)
  /\ Move(j, "report", "recorded")
  /\ event' = [event EXCEPT ![j] = IF Passed(j) THEN "success" ELSE "failure"]
  /\ UNCHANGED <<now, cmd, place, meta, files, todo, restored, drillVars>>

Drill(j) ==
  \/ StartDrill(j) \/ BackupStep(j) \/ ChecksumStep(j) \/ TargetStep(j) \/ RestoreStep(j)
  \/ QueryStep(j) \/ CleanupStep(j) \/ Interrupt(j) \/ RecordDrill(j)

Next ==
  \/ BackupNext /\ UNCHANGED drillVars
  \/ \E j \in Jobs : Drill(j)

Spec == Init /\ [][Next]_vars

-----------------------------------------------------------------------------
(***************************************************************************)
(* Properties                                                              *)
(***************************************************************************)

\* The type invariant: only a drill has a throwaway database.
TypeOK ==
  /\ BackupTypeOK
  /\ steps \in [Jobs -> Seq(DrTestStep)]
  /\ scratch \subseteq {j \in Jobs : Drilling(j)}

\* A drill that is recorded as passed has restored all that its own pg_dump
\* wrote, has had every query answered, and has removed its database: also
\* when backups are damaged, pruned or made by others meanwhile.
PassedDrillIsReal ==
  \A j \in Jobs :
    Drilling(j) /\ event[j] = "success" =>
      /\ Asked(j) = Queries
      /\ j \notin scratch
      /\ ~Collide => restored[j] = WholeOf(j)

\* A drill that ends by reporting, with success or failure, has dropped its
\* database, or its last step says that it could not create or drop it.
DebrisIsReported ==
  \A j \in scratch :
    pc[j] \in {"report", "recorded"} =>
      \E name \in {"target", "cleanup"} :
        steps[j][Len(steps[j])] = [name |-> name, passed |-> FALSE]

-----------------------------------------------------------------------------
(***************************************************************************)
(* The inductive invariant behind the two properties, besides that of the  *)
(* backups.                                                                *)
(***************************************************************************)
RestoredOwn(j) == ~Collide => restored[j] = WholeOf(j)

\* Where a throwaway database may exist, and what its drill has reported.
ScratchInPlace ==
  \A j \in scratch :
    /\ steps[j] # <<>>
    /\ pc[j] \in {"verify", "restore", "restored", "failed", "query", "drop",
                  "report", "recorded", "raised", "killed"}

\* What the reports of a drill add up to at each of its steps.
DrillsAddUp ==
  \A j \in Jobs : Drilling(j) =>
    /\ pc[j] \notin {"query", "drop", "report", "recorded", "raised", "killed"} => Asked(j) = 0
    /\ pc[j] \in {"check", "target"} => Hashed(j) /\ steps[j] # <<>>
    /\ pc[j] = "query" => RestoredOwn(j)
    /\ pc[j] \in {"drop", "report"} /\ Passed(j) => Asked(j) = Queries /\ RestoredOwn(j)
    /\ pc[j] = "report" /\ Passed(j) => j \notin scratch
    /\ event[j] # "none" => pc[j] = "recorded"

\* A job that has not started has nothing to show.
NothingYet == \A j \in Jobs : pc[j] = "idle" => steps[j] = <<>> /\ event[j] = "none"

DrillInv ==
  /\ BackupInv
  /\ TypeOK
  /\ ScratchInPlace
  /\ NothingYet
  /\ DrillsAddUp
  /\ DebrisIsReported
  /\ PassedDrillIsReal

=============================================================================
