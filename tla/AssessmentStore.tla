--------------------------- MODULE AssessmentStore ---------------------------
(***************************************************************************)
(* The Change Risk Engine's records: FileAssessmentStore                   *)
(* (persistence/store.py) under the API handlers (api/app.py) and the      *)
(* commands `cre analyze` and `cre history` (cli/main.py).                 *)
(*                                                                         *)
(* A job is one request, handled by a worker thread of the API, or one     *)
(* command.  They share the store's directory, and nothing locks it.       *)
(* Changes and assessments have fresh ids: a change is named by the job    *)
(* that submitted it, an assessment by the job that made it.  Writing a    *)
(* change again writes the same text: the pipeline derives its operations  *)
(* from its SQL alone.                                                     *)
(***************************************************************************)
EXTENDS Naturals, Sequences

CONSTANTS
  Jobs,    \* requests and commands
  Limits,  \* the limits that a listing is asked for
  None

ASSUME StoreAssumption == Limits \subseteq Nat /\ None \notin Jobs

VARIABLES
  cmd,         \* what each job does
  pc,          \* where each job is
  subject,     \* the change each job works on, or lists the assessments of
  change,      \* the file of each change: it may be empty or cut off
  opener,      \* the job that last truncated the file of each change
  assessment,  \* the file of each assessment
  now,         \* the file system's clock: it may tell one time for two writes
  modified,    \* when the file of each assessment was last modified
  limit,       \* the limit of each listing
  todo,        \* the files a listing has still to read: when each was modified, or 0
  results,     \* the assessments a listing has read
  expected,    \* history: the assessments of its subject announced before a listing began
  event        \* the audit event of each job

files == <<change, opener, assessment, now, modified>>
listing == <<limit, todo, results, expected>>
vars == <<cmd, pc, subject, files, listing, event>>

File == {"absent", "cut", "whole"}

\* `cre analyze --no-store` is a command of its own, "try".
Commands == {"submit", "assess", "analyze", "try", "list"}

Init ==
  /\ cmd = [j \in Jobs |-> "none"]
  /\ pc = [j \in Jobs |-> "idle"]
  /\ subject = [j \in Jobs |-> None]
  /\ change = [j \in Jobs |-> "absent"]
  /\ opener = [j \in Jobs |-> None]
  /\ assessment = [j \in Jobs |-> "absent"]
  /\ now = 1
  /\ modified = [j \in Jobs |-> 0]
  /\ limit = [j \in Jobs |-> 0]
  /\ todo = [j \in Jobs |-> [a \in Jobs |-> 0]]
  /\ results = [j \in Jobs |-> <<>>]
  /\ expected = [j \in Jobs |-> {}]
  /\ event = [j \in Jobs |-> "none"]

Move(j, from, to) == pc[j] = from /\ pc' = [pc EXCEPT ![j] = to]

Start(j, c, about, to) ==
  /\ Move(j, "idle", to)
  /\ cmd' = [cmd EXCEPT ![j] = c]
  /\ subject' = [subject EXCEPT ![j] = about]

-----------------------------------------------------------------------------
(***************************************************************************)
(* submit_change, create_assessment, analyze                               *)
(***************************************************************************)
Submit(j) == Start(j, "submit", j, "change") /\ UNCHANGED <<files, listing, event>>

Analyze(j) ==
  /\ \E c \in {"analyze", "try"} : Start(j, c, j, "run")
  /\ UNCHANGED <<files, listing, event>>

\* The client names a change that it submitted, or learnt of from a report.
Assess(j) ==
  /\ \E c \in Jobs : change[c] # "absent" /\ Start(j, "assess", c, "read")
  /\ UNCHANGED <<files, listing, event>>

\* get_change raises for a file that does not parse.
ReadChange(j) ==
  /\ Move(j, "read", IF change[subject[j]] = "whole" THEN "run" ELSE "failed")
  /\ UNCHANGED <<cmd, subject, files, listing, event>>

\* Mutant: the change is saved only when it was submitted.
SkipSavingChange(j) ==
  /\ Move(j, "run", IF cmd[j] = "try" THEN "record" ELSE "assessment")
  /\ UNCHANGED <<cmd, subject, files, listing, event>>

\* pipeline.run raises, or returns the assessment.
RunPipeline(j) ==
  /\ \/ Move(j, "run", IF cmd[j] = "try" THEN "record" ELSE "change")
     \/ Move(j, "run", IF cmd[j] = "assess" THEN "failed" ELSE "report")
  /\ UNCHANGED <<cmd, subject, files, listing, event>>

\* write_text empties the file first.
OpenChange(j) ==
  /\ Move(j, "change", "changing")
  /\ change' = [change EXCEPT ![subject[j]] = "cut"]
  /\ opener' = [opener EXCEPT ![subject[j]] = j]
  /\ UNCHANGED <<cmd, subject, assessment, now, modified, listing, event>>

\* Mutant: the event is written before the assessment is saved.
WriteChangeAndRecord(j) ==
  /\ Move(j, "changing", "record")
  /\ change' = [change EXCEPT ![subject[j]] = "whole"]
  /\ UNCHANGED <<cmd, subject, opener, assessment, now, modified, listing, event>>

\* A file that another job truncated in the middle of this write lacks its
\* first part, until that job has written it.
WriteChange(j) ==
  /\ Move(j, "changing", IF cmd[j] = "submit" THEN "record" ELSE "assessment")
  /\ \/ change' = [change EXCEPT ![subject[j]] = "whole"]
     \/ opener[subject[j]] # j /\ UNCHANGED change
  /\ UNCHANGED <<cmd, subject, opener, assessment, now, modified, listing, event>>

Touch(a) == now' \in {now, now + 1} /\ modified' = [modified EXCEPT ![a] = now']

OpenAssessment(j) ==
  /\ Move(j, "assessment", "assessing")
  /\ assessment' = [assessment EXCEPT ![j] = "cut"]
  /\ Touch(j)
  /\ UNCHANGED <<cmd, subject, change, opener, listing, event>>

WriteAssessment(j) ==
  /\ Move(j, "assessing", "record")
  /\ assessment' = [assessment EXCEPT ![j] = "whole"]
  /\ Touch(j)
  /\ UNCHANGED <<cmd, subject, change, opener, listing, event>>

\* The audit event is the last thing before the answer.
RecordEvent(j) ==
  /\ \/ Move(j, "record", "done") /\ event' = [event EXCEPT ![j] = "success"]
     \/ Move(j, "report", "failed") /\ event' = [event EXCEPT ![j] = "failure"]
  /\ UNCHANGED <<cmd, subject, files, listing>>

-----------------------------------------------------------------------------
(***************************************************************************)
(* list_assessments: get_history and `cre history` list all assessments,   *)
(* _latest_assessment_for_change the newest one of a change.               *)
(***************************************************************************)
Announced == {a \in Jobs : cmd[a] \in {"assess", "analyze"} /\ event[a] = "success"}

\* An assessment is one of change c, or c is None.
IsAbout(a, c) == c \in {None, subject[a]}

StartList(j) ==
  /\ \/ \E n \in Limits : Start(j, "list", None, "list") /\ limit' = [limit EXCEPT ![j] = n]
     \/ \E c \in Jobs :
          /\ change[c] # "absent"
          /\ Start(j, "list", c, "list")
          /\ limit' = [limit EXCEPT ![j] = 1]
  /\ todo' = [todo EXCEPT ![j] = modified]
  /\ expected' = [expected EXCEPT ![j] = {a \in Announced : IsAbout(a, subject'[j])}]
  /\ UNCHANGED <<files, results, event>>

Left(j) == {a \in Jobs : todo[j][a] # 0}

\* Mutant: reverse=True is missing.
Oldest(j) == {a \in Left(j) : \A b \in Left(j) : todo[j][a] <= todo[j][b]}

Newest(j) == {a \in Left(j) : \A b \in Left(j) : todo[j][a] >= todo[j][b]}

\* One file that does not parse makes the listing raise, whatever it lists.
ReadCut(j) ==
  /\ \E a \in Newest(j) : assessment[a] # "whole"
  /\ Move(j, "list", "failed")
  /\ UNCHANGED <<cmd, subject, files, listing, event>>

\* The limit is looked at after a result is added.
ReadNext(j) ==
  /\ \E a \in Newest(j) :
       /\ assessment[a] = "whole"
       /\ todo' = [todo EXCEPT ![j][a] = 0]
       /\ IF IsAbout(a, subject[j])
          THEN /\ results' = [results EXCEPT ![j] = Append(@, a)]
               /\ Move(j, "list", IF Len(results[j]) + 1 >= limit[j] THEN "done" ELSE "list")
          ELSE Move(j, "list", "list") /\ UNCHANGED results
  /\ UNCHANGED <<cmd, subject, files, limit, expected, event>>

ListEnds(j) ==
  /\ Left(j) = {}
  /\ Move(j, "list", "done")
  /\ UNCHANGED <<cmd, subject, files, listing, event>>

-----------------------------------------------------------------------------
Ended == {"idle", "done", "failed", "stopped"}

\* The process is killed, a file cannot be opened or written to its end, or
\* the audit log refuses the event.
Stop(j) ==
  /\ pc[j] \notin Ended
  /\ pc' = [pc EXCEPT ![j] = "stopped"]
  /\ UNCHANGED <<cmd, subject, files, listing, event>>

Save(j) ==
  \/ Submit(j) \/ Analyze(j) \/ Assess(j) \/ ReadChange(j) \/ RunPipeline(j)
  \/ OpenChange(j) \/ WriteChange(j) \/ OpenAssessment(j) \/ WriteAssessment(j) \/ RecordEvent(j)

List(j) == StartList(j) \/ ReadCut(j) \/ ReadNext(j) \/ ListEnds(j)

Next == \E j \in Jobs : Save(j) \/ List(j) \/ Stop(j)

Spec == Init /\ [][Next]_vars

-----------------------------------------------------------------------------
(***************************************************************************)
(* Properties                                                              *)
(***************************************************************************)

Steps == Ended \cup {"read", "run", "change", "changing", "assessment", "assessing", "record", "report", "list"}

JobTypes ==
  /\ cmd \in [Jobs -> Commands \cup {"none"}]
  /\ pc \in [Jobs -> Steps]
  /\ subject \in [Jobs -> Jobs \cup {None}]
  /\ event \in [Jobs -> {"none", "success", "failure"}]

FileTypes ==
  /\ change \in [Jobs -> File]
  /\ opener \in [Jobs -> Jobs \cup {None}]
  /\ assessment \in [Jobs -> File]
  /\ now \in Nat
  /\ modified \in [Jobs -> Nat]

ListTypes ==
  /\ limit \in [Jobs -> Nat]
  /\ todo \in [Jobs -> [Jobs -> Nat]]
  /\ results \in [Jobs -> Seq(Jobs)]
  /\ expected \in [Jobs -> SUBSET Jobs]

\* The files that exist have a time, which is not in the future.
Dated == \A a \in Jobs : modified[a] <= now /\ (modified[a] = 0 <=> assessment[a] = "absent")

TypeOK == JobTypes /\ FileTypes /\ ListTypes /\ now > 0 /\ Dated

Promise == INSTANCE DurableRecords WITH
  Records <- Jobs, stored <- {a \in Jobs : assessment[a] = "whole"}, announced <- Announced

\* An assessment that the audit trail or an answer tells of is stored whole,
\* and stays so, whatever jobs stop in the middle of a write.
AssessmentsDurable == Promise!RecordSpec

\* No assessment without its change, which `cre report` needs: the change of
\* an assessment, and one that was announced, has a file, and it is whole
\* unless the job that last truncated it is still writing, or stopped there.
ChangesBehind ==
  \A j \in Jobs :
    assessment[j] # "absent" \/ (cmd[j] = "submit" /\ event[j] = "success") =>
      LET c == subject[j] IN
      \/ change[c] = "whole"
      \/ /\ change[c] = "cut"
         /\ pc[opener[c]] \in {"changing", "stopped"}
         /\ assessment[opener[c]] = "absent" /\ event[opener[c]] = "none"

Found(j, a) == \E i \in 1..Len(results[j]) : results[j][i] = a

NoneOlder(j, a) == \A i \in 1..Len(results[j]) : modified[results[j][i]] >= modified[a]

\* A listing that answers leaves out an assessment that was announced before
\* it began only when the limit is reached, and in favour of none that is older.
ListsTheNewest ==
  \A j \in Jobs : cmd[j] = "list" /\ pc[j] = "done" =>
    \A a \in expected[j] :
      Found(j, a) \/ (Len(results[j]) >= limit[j] /\ NoneOlder(j, a))

-----------------------------------------------------------------------------
(***************************************************************************)
(* The inductive invariant behind the properties.                          *)
(***************************************************************************)
Saving == {"change", "changing", "assessment", "assessing", "record"}

\* What a job has done when it is at its present step.
StepIsBacked ==
  \A j \in Jobs :
    /\ pc[j] = "idle" => cmd[j] = "none"
    /\ pc[j] = "list" => cmd[j] = "list"
    /\ pc[j] \in {"read", "run", "report"} \cup Saving => cmd[j] \in Commands \ {"list"}
    /\ cmd[j] \in Commands \ {"list"} => subject[j] \in Jobs
    /\ cmd[j] = "try" => pc[j] \notin Saving \ {"record"}
    /\ cmd[j] = "submit" => pc[j] \notin {"assessment", "assessing"}
    /\ assessment[j] # "absent" =>
         /\ cmd[j] \in {"assess", "analyze"}
         /\ pc[j] \notin {"read", "run", "change", "changing", "assessment"}
    /\ pc[j] = "record" /\ cmd[j] \in {"assess", "analyze"} => assessment[j] = "whole"
    /\ event[j] # "none" => pc[j] \in {"done", "failed"}
    /\ event[j] = "success" /\ cmd[j] \in {"assess", "analyze"} => assessment[j] = "whole"

\* A job past the opening of its change's file has left one there.
ChangeExists ==
  \A j \in Jobs :
    \/ assessment[j] # "absent"
    \/ cmd[j] = "submit" /\ event[j] = "success"
    \/ cmd[j] \in {"submit", "assess", "analyze"} /\ pc[j] \in Saving \ {"change"}
    => change[subject[j]] # "absent"

\* Only a job that is writing a change, or stopped there, leaves it cut off.
CutExplained ==
  \A c \in Jobs : change[c] = "cut" =>
    /\ opener[c] \in Jobs
    /\ subject[opener[c]] = c
    /\ pc[opener[c]] \in {"changing", "stopped"}
    /\ assessment[opener[c]] = "absent" /\ event[opener[c]] = "none"

\* A listing still has before it what it is expected to find, and behind it
\* nothing older than that.
Ahead(j, a) == todo[j][a] = modified[a] /\ NoneOlder(j, a)

ListsAhead ==
  \A j \in Jobs :
    /\ results[j] # <<>> \/ expected[j] # {} => cmd[j] = "list"
    /\ \A a \in Jobs : todo[j][a] <= modified[a]
    /\ \A a \in expected[j] : a \in Announced /\ IsAbout(a, subject[j])
    /\ pc[j] = "list" => \A a \in expected[j] : Found(j, a) \/ Ahead(j, a)

StoreInv == TypeOK /\ StepIsBacked /\ ChangeExists /\ CutExplained /\ ListsAhead /\ ListsTheNewest

=============================================================================
