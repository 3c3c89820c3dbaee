--------------------------- MODULE DurableRecords ---------------------------
(***************************************************************************)
(* What a store of records promises: a record that was announced, by an    *)
(* answer or by an audit event, is stored, whole, and stays so.            *)
(* FileAssessmentStore keeps this promise for assessments, whose files are *)
(* written once (AssessmentStore).                                         *)
(***************************************************************************)
CONSTANT Records

VARIABLES
  stored,    \* the records that are stored whole
  announced  \* the records somebody was told of

recordVars == <<stored, announced>>

RecordInit == stored = {} /\ announced = {}

Save(r) == stored' = stored \cup {r} /\ UNCHANGED announced

Announce(r) == r \in stored /\ announced' = announced \cup {r} /\ UNCHANGED stored

RecordNext == \E r \in Records : Save(r) \/ Announce(r)

RecordSpec == RecordInit /\ [][RecordNext]_recordVars

=============================================================================
