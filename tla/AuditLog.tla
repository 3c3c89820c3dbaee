------------------------------ MODULE AuditLog ------------------------------
(***************************************************************************)
(* The hash-chained JSON Lines audit log: dbre_platform.audit.AuditLogger, *)
(* and change_risk_engine.audit.AuditLogger, which repeats its code.       *)
(*                                                                         *)
(* Every call of AuditLogger.record() is one element of Calls.  A call     *)
(* reads the hash of the last line, computes its event, and appends one    *)
(* line.  Nothing locks the file in between, so calls made by separate     *)
(* `dbre` processes, or by the API's worker threads, interleave.           *)
(*                                                                         *)
(* SHA-256 is idealised: the digest of a payload is the call that hashed   *)
(* it.  A call hashes one payload only (its own fields, its timestamp and  *)
(* the prev_hash it read), so the call identifies the payload, and a       *)
(* payload that no call ever hashed has a digest no line stores.           *)
(***************************************************************************)
EXTENDS Naturals, Sequences

CONSTANTS
  Calls,     \* the calls of record() made during the life of the log
  Genesis,   \* GENESIS_HASH
  Edited,    \* content that no call wrote
  Torn       \* a line that json.loads rejects

ASSUME SentinelsDistinct ==
  /\ Genesis \notin Calls \cup {Edited, Torn}
  /\ Edited \notin Calls \cup {Torn}
  /\ Torn \notin Calls

VARIABLES
  log,         \* the lines of the file, oldest first
  tailOpen,    \* TRUE when the last line has no newline at its end
  at,          \* where each call is
  seen,        \* the prev_hash each call read
  overlapped,  \* history: two calls were once between read and append together
  altered      \* history: what was done to the file by hand

auditVars == <<log, tailOpen, at, seen, overlapped, altered>>

Hash == Calls \cup {Genesis}

\* A line stands for its content (the call whose fields it holds), and the
\* two hashes stored in it.
Line == [call : Calls \cup {Edited, Torn}, prev : Hash, hash : Hash]

Garbled == [call |-> Torn, prev |-> Genesis, hash |-> Genesis]

\* AuditEvent as record() builds it: prev_hash as read, and its own digest.
EventOf(c) == [call |-> c, prev |-> seen[c], hash |-> c]

AuditInit ==
  /\ log = <<>>
  /\ tailOpen = FALSE
  /\ at = [c \in Calls |-> "idle"]
  /\ seen = [c \in Calls |-> Genesis]
  /\ overlapped = FALSE
  /\ altered = "none"

-----------------------------------------------------------------------------
(***************************************************************************)
(* record()                                                                *)
(***************************************************************************)

\* _last_hash parses the last line only.
TailUnparseable == log # <<>> /\ log[Len(log)].call = Torn

\* Mutant: the scan of the file stops at the first line.
FirstHash == IF log = <<>> THEN Genesis ELSE log[1].hash

LastHash == IF log = <<>> THEN Genesis ELSE log[Len(log)].hash

ReadLast(c) ==
  /\ at[c] = "idle"
  /\ ~TailUnparseable
  /\ seen' = [seen EXCEPT ![c] = LastHash]
  /\ at' = [at EXCEPT ![c] = "read"]
  /\ overlapped' = (overlapped \/ \E d \in Calls : at[d] = "read")
  /\ UNCHANGED <<log, tailOpen, altered>>

\* json.loads raises in _last_hash, and the exception leaves record().
ReadFails(c) ==
  /\ at[c] = "idle"
  /\ TailUnparseable
  /\ at' = [at EXCEPT ![c] = "raised"]
  /\ UNCHANGED <<log, tailOpen, seen, overlapped, altered>>

\* Mutant: the file is opened with mode "w".
AfterTruncating(line) == <<line>>

\* The file is opened for append: text written after a line without newline
\* continues that line, and the two together are no JSON document.
AfterWriting(line) ==
  IF tailOpen THEN [log EXCEPT ![Len(log)] = Garbled] ELSE Append(log, line)

AppendLine(c) ==
  /\ at[c] = "read"
  /\ log' = AfterWriting(EventOf(c))
  /\ tailOpen' = FALSE
  /\ at' = [at EXCEPT ![c] = "done"]
  /\ UNCHANGED <<seen, overlapped, altered>>

\* The process dies, or the disk fills up, in the middle of the write: a
\* part of the line reaches the file, or all of it except the newline.
TearLine(c) ==
  /\ at[c] = "read"
  /\ \E line \in {EventOf(c), Garbled} : log' = AfterWriting(line)
  /\ tailOpen' = TRUE
  /\ at' = [at EXCEPT ![c] = "failed"]
  /\ UNCHANGED <<seen, overlapped, altered>>

\* The process dies, or the open fails, before anything is written.
FailBeforeWrite(c) ==
  /\ at[c] = "read"
  /\ at' = [at EXCEPT ![c] = "failed"]
  /\ UNCHANGED <<log, tailOpen, seen, overlapped, altered>>

-----------------------------------------------------------------------------
(***************************************************************************)
(* What someone with write access to the file may do to it after the fact: *)
(* the alterations verify_chain is documented to detect.  One alteration,  *)
(* or any number of removals of the last line, is made; whoever makes it   *)
(* rewrites the file with an editor, which ends the last line.             *)
(***************************************************************************)
Edits(line) ==
  {[line EXCEPT !.call = Edited]}
    \cup {[line EXCEPT !.prev = h] : h \in Hash \ {line.prev}}
    \cup {[line EXCEPT !.hash = h] : h \in Hash \ {line.hash}}

Swapped(i) == [log EXCEPT ![i] = log[i + 1], ![i + 1] = log[i]]

Without(i) == SubSeq(log, 1, i - 1) \o SubSeq(log, i + 1, Len(log))

Rewrite(lines, kind) ==
  /\ altered \in {"none", "cut"}
  /\ log' = lines
  /\ tailOpen' = FALSE
  /\ altered' = kind
  /\ UNCHANGED <<at, seen, overlapped>>

EditLine(i) ==
  /\ log[i].call # Torn
  /\ \E line \in Edits(log[i]) : Rewrite([log EXCEPT ![i] = line], "changed")

DeleteInner(i) == i < Len(log) /\ Rewrite(Without(i), "changed")

DeleteLast(i) == i = Len(log) /\ Rewrite(Without(i), "cut")

SwapLines(i) == i < Len(log) /\ Rewrite(Swapped(i), "changed")

Alter(i) == EditLine(i) \/ DeleteInner(i) \/ DeleteLast(i) \/ SwapLines(i)

-----------------------------------------------------------------------------
(***************************************************************************)
(* verify_chain(): a read of the whole file, recomputing every digest.     *)
(***************************************************************************)

\* read_all parses every line, so one bad line makes it raise.
ReadAllRaises == \E i \in 1..Len(log) : log[i].call = Torn

ExpectedPrev(i) == IF i = 1 THEN Genesis ELSE log[i - 1].hash

\* The content of the line, with the prev_hash stored in it, is the payload
\* whose digest is stored with it.
HashMatches(line) ==
  /\ line.call \in Calls
  /\ line.call = line.hash
  /\ seen[line.call] = line.prev

\* Mutant: the digests are recomputed, the links are not compared.
ProblemsOfDigests == {i \in 1..Len(log) : ~HashMatches(log[i])}

Problems ==
  {i \in 1..Len(log) : log[i].prev # ExpectedPrev(i) \/ ~HashMatches(log[i])}

Verdict ==
  IF ReadAllRaises THEN "raises" ELSE IF Problems = {} THEN "valid" ELSE "invalid"

-----------------------------------------------------------------------------
Record(c) ==
  ReadLast(c) \/ ReadFails(c) \/ AppendLine(c) \/ TearLine(c) \/ FailBeforeWrite(c)

AuditNext ==
  \/ \E c \in Calls : Record(c)
  \/ \E i \in 1..Len(log) : Alter(i)

AuditSpec == AuditInit /\ [][AuditNext]_auditVars

-----------------------------------------------------------------------------
(***************************************************************************)
(* Properties                                                              *)
(***************************************************************************)

\* The type invariant: the file holds lines, and an open last line exists.
AuditTypeOK ==
  /\ log \in Seq(Line)
  /\ tailOpen \in BOOLEAN
  /\ tailOpen => log # <<>>
  /\ at \in [Calls -> {"idle", "read", "done", "failed", "raised"}]
  /\ seen \in [Calls -> Hash]
  /\ overlapped \in BOOLEAN
  /\ altered \in {"none", "cut", "changed"}

\* verify_chain raises no false alarm: while no two calls of record() overlap
\* and nobody altered the file, it never reports a broken chain, whatever
\* crashed or tore a line in between.
NoFalseAlarm == ~overlapped /\ altered = "none" => Verdict # "invalid"

\* verify_chain keeps detecting one change that was made - a line edited, a
\* line removed from before another one, or two lines swapped, with or without
\* removals of the last line before it - however many events calls of record()
\* that do not overlap append, or tear, after it.  (A later removal of the
\* last line could take the change itself away.)
ChangeDetected == ~overlapped /\ altered = "changed" => Verdict # "valid"

\* record() loses nothing and repeats nothing, overlapping or not: in a log
\* that nobody altered and that read_all can parse, every call that returned
\* has exactly one line, and a call that raised or has written nothing has none.
EventsDurable ==
  altered = "none" /\ ~ReadAllRaises =>
    \A c \in Calls :
      /\ at[c] = "done" => \E i \in 1..Len(log) : log[i].call = c
      /\ \A i \in 1..Len(log) : log[i].call = c => at[c] \in {"done", "failed"}
      /\ \A i, j \in 1..Len(log) : log[i].call = c /\ log[j].call = c => i = j

-----------------------------------------------------------------------------
(***************************************************************************)
(* The inductive invariant behind NoFalseAlarm, EventsDurable and          *)
(* ChangeDetected.                                                         *)
(***************************************************************************)

Past(c) == at[c] \in {"done", "failed"}

\* Until a change, a line is garbled, or the event of a call past its append.
LinesWritten ==
  altered # "changed" =>
    \A i \in 1..Len(log) :
      log[i] = Garbled \/ \E c \in Calls : log[i] = EventOf(c) /\ Past(c)

LinesUnique ==
  altered # "changed" =>
    \A i, j \in 1..Len(log) : log[i].call \in Calls /\ log[i].call = log[j].call => i = j

\* Even in a changed file, no call is yet to read whose line is there: its
\* digest is decided.
LinesPast == \A i \in 1..Len(log) : log[i].call \in Calls => Past(log[i].call)

DoneRecorded ==
  altered = "none" =>
    \A c \in Calls :
      at[c] = "done" => \E i \in 1..Len(log) : log[i].call = c \/ log[i] = Garbled

OneReader ==
  ~overlapped => \A c, d \in Calls : at[c] = "read" /\ at[d] = "read" => c = d

\* What the only call past its read has seen is still the last line.
ReaderFresh ==
  ~overlapped /\ altered = "none" =>
    \A c \in Calls : at[c] = "read" => ~TailUnparseable /\ seen[c] = LastHash

Chained ==
  ~overlapped /\ altered = "none" =>
    \A i \in 1..Len(log) : log[i] # Garbled => log[i].prev = ExpectedPrev(i)

\* The hash of a line that was removed: no line has it or will have it.
Lost(h) == h \in Calls /\ Past(h) /\ \A i \in 1..Len(log) : log[i].call # h

\* Nothing is written behind a garbled line, and no call is about to.
GarbledIsLast ==
  ~overlapped /\ altered # "changed" =>
    \A i \in 1..Len(log) :
      log[i] = Garbled => i = Len(log) /\ \A c \in Calls : at[c] # "read"

\* After removals of the last line too, a call has read the hash of the last
\* line or of one that is gone for good, and so has every line.
ReaderFreshOrLost ==
  ~overlapped /\ altered # "changed" =>
    \A c \in Calls : at[c] = "read" => seen[c] = LastHash \/ Lost(seen[c])

ChainedOrLost ==
  ~overlapped /\ altered # "changed" =>
    \A i \in 1..Len(log) :
      log[i] # Garbled => log[i].prev = ExpectedPrev(i) \/ Lost(log[i].prev)

AuditInv ==
  /\ AuditTypeOK
  /\ LinesWritten
  /\ LinesUnique
  /\ LinesPast
  /\ DoneRecorded
  /\ OneReader
  /\ ReaderFresh
  /\ Chained
  /\ GarbledIsLast
  /\ ReaderFreshOrLost
  /\ ChainedOrLost
  /\ ChangeDetected

=============================================================================
