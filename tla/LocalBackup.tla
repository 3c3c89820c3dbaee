----------------------------- MODULE LocalBackup -----------------------------
(***************************************************************************)
(* Local logical backups: LocalBackupManager (backup/local_backup.py) and  *)
(* the commands `dbre backup create` and `dbre backup restore`.            *)
(*                                                                         *)
(* The jobs work on the backups of one full name: those of another name    *)
(* are in another directory.  A dump and its sidecar are named after the   *)
(* whole second in which their backup was started, and nothing locks them. *)
(*                                                                         *)
(* The bytes of a dump stand for the job whose pg_dump wrote them, and for *)
(* whether it wrote all of them; SHA-256 tells different bytes apart.      *)
(***************************************************************************)
EXTENDS Naturals, FiniteSets

CONSTANTS
  Jobs,            \* invocations of a command, or calls of the manager
  MaxTick,         \* bound: the clock stops here
  TicksPerSecond,  \* the clock's ticks in a second
  Retentions,      \* values of retention_days that are tried, in ticks
  Garbage,         \* the bytes of a damaged file, or of one with two writers
  None

ASSUME BackupAssumption ==
  /\ MaxTick \in Nat /\ TicksPerSecond \in Nat \ {0}
  /\ Retentions \subseteq Nat
  /\ None # Garbage
  /\ {None, Garbage} \cap [by : Jobs, whole : BOOLEAN] = {}
  /\ {None, Garbage} \cap [created : 0..MaxTick,
                            digest : [by : Jobs, whole : BOOLEAN] \cup {Garbage, None}] = {}

VARIABLES
  now,       \* the clock
  cmd,       \* the command of each job
  pc,        \* where each job is
  place,     \* the second that names the files a job works on
  meta,      \* the BackupMetadata a job has made or listed
  dump,      \* the .dump file of each second
  sidecar,   \* the .json file of each second
  linked,    \* the jobs whose pg_dump has the file open that is now in place
  todo,      \* the seconds a prune has still to remove
  restored,  \* the bytes pg_restore loaded for each job
  event      \* the audit event of each job

files == <<dump, sidecar, linked>>
backupVars == <<now, cmd, pc, place, meta, files, todo, restored, event>>

Ticks == 0..MaxTick
Second(t) == t \div TicksPerSecond
Seconds == {Second(t) : t \in Ticks}

Bytes == [by : Jobs, whole : BOOLEAN] \cup {Garbage}
PartOf(j) == [by |-> j, whole |-> FALSE]
WholeOf(j) == [by |-> j, whole |-> TRUE]

\* What BackupMetadata says of the file, the path apart; the digest is None
\* until it is computed.
Metadata == [created : Ticks, digest : Bytes \cup {None}]

Makers == {j \in Jobs : cmd[j] \in {"create", "drill"}}

BackupInit ==
  /\ now = 0
  /\ cmd = [j \in Jobs |-> "none"]
  /\ pc = [j \in Jobs |-> "idle"]
  /\ place = [j \in Jobs |-> 0]
  /\ meta = [j \in Jobs |-> None]
  /\ dump = [s \in Seconds |-> None]
  /\ sidecar = [s \in Seconds |-> None]
  /\ linked = {}
  /\ todo = [j \in Jobs |-> {}]
  /\ restored = [j \in Jobs |-> None]
  /\ event = [j \in Jobs |-> "none"]

Move(j, from, to) == pc[j] = from /\ pc' = [pc EXCEPT ![j] = to]

Start(j, c, to) == Move(j, "idle", to) /\ cmd' = [cmd EXCEPT ![j] = c]

Tick ==
  /\ now < MaxTick
  /\ now' = now + 1
  /\ UNCHANGED <<cmd, pc, place, meta, files, todo, restored, event>>

-----------------------------------------------------------------------------
(***************************************************************************)
(* create_backup: the dump, its checksum, the sidecar.                     *)
(***************************************************************************)
Open(s) == {j \in linked : place[j] = s /\ pc[j] = "dumping"}

StartMaking(j, c) ==
  /\ Start(j, c, "dump")
  /\ place' = [place EXCEPT ![j] = Second(now)]
  /\ meta' = [meta EXCEPT ![j] = [created |-> now, digest |-> None]]
  /\ UNCHANGED <<now, files, todo, restored, event>>

\* pg_dump truncates its output file before it connects.
DumpOpens(j) ==
  /\ Move(j, "dump", "dumping")
  /\ dump' = [dump EXCEPT ![place[j]] = IF Open(place[j]) = {} THEN PartOf(j) ELSE Garbage]
  /\ linked' = linked \cup {j}
  /\ UNCHANGED <<now, cmd, place, meta, sidecar, todo, restored, event>>

\* The file may have been replaced or removed by now; a pg_dump that wrote to
\* it together with another one may leave either of them, or a mixture.
DumpEnds(j) ==
  /\ Move(j, "dumping", "hash")
  /\ IF j \notin linked THEN UNCHANGED dump
     ELSE \E bytes \in IF dump[place[j]] = PartOf(j) THEN {WholeOf(j)} ELSE {WholeOf(j), Garbage} :
            dump' = [dump EXCEPT ![place[j]] = bytes]
  /\ UNCHANGED <<now, cmd, place, meta, sidecar, linked, todo, restored, event>>

Unlink(s) ==
  /\ dump' = [dump EXCEPT ![s] = None]
  /\ linked' = {j \in linked : place[j] # s}

\* Mutant: the exit status of pg_dump is not looked at.
AcceptFailedDump(j) ==
  /\ Move(j, "dumping", "hash")
  /\ UNCHANGED <<now, cmd, place, meta, files, todo, restored, event>>

\* pg_dump exits with an error, or is stopped at its timeout.
DumpFails(j) ==
  /\ Move(j, "dumping", "failed")
  /\ Unlink(place[j])
  /\ UNCHANGED <<now, cmd, place, meta, sidecar, todo, restored, event>>

\* pg_dump, or the settings to connect with, are missing.
CannotDump(j) ==
  /\ Move(j, "dump", "failed")
  /\ UNCHANGED <<now, cmd, place, meta, files, todo, restored, event>>

\* stat raises for a file that is gone: not a BackupError, so nothing is
\* recorded.
HashDump(j) ==
  LET bytes == dump[place[j]] IN
  /\ IF bytes = None
     THEN Move(j, "hash", "raised") /\ UNCHANGED meta
     ELSE Move(j, "hash", "sidecar") /\ meta' = [meta EXCEPT ![j].digest = bytes]
  /\ UNCHANGED <<now, cmd, place, files, todo, restored, event>>

\* write_text empties the file first.
OpenSidecar(j) ==
  /\ Move(j, "sidecar", "writing")
  /\ sidecar' = [sidecar EXCEPT ![place[j]] = Garbage]
  /\ UNCHANGED <<now, cmd, place, meta, dump, linked, todo, restored, event>>

WriteSidecar(j) ==
  /\ Move(j, "writing", "made")
  /\ sidecar' = [sidecar EXCEPT ![place[j]] = meta[j]]
  /\ UNCHANGED <<now, cmd, place, meta, dump, linked, todo, restored, event>>

-----------------------------------------------------------------------------
(***************************************************************************)
(* list_backups, verify_backup, restore_backup, prune_old_backups.         *)
(***************************************************************************)

\* The sidecars that parse.
Listed == {s \in Seconds : sidecar[s] \in Metadata}

Verified(m, s) == dump[s] # None /\ dump[s] = m.digest

\* `backup restore` lists, and picks the backup at --index: any of them.
StartRestore(j) ==
  /\ \/ \E s \in Listed :
          /\ Start(j, "restore", "verify")
          /\ place' = [place EXCEPT ![j] = s]
          /\ meta' = [meta EXCEPT ![j] = sidecar[s]]
     \/ Start(j, "restore", "refused") /\ UNCHANGED <<place, meta>>
  /\ UNCHANGED <<now, files, todo, restored, event>>

\* Mutant: the checksum is not compared.
VerifyNothing(j) ==
  /\ Move(j, "verify", "restore")
  /\ UNCHANGED <<now, cmd, place, meta, files, todo, restored, event>>

Verify(j) ==
  /\ Move(j, "verify", IF Verified(meta[j], place[j]) THEN "restore" ELSE "failed")
  /\ UNCHANGED <<now, cmd, place, meta, files, todo, restored, event>>

\* pg_restore reads the file anew, and loads what it can.
PgRestore(j) ==
  /\ pc[j] = "restore"
  /\ restored' = [restored EXCEPT ![j] = dump[place[j]]]
  /\ \/ dump[place[j]] # None /\ Move(j, "restore", "restored")
     \/ Move(j, "restore", "failed")
  /\ UNCHANGED <<now, cmd, place, meta, files, todo, event>>

\* Mutant: the retention is ignored.
EverythingExpired(r) == Listed

Expired(r) == {s \in Listed : sidecar[s].created + r < now}

\* prune_old_backups is called with the request's backup_retention_days.
StartPrune(j) ==
  /\ \E r \in Retentions : todo' = [todo EXCEPT ![j] = Expired(r)]
  /\ Start(j, "prune", "prune")
  /\ UNCHANGED <<now, place, meta, files, restored, event>>

PruneDump(j) ==
  /\ \E s \in todo[j] : Unlink(s) /\ place' = [place EXCEPT ![j] = s]
  /\ Move(j, "prune", "unlink")
  /\ UNCHANGED <<now, cmd, meta, sidecar, todo, restored, event>>

PruneSidecar(j) ==
  /\ Move(j, "unlink", "prune")
  /\ sidecar' = [sidecar EXCEPT ![place[j]] = None]
  /\ todo' = [todo EXCEPT ![j] = @ \ {place[j]}]
  /\ UNCHANGED <<now, cmd, place, meta, dump, linked, restored, event>>

PruneEnds(j) ==
  /\ todo[j] = {}
  /\ Move(j, "prune", "pruned")
  /\ UNCHANGED <<now, cmd, place, meta, files, todo, restored, event>>

-----------------------------------------------------------------------------
\* The commands record what create_backup or restore_backup did.
Record(j) ==
  /\ \/ cmd[j] = "create" /\ pc[j] \in {"made", "failed"}
     \/ cmd[j] = "restore" /\ pc[j] \in {"restored", "failed"}
  /\ event' = [event EXCEPT ![j] = IF pc[j] = "failed" THEN "failure" ELSE "success"]
  /\ pc' = [pc EXCEPT ![j] = "recorded"]
  /\ UNCHANGED <<now, cmd, place, meta, files, todo, restored>>

Ended == {"idle", "raised", "refused", "pruned", "recorded", "killed"}

\* The process is killed, or a file cannot be read, written or removed.  A
\* pg_dump it has started is killed too, or runs on to its end.
Kill(j) ==
  /\ pc[j] \notin Ended
  /\ pc' = [pc EXCEPT ![j] = "killed"]
  /\ \/ UNCHANGED dump
     \/ /\ pc[j] = "dumping" /\ dump[place[j]] = PartOf(j)
        /\ dump' = [dump EXCEPT ![place[j]] = WholeOf(j)]
  /\ UNCHANGED <<now, cmd, place, meta, sidecar, linked, todo, restored, event>>

\* A disk error or a bad copy damages a dump.  Damage between the check of a
\* file and its use is left out: the checksum cannot see it.
Damage(s) ==
  /\ dump[s] # None
  /\ \A j \in Jobs : place[j] = s => pc[j] \notin {"dumping", "hash", "restore"}
  /\ dump' = [dump EXCEPT ![s] = Garbage]
  /\ UNCHANGED <<now, cmd, pc, place, meta, sidecar, linked, todo, restored, event>>

Make(j) ==
  \/ DumpOpens(j) \/ DumpEnds(j) \/ DumpFails(j) \/ CannotDump(j)
  \/ HashDump(j) \/ OpenSidecar(j) \/ WriteSidecar(j)

Use(j) ==
  \/ StartRestore(j) \/ Verify(j) \/ PgRestore(j)
  \/ StartPrune(j) \/ PruneDump(j) \/ PruneSidecar(j) \/ PruneEnds(j)

BackupNext ==
  \/ Tick
  \/ \E s \in Seconds : Damage(s)
  \/ \E j \in Jobs : StartMaking(j, "create") \/ Make(j) \/ Use(j) \/ Record(j) \/ Kill(j)

BackupSpec == BackupInit /\ [][BackupNext]_backupVars

-----------------------------------------------------------------------------
(***************************************************************************)
(* Properties                                                              *)
(***************************************************************************)

\* Where a job may be, in a drill (DrTest) or outside of one.
Positions ==
  {"idle", "dump", "dumping", "hash", "sidecar", "writing", "made", "failed", "verify",
   "restore", "restored", "prune", "unlink", "check", "target", "query", "drop", "report"}
    \cup Ended

\* The type invariant: a sidecar is empty, or in full, and only a job that
\* makes a backup has a pg_dump.
BackupTypeOK ==
  /\ now \in Ticks
  /\ cmd \in [Jobs -> {"none", "create", "drill", "restore", "prune"}]
  /\ pc \in [Jobs -> Positions]
  /\ place \in [Jobs -> Seconds]
  /\ meta \in [Jobs -> Metadata \cup {None}]
  /\ dump \in [Seconds -> Bytes \cup {None}]
  /\ sidecar \in [Seconds -> [created : Ticks, digest : Bytes] \cup {None, Garbage}]
  /\ linked \subseteq Makers
  /\ todo \in [Jobs -> SUBSET Seconds]
  /\ restored \in [Jobs -> Bytes \cup {None}]
  /\ event \in [Jobs -> {"none", "success", "failure"}]

\* Two backups were started in one second, and share their files.
Collide == \E j, k \in Makers : j # k /\ place[j] = place[k]

Trusted(s) == s \in Listed /\ Verified(sidecar[s], s)

\* A backup that is listed and whose checksum matches is a whole dump of the
\* job that recorded it, whatever jobs failed or were killed, pruned or
\* restored meanwhile: a dump cut short is never taken for a backup.
TrustedIsWhole ==
  ~Collide =>
    \A s \in Seconds : Trusted(s) =>
      \E j \in Makers :
        place[j] = s /\ dump[s] = WholeOf(j) /\ sidecar[s].created = meta[j].created

\* A restore that succeeds has loaded a whole dump, the one its metadata
\* describe, although it opens the file again after checking it.
RestoredIsRecorded ==
  ~Collide =>
    \A j \in Jobs : pc[j] = "restored" =>
      restored[j] = meta[j].digest /\ \E k \in Makers : restored[j] = WholeOf(k)

\* A good backup stays good until it is damaged, or a prune that found it
\* older than its retention removes it.
GoodUntilExpired ==
  [][~Collide' =>
       \A s \in Seconds : Trusted(s) /\ ~Trusted(s)' =>
         \/ dump'[s] = Garbage
         \/ \E j \in Jobs, r \in Retentions :
              cmd[j] = "prune" /\ s \in todo[j] /\ sidecar[s].created + r < now]_backupVars

-----------------------------------------------------------------------------
(***************************************************************************)
(* A statement of the repository that the code does not meet.              *)
(***************************************************************************)

\* The metadata that a successful create_backup returns are "everything needed
\* to find, verify, and restore one backup later": without a prune, the dump
\* of a backup that was reported as made is there.
ReportedBackupExists ==
  \A j \in Jobs :
    cmd[j] = "create" /\ event[j] = "success" =>
      dump[place[j]] # None \/ \E k \in Jobs : cmd[k] = "prune"

-----------------------------------------------------------------------------
(***************************************************************************)
(* The inductive invariant behind the three properties.                    *)
(***************************************************************************)

\* Job k has computed the checksum of its dump.
Hashed(k) == k \in Makers /\ meta[k] # None /\ meta[k].digest # None

\* The metadata that j works from describe the backup of a job at its place.
Source(j) == \E k \in Jobs : Hashed(k) /\ place[k] = place[j] /\ meta[k] = meta[j]

\* A job works once, and only a maker makes, only a prune prunes.
JobsInPlace ==
  \A j \in Jobs :
    /\ pc[j] = "idle" => cmd[j] = "none" /\ meta[j] = None /\ todo[j] = {}
    /\ pc[j] \in {"dump", "dumping", "hash"} =>
         j \in Makers /\ meta[j] # None /\ meta[j].digest = None
    /\ pc[j] \in {"sidecar", "writing", "made"} => Hashed(j)
    /\ pc[j] \in {"verify", "restore", "restored"} => Source(j) /\ (j \in Makers => Hashed(j))
    /\ pc[j] \in {"prune", "unlink"} => cmd[j] = "prune"
    /\ pc[j] = "unlink" => place[j] \in todo[j]

\* A sidecar that parses was written, in full, by a job of its second.
SidecarsAreOwned ==
  \A s \in Listed :
    \E k \in Jobs :
      Hashed(k) /\ place[k] = s /\ sidecar[s] = meta[k] /\ pc[k] \notin {"sidecar", "writing"}

\* A prune removes what was recorded, and older than a retention, when it began.
TodoHasExpired ==
  \A j \in Jobs : \A s \in todo[j] :
    /\ cmd[j] = "prune"
    /\ \E k \in Jobs, r \in Retentions :
         Hashed(k) /\ place[k] = s /\ meta[k].created + r < now

\* The file a pg_dump writes is its own until its checksum is computed.
DumpIsOwn ==
  ~Collide =>
    \A j \in Jobs :
      /\ pc[j] = "dumping" =>
           \/ j \in linked /\ dump[place[j]] = PartOf(j)
           \/ j \notin linked /\ dump[place[j]] = None
      /\ pc[j] = "hash" => dump[place[j]] \in {None, WholeOf(j)}

DigestIsOfWhole == ~Collide => \A k \in Jobs : Hashed(k) => meta[k].digest = WholeOf(k)

\* Between the check of a dump and pg_restore the file may go, not change.
RestoreSeesVerified ==
  ~Collide =>
    \A j \in Jobs :
      /\ pc[j] = "restore" => dump[place[j]] \in {None, meta[j].digest}
      /\ pc[j] = "restored" => restored[j] = meta[j].digest

BackupInv ==
  /\ BackupTypeOK
  /\ JobsInPlace
  /\ SidecarsAreOwned
  /\ TodoHasExpired
  /\ DumpIsOwn
  /\ DigestIsOfWhole
  /\ RestoreSeesVerified

=============================================================================
