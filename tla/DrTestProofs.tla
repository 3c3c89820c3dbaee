---------------------------- MODULE DrTestProofs ----------------------------
(***************************************************************************)
(* Theorems about LocalBackup and DrTest, for every set of jobs, every     *)
(* clock, every retention and every number of queries.                     *)
(***************************************************************************)
EXTENDS DrTest, FiniteSetTheorems, SequenceTheorems, TLAPS

(***************************************************************************)
(* What no step takes from a job, and what follows from that alone.        *)
(***************************************************************************)

\* A job that has started keeps its command; one that makes a backup keeps its
\* place, and its metadata once the checksum is in them.
KeepsJobs ==
  /\ \A k \in Jobs : pc[k] # "idle" => cmd'[k] = cmd[k]
  /\ \A k \in Makers : place'[k] = place[k]
  /\ \A k \in Jobs : Hashed(k) => meta'[k] = meta[k]

\* Makers stay makers, their backups stay what they are, and two backups of
\* one second stay two.
LEMMA JobsStay ==
  ASSUME JobsInPlace, KeepsJobs
  PROVE  /\ \A k \in Makers : cmd'[k] = cmd[k] /\ pc[k] # "idle"
         /\ Makers \subseteq Makers'
         /\ \A k \in Jobs : Hashed(k) => Hashed(k)'
         /\ Collide => Collide'
<1>1. \A k \in Makers : cmd'[k] = cmd[k] /\ pc[k] # "idle"
  BY DEF JobsInPlace, KeepsJobs, Makers
<1>2. Makers \subseteq Makers'
  BY <1>1 DEF Makers
<1>3. \A k \in Jobs : Hashed(k) => Hashed(k)'
  BY <1>2 DEF KeepsJobs, Hashed
<1>4. Collide => Collide'
  BY <1>2 DEF KeepsJobs, Collide
<1> QED BY <1>1, <1>2, <1>3, <1>4

\* Two makers at one place collide.
LEMMA SamePlace ==
  ASSUME ~Collide, NEW j \in Makers, NEW k \in Makers, place[j] = place[k]
  PROVE  j = k
BY DEF Collide

\* Nobody has listed the backup of a second whose maker has not hashed it.
LEMMA SourceIsHashed ==
  ASSUME ~Collide, NEW j \in Makers, ~Hashed(j), NEW i \in Jobs, Source(i)
  PROVE  place[i] # place[j]
BY DEF Source, Hashed, Collide

\* What a prune has to remove shrinks, and only gets older.
LEMMA TodoStays ==
  ASSUME BackupInv, BackupTypeOK', KeepsJobs, \A j \in Jobs : todo'[j] \subseteq todo[j], now <= now'
  PROVE  TodoHasExpired'
<1> SUFFICES ASSUME NEW j \in Jobs, NEW s \in todo'[j]
             PROVE  /\ cmd'[j] = "prune"
                    /\ \E k \in Jobs, r \in Retentions :
                         Hashed(k)' /\ place'[k] = s /\ meta'[k].created + r < now'
  BY DEF TodoHasExpired
<1>1. PICK k \in Jobs, r \in Retentions :
        Hashed(k) /\ place[k] = s /\ meta[k].created + r < now
  BY DEF BackupInv, TodoHasExpired
<1>2. cmd[j] = "prune" /\ pc[j] # "idle"
  BY DEF BackupInv, TodoHasExpired, JobsInPlace
<1>3. Hashed(k)' /\ place'[k] = s /\ meta'[k] = meta[k]
  BY <1>1, JobsStay DEF BackupInv, KeepsJobs, Hashed
<1>4. meta[k].created \in Nat /\ r \in Nat /\ now \in Nat /\ now' \in Nat
  BY <1>1, BackupAssumption DEF BackupInv, BackupTypeOK, Hashed, Metadata, Ticks
<1> QED BY <1>1, <1>2, <1>3, <1>4 DEF KeepsJobs

\* A sidecar that is not written anew stays its maker's.
LEMMA SidecarsStay ==
  ASSUME BackupInv, BackupTypeOK', KeepsJobs,
         \A s \in Seconds : sidecar'[s] = sidecar[s] \/ sidecar'[s] \notin Metadata,
         \A k \in Jobs : pc'[k] \in {"sidecar", "writing"} => pc[k] \in {"hash", "sidecar", "writing"}
  PROVE  SidecarsAreOwned'
<1> SUFFICES ASSUME NEW s \in Seconds, sidecar'[s] \in Metadata
             PROVE  \E k \in Jobs : /\ Hashed(k)' /\ place'[k] = s /\ sidecar'[s] = meta'[k]
                                    /\ pc'[k] \notin {"sidecar", "writing"}
  BY DEF SidecarsAreOwned, Listed
<1>1. PICK k \in Jobs : /\ Hashed(k) /\ place[k] = s /\ sidecar[s] = meta[k]
                        /\ pc[k] \notin {"sidecar", "writing"}
  BY DEF BackupInv, SidecarsAreOwned, Listed
<1>2. pc[k] # "hash"
  BY <1>1 DEF BackupInv, JobsInPlace, Hashed
<1>3. Hashed(k)' /\ place'[k] = s /\ sidecar'[s] = meta'[k]
  BY <1>1, JobsStay DEF BackupInv, KeepsJobs, Hashed
<1> QED BY <1>1, <1>2, <1>3

\* Where no checksum is computed, the checksums stay those of whole dumps.
LEMMA DigestsStay ==
  ASSUME BackupInv, KeepsJobs, \A k \in Jobs : Hashed(k)' => Hashed(k)
  PROVE  DigestIsOfWhole'
BY JobsStay DEF BackupInv, KeepsJobs, DigestIsOfWhole, WholeOf

\* A dump that nobody touches stays its pg_dump's.
LEMMA DumpsStay ==
  ASSUME BackupInv, KeepsJobs, dump' = dump, linked' = linked,
         \A j \in Jobs : pc'[j] \in {"dumping", "hash"} => pc'[j] = pc[j]
  PROVE  DumpIsOwn'
<1> SUFFICES ASSUME ~Collide', NEW j \in Jobs, pc'[j] \in {"dumping", "hash"}
             PROVE  /\ pc'[j] = "dumping" =>
                         \/ j \in linked' /\ dump'[place'[j]] = PartOf(j)
                         \/ j \notin linked' /\ dump'[place'[j]] = None
                    /\ pc'[j] = "hash" => dump'[place'[j]] \in {None, WholeOf(j)}
  BY DEF DumpIsOwn, PartOf, WholeOf
<1>1. ~Collide /\ pc'[j] = pc[j] /\ place'[j] = place[j]
  BY JobsStay DEF BackupInv, JobsInPlace, KeepsJobs
<1> QED BY <1>1 DEF BackupInv, DumpIsOwn

\* Nor does the file under a pg_restore change, or what one has loaded.
LEMMA RestoresStay ==
  ASSUME BackupInv, KeepsJobs, dump' = dump,
         \A j \in Jobs : pc'[j] \in {"restore", "restored"} =>
           pc'[j] = pc[j] /\ place'[j] = place[j] /\ meta'[j] = meta[j] /\ restored'[j] = restored[j]
  PROVE  RestoreSeesVerified'
BY JobsStay DEF BackupInv, RestoreSeesVerified

\* The place in the command of every job whose own state is left alone.
JobInPlace(j) ==
  /\ pc[j] = "idle" => cmd[j] = "none" /\ meta[j] = None /\ todo[j] = {}
  /\ pc[j] \in {"dump", "dumping", "hash"} =>
       j \in Makers /\ meta[j] # None /\ meta[j].digest = None
  /\ pc[j] \in {"sidecar", "writing", "made"} => Hashed(j)
  /\ pc[j] \in {"verify", "restore", "restored"} => Source(j) /\ (j \in Makers => Hashed(j))
  /\ pc[j] \in {"prune", "unlink"} => cmd[j] = "prune"
  /\ pc[j] = "unlink" => place[j] \in todo[j]

LEMMA OthersInPlace ==
  ASSUME BackupInv, KeepsJobs, NEW j \in Jobs, JobInPlace(j)',
         \A k \in Jobs \ {j} :
           pc'[k] = pc[k] /\ cmd'[k] = cmd[k] /\ place'[k] = place[k] /\ meta'[k] = meta[k] /\ todo'[k] = todo[k]
  PROVE  JobsInPlace'
<1>1. ASSUME NEW k \in Jobs \ {j} PROVE JobInPlace(k)'
  <2>1. JobInPlace(k)
    BY DEF BackupInv, JobsInPlace, JobInPlace
  <2>2. Source(k) => Source(k)'
    BY <1>1, JobsStay DEF BackupInv, KeepsJobs, Source, Hashed
  <2>3. (Hashed(k) => Hashed(k)') /\ (k \in Makers <=> k \in Makers')
    BY <1>1, JobsStay DEF BackupInv, Makers
  <2> QED BY <1>1, <2>1, <2>2, <2>3 DEF JobInPlace
<1> QED BY <1>1 DEF JobsInPlace, JobInPlace

-----------------------------------------------------------------------------
(***************************************************************************)
(* The steps of LocalBackup.                                               *)
(***************************************************************************)

\* A step of a job, or of the drill around it, that only moves it on.
LEMMA MovingKeepsInv ==
  ASSUME BackupInv, NEW j \in Jobs, pc[j] # "idle",
         NEW to \in {"failed", "raised", "refused", "pruned", "recorded", "killed", "check",
                     "target", "query", "drop", "report", "verify", "restore"},
         pc' = [pc EXCEPT ![j] = to],
         event' \in [Jobs -> {"none", "success", "failure"}],
         UNCHANGED <<now, cmd, place, meta, files, todo, restored>>,
         to = "verify" => Hashed(j),
         to = "restore" => pc[j] = "verify" /\ Verified(meta[j], place[j])
  PROVE  KeepsJobs /\ BackupInv'
<1> USE DEF BackupInv
<1>1. KeepsJobs /\ now' <= now /\ now <= now'
  BY DEF KeepsJobs, files, BackupTypeOK, Ticks
<1>2. /\ pc'[j] = to /\ \A k \in Jobs \ {j} : pc'[k] = pc[k]
      /\ UNCHANGED dump /\ UNCHANGED sidecar /\ UNCHANGED linked
  BY DEF BackupTypeOK, files
<1>3. BackupTypeOK'
  BY DEF BackupTypeOK, files, Makers, Positions, Ended
<1>4. JobsInPlace'
  <2>1. Source(j) => Source(j)'
    BY <1>1, JobsStay DEF KeepsJobs, Source, Hashed
  <2>2. Hashed(j) => Hashed(j)' /\ Source(j)'
    BY <1>1, JobsStay DEF KeepsJobs, Source, Hashed
  <2>3. JobInPlace(j)'
    BY <1>2, <2>1, <2>2 DEF JobInPlace, JobsInPlace, Makers
  <2> QED BY <1>1, <1>2, <2>3, OthersInPlace
<1>5. SidecarsAreOwned' /\ TodoHasExpired' /\ DumpIsOwn'
  BY <1>1, <1>2, <1>3, SidecarsStay, TodoStays, DumpsStay
<1>6. DigestIsOfWhole'
  BY <1>1, DigestsStay DEF Hashed, Makers
<1>7. RestoreSeesVerified'
  <2>1. CASE to # "restore"
    BY <1>1, <1>2, <2>1, RestoresStay
  <2>2. CASE to = "restore"
    BY <1>1, <1>2, <2>2, JobsStay DEF RestoreSeesVerified, Verified
  <2> QED BY <2>1, <2>2
<1> QED BY <1>1, <1>3, <1>4, <1>5, <1>6, <1>7

LEMMA TickKeepsInv ==
  ASSUME BackupInv, Tick
  PROVE  KeepsJobs /\ BackupInv'
<1> USE DEF BackupInv, Tick
<1>1. KeepsJobs /\ now <= now'
  BY DEF KeepsJobs, BackupTypeOK, Ticks
<1>2. BackupTypeOK'
  BY BackupAssumption DEF BackupTypeOK, Ticks, files, Makers
<1>3. JobsInPlace'
  BY DEF JobsInPlace, Makers, Hashed, Source
<1>4. SidecarsAreOwned' /\ TodoHasExpired' /\ DumpIsOwn' /\ RestoreSeesVerified'
  BY <1>1, <1>2, SidecarsStay, TodoStays, DumpsStay, RestoresStay DEF files
<1>5. DigestIsOfWhole'
  BY <1>1, DigestsStay DEF Hashed, Makers
<1> QED BY <1>1, <1>2, <1>3, <1>4, <1>5

\* Damage hits a file nobody is about to hash or to restore.
LEMMA DamageKeepsInv ==
  ASSUME BackupInv, NEW s \in Seconds, Damage(s)
  PROVE  KeepsJobs /\ BackupInv'
<1> USE DEF BackupInv, Damage
<1>1. KeepsJobs /\ now <= now'
  BY DEF KeepsJobs, BackupTypeOK, Ticks
<1>2. BackupTypeOK'
  BY DEF BackupTypeOK, Bytes, Makers
<1>3. JobsInPlace'
  BY DEF JobsInPlace, Makers, Hashed, Source
<1>4. SidecarsAreOwned' /\ TodoHasExpired'
  BY <1>1, <1>2, SidecarsStay, TodoStays
<1>5. DigestIsOfWhole'
  BY <1>1, DigestsStay DEF Hashed, Makers
<1>6. \A j \in Jobs : pc[j] \in {"dumping", "hash", "restore"} => dump'[place[j]] = dump[place[j]]
  BY DEF BackupTypeOK
<1>7. DumpIsOwn' /\ RestoreSeesVerified'
  BY <1>1, <1>6, JobsStay DEF DumpIsOwn, RestoreSeesVerified, PartOf, WholeOf
<1> QED BY <1>1, <1>2, <1>3, <1>4, <1>5, <1>7

\* A backup is started, by a command or by a drill.
LEMMA StartMakingKeepsInv ==
  ASSUME BackupInv, NEW j \in Jobs, NEW c \in {"create", "drill"}, StartMaking(j, c)
  PROVE  KeepsJobs /\ BackupInv'
<1> USE DEF BackupInv, StartMaking, Start, Move
<1>1. /\ pc[j] = "idle" /\ cmd[j] = "none" /\ j \notin Makers /\ ~Hashed(j)
      /\ pc'[j] = "dump" /\ cmd'[j] = c /\ j \in Makers'
      /\ meta'[j] = [created |-> now, digest |-> None]
      /\ \A k \in Jobs \ {j} : /\ pc'[k] = pc[k] /\ cmd'[k] = cmd[k]
                               /\ place'[k] = place[k] /\ meta'[k] = meta[k]
      /\ UNCHANGED now /\ UNCHANGED dump /\ UNCHANGED sidecar /\ UNCHANGED linked
      /\ UNCHANGED todo /\ UNCHANGED restored
  BY DEF BackupTypeOK, JobsInPlace, Makers, Hashed, files
<1>2. KeepsJobs /\ now <= now'
  BY <1>1 DEF KeepsJobs, BackupTypeOK, Ticks
<1>3. meta'[j] \in Metadata /\ meta'[j] # None
  BY <1>1, BackupAssumption DEF Metadata, BackupTypeOK, Ticks, Bytes
<1>4. BackupTypeOK'
  BY <1>1, <1>3 DEF BackupTypeOK, Seconds, Makers, Positions, Ended
<1>5. JobsInPlace'
  <2>1. JobInPlace(j)'
    BY <1>1, <1>3 DEF JobInPlace
  <2> QED BY <1>1, <1>2, <2>1, OthersInPlace
<1>6. SidecarsAreOwned' /\ TodoHasExpired' /\ DumpIsOwn'
  BY <1>1, <1>2, <1>4, SidecarsStay, TodoStays, DumpsStay
<1>7. DigestIsOfWhole'
  BY <1>1, <1>2, DigestsStay DEF Hashed, Makers
<1>8. RestoreSeesVerified'
  BY <1>1, <1>2, RestoresStay
<1> QED BY <1>2, <1>4, <1>5, <1>6, <1>7, <1>8

\* What pg_dump does to its file, and what removing it after a failure does,
\* concerns no backup that is recorded: all those are of other seconds.
LEMMA WritingDumpKeepsInv ==
  ASSUME BackupInv, BackupTypeOK', NEW j \in Jobs, pc[j] \in {"dump", "dumping"},
         NEW to \in {"dumping", "hash", "failed", "killed"}, pc' = [pc EXCEPT ![j] = to],
         NEW bytes, dump' = [dump EXCEPT ![place[j]] = bytes],
         \A k \in Makers \ {j} : place[k] # place[j] => (k \in linked' <=> k \in linked),
         UNCHANGED <<now, cmd, place, meta, sidecar, todo, restored, event>>,
         ~Collide /\ to = "dumping" => j \in linked' /\ bytes = PartOf(j),
         ~Collide /\ to = "hash" => bytes \in {None, WholeOf(j)}
  PROVE  KeepsJobs /\ BackupInv'
<1> USE DEF BackupInv
<1>1. KeepsJobs /\ now <= now'
  BY DEF KeepsJobs, BackupTypeOK, Ticks
<1>2. pc'[j] = to /\ \A k \in Jobs \ {j} : pc'[k] = pc[k]
  BY DEF BackupTypeOK
<1>3. j \in Makers /\ ~Hashed(j) /\ meta[j] # None /\ meta[j].digest = None
  BY DEF JobsInPlace, Hashed
<1>4. JobsInPlace'
  <2>1. JobInPlace(j)'
    BY <1>2, <1>3 DEF JobInPlace, Makers
  <2> QED BY <1>1, <1>2, <2>1, OthersInPlace
<1>5. SidecarsAreOwned' /\ TodoHasExpired'
  BY <1>1, <1>2, SidecarsStay, TodoStays
<1>6. DigestIsOfWhole'
  BY <1>1, DigestsStay DEF Hashed, Makers
<1>7. \A s \in Seconds : dump'[s] = IF s = place[j] THEN bytes ELSE dump[s]
  BY DEF BackupTypeOK
<1>8. DumpIsOwn'
  <2> SUFFICES ASSUME ~Collide', NEW k \in Jobs, pc'[k] \in {"dumping", "hash"}
               PROVE  /\ pc'[k] = "dumping" =>
                           \/ k \in linked' /\ dump'[place[k]] = PartOf(k)
                           \/ k \notin linked' /\ dump'[place[k]] = None
                      /\ pc'[k] = "hash" => dump'[place[k]] \in {None, WholeOf(k)}
    BY DEF DumpIsOwn, PartOf, WholeOf
  <2>1. ~Collide /\ place[k] \in Seconds
    BY <1>1, JobsStay DEF BackupTypeOK
  <2>2. CASE k = j
    BY <1>2, <1>7, <2>1, <2>2
  <2>3. CASE k # j
    <3>1. pc'[k] = pc[k] /\ k \in Makers
      BY <1>2, <2>3 DEF JobsInPlace
    <3>2. place[k] # place[j]
      BY <1>3, <2>1, <2>3, <3>1, SamePlace
    <3> QED BY <1>7, <2>1, <2>3, <3>1, <3>2 DEF DumpIsOwn
  <2> QED BY <2>2, <2>3
<1>9. RestoreSeesVerified'
  <2> SUFFICES ASSUME ~Collide', NEW k \in Jobs, pc'[k] \in {"restore", "restored"}
               PROVE  /\ pc'[k] = "restore" => dump'[place[k]] \in {None, meta[k].digest}
                      /\ pc'[k] = "restored" => restored[k] = meta[k].digest
    BY DEF RestoreSeesVerified
  <2>1. ~Collide /\ place[k] \in Seconds /\ pc'[k] = pc[k]
    BY <1>1, <1>2, JobsStay DEF BackupTypeOK
  <2>2. place[k] # place[j]
    BY <1>3, <2>1, SourceIsHashed DEF JobsInPlace
  <2> QED BY <1>7, <2>1, <2>2 DEF RestoreSeesVerified
<1> QED BY <1>1, <1>4, <1>5, <1>6, <1>8, <1>9

LEMMA DumpingKeepsInv ==
  ASSUME BackupInv, NEW j \in Jobs, DumpOpens(j) \/ DumpEnds(j) \/ DumpFails(j)
  PROVE  KeepsJobs /\ BackupInv'
<1> USE DEF BackupInv
<1>1. j \in Makers /\ place[j] \in Seconds /\ PartOf(j) \in Bytes /\ WholeOf(j) \in Bytes
  BY DEF DumpOpens, DumpEnds, DumpFails, Move, JobsInPlace, BackupTypeOK, PartOf, WholeOf, Bytes
<1>2. CASE DumpOpens(j)
  <2> DEFINE bytes == IF Open(place[j]) = {} THEN PartOf(j) ELSE Garbage
  <2>1. /\ pc[j] = "dump" /\ pc' = [pc EXCEPT ![j] = "dumping"]
        /\ dump' = [dump EXCEPT ![place[j]] = bytes] /\ linked' = linked \cup {j}
        /\ UNCHANGED <<now, cmd, place, meta, sidecar, todo, restored, event>>
    BY <1>2 DEF DumpOpens, Move
  <2>2. bytes \in Bytes
    BY <1>1 DEF Bytes
  <2>3. BackupTypeOK'
    BY <1>1, <2>1, <2>2 DEF BackupTypeOK, Positions, Makers
  <2>4. ~Collide => bytes = PartOf(j)
    <3>1. \A k \in Open(place[j]) : k \in Makers /\ place[k] = place[j] /\ k # j
      BY <2>1 DEF Open, BackupTypeOK
    <3> QED BY <1>1, <3>1, SamePlace
  <2> HIDE DEF bytes
  <2> QED BY <2>1, <2>3, <2>4, WritingDumpKeepsInv
<1>3. CASE DumpEnds(j)
  <2>1. /\ pc[j] = "dumping" /\ pc' = [pc EXCEPT ![j] = "hash"] /\ linked' = linked
        /\ UNCHANGED <<now, cmd, place, meta, sidecar, todo, restored, event>>
    BY <1>3 DEF DumpEnds, Move
  <2>2. PICK bytes \in Bytes \cup {None} :
          /\ dump' = [dump EXCEPT ![place[j]] = bytes]
          /\ ~Collide => bytes \in {None, WholeOf(j)}
    <3>1. CASE j \notin linked
      <4>1. dump' = [dump EXCEPT ![place[j]] = dump[place[j]]] /\ dump[place[j]] \in Bytes \cup {None}
        BY <1>1, <1>3, <3>1 DEF DumpEnds, BackupTypeOK
      <4>2. ~Collide => dump[place[j]] = None
        BY <2>1, <3>1 DEF DumpIsOwn
      <4> QED BY <4>1, <4>2
    <3>2. CASE j \in linked
      <4>1. PICK bytes \in IF dump[place[j]] = PartOf(j) THEN {WholeOf(j)} ELSE {WholeOf(j), Garbage} :
              dump' = [dump EXCEPT ![place[j]] = bytes]
        BY <1>3, <3>2 DEF DumpEnds
      <4>2. ~Collide => dump[place[j]] = PartOf(j)
        BY <2>1, <3>2 DEF DumpIsOwn
      <4>3. bytes \in Bytes /\ (~Collide => bytes = WholeOf(j))
        BY <1>1, <4>1, <4>2 DEF Bytes
      <4> QED BY <4>1, <4>3
    <3> QED BY <3>1, <3>2
  <2>3. BackupTypeOK'
    BY <1>1, <2>1, <2>2 DEF BackupTypeOK, Positions, Makers
  <2> QED BY <2>1, <2>2, <2>3, WritingDumpKeepsInv
<1>4. CASE DumpFails(j)
  <2>1. /\ pc[j] = "dumping" /\ pc' = [pc EXCEPT ![j] = "failed"]
        /\ dump' = [dump EXCEPT ![place[j]] = None]
        /\ linked' = {k \in linked : place[k] # place[j]}
        /\ UNCHANGED <<now, cmd, place, meta, sidecar, todo, restored, event>>
    BY <1>4 DEF DumpFails, Move, Unlink
  <2>2. BackupTypeOK'
    BY <1>1, <2>1 DEF BackupTypeOK, Positions, Makers
  <2> QED BY <2>1, <2>2, WritingDumpKeepsInv
<1> QED BY <1>2, <1>3, <1>4

\* A kill, after which a pg_dump may run on to its end.
LEMMA KillKeepsInv ==
  ASSUME BackupInv, NEW j \in Jobs, Kill(j)
  PROVE  KeepsJobs /\ BackupInv'
<1>1. /\ pc[j] # "idle" /\ pc' = [pc EXCEPT ![j] = "killed"]
      /\ linked' = linked
      /\ UNCHANGED <<now, cmd, place, meta, sidecar, todo, restored, event>>
  BY DEF Kill, Ended
<1>2. CASE UNCHANGED dump
  BY <1>1, <1>2, MovingKeepsInv DEF BackupInv, BackupTypeOK, files
<1>3. CASE pc[j] = "dumping" /\ dump' = [dump EXCEPT ![place[j]] = WholeOf(j)]
  <2>1. BackupTypeOK'
    BY <1>1, <1>3 DEF BackupInv, BackupTypeOK, Positions, Ended, Makers, WholeOf, Bytes
  <2> QED BY <1>1, <1>3, <2>1, WritingDumpKeepsInv
<1> QED BY <1>2, <1>3 DEF Kill

\* The checksum is computed of all that the job's own pg_dump wrote.
LEMMA HashingKeepsInv ==
  ASSUME BackupInv, NEW j \in Jobs, HashDump(j)
  PROVE  KeepsJobs /\ BackupInv'
<1> USE DEF BackupInv
<1> DEFINE bytes == dump[place[j]]
<1>1. pc[j] = "hash" /\ UNCHANGED <<now, cmd, place, files, todo, restored, event>>
  BY DEF HashDump, Move
<1>2. CASE bytes = None
  BY <1>1, <1>2, MovingKeepsInv DEF HashDump, Move, BackupTypeOK
<1>3. CASE bytes # None
  <2>1. /\ pc' = [pc EXCEPT ![j] = "sidecar"] /\ meta' = [meta EXCEPT ![j].digest = bytes]
        /\ UNCHANGED dump /\ UNCHANGED sidecar /\ UNCHANGED linked
    BY <1>1, <1>3 DEF HashDump, Move, files
  <2>2. j \in Makers /\ meta[j] # None /\ meta[j].digest = None /\ meta[j] \in Metadata
        /\ place[j] \in Seconds /\ bytes \in Bytes
    BY <1>1, <1>3 DEF JobsInPlace, BackupTypeOK
  <2>3. /\ pc'[j] = "sidecar" /\ meta'[j] = [meta[j] EXCEPT !.digest = bytes]
        /\ \A k \in Jobs \ {j} : pc'[k] = pc[k] /\ meta'[k] = meta[k]
    BY <2>1 DEF BackupTypeOK
  <2>4. meta'[j] \in Metadata /\ meta'[j] # None /\ meta'[j].digest = bytes
    BY <2>2, <2>3, BackupAssumption DEF Metadata, Ticks, Bytes
  <2>5. BackupTypeOK'
    BY <1>1, <2>1, <2>3, <2>4 DEF BackupTypeOK, Positions, Makers
  <2>6. KeepsJobs /\ now <= now'
    BY <1>1, <2>2, <2>3 DEF KeepsJobs, Hashed, BackupTypeOK, Ticks
  <2>7. JobsInPlace'
    <3>1. JobInPlace(j)'
      BY <1>1, <1>3, <2>2, <2>3, <2>4 DEF JobInPlace, Hashed, Makers
    <3> QED BY <1>1, <2>3, <2>6, <3>1, OthersInPlace
  <2>8. SidecarsAreOwned' /\ TodoHasExpired' /\ DumpIsOwn' /\ RestoreSeesVerified'
    BY <1>1, <2>1, <2>3, <2>5, <2>6, SidecarsStay, TodoStays, DumpsStay, RestoresStay
  <2>9. DigestIsOfWhole'
    <3> SUFFICES ASSUME ~Collide', NEW k \in Jobs, Hashed(k)' PROVE meta'[k].digest = WholeOf(k)
      BY DEF DigestIsOfWhole, WholeOf
    <3>1. ~Collide
      BY <2>6, JobsStay
    <3>2. CASE k = j
      BY <1>1, <1>3, <2>4, <3>1, <3>2 DEF DumpIsOwn
    <3>3. CASE k # j
      <4>1. Hashed(k) /\ meta'[k] = meta[k]
        BY <1>1, <2>3, <3>3 DEF Hashed, Makers
      <4> QED BY <3>1, <4>1 DEF DigestIsOfWhole
    <3> QED BY <3>2, <3>3
  <2> QED BY <2>5, <2>6, <2>7, <2>8, <2>9
<1> QED BY <1>2, <1>3

\* The sidecar is emptied, and then holds what its job knows of the dump.
LEMMA WritingSidecarKeepsInv ==
  ASSUME BackupInv, NEW j \in Jobs, OpenSidecar(j) \/ WriteSidecar(j)
  PROVE  KeepsJobs /\ BackupInv'
<1> USE DEF BackupInv
<1> DEFINE to == IF OpenSidecar(j) THEN "writing" ELSE "made"
           text == IF OpenSidecar(j) THEN Garbage ELSE meta[j]
<1>1. /\ pc[j] \in {"sidecar", "writing"} /\ pc' = [pc EXCEPT ![j] = to]
      /\ sidecar' = [sidecar EXCEPT ![place[j]] = text]
      /\ UNCHANGED <<now, cmd, place, meta, dump, linked, todo, restored, event>>
  BY DEF OpenSidecar, WriteSidecar, Move
<1>2. Hashed(j) /\ place[j] \in Seconds /\ meta[j] \in [created : Ticks, digest : Bytes]
  BY <1>1, BackupAssumption DEF JobsInPlace, BackupTypeOK, Hashed, Metadata
<1>3. text \in {Garbage} \cup [created : Ticks, digest : Bytes] /\ to \in {"writing", "made"}
      /\ (text # Garbage => to = "made" /\ text = meta[j]) /\ Garbage \notin Metadata
  BY <1>2, BackupAssumption DEF Metadata, Ticks, Bytes
<1> HIDE DEF to, text
<1>4. /\ pc'[j] = to /\ \A k \in Jobs \ {j} : pc'[k] = pc[k]
      /\ sidecar'[place[j]] = text /\ \A s \in Seconds \ {place[j]} : sidecar'[s] = sidecar[s]
  BY <1>1, <1>2 DEF BackupTypeOK
<1>5. BackupTypeOK'
  BY <1>1, <1>2, <1>3 DEF BackupTypeOK, Positions, Makers
<1>6. KeepsJobs /\ now <= now'
  BY <1>1 DEF KeepsJobs, BackupTypeOK, Ticks
<1>7. JobsInPlace'
  <2>1. JobInPlace(j)'
    BY <1>1, <1>2, <1>3, <1>4 DEF JobInPlace, Hashed, Makers
  <2> QED BY <1>1, <1>4, <1>6, <2>1, OthersInPlace
<1>8. SidecarsAreOwned'
  <2>1. CASE text = Garbage
    BY <1>1, <1>3, <1>4, <1>5, <1>6, <2>1, SidecarsStay
  <2>2. CASE text # Garbage
    <3> SUFFICES ASSUME NEW s \in Seconds, sidecar'[s] \in Metadata
                 PROVE  \E k \in Jobs : /\ Hashed(k)' /\ place'[k] = s /\ sidecar'[s] = meta'[k]
                                        /\ pc'[k] \notin {"sidecar", "writing"}
      BY DEF SidecarsAreOwned, Listed
    <3>1. CASE s = place[j]
      <4>1. Hashed(j)' /\ place'[j] = s /\ sidecar'[s] = meta'[j]
        BY <1>1, <1>2, <1>3, <1>4, <2>2, <3>1 DEF Hashed, Makers
      <4> QED BY <1>3, <1>4, <2>2, <4>1
    <3>2. CASE s # place[j]
      <4>1. PICK k \in Jobs : /\ Hashed(k) /\ place[k] = s /\ sidecar[s] = meta[k]
                              /\ pc[k] \notin {"sidecar", "writing"}
        BY <1>4, <3>2 DEF SidecarsAreOwned, Listed
      <4>2. Hashed(k)' /\ place'[k] = s /\ sidecar'[s] = meta'[k]
        BY <1>1, <1>4, <3>2, <4>1 DEF Hashed, Makers
      <4> QED BY <1>3, <1>4, <2>2, <4>1, <4>2
    <3> QED BY <3>1, <3>2
  <2> QED BY <2>1, <2>2
<1>9. TodoHasExpired' /\ DumpIsOwn' /\ RestoreSeesVerified'
  BY <1>1, <1>3, <1>4, <1>5, <1>6, TodoStays, DumpsStay, RestoresStay
<1>10. DigestIsOfWhole'
  BY <1>1, <1>6, DigestsStay DEF Hashed, Makers
<1> QED BY <1>5, <1>6, <1>7, <1>8, <1>9, <1>10

\* A restore or a prune starts, or a command that cannot go on is refused.
LEMMA StartUsingKeepsInv ==
  ASSUME BackupInv, NEW j \in Jobs, NEW c \in {"drill", "restore", "prune"},
         NEW to \in {"verify", "refused", "prune"}, Start(j, c, to),
         c = "drill" => to = "refused" /\ UNCHANGED meta,
         to = "prune" => c = "prune",
         to = "verify" =>
           \E k \in Jobs : Hashed(k) /\ place[k] = place'[j] /\ meta[k] = meta'[j],
         place' \in [Jobs -> Seconds], meta' \in [Jobs -> Metadata \cup {None}],
         todo' \in [Jobs -> SUBSET Seconds],
         \A k \in Jobs \ {j} : place'[k] = place[k] /\ meta'[k] = meta[k] /\ todo'[k] = todo[k],
         \A s \in todo'[j] :
           c = "prune" /\ \E k \in Jobs, r \in Retentions :
             Hashed(k) /\ place[k] = s /\ meta[k].created + r < now,
         UNCHANGED <<now, files, restored, event>>
  PROVE  KeepsJobs /\ BackupInv'
<1> USE DEF BackupInv
<1>1. /\ pc[j] = "idle" /\ cmd[j] = "none" /\ meta[j] = None /\ j \notin Makers /\ ~Hashed(j)
      /\ pc'[j] = to /\ cmd'[j] = c
      /\ \A k \in Jobs \ {j} : pc'[k] = pc[k] /\ cmd'[k] = cmd[k]
      /\ UNCHANGED dump /\ UNCHANGED sidecar /\ UNCHANGED linked
  BY DEF BackupTypeOK, JobsInPlace, Makers, Hashed, files, Start, Move
<1>2. KeepsJobs /\ now <= now'
  BY <1>1 DEF KeepsJobs, BackupTypeOK, Ticks, Makers
<1>3. BackupTypeOK'
  <2>1. linked' \subseteq Makers'
    BY <1>1, <1>2, JobsStay DEF BackupTypeOK
  <2> QED BY <1>1, <2>1 DEF BackupTypeOK, Positions, Ended, Start, Move, files
<1>4. \A k \in Jobs : (Hashed(k)' => Hashed(k)) /\ (Hashed(k) => Hashed(k)' /\ k # j)
  BY <1>1, <1>2, JobsStay DEF Hashed, Makers
<1>5. JobsInPlace'
  <2>1. to = "verify" => Source(j)' /\ j \notin Makers'
    <3> SUFFICES ASSUME to = "verify" PROVE Source(j)' /\ j \notin Makers'
      OBVIOUS
    <3>1. PICK k \in Jobs : Hashed(k) /\ place[k] = place'[j] /\ meta[k] = meta'[j]
      OBVIOUS
    <3>2. Hashed(k)' /\ place'[k] = place'[j] /\ meta'[k] = meta'[j]
      BY <1>4, <3>1
    <3> QED BY <1>1, <3>2 DEF Source, Makers
  <2>2. JobInPlace(j)'
    BY <1>1, <2>1 DEF JobInPlace
  <2> QED BY <1>1, <1>2, <2>2, OthersInPlace
<1>6. SidecarsAreOwned' /\ DumpIsOwn' /\ DigestIsOfWhole' /\ RestoreSeesVerified'
  BY <1>1, <1>2, <1>3, <1>4, SidecarsStay, DumpsStay, DigestsStay, RestoresStay DEF files
<1>7. TodoHasExpired'
  <2> SUFFICES ASSUME NEW i \in Jobs, NEW s \in todo'[i]
               PROVE  /\ cmd'[i] = "prune"
                      /\ \E k \in Jobs, r \in Retentions :
                           Hashed(k)' /\ place'[k] = s /\ meta'[k].created + r < now'
    BY DEF TodoHasExpired
  <2>1. /\ cmd'[i] = "prune"
        /\ \E k \in Jobs, r \in Retentions :
             Hashed(k) /\ place[k] = s /\ meta[k].created + r < now
    <3>1. CASE i = j
      BY <1>1, <3>1
    <3>2. CASE i # j
      BY <1>1, <3>2 DEF TodoHasExpired
    <3> QED BY <3>1, <3>2
  <2>2. PICK k \in Jobs, r \in Retentions : Hashed(k) /\ place[k] = s /\ meta[k].created + r < now
    BY <2>1
  <2>3. Hashed(k)' /\ place'[k] = s /\ meta'[k] = meta[k] /\ now' = now
    BY <1>4, <2>2
  <2> QED BY <2>1, <2>2, <2>3
<1> QED BY <1>2, <1>3, <1>5, <1>6, <1>7

LEMMA UsingStartsKeepInv ==
  ASSUME BackupInv, NEW j \in Jobs, StartRestore(j) \/ StartPrune(j)
  PROVE  KeepsJobs /\ BackupInv'
<1> USE DEF BackupInv
<1>1. pc[j] = "idle" /\ todo[j] = {} /\ UNCHANGED <<now, files, restored, event>>
  BY DEF StartRestore, StartPrune, Start, Move, JobsInPlace
<1>2. CASE StartRestore(j)
  <2>1. UNCHANGED todo
    BY <1>2 DEF StartRestore
  <2>2. ASSUME NEW s \in Listed, Start(j, "restore", "verify"),
               place' = [place EXCEPT ![j] = s], meta' = [meta EXCEPT ![j] = sidecar[s]]
        PROVE  KeepsJobs /\ BackupInv'
    <3>1. /\ s \in Seconds /\ sidecar[s] \in Metadata
          /\ \E k \in Jobs : Hashed(k) /\ place[k] = s /\ sidecar[s] = meta[k]
      BY DEF SidecarsAreOwned, Listed
    <3>2. /\ place' \in [Jobs -> Seconds] /\ meta' \in [Jobs -> Metadata \cup {None}]
          /\ place'[j] = s /\ meta'[j] = sidecar[s]
          /\ \A k \in Jobs \ {j} : place'[k] = place[k] /\ meta'[k] = meta[k]
      BY <2>2, <3>1 DEF BackupTypeOK
    <3>3. todo' \in [Jobs -> SUBSET Seconds] /\ todo'[j] = {} /\ \A k \in Jobs : todo'[k] = todo[k]
      BY <1>1, <2>1 DEF BackupTypeOK
    <3>4. \E k \in Jobs : Hashed(k) /\ place[k] = place'[j] /\ meta[k] = meta'[j]
      BY <3>1, <3>2
    <3> QED BY <1>1, <2>2, <3>2, <3>3, <3>4, StartUsingKeepsInv
  <2>3. ASSUME Start(j, "restore", "refused"), UNCHANGED <<place, meta>>
        PROVE  KeepsJobs /\ BackupInv'
    BY <1>1, <2>1, <2>3, StartUsingKeepsInv DEF BackupTypeOK
  <2> QED BY <1>2, <2>2, <2>3 DEF StartRestore
<1>3. CASE StartPrune(j)
  <2>1. PICK r \in Retentions : todo' = [todo EXCEPT ![j] = Expired(r)]
    BY <1>3 DEF StartPrune
  <2>2. Start(j, "prune", "prune") /\ UNCHANGED place /\ UNCHANGED meta
    BY <1>3 DEF StartPrune
  <2>3. ASSUME NEW s \in Expired(r)
        PROVE  s \in Seconds /\ \E k \in Jobs : Hashed(k) /\ place[k] = s /\ meta[k].created + r < now
    BY <2>3 DEF Expired, Listed, SidecarsAreOwned
  <2>4. /\ todo' \in [Jobs -> SUBSET Seconds] /\ todo'[j] = Expired(r)
        /\ \A k \in Jobs \ {j} : todo'[k] = todo[k]
    BY <2>1, <2>3 DEF BackupTypeOK
  <2>5. /\ place' \in [Jobs -> Seconds] /\ meta' \in [Jobs -> Metadata \cup {None}]
        /\ \A k \in Jobs \ {j} : place'[k] = place[k] /\ meta'[k] = meta[k]
    BY <2>2 DEF BackupTypeOK
  <2> HIDE DEF BackupInv
  <2> QED BY <1>1, <2>2, <2>3, <2>4, <2>5, StartUsingKeepsInv
<1> QED BY <1>2, <1>3

\* pg_restore loads the dump that was checked, or finds it gone and fails.
LEMMA RestoringKeepsInv ==
  ASSUME BackupInv, NEW j \in Jobs, PgRestore(j)
  PROVE  KeepsJobs /\ BackupInv'
<1> USE DEF BackupInv
<1>1. /\ pc[j] = "restore" /\ restored' = [restored EXCEPT ![j] = dump[place[j]]]
      /\ UNCHANGED <<now, cmd, place, meta, files, todo, event>>
      /\ UNCHANGED dump /\ UNCHANGED sidecar /\ UNCHANGED linked
  BY DEF PgRestore, files
<1>2. PICK to \in {"restored", "failed"} :
        pc' = [pc EXCEPT ![j] = to] /\ (to = "restored" => dump[place[j]] # None)
  BY DEF PgRestore, Move
<1>3. /\ pc'[j] = to /\ restored'[j] = dump[place[j]] /\ dump[place[j]] \in Bytes \cup {None}
      /\ \A k \in Jobs \ {j} : pc'[k] = pc[k] /\ restored'[k] = restored[k]
  BY <1>1, <1>2 DEF BackupTypeOK
<1>4. BackupTypeOK'
  BY <1>1, <1>2, <1>3 DEF BackupTypeOK, Positions, Makers
<1>5. KeepsJobs /\ now <= now'
  BY <1>1 DEF KeepsJobs, BackupTypeOK, Ticks
<1>6. JobsInPlace'
  <2>1. Source(j)' /\ (j \in Makers' => Hashed(j)')
    BY <1>1, JobsStay DEF JobsInPlace, Source, Hashed, Makers
  <2>2. JobInPlace(j)'
    BY <1>3, <2>1 DEF JobInPlace
  <2> QED BY <1>1, <1>3, <1>5, <2>2, OthersInPlace
<1>7. SidecarsAreOwned' /\ TodoHasExpired' /\ DumpIsOwn'
  BY <1>1, <1>3, <1>4, <1>5, SidecarsStay, TodoStays, DumpsStay
<1>8. DigestIsOfWhole'
  BY <1>1, <1>5, DigestsStay DEF Hashed, Makers
<1>9. RestoreSeesVerified'
  <2> SUFFICES ASSUME ~Collide', NEW k \in Jobs
               PROVE  /\ pc'[k] = "restore" => dump'[place'[k]] \in {None, meta'[k].digest}
                      /\ pc'[k] = "restored" => restored'[k] = meta'[k].digest
    BY DEF RestoreSeesVerified
  <2>1. ~Collide
    BY <1>5, JobsStay
  <2>2. CASE k = j
    BY <1>1, <1>2, <1>3, <2>1, <2>2 DEF RestoreSeesVerified
  <2>3. CASE k # j
    BY <1>1, <1>3, <2>1, <2>3 DEF RestoreSeesVerified
  <2> QED BY <2>2, <2>3
<1> QED BY <1>4, <1>5, <1>6, <1>7, <1>8, <1>9

\* A prune removes dumps and sidecars, and never changes one.
LEMMA PruningKeepsInv ==
  ASSUME BackupInv, NEW j \in Jobs, PruneDump(j) \/ PruneSidecar(j)
  PROVE  KeepsJobs /\ BackupInv'
<1> USE DEF BackupInv
<1>1. PICK to \in {"prune", "unlink"} : pc[j] \in {"prune", "unlink"} /\ pc' = [pc EXCEPT ![j] = to]
  BY DEF PruneDump, PruneSidecar, Move
<1>2. cmd[j] = "prune" /\ j \notin Makers /\ ~Hashed(j)
  BY <1>1 DEF JobsInPlace, Makers, Hashed
<1>3. /\ UNCHANGED <<now, cmd, meta, restored, event>>
      /\ place' \in [Jobs -> Seconds] /\ \A k \in Jobs \ {j} : place'[k] = place[k]
      /\ todo' \in [Jobs -> SUBSET Seconds] /\ todo'[j] \subseteq todo[j]
      /\ \A k \in Jobs \ {j} : todo'[k] = todo[k]
      /\ to = "unlink" => place'[j] \in todo'[j]
  <2>1. CASE PruneDump(j)
    BY <1>1, <2>1 DEF PruneDump, Move, BackupTypeOK
  <2>2. CASE PruneSidecar(j)
    BY <1>1, <2>2 DEF PruneSidecar, Move, BackupTypeOK
  <2> QED BY <2>1, <2>2
<1>4. PICK s \in Seconds :
        /\ \A t \in Seconds : dump'[t] = dump[t] \/ (t = s /\ dump'[t] = None)
        /\ \A k \in linked : k \in linked' \/ (place[k] = s /\ dump'[s] = None)
        /\ linked' \subseteq linked
        /\ dump' \in [Seconds -> Bytes \cup {None}]
        /\ sidecar' \in [Seconds -> [created : Ticks, digest : Bytes] \cup {None, Garbage}]
        /\ \A t \in Seconds : sidecar'[t] \in {sidecar[t], None}
        /\ \A k \in linked \cap linked' : place[k] = s => dump'[s] = dump[s]
  <2>1. CASE PruneDump(j)
    BY <2>1 DEF PruneDump, Unlink, BackupTypeOK
  <2>2. CASE PruneSidecar(j)
    BY <2>2 DEF PruneSidecar, BackupTypeOK
  <2> QED BY <2>1, <2>2
<1>5. BackupTypeOK'
  BY <1>1, <1>3, <1>4 DEF BackupTypeOK, Positions, Makers
<1>6. KeepsJobs /\ now <= now'
  BY <1>2, <1>3 DEF KeepsJobs, BackupTypeOK, Ticks, Makers
<1>7. pc'[j] = to /\ \A k \in Jobs \ {j} : pc'[k] = pc[k]
  BY <1>1 DEF BackupTypeOK
<1>8. JobsInPlace'
  <2>1. JobInPlace(j)'
    BY <1>2, <1>3, <1>7 DEF JobInPlace, Makers
  <2> QED BY <1>3, <1>6, <1>7, <2>1, OthersInPlace
<1>9. SidecarsAreOwned' /\ TodoHasExpired'
  <2>1. None \notin Metadata
    BY BackupAssumption DEF Metadata, Ticks, Bytes
  <2>2. \A k \in Jobs : todo'[k] \subseteq todo[k]
    BY <1>3
  <2>3. \A k \in Jobs : pc'[k] \in {"sidecar", "writing"} => pc[k] \in {"hash", "sidecar", "writing"}
    BY <1>7
  <2>4. \A t \in Seconds : sidecar'[t] = sidecar[t] \/ sidecar'[t] \notin Metadata
    BY <1>4, <2>1
  <2> QED BY <1>5, <1>6, <2>2, <2>3, <2>4, SidecarsStay, TodoStays
<1>10. DigestIsOfWhole'
  BY <1>3, <1>6, DigestsStay DEF Hashed, Makers
<1>11. DumpIsOwn'
  <2> SUFFICES ASSUME ~Collide', NEW k \in Jobs, pc'[k] \in {"dumping", "hash"}
               PROVE  /\ pc'[k] = "dumping" =>
                           \/ k \in linked' /\ dump'[place'[k]] = PartOf(k)
                           \/ k \notin linked' /\ dump'[place'[k]] = None
                      /\ pc'[k] = "hash" => dump'[place'[k]] \in {None, WholeOf(k)}
    BY DEF DumpIsOwn, PartOf, WholeOf
  <2>1. ~Collide /\ k # j /\ pc'[k] = pc[k] /\ place'[k] = place[k] /\ place[k] \in Seconds
    BY <1>3, <1>6, <1>7, JobsStay DEF BackupTypeOK
  <2>2. CASE pc[k] = "hash"
    BY <1>4, <2>1, <2>2 DEF DumpIsOwn
  <2>3. CASE pc[k] = "dumping" /\ k \in linked
    BY <1>4, <2>1, <2>3 DEF DumpIsOwn
  <2>4. CASE pc[k] = "dumping" /\ k \notin linked
    BY <1>4, <2>1, <2>4 DEF DumpIsOwn
  <2> QED BY <2>1, <2>2, <2>3, <2>4
<1>12. RestoreSeesVerified'
  <2> SUFFICES ASSUME ~Collide', NEW k \in Jobs, pc'[k] \in {"restore", "restored"}
               PROVE  /\ pc'[k] = "restore" => dump'[place'[k]] \in {None, meta'[k].digest}
                      /\ pc'[k] = "restored" => restored'[k] = meta'[k].digest
    BY DEF RestoreSeesVerified
  <2>1. ~Collide /\ k # j /\ pc'[k] = pc[k] /\ place'[k] = place[k] /\ place[k] \in Seconds
    BY <1>3, <1>6, <1>7, JobsStay DEF BackupTypeOK
  <2> QED BY <1>3, <1>4, <2>1 DEF RestoreSeesVerified
<1> QED BY <1>5, <1>6, <1>8, <1>9, <1>10, <1>11, <1>12

\* Every step of LocalBackup keeps the invariant, and what a job has done.
LEMMA BackupNextKeepsInv ==
  ASSUME BackupInv, BackupNext
  PROVE  KeepsJobs /\ BackupInv'
<1>1. CASE Tick
  BY <1>1, TickKeepsInv
<1>2. CASE \E s \in Seconds : Damage(s)
  BY <1>2, DamageKeepsInv
<1>3. ASSUME NEW j \in Jobs,
             StartMaking(j, "create") \/ Make(j) \/ Use(j) \/ Record(j) \/ Kill(j)
      PROVE  KeepsJobs /\ BackupInv'
  <2>1. CASE StartMaking(j, "create")
    BY <2>1, StartMakingKeepsInv
  <2>2. CASE DumpOpens(j) \/ DumpEnds(j) \/ DumpFails(j)
    BY <2>2, DumpingKeepsInv
  <2>3. CASE CannotDump(j) \/ Verify(j) \/ PruneEnds(j)
    <3>1. /\ pc[j] # "idle" /\ event' \in [Jobs -> {"none", "success", "failure"}]
          /\ UNCHANGED <<now, cmd, place, meta, files, todo, restored>>
      BY <2>3 DEF CannotDump, Verify, PruneEnds, Move, BackupInv, BackupTypeOK
    <3>2. CASE CannotDump(j)
      BY <3>1, <3>2, MovingKeepsInv DEF CannotDump, Move
    <3>3. CASE Verify(j)
      BY <3>1, <3>3, MovingKeepsInv DEF Verify, Move
    <3>4. CASE PruneEnds(j)
      BY <3>1, <3>4, MovingKeepsInv DEF PruneEnds, Move
    <3> QED BY <2>3, <3>2, <3>3, <3>4
  <2>4. CASE HashDump(j)
    BY <2>4, HashingKeepsInv
  <2>5. CASE OpenSidecar(j) \/ WriteSidecar(j)
    BY <2>5, WritingSidecarKeepsInv
  <2>6. CASE StartRestore(j) \/ StartPrune(j)
    BY <2>6, UsingStartsKeepInv
  <2>7. CASE PgRestore(j)
    BY <2>7, RestoringKeepsInv
  <2>8. CASE PruneDump(j) \/ PruneSidecar(j)
    BY <2>8, PruningKeepsInv
  <2>9. CASE Record(j)
    <3>1. /\ pc[j] # "idle" /\ event' \in [Jobs -> {"none", "success", "failure"}]
          /\ pc' = [pc EXCEPT ![j] = "recorded"]
          /\ UNCHANGED <<now, cmd, place, meta, files, todo, restored>>
      BY <2>9 DEF Record, BackupInv, BackupTypeOK
    <3> QED BY <3>1, MovingKeepsInv
  <2>10. CASE Kill(j)
    BY <2>10, KillKeepsInv
  <2> QED BY <1>3, <2>1, <2>2, <2>3, <2>4, <2>5, <2>6, <2>7, <2>8, <2>9, <2>10 DEF Make, Use
<1> QED BY <1>1, <1>2, <1>3 DEF BackupNext

LEMMA BackupStuttersKeepInv ==
  ASSUME BackupInv, UNCHANGED backupVars
  PROVE  KeepsJobs /\ BackupInv'
BY DEF backupVars, files, KeepsJobs, BackupInv, BackupTypeOK, JobsInPlace, SidecarsAreOwned,
       TodoHasExpired, DumpIsOwn, DigestIsOfWhole, RestoreSeesVerified, Hashed, Source, Makers,
       Listed, Collide, PartOf, WholeOf

LEMMA BackupInitHasInv ==
  ASSUME BackupInit
  PROVE  BackupInv
<1> USE DEF BackupInit
<1>1. 0 \in Ticks /\ 0 \in Seconds
  <2>1. 0 \in Ticks
    BY BackupAssumption DEF Ticks
  <2>2. Second(0) = 0
    BY BackupAssumption DEF Second
  <2> QED BY <2>1, <2>2 DEF Seconds
<1>2. Listed = {} /\ None \notin Metadata
  BY BackupAssumption DEF Listed, Metadata, Ticks, Bytes
<1>3. Makers = {}
  BY DEF Makers
<1>4. BackupTypeOK
  BY <1>1, <1>3 DEF BackupTypeOK, Positions
<1>5. JobsInPlace
  BY <1>3 DEF JobsInPlace
<1>6. SidecarsAreOwned /\ TodoHasExpired /\ DumpIsOwn /\ RestoreSeesVerified
  BY <1>2 DEF SidecarsAreOwned, TodoHasExpired, DumpIsOwn, RestoreSeesVerified
<1>7. DigestIsOfWhole
  BY <1>3 DEF DigestIsOfWhole, Hashed
<1> QED BY <1>4, <1>5, <1>6, <1>7 DEF BackupInv

\* The inductive invariant of the backups: who may write which file, and what
\* a checksum is a checksum of.
THEOREM BackupInvariant == BackupSpec => []BackupInv
<1>1. BackupInit => BackupInv
  BY BackupInitHasInv
<1>2. BackupInv /\ [BackupNext]_backupVars => BackupInv'
  BY BackupNextKeepsInv, BackupStuttersKeepInv
<1> QED BY <1>1, <1>2, PTL DEF BackupSpec

\* The backups' variables have their types in every reachable state.
THEOREM BackupTypeCorrect == BackupSpec => []BackupTypeOK
<1>1. BackupInv => BackupTypeOK
  BY DEF BackupInv
<1> QED BY <1>1, BackupInvariant, PTL

\* What is listed and checks out was written, and hashed, by one job.
LEMMA TrustedByInv ==
  ASSUME BackupInv
  PROVE  TrustedIsWhole
<1> SUFFICES ASSUME ~Collide, NEW s \in Seconds, Trusted(s)
             PROVE  \E j \in Makers :
                      place[j] = s /\ dump[s] = WholeOf(j) /\ sidecar[s].created = meta[j].created
  BY DEF TrustedIsWhole
<1>1. PICK k \in Jobs : Hashed(k) /\ place[k] = s /\ sidecar[s] = meta[k]
  BY DEF BackupInv, SidecarsAreOwned, Trusted
<1>2. dump[s] = meta[k].digest /\ meta[k].digest = WholeOf(k)
  BY <1>1 DEF BackupInv, DigestIsOfWhole, Trusted, Verified
<1> QED BY <1>1, <1>2 DEF Hashed

LEMMA RestoredByInv ==
  ASSUME BackupInv
  PROVE  RestoredIsRecorded
<1> SUFFICES ASSUME ~Collide, NEW j \in Jobs, pc[j] = "restored"
             PROVE  restored[j] = meta[j].digest /\ \E k \in Makers : restored[j] = WholeOf(k)
  BY DEF RestoredIsRecorded
<1>1. PICK k \in Jobs : Hashed(k) /\ meta[k] = meta[j]
  BY DEF BackupInv, JobsInPlace, Source
<1>2. restored[j] = meta[j].digest /\ meta[k].digest = WholeOf(k)
  BY <1>1 DEF BackupInv, RestoreSeesVerified, DigestIsOfWhole
<1> QED BY <1>1, <1>2 DEF Hashed

\* For every number of jobs: what is listed, and whose checksum matches, is a
\* whole dump of the job that recorded it, unless two backups shared a second.
THEOREM TrustedIsWholeHolds == BackupSpec => []TrustedIsWhole
<1>1. BackupInv => TrustedIsWhole
  BY TrustedByInv
<1> QED BY <1>1, BackupInvariant, PTL

\* And a restore that succeeds has loaded the whole dump its metadata describe.
THEOREM RestoredIsRecordedHolds == BackupSpec => []RestoredIsRecorded
<1>1. BackupInv => RestoredIsRecorded
  BY RestoredByInv
<1> QED BY <1>1, BackupInvariant, PTL

\* The only steps that take a good backup away damage its dump, or are a
\* prune's: a job that makes a backup has its files in another second.
LEMMA GoodStays ==
  ASSUME BackupInv, BackupNext, ~Collide, NEW s \in Seconds, Trusted(s), ~Trusted(s)'
  PROVE  \/ dump'[s] = Garbage
         \/ \E j \in Jobs, r \in Retentions :
              cmd[j] = "prune" /\ s \in todo[j] /\ sidecar[s].created + r < now
<1> USE DEF BackupInv
<1>1. dump'[s] # dump[s] \/ sidecar'[s] # sidecar[s]
  BY DEF Trusted, Listed, Verified
<1>2. PICK k \in Jobs : /\ Hashed(k) /\ k \in Makers /\ place[k] = s /\ sidecar[s] = meta[k]
                        /\ pc[k] \notin {"sidecar", "writing"}
  BY DEF SidecarsAreOwned, Trusted, Hashed
<1>3. ASSUME NEW t \in Seconds, Damage(t)
      PROVE  dump'[s] = Garbage
  BY <1>1, <1>3 DEF Damage, BackupTypeOK
<1>4. ASSUME NEW j \in Jobs, pc[j] \in {"dump", "dumping"}, UNCHANGED sidecar,
             NEW bytes, dump' = [dump EXCEPT ![place[j]] = bytes]
      PROVE  FALSE
  <2>1. j \in Makers /\ ~Hashed(j) /\ place[j] = s
    BY <1>1, <1>4 DEF JobsInPlace, Hashed, BackupTypeOK
  <2> QED BY <1>2, <2>1, SamePlace
<1>5. ASSUME NEW j \in Jobs, pc[j] \in {"sidecar", "writing"}, UNCHANGED dump,
             NEW text, sidecar' = [sidecar EXCEPT ![place[j]] = text]
      PROVE  FALSE
  <2>1. j \in Makers /\ place[j] = s
    BY <1>1, <1>5 DEF JobsInPlace, Hashed, BackupTypeOK
  <2> QED BY <1>2, <1>5, <2>1, SamePlace
<1>6. ASSUME NEW j \in Jobs, s \in todo[j]
      PROVE  \E r \in Retentions : cmd[j] = "prune" /\ sidecar[s].created + r < now
  <2>1. PICK i \in Jobs, r \in Retentions :
          cmd[j] = "prune" /\ Hashed(i) /\ place[i] = s /\ meta[i].created + r < now
    BY <1>6 DEF TodoHasExpired
  <2>2. i = k
    BY <1>2, <2>1, SamePlace DEF Hashed
  <2> QED BY <1>2, <2>1, <2>2
<1>7. ASSUME NEW j \in Jobs,
             StartMaking(j, "create") \/ Make(j) \/ Use(j) \/ Record(j) \/ Kill(j)
      PROVE  s \in todo[j]
  <2>1. CASE DumpOpens(j) \/ DumpEnds(j) \/ DumpFails(j) \/ Kill(j)
    <3>1. dump' # dump /\ UNCHANGED sidecar /\ pc[j] \in {"dump", "dumping"}
      BY <1>1, <2>1 DEF DumpOpens, DumpEnds, DumpFails, Kill, Move
    <3>2. \E bytes : dump' = [dump EXCEPT ![place[j]] = bytes]
      BY <2>1, <3>1 DEF DumpOpens, DumpEnds, DumpFails, Kill, Unlink
    <3> QED BY <1>4, <3>1, <3>2
  <2>2. CASE OpenSidecar(j) \/ WriteSidecar(j)
    <3>1. UNCHANGED dump /\ pc[j] \in {"sidecar", "writing"}
      BY <2>2 DEF OpenSidecar, WriteSidecar, Move
    <3>2. \E text : sidecar' = [sidecar EXCEPT ![place[j]] = text]
      BY <2>2 DEF OpenSidecar, WriteSidecar
    <3> QED BY <1>5, <3>1, <3>2
  <2>3. CASE PruneDump(j)
    BY <1>1, <2>3 DEF PruneDump, Unlink, BackupTypeOK
  <2>4. CASE PruneSidecar(j)
    BY <1>1, <2>4 DEF PruneSidecar, Move, BackupTypeOK, JobsInPlace
  <2>5. CASE \/ StartMaking(j, "create") \/ CannotDump(j) \/ HashDump(j) \/ StartRestore(j)
             \/ Verify(j) \/ PgRestore(j) \/ StartPrune(j) \/ PruneEnds(j) \/ Record(j)
    <3>1. UNCHANGED files
      BY <2>5 DEF StartMaking, CannotDump, HashDump, StartRestore, Verify, PgRestore,
                  StartPrune, PruneEnds, Record
    <3> QED BY <1>1, <3>1 DEF files
  <2> QED BY <1>7, <2>1, <2>2, <2>3, <2>4, <2>5 DEF Make, Use
<1>8. ~Tick
  BY <1>1 DEF Tick, files
<1> QED BY <1>3, <1>6, <1>7, <1>8 DEF BackupNext

\* For every number of jobs and every retention: a good backup is lost only to
\* damage, or to a prune that found it expired.
THEOREM GoodUntilExpiredHolds == BackupSpec => GoodUntilExpired
<1> DEFINE Stays ==
      ~Collide' =>
        \A s \in Seconds : Trusted(s) /\ ~Trusted(s)' =>
          \/ dump'[s] = Garbage
          \/ \E j \in Jobs, r \in Retentions :
               cmd[j] = "prune" /\ s \in todo[j] /\ sidecar[s].created + r < now
<1>1. BackupInv /\ [BackupNext]_backupVars => [Stays]_backupVars
  <2> SUFFICES ASSUME BackupInv, BackupNext, ~Collide' PROVE Stays
    OBVIOUS
  <2>1. ~Collide
    BY BackupNextKeepsInv, JobsStay DEF BackupInv
  <2> QED BY <2>1, GoodStays
<1> QED BY <1>1, BackupInvariant, PTL DEF BackupSpec, GoodUntilExpired

-----------------------------------------------------------------------------
(***************************************************************************)
(* The steps of DrTest.                                                    *)
(***************************************************************************)

\* What one more report adds.
LEMMA OneMoreReport ==
  ASSUME NEW j \in Jobs, steps[j] \in Seq(DrTestStep), NEW name \in StepNames, NEW passed \in BOOLEAN,
         steps'[j] = Append(steps[j], [name |-> name, passed |-> passed])
  PROVE  /\ Asked(j) \in Nat /\ Asked(j)' = IF name = "query" THEN Asked(j) + 1 ELSE Asked(j)
         /\ Passed(j)' <=> Passed(j) /\ passed
         /\ steps'[j] # <<>>
         /\ steps'[j][Len(steps'[j])] = [name |-> name, passed |-> passed]
<1> DEFINE step == [name |-> name, passed |-> passed]
           old == steps[j]
           new == steps'[j]
           Of(q) == {i \in 1..Len(q) : q[i].name = "query"}
<1>1. /\ Len(old) \in Nat /\ Len(new) = Len(old) + 1
      /\ \A i \in 1..Len(old) : new[i] = old[i]
      /\ new[Len(old) + 1] = step
  OBVIOUS
<1>2. step.name = name /\ step.passed = passed
  OBVIOUS
<1>3. new # <<>>
  BY <1>1
<1> HIDE DEF step, old, new
<1>4. 1..Len(new) = (1..Len(old)) \cup {Len(old) + 1} /\ Len(old) + 1 \notin 1..Len(old)
  BY <1>1
<1>5. IsFiniteSet(Of(old)) /\ Cardinality(Of(old)) \in Nat /\ Len(old) + 1 \notin Of(old)
  <2>1. IsFiniteSet(1..Len(old)) /\ Of(old) \in SUBSET (1..Len(old))
    BY <1>1, FS_Interval
  <2> QED BY <1>4, <2>1, FS_Subset, FS_CardinalityType
<1>6. Of(new) = IF name = "query" THEN Of(old) \cup {Len(old) + 1} ELSE Of(old)
  BY <1>1, <1>2, <1>4
<1>7. Cardinality(Of(new)) = IF name = "query" THEN Cardinality(Of(old)) + 1 ELSE Cardinality(Of(old))
  BY <1>5, <1>6, FS_AddElement
<1>8. Asked(j) = Cardinality(Of(old)) /\ Asked(j)' = Cardinality(Of(new))
  BY DEF Asked, old, new
<1>9. Passed(j)' <=> Passed(j) /\ passed
  <2>1. Passed(j) <=> \A i \in 1..Len(old) : old[i].passed
    BY DEF Passed, old
  <2>2. Passed(j)' <=> \A i \in 1..Len(new) : new[i].passed
    BY DEF Passed, new
  <2> QED BY <1>1, <1>2, <1>4, <2>1, <2>2
<1>10. steps'[j] # <<>> /\ steps'[j][Len(steps'[j])] = [name |-> name, passed |-> passed]
  BY <1>1, <1>3 DEF new, step
<1> QED BY <1>5, <1>7, <1>8, <1>9, <1>10

\* What DrillInv says of one drill.
DrillOf(j) ==
  /\ pc[j] = "idle" => steps[j] = <<>> /\ event[j] = "none"
  /\ Drilling(j) =>
       /\ pc[j] \notin {"query", "drop", "report", "recorded", "raised", "killed"} => Asked(j) = 0
       /\ pc[j] \in {"check", "target"} => Hashed(j) /\ steps[j] # <<>>
       /\ pc[j] = "query" => RestoredOwn(j)
       /\ pc[j] \in {"drop", "report"} /\ Passed(j) => Asked(j) = Queries /\ RestoredOwn(j)
       /\ pc[j] = "report" /\ Passed(j) => j \notin scratch
       /\ event[j] # "none" => pc[j] = "recorded"
       /\ event[j] = "success" => Asked(j) = Queries /\ j \notin scratch /\ RestoredOwn(j)
  /\ j \in scratch =>
       /\ steps[j] # <<>>
       /\ pc[j] \in {"verify", "restore", "restored", "failed", "query", "drop",
                     "report", "recorded", "raised", "killed"}
       /\ pc[j] \in {"report", "recorded"} =>
            \E name \in {"target", "cleanup"} :
              steps[j][Len(steps[j])] = [name |-> name, passed |-> FALSE]

LEMMA DrillByDrill ==
  TypeOK => (DrillInv <=> BackupInv /\ \A i \in Jobs : DrillOf(i))
<1> SUFFICES ASSUME TypeOK PROVE DrillInv <=> BackupInv /\ \A i \in Jobs : DrillOf(i)
  OBVIOUS
<1>1. scratch \subseteq Jobs
  BY DEF TypeOK
<1>2. ASSUME DrillInv PROVE BackupInv /\ \A j \in Jobs : DrillOf(j)
  BY <1>2 DEF DrillInv, NothingYet, ScratchInPlace, DrillsAddUp, DebrisIsReported,
              PassedDrillIsReal, DrillOf, RestoredOwn
<1>3. ASSUME BackupInv, \A j \in Jobs : DrillOf(j) PROVE DrillInv
  <2>1. NothingYet /\ ScratchInPlace /\ DebrisIsReported
    BY <1>1, <1>3 DEF NothingYet, ScratchInPlace, DebrisIsReported, DrillOf
  <2>2. DrillsAddUp
    BY <1>3 DEF DrillsAddUp, DrillOf
  <2>3. PassedDrillIsReal
    BY <1>3 DEF PassedDrillIsReal, DrillOf, RestoredOwn
  <2> QED BY <1>3, <2>1, <2>2, <2>3 DEF DrillInv
<1> QED BY <1>2, <1>3

LEMMA DrillByDrillNext ==
  ASSUME TypeOK', BackupInv', (\A i \in Jobs : DrillOf(i))'
  PROVE  DrillInv'
BY DrillByDrill, PTL

\* A drill that a step does not move stays as it was.
Still(k) ==
  /\ pc'[k] = pc[k] /\ cmd'[k] = cmd[k] /\ restored'[k] = restored[k] /\ event'[k] = event[k]
  /\ steps'[k] = steps[k] /\ (k \in scratch' <=> k \in scratch)

LEMMA StillDrills ==
  ASSUME DrillInv, KeepsJobs, NEW k \in Jobs, Still(k)
  PROVE  DrillOf(k)'
<1>1. DrillOf(k)
  BY DrillByDrill DEF DrillInv
<1>2. (Hashed(k) => Hashed(k)') /\ (Collide => Collide')
  BY JobsStay DEF DrillInv, BackupInv
<1>3. Asked(k)' = Asked(k) /\ Passed(k)' = Passed(k)
  BY DEF Asked, Passed, Still
<1>4. RestoredOwn(k) => RestoredOwn(k)'
  BY <1>2 DEF RestoredOwn, Still, WholeOf
<1>5. Drilling(k)' = Drilling(k)
  BY DEF Drilling, Still
<1>6. (\E name \in {"target", "cleanup"} :
         steps[k][Len(steps[k])] = [name |-> name, passed |-> FALSE])
      => (\E name \in {"target", "cleanup"} :
            steps'[k][Len(steps'[k])] = [name |-> name, passed |-> FALSE])
  BY DEF Still
<1> QED BY <1>1, <1>2, <1>3, <1>4, <1>5, <1>6 DEF DrillOf, Still

\* How the steps of LocalBackup move a drill that is running.
Carried(k) ==
  /\ Drilling(k) /\ event'[k] = event[k] /\ restored'[k] \in Bytes \cup {None}
  /\ \/ /\ pc[k] \in {"dump", "dumping", "hash", "sidecar", "writing"}
        /\ pc'[k] \in {"dumping", "hash", "sidecar", "writing", "made", "failed", "raised"}
     \/ pc[k] = "verify" /\ pc'[k] \in {"restore", "failed"}
     \/ pc[k] = "restore" /\ pc'[k] \in {"restored", "failed"}
     \/ pc[k] \notin Ended /\ pc'[k] = "killed"

\* What a step of LocalBackup leaves alone of a job.
BackupStill(k) ==
  pc'[k] = pc[k] /\ cmd'[k] = cmd[k] /\ restored'[k] = restored[k] /\ event'[k] = event[k]

LEMMA BackupCarries ==
  ASSUME BackupInv, BackupNext, BackupInv', NEW k \in Jobs, Drilling(k)'
  PROVE  BackupStill(k) \/ Carried(k)
<1> USE DEF BackupInv
<1>1. CASE Tick \/ \E s \in Seconds : Damage(s)
  BY <1>1 DEF Tick, Damage, BackupStill
<1>2. ASSUME NEW j \in Jobs,
             StartMaking(j, "create") \/ Make(j) \/ Use(j) \/ Record(j) \/ Kill(j)
      PROVE  BackupStill(k) \/ Carried(k)
  <2>1. CASE k # j
    <3>1. BackupStill(k)
      <4> USE <2>1 DEF Move, Start, BackupTypeOK, BackupStill
      <4>1. CASE StartMaking(j, "create") \/ Record(j) \/ Kill(j)
        BY <4>1 DEF StartMaking, Record, Kill
      <4>2. CASE Make(j)
        BY <4>2 DEF Make, DumpOpens, DumpEnds, DumpFails, CannotDump, HashDump, OpenSidecar,
                    WriteSidecar
      <4>3. CASE Use(j)
        BY <4>3 DEF Use, StartRestore, Verify, PgRestore, StartPrune, PruneDump, PruneSidecar,
                    PruneEnds
      <4> QED BY <1>2, <4>1, <4>2, <4>3
    <3> QED BY <3>1
  <2>2. CASE k = j
    <3>1. restored'[j] \in Bytes \cup {None}
      BY DEF BackupTypeOK
    <3>2. CASE StartMaking(j, "create") \/ StartRestore(j) \/ StartPrune(j)
      BY <2>2, <3>2 DEF StartMaking, StartRestore, StartPrune, Start, Drilling, BackupTypeOK
    <3>3. CASE PruneDump(j) \/ PruneSidecar(j) \/ PruneEnds(j) \/ Record(j)
      BY <2>2, <3>3 DEF PruneDump, PruneSidecar, PruneEnds, Record, Move, Drilling, JobsInPlace
    <3>4. CASE Make(j)
      <4>1. cmd' = cmd /\ event' = event
        BY <3>4 DEF Make, DumpOpens, DumpEnds, DumpFails, CannotDump, HashDump, OpenSidecar,
                    WriteSidecar
      <4>2. /\ pc[j] \in {"dump", "dumping", "hash", "sidecar", "writing"}
            /\ pc'[j] \in {"dumping", "hash", "sidecar", "writing", "made", "failed", "raised"}
        BY <3>4 DEF Make, DumpOpens, DumpEnds, DumpFails, CannotDump, HashDump, OpenSidecar,
                    WriteSidecar, Move, BackupTypeOK
      <4> QED BY <2>2, <3>1, <4>1, <4>2 DEF Carried, Drilling
    <3>5. CASE Verify(j) \/ PgRestore(j)
      BY <2>2, <3>1, <3>5 DEF Verify, PgRestore, Move, Carried, Drilling, BackupTypeOK
    <3>6. CASE Kill(j)
      BY <2>2, <3>1, <3>6 DEF Kill, Carried, Drilling, BackupTypeOK
    <3> QED BY <1>2, <3>2, <3>3, <3>4, <3>5, <3>6 DEF Use
  <2> QED BY <2>1, <2>2
<1> QED BY <1>1, <1>2 DEF BackupNext

\* The steps of LocalBackup that a drill goes through, or that others take
\* around it.
LEMMA BackupKeepsDrills ==
  ASSUME DrillInv, BackupNext, UNCHANGED drillVars
  PROVE  DrillInv'
<1>1. KeepsJobs /\ BackupInv /\ BackupInv' /\ TypeOK
  BY BackupNextKeepsInv DEF DrillInv
<1>2. UNCHANGED steps /\ UNCHANGED scratch
  BY DEF drillVars
<1>3. TypeOK'
  <2>1. \A k \in Jobs : Drilling(k) => Drilling(k)'
    BY <1>1 DEF KeepsJobs, BackupInv, JobsInPlace, Drilling
  <2> QED BY <1>1, <1>2, <2>1 DEF TypeOK, BackupInv
<1>4. ASSUME NEW k \in Jobs PROVE DrillOf(k)'
  <2>1. DrillOf(k)
    BY <1>1, DrillByDrill DEF DrillInv
  <2>2. Asked(k)' = Asked(k)
    BY <1>2 DEF Asked
  <2>3. CASE ~Drilling(k)'
    <3>1. k \notin scratch'
      BY <1>3, <2>3 DEF TypeOK
    <3>2. pc'[k] = "idle" => pc[k] = "idle" /\ event'[k] = event[k]
      <4>1. CASE Tick \/ \E s \in Seconds : Damage(s)
        BY <4>1 DEF Tick, Damage
      <4>2. ASSUME NEW j \in Jobs,
                   StartMaking(j, "create") \/ Make(j) \/ Use(j) \/ Record(j) \/ Kill(j),
                   pc'[k] = "idle"
            PROVE  pc[k] = "idle" /\ event'[k] = event[k]
        <5> USE <1>1, <4>2 DEF Move, Start, BackupInv, BackupTypeOK
        <5>1. CASE StartMaking(j, "create") \/ Record(j) \/ Kill(j)
          BY <5>1 DEF StartMaking, Record, Kill
        <5>2. CASE Make(j)
          BY <5>2 DEF Make, DumpOpens, DumpEnds, DumpFails, CannotDump, HashDump, OpenSidecar,
                      WriteSidecar
        <5>3. CASE Use(j)
          BY <5>3 DEF Use, StartRestore, Verify, PgRestore, StartPrune, PruneDump, PruneSidecar,
                      PruneEnds
        <5> QED BY <5>1, <5>2, <5>3
      <4> QED BY <4>1, <4>2 DEF BackupNext
    <3> QED BY <1>2, <2>1, <2>3, <3>1, <3>2 DEF DrillOf
  <2>4. CASE Drilling(k)' /\ BackupStill(k)
    BY <1>1, <1>2, <2>4, StillDrills DEF Still, BackupStill
  <2>5. CASE Drilling(k)' /\ Carried(k)
    <3>1. event[k] = "none" /\ event'[k] = "none"
      BY <1>1, <2>1, <2>5 DEF DrillOf, Carried, Ended, BackupInv, BackupTypeOK
    <3>2. pc'[k] \notin {"query", "drop", "report", "recorded", "raised", "killed"} => Asked(k) = 0
      BY <2>1, <2>5 DEF DrillOf, Carried
    <3>3. k \in scratch =>
            /\ steps[k] # <<>>
            /\ pc'[k] \in {"verify", "restore", "restored", "failed", "killed"}
      BY <2>1, <2>5 DEF DrillOf, Carried
    <3>4. pc'[k] \notin {"idle", "check", "target", "query", "drop", "report", "recorded"}
      BY <2>5 DEF Carried
    <3> QED BY <1>2, <2>2, <3>1, <3>2, <3>3, <3>4 DEF DrillOf
  <2> QED BY <1>1, <2>3, <2>4, <2>5, BackupCarries
<1>5. (\A i \in Jobs : DrillOf(i))'
  BY <1>4
<1> QED BY <1>1, <1>3, <1>5, DrillByDrillNext

\* A report, or an error that ends the drill, is a move of the drill alone.
LEMMA DrillMovesOn ==
  ASSUME DrillInv, NEW j \in Jobs, Drilling(j), NEW from \in Positions \ {"idle"},
         NEW to \in {"check", "target", "verify", "query", "drop", "report", "raised", "recorded"},
         Move(j, from, to), to = "verify" => from = "target",
         event' \in [Jobs -> {"none", "success", "failure"}],
         UNCHANGED <<now, cmd, place, meta, files, todo, restored>>,
         steps' \in [Jobs -> Seq(DrTestStep)], scratch' \subseteq scratch \cup {j},
         \A k \in Jobs \ {j} : /\ event'[k] = event[k] /\ steps'[k] = steps[k]
                               /\ k \in scratch' <=> k \in scratch
  PROVE  /\ KeepsJobs /\ BackupInv' /\ TypeOK'
         /\ pc[j] = from /\ pc'[j] = to /\ restored'[j] = restored[j] /\ cmd'[j] = cmd[j]
         /\ \A k \in Jobs \ {j} : Still(k)
<1>1. /\ pc[j] = from /\ pc' = [pc EXCEPT ![j] = to] /\ pc'[j] = to
      /\ \A k \in Jobs \ {j} : pc'[k] = pc[k]
  BY DEF Move, DrillInv, BackupInv, BackupTypeOK
<1>2. to = "verify" => Hashed(j)
  BY <1>1 DEF DrillInv, DrillsAddUp
<1>3. KeepsJobs /\ BackupInv'
  BY <1>1, <1>2, MovingKeepsInv DEF DrillInv
<1>4. TypeOK'
  BY <1>3 DEF DrillInv, TypeOK, BackupInv, Drilling
<1> QED BY <1>1, <1>3, <1>4 DEF Still

\* What every report of a drill has in common.
Reported(j, from, name, passed, to) ==
  /\ KeepsJobs /\ BackupInv' /\ TypeOK' /\ DrillOf(j) /\ Drilling(j) /\ Drilling(j)'
  /\ pc[j] = from /\ pc'[j] = to /\ event'[j] = event[j]
  /\ RestoredOwn(j) => RestoredOwn(j)'
  /\ Asked(j) \in Nat /\ Asked(j)' = IF name = "query" THEN Asked(j) + 1 ELSE Asked(j)
  /\ Passed(j)' <=> Passed(j) /\ passed
  /\ steps'[j] # <<>>
  /\ steps'[j][Len(steps'[j])] = [name |-> name, passed |-> passed]
  /\ \A k \in Jobs \ {j} : Still(k)

LEMMA ReportMovesOn ==
  ASSUME DrillInv, NEW j \in Jobs, NEW from \in Positions \ {"idle"},
         NEW name \in StepNames, NEW passed \in BOOLEAN,
         NEW to \in {"check", "target", "verify", "query", "drop", "report"},
         Report(j, from, name, passed, to), to = "verify" => from = "target",
         scratch' \in {scratch, scratch \cup {j}, scratch \ {j}}
  PROVE  Reported(j, from, name, passed, to)
<1>1. /\ Drilling(j) /\ Move(j, from, to) /\ event' = event
      /\ steps' = [steps EXCEPT ![j] = Append(@, [name |-> name, passed |-> passed])]
      /\ UNCHANGED <<now, cmd, place, meta, files, todo, restored>>
  BY DEF Report
<1>2. steps \in [Jobs -> Seq(DrTestStep)] /\ [name |-> name, passed |-> passed] \in DrTestStep
  BY DEF DrillInv, TypeOK, DrTestStep
<1>3. /\ steps[j] \in Seq(DrTestStep)
      /\ steps'[j] = Append(steps[j], [name |-> name, passed |-> passed])
      /\ steps' \in [Jobs -> Seq(DrTestStep)] /\ \A k \in Jobs \ {j} : steps'[k] = steps[k]
  <2> DEFINE step == [name |-> name, passed |-> passed]
  <2> HIDE DEF step
  <2>1. Append(steps[j], step) \in Seq(DrTestStep)
    BY <1>2, AppendProperties DEF step
  <2> QED BY <1>1, <1>2, <2>1 DEF step
<1>4. /\ event' \in [Jobs -> {"none", "success", "failure"}]
      /\ scratch' \subseteq scratch \cup {j}
      /\ \A k \in Jobs \ {j} : event'[k] = event[k] /\ (k \in scratch' <=> k \in scratch)
  BY <1>1 DEF DrillInv, BackupInv, BackupTypeOK
<1>5. /\ KeepsJobs /\ BackupInv' /\ TypeOK' /\ pc[j] = from /\ pc'[j] = to
      /\ restored'[j] = restored[j] /\ cmd'[j] = cmd[j] /\ \A k \in Jobs \ {j} : Still(k)
  BY <1>1, <1>3, <1>4, DrillMovesOn
<1>6. RestoredOwn(j) => RestoredOwn(j)'
  BY <1>5, JobsStay DEF RestoredOwn, WholeOf, DrillInv, BackupInv
<1>7. DrillOf(j)
  BY DrillByDrill DEF DrillInv
<1> QED BY <1>1, <1>3, <1>5, <1>6, <1>7, OneMoreReport DEF Drilling, Reported

LEMMA RaiseMovesOn ==
  ASSUME DrillInv, NEW j \in Jobs, NEW from \in Positions \ {"idle"}, Raise(j, from),
         scratch' \in {scratch, scratch \cup {j}, scratch \ {j}},
         j \in scratch' => steps[j] # <<>>, from \notin Ended
  PROVE  KeepsJobs /\ BackupInv' /\ TypeOK' /\ DrillOf(j)' /\ \A k \in Jobs \ {j} : Still(k)
<1>1. /\ Drilling(j) /\ Move(j, from, "raised") /\ event' = event /\ steps' = steps
      /\ UNCHANGED <<now, cmd, place, meta, files, todo, restored>>
  BY DEF Raise
<1>2. /\ event' \in [Jobs -> {"none", "success", "failure"}]
      /\ scratch' \subseteq scratch \cup {j} /\ steps' \in [Jobs -> Seq(DrTestStep)]
      /\ \A k \in Jobs \ {j} : k \in scratch' <=> k \in scratch
  BY <1>1 DEF DrillInv, TypeOK, BackupInv, BackupTypeOK
<1>3. /\ KeepsJobs /\ BackupInv' /\ TypeOK' /\ pc[j] = from /\ pc'[j] = "raised"
      /\ \A k \in Jobs \ {j} : Still(k)
  BY <1>1, <1>2, DrillMovesOn
<1>4. event[j] = "none"
  BY <1>1, <1>3 DEF DrillInv, DrillsAddUp, Ended
<1>5. DrillOf(j)'
  BY <1>1, <1>3, <1>4 DEF DrillOf
<1> QED BY <1>3, <1>5

\* A drill starts, or is refused.
LEMMA StartDrillKeepsInv ==
  ASSUME DrillInv, NEW j \in Jobs, StartDrill(j)
  PROVE  KeepsJobs /\ BackupInv' /\ TypeOK' /\ DrillOf(j)' /\ \A k \in Jobs \ {j} : Still(k)
<1>1. /\ pc[j] = "idle" /\ cmd[j] = "none" /\ steps[j] = <<>> /\ event[j] = "none"
      /\ UNCHANGED steps /\ UNCHANGED scratch /\ UNCHANGED restored /\ UNCHANGED event
  BY DEF StartDrill, StartMaking, Start, Move, DrillInv, NothingYet, BackupInv, JobsInPlace, drillVars
<1>2. PICK to \in {"dump", "refused"} : Start(j, "drill", to)
  BY DEF StartDrill, StartMaking
<1>3. /\ cmd'[j] = "drill" /\ pc'[j] = to
      /\ \A k \in Jobs \ {j} : cmd'[k] = cmd[k] /\ pc'[k] = pc[k]
  BY <1>2 DEF Start, Move, DrillInv, BackupInv, BackupTypeOK
<1>4. KeepsJobs /\ BackupInv'
  <2>1. CASE StartMaking(j, "drill")
    BY <2>1, StartMakingKeepsInv DEF DrillInv
  <2>2. CASE /\ Start(j, "drill", "refused")
             /\ UNCHANGED <<now, place, meta, files, todo, restored, event, drillVars>>
    <3>1. /\ place' \in [Jobs -> Seconds] /\ meta' \in [Jobs -> Metadata \cup {None}]
          /\ todo' \in [Jobs -> SUBSET Seconds] /\ todo'[j] = {}
      BY <1>1, <2>2 DEF DrillInv, BackupInv, BackupTypeOK, JobsInPlace
    <3> QED BY <2>2, <3>1, StartUsingKeepsInv DEF DrillInv
  <2> QED BY <2>1, <2>2 DEF StartDrill
<1>5. j \notin scratch
  BY <1>1 DEF DrillInv, TypeOK, Drilling
<1>6. TypeOK'
  BY <1>1, <1>3, <1>4, <1>5 DEF DrillInv, TypeOK, BackupInv, Drilling
<1>7. Asked(j)' = 0
  <2>1. {i \in 1..Len(steps'[j]) : steps'[j][i].name = "query"} = {}
    BY <1>1
  <2> QED BY <2>1, FS_EmptySet DEF Asked
<1>8. DrillOf(j)'
  BY <1>1, <1>3, <1>5, <1>7 DEF DrillOf
<1> QED BY <1>1, <1>3, <1>4, <1>6, <1>8 DEF Still

\* Before the throwaway database: the backup and its checksum.
LEMMA BackupStepsKeepInv ==
  ASSUME DrillInv, NEW j \in Jobs, BackupStep(j) \/ ChecksumStep(j)
  PROVE  KeepsJobs /\ BackupInv' /\ TypeOK' /\ DrillOf(j)' /\ \A k \in Jobs \ {j} : Still(k)
<1>1. scratch' = scratch
  BY DEF BackupStep, ChecksumStep
<1>2. KeepsJobs => (Hashed(j) => Hashed(j)')
  BY JobsStay DEF DrillInv, BackupInv
<1>3. CASE Report(j, "made", "backup", TRUE, "check")
  <2>1. Hashed(j)
    BY <1>3 DEF Report, Move, DrillInv, BackupInv, JobsInPlace
  <2>2. "made" \in Positions \ {"idle"} /\ "backup" \in StepNames
    BY DEF Positions, StepNames
  <2>3. Reported(j, "made", "backup", TRUE, "check")
    BY <1>1, <1>3, <2>2, ReportMovesOn
  <2> QED BY <1>1, <1>2, <2>1, <2>3 DEF Reported, DrillOf
<1>4. CASE steps[j] = <<>> /\ Report(j, "failed", "backup", FALSE, "report")
  <2>1. "failed" \in Positions \ {"idle"} /\ "backup" \in StepNames
    BY DEF Positions, StepNames
  <2>2. Reported(j, "failed", "backup", FALSE, "report")
    BY <1>1, <1>4, <2>1, ReportMovesOn
  <2> QED BY <1>1, <1>4, <2>2 DEF Reported, DrillOf
<1>5. CASE ChecksumStep(j)
  <2>1. PICK ok \in BOOLEAN : Report(j, "check", "checksum", ok, IF ok THEN "target" ELSE "report")
    BY <1>5 DEF ChecksumStep, Verified
  <2>2. "check" \in Positions \ {"idle"} /\ "checksum" \in StepNames
    BY DEF Positions, StepNames
  <2>3. CASE ok
    <3>1. Reported(j, "check", "checksum", TRUE, "target")
      BY <1>1, <2>1, <2>2, <2>3, ReportMovesOn
    <3> QED BY <1>1, <1>2, <2>3, <3>1 DEF Reported, DrillOf
  <2>4. CASE ~ok
    <3>1. Reported(j, "check", "checksum", FALSE, "report")
      BY <1>1, <2>1, <2>2, <2>4, ReportMovesOn
    <3> QED BY <1>1, <3>1 DEF Reported, DrillOf
  <2> QED BY <2>3, <2>4
<1> QED BY <1>3, <1>4, <1>5 DEF BackupStep

\* The throwaway database is created, and dropped at the end.
LEMMA DatabaseStepsKeepInv ==
  ASSUME DrillInv, NEW j \in Jobs, TargetStep(j) \/ CleanupStep(j)
  PROVE  KeepsJobs /\ BackupInv' /\ TypeOK' /\ DrillOf(j)' /\ \A k \in Jobs \ {j} : Still(k)
<1>1. /\ {"target", "drop"} \subseteq Positions \ {"idle"} /\ {"target", "cleanup"} \subseteq StepNames
      /\ {"target", "drop"} \cap Ended = {}
  BY DEF Positions, StepNames, Ended
<1>2. ASSUME TargetStep(j), NEW passed \in BOOLEAN,
             Report(j, "target", "target", passed, IF passed THEN "verify" ELSE "report")
      PROVE  KeepsJobs /\ BackupInv' /\ TypeOK' /\ DrillOf(j)' /\ \A k \in Jobs \ {j} : Still(k)
  <2>1. scratch' \in {scratch, scratch \cup {j}}
    BY <1>2 DEF TargetStep
  <2>2. CASE passed
    <3>1. Reported(j, "target", "target", TRUE, "verify")
      BY <1>1, <1>2, <2>1, <2>2, ReportMovesOn
    <3> QED BY <1>1, <2>1, <3>1 DEF Reported, DrillOf
  <2>3. CASE ~passed
    <3>1. Reported(j, "target", "target", FALSE, "report")
      BY <1>1, <1>2, <2>1, <2>3, ReportMovesOn
    <3> QED BY <1>1, <2>1, <3>1 DEF Reported, DrillOf
  <2> QED BY <2>2, <2>3
<1>3. CASE TargetStep(j) /\ Raise(j, "target")
  <2>1. scratch' \in {scratch, scratch \cup {j}}
    BY <1>3 DEF TargetStep
  <2>2. steps[j] # <<>>
    BY <1>3 DEF Raise, Move, DrillInv, DrillsAddUp
  <2> QED BY <1>1, <1>3, <2>1, <2>2, RaiseMovesOn
<1>4. CASE Report(j, "drop", "cleanup", TRUE, "report") /\ scratch' = scratch \ {j}
  <2>1. Reported(j, "drop", "cleanup", TRUE, "report")
    BY <1>1, <1>4, ReportMovesOn
  <2> QED BY <1>4, <2>1 DEF Reported, DrillOf
<1>5. CASE Report(j, "drop", "cleanup", FALSE, "report") /\ scratch' \in {scratch, scratch \ {j}}
  <2>1. Reported(j, "drop", "cleanup", FALSE, "report")
    BY <1>1, <1>5, ReportMovesOn
  <2> QED BY <1>5, <2>1 DEF Reported, DrillOf
<1>6. CASE Raise(j, "drop") /\ scratch' \in {scratch, scratch \ {j}}
  <2>1. j \in scratch' => steps[j] # <<>>
    BY <1>6 DEF DrillInv, ScratchInPlace
  <2> QED BY <1>1, <1>6, <2>1, RaiseMovesOn
<1> QED BY <1>2, <1>3, <1>4, <1>5, <1>6 DEF TargetStep, CleanupStep

\* The restore and the queries in between, and an interrupt of theirs.
LEMMA TryStepsKeepInv ==
  ASSUME DrillInv, NEW j \in Jobs, RestoreStep(j) \/ QueryStep(j) \/ Interrupt(j)
  PROVE  KeepsJobs /\ BackupInv' /\ TypeOK' /\ DrillOf(j)' /\ \A k \in Jobs \ {j} : Still(k)
<1>1. /\ {"restored", "failed", "query"} \subseteq Positions \ {"idle"}
      /\ {"restore", "query"} \subseteq StepNames
  BY DEF Positions, StepNames
<1>2. CASE RestoreStep(j) /\ Report(j, "restored", "restore", TRUE, "query")
  <2>1. RestoredOwn(j)
    <3>1. Drilling(j) /\ pc[j] = "restored" /\ j \in Makers
      BY <1>2 DEF Report, Move, Drilling, Makers
    <3>2. Hashed(j)
      BY <3>1 DEF DrillInv, BackupInv, JobsInPlace
    <3> QED BY <3>1, <3>2 DEF DrillInv, BackupInv, RestoreSeesVerified, DigestIsOfWhole, RestoredOwn
  <2>2. scratch' = scratch
    BY <1>2 DEF RestoreStep
  <2>3. Reported(j, "restored", "restore", TRUE, "query")
    BY <1>1, <1>2, <2>2, ReportMovesOn
  <2> QED BY <2>1, <2>2, <2>3 DEF Reported, DrillOf
<1>3. CASE RestoreStep(j) /\ Report(j, "failed", "restore", FALSE, "drop")
  <2>1. scratch' = scratch
    BY <1>3 DEF RestoreStep
  <2>2. Reported(j, "failed", "restore", FALSE, "drop")
    BY <1>1, <1>3, <2>1, ReportMovesOn
  <2> QED BY <2>1, <2>2 DEF Reported, DrillOf
<1>4. CASE QueryStep(j)
  <2>1. scratch' = scratch /\ Asked(j) < Queries
    BY <1>4 DEF QueryStep
  <2>2. PICK passed \in BOOLEAN, to \in {"drop", "query"} :
          /\ Report(j, "query", "query", passed, to)
          /\ to = "drop" => Asked(j) + 1 = Queries
    BY <1>4 DEF QueryStep
  <2>3. Reported(j, "query", "query", passed, to)
    BY <1>1, <2>1, <2>2, ReportMovesOn
  <2> QED BY <2>1, <2>2, <2>3 DEF Reported, DrillOf
<1>5. CASE Interrupt(j)
  <2>1. PICK from \in {"verify", "restore", "restored", "query"} : Raise(j, from)
    BY <1>5 DEF Interrupt
  <2>2. from \in Positions \ {"idle"} /\ from \notin Ended
    BY DEF Positions, Ended
  <2>3. scratch' \in {scratch, scratch \ {j}} /\ (j \in scratch' => steps[j] # <<>>)
    BY <1>5 DEF Interrupt, DrillInv, ScratchInPlace
  <2> QED BY <2>1, <2>2, <2>3, RaiseMovesOn
<1> QED BY <1>2, <1>3, <1>4, <1>5 DEF RestoreStep

\* The result is recorded.
LEMMA RecordDrillKeepsInv ==
  ASSUME DrillInv, NEW j \in Jobs, RecordDrill(j)
  PROVE  KeepsJobs /\ BackupInv' /\ TypeOK' /\ DrillOf(j)' /\ \A k \in Jobs \ {j} : Still(k)
<1>1. /\ Drilling(j) /\ Move(j, "report", "recorded") /\ UNCHANGED steps /\ UNCHANGED scratch
      /\ event' = [event EXCEPT ![j] = IF Passed(j) THEN "success" ELSE "failure"]
      /\ UNCHANGED <<now, cmd, place, meta, files, todo, restored>>
  BY DEF RecordDrill, drillVars
<1>2. /\ event' \in [Jobs -> {"none", "success", "failure"}]
      /\ event'[j] = IF Passed(j) THEN "success" ELSE "failure"
      /\ \A k \in Jobs \ {j} : event'[k] = event[k]
      /\ steps' \in [Jobs -> Seq(DrTestStep)] /\ "report" \in Positions \ {"idle"}
  BY <1>1 DEF DrillInv, TypeOK, BackupInv, BackupTypeOK, Positions
<1>3. /\ KeepsJobs /\ BackupInv' /\ TypeOK' /\ pc[j] = "report" /\ pc'[j] = "recorded"
      /\ restored'[j] = restored[j] /\ cmd'[j] = cmd[j] /\ \A k \in Jobs \ {j} : Still(k)
  BY <1>1, <1>2, DrillMovesOn
<1>4. Asked(j)' = Asked(j) /\ (RestoredOwn(j) => RestoredOwn(j)')
  BY <1>1, <1>3, JobsStay DEF Asked, RestoredOwn, WholeOf, DrillInv, BackupInv
<1>5. DrillOf(j)
  BY DrillByDrill DEF DrillInv
<1>6. DrillOf(j)'
  BY <1>1, <1>2, <1>3, <1>4, <1>5 DEF DrillOf
<1> QED BY <1>3, <1>6

LEMMA DrillKeepsInv ==
  ASSUME DrillInv, NEW j \in Jobs, Drill(j)
  PROVE  DrillInv'
<1>1. KeepsJobs /\ BackupInv' /\ TypeOK' /\ DrillOf(j)' /\ \A k \in Jobs \ {j} : Still(k)
  BY StartDrillKeepsInv, BackupStepsKeepInv, DatabaseStepsKeepInv, TryStepsKeepInv,
     RecordDrillKeepsInv DEF Drill
<1>2. (\A i \in Jobs : DrillOf(i))'
  BY <1>1, StillDrills
<1> QED BY <1>1, <1>2, DrillByDrillNext

\* The inductive invariant of the drills.
THEOREM DrillInvariant == Spec => []DrillInv
<1>1. Init => DrillInv
  <2> SUFFICES ASSUME Init PROVE DrillInv
    OBVIOUS
  <2>1. BackupInv
    BY BackupInitHasInv DEF Init
  <2>2. scratch = {} /\ steps = [j \in Jobs |-> <<>>] /\ event = [j \in Jobs |-> "none"]
        /\ \A j \in Jobs : ~Drilling(j)
    BY DEF Init, BackupInit, Drilling
  <2>3. TypeOK
    BY <2>1, <2>2 DEF TypeOK, BackupInv
  <2>4. \A j \in Jobs : DrillOf(j)
    BY <2>2 DEF DrillOf
  <2> QED BY <2>1, <2>3, <2>4, DrillByDrill
<1>2. DrillInv /\ [Next]_vars => DrillInv'
  <2> SUFFICES ASSUME DrillInv, [Next]_vars PROVE DrillInv'
    OBVIOUS
  <2>1. CASE Next
    BY <2>1, BackupKeepsDrills, DrillKeepsInv DEF Next
  <2>2. CASE UNCHANGED vars
    <3>1. KeepsJobs /\ BackupInv' /\ \A k \in Jobs : Still(k)
      BY <2>2, BackupStuttersKeepInv DEF vars, backupVars, drillVars, Still, DrillInv
    <3>2. TypeOK'
      BY <2>2, <3>1 DEF vars, backupVars, drillVars, DrillInv, TypeOK, BackupInv, Drilling
    <3>3. (\A i \in Jobs : DrillOf(i))'
      BY <3>1, StillDrills
    <3> QED BY <3>1, <3>2, <3>3, DrillByDrillNext
  <2> QED BY <2>1, <2>2
<1> QED BY <1>1, <1>2, PTL DEF Spec

\* The drills' variables have their types in every reachable state.
THEOREM DrTypeCorrect == Spec => []TypeOK
<1>1. DrillInv => TypeOK
  BY DEF DrillInv
<1> QED BY <1>1, DrillInvariant, PTL

\* For every number of drills, backups, restores and prunes at once: a drill
\* recorded as passed restored the whole of its own dump, asked every query
\* and removed its database.
THEOREM PassedDrillIsRealHolds == Spec => []PassedDrillIsReal
<1>1. DrillInv => PassedDrillIsReal
  BY DEF DrillInv
<1> QED BY <1>1, DrillInvariant, PTL

\* A drill that reports and leaves its database behind says so at last.
THEOREM DebrisIsReportedHolds == Spec => []DebrisIsReported
<1>1. DrillInv => DebrisIsReported
  BY DEF DrillInv
<1> QED BY <1>1, DrillInvariant, PTL

\* The drills around them take nothing from what holds of the backups.
THEOREM BackupsHoldInDrills == Spec => [](TrustedIsWhole /\ RestoredIsRecorded)
<1>1. DrillInv => TrustedIsWhole /\ RestoredIsRecorded
  BY TrustedByInv, RestoredByInv DEF DrillInv
<1> QED BY <1>1, DrillInvariant, PTL

=============================================================================
