--------------------------- MODULE RecordsProofs ----------------------------
(***************************************************************************)
(* Theorems about the two records that both packages leave on disk and     *)
(* nothing ever repairs: the audit log, for every set of calls, and the    *)
(* assessment store, for any number of jobs.                               *)
(***************************************************************************)
EXTENDS AuditLog, AssessmentStore, SequenceTheorems, TLAPS

(***************************************************************************)
(* The last line, the lines of a rewritten file, and what they contain.    *)
(***************************************************************************)

\* Writing to the file, with or without an open last line, leaves a file of
\* lines: one more line, or the last line replaced.
LEMMA WritingType ==
  ASSUME AuditTypeOK, NEW line \in Line
  PROVE  /\ AfterWriting(line) \in Seq(Line)
         /\ AfterWriting(line) # <<>>
         /\ ~tailOpen => /\ Len(AfterWriting(line)) = Len(log) + 1
                         /\ \A i \in 1..Len(log) : AfterWriting(line)[i] = log[i]
                         /\ AfterWriting(line)[Len(log) + 1] = line
         /\ tailOpen => /\ Len(AfterWriting(line)) = Len(log)
                        /\ \A i \in 1..Len(log) : i # Len(log) => AfterWriting(line)[i] = log[i]
                        /\ AfterWriting(line)[Len(log)] = Garbled
<1>1. Garbled \in Line
  BY DEF Garbled, Line, Hash
<1>2. CASE ~tailOpen
  BY <1>2 DEF AfterWriting, AuditTypeOK
<1>3. CASE tailOpen
  <2>1. Len(log) \in 1..Len(log)
    BY <1>3, EmptySeq DEF AuditTypeOK
  <2>2. AfterWriting(line) = [log EXCEPT ![Len(log)] = Garbled]
    BY <1>3 DEF AfterWriting
  <2> QED
    BY <1>1, <1>3, <2>1, <2>2, ExceptSeq, EmptySeq DEF AuditTypeOK
<1> QED
  BY <1>2, <1>3 DEF AuditTypeOK

\* A call's event is a line.
LEMMA EventType ==
  ASSUME AuditTypeOK, NEW c \in Calls
  PROVE  EventOf(c) \in Line
BY DEF AuditTypeOK, EventOf, Line, Hash

\* Every alteration of the file leaves a file of lines.
LEMMA AlterType ==
  ASSUME AuditTypeOK, NEW i \in 1..Len(log), Alter(i)
  PROVE  log' \in Seq(Line)
<1>1. log \in Seq(Line) /\ Len(log) \in Nat
  BY DEF AuditTypeOK
<1>2. CASE EditLine(i)
  <2>1. PICK line \in Edits(log[i]) : log' = [log EXCEPT ![i] = line]
    BY <1>2 DEF EditLine, Rewrite
  <2>2. log[i] \in Line
    BY <1>1, ElementOfSeq
  <2>3. line \in Line
    BY <2>1, <2>2 DEF Edits, Line, Hash
  <2> QED
    BY <1>1, <2>1, <2>3, ExceptSeq
<1>3. CASE DeleteInner(i) \/ DeleteLast(i)
  <2>1. SubSeq(log, 1, i - 1) \in Seq(Line)
    BY <1>1, SubSeqProperties, ElementOfSeq
  <2>2. SubSeq(log, i + 1, Len(log)) \in Seq(Line)
    BY <1>1, SubSeqProperties, ElementOfSeq
  <2>3. log' = SubSeq(log, 1, i - 1) \o SubSeq(log, i + 1, Len(log))
    BY <1>3 DEF DeleteInner, DeleteLast, Rewrite, Without
  <2> QED
    BY <2>1, <2>2, <2>3, ConcatProperties
<1>4. CASE SwapLines(i)
  <2>1. i + 1 \in 1..Len(log)
    BY <1>1, <1>4 DEF SwapLines
  <2>2. log' = [log EXCEPT ![i] = log[i + 1], ![i + 1] = log[i]]
    BY <1>4 DEF SwapLines, Swapped, Rewrite
  <2>3. [log EXCEPT ![i] = log[i + 1]] \in Seq(Line)
    BY <1>1, <2>1, ExceptSeq, ElementOfSeq
  <2>4. Len([log EXCEPT ![i] = log[i + 1]]) = Len(log)
    BY <1>1, <2>1, ExceptSeq, ElementOfSeq
  <2> QED
    BY <1>1, <2>1, <2>2, <2>3, <2>4, ExceptSeq, ElementOfSeq
<1> QED
  BY <1>2, <1>3, <1>4 DEF Alter

\* Type correctness of the audit log, whatever the calls and the editor do.
THEOREM AuditTypeCorrect == AuditSpec => []AuditTypeOK
<1>1. AuditInit => AuditTypeOK
  BY EmptySeq DEF AuditInit, AuditTypeOK, Hash
<1>2. AuditTypeOK /\ [AuditNext]_auditVars => AuditTypeOK'
  <2> SUFFICES ASSUME AuditTypeOK, [AuditNext]_auditVars PROVE AuditTypeOK'
    OBVIOUS
  <2>1. ASSUME NEW c \in Calls, ReadLast(c) PROVE AuditTypeOK'
    <3>1. LastHash \in Hash
      <4>1. CASE log = <<>>
        BY <4>1 DEF LastHash, Hash
      <4>2. CASE log # <<>>
        <5>1. log[Len(log)] \in Line
          BY <4>2, ElementOfSeq, EmptySeq DEF AuditTypeOK
        <5> QED
          BY <4>2, <5>1 DEF LastHash, Line
      <4> QED
        BY <4>1, <4>2
    <3> QED
      BY <2>1, <3>1 DEF ReadLast, AuditTypeOK
  <2>2. ASSUME NEW c \in Calls, ReadFails(c) PROVE AuditTypeOK'
    BY <2>2 DEF ReadFails, AuditTypeOK
  <2>3. ASSUME NEW c \in Calls, AppendLine(c) PROVE AuditTypeOK'
    BY <2>3, WritingType, EventType DEF AppendLine, AuditTypeOK
  <2>4. ASSUME NEW c \in Calls, TearLine(c) PROVE AuditTypeOK'
    <3>1. PICK line \in {EventOf(c), Garbled} : log' = AfterWriting(line)
      BY <2>4 DEF TearLine
    <3>2. line \in Line
      BY <3>1, EventType DEF Garbled, Line, Hash
    <3> QED
      BY <2>4, <3>1, <3>2, WritingType DEF TearLine, AuditTypeOK
  <2>5. ASSUME NEW c \in Calls, FailBeforeWrite(c) PROVE AuditTypeOK'
    BY <2>5 DEF FailBeforeWrite, AuditTypeOK
  <2>6. ASSUME NEW i \in 1..Len(log), Alter(i) PROVE AuditTypeOK'
    BY <2>6, AlterType
    DEF Alter, EditLine, DeleteInner, DeleteLast, SwapLines, Rewrite, AuditTypeOK
  <2>7. CASE UNCHANGED auditVars
    BY <2>7 DEF auditVars, AuditTypeOK
  <2> QED
    BY <2>1, <2>2, <2>3, <2>4, <2>5, <2>6, <2>7 DEF AuditNext, Record
<1> QED
  BY <1>1, <1>2, PTL DEF AuditSpec

-----------------------------------------------------------------------------
(***************************************************************************)
(* The inductive invariant.                                                *)
(***************************************************************************)

\* A line that no call wrote and a line of a call are told apart by content.
LEMMA GarbledIsNoEvent ==
  /\ Garbled.call = Torn
  /\ Torn \notin Calls
  /\ \A c \in Calls : EventOf(c).call = c /\ EventOf(c) # Garbled
BY SentinelsDistinct DEF EventOf, Garbled

\* A line that makes read_all raise or that verify_chain reports.
Bad(i) == log[i].call = Torn \/ log[i].prev # ExpectedPrev(i) \/ ~HashMatches(log[i])

\* verify_chain says "valid" exactly when no line is bad.
LEMMA ValidMeansNoBadLine == Verdict # "valid" <=> \E i \in 1..Len(log) : Bad(i)
BY DEF Verdict, ReadAllRaises, Problems, Bad

\* The prev_hash a line ought to have depends on the line before it only.
LEMMA ExpectedOfSameLines ==
  ASSUME AuditTypeOK, NEW i \in 1..Len(log), i # 1 => log'[i - 1] = log[i - 1]
  PROVE  ExpectedPrev(i)' = ExpectedPrev(i)
BY DEF ExpectedPrev, AuditTypeOK

\* The write of record() turns a bad line into no good one: it leaves the line
\* and the one before it alone, or garbles the line.
LEMMA WriteKeepsBad ==
  ASSUME AuditInv, NEW line \in Line, log' = AfterWriting(line), seen' = seen,
         \E i \in 1..Len(log) : Bad(i)
  PROVE  \E i \in 1..Len(log') : Bad(i)'
<1> USE DEF AuditInv
<1>1. PICK i \in 1..Len(log) : Bad(i)
  OBVIOUS
<1>2. Len(log) \in Nat
  BY DEF AuditTypeOK
<1>3. CASE ~tailOpen
  <2>1. i \in 1..Len(log') /\ \A j \in 1..Len(log) : log'[j] = log[j]
    BY <1>2, <1>3, WritingType
  <2>2. ExpectedPrev(i)' = ExpectedPrev(i)
    BY <1>2, <2>1, ExpectedOfSameLines
  <2>3. Bad(i)'
    BY <1>1, <2>1, <2>2 DEF Bad, HashMatches
  <2> QED
    BY <2>1, <2>3
<1>4. CASE tailOpen
  <2>1. /\ i \in 1..Len(log')
        /\ \A j \in 1..Len(log) : j # Len(log) => log'[j] = log[j]
        /\ log'[Len(log)] = Garbled
    BY <1>4, WritingType
  <2>2. CASE i = Len(log)
    <3>1. Bad(i)'
      BY <2>1, <2>2, GarbledIsNoEvent DEF Bad
    <3> QED
      BY <2>1, <3>1
  <2>3. CASE i # Len(log)
    <3>1. i # 1 => i - 1 \in 1..Len(log) /\ i - 1 # Len(log)
      BY <1>2
    <3>2. i # 1 => log'[i - 1] = log[i - 1]
      BY <2>1, <3>1
    <3>3. AuditTypeOK
      OBVIOUS
    <3>4. ExpectedPrev(i)' = ExpectedPrev(i)
      BY <3>2, <3>3, ExpectedOfSameLines
    <3>5. Bad(i)'
      BY <1>1, <2>1, <2>3, <3>4 DEF Bad, HashMatches
    <3> QED
      BY <2>1, <3>5
  <2> QED
    BY <2>2, <2>3
<1> QED
  BY <1>3, <1>4

\* The write of record(), complete or torn, keeps the invariant: the new line
\* belongs to a call that had none, and while calls do not overlap it chains
\* from the line that is still the last one.
LEMMA WriteKeepsInv ==
  ASSUME AuditInv, NEW c \in Calls, at[c] = "read",
         NEW line \in {EventOf(c), Garbled}, log' = AfterWriting(line),
         NEW end \in {"done", "failed"}, at' = [at EXCEPT ![c] = end],
         end = "done" => line = EventOf(c),
         UNCHANGED <<seen, overlapped, altered>>, AuditTypeOK'
  PROVE  AuditInv'
<1> USE DEF AuditInv
<1>1. line \in Line
  BY EventType DEF Garbled, Line, Hash
<1>2. /\ Len(log) \in Nat /\ at'[c] = end /\ \A d \in Calls : d # c => at'[d] = at[d]
      /\ Past(c)' /\ ~Past(c) /\ \A d \in Calls : Past(d) => Past(d)'
  BY DEF AuditTypeOK, Past
<1>3. \A d \in Calls : EventOf(d)' = EventOf(d)
  BY DEF EventOf
<1>4. Garbled' = Garbled
  BY DEF Garbled
<1>5. /\ ~tailOpen => /\ Len(log') = Len(log) + 1
                      /\ \A i \in 1..Len(log) : log'[i] = log[i]
                      /\ log'[Len(log) + 1] = line
                      /\ 1..Len(log') = (1..Len(log)) \cup {Len(log) + 1}
      /\ tailOpen => /\ Len(log') = Len(log) /\ Len(log) \in 1..Len(log)
                     /\ \A i \in 1..Len(log) : i # Len(log) => log'[i] = log[i]
                     /\ log'[Len(log)] = Garbled
  <2>1. tailOpen => Len(log) # 0
    BY EmptySeq DEF AuditTypeOK
  <2>2. CASE tailOpen
    BY <1>1, <1>2, <2>1, <2>2, WritingType
  <2>3. CASE ~tailOpen
    <3>1. /\ Len(log') = Len(log) + 1
          /\ \A i \in 1..Len(log) : log'[i] = log[i]
          /\ log'[Len(log) + 1] = line
      BY <1>1, <2>3, WritingType
    <3>2. 1..Len(log') = (1..Len(log)) \cup {Len(log) + 1}
      BY <1>2, <3>1
    <3> QED
      BY <2>3, <3>1, <3>2
  <2> QED
    BY <2>2, <2>3 DEF AuditTypeOK
<1>6. \A i \in 1..Len(log') :
        \/ i \in 1..Len(log) /\ log'[i] = log[i] /\ ExpectedPrev(i)' = ExpectedPrev(i)
        \/ log'[i] = Garbled /\ i = Len(log')
        \/ /\ ~tailOpen /\ i = Len(log) + 1 /\ i = Len(log') /\ log'[i] = EventOf(c)
           /\ ExpectedPrev(i)' = LastHash
  <2> SUFFICES ASSUME NEW i \in 1..Len(log')
               PROVE  \/ i \in 1..Len(log) /\ log'[i] = log[i] /\ ExpectedPrev(i)' = ExpectedPrev(i)
                      \/ log'[i] = Garbled /\ i = Len(log')
                      \/ /\ ~tailOpen /\ i = Len(log) + 1 /\ i = Len(log') /\ log'[i] = EventOf(c)
                         /\ ExpectedPrev(i)' = LastHash
    OBVIOUS
  <2>1. CASE i \in 1..Len(log) /\ ~(tailOpen /\ i = Len(log))
    <3>1. log'[i] = log[i] /\ (i # 1 => log'[i - 1] = log[i - 1])
      BY <1>2, <1>5, <2>1
    <3> QED
      BY <2>1, <3>1, ExpectedOfSameLines
  <2>2. CASE tailOpen /\ i = Len(log)
    BY <1>5, <2>2
  <2>3. CASE ~tailOpen /\ i = Len(log) + 1
    <3>1. ExpectedPrev(i)' = LastHash
      <4>1. CASE Len(log) = 0
        BY <2>3, <4>1, EmptySeq DEF ExpectedPrev, LastHash, AuditTypeOK
      <4>2. CASE Len(log) # 0
        BY <1>2, <1>5, <2>3, <4>2, EmptySeq DEF ExpectedPrev, LastHash, AuditTypeOK
      <4> QED
        BY <4>1, <4>2
    <3> QED
      BY <1>5, <2>3, <3>1
  <2> QED
    BY <1>2, <1>5, <2>1, <2>2, <2>3
<1>7. ASSUME altered # "changed" PROVE \A i \in 1..Len(log) : log[i].call # c
  BY <1>2, <1>7, GarbledIsNoEvent DEF LinesWritten
<1>8. ASSUME ~overlapped PROVE \A d \in Calls : at'[d] # "read"
  BY <1>2, <1>8 DEF OneReader
<1>9. \A h : Lost(h) => Lost(h)'
  <2> SUFFICES ASSUME NEW h \in Calls, Lost(h) PROVE Lost(h)'
    BY DEF Lost
  <2> QED
    BY <1>2, <1>6, GarbledIsNoEvent DEF Lost
<1>10. LinesWritten'
  BY <1>2, <1>3, <1>4, <1>6 DEF LinesWritten
<1>11. LinesUnique'
  BY <1>6, <1>7, GarbledIsNoEvent DEF LinesUnique
<1>12. LinesPast'
  BY <1>2, <1>6, GarbledIsNoEvent DEF LinesPast
<1>13. DoneRecorded'
  <2> SUFFICES ASSUME altered = "none", NEW d \in Calls, at'[d] = "done"
               PROVE  \E i \in 1..Len(log') : log'[i].call = d \/ log'[i] = Garbled
    BY <1>4 DEF DoneRecorded
  <2>1. CASE tailOpen
    BY <1>5, <2>1
  <2>2. CASE ~tailOpen /\ d = c
    BY <1>2, <1>5, <2>2, GarbledIsNoEvent
  <2>3. CASE ~tailOpen /\ d # c
    <3>1. PICK i \in 1..Len(log) : log[i].call = d \/ log[i] = Garbled
      BY <1>2, <2>3 DEF DoneRecorded
    <3> QED
      BY <1>5, <2>3, <3>1
  <2> QED
    BY <2>1, <2>2, <2>3
<1>14. OneReader' /\ ReaderFresh' /\ ReaderFreshOrLost'
  BY <1>2, <1>8 DEF OneReader, ReaderFresh, ReaderFreshOrLost
<1>15. Chained'
  <2> SUFFICES ASSUME ~overlapped, altered = "none", NEW i \in 1..Len(log'), log'[i] # Garbled
               PROVE  log'[i].prev = ExpectedPrev(i)'
    BY <1>4 DEF Chained
  <2>1. CASE i \in 1..Len(log) /\ log'[i] = log[i] /\ ExpectedPrev(i)' = ExpectedPrev(i)
    BY <2>1 DEF Chained
  <2>2. CASE log'[i] = EventOf(c) /\ ExpectedPrev(i)' = LastHash
    BY <2>2 DEF ReaderFresh, EventOf
  <2> QED
    BY <1>6, <2>1, <2>2
<1>16. GarbledIsLast'
  BY <1>4, <1>6, <1>8, GarbledIsNoEvent DEF GarbledIsLast
<1>17. ChainedOrLost'
  <2> SUFFICES ASSUME ~overlapped, altered # "changed", NEW i \in 1..Len(log'), log'[i] # Garbled
               PROVE  log'[i].prev = ExpectedPrev(i)' \/ Lost(log[i].prev)'
    BY <1>4 DEF ChainedOrLost
  <2>1. \A h : h = log'[i].prev /\ Lost(h)' => Lost(log[i].prev)'
    BY DEF Lost
  <2>2. CASE i \in 1..Len(log) /\ log'[i] = log[i] /\ ExpectedPrev(i)' = ExpectedPrev(i)
    <3>1. log[i].prev = ExpectedPrev(i) \/ Lost(log[i].prev)
      BY <2>2 DEF ChainedOrLost
    <3>2. Lost(log[i].prev) => \E h : h = log'[i].prev /\ Lost(h)'
      BY <1>9, <2>2
    <3> QED
      BY <2>1, <2>2, <3>1, <3>2
  <2>3. CASE log'[i] = EventOf(c) /\ ExpectedPrev(i)' = LastHash
    <3>1. log'[i].prev = seen[c] /\ (seen[c] = LastHash \/ Lost(seen[c]))
      BY <2>3 DEF ReaderFreshOrLost, EventOf
    <3>2. Lost(seen[c]) => \E h : h = log'[i].prev /\ Lost(h)'
      BY <1>9, <3>1
    <3> QED
      BY <2>1, <2>3, <3>1, <3>2
  <2> QED
    BY <1>6, <2>2, <2>3
<1>18. ChangeDetected'
  <2> SUFFICES ASSUME ~overlapped, altered = "changed" PROVE \E i \in 1..Len(log') : Bad(i)'
    BY ValidMeansNoBadLine DEF ChangeDetected, Verdict, ReadAllRaises, Problems, Bad
  <2> QED
    BY <1>1, WriteKeepsBad, ValidMeansNoBadLine DEF ChangeDetected
<1> QED
  BY <1>10, <1>11, <1>12, <1>13, <1>14, <1>15, <1>16, <1>17, <1>18

\* What is left of the file when one line is taken out of it.
LEMMA LinesWithout ==
  ASSUME AuditTypeOK, NEW i \in 1..Len(log)
  PROVE  /\ Len(Without(i)) = Len(log) - 1
         /\ \A j \in 1..Len(Without(i)) : Without(i)[j] = IF j < i THEN log[j] ELSE log[j + 1]
<1>1. log \in Seq(Line) /\ Len(log) \in Nat
  BY DEF AuditTypeOK
<1>2. \A j \in 1..(i - 1) : log[j] \in Line
  BY <1>1, ElementOfSeq
<1>3. \A j \in (i + 1)..Len(log) : log[j] \in Line
  BY <1>1, ElementOfSeq
<1>4. /\ SubSeq(log, 1, i - 1) \in Seq(Line)
      /\ Len(SubSeq(log, 1, i - 1)) = i - 1
      /\ \A j \in 1..(i - 1) : SubSeq(log, 1, i - 1)[j] = log[j]
  BY <1>1, <1>2, SubSeqProperties
<1>5. /\ SubSeq(log, i + 1, Len(log)) \in Seq(Line)
      /\ Len(SubSeq(log, i + 1, Len(log))) = Len(log) - i
      /\ \A j \in 1..(Len(log) - i) : SubSeq(log, i + 1, Len(log))[j] = log[i + j]
  BY <1>1, <1>3, SubSeqProperties
<1> DEFINE before == SubSeq(log, 1, i - 1)
           after == SubSeq(log, i + 1, Len(log))
<1>6. Without(i) = before \o after
  BY DEF Without
<1> HIDE DEF before, after
<1>7. Len(Without(i)) = Len(log) - 1
  <2>1. /\ before \in Seq(Line) /\ Len(before) = i - 1
        /\ after \in Seq(Line) /\ Len(after) = Len(log) - i
    BY <1>4, <1>5 DEF before, after
  <2> QED
    BY <1>1, <1>6, <2>1, ConcatProperties
<1>8. \A j \in 1..Len(Without(i)) :
        Without(i)[j] = IF j < i THEN before[j] ELSE after[j - (i - 1)]
  <2>1. /\ before \in Seq(Line) /\ Len(before) = i - 1
        /\ after \in Seq(Line) /\ Len(after) = Len(log) - i
    BY <1>4, <1>5 DEF before, after
  <2>2. \A j \in 1..(Len(before) + Len(after)) :
          (before \o after)[j] = IF j <= Len(before) THEN before[j] ELSE after[j - Len(before)]
    BY <2>1, ConcatProperties
  <2> QED
    BY <1>1, <1>6, <1>7, <2>1, <2>2
<1>9. /\ \A j \in 1..(i - 1) : before[j] = log[j]
      /\ \A j \in 1..(Len(log) - i) : after[j] = log[i + j]
  BY <1>4, <1>5 DEF before, after
<1>10. ASSUME NEW j \in 1..Len(Without(i))
       PROVE  Without(i)[j] = IF j < i THEN log[j] ELSE log[j + 1]
  <2>1. CASE j < i
    BY <1>1, <1>7, <1>8, <1>9, <2>1
  <2>2. CASE ~(j < i)
    <3>1. j - (i - 1) \in 1..(Len(log) - i) /\ i + (j - (i - 1)) = j + 1
      BY <1>1, <1>7, <2>2
    <3> QED
      BY <1>8, <1>9, <2>2, <3>1
  <2> QED
    BY <2>1, <2>2
<1> QED
  BY <1>7, <1>10

\* Two neighbouring lines swapped.
LEMMA LinesSwapped ==
  ASSUME AuditTypeOK, NEW i \in 1..Len(log), i < Len(log)
  PROVE  /\ Len(Swapped(i)) = Len(log)
         /\ Swapped(i)[i] = log[i + 1] /\ Swapped(i)[i + 1] = log[i]
         /\ \A j \in 1..Len(log) : j # i /\ j # i + 1 => Swapped(i)[j] = log[j]
<1>1. log \in Seq(Line) /\ Len(log) \in Nat /\ i + 1 \in 1..Len(log)
  BY DEF AuditTypeOK
<1>2. log[i] \in Line /\ log[i + 1] \in Line
  BY <1>1, ElementOfSeq
<1> DEFINE once == [log EXCEPT ![i] = log[i + 1]]
<1>3. once \in Seq(Line) /\ Len(once) = Len(log)
  BY <1>1, <1>2, ExceptSeq
<1>4. Swapped(i) = [once EXCEPT ![i + 1] = log[i]]
  BY DEF Swapped
<1>5. Len(Swapped(i)) = Len(log)
  BY <1>1, <1>2, <1>3, <1>4, ExceptSeq
<1> QED
  BY <1>1, <1>3, <1>4, <1>5

\* No alteration brings in the content of a call that was not there.
LEMMA AlterBringsNoCall ==
  ASSUME AuditTypeOK, NEW i \in 1..Len(log), Alter(i), NEW j \in 1..Len(log')
  PROVE  log'[j].call = Edited \/ \E k \in 1..Len(log) : log'[j].call = log[k].call
<1>1. Len(log) \in Nat /\ log \in Seq(Line)
  BY DEF AuditTypeOK
<1>2. CASE EditLine(i)
  <2>1. PICK line \in Edits(log[i]) : log' = [log EXCEPT ![i] = line]
    BY <1>2 DEF EditLine, Rewrite
  <2>2. line.call \in {Edited, log[i].call}
    <3>1. log[i] \in Line
      BY <1>1, ElementOfSeq
    <3>2. CASE line = [log[i] EXCEPT !.call = Edited]
      BY <3>1, <3>2 DEF Line
    <3>3. ASSUME NEW h, line = [log[i] EXCEPT !.prev = h] \/ line = [log[i] EXCEPT !.hash = h]
          PROVE  line.call = log[i].call
      BY <3>1, <3>3 DEF Line
    <3> QED
      BY <2>1, <3>2, <3>3 DEF Edits
  <2>3. j \in 1..Len(log) /\ log'[j] = IF j = i THEN line ELSE log[j]
    BY <1>1, <2>1
  <2> QED
    BY <2>2, <2>3
<1>3. CASE DeleteInner(i) \/ DeleteLast(i)
  <2>1. log' = Without(i)
    BY <1>3 DEF DeleteInner, DeleteLast, Rewrite
  <2>2. j \in 1..(Len(log) - 1) /\ log'[j] \in {log[j], log[j + 1]}
    BY <2>1, LinesWithout
  <2> QED
    BY <1>1, <2>2
<1>4. CASE SwapLines(i)
  <2>1. i < Len(log) /\ log' = Swapped(i)
    BY <1>4 DEF SwapLines, Rewrite
  <2>2. j \in 1..Len(log) /\ log'[j] \in {log[j], log[i], log[i + 1]}
    BY <2>1, LinesSwapped
  <2> QED
    BY <1>1, <2>1, <2>2
<1> QED
  BY <1>2, <1>3, <1>4 DEF Alter

\* Before a change, the hash of a line that is not garbled is its own call's,
\* and no line behind it claims another predecessor that is in the file.
LEMMA HashesBeforeChange ==
  ASSUME AuditInv, altered # "changed", NEW i \in 1..Len(log), log[i] # Garbled
  PROVE  /\ log[i].call \in Calls /\ log[i].hash = log[i].call
         /\ log[i].call # Torn /\ log[i].prev = seen[log[i].call] /\ HashMatches(log[i])
<1>1. PICK c \in Calls : log[i] = EventOf(c)
  BY DEF AuditInv, LinesWritten
<1> QED
  BY <1>1, GarbledIsNoEvent DEF EventOf, HashMatches

\* An edited line has a digest that is not its content's.
LEMMA EditMakesBad ==
  ASSUME AuditInv, NEW i \in 1..Len(log), EditLine(i)
  PROVE  i \in 1..Len(log') /\ Bad(i)'
<1>1. altered # "changed" /\ log[i] # Garbled /\ seen' = seen
  BY GarbledIsNoEvent DEF EditLine, Rewrite
<1>2. PICK line \in Edits(log[i]) : log' = [log EXCEPT ![i] = line]
  BY DEF EditLine, Rewrite
<1>3. log \in Seq(Line) /\ Len(log) \in Nat /\ log[i] \in Line
  BY ElementOfSeq DEF AuditInv, AuditTypeOK
<1>4. i \in 1..Len(log') /\ log'[i] = line
  BY <1>2, <1>3
<1>5. /\ log[i].call \in Calls /\ log[i].hash = log[i].call
      /\ log[i].prev = seen[log[i].call]
  BY <1>1, HashesBeforeChange
<1>6. ~HashMatches(line)
  <2>1. CASE line = [log[i] EXCEPT !.call = Edited]
    BY <1>3, <2>1, SentinelsDistinct DEF HashMatches, Line
  <2>2. ASSUME NEW h \in Hash \ {log[i].prev}, line = [log[i] EXCEPT !.prev = h]
        PROVE  ~HashMatches(line)
    BY <1>3, <1>5, <2>2 DEF HashMatches, Line
  <2>3. ASSUME NEW h \in Hash \ {log[i].hash}, line = [log[i] EXCEPT !.hash = h]
        PROVE  ~HashMatches(line)
    BY <1>3, <1>5, <2>3 DEF HashMatches, Line
  <2> QED
    BY <1>2, <2>1, <2>2, <2>3 DEF Edits
<1> QED
  BY <1>1, <1>4, <1>6 DEF Bad, HashMatches

\* A line taken from before another one leaves that one's link broken.
LEMMA DeleteMakesBad ==
  ASSUME AuditInv, ~overlapped, NEW i \in 1..Len(log), DeleteInner(i)
  PROVE  i \in 1..Len(log') /\ Bad(i)'
<1>1. altered # "changed" /\ i < Len(log) /\ log' = Without(i)
  BY DEF DeleteInner, Rewrite
<1>2. Len(log) \in Nat /\ AuditTypeOK
  BY DEF AuditInv, AuditTypeOK
<1>3. /\ i \in 1..Len(log') /\ log'[i] = log[i + 1]
      /\ i # 1 => i - 1 \in 1..Len(log') /\ log'[i - 1] = log[i - 1]
  <2>1. /\ Len(log') = Len(log) - 1
        /\ \A j \in 1..(Len(log) - 1) : log'[j] = IF j < i THEN log[j] ELSE log[j + 1]
    BY <1>1, <1>2, LinesWithout
  <2> QED
    BY <1>1, <1>2, <2>1
<1>4. log[i] # Garbled /\ (i # 1 => i - 1 \in 1..Len(log) /\ log[i - 1] # Garbled)
  BY <1>1, <1>2 DEF AuditInv, GarbledIsLast
<1>5. log[i].hash = log[i].call /\ log[i].call \in Calls
  BY <1>1, <1>4, HashesBeforeChange
<1>6. CASE log[i + 1] = Garbled
  BY <1>3, <1>6, GarbledIsNoEvent DEF Bad
<1>7. CASE log[i + 1] # Garbled
  <2>1. i + 1 \in 1..Len(log) /\ ExpectedPrev(i + 1) = log[i].hash
    BY <1>1, <1>2 DEF ExpectedPrev
  <2>2. log[i + 1].prev = log[i].call \/ Lost(log[i + 1].prev)
    BY <1>1, <1>5, <1>7, <2>1 DEF AuditInv, ChainedOrLost
  <2>3. log[i + 1].prev \in Calls
    BY <1>5, <2>2 DEF Lost
  <2>4. log'[i].prev # ExpectedPrev(i)'
    <3>1. CASE i = 1
      BY <1>3, <2>3, <3>1, SentinelsDistinct DEF ExpectedPrev
    <3>2. CASE i # 1
      <4>1. ExpectedPrev(i)' = log[i - 1].call /\ log[i - 1].call \in Calls
        <5>1. log[i - 1].hash = log[i - 1].call /\ log[i - 1].call \in Calls
          BY <1>1, <1>4, <3>2, HashesBeforeChange
        <5> QED
          BY <1>3, <3>2, <5>1 DEF ExpectedPrev
      <4>2. log[i - 1].call # log[i].call
        BY <1>1, <1>2, <1>4, <3>2, <4>1 DEF AuditInv, LinesUnique
      <4>3. Lost(log[i + 1].prev) => log[i - 1].call # log[i + 1].prev
        BY <1>4, <3>2 DEF Lost
      <4> QED
        BY <1>3, <2>2, <4>1, <4>2, <4>3
    <3> QED
      BY <3>1, <3>2
  <2> QED
    BY <1>3, <2>4 DEF Bad
<1> QED
  BY <1>3, <1>6, <1>7

\* Of two lines swapped, the one now behind claims no line that is before it.
LEMMA SwapMakesBad ==
  ASSUME AuditInv, ~overlapped, NEW i \in 1..Len(log), SwapLines(i)
  PROVE  i + 1 \in 1..Len(log') /\ (Bad(i)' \/ Bad(i + 1)')
<1>1. altered # "changed" /\ i < Len(log) /\ log' = Swapped(i)
  BY DEF SwapLines, Rewrite
<1>2. Len(log) \in Nat /\ AuditTypeOK
  BY DEF AuditInv, AuditTypeOK
<1>3. /\ i + 1 \in 1..Len(log') /\ i + 1 \in 1..Len(log)
      /\ log'[i] = log[i + 1] /\ log'[i + 1] = log[i]
  BY <1>1, <1>2, LinesSwapped
<1>4. log[i] # Garbled
  BY <1>1, <1>2 DEF AuditInv, GarbledIsLast
<1>5. CASE log[i + 1] = Garbled
  BY <1>3, <1>5, GarbledIsNoEvent DEF Bad
<1>6. CASE log[i + 1] # Garbled
  <2>1. log[i + 1].hash = log[i + 1].call /\ log[i + 1].call \in Calls
    BY <1>1, <1>3, <1>6, HashesBeforeChange
  <2>2. ExpectedPrev(i + 1)' = log[i + 1].call
    BY <1>2, <1>3, <2>1 DEF ExpectedPrev
  <2>3. log[i].prev # log[i + 1].call
    <3>1. CASE Lost(log[i].prev)
      BY <1>3, <3>1 DEF Lost
    <3>2. CASE i = 1 /\ log[i].prev = Genesis
      BY <2>1, <3>2, SentinelsDistinct
    <3>3. CASE i # 1 /\ log[i].prev = log[i - 1].hash
      <4>1. i - 1 \in 1..Len(log) /\ log[i - 1] # Garbled
        BY <1>1, <1>2, <3>3 DEF AuditInv, GarbledIsLast
      <4>2. log[i - 1].hash = log[i - 1].call
        BY <1>1, <4>1, HashesBeforeChange
      <4>3. log[i - 1].call # log[i + 1].call
        BY <1>1, <1>2, <1>3, <2>1, <4>1 DEF AuditInv, LinesUnique
      <4> QED
        BY <3>3, <4>2, <4>3
    <3> QED
      BY <1>1, <1>4, <3>1, <3>2, <3>3 DEF AuditInv, ChainedOrLost, ExpectedPrev
  <2> QED
    BY <1>3, <2>2, <2>3 DEF Bad
<1> QED
  BY <1>3, <1>5, <1>6

\* Removing the last line keeps what is known of the lines before it; the hash
\* that was the last one is lost.
LEMMA CutKeepsInv ==
  ASSUME AuditInv, NEW i \in 1..Len(log), DeleteLast(i), AuditTypeOK'
  PROVE  AuditInv'
<1> USE DEF AuditInv
<1>1. /\ i = Len(log) /\ altered # "changed" /\ altered' = "cut" /\ log' = Without(i)
      /\ UNCHANGED <<at, seen, overlapped>>
  BY DEF DeleteLast, Rewrite
<1>2. /\ Len(log) \in Nat /\ Len(log') = Len(log) - 1
      /\ \A j \in 1..Len(log') : j \in 1..Len(log) /\ j # i /\ log'[j] = log[j]
  BY <1>1, LinesWithout DEF AuditTypeOK
<1>3. Garbled' = Garbled /\ (\A c \in Calls : EventOf(c)' = EventOf(c) /\ Past(c)' = Past(c))
  BY <1>1 DEF Garbled, EventOf, Past
<1>4. \A h : Lost(h) => Lost(h)'
  BY <1>2, <1>3 DEF Lost
<1>5. LinesWritten' /\ LinesUnique' /\ LinesPast'
  BY <1>1, <1>2, <1>3 DEF LinesWritten, LinesUnique, LinesPast
<1>6. DoneRecorded' /\ ReaderFresh' /\ Chained' /\ ChangeDetected'
  BY <1>1 DEF DoneRecorded, ReaderFresh, Chained, ChangeDetected
<1>7. OneReader'
  BY <1>1 DEF OneReader
<1>8. ASSUME ~overlapped, NEW j \in 1..Len(log') PROVE log'[j] # Garbled
  BY <1>1, <1>2, <1>8 DEF GarbledIsLast
<1>9. GarbledIsLast'
  BY <1>1, <1>3, <1>8 DEF GarbledIsLast
<1>10. ChainedOrLost'
  <2> SUFFICES ASSUME ~overlapped, NEW j \in 1..Len(log')
               PROVE  log'[j].prev = ExpectedPrev(j)' \/ Lost(log[j].prev)'
    BY <1>1 DEF ChainedOrLost
  <2>1. log[j].prev = ExpectedPrev(j) \/ Lost(log[j].prev)
    BY <1>1, <1>2, <1>8 DEF ChainedOrLost
  <2>2. ExpectedPrev(j)' = ExpectedPrev(j)
    BY <1>2, ExpectedOfSameLines
  <2>3. \A h : h = log[j].prev /\ Lost(h)' => Lost(log[j].prev)'
    BY <1>2 DEF Lost
  <2> QED
    BY <1>2, <1>4, <2>1, <2>2, <2>3
<1>11. ReaderFreshOrLost'
  <2> SUFFICES ASSUME ~overlapped, NEW c \in Calls, at[c] = "read"
               PROVE  seen[c] = LastHash' \/ Lost(seen[c])'
    BY <1>1 DEF ReaderFreshOrLost, Lost, Past
  <2>1. seen[c] = LastHash \/ Lost(seen[c])
    BY <1>1 DEF ReaderFreshOrLost
  <2>2. \A h : h = seen[c] /\ Lost(h)' => Lost(seen[c])'
    BY <1>1 DEF Lost, Past
  <2>3. ASSUME seen[c] = LastHash PROVE Lost(seen[c])'
    <3>1. log[i] # Garbled
      BY <1>1 DEF GarbledIsLast
    <3>2. log[i].hash = log[i].call /\ log[i].call \in Calls
      BY <1>1, <3>1, HashesBeforeChange
    <3>3. seen[c] = log[i].call
      BY <1>1, <1>2, <2>3, <3>2, EmptySeq DEF LastHash
    <3>4. \A j \in 1..Len(log') : log'[j].call # log[i].call
      BY <1>1, <1>2, <3>2 DEF LinesUnique
    <3>5. Past(log[i].call)
      BY <3>2 DEF LinesPast
    <3>6. \E h : h = seen[c] /\ Lost(h)'
      BY <1>3, <3>2, <3>3, <3>4, <3>5 DEF Lost
    <3> QED
      BY <2>2, <3>6
  <2> QED
    BY <1>4, <2>1, <2>2, <2>3
<1> QED
  BY <1>5, <1>6, <1>7, <1>9, <1>10, <1>11

\* An edit, a removal from before another line and a swap leave a bad line in
\* the file, and that is all the invariant asks of a changed file.
LEMMA ChangeKeepsInv ==
  ASSUME AuditInv, NEW i \in 1..Len(log), Alter(i), ~DeleteLast(i), AuditTypeOK'
  PROVE  AuditInv'
<1>1. altered' = "changed" /\ UNCHANGED <<at, seen, overlapped>>
  BY DEF Alter, EditLine, DeleteInner, SwapLines, Rewrite
<1>2. LinesPast'
  <2> SUFFICES ASSUME NEW j \in 1..Len(log'), log'[j].call \in Calls
               PROVE  at[log'[j].call] \in {"done", "failed"}
    BY <1>1 DEF LinesPast, Past
  <2>1. PICK k \in 1..Len(log) : log'[j].call = log[k].call
    BY AlterBringsNoCall, SentinelsDistinct DEF AuditInv
  <2> QED
    BY <2>1 DEF AuditInv, LinesPast, Past
<1>3. OneReader'
  BY <1>1 DEF AuditInv, OneReader
<1>4. ChangeDetected'
  <2> SUFFICES ASSUME ~overlapped PROVE \E j \in 1..Len(log') : Bad(j)'
    BY <1>1, ValidMeansNoBadLine DEF ChangeDetected, Verdict, ReadAllRaises, Problems, Bad
  <2>1. CASE EditLine(i)
    BY <2>1, EditMakesBad
  <2>2. CASE DeleteInner(i)
    BY <2>2, DeleteMakesBad
  <2>3. CASE SwapLines(i)
    <3>1. i + 1 \in 1..Len(log') /\ (Bad(i)' \/ Bad(i + 1)')
      BY <2>3, SwapMakesBad
    <3>2. i \in 1..Len(log')
      BY <3>1
    <3> QED
      BY <3>1, <3>2
  <2> QED
    BY <2>1, <2>2, <2>3 DEF Alter
<1> QED
  BY <1>1, <1>2, <1>3, <1>4
  DEF AuditInv, LinesWritten, LinesUnique, DoneRecorded, ReaderFresh, Chained,
      GarbledIsLast, ReaderFreshOrLost, ChainedOrLost

\* A call that reads the last hash, or gives up, changes no line; no line is
\* of a call that was idle, so every digest is what it was.
LEMMA QuietKeepsInv ==
  ASSUME AuditInv, NEW c \in Calls, ReadLast(c) \/ ReadFails(c) \/ FailBeforeWrite(c), AuditTypeOK'
  PROVE  AuditInv'
<1> USE DEF AuditInv
<1>1. /\ log' = log /\ altered' = altered
      /\ ~overlapped' => ~overlapped
      /\ \A d \in Calls : d # c => at'[d] = at[d] /\ seen'[d] = seen[d]
      /\ ~Past(c)
      /\ at[c] # "done" /\ at'[c] # "done"
  BY DEF ReadLast, ReadFails, FailBeforeWrite, AuditTypeOK, Past
<1>2. \A d \in Calls : Past(d) => Past(d)' /\ seen'[d] = seen[d] /\ EventOf(d)' = EventOf(d)
  BY <1>1 DEF Past, EventOf
<1>3. LinesWritten'
  <2> SUFFICES ASSUME altered # "changed", NEW i \in 1..Len(log)
               PROVE  log[i] = Garbled \/ \E d \in Calls : log[i] = EventOf(d)' /\ Past(d)'
    BY <1>1 DEF LinesWritten, Garbled
  <2> QED
    BY <1>2 DEF LinesWritten
<1>4. LinesUnique' /\ DoneRecorded'
  BY <1>1 DEF LinesUnique, DoneRecorded, Garbled
<1>5. LinesPast'
  BY <1>1, <1>2 DEF LinesPast, Past
<1>6. OneReader'
  BY <1>1 DEF OneReader, ReadLast, ReadFails, FailBeforeWrite, AuditTypeOK
<1>7. ASSUME ~overlapped', NEW d \in Calls, at'[d] = "read"
      PROVE  \/ d # c /\ at[d] = "read" /\ seen'[d] = seen[d]
             \/ ReadLast(c) /\ d = c /\ seen'[d] = LastHash
  BY <1>1, <1>7 DEF ReadLast, ReadFails, FailBeforeWrite, AuditTypeOK
<1>8. \A h : Lost(h) => Lost(h)'
  BY <1>1, <1>2 DEF Lost
<1>9. LastHash' = LastHash /\ TailUnparseable' = TailUnparseable /\ Garbled' = Garbled
  BY <1>1 DEF LastHash, TailUnparseable, Garbled
<1>10. ReaderFresh'
  BY <1>1, <1>7, <1>9 DEF ReaderFresh, ReadLast
<1>11. ReaderFreshOrLost'
  <2> SUFFICES ASSUME ~overlapped', altered # "changed", NEW d \in Calls, at'[d] = "read"
               PROVE  seen'[d] = LastHash \/ Lost(seen[d])'
    BY <1>1, <1>9 DEF ReaderFreshOrLost
  <2>1. \A h : h = seen'[d] /\ Lost(h)' => Lost(seen[d])'
    BY DEF Lost
  <2>2. CASE at[d] = "read" /\ seen'[d] = seen[d]
    BY <1>1, <1>8, <2>1, <2>2 DEF ReaderFreshOrLost
  <2>3. CASE seen'[d] = LastHash
    BY <2>3
  <2> QED
    BY <1>7, <2>2, <2>3
<1>12. GarbledIsLast'
  <2> SUFFICES ASSUME ~overlapped', altered # "changed", NEW i \in 1..Len(log), log[i] = Garbled
               PROVE  i = Len(log) /\ \A d \in Calls : at'[d] # "read"
    BY <1>1, <1>9 DEF GarbledIsLast
  <2>1. i = Len(log) /\ \A d \in Calls : at[d] # "read"
    BY <1>1 DEF GarbledIsLast
  <2>2. TailUnparseable
    BY <2>1, GarbledIsNoEvent, EmptySeq DEF TailUnparseable, AuditTypeOK
  <2> QED
    BY <1>7, <2>1, <2>2 DEF ReadLast
<1>13. Chained' /\ ChainedOrLost'
  BY <1>1, <1>8, <1>9 DEF Chained, ChainedOrLost, ExpectedPrev, Lost
<1>14. ChangeDetected'
  <2> SUFFICES ASSUME ~overlapped, altered = "changed" PROVE \E i \in 1..Len(log) : Bad(i)'
    BY <1>1, ValidMeansNoBadLine DEF ChangeDetected, Verdict, ReadAllRaises, Problems, Bad
  <2>1. PICK i \in 1..Len(log) : Bad(i)
    BY ValidMeansNoBadLine DEF ChangeDetected
  <2>2. log[i].call \in Calls => seen'[log[i].call] = seen[log[i].call]
    BY <1>2 DEF LinesPast
  <2> QED
    BY <1>1, <2>1, <2>2 DEF Bad, HashMatches, ExpectedPrev
<1> QED
  BY <1>3, <1>4, <1>5, <1>6, <1>10, <1>11, <1>12, <1>13, <1>14

\* Every step keeps the invariant.
LEMMA AuditInvStep == AuditInv /\ [AuditNext]_auditVars /\ AuditTypeOK' => AuditInv'
<1> SUFFICES ASSUME AuditInv, [AuditNext]_auditVars, AuditTypeOK' PROVE AuditInv'
  OBVIOUS
<1>1. ASSUME NEW c \in Calls, ReadLast(c) \/ ReadFails(c) \/ FailBeforeWrite(c) PROVE AuditInv'
  BY <1>1, QuietKeepsInv
<1>2. ASSUME NEW c \in Calls, AppendLine(c) PROVE AuditInv'
  BY <1>2, WriteKeepsInv DEF AppendLine
<1>3. ASSUME NEW c \in Calls, TearLine(c) PROVE AuditInv'
  <2>1. PICK line \in {EventOf(c), Garbled} : log' = AfterWriting(line)
    BY <1>3 DEF TearLine
  <2> QED
    BY <1>3, <2>1, WriteKeepsInv DEF TearLine
<1>4. ASSUME NEW i \in 1..Len(log), Alter(i) PROVE AuditInv'
  BY <1>4, CutKeepsInv, ChangeKeepsInv
<1>5. CASE UNCHANGED auditVars
  <2>1. UNCHANGED <<log, at, seen, altered, overlapped>>
    BY <1>5 DEF auditVars
  <2> USE DEF AuditInv
  <2>2. LinesWritten' /\ LinesUnique' /\ LinesPast' /\ DoneRecorded' /\ OneReader'
    BY <2>1 DEF LinesWritten, LinesUnique, LinesPast, DoneRecorded, OneReader, EventOf, Past
  <2>3. LastHash' = LastHash /\ (TailUnparseable' <=> TailUnparseable)
    BY <2>1 DEF LastHash, TailUnparseable
  <2>4. /\ \A i : ExpectedPrev(i)' = ExpectedPrev(i)
        /\ \A h : Lost(h)' <=> Lost(h)
        /\ \A line : HashMatches(line)' <=> HashMatches(line)
    BY <2>1 DEF ExpectedPrev, Lost, Past, HashMatches
  <2>5. ReaderFresh' /\ ReaderFreshOrLost' /\ GarbledIsLast'
    BY <2>1, <2>3, <2>4 DEF ReaderFresh, ReaderFreshOrLost, GarbledIsLast
  <2>6. Chained' /\ ChainedOrLost'
    BY <2>1, <2>4 DEF Chained, ChainedOrLost
  <2>7. ChangeDetected'
    <3>1. Problems' = Problems /\ (ReadAllRaises' <=> ReadAllRaises)
      BY <2>1, <2>4 DEF Problems, ReadAllRaises
    <3> QED BY <2>1, <3>1 DEF ChangeDetected, Verdict
  <2> QED
    BY <2>2, <2>5, <2>6, <2>7
<1> QED
  BY <1>1, <1>2, <1>3, <1>4, <1>5 DEF AuditNext, Record

\* The inductive invariant of the audit log holds of every behaviour.
THEOREM AuditInvariant == AuditSpec => []AuditInv
<1>1. AuditInit => AuditInv
  <2>1. AuditInit => AuditTypeOK
    BY EmptySeq DEF AuditInit, AuditTypeOK, Hash
  <2>2. AuditInit => LinesWritten /\ LinesUnique /\ LinesPast /\ DoneRecorded /\ OneReader
    BY DEF AuditInit, LinesWritten, LinesUnique, LinesPast, DoneRecorded, OneReader
  <2>3. AuditInit => /\ ReaderFresh /\ Chained /\ GarbledIsLast /\ ReaderFreshOrLost
                /\ ChainedOrLost /\ ChangeDetected
    BY DEF AuditInit, ReaderFresh, Chained, GarbledIsLast, ReaderFreshOrLost, ChainedOrLost, ChangeDetected
  <2> QED
    BY <2>1, <2>2, <2>3 DEF AuditInv
<1>2. AuditInv /\ [AuditNext]_auditVars /\ AuditTypeOK' => AuditInv'
  BY AuditInvStep
<1> QED
  BY <1>1, <1>2, AuditTypeCorrect, PTL DEF AuditSpec

\* verify_chain keeps detecting an edited line, a line removed from before
\* another one and two lines swapped, one such change being made, also after
\* removals of the last line, and however many calls append afterwards.
THEOREM ChangeDetectedHolds == AuditSpec => []ChangeDetected
<1>1. AuditInv => ChangeDetected
  BY DEF AuditInv
<1> QED
  BY <1>1, AuditInvariant, PTL

\* verify_chain never reports a broken chain while calls of record() do not
\* overlap and nobody alters the file.
THEOREM NoFalseAlarmHolds == AuditSpec => []NoFalseAlarm
<1>1. AuditInv => NoFalseAlarm
  <2> SUFFICES ASSUME AuditInv, ~overlapped, altered = "none", ~ReadAllRaises
               PROVE  Problems = {}
    BY DEF NoFalseAlarm, Verdict
  <2>1. ASSUME NEW i \in 1..Len(log) PROVE log[i].prev = ExpectedPrev(i) /\ HashMatches(log[i])
    <3>1. log[i] # Garbled
      BY GarbledIsNoEvent DEF ReadAllRaises
    <3>2. PICK c \in Calls : log[i] = EventOf(c)
      BY <3>1 DEF AuditInv, LinesWritten
    <3> QED
      BY <3>1, <3>2 DEF AuditInv, Chained, HashMatches, EventOf
  <2> QED
    BY <2>1 DEF Problems
<1> QED
  BY <1>1, AuditInvariant, PTL

\* In an unaltered log that read_all can parse, every call that returned has
\* exactly one line, overlapping or not.
THEOREM EventsDurableHolds == AuditSpec => []EventsDurable
<1>1. AuditInv => EventsDurable
  <2> SUFFICES ASSUME AuditInv, altered = "none", ~ReadAllRaises, NEW c \in Calls
               PROVE  /\ at[c] = "done" => \E i \in 1..Len(log) : log[i].call = c
                      /\ \A i \in 1..Len(log) : log[i].call = c => at[c] \in {"done", "failed"}
                      /\ \A i, j \in 1..Len(log) : log[i].call = c /\ log[j].call = c => i = j
    BY DEF EventsDurable
  <2>1. \A i \in 1..Len(log) : log[i] # Garbled
    BY GarbledIsNoEvent DEF ReadAllRaises
  <2>2. at[c] = "done" => \E i \in 1..Len(log) : log[i].call = c
    BY <2>1 DEF AuditInv, DoneRecorded
  <2>3. \A i \in 1..Len(log) : log[i].call = c => at[c] \in {"done", "failed"}
    BY <2>1, GarbledIsNoEvent DEF AuditInv, LinesWritten, Past
  <2>4. \A i, j \in 1..Len(log) : log[i].call = c /\ log[j].call = c => i = j
    BY DEF AuditInv, LinesUnique
  <2> QED
    BY <2>2, <2>3, <2>4
<1> QED
  BY <1>1, AuditInvariant, PTL

-----------------------------------------------------------------------------
(***************************************************************************)
(* Type correctness.                                                       *)
(***************************************************************************)

LEMMA JobTypesStep == JobTypes /\ [Next]_vars => JobTypes'
<1> SUFFICES ASSUME JobTypes, [Next]_vars PROVE JobTypes'
  OBVIOUS
<1> USE DEF JobTypes, Move
<1>1. CASE UNCHANGED vars
  BY <1>1 DEF vars
<1>2. ASSUME NEW j \in Jobs, Submit(j) \/ Analyze(j) \/ Assess(j) PROVE JobTypes'
  BY <1>2 DEF Submit, Analyze, Assess, Start, Commands, Steps
<1>3. ASSUME NEW j \in Jobs, ReadChange(j) \/ RunPipeline(j) PROVE JobTypes'
  BY <1>3 DEF ReadChange, RunPipeline, Steps, Ended
<1>4. ASSUME NEW j \in Jobs, OpenChange(j) \/ WriteChange(j) PROVE JobTypes'
  BY <1>4 DEF OpenChange, WriteChange, Steps
<1>5. ASSUME NEW j \in Jobs, OpenAssessment(j) \/ WriteAssessment(j) PROVE JobTypes'
  BY <1>5 DEF OpenAssessment, WriteAssessment, Steps
<1>6. ASSUME NEW j \in Jobs, RecordEvent(j) PROVE JobTypes'
  BY <1>6 DEF RecordEvent, Steps, Ended
<1>7. ASSUME NEW j \in Jobs, StartList(j) PROVE JobTypes'
  BY <1>7 DEF StartList, Start, Commands, Steps
<1>8. ASSUME NEW j \in Jobs, ReadCut(j) \/ ReadNext(j) \/ ListEnds(j) \/ Stop(j) PROVE JobTypes'
  BY <1>8 DEF ReadCut, ReadNext, ListEnds, Stop, Steps, Ended
<1> QED
  BY <1>1, <1>2, <1>3, <1>4, <1>5, <1>6, <1>7, <1>8 DEF Next, Save, List

\* The steps that touch the files, and how.
LEMMA FileSteps ==
  ASSUME [Next]_vars
  PROVE  \/ UNCHANGED files
         \/ \E j \in Jobs : OpenChange(j)
         \/ \E j \in Jobs : WriteChange(j)
         \/ \E j \in Jobs : OpenAssessment(j) \/ WriteAssessment(j)
BY DEF Next, vars, Save, List, Stop, Submit, Analyze, Assess, ReadChange, RunPipeline, RecordEvent,
       StartList, ReadCut, ReadNext, ListEnds

LEMMA FileTypesStep ==
  ASSUME FileTypes, now > 0, Dated, [Next]_vars
  PROVE  FileTypes' /\ now' > 0 /\ Dated'
<1> USE DEF FileTypes, Dated, File
<1>1. CASE UNCHANGED files
  BY <1>1 DEF files
<1>2. ASSUME NEW j \in Jobs, OpenChange(j) \/ WriteChange(j) PROVE FileTypes' /\ now' > 0 /\ Dated'
  BY <1>2 DEF OpenChange, WriteChange
<1>3. ASSUME NEW j \in Jobs, OpenAssessment(j) \/ WriteAssessment(j)
      PROVE  FileTypes' /\ now' > 0 /\ Dated'
  <2>1. now' \in Nat /\ now' >= now /\ now' > 0 /\ modified' = [modified EXCEPT ![j] = now']
    BY <1>3 DEF OpenAssessment, WriteAssessment, Touch
  <2>2. \E f \in {"cut", "whole"} : assessment' = [assessment EXCEPT ![j] = f]
    BY <1>3 DEF OpenAssessment, WriteAssessment
  <2>3. Dated'
    BY <2>1, <2>2
  <2> QED
    BY <1>3, <2>1, <2>2, <2>3 DEF OpenAssessment, WriteAssessment
<1> QED
  BY <1>1, <1>2, <1>3, FileSteps

LEMMA ListTypesStep ==
  ASSUME FileTypes, ListTypes, [Next]_vars
  PROVE  ListTypes'
<1> USE DEF ListTypes
<1>1. CASE UNCHANGED listing
  BY <1>1 DEF listing
<1>2. ASSUME NEW j \in Jobs, StartList(j) PROVE ListTypes'
  <2>0. \E n \in Nat : limit' = [limit EXCEPT ![j] = n]
    <3>1. 1 \in Nat /\ Limits \subseteq Nat
      BY StoreAssumption
    <3> QED
      BY <1>2, <3>1, Zenon DEF StartList
  <2>1. limit' \in [Jobs -> Nat]
    BY <2>0
  <2>2. todo' \in [Jobs -> [Jobs -> Nat]]
    BY <1>2 DEF StartList, FileTypes
  <2>3. {a \in Announced : IsAbout(a, subject'[j])} \in SUBSET Jobs
    BY DEF Announced
  <2>4. expected' \in [Jobs -> SUBSET Jobs]
    BY <1>2, <2>3 DEF StartList
  <2> QED
    BY <1>2, <2>1, <2>2, <2>4 DEF StartList
<1>3. ASSUME NEW j \in Jobs, ReadNext(j) PROVE ListTypes'
  <2>1. PICK a \in Jobs : /\ todo' = [todo EXCEPT ![j][a] = 0]
                          /\ results' = [results EXCEPT ![j] = Append(@, a)] \/ UNCHANGED results
    BY <1>3 DEF ReadNext, Newest, Left
  <2>2. todo' \in [Jobs -> [Jobs -> Nat]]
    <3>1. todo[j] \in [Jobs -> Nat] /\ 0 \in Nat
      OBVIOUS
    <3>2. [todo[j] EXCEPT ![a] = 0] \in [Jobs -> Nat]
      BY <3>1
    <3>3. todo' = [todo EXCEPT ![j] = [todo[j] EXCEPT ![a] = 0]]
      BY <2>1
    <3> QED
      BY <3>2, <3>3
  <2>3. results' \in [Jobs -> Seq(Jobs)]
    <3>1. CASE results' = [results EXCEPT ![j] = Append(@, a)]
      BY <3>1
    <3>2. CASE UNCHANGED results
      BY <3>2
    <3> QED
      BY <2>1, <3>1, <3>2
  <2> QED
    BY <1>3, <2>2, <2>3 DEF ReadNext
<1> QED
  BY <1>1, <1>2, <1>3 DEF Next, vars, Save, List, Stop, Submit, Analyze, Assess, ReadChange,
       RunPipeline, OpenChange, WriteChange, OpenAssessment, WriteAssessment, RecordEvent, ReadCut, ListEnds

LEMMA TypesStep == TypeOK /\ [Next]_vars => TypeOK'
BY JobTypesStep, FileTypesStep, ListTypesStep DEF TypeOK

\* Every file, listing and event keeps its type, and a file of an assessment
\* has a time exactly when it exists.
THEOREM StoreTypeCorrect == Spec => []TypeOK
<1>1. Init => TypeOK
  BY DEF Init, TypeOK, JobTypes, FileTypes, ListTypes, Dated, File, Commands, Steps, Ended
<1>2. QED
  BY <1>1, TypesStep, PTL DEF Spec

-----------------------------------------------------------------------------
(***************************************************************************)
(* What a job has done at each step, and that its assessments endure.      *)
(***************************************************************************)

\* Jobs other than the one that moves keep their place and their records.
LEMMA OneMoves ==
  ASSUME TypeOK, [Next]_vars
  PROVE  \/ UNCHANGED vars
         \/ \E j \in Jobs :
              /\ Save(j) \/ List(j) \/ Stop(j)
              /\ \A o \in Jobs \ {j} :
                   /\ cmd'[o] = cmd[o] /\ pc'[o] = pc[o] /\ subject'[o] = subject[o]
                   /\ assessment'[o] = assessment[o] /\ event'[o] = event[o]
<1>1. ASSUME NEW j \in Jobs, Save(j) \/ List(j) \/ Stop(j), NEW o \in Jobs \ {j}
      PROVE  /\ cmd'[o] = cmd[o] /\ pc'[o] = pc[o] /\ subject'[o] = subject[o]
             /\ assessment'[o] = assessment[o] /\ event'[o] = event[o]
  <2> USE DEF TypeOK, JobTypes, FileTypes, Move, Start, files
  <2>1. CASE Submit(j) \/ Analyze(j) \/ Assess(j)
    BY <1>1, <2>1 DEF Submit, Analyze, Assess
  <2>2. CASE ReadChange(j) \/ RunPipeline(j) \/ OpenChange(j) \/ WriteChange(j) \/ RecordEvent(j)
    BY <1>1, <2>2 DEF ReadChange, RunPipeline, OpenChange, WriteChange, RecordEvent
  <2>3. CASE OpenAssessment(j) \/ WriteAssessment(j)
    BY <1>1, <2>3 DEF OpenAssessment, WriteAssessment
  <2>4. CASE StartList(j) \/ ReadCut(j) \/ ReadNext(j) \/ ListEnds(j) \/ Stop(j)
    BY <1>1, <2>4 DEF StartList, ReadCut, ReadNext, ListEnds, Stop
  <2> QED
    BY <1>1, <2>1, <2>2, <2>3, <2>4 DEF Save, List
<1>2. QED
  BY <1>1 DEF Next

LEMMA BackedStep ==
  ASSUME TypeOK, StepIsBacked, [Next]_vars
  PROVE  StepIsBacked'
<1>1. CASE UNCHANGED vars
  BY <1>1 DEF StepIsBacked, vars, files
<1>2. ASSUME NEW j \in Jobs, Save(j) \/ List(j) \/ Stop(j),
             \A o \in Jobs \ {j} :
               /\ cmd'[o] = cmd[o] /\ pc'[o] = pc[o] /\ subject'[o] = subject[o]
               /\ assessment'[o] = assessment[o] /\ event'[o] = event[o]
      PROVE  StepIsBacked'
  <2>1. StepIsBacked!(j)'
    <3> USE DEF StepIsBacked, TypeOK, JobTypes, FileTypes, Move, Start, files, Saving, Commands, Ended
    <3>1. CASE Submit(j) \/ Analyze(j)
      BY <1>2, <3>1 DEF Submit, Analyze
    <3>2. CASE Assess(j)
      BY <1>2, <3>2 DEF Assess
    <3>3. CASE ReadChange(j) \/ RunPipeline(j)
      BY <1>2, <3>3 DEF ReadChange, RunPipeline
    <3>4. CASE OpenChange(j) \/ WriteChange(j)
      BY <1>2, <3>4 DEF OpenChange, WriteChange
    <3>5. CASE OpenAssessment(j) \/ WriteAssessment(j)
      BY <1>2, <3>5 DEF OpenAssessment, WriteAssessment
    <3>6. CASE RecordEvent(j)
      BY <1>2, <3>6 DEF RecordEvent
    <3>7. CASE StartList(j)
      BY <1>2, <3>7 DEF StartList
    <3>8. CASE ReadCut(j) \/ ReadNext(j) \/ ListEnds(j)
      BY <1>2, <3>8 DEF ReadCut, ReadNext, ListEnds
    <3>9. CASE Stop(j)
      BY <1>2, <3>9 DEF Stop
    <3> QED
      BY <1>2, <3>1, <3>2, <3>3, <3>4, <3>5, <3>6, <3>7, <3>8, <3>9 DEF Save, List
  <2> QED
    BY <1>2, <2>1 DEF StepIsBacked
<1> QED
  BY <1>1, <1>2, OneMoves

\* What one job's step does to the records that are whole and to those that
\* are announced.
LEMMA OneRecord ==
  ASSUME TypeOK, StepIsBacked, NEW j \in Jobs, Save(j) \/ List(j) \/ Stop(j)
  PROVE  \/ (assessment'[j] = "whole" <=> assessment[j] = "whole") /\ (j \in Announced' <=> j \in Announced)
         \/ assessment'[j] = "whole" /\ (j \in Announced' <=> j \in Announced)
         \/ assessment'[j] = "whole" /\ assessment[j] = "whole" /\ j \in Announced'
<1> USE DEF StepIsBacked, TypeOK, JobTypes, FileTypes, Move, Start, files, Saving, Commands, Announced
<1>1. CASE Submit(j) \/ Analyze(j) \/ Assess(j)
  BY <1>1 DEF Submit, Analyze, Assess
<1>2. CASE ReadChange(j) \/ RunPipeline(j) \/ OpenChange(j) \/ WriteChange(j)
  BY <1>2 DEF ReadChange, RunPipeline, OpenChange, WriteChange
<1>3. CASE OpenAssessment(j) \/ WriteAssessment(j)
  BY <1>3 DEF OpenAssessment, WriteAssessment
<1>4. CASE RecordEvent(j)
  BY <1>4 DEF RecordEvent
<1>5. CASE StartList(j) \/ ReadCut(j) \/ ReadNext(j) \/ ListEnds(j) \/ Stop(j)
  BY <1>5 DEF StartList, ReadCut, ReadNext, ListEnds, Stop
<1> QED
  BY <1>1, <1>2, <1>3, <1>4, <1>5 DEF Save, List

LEMMA DurableStep ==
  ASSUME TypeOK, StepIsBacked, [Next]_vars
  PROVE  [Promise!RecordNext]_(Promise!recordVars)
<1> DEFINE stored == {a \in Jobs : assessment[a] = "whole"}
<1>1. CASE UNCHANGED vars
  <2>1. UNCHANGED <<stored, Announced>>
    BY <1>1 DEF vars, files, Announced
  <2> QED
    BY <2>1 DEF Promise!recordVars
<1>2. ASSUME NEW j \in Jobs, Save(j) \/ List(j) \/ Stop(j),
             \A o \in Jobs \ {j} :
               /\ cmd'[o] = cmd[o] /\ pc'[o] = pc[o] /\ subject'[o] = subject[o]
               /\ assessment'[o] = assessment[o] /\ event'[o] = event[o]
      PROVE  [Promise!RecordNext]_(Promise!recordVars)
  <2>1. \A o \in Jobs \ {j} : (o \in stored' <=> o \in stored) /\ (o \in Announced' <=> o \in Announced)
    BY <1>2 DEF Announced
  <2>2. stored \subseteq Jobs /\ stored' \subseteq Jobs /\ Announced \subseteq Jobs /\ Announced' \subseteq Jobs
    BY DEF Announced
  <2>3. \/ (j \in stored' <=> j \in stored) /\ (j \in Announced' <=> j \in Announced)
        \/ j \in stored' /\ (j \in Announced' <=> j \in Announced)
        \/ j \in stored' /\ j \in stored /\ j \in Announced'
    BY <1>2, OneRecord
  <2> HIDE DEF stored
  <2>4. \/ UNCHANGED <<stored, Announced>>
        \/ stored' = stored \cup {j} /\ UNCHANGED Announced
        \/ j \in stored /\ Announced' = Announced \cup {j} /\ UNCHANGED stored
    <3>1. CASE (j \in stored' <=> j \in stored) /\ (j \in Announced' <=> j \in Announced)
      BY <2>1, <2>2, <3>1
    <3>2. CASE j \in stored' /\ (j \in Announced' <=> j \in Announced)
      BY <2>1, <2>2, <3>2
    <3>3. CASE j \in stored' /\ j \in stored /\ j \in Announced'
      BY <2>1, <2>2, <3>3
    <3> QED
      BY <2>3, <3>1, <3>2, <3>3
  <2> QED
    BY <2>4 DEF stored, Promise!RecordNext, Promise!Save, Promise!Announce, Promise!recordVars
<1> QED
  BY <1>1, <1>2, OneMoves

LEMMA BackedInit == Init => StepIsBacked
BY DEF Init, StepIsBacked, Commands, Saving

\* The store implements the abstract one: an assessment that an audit event or
\* an answer tells of is whole and stays so, for any number of jobs.
THEOREM AnnouncedAreDurable == Spec => AssessmentsDurable
<1>1. Init => Promise!RecordInit
  BY DEF Init, Promise!RecordInit, Announced
<1>2. Spec => []StepIsBacked
  <2>1. TypeOK /\ StepIsBacked /\ [Next]_vars => StepIsBacked'
    BY BackedStep
  <2> QED
    BY <2>1, BackedInit, StoreTypeCorrect, PTL DEF Spec
<1>3. TypeOK /\ StepIsBacked /\ [Next]_vars => [Promise!RecordNext]_(Promise!recordVars)
  BY DurableStep
<1> QED
  BY <1>1, <1>2, <1>3, StoreTypeCorrect, PTL DEF Spec, AssessmentsDurable, Promise!RecordSpec

-----------------------------------------------------------------------------
(***************************************************************************)
(* No assessment without its change.                                       *)
(***************************************************************************)

LEMMA CutStep ==
  ASSUME TypeOK, StepIsBacked, CutExplained, [Next]_vars
  PROVE  CutExplained'
<1> USE DEF CutExplained, TypeOK, JobTypes, FileTypes
<1>1. CASE UNCHANGED vars
  BY <1>1 DEF vars, files
<1>2. ASSUME NEW j \in Jobs, Save(j) \/ List(j) \/ Stop(j),
             \A o \in Jobs \ {j} :
               /\ cmd'[o] = cmd[o] /\ pc'[o] = pc[o] /\ subject'[o] = subject[o]
               /\ assessment'[o] = assessment[o] /\ event'[o] = event[o]
      PROVE  CutExplained'
  <2>1. CASE OpenChange(j)
    <3>1. pc[j] = "change" /\ subject[j] \in Jobs /\ assessment[j] = "absent" /\ event[j] = "none"
      BY <2>1 DEF OpenChange, Move, StepIsBacked, Saving, Commands
    <3> QED
      BY <2>1, <3>1 DEF OpenChange, Move
  <2>2. CASE WriteChange(j)
    BY <1>2, <2>2 DEF WriteChange, Move
  <2>3. CASE Stop(j)
    BY <2>3 DEF Stop, files
  <2>4. CASE /\ UNCHANGED <<change, opener>>
             /\ pc[j] \notin {"changing", "stopped"}
    BY <1>2, <2>4
  <2>5. OpenChange(j) \/ WriteChange(j) \/ Stop(j) \/ (UNCHANGED <<change, opener>> /\ pc[j] \notin {"changing", "stopped"})
    BY <1>2 DEF Save, List, Submit, Analyze, Assess, ReadChange, RunPipeline, OpenAssessment, WriteAssessment,
                RecordEvent, StartList, ReadCut, ReadNext, ListEnds, Start, Move, files
  <2> QED
    BY <2>1, <2>2, <2>3, <2>4, <2>5
<1> QED
  BY <1>1, <1>2, OneMoves

LEMMA ChangeExistsStep ==
  ASSUME TypeOK, StepIsBacked, ChangeExists, [Next]_vars
  PROVE  ChangeExists'
<1> USE DEF TypeOK, JobTypes, FileTypes, File
<1>1. \A c \in Jobs : change[c] # "absent" => change'[c] # "absent"
  <2>1. ASSUME NEW j \in Jobs, OpenChange(j) \/ WriteChange(j)
        PROVE  \A c \in Jobs : change[c] # "absent" => change'[c] # "absent"
    BY <2>1 DEF OpenChange, WriteChange
  <2> QED
    BY <2>1, FileSteps DEF files, OpenAssessment, WriteAssessment
<1>2. CASE UNCHANGED vars
  BY <1>2 DEF ChangeExists, vars, files
<1>3. ASSUME NEW j \in Jobs, Save(j) \/ List(j) \/ Stop(j),
             \A o \in Jobs \ {j} :
               /\ cmd'[o] = cmd[o] /\ pc'[o] = pc[o] /\ subject'[o] = subject[o]
               /\ assessment'[o] = assessment[o] /\ event'[o] = event[o]
      PROVE  ChangeExists'
  <2>1. ASSUME NEW o \in Jobs \ {j} PROVE ChangeExists!(o)'
    <3>1. cmd[o] \in {"submit", "assess", "analyze"} => subject[o] \in Jobs
      BY DEF StepIsBacked, Commands
    <3>2. assessment[o] # "absent" => subject[o] \in Jobs
      BY DEF StepIsBacked, Commands
    <3> QED
      BY <1>1, <1>3, <2>1, <3>1, <3>2 DEF ChangeExists
  <2>2. ChangeExists!(j)'
    <3> USE DEF ChangeExists, StepIsBacked, Move, Start, files, Saving, Commands, Ended
    <3>1. CASE Submit(j) \/ Analyze(j) \/ Assess(j) \/ StartList(j)
      BY <3>1 DEF Submit, Analyze, Assess, StartList
    <3>2. CASE ReadChange(j) \/ RunPipeline(j)
      BY <3>2 DEF ReadChange, RunPipeline
    <3>3. CASE OpenChange(j)
      BY <3>3 DEF OpenChange
    <3>4. CASE WriteChange(j)
      BY <1>1, <3>4 DEF WriteChange
    <3>5. CASE OpenAssessment(j) \/ WriteAssessment(j)
      BY <3>5 DEF OpenAssessment, WriteAssessment
    <3>6. CASE RecordEvent(j) \/ ReadCut(j) \/ ReadNext(j) \/ ListEnds(j) \/ Stop(j)
      BY <3>6 DEF RecordEvent, ReadCut, ReadNext, ListEnds, Stop
    <3> QED
      BY <1>3, <3>1, <3>2, <3>3, <3>4, <3>5, <3>6 DEF Save, List
  <2> QED
    BY <2>1, <2>2 DEF ChangeExists
<1> QED
  BY <1>2, <1>3, OneMoves

\* The file of a change is there before an assessment of it is, and a job that
\* cut it off is still writing it or stopped.
LEMMA ChangesBehindFollows ==
  ASSUME TypeOK, StepIsBacked, ChangeExists, CutExplained
  PROVE  ChangesBehind
<1> SUFFICES ASSUME NEW j \in Jobs,
                    assessment[j] # "absent" \/ (cmd[j] = "submit" /\ event[j] = "success")
             PROVE  ChangesBehind!(j)!2
  BY DEF ChangesBehind
<1>1. subject[j] \in Jobs
  BY DEF StepIsBacked, Commands
<1>2. change[subject[j]] # "absent"
  BY DEF ChangeExists
<1> QED
  BY <1>1, <1>2 DEF CutExplained, TypeOK, FileTypes, File

-----------------------------------------------------------------------------
(***************************************************************************)
(* A listing that answers has the newest assessments.                      *)
(***************************************************************************)

\* Files only become newer, and what was announced is not modified again.
LEMMA AnnouncedAreKept ==
  ASSUME TypeOK, StepIsBacked, [Next]_vars
  PROVE  /\ \A b \in Jobs : modified'[b] >= modified[b]
         /\ \A a \in Announced :
              a \in Announced' /\ subject'[a] = subject[a] /\ modified'[a] = modified[a] /\ modified[a] # 0
<1> USE DEF TypeOK, JobTypes, FileTypes
<1>1. ASSUME NEW j \in Jobs, OpenAssessment(j) \/ WriteAssessment(j)
      PROVE  /\ \A b \in Jobs : modified'[b] >= modified[b]
             /\ j \notin Announced
             /\ \A b \in Jobs \ {j} : modified'[b] = modified[b]
  <2>1. now' >= now /\ now' \in Nat /\ modified' = [modified EXCEPT ![j] = now']
    BY <1>1 DEF OpenAssessment, WriteAssessment, Touch
  <2>2. event[j] = "none"
    BY <1>1 DEF OpenAssessment, WriteAssessment, Move, StepIsBacked
  <2> QED
    BY <2>1, <2>2 DEF Dated, Announced
<1>2. /\ \A b \in Jobs : modified'[b] >= modified[b]
      /\ \A a \in Announced : modified'[a] = modified[a]
  <2>1. CASE UNCHANGED modified
    BY <2>1 DEF Announced
  <2>2. ASSUME NEW j \in Jobs, OpenAssessment(j) \/ WriteAssessment(j)
        PROVE  <1>2
    BY <1>1, <2>2 DEF Announced
  <2> QED
    BY <2>1, <2>2, FileSteps DEF files, OpenChange, WriteChange
<1>3. \A a \in Announced : modified[a] # 0
  BY DEF Announced, StepIsBacked, Dated
<1>4. ASSUME NEW a \in Announced PROVE a \in Announced' /\ subject'[a] = subject[a]
  <2>1. a \in Jobs /\ pc[a] \in {"done", "failed"}
    BY DEF Announced, StepIsBacked
  <2>2. UNCHANGED <<cmd[a], subject[a], event[a]>>
    <3>1. ASSUME NEW j \in Jobs, j = a, Save(j) \/ List(j) \/ Stop(j) PROVE FALSE
      BY <2>1, <3>1 DEF Save, List, Stop, Submit, Analyze, Assess, ReadChange, RunPipeline, OpenChange, WriteChange,
           OpenAssessment, WriteAssessment, RecordEvent, StartList, ReadCut, ReadNext, ListEnds, Start, Move, Ended
    <3> QED
      BY <2>1, <3>1, OneMoves DEF vars
  <2> QED
    BY <2>1, <2>2 DEF Announced
<1> QED
  BY <1>2, <1>3, <1>4

\* A listing that does not move, or that ends with nothing left, keeps what it
\* has and has the newest.
LEMMA OtherListing ==
  ASSUME TypeOK, StepIsBacked, ListsAhead, ListsTheNewest, [Next]_vars, NEW j \in Jobs,
         UNCHANGED <<limit[j], todo[j], results[j], expected[j]>>,
         cmd[j] = "list" => UNCHANGED <<cmd[j], subject[j]>>,
         pc'[j] = "list" => pc[j] = "list",
         cmd'[j] = "list" /\ pc'[j] = "done" => cmd[j] = "list" /\ (pc[j] = "done" \/ (pc[j] = "list" /\ Left(j) = {}))
  PROVE  ListsAhead!(j)' /\ ListsTheNewest!(j)'
<1> USE DEF TypeOK, FileTypes, ListTypes
<1>1. \A a \in Jobs : todo'[j][a] <= modified'[a]
  <2> SUFFICES ASSUME NEW a \in Jobs PROVE todo'[j][a] <= modified'[a]
    OBVIOUS
  <2>1. todo[j][a] <= modified[a]
    BY DEF ListsAhead
  <2>2. todo'[j][a] = todo[j][a] /\ todo[j][a] \in Nat /\ modified[a] \in Nat
    OBVIOUS
  <2>3. modified'[a] >= modified[a] /\ modified'[a] \in Nat
    BY AnnouncedAreKept, TypesStep
  <2> QED
    BY <2>1, <2>2, <2>3
<1>2. results'[j] # <<>> \/ expected'[j] # {} => cmd'[j] = "list"
  BY DEF ListsAhead
<1>3. ASSUME NEW a \in expected[j]
      PROVE  /\ a \in Announced' /\ IsAbout(a, subject[j])'
             /\ Found(j, a) => Found(j, a)'
             /\ NoneOlder(j, a) => NoneOlder(j, a)'
             /\ Ahead(j, a) => Ahead(j, a)'
  <2>1. a \in Announced /\ IsAbout(a, subject[j]) /\ cmd[j] = "list"
    BY DEF ListsAhead
  <2>2. a \in Announced' /\ subject'[a] = subject[a] /\ modified'[a] = modified[a]
    BY <2>1, AnnouncedAreKept
  <2>3. IsAbout(a, subject[j])'
    BY <2>1, <2>2 DEF IsAbout
  <2>4. NoneOlder(j, a) => NoneOlder(j, a)'
    <3> SUFFICES ASSUME NoneOlder(j, a), NEW i \in 1..Len(results[j])
                 PROVE  modified'[results[j][i]] >= modified[a]
      BY <2>2 DEF NoneOlder
    <3>1. results[j][i] \in Jobs /\ a \in Jobs
      BY <2>1 DEF Announced
    <3>2. modified[results[j][i]] >= modified[a]
      BY DEF NoneOlder
    <3>3. modified'[results[j][i]] >= modified[results[j][i]] /\ modified'[results[j][i]] \in Nat
      BY <3>1, AnnouncedAreKept, TypesStep
    <3>4. modified[results[j][i]] \in Nat /\ modified[a] \in Nat
      BY <3>1
    <3> HIDE DEF TypeOK, FileTypes, ListTypes
    <3> QED
      BY <3>2, <3>3, <3>4
  <2>5. Found(j, a) => Found(j, a)'
    BY DEF Found
  <2> QED
    BY <2>2, <2>3, <2>4, <2>5 DEF Ahead
<1>4. pc'[j] = "list" => \A a \in expected'[j] : (Found(j, a) \/ Ahead(j, a))'
  BY <1>3 DEF ListsAhead
<1>5. ListsTheNewest!(j)'
  <2> SUFFICES ASSUME cmd'[j] = "list", pc'[j] = "done", NEW a \in expected[j]
               PROVE  (Found(j, a) \/ (Len(results[j]) >= limit[j] /\ NoneOlder(j, a)))'
    OBVIOUS
  <2>1. CASE pc[j] = "done"
    BY <1>3, <2>1 DEF ListsTheNewest
  <2>2. CASE pc[j] = "list" /\ Left(j) = {}
    <3>1. a \in Announced /\ (Found(j, a) \/ Ahead(j, a))
      BY <2>2 DEF ListsAhead
    <3>2. a \in Jobs /\ todo[j][a] = 0 /\ modified[a] # 0
      BY <2>2, <3>1, AnnouncedAreKept DEF Left, Announced
    <3> QED
      BY <1>3, <3>1, <3>2 DEF Ahead
  <2> QED
    BY <2>1, <2>2
<1> QED
  BY <1>1, <1>2, <1>3, <1>4, <1>5

\* A listing that begins has everything before it.
LEMMA StartedListing ==
  ASSUME TypeOK, StepIsBacked, ListsAhead, NEW j \in Jobs, StartList(j)
  PROVE  ListsAhead!(j)' /\ ListsTheNewest!(j)'
<1>1. /\ cmd'[j] = "list" /\ pc'[j] = "list" /\ cmd[j] = "none"
      /\ todo'[j] = modified /\ modified' = modified /\ results' = results
      /\ expected'[j] = {a \in Announced : IsAbout(a, subject'[j])}
  BY DEF StartList, Start, Move, files, TypeOK, JobTypes, ListTypes, StepIsBacked
<1>2. results'[j] = <<>>
  BY <1>1 DEF ListsAhead
<1>3. ASSUME NEW a \in Announced, IsAbout(a, subject'[j]) PROVE a \in Announced' /\ IsAbout(a, subject[j])'
  <2>1. a \in Jobs /\ a # j
    BY <1>1 DEF Announced
  <2>2. subject'[a] = subject[a] /\ cmd'[a] = cmd[a] /\ event'[a] = event[a]
    BY <2>1 DEF StartList, Start, TypeOK, JobTypes
  <2> QED
    BY <1>3, <2>1, <2>2 DEF Announced, IsAbout
<1>4. \A a \in expected'[j] : Ahead(j, a)'
  BY <1>1, <1>2 DEF Ahead, NoneOlder
<1>5. \A a \in Jobs : todo'[j][a] <= modified'[a]
  BY <1>1 DEF TypeOK, FileTypes
<1> QED
  BY <1>1, <1>3, <1>4, <1>5

\* An appended element is the last, and the others keep their places.
LEMMA Appended ==
  ASSUME NEW S, NEW s \in Seq(S), NEW e \in S
  PROVE  /\ Len(Append(s, e)) = Len(s) + 1 /\ Len(s) \in Nat
         /\ \A i \in 1..Len(s) : i \in 1..Len(Append(s, e)) /\ Append(s, e)[i] = s[i]
         /\ Append(s, e)[Len(s) + 1] = e
         /\ \A i \in 1..Len(Append(s, e)) : i \in 1..Len(s) \/ i = Len(s) + 1
OBVIOUS

\* A listing reads the newest file that it has not read.
LEMMA ReadingListing ==
  ASSUME TypeOK, StepIsBacked, ListsAhead, NEW j \in Jobs, ReadNext(j)
  PROVE  ListsAhead!(j)' /\ ListsTheNewest!(j)'
<1> USE DEF TypeOK, FileTypes, ListTypes
<1>1. PICK b \in Newest(j) :
        /\ todo' = [todo EXCEPT ![j][b] = 0]
        /\ IF IsAbout(b, subject[j])
           THEN /\ results' = [results EXCEPT ![j] = Append(@, b)]
                /\ pc'[j] = IF Len(results[j]) + 1 >= limit[j] THEN "done" ELSE "list"
           ELSE pc'[j] = "list" /\ UNCHANGED results
  BY DEF ReadNext, Move, JobTypes
<1>2. /\ b \in Jobs /\ todo[j][b] # 0 /\ \A a \in Left(j) : todo[j][b] >= todo[j][a]
      /\ pc[j] = "list" /\ cmd[j] = "list" /\ UNCHANGED <<cmd, subject, modified, limit, expected, event>>
  BY DEF Newest, Left, ReadNext, Move, StepIsBacked, files
<1>3. todo'[j] = [todo[j] EXCEPT ![b] = 0]
  BY <1>1
<1>4. /\ \A a \in Jobs : todo[j][a] <= modified[a] /\ todo[j][a] \in Nat /\ modified[a] \in Nat
      /\ \A a \in expected[j] : a \in Announced /\ IsAbout(a, subject[j]) /\ (Found(j, a) \/ Ahead(j, a))
  BY <1>2 DEF ListsAhead
<1>5. \A a \in Jobs : todo'[j][a] <= modified'[a]
  BY <1>2, <1>3, <1>4
<1>6. \A a \in expected'[j] : a \in Announced' /\ IsAbout(a, subject[j])'
  BY <1>2, <1>4 DEF Announced, IsAbout
<1>7. /\ Len(results[j]) \in Nat
      /\ \A i \in 1..Len(results[j]) : i \in 1..Len(results'[j]) /\ results'[j][i] = results[j][i]
      /\ \A i \in 1..Len(results'[j]) : i \in 1..Len(results[j]) \/ results'[j][i] = b
      /\ IsAbout(b, subject[j]) =>
           Len(results'[j]) = Len(results[j]) + 1 /\ results'[j][Len(results[j]) + 1] = b
  <2>1. results[j] \in Seq(Jobs)
    OBVIOUS
  <2>2. CASE ~IsAbout(b, subject[j])
    <3>1. results'[j] = results[j]
      BY <1>1, <2>2
    <3> QED
      BY <2>1, <2>2, <3>1
  <2>3. CASE IsAbout(b, subject[j])
    <3>1. results'[j] = Append(results[j], b)
      BY <1>1, <2>3
    <3> QED
      BY <2>1, <2>3, <3>1, <1>2, Appended
  <2> QED
    BY <2>2, <2>3
<1>8. ASSUME NEW a \in expected[j] PROVE (Found(j, a) \/ Ahead(j, a))'
  <2>1. a \in Jobs /\ a \in Announced /\ IsAbout(a, subject[j])
    BY <1>4 DEF Announced
  <2>2. results[j] \in Seq(Jobs)
    OBVIOUS
  <2>3. CASE Found(j, a)
    <3>1. PICK i \in 1..Len(results[j]) : results[j][i] = a
      BY <2>3 DEF Found
    <3>2. i \in 1..Len(results'[j]) /\ results'[j][i] = a
      BY <1>7, <3>1
    <3> QED
      BY <3>2 DEF Found
  <2>4. CASE a = b
    <3>1. Len(results[j]) + 1 \in 1..Len(results'[j]) /\ results'[j][Len(results[j]) + 1] = a
      BY <1>7, <2>1, <2>2, <2>4
    <3> QED
      BY <3>1 DEF Found
  <2>5. CASE Ahead(j, a) /\ a # b
    <3>1. todo'[j][a] = modified'[a]
      BY <1>2, <1>3, <2>1, <2>5 DEF Ahead
    <3>2. modified[b] >= modified[a]
      <4>1. a \in Left(j)
        BY <2>1, <2>5 DEF Ahead, Left, Announced, StepIsBacked, Dated
      <4>2. todo[j][b] >= todo[j][a] /\ todo[j][a] = modified[a] /\ todo[j][b] <= modified[b]
        BY <1>2, <1>4, <2>5, <4>1 DEF Ahead
      <4> QED
        BY <1>2, <1>4, <2>1, <4>2
    <3>3. NoneOlder(j, a)'
      <4>1. \A i \in 1..Len(results[j]) : modified[results[j][i]] >= modified[a]
        BY <2>5 DEF Ahead, NoneOlder
      <4>2. \A i \in 1..Len(results'[j]) : modified[results'[j][i]] >= modified[a]
        BY <1>7, <3>2, <4>1
      <4> QED
        BY <1>2, <4>2 DEF NoneOlder
    <3> QED
      BY <3>1, <3>3 DEF Ahead
  <2> QED
    BY <1>4, <2>3, <2>4, <2>5
<1>9. pc'[j] = "done" => Len(results'[j]) >= limit'[j]
  <2>1. results[j] \in Seq(Jobs) /\ limit[j] \in Nat
    OBVIOUS
  <2> QED
    BY <1>1, <1>2, <2>1
<1> QED
  BY <1>2, <1>5, <1>6, <1>8, <1>9 DEF Ahead

LEMMA ListsStep ==
  ASSUME TypeOK, StepIsBacked, ListsAhead, ListsTheNewest, [Next]_vars
  PROVE  ListsAhead' /\ ListsTheNewest'
<1> SUFFICES ASSUME NEW j \in Jobs PROVE ListsAhead!(j)' /\ ListsTheNewest!(j)'
  BY DEF ListsAhead, ListsTheNewest
<1>1. CASE StartList(j)
  BY <1>1, StartedListing
<1>2. CASE ReadNext(j)
  BY <1>2, ReadingListing
<1>3. CASE ~StartList(j) /\ ~ReadNext(j)
  <2> USE DEF TypeOK, JobTypes, ListTypes
  <2>1. UNCHANGED <<limit[j], todo[j], results[j], expected[j]>>
    <3>1. CASE UNCHANGED listing
      BY <3>1 DEF listing
    <3>2. ASSUME NEW o \in Jobs, StartList(o) \/ ReadNext(o) 
          PROVE  UNCHANGED <<limit[j], todo[j], results[j], expected[j]>>
      <4>1. o # j
        BY <1>3, <3>2
      <4>2. CASE StartList(o)
        BY <4>1, <4>2 DEF StartList
      <4>3. CASE ReadNext(o)
        BY <4>1, <4>3 DEF ReadNext
      <4> QED
        BY <3>2, <4>2, <4>3
    <3> QED
      BY <3>1, <3>2 DEF Next, vars, Save, List, Stop, Submit, Analyze, Assess, ReadChange, RunPipeline,
           OpenChange, WriteChange, OpenAssessment, WriteAssessment, RecordEvent, ReadCut, ListEnds
  <2>2. /\ cmd[j] = "list" => UNCHANGED <<cmd[j], subject[j]>>
        /\ pc'[j] = "list" => pc[j] = "list"
        /\ cmd'[j] = "list" /\ pc'[j] = "done" =>
             cmd[j] = "list" /\ (pc[j] = "done" \/ (pc[j] = "list" /\ Left(j) = {}))
    <3>1. CASE UNCHANGED <<cmd[j], pc[j], subject[j]>>
      BY <3>1
    <3>2. CASE Save(j)
      <4> USE DEF Move, Start, StepIsBacked, Commands, Saving
      <4>1. CASE Submit(j) \/ Analyze(j) \/ Assess(j)
        BY <4>1 DEF Submit, Analyze, Assess
      <4>2. CASE ReadChange(j) \/ RunPipeline(j) \/ OpenChange(j) \/ WriteChange(j)
        BY <4>2 DEF ReadChange, RunPipeline, OpenChange, WriteChange
      <4>3. CASE OpenAssessment(j) \/ WriteAssessment(j) \/ RecordEvent(j)
        BY <4>3 DEF OpenAssessment, WriteAssessment, RecordEvent
      <4> QED
        BY <3>2, <4>1, <4>2, <4>3 DEF Save
    <3>3. CASE ReadCut(j) \/ ListEnds(j) \/ Stop(j)
      BY <3>3 DEF ReadCut, ListEnds, Stop, Move, StepIsBacked
    <3> QED
      BY <1>3, <3>1, <3>2, <3>3, OneMoves DEF List, vars
  <2> QED
    BY <2>1, <2>2, OtherListing
<1> QED
  BY <1>1, <1>2, <1>3

-----------------------------------------------------------------------------
(***************************************************************************)
(* The invariant, and what follows from it.                                *)
(***************************************************************************)

\* Every step keeps StoreInv, whatever jobs write, list, stop or race with
\* each other.
THEOREM StoreInvariant == Spec => []StoreInv
<1>1. Init => StoreInv
  <2> SUFFICES ASSUME Init PROVE StoreInv
    OBVIOUS
  <2>1. TypeOK
    BY DEF Init, TypeOK, JobTypes, FileTypes, ListTypes, Dated, File, Commands, Steps, Ended
  <2>2. ChangeExists /\ CutExplained /\ ListsTheNewest
    BY DEF Init, ChangeExists, CutExplained, ListsTheNewest, Saving
  <2>3. ListsAhead
    <3>1. ASSUME NEW j \in Jobs
          PROVE  results[j] = <<>> /\ expected[j] = {} /\ pc[j] = "idle" /\ \A a \in Jobs : todo[j][a] = 0 /\ modified[a] = 0
      BY DEF Init
    <3>2. ASSUME NEW j \in Jobs, NEW a \in Jobs PROVE todo[j][a] <= modified[a]
      BY <3>1
    <3> HIDE DEF Init
    <3> QED
      BY <3>1, <3>2 DEF ListsAhead
  <2> QED
    BY <2>1, <2>2, <2>3, BackedInit DEF StoreInv
<1>2. StoreInv /\ [Next]_vars => StoreInv'
  BY TypesStep, BackedStep, ChangeExistsStep, CutStep, ListsStep DEF StoreInv
<1> QED
  BY <1>1, <1>2, PTL DEF Spec

\* No assessment without its change, except where the job that truncated the
\* change last has stopped or is still writing.
THEOREM ChangesStayBehind == Spec => []ChangesBehind
<1>1. StoreInv => ChangesBehind
  BY ChangesBehindFollows DEF StoreInv
<1> QED
  BY <1>1, StoreInvariant, PTL

\* A listing that answers leaves out no announced assessment in favour of an
\* older one, for any limit.
THEOREM ListingsAreNewest == Spec => []ListsTheNewest
<1>1. StoreInv => ListsTheNewest
  BY DEF StoreInv
<1> QED
  BY <1>1, StoreInvariant, PTL

=============================================================================
