--------------------------- MODULE AuditLogProofs ---------------------------
(***************************************************************************)
(* Theorems about AuditLog: for every number of retention jobs and rows,   *)
(* what is destroyed stays accounted for, a loop that stops at zero has    *)
(* nothing left to delete, and a listing reads every row once, in order.   *)
(***************************************************************************)
EXTENDS AuditLog, FiniteSetTheorems, TLAPS

-----------------------------------------------------------------------------
(* The inductive invariant *)

Stages == {"idle", "sleeping", "inside", "ended", "failed"}

\* Every job and the reader are records of their fields.
JobsOK ==
    /\ DOMAIN job = Jobs
    /\ \A j \in Jobs :
          job[j] = [stage |-> job[j].stage, began |-> job[j].began, batch |-> job[j].batch,
                    answer |-> job[j].answer, older |-> job[j].older,
                    elsewhere |-> job[j].elsewhere]

ReaderOK ==
    reader = [stage |-> reader.stage, ask |-> reader.ask, after |-> reader.after,
              got |-> reader.got, there |-> reader.there]

\* What a batch has locked is of its job's filter, still there, and nobody
\* else's.  An empty batch found nothing but what others had locked.
Locks(j) ==
    /\ job[j].began \in Nat /\ job[j].batch \subseteq log
    /\ \A row \in job[j].batch : /\ ~IsRecord(row) /\ row.at < Options[j].before
                                 /\ Options[j].tenant \in {None, row.tenant}
    /\ \A k \in Inside \ {j} : job[j].batch \cap job[k].batch = {}
    /\ job[j].batch = {} => job[j].older \subseteq job[j].elsewhere

LocksHeld == \A j \in Inside : Locks(j)

\* There are finitely many rows, and writers stay within their bound.
Counted ==
    /\ IsFiniteSet(log) /\ IsFiniteSet(writing)
    /\ written \in Nat /\ written + Cardinality(writing) <= MaxWrites

IInv == TypeOK /\ JobsOK /\ ReaderOK /\ LocksHeld /\ Counted /\ ZeroIsFinal

\* It holds of every cast.
LEMMA InitIInv == Init => IInv
<1> SUFFICES ASSUME Init PROVE IInv
  OBVIOUS
<1> USE AuditBounds, NullIsNoRecord, CastsAreTyped
<1>1. PICK cast \in Casts :
          /\ log = cast.log
          /\ job = [j \in Jobs |-> IF j \in cast.jobs THEN NoJob ELSE [NoJob EXCEPT !.stage = "ended"]]
          /\ reader = IF cast.reads THEN NoReader ELSE [NoReader EXCEPT !.stage = "done"]
  BY DEF Init
<1>2. writing = {} /\ written = 0 /\ now = FirstTime /\ faults = 0
  BY DEF Init
<1>3. JobsOK /\ ReaderOK /\ Inside = {}
  BY <1>1 DEF JobsOK, ReaderOK, NoJob, NoReader, Inside
<1>4. TypeOK
  BY <1>1, <1>2 DEF TypeOK, NoJob, NoReader
<1>5. LocksHeld
  BY <1>3 DEF LocksHeld
<1>6. Counted
  BY <1>1, <1>2, FS_EmptySet DEF Counted
<1>7. ZeroIsFinal
  BY <1>1 DEF ZeroIsFinal, NoJob
<1> QED BY <1>3, <1>4, <1>5, <1>6, <1>7 DEF IInv

-----------------------------------------------------------------------------
(* Steps that leave the jobs alone *)

\* Locks do not depend on more than the log, the jobs and their options.
LEMMA LocksKept ==
    ASSUME LocksHeld, UNCHANGED job, log \subseteq log'
    PROVE  LocksHeld'
BY DEF LocksHeld, Locks, Inside, IsRecord

\* Time and the reader disturb neither rows nor jobs.
LEMMA QuietStep ==
    ASSUME IInv, Tick \/ Open \/ Page
    PROVE  IInv'
<1>1. UNCHANGED <<log, writing, job, written, faults>>
  BY DEF Tick, Open, Page
<1>2. now' \in 0 .. MaxTime /\ reader'.stage \in {"idle", "reading", "refused", "done"} /\ ReaderOK'
  <2> USE DEF IInv, TypeOK, ReaderOK
  <2>1. CASE Tick
    BY <2>1, AuditBounds DEF Tick
  <2>2. CASE Open
    <3>1. PICK ask \in Listings :
              reader' = [reader EXCEPT !.stage = "reading", !.ask = ask, !.after = ask.after,
                                       !.there = Listed(ask, log)]
      BY <2>2 DEF Open
    <3>2. PICK there : there = Listed(ask, log)
      OBVIOUS
    <3>3. reader' = [stage |-> "reading", ask |-> ask, after |-> ask.after, got |-> reader.got, there |-> there]
      BY <3>1, <3>2
    <3> QED BY <2>2, <3>3 DEF Open
  <2>3. CASE Page
    <3>1. now' = now /\ \/ reader' = [reader EXCEPT !.stage = "refused"]
                        \/ \E st \in {"reading", "done"} : \E more, after :
                              reader' = [reader EXCEPT !.stage = st, !.got = @ \o more, !.after = after]
      BY <2>3, Zenon DEF Page
    <3>2. CASE reader' = [reader EXCEPT !.stage = "refused"]
      BY <3>1, <3>2
    <3>3. ASSUME NEW st \in {"reading", "done"}, NEW more, NEW after,
                 reader' = [reader EXCEPT !.stage = st, !.got = @ \o more, !.after = after]
          PROVE  reader'.stage = st /\ ReaderOK'
      <4>1. PICK got : got = reader.got \o more
        OBVIOUS
      <4>2. reader' = [stage |-> st, ask |-> reader.ask, after |-> after, got |-> got, there |-> reader.there]
        BY <3>3, <4>1
      <4> QED BY <4>2
    <3> QED BY <3>1, <3>2, <3>3
  <2> QED BY <2>1, <2>2, <2>3
<1>3. TypeOK'
  BY <1>1, <1>2 DEF IInv, TypeOK
<1>4. JobsOK' /\ Counted' /\ ZeroIsFinal'
  BY <1>1 DEF IInv, JobsOK, Counted, ZeroIsFinal
<1>5. LocksHeld'
  BY <1>1, LocksKept DEF IInv
<1> QED BY <1>2, <1>3, <1>4, <1>5 DEF IInv

\* A row inserted is new, and not yet in the log.
LEMMA InsertStep ==
    ASSUME IInv, Insert
    PROVE  IInv'
<1>1. PICK id \in FreshIds, t \in Tenants \cup {None} : writing' = writing \cup {Row(id, now, t, None)}
  BY DEF Insert
<1> DEFINE row == Row(id, now, t, None)
<1>2. /\ UNCHANGED <<now, log, job, reader, written, faults>>
      /\ written + Cardinality(writing) < MaxWrites
  BY DEF Insert
<1>3. /\ row.id = id /\ row \in Rows
      /\ \A r \in log \cup writing : r.id # id
  <2>1. now \in Nat
    BY AuditBounds DEF IInv, TypeOK
  <2> QED BY <2>1 DEF Row, Rows, FreshIds
<1>4. row \notin log \cup writing
  BY <1>3
<1> HIDE DEF row
<1>5. TypeOK'
  <2>1. writing' = writing \cup {row}
    BY <1>1 DEF row
  <2>2. \A r, s \in log' \cup writing' : r.id = s.id => r = s
    BY <1>2, <1>3, <2>1 DEF IInv, TypeOK
  <2>3. log' \cap writing' = {}
    BY <1>2, <1>4, <2>1 DEF IInv, TypeOK
  <2>4. log' \cup writing' \subseteq Rows
    BY <1>2, <1>3, <2>1 DEF IInv, TypeOK
  <2> QED BY <1>2, <2>2, <2>3, <2>4 DEF IInv, TypeOK
<1>6. Counted'
  <2>1. /\ IsFiniteSet(writing \cup {row})
        /\ Cardinality(writing \cup {row}) = Cardinality(writing) + 1
        /\ Cardinality(writing) \in Nat
    BY <1>4, FS_AddElement, FS_CardinalityType DEF IInv, Counted
  <2>2. writing' = writing \cup {row} /\ UNCHANGED <<log, written>>
    BY <1>1, <1>2 DEF row
  <2>3. IsFiniteSet(writing') /\ Cardinality(writing') = Cardinality(writing) + 1
    BY <2>1, <2>2
  <2> QED BY <1>2, <2>1, <2>2, <2>3, AuditBounds DEF IInv, Counted
<1>7. JobsOK' /\ ReaderOK' /\ ZeroIsFinal'
  BY <1>2 DEF IInv, JobsOK, ReaderOK, ZeroIsFinal
<1>8. LocksHeld'
  BY <1>2, LocksKept DEF IInv
<1> QED BY <1>5, <1>6, <1>7, <1>8 DEF IInv

\* A transaction that ends adds its row or drops it; no batch has locked it.
LEMMA EndWriteStep ==
    ASSUME IInv, NEW row \in writing, EndWrite(row)
    PROVE  IInv'
<1>1. /\ UNCHANGED <<now, job, reader, faults>>
      /\ writing' = writing \ {row}
      /\ \/ log' = log \cup {row} /\ written' = written + 1
         \/ UNCHANGED <<log, written>>
  BY DEF EndWrite
<1>2. /\ IsFiniteSet(writing \ {row}) /\ IsFiniteSet(log \cup {row})
      /\ Cardinality(writing \ {row}) = Cardinality(writing) - 1
      /\ Cardinality(writing) \in Nat /\ Cardinality(writing \ {row}) \in Nat
  BY FS_RemoveElement, FS_AddElement, FS_CardinalityType DEF IInv, Counted
<1>3. Counted'
  <2>1. Cardinality(writing') = Cardinality(writing) - 1 /\ IsFiniteSet(writing')
    BY <1>1, <1>2
  <2>2. IsFiniteSet(log')
    BY <1>1, <1>2 DEF IInv, Counted
  <2>3. written' \in Nat /\ written' + Cardinality(writing') <= MaxWrites
    BY <1>1, <1>2, <2>1, AuditBounds DEF IInv, Counted
  <2> QED BY <2>1, <2>2, <2>3 DEF Counted
<1>4. written' \in 0 .. MaxWrites
  BY <1>1, <1>2, AuditBounds DEF IInv, Counted
<1>5. TypeOK'
  BY <1>1, <1>4 DEF IInv, TypeOK
<1>6. JobsOK' /\ ReaderOK' /\ ZeroIsFinal'
  BY <1>1 DEF IInv, JobsOK, ReaderOK, ZeroIsFinal
<1>7. LocksHeld'
  BY <1>1, LocksKept DEF IInv
<1> QED BY <1>3, <1>5, <1>6, <1>7 DEF IInv

-----------------------------------------------------------------------------
(* Steps of a job *)

\* A job that is not inside a batch, or leaves one, disturbs nobody's locks.
LEMMA LocksLeft ==
    ASSUME LocksHeld, NEW j \in Jobs, NEW gone,
           \A k \in Jobs \ {j} : job'[k] = job[k], job'[j].stage # "inside",
           log \ gone \subseteq log', gone \cap log = {} \/ (j \in Inside /\ gone \subseteq job[j].batch)
    PROVE  LocksHeld'
<1> SUFFICES ASSUME NEW k \in Inside' PROVE Locks(k)'
  BY DEF LocksHeld
<1>1. k \in Inside /\ k # j /\ job'[k] = job[k] /\ Inside' \subseteq Inside
  BY DEF Inside
<1>2. \A i \in Inside' : job'[i] = job[i]
  BY DEF Inside
<1>3. job[k].batch \cap gone = {}
  BY <1>1 DEF LocksHeld, Locks
<1> QED BY <1>1, <1>2, <1>3 DEF LocksHeld, Locks, IsRecord

\* A job gets another row of its record.
LEMMA JobPut ==
    ASSUME JobsOK, NEW j \in Jobs, NEW row,
           row = [stage |-> row.stage, began |-> row.began, batch |-> row.batch,
                  answer |-> row.answer, older |-> row.older, elsewhere |-> row.elsewhere],
           job' = [job EXCEPT ![j] = row]
    PROVE  JobsOK' /\ job'[j] = row /\ \A k \in Jobs \ {j} : job'[k] = job[k]
BY DEF JobsOK

\* The smallest share of a finite set of rows is empty only if the set is.
LEMMA OldestNonempty ==
    ASSUME NEW rows, IsFiniteSet(rows), NEW limit \in Nat \ {0}, NEW b \in Oldest(rows, limit), b = {}
    PROVE  rows = {}
<1>1. Cardinality(b) = 0
  BY FS_EmptySet
<1>2. Cardinality(rows) \in Nat
  BY FS_CardinalityType
<1>3. Cardinality(rows) = 0
  BY <1>1, <1>2 DEF Oldest
<1> QED BY <1>3, FS_EmptySet

\* Null is no answer.
LEMMA NullIsNoAnswer == \A d \in Nat, l \in BOOLEAN : None # Answer(d, l)
<1>1. \A d \in Nat, l \in BOOLEAN : Answer(d, l) \in [deleted : Nat, lock : BOOLEAN]
  BY DEF Answer
<1> QED BY <1>1, NullIsNoRecord

\* The loop stops when it is locked out and when it is told of no more rows.
LEMMA StopAt ==
    /\ Stop(Answer(0, FALSE)) = "ended"
    /\ \A d \in Nat : Stop(Answer(d, TRUE)) = IF d = 0 THEN "ended" ELSE "sleeping"
BY DEF Stop, Answer

\* A job's answer is its own.
LEMMA ZeroKept ==
    ASSUME ZeroIsFinal, NEW j \in Jobs, \A k \in Jobs \ {j} : job'[k] = job[k],
           job'[j].answer = Answer(0, TRUE) => job'[j].older \subseteq job'[j].elsewhere
    PROVE  ZeroIsFinal'
BY DEF ZeroIsFinal, Answer

\* A batch that begins locks rows nobody else has locked; an empty one, only
\* if there were none.
LEMMA BatchStep ==
    ASSUME IInv, NEW j \in Jobs, Batch(j)
    PROVE  IInv'
<1>1. UNCHANGED <<now, log, writing, reader, written, faults>> /\ job[j].stage # "inside"
  BY DEF Batch
<1>2. CASE job' = [job EXCEPT ![j] = [NoJob EXCEPT !.stage = Stop(Answer(0, FALSE)), !.answer = Answer(0, FALSE)]]
  <2> DEFINE row == [NoJob EXCEPT !.stage = Stop(Answer(0, FALSE)), !.answer = Answer(0, FALSE)]
  <2>1. row = [stage |-> "ended", began |-> 0, batch |-> {}, answer |-> Answer(0, FALSE),
               older |-> {}, elsewhere |-> {}]
    <3>1. PICK answer : answer = Answer(0, FALSE)
      OBVIOUS
    <3>2. PICK r : r = [NoJob EXCEPT !.stage = "ended", !.answer = answer]
      OBVIOUS
    <3>3. r = [stage |-> "ended", began |-> 0, batch |-> {}, answer |-> answer,
               older |-> {}, elsewhere |-> {}]
      BY <3>2 DEF NoJob
    <3>4. row = r
      BY <3>1, <3>2, StopAt
    <3> QED BY <3>1, <3>3, <3>4
  <2> HIDE DEF row
  <2>2. JobsOK' /\ job'[j] = row /\ \A k \in Jobs \ {j} : job'[k] = job[k]
    BY <1>2, <2>1, JobPut DEF IInv, row
  <2>3. LocksHeld'
    BY <1>1, <2>1, <2>2, LocksLeft DEF IInv
  <2>4. TypeOK' /\ ReaderOK' /\ Counted'
    BY <1>1, <2>1, <2>2 DEF IInv, TypeOK, ReaderOK, Counted
  <2>5. ZeroIsFinal'
    <3>1. Answer(0, FALSE) # Answer(0, TRUE)
      BY DEF Answer
    <3>2. job'[j].answer = Answer(0, FALSE)
      BY <2>1, <2>2
    <3> QED BY <2>2, <3>1, <3>2, ZeroKept DEF IInv
  <2> QED BY <2>2, <2>3, <2>4, <2>5 DEF IInv
<1>3. ASSUME LockFree(j), NEW b \in Oldest(Unlocked(Doomed(j)), BatchLimit(j)), NEW row,
             row = [NoJob EXCEPT !.stage = "inside", !.began = now, !.batch = b, !.older = Doomed(j),
                                 !.elsewhere = UNION {job[k].batch : k \in {i \in Inside : ~SameFilter(i, j)}}],
             job' = [job EXCEPT ![j] = row]
      PROVE  IInv'
  <2>1. /\ row = [stage |-> "inside", began |-> now, batch |-> b, answer |-> None,
                  older |-> Doomed(j), elsewhere |-> row.elsewhere]
        /\ row.elsewhere = UNION {job[k].batch : k \in {i \in Inside : ~SameFilter(i, j)}}
    BY <1>3 DEF NoJob
  <2>2. JobsOK' /\ job'[j] = row /\ \A k \in Jobs \ {j} : job'[k] = job[k]
    BY <1>3, <2>1, JobPut DEF IInv
  <2>3. row.elsewhere = UNION {job[k].batch : k \in Inside}
    BY <1>3, <2>1 DEF LockFree, SameFilter
  <2>4. Locks(j)'
    <3>1. now \in Nat
      BY AuditBounds DEF IInv, TypeOK
    <3>2. b \subseteq Doomed(j) /\ b \cap row.elsewhere = {}
      BY <2>3 DEF Oldest, Unlocked
    <3>3. b = {} => Doomed(j) \subseteq row.elsewhere
      <4>1. IsFiniteSet(Unlocked(Doomed(j)))
        BY FS_Subset DEF Unlocked, Doomed, IInv, Counted
      <4>2. BatchLimit(j) \in Nat \ {0}
        BY AuditBounds DEF BatchLimit
      <4>3. b = {} => Unlocked(Doomed(j)) = {}
        BY <4>1, <4>2, OldestNonempty
      <4> QED BY <2>3, <4>3 DEF Unlocked
    <3>4. \A k \in Inside' \ {j} : k \in Inside /\ job'[k].batch = job[k].batch
      BY <2>2 DEF Inside
    <3>5. \A k \in Inside' \ {j} : b \cap job'[k].batch = {}
      BY <2>3, <3>2, <3>4
    <3>6. /\ job'[j].batch = b /\ job'[j].older = Doomed(j) /\ job'[j].elsewhere = row.elsewhere
          /\ job'[j].began = now
      BY <2>1, <2>2
    <3> QED BY <1>1, <3>1, <3>2, <3>3, <3>5, <3>6 DEF Locks, Doomed, IsRecord
  <2>5. ASSUME NEW k \in Inside' \ {j} PROVE Locks(k)'
    <3>1. k \in Inside /\ job'[k] = job[k] /\ Inside' = Inside \cup {j}
      BY <2>1, <2>2, <2>5 DEF Inside
    <3>2. Locks(k)
      BY <3>1 DEF IInv, LocksHeld
    <3>3. \A i \in Inside \ {j} : job'[i] = job[i]
      BY <2>2 DEF Inside
    <3>4. job[k].batch \cap job'[j].batch = {}
      BY <2>1, <2>2, <2>3, <3>1 DEF Oldest, Unlocked
    <3> QED BY <1>1, <2>5, <3>1, <3>2, <3>3, <3>4 DEF Locks, IsRecord
  <2>6. TypeOK' /\ ReaderOK' /\ Counted'
    BY <1>1, <2>1, <2>2 DEF IInv, TypeOK, ReaderOK, Counted
  <2>7. ZeroIsFinal'
    <3>1. None # Answer(0, TRUE)
      BY NullIsNoAnswer
    <3>2. job'[j].answer = None
      BY <2>1, <2>2
    <3> QED BY <2>2, <3>1, <3>2, ZeroKept DEF IInv
  <2> QED BY <2>2, <2>4, <2>5, <2>6, <2>7 DEF IInv, LocksHeld
<1> QED BY <1>2, <1>3 DEF Batch

\* A loop that fails, or starts again, has no answer and no locks.
LEMMA AbortStep ==
    ASSUME IInv, NEW j \in Jobs, Abort(j) \/ Rerun(j)
    PROVE  IInv'
<1>1. PICK st \in {"idle", "failed"} : job' = [job EXCEPT ![j] = [NoJob EXCEPT !.stage = st]]
  BY DEF Abort, Rerun, NoJob
<1>2. /\ UNCHANGED <<now, log, writing, reader, written>>
      /\ faults' \in 0 .. MaxFaults
  BY AuditBounds DEF Abort, Rerun, IInv, TypeOK
<1>3. [NoJob EXCEPT !.stage = st] = [stage |-> st, began |-> 0, batch |-> {}, answer |-> None,
                                      older |-> {}, elsewhere |-> {}]
  BY DEF NoJob
<1>4. /\ JobsOK' /\ job'[j].stage = st /\ job'[j].answer = None
      /\ \A k \in Jobs \ {j} : job'[k] = job[k]
  <2>1. PICK row : row = [NoJob EXCEPT !.stage = st]
    OBVIOUS
  <2>2. row = [stage |-> st, began |-> 0, batch |-> {}, answer |-> None, older |-> {}, elsewhere |-> {}]
    BY <1>3, <2>1
  <2>3. JobsOK' /\ job'[j] = row /\ \A k \in Jobs \ {j} : job'[k] = job[k]
    BY <1>1, <2>1, <2>2, JobPut DEF IInv
  <2> QED BY <2>2, <2>3
<1>5. LocksHeld'
  <2>1. log \ {} \subseteq log' /\ {} \cap log = {} /\ job'[j].stage # "inside"
    BY <1>2, <1>4
  <2> QED BY <1>4, <2>1, LocksLeft DEF IInv
<1>6. TypeOK' /\ ReaderOK' /\ Counted'
  BY <1>2, <1>4 DEF IInv, TypeOK, ReaderOK, Counted
<1>7. ZeroIsFinal'
  BY <1>4, NullIsNoAnswer, ZeroKept DEF IInv
<1> QED BY <1>4, <1>5, <1>6, <1>7 DEF IInv

-----------------------------------------------------------------------------
(* The transaction of a batch ends *)

\* What a batch deletes is of its filter, and the record it leaves, if any,
\* is a new row of an id of its own.
LEMMA DeletedRecorded ==
    ASSUME IInv, NEW j \in Jobs, job[j].stage = "inside", Deleted(j) # {} => FreshIds # {}
    PROVE  /\ Deleted(j) = job[j].batch /\ IsFiniteSet(Deleted(j)) /\ Cardinality(Deleted(j)) \in Nat
           /\ \A row \in Deleted(j) : /\ ~IsRecord(row) /\ row.at < Options[j].before
                                      /\ Options[j].tenant \in {None, row.tenant}
           /\ Deleted(j) = {} => Records(j) = {}
           /\ Deleted(j) # {} =>
                 \E record : /\ Records(j) = {record} /\ IsRecord(record)
                             /\ record.prune.before = Options[j].before
                             /\ record.prune.count = Cardinality(Deleted(j))
                             /\ record.tenant = Options[j].tenant /\ record \in Rows
                             /\ \A row \in log \cup writing : row.id # record.id
<1>1. Locks(j)
  BY DEF IInv, LocksHeld, Inside
<1>2. Deleted(j) = job[j].batch /\ IsFiniteSet(Deleted(j)) /\ Cardinality(Deleted(j)) \in Nat
  BY <1>1, FS_Subset, FS_CardinalityType DEF Deleted, Locks, IInv, Counted
<1>3. ASSUME Deleted(j) # {}
      PROVE  \E record : /\ Records(j) = {record} /\ IsRecord(record)
                         /\ record.prune.before = Options[j].before
                         /\ record.prune.count = Cardinality(Deleted(j))
                         /\ record.tenant = Options[j].tenant /\ record \in Rows
                         /\ \A row \in log \cup writing : row.id # record.id
  <2>1. PICK id : id = CHOOSE x \in FreshIds : TRUE
    OBVIOUS
  <2>2. id \in FreshIds
    BY <1>3, <2>1
  <2>3. PICK said : said = [before |-> Options[j].before, count |-> Cardinality(Deleted(j))]
    OBVIOUS
  <2>4. said \in [before : Nat, count : Nat] /\ said # None
    BY <1>2, <2>3, AuditBounds, NullIsNoRecord
  <2>5. PICK record : record = Row(id, job[j].began, Options[j].tenant, said)
    OBVIOUS
  <2>6. Records(j) = {record}
    BY <1>3, <2>1, <2>3, <2>5 DEF Records
  <2>7. /\ record.id = id /\ record.tenant = Options[j].tenant /\ record.prune = said
        /\ record \in Rows
    BY <1>1, <2>2, <2>4, <2>5, AuditBounds DEF Row, Rows, Locks, FreshIds
  <2> QED BY <2>2, <2>3, <2>4, <2>6, <2>7 DEF IsRecord, FreshIds
<1>4. Deleted(j) = {} => Records(j) = {}
  BY DEF Records
<1> QED BY <1>1, <1>2, <1>3, <1>4 DEF Locks

\* A batch that commits takes its own locks with it, and ends its loop on zero
\* only if it had found nothing to lock.
LEMMA CommitStep ==
    ASSUME IInv, NEW j \in Jobs, Commit(j)
    PROVE  IInv'
<1> DEFINE d == Cardinality(Deleted(j))
<1>1. /\ job[j].stage = "inside" /\ (Deleted(j) # {} => FreshIds # {})
      /\ log' = (log \ Deleted(j)) \cup Records(j)
      /\ UNCHANGED <<now, writing, written>>
      /\ reader' = [reader EXCEPT !.there = @ \ Deleted(j)]
  BY DEF Commit
<1>2. d \in Nat /\ IsFiniteSet(Deleted(j)) /\ Deleted(j) = job[j].batch
  BY <1>1, DeletedRecorded
<1>3. PICK row :
          /\ job' = [job EXCEPT ![j] = row]
          /\ row = [stage |-> row.stage, began |-> row.began, batch |-> row.batch,
                    answer |-> row.answer, older |-> row.older, elsewhere |-> row.elsewhere]
          /\ row.stage \in {"sleeping", "ended", "failed"}
          /\ \/ row.answer = None
             \/ /\ d = 0 /\ row.older = job[j].older /\ row.elsewhere = job[j].elsewhere
  <2>1. Stop(Answer(d, TRUE)) = IF d = 0 THEN "ended" ELSE "sleeping"
    BY <1>2, StopAt
  <2>2. \/ /\ d # 0 /\ job' = [job EXCEPT ![j] = [NoJob EXCEPT !.stage = "sleeping"]]
        \/ /\ d = 0
           /\ job' = [job EXCEPT ![j] = [job[j] EXCEPT !.stage = "ended", !.answer = Answer(d, TRUE), !.batch = {}]]
        \/ job' = [job EXCEPT ![j] = [NoJob EXCEPT !.stage = "failed"]]
    BY <2>1 DEF Commit, IInv, JobsOK
  <2>3. ASSUME NEW st \in {"sleeping", "failed"}
        PROVE  [NoJob EXCEPT !.stage = st] = [stage |-> st, began |-> 0, batch |-> {}, answer |-> None,
                                              older |-> {}, elsewhere |-> {}]
    BY DEF NoJob
  <2>4. ASSUME NEW answer
        PROVE  [job[j] EXCEPT !.stage = "ended", !.answer = answer, !.batch = {}] =
                   [stage |-> "ended", began |-> job[j].began, batch |-> {}, answer |-> answer,
                    older |-> job[j].older, elsewhere |-> job[j].elsewhere]
    <3>1. job[j] = [stage |-> job[j].stage, began |-> job[j].began, batch |-> job[j].batch,
                    answer |-> job[j].answer, older |-> job[j].older, elsewhere |-> job[j].elsewhere]
      BY DEF IInv, JobsOK
    <3>2. PICK x1, x2, x3, x4, x5, x6, o :
              /\ o = job[j]
              /\ o = [stage |-> x1, began |-> x2, batch |-> x3, answer |-> x4, older |-> x5, elsewhere |-> x6]
      BY <3>1
    <3>3. PICK r : r = [o EXCEPT !.stage = "ended", !.answer = answer, !.batch = {}]
      OBVIOUS
    <3>4. r = [stage |-> "ended", began |-> x2, batch |-> {}, answer |-> answer,
               older |-> x5, elsewhere |-> x6]
      <4>1. PICK p : p = [o EXCEPT !.stage = "ended"]
        OBVIOUS
      <4>2. PICK q : q = [p EXCEPT !.answer = answer]
        OBVIOUS
      <4>3. p = [stage |-> "ended", began |-> x2, batch |-> x3, answer |-> x4, older |-> x5, elsewhere |-> x6]
        BY <3>2, <4>1
      <4>4. q = [stage |-> "ended", began |-> x2, batch |-> x3, answer |-> answer, older |-> x5, elsewhere |-> x6]
        BY <4>2, <4>3
      <4>5. r = [q EXCEPT !.batch = {}]
        BY <3>3, <4>1, <4>2
      <4> QED BY <4>4, <4>5
    <3> QED BY <3>2, <3>3, <3>4
  <2>5. CASE d # 0 /\ job' = [job EXCEPT ![j] = [NoJob EXCEPT !.stage = "sleeping"]]
    BY <2>3, <2>5
  <2>6. CASE job' = [job EXCEPT ![j] = [NoJob EXCEPT !.stage = "failed"]]
    BY <2>3, <2>6
  <2>7. CASE /\ d = 0
             /\ job' = [job EXCEPT ![j] = [job[j] EXCEPT !.stage = "ended", !.answer = Answer(d, TRUE), !.batch = {}]]
    <3>1. PICK answer : answer = Answer(d, TRUE)
      OBVIOUS
    <3>2. PICK row : row = [job[j] EXCEPT !.stage = "ended", !.answer = answer, !.batch = {}]
      OBVIOUS
    <3>3. row = [stage |-> "ended", began |-> job[j].began, batch |-> {}, answer |-> answer,
                 older |-> job[j].older, elsewhere |-> job[j].elsewhere]
      BY <2>4, <3>2
    <3>4. job' = [job EXCEPT ![j] = row]
      BY <2>7, <3>1, <3>2
    <3>5. /\ row = [stage |-> row.stage, began |-> row.began, batch |-> row.batch,
                    answer |-> row.answer, older |-> row.older, elsewhere |-> row.elsewhere]
          /\ row.stage = "ended" /\ row.older = job[j].older /\ row.elsewhere = job[j].elsewhere
      BY <3>3
    <3> QED BY <2>7, <3>4, <3>5
  <2> QED BY <2>2, <2>5, <2>6, <2>7
<1> HIDE DEF d
<1>4. JobsOK' /\ job'[j] = row /\ \A k \in Jobs \ {j} : job'[k] = job[k]
  BY <1>3, JobPut DEF IInv
<1>5. LocksHeld'
  <2>1. j \in Inside /\ log \ Deleted(j) \subseteq log' /\ job'[j].stage # "inside"
    BY <1>1, <1>3, <1>4 DEF Inside
  <2> QED BY <1>2, <1>4, <2>1, LocksLeft DEF IInv
<1>6. Counted'
  <2>1. IsFiniteSet(Records(j)) /\ IsFiniteSet(log \ Deleted(j))
    BY FS_EmptySet, FS_Singleton, FS_Difference DEF Records, IInv, Counted
  <2>2. IsFiniteSet(log')
    BY <1>1, <2>1, FS_Union
  <2> QED BY <1>1, <2>2 DEF IInv, Counted
<1>7. TypeOK' /\ ReaderOK'
  <2>1. \/ log' = log \ Deleted(j)
        \/ \E record : /\ log' = (log \ Deleted(j)) \cup {record}
                       /\ record \in Rows
                       /\ \A r \in log \cup writing : r.id # record.id
    BY <1>1, DeletedRecorded
  <2>2. /\ log' \cup writing' \subseteq Rows
        /\ \A r, s \in log' \cup writing' : r.id = s.id => r = s
        /\ log' \cap writing' = {}
    BY <1>1, <2>1, AuditBounds DEF IInv, TypeOK
  <2>3. faults' \in 0 .. MaxFaults
    <3>1. faults' = faults \/ (faults < MaxFaults /\ faults' = faults + 1)
      BY Zenon DEF Commit
    <3> QED BY <3>1, AuditBounds DEF IInv, TypeOK
  <2>4. ReaderOK' /\ reader'.stage = reader.stage
    <3>1. reader' = [stage |-> reader.stage, ask |-> reader.ask, after |-> reader.after,
                     got |-> reader.got, there |-> reader.there \ Deleted(j)]
      BY <1>1 DEF IInv, ReaderOK
    <3> QED BY <3>1 DEF ReaderOK
  <2>5. \A k \in Jobs : job'[k].stage \in Stages
    BY <1>3, <1>4 DEF IInv, TypeOK, Stages
  <2> QED BY <1>1, <2>2, <2>3, <2>4, <2>5 DEF IInv, TypeOK, Stages
<1>8. ZeroIsFinal'
  <2>1. d = 0 => job[j].batch = {}
    BY <1>2, FS_EmptySet DEF d
  <2>2. job[j].batch = {} => job[j].older \subseteq job[j].elsewhere
    BY <1>1 DEF IInv, LocksHeld, Locks, Inside
  <2>3. job'[j].answer = Answer(0, TRUE) => job'[j].older \subseteq job'[j].elsewhere
    BY <1>3, <1>4, <2>1, <2>2, NullIsNoAnswer
  <2> QED BY <1>4, <2>3, ZeroKept DEF IInv
<1> QED BY <1>4, <1>5, <1>6, <1>7, <1>8 DEF IInv

-----------------------------------------------------------------------------
(* What is destroyed is accounted for *)

\* The invariant is inductive.
LEMMA Inductive == IInv /\ [Next]_vars => IInv'
<1> SUFFICES ASSUME IInv, [Next]_vars PROVE IInv'
  OBVIOUS
<1>1. CASE UNCHANGED vars
  BY <1>1 DEF vars, IInv, TypeOK, JobsOK, ReaderOK, LocksHeld, Locks, Inside, IsRecord, Counted, ZeroIsFinal
<1>2. CASE Next
  BY <1>2, QuietStep, InsertStep, EndWriteStep, BatchStep, CommitStep, AbortStep DEF Next, JobStep
<1> QED BY <1>1, <1>2

\* And so holds always.
LEMMA Invariant == Spec => []IInv
BY InitIInv, Inductive, PTL DEF Spec

\* However many jobs and rows there are, row ids stay unique and a row of an
\* open transaction stays out of the log.
THEOREM LogTyped == Spec => []TypeOK
<1>1. IInv => TypeOK
  BY DEF IInv
<1> QED BY <1>1, Invariant, PTL

\* A loop that ends on zero rows with the lock held has left nothing older
\* than its cutoff but what prunes of another filter had locked, however many
\* replicas prune at once (functions.sql:683-685).
THEOREM ZeroMeansDone == Spec => []ZeroIsFinal
<1>1. IInv => ZeroIsFinal
  BY DEF IInv
<1> QED BY <1>1, Invariant, PTL

\* Every row that leaves the log is accounted for by the record the same
\* transaction adds, whatever prunes, writers and failures there are
\* (functions.sql:715-741).
THEOREM DestroyedIsRecorded == Spec => HolesAreRecorded
<1>1. ASSUME IInv, Next, NEW gone, gone = log \ log', gone # {}
      PROVE  \E record \in log' \ log :
                 /\ IsRecord(record) /\ record.prune.count = Cardinality(gone)
                 /\ \A row \in gone : /\ ~IsRecord(row) /\ row.at < record.prune.before
                                      /\ record.tenant \in {None, row.tenant}
  <2>1. PICK j \in Jobs : Commit(j)
    <3>1. ~(log \subseteq log')
      BY <1>1
    <3> QED BY <1>1, <3>1 DEF Next, JobStep, Tick, Insert, Open, Page, EndWrite, Batch, Abort, Rerun
  <2>2. /\ job[j].stage = "inside" /\ (Deleted(j) # {} => FreshIds # {})
        /\ log' = (log \ Deleted(j)) \cup Records(j)
    BY <2>1 DEF Commit
  <2>3. Deleted(j) # {} /\ Deleted(j) \subseteq log
    BY <1>1, <2>2 DEF Deleted
  <2>4. PICK record : /\ Records(j) = {record} /\ IsRecord(record)
                      /\ record.prune.before = Options[j].before
                      /\ record.prune.count = Cardinality(Deleted(j))
                      /\ record.tenant = Options[j].tenant
                      /\ \A row \in log \cup writing : row.id # record.id
    BY <1>1, <2>2, <2>3, DeletedRecorded
  <2>5. record \in log' \ log /\ gone = Deleted(j)
    BY <1>1, <2>2, <2>3, <2>4
  <2> QED BY <1>1, <2>2, <2>4, <2>5, DeletedRecorded
<1>2. IInv /\ [Next]_vars =>
        [LET gone == log \ log'
         IN  gone # {} =>
                \E record \in log' \ log :
                   /\ IsRecord(record) /\ record.prune.count = Cardinality(gone)
                   /\ \A row \in gone : /\ ~IsRecord(row) /\ row.at < record.prune.before
                                        /\ record.tenant \in {None, row.tenant}]_vars
  BY <1>1
<1> QED BY <1>2, Invariant, PTL DEF Spec, HolesAreRecorded

-----------------------------------------------------------------------------
(* A page *)

\* Rows of which no two are in the same place of a listing.
Ordered(rows) ==
    /\ IsFiniteSet(rows) /\ rows \subseteq Rows
    /\ \A r, s \in rows : r.id = s.id => r = s

\* A listing's order is strict and total.
LEMMA OrderIs ==
    ASSUME NEW rows, Ordered(rows)
    PROVE  /\ \A r \in rows : ~Below(r, r)
           /\ \A r, s, t \in rows : Below(r, s) /\ Below(s, t) => Below(r, t)
           /\ \A r, s \in rows : r = s \/ Below(r, s) \/ Below(s, r)
<1>1. \A r \in rows : r.at \in Nat /\ r.id \in Nat
  BY AuditBounds DEF Ordered, Rows
<1> QED BY <1>1 DEF Below, Ordered

\* A row's rank is how many rows come before it: no two rows have the same.
LEMMA RankIs ==
    ASSUME NEW rows, Ordered(rows)
    PROVE  /\ Cardinality(rows) \in Nat
           /\ \A r \in rows : Rank(rows, r) \in 0 .. (Cardinality(rows) - 1)
           /\ \A r, s \in rows : Below(r, s) => Rank(rows, s) < Rank(rows, r)
<1>1. IsFiniteSet(rows) /\ Cardinality(rows) \in Nat
  BY FS_CardinalityType DEF Ordered
<1>2. ASSUME NEW r \in rows
      PROVE  /\ IsFiniteSet({x \in rows : Below(r, x)})
             /\ Rank(rows, r) \in 0 .. (Cardinality(rows) - 1)
  <2>1. PICK above : above = {x \in rows : Below(r, x)}
    OBVIOUS
  <2>2. above \in SUBSET (rows \ {r})
    BY <2>1, OrderIs
  <2>3. IsFiniteSet(rows \ {r}) /\ Cardinality(rows \ {r}) = Cardinality(rows) - 1
    BY <1>1, FS_RemoveElement
  <2>4. /\ IsFiniteSet(above) /\ Cardinality(above) <= Cardinality(rows) - 1
        /\ Cardinality(above) \in Nat
    BY <2>2, <2>3, FS_Subset, FS_CardinalityType
  <2> QED BY <1>1, <2>1, <2>4 DEF Rank
<1>3. ASSUME NEW r \in rows, NEW s \in rows, Below(r, s)
      PROVE  Rank(rows, s) < Rank(rows, r)
  <2>1. PICK a, b : a = {x \in rows : Below(r, x)} /\ b = {x \in rows : Below(s, x)}
    OBVIOUS
  <2>2. b \in SUBSET a /\ s \in a /\ s \notin b
    BY <1>3, <2>1, OrderIs
  <2>3. IsFiniteSet(a)
    BY <1>2, <2>1
  <2>4. /\ Cardinality(b) <= Cardinality(a) /\ Cardinality(b) # Cardinality(a)
        /\ Cardinality(a) \in Nat /\ Cardinality(b) \in Nat
    BY <2>2, <2>3, FS_Subset, FS_CardinalityType
  <2> QED BY <2>1, <2>4 DEF Rank
<1> QED BY <1>1, <1>2, <1>3

\* And every rank is somebody's.
LEMMA RankTaken ==
    ASSUME NEW rows, Ordered(rows), NEW k \in 0 .. (Cardinality(rows) - 1)
    PROVE  \E r \in rows : Rank(rows, r) = k
<1> SUFFICES ASSUME \A r \in rows : Rank(rows, r) # k PROVE FALSE
  OBVIOUS
<1>1. PICK n \in Nat : n = Cardinality(rows)
  BY RankIs
<1>2. PICK rest : rest = (0 .. (n - 1)) \ {k}
  OBVIOUS
<1>3. IsFiniteSet(rest) /\ Cardinality(rest) = n - 1
  <2>1. IsFiniteSet(0 .. (n - 1)) /\ Cardinality(0 .. (n - 1)) = n
    BY <1>1, FS_Interval
  <2> QED BY <1>1, <1>2, <2>1, FS_RemoveElement
<1>4. PICK f : f = [r \in rows |-> Rank(rows, r)]
  OBVIOUS
<1>5. f \in [rows -> rest]
  BY <1>1, <1>2, <1>4, RankIs
<1>6. IsFiniteSet(rows) /\ Cardinality(rest) < Cardinality(rows)
  BY <1>1, <1>3 DEF Ordered
<1>7. PICK r, s \in rows : r # s /\ f[r] = f[s]
  BY <1>3, <1>5, <1>6, FS_PigeonHole
<1>8. Below(r, s) \/ Below(s, r)
  BY <1>7, OrderIs
<1>9. /\ Rank(rows, r) \in 0 .. (n - 1) /\ Rank(rows, s) \in 0 .. (n - 1)
      /\ Rank(rows, r) < Rank(rows, s) \/ Rank(rows, s) < Rank(rows, r)
  BY <1>1, <1>8, RankIs
<1> QED BY <1>4, <1>7, <1>9

\* A page holds rows, in their order, and all of those that come first.
LEMMA NewestIs ==
    ASSUME NEW rows, Ordered(rows), NEW limit \in Nat \ {0}, NEW page, page = Newest(rows, limit)
    PROVE  /\ page \in Seq(rows) /\ Len(page) <= limit
           /\ \A i, k \in DOMAIN page : i < k => Below(page[k], page[i])
           /\ Len(page) < limit => \A r \in rows : \E i \in DOMAIN page : page[i] = r
           /\ Len(page) = limit =>
                 \A r \in rows : \/ \E i \in DOMAIN page : page[i] = r
                                 \/ Below(r, page[Len(page)])
<1>1. PICK n \in Nat : n = Cardinality(rows)
  BY RankIs
<1>2. PICK len \in Nat : len = IF limit < n THEN limit ELSE n
  OBVIOUS
<1>3. page = [i \in 1 .. len |-> CHOOSE r \in rows : Rank(rows, r) = i - 1]
  BY <1>1, <1>2 DEF Newest
<1>4. ASSUME NEW i \in 1 .. len PROVE page[i] \in rows /\ Rank(rows, page[i]) = i - 1
  <2>1. i - 1 \in 0 .. (Cardinality(rows) - 1)
    BY <1>1, <1>2
  <2>2. \E r \in rows : Rank(rows, r) = i - 1
    BY <2>1, RankTaken
  <2> QED BY <1>3, <2>2
<1>5. page \in Seq(rows) /\ Len(page) = len /\ DOMAIN page = 1 .. len
  BY <1>3, <1>4
<1>6. ASSUME NEW i \in 1 .. len, NEW r \in rows, Rank(rows, r) = i - 1 PROVE page[i] = r
  <2>1. page[i] \in rows /\ Rank(rows, page[i]) = Rank(rows, r)
    BY <1>4, <1>6
  <2>2. ~Below(page[i], r) /\ ~Below(r, page[i])
    BY <2>1, RankIs
  <2> QED BY <2>1, <2>2, OrderIs
<1>7. ASSUME NEW i \in 1 .. len, NEW r \in rows, i - 1 < Rank(rows, r) PROVE Below(r, page[i])
  <2>1. page[i] \in rows /\ Rank(rows, page[i]) = i - 1
    BY <1>4
  <2>2. page[i] # r /\ ~Below(page[i], r)
    BY <1>7, <2>1, RankIs
  <2> QED BY <2>1, <2>2, OrderIs
<1>8. ASSUME NEW i \in 1 .. len, NEW k \in 1 .. len, i < k PROVE Below(page[k], page[i])
  <2>1. page[k] \in rows /\ Rank(rows, page[k]) = k - 1
    BY <1>4
  <2>2. i - 1 < Rank(rows, page[k])
    BY <1>8, <2>1
  <2> QED BY <1>7, <2>1, <2>2
<1>9. ASSUME NEW r \in rows
      PROVE  (\E i \in 1 .. len : page[i] = r) \/ (len = limit /\ Below(r, page[len]))
  <2>1. PICK k \in Nat : k = Rank(rows, r) /\ k < n
    BY <1>1, RankIs
  <2>2. CASE k < len
    <3>1. k + 1 \in 1 .. len /\ Rank(rows, r) = (k + 1) - 1
      BY <2>1, <2>2
    <3>2. page[k + 1] = r
      BY <1>6, <3>1
    <3> QED BY <3>1, <3>2
  <2>3. CASE ~(k < len)
    <3>1. len = limit /\ len \in 1 .. len /\ len - 1 < Rank(rows, r)
      BY <1>2, <2>1, <2>3
    <3> QED BY <1>7, <3>1
  <2> QED BY <2>2, <2>3
<1> QED BY <1>2, <1>5, <1>8, <1>9

-----------------------------------------------------------------------------
(* A listing *)

Read(row) == \E i \in DOMAIN reader.got : reader.got[i] = row

\* What a listing has still to read of what it should is below the cursor,
\* and the cursor is the last row it has read.
PagesOK ==
    /\ reader.got \in Seq(Rows) /\ PagesDescend /\ PagesComplete
    /\ reader.stage = "idle" => reader.got = << >>
    /\ reader.stage = "reading" =>
          /\ reader.ask \in Listings /\ reader.there \subseteq Listed(reader.ask, log)
          /\ reader.after = Malformed => reader.got = << >>
          /\ reader.after = None => reader.got = << >>
          /\ reader.got # << >> => reader.after = reader.got[Len(reader.got)]
          /\ \A row \in reader.there :
                Read(row) \/ reader.after \in {None, Malformed} \/ Below(row, reader.after)

\* The core clamps as the function does, which therefore changes nothing.
LEMMA ClampIs ==
    ASSUME NEW ask \in Listings
    PROVE  Clamp(ask.limit) \in Nat \ {0} /\ SqlLimit(Clamp(ask.limit)) = Clamp(ask.limit)
<1>1. ask.limit \in Int \cup {None}
  BY ListingsAreTyped
<1>2. PICK limit : limit = ask.limit
  OBVIOUS
<1>3. Clamp(limit) \in 1 .. MaxLimit
  <2>1. CASE limit = None
    BY <2>1, AuditBounds DEF Clamp
  <2>2. CASE limit # None /\ limit < 1
    <3>1. Clamp(limit) = 1
      BY <1>1, <1>2, <2>2 DEF Clamp
    <3> QED BY <3>1, AuditBounds
  <2>3. CASE limit # None /\ limit >= 1
    <3>1. Clamp(limit) = IF limit < MaxLimit THEN limit ELSE MaxLimit
      BY <1>1, <1>2, <2>3 DEF Clamp
    <3> QED BY <1>1, <1>2, <2>3, <3>1, AuditBounds
  <2> QED BY <1>1, <1>2, <2>1, <2>2, <2>3
<1>4. SqlLimit(Clamp(limit)) = Clamp(limit)
  BY <1>3, AuditBounds DEF SqlLimit
<1> QED BY <1>2, <1>3, <1>4, AuditBounds

LEMMA Joined ==
    ASSUME NEW got \in Seq(Rows), NEW page \in Seq(Rows), NEW all, all = got \o page
    PROVE  /\ all \in Seq(Rows) /\ Len(all) = Len(got) + Len(page)
           /\ \A i \in DOMAIN got : i \in DOMAIN all /\ all[i] = got[i]
           /\ \A i \in DOMAIN page : /\ Len(got) + i \in DOMAIN all
                                     /\ all[Len(got) + i] = page[i]
           /\ \A i \in DOMAIN all : i \in DOMAIN got \/ i - Len(got) \in DOMAIN page
OBVIOUS

LEMMA BelowIs ==
    /\ \A r, s, t \in Rows : Below(r, s) /\ Below(s, t) => Below(r, t)
    /\ \A r, s \in Rows : Below(r, s) => r # s
<1>1. \A r \in Rows : r.at \in Nat /\ r.id \in Nat
  BY AuditBounds DEF Rows
<1> QED BY <1>1 DEF Below

\* Going down from where the last page ended goes down all the way.
LEMMA JoinedDescend ==
    ASSUME NEW got \in Seq(Rows), NEW page \in Seq(Rows), NEW all, all = got \o page,
           \A i, k \in DOMAIN got : i < k => Below(got[k], got[i]),
           \A i, k \in DOMAIN page : i < k => Below(page[k], page[i]),
           got # << >> => \A k \in DOMAIN page : Below(page[k], got[Len(got)])
    PROVE  \A i, k \in DOMAIN all : i < k => Below(all[k], all[i])
<1> SUFFICES ASSUME NEW i \in DOMAIN all, NEW k \in DOMAIN all, i < k PROVE Below(all[k], all[i])
  OBVIOUS
<1>1. PICK n \in Nat : n = Len(got) /\ DOMAIN got = 1 .. n
  OBVIOUS
<1>2. /\ \A j \in DOMAIN got : all[j] = got[j] /\ got[j] \in Rows
      /\ \A j \in DOMAIN page : all[n + j] = page[j] /\ page[j] \in Rows
      /\ i \in DOMAIN got \/ i - n \in DOMAIN page
      /\ k \in DOMAIN got \/ k - n \in DOMAIN page
      /\ DOMAIN page \subseteq Nat /\ i \in Nat /\ k \in Nat
  BY <1>1, Joined
<1>3. CASE k \in DOMAIN got
  <2>1. i \in DOMAIN got
    <3>1. ~(i - n \in DOMAIN page)
      BY <1>1, <1>2, <1>3
    <3> QED BY <1>2, <3>1
  <2> QED BY <1>2, <1>3, <2>1
<1>4. CASE i \notin DOMAIN got /\ k \notin DOMAIN got
  <2>1. /\ i - n \in DOMAIN page /\ k - n \in DOMAIN page /\ i - n < k - n
        /\ n + (i - n) = i /\ n + (k - n) = k
    BY <1>2, <1>4
  <2>2. all[i] = page[i - n] /\ all[k] = page[k - n]
    BY <1>2, <2>1
  <2> QED BY <2>1, <2>2
<1>5. CASE i \in DOMAIN got /\ k \notin DOMAIN got
  <2>1. k - n \in DOMAIN page /\ n + (k - n) = k /\ n \in DOMAIN got /\ got # << >>
    BY <1>1, <1>2, <1>5
  <2>2. all[i] = got[i] /\ all[k] = page[k - n]
    BY <1>2, <1>5, <2>1
  <2>3. Below(page[k - n], got[n])
    BY <1>1, <2>1
  <2>4. i = n \/ Below(got[n], got[i])
    BY <1>1, <1>5, <2>1
  <2> QED BY <1>2, <1>5, <2>1, <2>2, <2>3, <2>4, BelowIs
<1> QED BY <1>3, <1>4, <1>5

\* A page of a listing.
LEMMA PageStep ==
    ASSUME IInv, PagesOK, Page, reader.after # Malformed
    PROVE  PagesOK'
<1>1. PICK ask, rows, limit, page, full :
          /\ ask = reader.ask
          /\ rows = {r \in Listed(ask, log) : reader.after # None => After(r, reader.after)}
          /\ limit = Clamp(ask.limit) /\ page = Newest(rows, SqlLimit(limit))
          /\ full = (Len(page) >= limit /\ page # << >>)
  OBVIOUS
<1>2. /\ reader.stage = "reading" /\ UNCHANGED log
      /\ reader' = [reader EXCEPT !.stage = IF full THEN "reading" ELSE "done",
                                  !.got = @ \o page,
                                  !.after = IF full THEN page[Len(page)] ELSE None]
  BY <1>1 DEF Page
<1>3. PICK got, there : got = reader.got /\ there = reader.there
  OBVIOUS
<1>4. /\ ask \in Listings /\ limit \in Nat \ {0} /\ page = Newest(rows, limit)
      /\ got \in Seq(Rows) /\ there \subseteq Listed(ask, log)
  BY <1>1, <1>2, <1>3, ClampIs DEF PagesOK
<1>5. Ordered(rows)
  <2>1. rows \in SUBSET log /\ log \subseteq Rows /\ \A r, s \in log : r.id = s.id => r = s
    BY <1>1 DEF Listed, IInv, TypeOK
  <2>2. IsFiniteSet(rows)
    BY <2>1, FS_Subset DEF IInv, Counted
  <2> QED BY <2>1, <2>2 DEF Ordered
<1>6. /\ page \in Seq(rows) /\ Len(page) <= limit /\ Len(page) \in Nat
      /\ \A i, k \in DOMAIN page : i < k => Below(page[k], page[i])
      /\ Len(page) < limit => \A r \in rows : \E i \in DOMAIN page : page[i] = r
      /\ Len(page) = limit =>
            \A r \in rows : \/ \E i \in DOMAIN page : page[i] = r
                            \/ Below(r, page[Len(page)])
  BY <1>4, <1>5, NewestIs
<1>7. page \in Seq(Rows) /\ \A i \in DOMAIN page : page[i] \in rows
  BY <1>5, <1>6 DEF Ordered
<1>8. PICK all, stage, after :
          /\ all = got \o page /\ stage = (IF full THEN "reading" ELSE "done")
          /\ after = IF full THEN page[Len(page)] ELSE None
  OBVIOUS
<1>9. /\ reader' = [reader EXCEPT !.stage = stage, !.got = all, !.after = after]
      /\ reader = [stage |-> reader.stage, ask |-> ask, after |-> reader.after, got |-> got,
                   there |-> there]
  BY <1>1, <1>2, <1>3, <1>8 DEF IInv, ReaderOK
<1>10. reader' = [stage |-> stage, ask |-> ask, after |-> after, got |-> all, there |-> there]
  <2>1. PICK o, x1, x2 :
            /\ o = reader
            /\ o = [stage |-> x1, ask |-> ask, after |-> x2, got |-> got, there |-> there]
    BY <1>9
  <2>2. PICK p : p = [o EXCEPT !.stage = stage]
    OBVIOUS
  <2>3. PICK q : q = [p EXCEPT !.got = all]
    OBVIOUS
  <2>4. p = [stage |-> stage, ask |-> ask, after |-> x2, got |-> got, there |-> there]
    BY <2>1, <2>2
  <2>5. q = [stage |-> stage, ask |-> ask, after |-> x2, got |-> all, there |-> there]
    BY <2>3, <2>4
  <2>6. reader' = [q EXCEPT !.after = after]
    BY <1>9, <2>1, <2>2, <2>3
  <2> QED BY <2>5, <2>6
<1>11. /\ all \in Seq(Rows) /\ Len(all) = Len(got) + Len(page)
       /\ \A i \in DOMAIN got : i \in DOMAIN all /\ all[i] = got[i]
       /\ \A i \in DOMAIN page : Len(got) + i \in DOMAIN all /\ all[Len(got) + i] = page[i]
       /\ \A i \in DOMAIN all : i \in DOMAIN got \/ i - Len(got) \in DOMAIN page
  BY <1>4, <1>7, <1>8, Joined
<1>12. PagesDescend'
  <2>1. got # << >> => \A k \in DOMAIN page : Below(page[k], got[Len(got)])
    BY <1>1, <1>2, <1>3, <1>7 DEF PagesOK, After
  <2>2. \A i, k \in DOMAIN got : i < k => Below(got[k], got[i])
    BY <1>3 DEF PagesOK, PagesDescend
  <2>3. \A i, k \in DOMAIN all : i < k => Below(all[k], all[i])
    BY <1>4, <1>6, <1>7, <1>8, <2>1, <2>2, JoinedDescend
  <2>4. \A i \in DOMAIN page : Listed(ask, {page[i]}) # {}
    BY <1>1, <1>7 DEF Listed
  <2>5. \A i \in DOMAIN got : Listed(ask, {got[i]}) # {}
    BY <1>1, <1>3 DEF PagesOK, PagesDescend
  <2>6. ASSUME NEW i \in DOMAIN all PROVE Listed(ask, {all[i]}) # {}
    <3>1. CASE i \in DOMAIN got
      BY <1>11, <2>5, <3>1
    <3>2. CASE i - Len(got) \in DOMAIN page
      <4>1. i = Len(got) + (i - Len(got))
        BY <1>4, <1>11
      <4>2. all[i] = page[i - Len(got)]
        BY <1>11, <3>2, <4>1
      <4> QED BY <2>4, <3>2, <4>2
    <3> QED BY <1>11, <3>1, <3>2
  <2> QED BY <1>10, <2>3, <2>6 DEF PagesDescend, Listed
<1>13. ASSUME NEW row \in there
       PROVE  (\E i \in DOMAIN all : all[i] = row) \/ (full /\ Below(row, after))
  <2>1. CASE \E i \in DOMAIN got : got[i] = row
    BY <1>11, <2>1
  <2>2. CASE ~\E i \in DOMAIN got : got[i] = row
    <3>1. row \in rows
      BY <1>1, <1>2, <1>3, <1>4, <2>2 DEF PagesOK, Read, After
    <3>2. CASE \E i \in DOMAIN page : page[i] = row
      BY <1>11, <3>2
    <3>3. CASE Len(page) = limit /\ Below(row, page[Len(page)])
      <4>1. full
        BY <1>1, <1>4, <1>6, <3>3
      <4> QED BY <1>8, <3>3, <4>1
    <3> QED BY <1>4, <1>6, <3>1, <3>2, <3>3
  <2> QED BY <2>1, <2>2
<1>14. CASE full
  <2>1. /\ page # << >> /\ Len(page) \in DOMAIN page /\ after = page[Len(page)]
        /\ all # << >> /\ stage = "reading"
    <3>1. Len(page) >= limit /\ page # << >>
      BY <1>1, <1>14, Zenon
    <3>2. Len(page) >= 1 /\ Len(got) \in Nat
      BY <1>4, <1>6, <3>1
    <3>3. Len(page) \in DOMAIN page /\ Len(all) >= 1
      BY <1>6, <1>11, <3>2
    <3>4. all # << >>
      BY <3>3
    <3> QED BY <1>8, <1>14, <3>1, <3>3, <3>4
  <2>2. after = all[Len(all)] /\ after \in Rows
    BY <1>4, <1>7, <1>11, <2>1
  <2>3. after \notin {None, Malformed}
    BY <2>2, ListingsAreTyped
  <2>4. /\ reader'.stage = "reading" /\ reader'.ask = ask /\ reader'.after = after
        /\ reader'.got = all /\ reader'.there = there
    BY <1>10, <2>1
  <2>5. there \subseteq Listed(ask, log)'
    BY <1>2, <1>4 DEF Listed
  <2>6. reader'.there \subseteq Listed(reader.ask, log)'
    BY <2>4, <2>5 DEF Listed
  <2>7. PagesComplete'
    BY <2>4 DEF PagesComplete
  <2>8. ASSUME NEW row \in reader'.there PROVE Read(row)' \/ Below(row, reader'.after)
    BY <1>13, <2>4, <2>8 DEF Read
  <2> QED BY <1>4, <1>11, <1>12, <2>1, <2>2, <2>3, <2>4, <2>6, <2>7, <2>8 DEF PagesOK
<1>15. CASE ~full
  <2>1. stage = "done"
    BY <1>8, <1>15
  <2> QED BY <1>10, <1>11, <1>12, <1>13, <1>15, <2>1 DEF PagesOK, PagesComplete
<1> QED BY <1>14, <1>15

\* Steps that only change what there is to read: rows that were there stay,
\* or are no longer asked for.
LEMMA PagesKept ==
    ASSUME PagesOK, reader' = reader, log \subseteq log'
    PROVE  PagesOK'
<1>1. reader.stage = "reading" => reader.there \subseteq Listed(reader.ask, log)'
  BY DEF PagesOK, Listed
<1> QED BY <1>1 DEF PagesOK, PagesDescend, PagesComplete, Read, Listed

LEMMA PagesNext == ASSUME IInv, PagesOK, [Next]_vars PROVE PagesOK'
<1>1. CASE \/ UNCHANGED vars \/ Tick \/ Insert \/ (\E row \in writing : EndWrite(row))
           \/ \E j \in Jobs : Batch(j) \/ Abort(j) \/ Rerun(j)
  <2>1. reader' = reader /\ log \subseteq log'
    BY <1>1 DEF vars, Tick, Insert, EndWrite, Batch, Abort, Rerun
  <2> QED BY <2>1, PagesKept
<1>2. CASE Open
  <2>1. \E ask \in Listings : \E there :
            /\ reader.stage = "idle" /\ UNCHANGED log /\ there = Listed(ask, log)
            /\ reader' = [reader EXCEPT !.stage = "reading", !.ask = ask, !.after = ask.after,
                                        !.there = there]
    BY <1>2 DEF Open
  <2>2. PICK ask, there :
            /\ ask \in Listings /\ reader.stage = "idle" /\ UNCHANGED log
            /\ there = Listed(ask, log)
            /\ reader' = [reader EXCEPT !.stage = "reading", !.ask = ask, !.after = ask.after,
                                        !.there = there]
    BY <2>1
  <2>3. reader' = [stage |-> "reading", ask |-> ask, after |-> ask.after, got |-> << >>, there |-> there]
    BY <2>2 DEF IInv, ReaderOK, PagesOK
  <2>4. ask.after \in {None, Malformed}
    BY <2>2, ListingsAreTyped
  <2>5. there \subseteq Listed(ask, log)'
    BY <2>2 DEF Listed
  <2>6. /\ reader'.stage = "reading" /\ reader'.ask = ask /\ reader'.after = ask.after
        /\ reader'.got = << >> /\ reader'.there = there
    BY <2>3
  <2>7. reader'.there \subseteq Listed(reader.ask, log)'
    BY <2>5, <2>6 DEF Listed
  <2>8. PagesDescend' /\ PagesComplete'
    BY <2>6 DEF PagesDescend, PagesComplete
  <2> QED BY <2>2, <2>4, <2>6, <2>7, <2>8 DEF PagesOK
<1>3. CASE Page
  <2>1. CASE reader.after # Malformed
    BY <1>3, <2>1, PageStep
  <2>2. CASE reader.after = Malformed
    <3>1. reader' = [reader EXCEPT !.stage = "refused"] /\ reader.stage = "reading"
      BY <1>3, <2>2 DEF Page
    <3>2. reader' = [stage |-> "refused", ask |-> reader.ask, after |-> reader.after,
                     got |-> reader.got, there |-> reader.there]
      BY <3>1 DEF IInv, ReaderOK
    <3> QED BY <3>2 DEF PagesOK, PagesDescend, PagesComplete, Listed
  <2> QED BY <2>1, <2>2
<1>4. ASSUME NEW j \in Jobs, Commit(j) PROVE PagesOK'
  <2>1. PICK there : there = reader.there \ Deleted(j)
    OBVIOUS
  <2>2. /\ reader' = [stage |-> reader.stage, ask |-> reader.ask, after |-> reader.after,
                      got |-> reader.got, there |-> there]
        /\ log \ Deleted(j) \subseteq log'
    BY <1>4, <2>1 DEF Commit, IInv, ReaderOK
  <2>3. /\ reader'.stage = reader.stage /\ reader'.ask = reader.ask /\ reader'.after = reader.after
        /\ reader'.got = reader.got /\ reader'.there = there /\ there \subseteq reader.there
    BY <2>1, <2>2
  <2>4. ASSUME reader.stage = "reading" PROVE there \subseteq Listed(reader.ask, log)'
    BY <2>1, <2>2, <2>3, <2>4 DEF PagesOK, Listed
  <2>5. PagesDescend' /\ PagesComplete'
    BY <2>3 DEF PagesOK, PagesDescend, PagesComplete, Listed
  <2> QED BY <2>3, <2>4, <2>5 DEF PagesOK, Read
<1> QED BY <1>1, <1>2, <1>3, <1>4, Zenon DEF Next, JobStep

LEMMA PagesAlways == Spec => []PagesOK
<1>1. Init => PagesOK
  <2> SUFFICES ASSUME Init PROVE PagesOK
    OBVIOUS
  <2>1. reader.got = << >> /\ reader.there = {} /\ reader.stage \in {"idle", "done"}
    BY DEF Init, NoReader
  <2> QED BY <2>1 DEF PagesOK, PagesDescend, PagesComplete
<1>2. IInv /\ PagesOK /\ [Next]_vars => PagesOK'
  BY PagesNext
<1> QED BY <1>1, <1>2, Invariant, PTL DEF Spec

\* A listing never reads a row twice, nor one out of its order or its filter,
\* whatever is written and pruned between its pages and however many rows are
\* of one moment (functions.sql:645-649).
THEOREM NoRowTwice == Spec => []PagesDescend
<1>1. PagesOK => PagesDescend
  BY DEF PagesOK
<1> QED BY <1>1, PagesAlways, PTL

\* A listing read to its end misses no row that was there when it began and
\* has stayed: a short page is the last, because the core clamps as the
\* function does (reads.ts:196-201).
THEOREM NoRowMissed == Spec => []PagesComplete
<1>1. PagesOK => PagesComplete
  BY DEF PagesOK
<1> QED BY <1>1, PagesAlways, PTL
=============================================================================
