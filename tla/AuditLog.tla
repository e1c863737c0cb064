------------------------------ MODULE AuditLog ------------------------------
(***************************************************************************)
(* The audit log as its writers, the retention jobs and a reader share it: *)
(* log_audit inside the transactions of others, prune_audit_logs in the    *)
(* loop core/src/audit.ts gives for it, and list_audit_logs page by page   *)
(* through core/src/reads.ts.                                              *)
(*                                                                         *)
(* created_at is the start of the writing transaction and a row is seen    *)
(* from its commit on, so a row may appear below rows already seen.        *)
(***************************************************************************)
EXTENDS Integers, FiniteSets, Sequences

CONSTANTS
    None, Malformed,   \* null, and a cursor that is none of ours
    Tenants,
    Ids,        \* row ids, in their order
    Jobs,
    Options,    \* job -> [before, tenant, limit], PruneOptions
    Casts,      \* who runs beside each other, on which log: [jobs, reads, log]
    Listings,   \* what may be listed: [tenant, from, to, limit, after]
    Readable,   \* the tenants, and None, where the reader holds authz.audit.read
    DefaultLimit, MaxLimit,   \* 100 and 1000
    FirstTime, MaxTime, MaxWrites, MaxFaults   \* bounds

ASSUME AuditBounds ==
    /\ None \notin Tenants /\ Ids \subseteq Nat
    /\ DefaultLimit \in 1 .. MaxLimit /\ MaxLimit \in Nat
    /\ FirstTime \in 0 .. MaxTime /\ MaxTime \in Nat /\ MaxWrites \in Nat /\ MaxFaults \in Nat
    /\ \A j \in Jobs : /\ Options[j].limit \in Int /\ Options[j].before \in Nat
                       /\ Options[j].tenant \in Tenants \cup {None}

\* Null is neither what a prune record says nor an answer.
ASSUME NullIsNoRecord == None \notin [before : Nat, count : Nat] \cup [deleted : Nat, lock : BOOLEAN]

\* prune is what a prune record says, None in every other row.
Rows == [id : Ids, at : Nat, tenant : Tenants \cup {None},
         prune : [before : Nat, count : Nat] \cup {None}]

\* The rows there are at first have ids of their own.
ASSUME CastsAreTyped ==
    \A cast \in Casts :
        /\ IsFiniteSet(cast.log) /\ cast.log \subseteq Rows
        /\ \A r, s \in cast.log : r.id = s.id => r = s

\* A cursor is a row's, or none; what it is made of tells which.
ASSUME ListingsAreTyped ==
    /\ Malformed # None /\ {None, Malformed} \cap Rows = {}
    /\ \A ask \in Listings : ask.limit \in Int \cup {None} /\ ask.after \in {None, Malformed}

VARIABLES
    now,
    log,      \* the committed rows
    writing,  \* rows inserted by transactions that have not ended
    job,      \* job -> its loop
    reader,
    written,  \* how many rows writers have committed
    faults

vars == <<now, log, writing, job, reader, written, faults>>

Row(id, at, tenant, prune) == [id |-> id, at |-> at, tenant |-> tenant, prune |-> prune]

IsRecord(row) == row.prune # None

\* gen_random_uuid
FreshIds == Ids \ {row.id : row \in log \cup writing}

-----------------------------------------------------------------------------
(* Writers. *)

Tick == now < MaxTime /\ now' = now + 1 /\ UNCHANGED <<log, writing, job, reader, written, faults>>

\* Fault: the row does not wait for the transaction it describes.
InsertNow ==
    /\ written + Cardinality(writing) < MaxWrites
    /\ \E id \in FreshIds, t \in Tenants \cup {None} :
          writing' = writing \cup {Row(id, now, t, None)} /\ log' = log \cup {Row(id, now, t, None)}
    /\ UNCHANGED <<now, job, reader, written, faults>>

\* log_audit in the transaction of the write it describes.
Insert ==
    /\ written + Cardinality(writing) < MaxWrites
    /\ \E id \in FreshIds, t \in Tenants \cup {None} : writing' = writing \cup {Row(id, now, t, None)}
    /\ UNCHANGED <<now, log, job, reader, written, faults>>

EndWrite(row) ==
    /\ writing' = writing \ {row}
    /\ \/ log' = log \cup {row} /\ written' = written + 1
       \/ UNCHANGED <<log, written>>
    /\ UNCHANGED <<now, job, reader, faults>>

-----------------------------------------------------------------------------
(* Retention.  stage: "idle", "sleeping" between batches, "inside" the      *)
(* transaction of a batch, "ended", "failed".  older and elsewhere are     *)
(* history: what a batch found older than its cutoff, and how much of it   *)
(* was locked by prunes of another filter.                                 *)

NoJob == [stage |-> "idle", began |-> 0, batch |-> {}, answer |-> None, older |-> {}, elsewhere |-> {}]

Inside == {j \in Jobs : job[j].stage = "inside"}
SameFilter(j, k) == Options[j].tenant = Options[k].tenant

\* Fault: prune records are rows like others.
DoomedAll(j) ==
    {row \in log : row.at < Options[j].before /\ Options[j].tenant \in {None, row.tenant}}

\* The rows of one filter, older than the cutoff, that are no prune records.
Doomed(j) ==
    {row \in log : /\ row.at < Options[j].before
                   /\ Options[j].tenant \in {None, row.tenant}
                   /\ ~IsRecord(row)}

\* Fault: rows are taken whoever holds them.
UnlockedAnyway(rows) == rows

\* skip locked
Unlocked(rows) == rows \ UNION {job[k].batch : k \in Inside}

BatchLimit(j) == IF Options[j].limit < 1 THEN 1 ELSE Options[j].limit

\* order by created_at limit
Oldest(rows, limit) ==
    {b \in SUBSET rows : /\ Cardinality(b) = (IF limit < Cardinality(rows) THEN limit ELSE Cardinality(rows))
                         /\ \A r \in b, s \in rows \ b : r.at <= s.at}

\* Fault: the lock is one nobody else asks for.
LockFreeAlways(j) == TRUE

\* pg_try_advisory_xact_lock: the key is the filter.
LockFree(j) == ~\E k \in Inside : SameFilter(j, k)

Answer(deleted, lock) == [deleted |-> deleted, lock |-> lock]

\* The loop of audit.ts:117-123.
Stop(answer) ==
    CASE ~answer.lock -> "ended"
      [] answer.lock /\ answer.deleted = 0 -> "ended"
      [] OTHER -> "sleeping"

\* A batch begins: the lock is tried and the rows are selected for update.
Batch(j) ==
    /\ job[j].stage \in {"idle", "sleeping"}
    /\ \/ /\ ~LockFree(j)
          /\ job' = [job EXCEPT ![j] = [NoJob EXCEPT !.stage = Stop(Answer(0, FALSE)), !.answer = Answer(0, FALSE)]]
       \/ /\ LockFree(j)
          /\ \E b \in Oldest(Unlocked(Doomed(j)), BatchLimit(j)) :
                job' = [job EXCEPT ![j] =
                          [NoJob EXCEPT !.stage = "inside", !.began = now, !.batch = b, !.older = Doomed(j),
                                        !.elsewhere = UNION {job[k].batch : k \in {i \in Inside : ~SameFilter(i, j)}}]]
    /\ UNCHANGED <<now, log, writing, reader, written, faults>>

\* What the delete finds of the batch.
Deleted(j) == job[j].batch \cap log

\* The record a batch leaves, none if nothing was deleted; which fresh id it
\* has decides only its place among the rows of its moment.  Its created_at
\* is the start of its own transaction.
Records(j) ==
    IF Deleted(j) = {} THEN {}
    ELSE {Row(CHOOSE id \in FreshIds : TRUE, job[j].began, Options[j].tenant,
              [before |-> Options[j].before, count |-> Cardinality(Deleted(j))])}

\* The batch commits; its answer arrives, or is lost with the connection.  A
\* record needs one of the ids there are.
Commit(j) ==
    /\ job[j].stage = "inside" /\ (Deleted(j) # {} => FreshIds # {})
    /\ log' = (log \ Deleted(j)) \cup Records(j)
    /\ LET answer == Answer(Cardinality(Deleted(j)), TRUE)
       IN  \/ /\ job' = [job EXCEPT ![j] = IF Stop(answer) = "sleeping" THEN [NoJob EXCEPT !.stage = "sleeping"]
                                           ELSE [@ EXCEPT !.stage = Stop(answer), !.answer = answer, !.batch = {}]]
              /\ UNCHANGED faults
           \/ /\ faults < MaxFaults /\ faults' = faults + 1
              /\ job' = [job EXCEPT ![j] = [NoJob EXCEPT !.stage = "failed"]]
    /\ reader' = [reader EXCEPT !.there = @ \ Deleted(j)]
    /\ UNCHANGED <<now, writing, written>>

\* The batch fails, and with it the loop.
Abort(j) ==
    /\ job[j].stage = "inside"
    /\ faults < MaxFaults /\ faults' = faults + 1
    /\ job' = [job EXCEPT ![j] = [NoJob EXCEPT !.stage = "failed"]]
    /\ UNCHANGED <<now, log, writing, reader, written>>

\* A job that failed is run again.
Rerun(j) ==
    /\ job[j].stage = "failed" /\ job' = [job EXCEPT ![j] = NoJob]
    /\ UNCHANGED <<now, log, writing, reader, written, faults>>

-----------------------------------------------------------------------------
(* Reading.  An ask is [tenant, from, to, limit, after]; to and limit may   *)
(* be None, and after is None to begin with or Malformed.                   *)

\* Fault: a page is asked for as the caller says, and SQL clamps it.
ClampNothing(limit) == IF limit = None THEN DefaultLimit ELSE limit

\* The clamp of page(), and of the SQL functions themselves.
Clamp(limit) ==
    CASE limit = None -> DefaultLimit
      [] limit # None /\ limit < 1 -> 1
      [] limit # None /\ limit >= 1 -> IF limit < MaxLimit THEN limit ELSE MaxLimit

SqlLimit(limit) == IF limit < 1 THEN 1 ELSE IF limit < MaxLimit THEN limit ELSE MaxLimit

\* The order of a listing: (created_at, id), newest first.
Below(r, s) == r.at < s.at \/ (r.at = s.at /\ r.id < s.id)

\* Fault: the cursor is the time alone, exclusive or inclusive.
AfterTime(r, cursor) == r.at < cursor.at
AfterOrAtTime(r, cursor) == r.at <= cursor.at

\* The keyset condition; the cursor is the last row's id and time.
After(r, cursor) == Below(r, cursor)

\* What list_audit_logs selects: the rows the reader may see, from inclusive
\* and to exclusive.  A filter by tenant excludes the rows without one.
Listed(ask, rows) ==
    {row \in rows : /\ row.tenant \in Readable
                    /\ ask.tenant \in {None, row.tenant}
                    /\ ask.from <= row.at
                    /\ ask.to # None => row.at < ask.to}

Rank(rows, r) == Cardinality({s \in rows : Below(r, s)})

\* order by created_at desc, id desc limit
Newest(rows, limit) ==
    [i \in 1 .. (IF limit < Cardinality(rows) THEN limit ELSE Cardinality(rows)) |->
        CHOOSE r \in rows : Rank(rows, r) = i - 1]

NoReader == [stage |-> "idle", ask |-> None, after |-> None, got |-> << >>, there |-> {}]

Open ==
    /\ reader.stage = "idle"
    /\ \E ask \in Listings :
          reader' = [reader EXCEPT !.stage = "reading", !.ask = ask, !.after = ask.after,
                                   !.there = Listed(ask, log)]
    /\ UNCHANGED <<now, log, writing, job, written, faults>>

\* page(): a cursor it did not make is refused; one it made is the last row.
Page ==
    LET ask == reader.ask
        rows == {r \in Listed(ask, log) : reader.after # None => After(r, reader.after)}
        page == Newest(rows, SqlLimit(Clamp(ask.limit)))
        full == Len(page) >= Clamp(ask.limit) /\ page # << >>
    IN  /\ reader.stage = "reading"
        /\ IF reader.after = Malformed THEN reader' = [reader EXCEPT !.stage = "refused"]
           ELSE reader' = [reader EXCEPT !.stage = IF full THEN "reading" ELSE "done",
                                         !.got = @ \o page,
                                         !.after = IF full THEN page[Len(page)] ELSE None]
        /\ UNCHANGED <<now, log, writing, job, written, faults>>

-----------------------------------------------------------------------------
Init ==
    /\ now = FirstTime /\ writing = {}
    /\ \E cast \in Casts :
          /\ log = cast.log
          /\ job = [j \in Jobs |-> IF j \in cast.jobs THEN NoJob ELSE [NoJob EXCEPT !.stage = "ended"]]
          /\ reader = IF cast.reads THEN NoReader ELSE [NoReader EXCEPT !.stage = "done"]
    /\ faults = 0 /\ written = 0

JobStep(j) == Batch(j) \/ Commit(j) \/ Abort(j)

Next ==
    \/ Tick \/ Insert \/ Open \/ Page
    \/ \E row \in writing : EndWrite(row)
    \/ \E j \in Jobs : JobStep(j) \/ Rerun(j)

\* A running job goes on, as does a reader; transactions end.
Spec ==
    /\ Init /\ [][Next]_vars
    /\ \A j \in Jobs : WF_vars(JobStep(j))
    /\ WF_vars(Page)

-----------------------------------------------------------------------------
(* Properties. *)

\* Every part of the state has its type, ids are unique, and a row of a
\* transaction that has not ended is not in the log.
TypeOK ==
    /\ now \in 0 .. MaxTime /\ written \in 0 .. MaxWrites /\ faults \in 0 .. MaxFaults
    /\ log \cup writing \subseteq Rows
    /\ \A r, s \in log \cup writing : r.id = s.id => r = s
    /\ log \cap writing = {}
    /\ \A j \in Jobs : job[j].stage \in {"idle", "sleeping", "inside", "ended", "failed"}
    /\ reader.stage \in {"idle", "reading", "refused", "done"}

\* Rows leave the log only by a prune, which in the same transaction adds the
\* record of their exact number; each was older than the record's cutoff and
\* of its filter, and none was itself a record: what was destroyed stays
\* accounted for (functions.sql:715-741).
HolesAreRecorded ==
    [][LET gone == log \ log'
       IN  gone # {} =>
              \E record \in log' \ log :
                 /\ IsRecord(record) /\ record.prune.count = Cardinality(gone)
                 /\ \A row \in gone : /\ ~IsRecord(row) /\ row.at < record.prune.before
                                      /\ record.tenant \in {None, row.tenant}]_vars

\* Zero rows with the lock held means that nothing older than the cutoff was
\* left to this filter, other than what prunes of another filter had locked:
\* a replica never ends its loop on account of another's batch of the same
\* filter (functions.sql:683-685).
ZeroIsFinal ==
    \A j \in Jobs : job[j].answer = Answer(0, TRUE) => job[j].older \subseteq job[j].elsewhere

\* The pages of a listing follow each other strictly downwards in (created_at,
\* id), so no row is read twice whatever is inserted or pruned meanwhile, and
\* no row outside the filter is read.
PagesDescend ==
    /\ \A i, k \in DOMAIN reader.got : i < k => Below(reader.got[k], reader.got[i])
    /\ \A i \in DOMAIN reader.got : Listed(reader.ask, {reader.got[i]}) # {}

\* A listing read to its end has every row of its filter that was there when
\* it began and has not been pruned since.
PagesComplete ==
    reader.stage = "done" => \A row \in reader.there : \E i \in DOMAIN reader.got : reader.got[i] = row

\* A retention job's loop ends although batches add rows, and a listing ends
\* although rows are inserted.
LoopsEnd ==
    /\ \A j \in Jobs : job[j].stage \in {"sleeping", "inside"} ~> job[j].stage \in {"ended", "failed"}
    /\ reader.stage = "reading" ~> reader.stage # "reading"
=============================================================================
