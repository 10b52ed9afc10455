---------------------------- MODULE PersonalSync ----------------------------
(***************************************************************************)
(* Synchronisation of the favourites and the history of one account.  A    *)
(* request pushes changes and pulls what is newer than the cursor of its   *)
(* device, in one READ COMMITTED transaction whose statements interleave   *)
(* with those of other requests and of the retention sweep.  Revisions     *)
(* come from one sequence, which is not transactional.  Rows of other      *)
(* accounts never meet these.                                              *)
(***************************************************************************)
EXTENDS Integers, Sequences, SequencesExt, FiniteSetsExt

CONSTANTS Favourites, Plays,   \* record ids of the two collections
          Clients, SyncProcs,  \* devices and browsers of the account, requests
          Browsers,            \* those of the clients that are browsers
          Batches,             \* the pushes considered
          MaxFavourites, MaxPlays, Skew, Retention, SweepInterval,
          MaxNow, MaxSyncs,    \* bounds: the clock, requests of one device
          Sweeper,             \* the retention sweep as a writer
          NoRecord

VARIABLES syncRow,    \* the committed rows of both tables
          sequence,   \* personal_data_sync_revision_seq
          now,        \* the clock of the server, in days
          job,        \* the request a process serves, or NoRecord
          mine,       \* rows written and not yet committed
          claimed,    \* rows locked
          seen,       \* what the pulling SELECTs have read
          cursor,     \* since_revision kept by each device
          view,       \* the records each device knows
          syncs,      \* requests sent by each device
          lastSweep,  \* LAST_RETENTION_SWEEP_UNIX
          sweep,      \* statement of the sweep to run next, or "none"
          account,    \* "active", "deleted" or "old": deleted long ago
          overtaken   \* history: records written beside a device's request

syncVars == <<syncRow, sequence, now, job, mine, claimed, seen, cursor, view,
              syncs, lastSweep, sweep, account, overtaken>>

Records == Favourites \cup Plays
Writers == SyncProcs \cup {Sweeper}
Times == 0 .. MaxNow + 1

(* A change pushed by a client.  started is when a play began.             *)
Change == [kind : {"upsert", "delete"}, rec : Records, at : Times,
           started : Times]
SyncRow == [at : Times, started : Times, dead : BOOLEAN, deadAt : Times,
            rev : Nat]

ASSUME SyncAssumption ==
    /\ Batches \subseteq Seq(Change)
    /\ Favourites \cap Plays = {} /\ Browsers \subseteq Clients
    /\ {MaxFavourites, MaxPlays, Skew, Retention, SweepInterval, MaxNow,
        MaxSyncs} \subseteq Nat
    /\ NoRecord \notin SyncRow /\ Sweeper \notin SyncProcs

IsUpsert(c) == c.kind = "upsert"
Part(b, set, kind) == SelectSeq(b, LAMBDA c : c.rec \in set /\ c.kind = kind)

(* SyncRequest::validate: no record twice in one batch, no upsert from the *)
(* future.  Deletions carry a time too, which is not looked at.            *)
ValidBatch(b, t) ==
    /\ \A i, j \in DOMAIN b : b[i].rec = b[j].rec => i = j
    /\ \A i \in DOMAIN b : IsUpsert(b[i]) => b[i].at <= t + Skew
                                             /\ b[i].started <= t + Skew

(* The statements of synchronize, in order.                                *)
Statement(name) == <<[kind |-> name]>>

PlayStatements(pu, pd) ==
    pu \o pd \o (IF pu = <<>> THEN <<>>
                 ELSE Statement("expire") \o Statement("limit_plays"))

Program(b) ==
    LET fu == Part(b, Favourites, "upsert")
    IN fu \o Part(b, Favourites, "delete")
         \o (IF fu = <<>> THEN <<>> ELSE Statement("limit_favourites"))
         \o PlayStatements(Part(b, Plays, "upsert"), Part(b, Plays, "delete"))
         \o Statement("read_favourites") \o Statement("read_plays")
         \o Statement("commit")

(* A statement of p sees its own writes and what others have committed.    *)
Visible(p, r) == IF mine[p][r] # NoRecord THEN mine[p][r] ELSE syncRow[r]

Unlocked(p, r) == \A q \in Writers \ {p} : r \notin claimed[q]
LiveRow(x) == x # NoRecord /\ ~x.dead
Outdated(x, t) == LiveRow(x) /\ x.started < t - Retention

NoRows == [r \in Records |-> NoRecord]

-----------------------------------------------------------------------------
SyncTypeOK ==
    /\ syncRow \in [Records -> SyncRow \cup {NoRecord}]
    /\ sequence \in Nat /\ now \in 0 .. MaxNow
    /\ mine \in [Writers -> [Records -> SyncRow \cup {NoRecord}]]
    /\ claimed \in [Writers -> SUBSET Records]
    /\ cursor \in [Clients -> Nat]
    /\ view \in [Clients -> [Records -> SyncRow \cup {NoRecord}]]
    /\ sweep \in {"none", "expire", "commit", "prune", "purge"}

SyncInit ==
    /\ syncRow = NoRows /\ sequence = 0 /\ now = 0
    /\ job = [p \in SyncProcs |-> NoRecord]
    /\ mine = [p \in Writers |-> NoRows]
    /\ claimed = [p \in Writers |-> {}]
    /\ seen = [p \in SyncProcs |-> NoRows]
    /\ cursor = [c \in Clients |-> 0]
    /\ view = [c \in Clients |-> NoRows]
    /\ syncs = [c \in Clients |-> 0]
    /\ lastSweep = 0 - SweepInterval /\ sweep = "none"
    /\ account = "active"
    /\ overtaken = [c \in Clients |-> {}]

-----------------------------------------------------------------------------
(* maybe_sweep_retention: whoever moves the timestamp starts the sweep.    *)
MaybeSweepRetention ==
    IF now - lastSweep < SweepInterval
    THEN UNCHANGED <<lastSweep, sweep>>
    ELSE lastSweep' = now /\ sweep' = "expire"

(* What the two handlers share once they know the account: the sweep,      *)
(* validation, begin.  now() is the time of begin throughout the           *)
(* transaction.  A client has one request at a time.                       *)
SyncStart(p, c, b) ==
    /\ job[p] = NoRecord /\ account = "active" /\ syncs[c] < MaxSyncs
    /\ \A q \in SyncProcs : job[q] # NoRecord => job[q].client # c
    /\ syncs' = [syncs EXCEPT ![c] = @ + 1]
    /\ MaybeSweepRetention
    /\ IF ValidBatch(b, now)
       THEN job' = [job EXCEPT ![p] = [client |-> c, pushed |-> b,
                                       since |-> cursor[c], began |-> now,
                                       todo |-> Program(b), beside |-> {}]]
       ELSE UNCHANGED job
    /\ UNCHANGED <<syncRow, sequence, now, mine, claimed, seen, cursor, view,
                   account, overtaken>>

(* The handler for devices, and the one for browser sessions.              *)
SyncRequest(p, c, b) == c \notin Browsers /\ SyncStart(p, c, b)
BrowserSyncRequest(p, c, b) == c \in Browsers /\ SyncStart(p, c, b)

AtStatement(p, names) == job[p] # NoRecord /\ Head(job[p].todo).kind \in names
Advance(p) == job' = [job EXCEPT ![p].todo = Tail(@)]

NewerOrEqual(old, c) == old = NoRecord \/ old.at <= c.at

NewerThan(old, c) == old = NoRecord \/ old.at < c.at

(* apply_favourite_upsert, apply_history_upsert: nextval is taken whether  *)
(* or not the row is written, and the row is locked either way.            *)
ApplyUpsert(p) ==
    LET c == Head(job[p].todo)
        old == Visible(p, c.rec)
    IN /\ AtStatement(p, {"upsert"})
       /\ Unlocked(p, c.rec)
       /\ sequence' = sequence + 1
       /\ claimed' = [claimed EXCEPT ![p] = @ \cup {c.rec}]
       /\ mine' = IF NewerThan(old, c)
                  THEN [mine EXCEPT ![p][c.rec] =
                          [at |-> c.at, started |-> c.started, dead |-> FALSE,
                           deadAt |-> 0, rev |-> sequence']]
                  ELSE mine
       /\ Advance(p)
       /\ UNCHANGED <<syncRow, now, seen, cursor, view, syncs, lastSweep,
                      sweep, account, overtaken>>

(* apply_favourite_delete, apply_history_delete: an unknown record becomes *)
(* a bare tombstone, a tombstone is left as it is.                         *)
ApplyDelete(p) ==
    LET c == Head(job[p].todo)
        old == Visible(p, c.rec)
    IN /\ AtStatement(p, {"delete"})
       /\ Unlocked(p, c.rec)
       /\ sequence' = sequence + 1
       /\ claimed' = [claimed EXCEPT ![p] = @ \cup {c.rec}]
       /\ mine' = IF old = NoRecord \/ (old.at < c.at /\ ~old.dead)
                  THEN [mine EXCEPT ![p][c.rec] =
                          [at |-> c.at,
                           started |-> IF old = NoRecord THEN c.at
                                                       ELSE old.started,
                           dead |-> TRUE, deadAt |-> c.at, rev |-> sequence']]
                  ELSE mine
       /\ Advance(p)
       /\ UNCHANGED <<syncRow, now, seen, cursor, view, syncs, lastSweep,
                      sweep, account, overtaken>>

(* expire_user_history: every row takes a revision of its own.             *)
ExpiredRows(w, old, t) ==
    LET nth == SetToSeq(old)
    IN [r \in Records |->
          IF r \in old
          THEN [Visible(w, r) EXCEPT !.dead = TRUE, !.deadAt = t, !.at = t,
                  !.rev = sequence + CHOOSE i \in DOMAIN nth : nth[i] = r]
          ELSE mine[w][r]]

ExpireOwn(p) ==
    LET t == job[p].began
        old == {r \in Plays : Outdated(Visible(p, r), t)}
    IN /\ AtStatement(p, {"expire"})
       /\ \A r \in old : Unlocked(p, r)
       /\ claimed' = [claimed EXCEPT ![p] = @ \cup old]
       /\ mine' = [mine EXCEPT ![p] = ExpiredRows(p, old, t)]
       /\ sequence' = sequence + Cardinality(old)
       /\ Advance(p)
       /\ UNCHANGED <<syncRow, now, seen, cursor, view, syncs, lastSweep,
                      sweep, account, overtaken>>

Abandon(p) ==
    /\ job' = [job EXCEPT ![p] = NoRecord]
    /\ mine' = [mine EXCEPT ![p] = NoRows]
    /\ claimed' = [claimed EXCEPT ![p] = {}]
    /\ seen' = [seen EXCEPT ![p] = NoRows]

(* The same at a commit, which the open requests note.                     *)
Written(q) == {r \in Records : mine[q][r] # NoRecord}
Noted(w, p) == IF job[p] = NoRecord THEN NoRecord
               ELSE [job[p] EXCEPT !.beside = @ \cup Written(w)]
AbandonBeside(p) ==
    /\ job' = [q \in SyncProcs |-> IF q = p THEN NoRecord ELSE Noted(p, q)]
    /\ mine' = [mine EXCEPT ![p] = NoRows]
    /\ claimed' = [claimed EXCEPT ![p] = {}]
    /\ seen' = [seen EXCEPT ![p] = NoRows]

(* enforce_live_limit: the whole batch is refused.                         *)
CheckLimit(p) ==
    LET here == IF Head(job[p].todo).kind = "limit_plays"
                THEN <<Plays, MaxPlays>> ELSE <<Favourites, MaxFavourites>>
        live == {r \in here[1] : LiveRow(Visible(p, r))}
    IN /\ AtStatement(p, {"limit_favourites", "limit_plays"})
       /\ IF Cardinality(live) > here[2]
          THEN Abandon(p)
          ELSE Advance(p) /\ UNCHANGED <<mine, claimed, seen>>
       /\ UNCHANGED <<syncRow, sequence, now, cursor, view, syncs, lastSweep,
                      sweep, account, overtaken>>

(* Each table is read by a statement of its own.                           *)
ReadTable(p) ==
    LET table == IF Head(job[p].todo).kind = "read_plays" THEN Plays
                                                          ELSE Favourites
    IN /\ AtStatement(p, {"read_favourites", "read_plays"})
       /\ seen' = [seen EXCEPT ![p] = [r \in Records |->
                     IF r \in table THEN Visible(p, r) ELSE @[r]]]
       /\ Advance(p)
       /\ UNCHANGED <<syncRow, sequence, now, mine, claimed, cursor, view,
                      syncs, lastSweep, sweep, account, overtaken>>

(* delta_and_echo: records newer than the cursor move it; pushed records   *)
(* are returned in any case.                                               *)
Delta(p) == {r \in Records : seen[p][r] # NoRecord
                               /\ seen[p][r].rev > job[p].since}
PushedIds(p) == {job[p].pushed[i].rec : i \in DOMAIN job[p].pushed}
Echo(p) == {r \in PushedIds(p) : seen[p][r] # NoRecord}
NewCursorNext(p) == Max({seen[p][r].rev : r \in Delta(p)} \cup {job[p].since}) + 1

NewCursor(p) == Max({seen[p][r].rev : r \in Delta(p)} \cup {job[p].since})

(* The commit; the client applies the answer unless it is lost.            *)
SyncCommit(p, answered) ==
    LET c == job[p].client
    IN /\ AtStatement(p, {"commit"})
       /\ syncRow' = [r \in Records |-> Visible(p, r)]
       /\ IF answered
          THEN /\ view' = [view EXCEPT ![c] = [r \in Records |->
                             IF r \in Delta(p) \cup Echo(p)
                             THEN seen[p][r] ELSE @[r]]]
               /\ cursor' = [cursor EXCEPT ![c] = NewCursor(p)]
               /\ overtaken' = [overtaken EXCEPT ![c] =
                    (@ \ (Delta(p) \cup Echo(p))) \cup job[p].beside
                      \cup UNION {Written(q) : q \in Writers \ {p}}]
          ELSE UNCHANGED <<view, cursor, overtaken>>
       /\ AbandonBeside(p)
       /\ UNCHANGED <<sequence, now, syncs, lastSweep, sweep, account>>

(* A statement fails, or the database ends a deadlock.                     *)
SyncFail(p) ==
    /\ job[p] # NoRecord
    /\ Abandon(p)
    /\ UNCHANGED <<syncRow, sequence, now, cursor, view, syncs, lastSweep,
                   sweep, account, overtaken>>

-----------------------------------------------------------------------------
(* sweep_retention: each statement commits by itself, waits for the rows   *)
(* it changes, and a failing one ends the sweep.                           *)
NobodyLocks(set) == \A p \in SyncProcs : claimed[p] \cap set = {}

ReleaseSweeper ==
    /\ mine' = [mine EXCEPT ![Sweeper] = NoRows]
    /\ claimed' = [claimed EXCEPT ![Sweeper] = {}]

SweepExpire ==
    LET old == {r \in Plays : Outdated(syncRow[r], now)}
    IN /\ sweep = "expire" /\ NobodyLocks(old)
       /\ claimed' = [claimed EXCEPT ![Sweeper] = old]
       /\ mine' = [mine EXCEPT ![Sweeper] = ExpiredRows(Sweeper, old, now)]
       /\ sequence' = sequence + Cardinality(old)
       /\ sweep' = "commit"
       /\ UNCHANGED <<syncRow, now, job, seen, cursor, view, syncs,
                      lastSweep, account, overtaken>>

SweepCommit ==
    /\ sweep = "commit"
    /\ syncRow' = [r \in Records |-> Visible(Sweeper, r)]
    /\ ReleaseSweeper
    /\ job' = [p \in SyncProcs |-> Noted(Sweeper, p)]
    /\ sweep' = "prune"
    /\ UNCHANGED <<sequence, now, seen, cursor, view, syncs, lastSweep,
                   account, overtaken>>

(* prune_tombstones, for both tables.                                      *)
SweepPrune ==
    LET old == {r \in Records : syncRow[r] # NoRecord /\ syncRow[r].dead
                                  /\ syncRow[r].deadAt < now - Retention}
    IN /\ sweep = "prune" /\ NobodyLocks(old)
       /\ syncRow' = [r \in Records |-> IF r \in old THEN NoRecord
                                                     ELSE syncRow[r]]
       /\ sweep' = "purge"
       /\ UNCHANGED <<sequence, now, job, mine, claimed, seen, cursor, view,
                      syncs, lastSweep, account, overtaken>>

(* purge_deleted_account_rows.                                             *)
SweepPurge ==
    /\ sweep = "purge" /\ NobodyLocks(Records)
    /\ syncRow' = IF account = "old" THEN NoRows ELSE syncRow
    /\ sweep' = "none"
    /\ UNCHANGED <<sequence, now, job, mine, claimed, seen, cursor, view,
                   syncs, lastSweep, account, overtaken>>

SweepFail ==
    /\ sweep # "none" /\ sweep' = "none"
    /\ ReleaseSweeper
    /\ UNCHANGED <<syncRow, sequence, now, job, seen, cursor, view,
                   syncs, lastSweep, account, overtaken>>

(* Time passes; the account is deleted, and 30 days later it is old.       *)
SyncTick ==
    /\ now < MaxNow /\ now' = now + 1
    /\ UNCHANGED <<syncRow, sequence, job, mine, claimed, seen, cursor, view,
                   syncs, lastSweep, sweep, account, overtaken>>

SyncAccountDeleted ==
    /\ \/ account = "active" /\ account' = "deleted"
       \/ /\ account = "deleted" /\ \A p \in SyncProcs : job[p] = NoRecord
          /\ account' = "old"
    /\ UNCHANGED <<syncRow, sequence, now, job, mine, claimed, seen, cursor,
                   view, syncs, lastSweep, sweep, overtaken>>

SyncNext ==
    \/ \E p \in SyncProcs, c \in Clients, b \in Batches :
         SyncRequest(p, c, b) \/ BrowserSyncRequest(p, c, b)
    \/ \E p \in SyncProcs :
         \/ ApplyUpsert(p) \/ ApplyDelete(p) \/ ExpireOwn(p) \/ CheckLimit(p)
         \/ ReadTable(p) \/ SyncFail(p)
         \/ \E answered \in BOOLEAN : SyncCommit(p, answered)
    \/ SweepExpire \/ SweepCommit \/ SweepPrune \/ SweepPurge \/ SweepFail
    \/ SyncTick \/ SyncAccountDeleted

SyncSpec == SyncInit /\ [][SyncNext]_syncVars

-----------------------------------------------------------------------------
(* A device that has cursor n knows every record whose revision is at most *)
(* n, so that asking for what is newer misses nothing, except for records  *)
(* that another transaction wrote while the device's request was open:     *)
(* nextval is taken long before the commit, so a revision may appear below *)
(* a cursor that has already passed it.                                    *)
CursorCovers ==
    \A c \in Clients : \A r \in Records \ overtaken[c] :
        (syncRow[r] # NoRecord /\ syncRow[r].rev <= cursor[c])
            => view[c][r] = syncRow[r]

(* The revision of a row tells its change from every other one.            *)
RevisionsDistinct ==
    \A q, r \in Records :
        (q # r /\ syncRow[q] # NoRecord /\ syncRow[r] # NoRecord)
            => syncRow[q].rev # syncRow[r].rev

(* A row never goes back to an earlier revision: whatever overlaps, each   *)
(* committed change of a record is newer than the one it replaces.         *)
RevisionNeverBack ==
    \A r \in Records :
        (syncRow[r] # NoRecord /\ syncRow'[r] # NoRecord /\ syncRow'[r] # syncRow[r])
        => syncRow'[r].rev > syncRow[r].rev

(* A deleted record comes back only by a change that is later than its     *)
(* tombstone.                                                              *)
NoResurrection ==
    \A r \in Records :
        (syncRow[r] # NoRecord /\ syncRow[r].dead /\ LiveRow(syncRow'[r]))
        => syncRow'[r].at > syncRow[r].at

(* No commit leaves a play in the history that was already past the        *)
(* retention period when the request began.                                *)
NoExpiredAdded ==
    \A r \in Plays : \A p \in SyncProcs :
        (job[p] # NoRecord /\ job'[p] = NoRecord /\ syncRow'[r] # syncRow[r])
        => ~Outdated(syncRow'[r], job[p].began)

(* What a client of http/sync.rs may rely on: revisions name changes, and  *)
(* its cursor stands for what it has.                                      *)
SyncSafe == RevisionsDistinct /\ CursorCovers

(* What no commit of synchronize or of the sweep may do to a record.       *)
SyncSteps == [][RevisionNeverBack /\ NoResurrection /\ NoExpiredAdded]_syncVars
=============================================================================
