--------------------------- MODULE CatalogImport ---------------------------
(***************************************************************************)
(* The station catalog: runs of CatalogImporter (catalog/import.rs), the   *)
(* activation of the shared release and the bootstrap of a server          *)
(* (persistence/import_postgres.rs, postgres.rs), the embedding backfill   *)
(* and the stream probe, all of them processes over one PostgreSQL.        *)
(*                                                                         *)
(* A transaction is a sequence of statements at READ COMMITTED.  What it   *)
(* writes is kept in catWork until the commit; a row it wrote is locked,   *)
(* and a second writer waits.  A process may fail at any statement: a lost *)
(* connection, or the victim of a deadlock.                                *)
(***************************************************************************)
EXTENDS Integers, Sequences, FiniteSets, TLC, Sample

CONSTANTS CatIds,        \* station ids, numbered in their order
          CatNames,      \* stream names of a station
          CatReleases,   \* shared releases, all of them past the preflight
          CatAnswers,    \* what Radio Browser may answer
          Activators, Bootstraps, Importers,
          CatPageSize, MaxCatPages, FillPage, MaxFills, MaxProbes,
          NoRow

VARIABLES catStation,    \* stations, by id
          catStream,     \* station_streams, by id and name
          catTomb,       \* catalog_tombstones
          catEmbedding,  \* station_embeddings: the text each one was made of
          catRun,        \* import_runs, one for each process
          catWork,       \* the processes
          catFill,       \* the embedding backfill
          catProbe,      \* the stream probe: URLs still to be reported
          catCurrent,    \* history: the release of the last activation
          catStored,     \* history: stations each run has committed
          catOvertaken   \* history: stations that changed under a reader

catTables == <<catStation, catStream, catTomb, catEmbedding>>
catHistory == <<catCurrent, catStored, catOvertaken>>
catVars == <<catTables, catRun, catWork, catFill, catProbe, catHistory>>

CatProcs == Activators \cup Bootstraps \cup Importers
CatSource(p) == IF p \in Importers THEN "radio" ELSE "rockcatalog"

(* Two reviewed releases have a station in common.  Activations of two     *)
(* releases without one would not wait for each other.                     *)
ASSUME ReleasesOverlap ==
  \A r1, r2 \in CatReleases : DOMAIN r1.meta \cap DOMAIN r2.meta # {}

-----------------------------------------------------------------------------
(* The preflight of a release: its tombstones and their replacements.      *)

(* replacement_graph_has_cycle: a depth-first search that keeps its path. *)
HasCycle(graph, id) ==
  LET Visit[path \in SUBSET DOMAIN graph, n \in DOMAIN graph] ==
        \/ n \in path
        \/ \E m \in graph[n] \cap DOMAIN graph : Visit[path \cup {n}, m]
  IN Visit[{}, id]

(* The tombstones of a document that validate_document accepts. *)
TombstonesValid(active, tombstones) ==
  /\ DOMAIN tombstones \cap active = {}
  /\ \A id \in DOMAIN tombstones :
       LET to == tombstones[id].to IN
       /\ CASE tombstones[id].reason = "removed" -> to = {}
            [] tombstones[id].reason = "merged" -> Cardinality(to) = 1
            [] tombstones[id].reason = "split" -> Cardinality(to) >= 2
       /\ id \notin to
       /\ to \subseteq (active \cup DOMAIN tombstones)
       /\ ~HasCycle([i \in DOMAIN tombstones |-> tombstones[i].to], id)

(* A station of a document: at least one stream, exactly one primary. *)
StationValid(entry) ==
  /\ entry.streams # <<>>
  /\ entry.primary \in DOMAIN entry.streams

ASSUME ReleasesPreflighted ==
  \A r \in CatReleases :
     /\ DOMAIN r.meta # {}
     /\ TombstonesValid(DOMAIN r.meta, r.tombstones)
     /\ \A i \in 1..Len(r.entries) : StationValid(r.entries[i])
     /\ DOMAIN r.meta = {r.entries[i].id : i \in 1..Len(r.entries)}

(* What a release says of a retired id: replacement_for. *)
ReplacementFor(release, id) ==
  IF id \notin DOMAIN release.tombstones
    THEN [found |-> "unknown", to |-> {}]
    ELSE LET t == release.tombstones[id] IN
         [found |-> CASE t.reason = "merged" -> "redirect"
                      [] t.reason = "split" -> "ambiguous"
                      [] OTHER -> "removed",
          to |-> t.to]

(* What the database says of it: lookup_shared_catalog_replacement. *)
LookupReplacement(id) ==
  IF catTomb[id] = NoRow
    THEN [found |-> "unknown", to |-> {}]
    ELSE [found |-> CASE catTomb[id].reason = "removed" -> "removed"
                      [] catTomb[id].reason = "merged" -> "redirect"
                      [] catTomb[id].reason = "split" -> "ambiguous",
          to |-> catTomb[id].to]

-----------------------------------------------------------------------------
CatIdle == [stage |-> "idle"]
CatAt(p, stage) == catWork[p].stage = stage
CatBecome(p, job) == catWork' = [catWork EXCEPT ![p] = job]

(* Rows of a station that an open transaction has written or retired. *)
InTransaction(p) == catWork[p].stage \in {"check", "write", "retire", "commit"}
RowsHeld(p) ==
  IF ~InTransaction(p) THEN {}
  ELSE {catWork[p].wrote[i].id : i \in 1..Len(catWork[p].wrote)} \cup catWork[p].gone

RowsFree(p, ids) == \A q \in CatProcs \ {p} : RowsHeld(q) \cap ids = {}

-----------------------------------------------------------------------------
(* The run and its row.                                                    *)

Transaction(p, entries, extra) ==
  [stage |-> IF entries = <<>> THEN "retire" ELSE "check",
   todo |-> entries, wrote |-> <<>>, gone |-> {}, seen |-> NoRow] @@ extra

StartRunRow(p) ==
  /\ catRun[p] = NoRow
  /\ catRun' = [catRun EXCEPT ![p] =
       [status |-> "started", fetched |-> 0, imported |-> 0, skipped |-> 0, failed |-> 0]]

(* finish_run: only a started run is finished, otherwise an error. *)
FinishRun(p, status, counts) ==
  IF catRun[p].status = "started"
    THEN catRun' = [catRun EXCEPT ![p] = [status |-> status] @@ counts]
    ELSE UNCHANGED catRun

NoCounts == [fetched |-> 0, imported |-> 0, skipped |-> 0, failed |-> 0]

(* PostgresStationRepository::connect: only an empty catalog is activated. *)
BootstrapCheck(p) ==
  /\ p \in Bootstraps
  /\ CatAt(p, "idle")
  /\ catRun[p] = NoRow
  /\ CatBecome(p, [stage |-> IF \E s \in CatIds : catStation[s] # NoRow /\ ~catStation[s].retired
                            THEN "done" ELSE "empty"])
  /\ UNCHANGED <<catTables, catRun, catFill, catProbe, catHistory>>

(* activate_shared_catalog up to the start of its transaction. *)
Activate(p, release) ==
  /\ \/ p \in Activators /\ CatAt(p, "idle")
     \/ p \in Bootstraps /\ CatAt(p, "empty")
  /\ StartRunRow(p)
  /\ CatBecome(p, Transaction(p, release.entries,
                 [release |-> release,
                  counts |-> [NoCounts EXCEPT !.fetched = Len(release.entries)]]))
  /\ UNCHANGED <<catTables, catFill, catProbe, catHistory>>

(* CatalogImporter::run up to its first page. *)
StartImport(p) ==
  /\ p \in Importers
  /\ CatAt(p, "idle")
  /\ StartRunRow(p)
  /\ CatBecome(p, [stage |-> "fetch", page |-> 0, counts |-> NoCounts])
  /\ UNCHANGED <<catTables, catFill, catProbe, catHistory>>

(* try_from: what a DTO lacks, if anything, makes it one to skip.          *)
DtoValid(dto) == dto.lacks \notin {"check", "identity", "name", "stream"}

(* fetch_page of the Radio Browser client: the DTOs of an answer as a page *)
(* in the order of their ids, or an error.                                 *)
RadioBrowserPage(answer) ==
  LET valid == SelectSeq(answer.dtos, DtoValid)
      found == [i \in DOMAIN valid |-> valid[i].station]
  IN [error |-> answer.error, foreign |-> answer.foreign, fetched |-> Len(answer.dtos),
      stations |-> SortSeq(found, LAMBDA x, y : x.id < y.id),
      skipped |-> Len(answer.dtos) - Len(valid)]

(* One turn of its loop up to upsert_batch: the provider's page, the       *)
(* counts, and the check that every station carries the run's source.      *)
FetchPage(p, answer) ==
  /\ CatAt(p, "fetch")
  /\ LET job == catWork[p]
         page == RadioBrowserPage(answer)
         last == page.fetched < CatPageSize \/ job.page + 1 = MaxCatPages
         counts == [job.counts EXCEPT !.fetched = @ + page.fetched, !.skipped = @ + page.skipped]
         failing == [stage |-> "failing",
                     counts |-> [counts EXCEPT !.failed = @ + Len(page.stations)]]
     IN CatBecome(p, CASE page.error -> [stage |-> "failing", counts |-> job.counts]
                    [] ~page.error /\ page.foreign -> failing
                    [] ~page.error /\ ~page.foreign /\ page.stations = <<>> ->
                         [stage |-> IF last THEN "completing" ELSE "fetch",
                          page |-> job.page + 1, counts |-> counts]
                    [] OTHER -> Transaction(p, page.stations,
                         [page |-> job.page + 1, last |-> last, counts |-> counts]))
  /\ UNCHANGED <<catTables, catRun, catFill, catProbe, catHistory>>

-----------------------------------------------------------------------------
(* upsert_stations, one station at a time.                                 *)

Collides(p, id) ==
  catStation[id] # NoRow /\ catStation[id].source # CatSource(p)

AbortTo(p) ==
  LET job == catWork[p] IN
  [stage |-> "failing",
   counts |-> IF p \in Importers
                THEN [job.counts EXCEPT !.failed = @ + Len(job.wrote) + Len(job.todo)]
                ELSE job.counts]

(* The collision check and the comparison with the stored metadata, which  *)
(* read without a lock.                                                    *)
CheckStation(p) ==
  /\ CatAt(p, "check")
  /\ LET id == Head(catWork[p].todo).id IN
     IF Collides(p, id) \/ ~StationValid(Head(catWork[p].todo))
       THEN CatBecome(p, AbortTo(p))
       ELSE CatBecome(p, [catWork[p] EXCEPT !.stage = "write", !.seen = catStation[id]])
  /\ UNCHANGED <<catTables, catRun, catFill, catProbe, catHistory>>

MetadataChanged(seen, entry) == seen # NoRow /\ seen.meta # entry.meta

(* The upserts of the row, of its icon source and of its streams, and the  *)
(* deletion of its embeddings.  An id taken meanwhile by another source is *)
(* a unique-key error.                                                     *)
WriteStation(p) ==
  /\ CatAt(p, "write")
  /\ LET job == catWork[p]
         entry == Head(job.todo)
         id == entry.id
         drops == MetadataChanged(job.seen, entry) /\ catEmbedding[id] # NoRow
         written == [id |-> id, entry |-> entry, drops |-> drops,
                     seen |-> job.seen, embedded |-> catEmbedding[id]]
     IN /\ RowsFree(p, {id})
        /\ CatBecome(p, IF Collides(p, id) THEN AbortTo(p)
                     ELSE [job EXCEPT !.stage = IF Tail(job.todo) = <<>> THEN "retire" ELSE "check",
                                      !.todo = Tail(job.todo), !.wrote = Append(@, written)])
  /\ UNCHANGED <<catTables, catRun, catFill, catProbe, catHistory>>

(* The stations of the source that the release no longer has.  A batch of  *)
(* the importer retires nothing.                                           *)
RetireRest(p) ==
  /\ CatAt(p, "retire")
  /\ LET gone == IF p \in Importers THEN {}
                 ELSE {s \in CatIds : /\ catStation[s] # NoRow
                                      /\ catStation[s].source = CatSource(p)
                                      /\ ~catStation[s].retired
                                      /\ s \notin DOMAIN catWork[p].release.meta}
     IN /\ RowsFree(p, gone)
        /\ CatBecome(p, [catWork[p] EXCEPT !.stage = "commit", !.gone = gone])
  /\ UNCHANGED <<catTables, catRun, catFill, catProbe, catHistory>>

-----------------------------------------------------------------------------
(* What a commit makes visible.                                            *)

EntryOf(p, s) == CHOOSE w \in {catWork[p].wrote[i] : i \in 1..Len(catWork[p].wrote)} : w.id = s
WrittenBy(p) == {catWork[p].wrote[i].id : i \in 1..Len(catWork[p].wrote)}

StationRows(p) ==
  [s \in CatIds |->
     CASE s \in WrittenBy(p) ->
            [source |-> CatSource(p), meta |-> EntryOf(p, s).entry.meta, retired |-> FALSE]
       [] s \in catWork[p].gone -> [catStation[s] EXCEPT !.retired = TRUE]
       [] OTHER -> catStation[s]]

(* A stream keeps its health only with its URL. *)
HealthKept(row, url) == IF row = NoRow \/ row.url # url THEN NoRow ELSE row.health

LeftOutFlagged(p, row) == [row EXCEPT !.retired = @ \/ p \notin Importers]

(* A stream its station no longer has loses the primary flag; only an      *)
(* activation also retires it.                                             *)
LeftOut(p, row) == [row EXCEPT !.primary = FALSE, !.retired = @ \/ p \notin Importers]

StreamRows(p) ==
  [s \in CatIds |-> [n \in CatNames |->
     LET row == catStream[s][n] IN
     CASE s \in WrittenBy(p) /\ n \in DOMAIN EntryOf(p, s).entry.streams ->
            LET e == EntryOf(p, s).entry IN
            [url |-> e.streams[n], primary |-> n = e.primary, retired |-> FALSE,
             health |-> HealthKept(row, e.streams[n])]
       [] s \in (WrittenBy(p) \cup catWork[p].gone) /\ row # NoRow
             /\ ~(s \in WrittenBy(p) /\ n \in DOMAIN EntryOf(p, s).entry.streams) ->
            LeftOut(p, row)
       [] OTHER -> row]]

EmbeddingRows(p) ==
  [s \in CatIds |-> IF s \in WrittenBy(p) /\ EntryOf(p, s).drops THEN NoRow ELSE catEmbedding[s]]

TombstoneRows(release) ==
  [s \in CatIds |-> IF s \in DOMAIN release.tombstones THEN release.tombstones[s] ELSE NoRow]

(* Stations whose text changes while the backfill holds it, or of which    *)
(* something changed since the transaction looked.                         *)
Overtakes(p) ==
  {s \in WrittenBy(p) :
     LET w == EntryOf(p, s) IN
     /\ catStation[s] # NoRow /\ catStation[s].meta # w.entry.meta
     /\ \/ \E i \in 1..Len(catFill.page) : catFill.page[i].id = s
        \/ w.seen # catStation[s]
        \/ w.embedded # catEmbedding[s]}

CommitRows(p) ==
  /\ catStation' = StationRows(p)
  /\ catStream' = StreamRows(p)
  /\ catEmbedding' = EmbeddingRows(p)
  /\ catStored' = [catStored EXCEPT ![p] = @ + Len(catWork[p].wrote)]
  /\ catOvertaken' = catOvertaken \cup Overtakes(p)

(* The commit of upsert_batch.  When the reply is lost the importer counts *)
(* the page as failed although it is stored.                               *)
CommitBatch(p, heard) ==
  /\ p \in Importers
  /\ CatAt(p, "commit")
  /\ CommitRows(p)
  /\ LET job == catWork[p] IN
     CatBecome(p, IF ~heard THEN AbortTo(p)
               ELSE [stage |-> IF job.last THEN "completing" ELSE "fetch", page |-> job.page,
                     counts |-> [job.counts EXCEPT !.imported = @ + Len(job.wrote)]])
  /\ UNCHANGED <<catTomb, catRun, catFill, catProbe, catCurrent>>

(* The commit of an activation, with its tombstones and the end of its run *)
CommitRelease(p, heard) ==
  /\ p \notin Importers
  /\ CatAt(p, "commit")
  /\ CommitRows(p)
  /\ catTomb' = TombstoneRows(catWork[p].release)
  /\ catCurrent' = catWork[p].release
  /\ FinishRun(p, "completed", [catWork[p].counts EXCEPT !.imported = Len(catWork[p].wrote)])
  /\ CatBecome(p, IF heard THEN [stage |-> "done"] ELSE AbortTo(p))
  /\ UNCHANGED <<catFill, catProbe>>

(* A statement of the transaction fails and everything is rolled back. *)
TransactionFails(p) ==
  /\ InTransaction(p)
  /\ CatBecome(p, AbortTo(p))
  /\ UNCHANGED <<catTables, catRun, catFill, catProbe, catHistory>>

(* record_failure and fail_run. *)
RecordFailure(p) ==
  /\ CatAt(p, "failing")
  /\ FinishRun(p, "failed", catWork[p].counts)
  /\ CatBecome(p, [stage |-> "done"])
  /\ UNCHANGED <<catTables, catFill, catProbe, catHistory>>

CompleteRun(p) ==
  /\ CatAt(p, "completing")
  /\ FinishRun(p, "completed", catWork[p].counts)
  /\ CatBecome(p, [stage |-> "done"])
  /\ UNCHANGED <<catTables, catFill, catProbe, catHistory>>

(* The last statement fails, or the process ends: the run stays started. *)
RunAbandoned(p) ==
  /\ catWork[p].stage \in {"failing", "completing"}
  /\ CatBecome(p, [stage |-> "done"])
  /\ UNCHANGED <<catTables, catRun, catFill, catProbe, catHistory>>

-----------------------------------------------------------------------------
(* EmbeddingBackfill::run: pages of documents in the order of their ids,   *)
(* each document embedded and stored on its own.                           *)

StationDocuments(after) ==
  LET found == {s \in CatIds : s > after /\ catStation[s] # NoRow}
      page == {s \in found : Cardinality({t \in found : t < s}) < FillPage}
      Nth(i) == CHOOSE s \in page : Cardinality({t \in page : t < s}) = i - 1
  IN [i \in 1..Cardinality(page) |-> [id |-> Nth(i), meta |-> catStation[Nth(i)].meta]]

FillRead ==
  /\ catFill.page = <<>>
  /\ catFill.more
  /\ LET page == StationDocuments(catFill.cursor) IN
     catFill' = [catFill EXCEPT !.page = page, !.more = Len(page) = FillPage]
  /\ UNCHANGED <<catTables, catRun, catWork, catProbe, catHistory>>

(* upsert_embedding waits for a transaction that deletes the same row. *)
FillStore ==
  /\ catFill.page # <<>>
  /\ LET doc == Head(catFill.page) IN
     /\ \A p \in CatProcs : InTransaction(p) =>
          \A i \in 1..Len(catWork[p].wrote) :
             ~(catWork[p].wrote[i].id = doc.id /\ catWork[p].wrote[i].drops)
     /\ catEmbedding' = [catEmbedding EXCEPT ![doc.id] = doc.meta]
     /\ catOvertaken' = IF doc.meta = catStation[doc.id].meta
                          THEN catOvertaken \ {doc.id} ELSE catOvertaken
     /\ catFill' = [catFill EXCEPT !.page = Tail(@), !.cursor = doc.id]
  /\ UNCHANGED <<catStation, catStream, catTomb, catRun, catWork, catProbe, catCurrent, catStored>>

(* The provider or the database fails: the backfill ends. *)
FillFails ==
  /\ catFill.page # <<>>
  /\ catFill' = [catFill EXCEPT !.page = <<>>, !.more = FALSE]
  /\ UNCHANGED <<catTables, catRun, catWork, catProbe, catHistory>>

FillAgain ==
  /\ catFill.page = <<>> /\ ~catFill.more /\ catFill.runs < MaxFills
  /\ catFill' = [page |-> <<>>, more |-> TRUE, cursor |-> 0, runs |-> catFill.runs + 1]
  /\ UNCHANGED <<catTables, catRun, catWork, catProbe, catHistory>>

-----------------------------------------------------------------------------
(* The probe: a batch of URLs, probed concurrently, each verdict written   *)
(* to the streams that have the URL by then.                               *)

StreamsToProbe ==
  /\ catProbe.urls = {} /\ catProbe.runs < MaxProbes
  /\ catProbe' = [urls |-> {catStream[s][n].url : <<s, n>> \in
                              {x \in CatIds \X CatNames : catStream[x[1]][x[2]] # NoRow}},
                  runs |-> catProbe.runs + 1]
  /\ UNCHANGED <<catTables, catRun, catWork, catFill, catHistory>>

UpdateStreamHealth(url) ==
  /\ url \in catProbe.urls
  /\ LET hit == {x \in CatIds \X CatNames :
                   catStream[x[1]][x[2]] # NoRow /\ catStream[x[1]][x[2]].url = url}
     IN /\ \A x \in hit : \A p \in CatProcs : x[1] \notin RowsHeld(p)
        /\ catStream' = [s \in CatIds |-> [n \in CatNames |->
             IF <<s, n>> \in hit THEN [catStream[s][n] EXCEPT !.health = url]
                                 ELSE catStream[s][n]]]
  /\ catProbe' = [catProbe EXCEPT !.urls = @ \ {url}]
  /\ UNCHANGED <<catStation, catTomb, catEmbedding, catRun, catWork, catFill, catHistory>>

ProbeLost(url) ==
  /\ url \in catProbe.urls
  /\ catProbe' = [catProbe EXCEPT !.urls = @ \ {url}]
  /\ UNCHANGED <<catTables, catRun, catWork, catFill, catHistory>>

-----------------------------------------------------------------------------
CatalogInit ==
  /\ catStation = [s \in CatIds |-> NoRow]
  /\ catStream = [s \in CatIds |-> [n \in CatNames |-> NoRow]]
  /\ catTomb = [s \in CatIds |-> NoRow]
  /\ catEmbedding = [s \in CatIds |-> NoRow]
  /\ catRun = [p \in CatProcs |-> NoRow]
  /\ catWork = [p \in CatProcs |-> CatIdle]
  /\ catFill = [page |-> <<>>, more |-> FALSE, cursor |-> 0, runs |-> 0]
  /\ catProbe = [urls |-> {}, runs |-> 0]
  /\ catCurrent = NoRow
  /\ catStored = [p \in CatProcs |-> 0]
  /\ catOvertaken = {}

ImportStep(p) ==
  \/ BootstrapCheck(p)
  \/ \E r \in CatReleases : Activate(p, r)
  \/ StartImport(p)
  \/ \E answer \in CatAnswers : FetchPage(p, answer)
  \/ CheckStation(p)
  \/ WriteStation(p)
  \/ RetireRest(p)
  \/ \E heard \in BOOLEAN : CommitBatch(p, heard) \/ CommitRelease(p, heard)
  \/ TransactionFails(p)
  \/ RecordFailure(p)
  \/ CompleteRun(p)
  \/ RunAbandoned(p)

CatalogNext ==
  \/ \E p \in CatProcs : ImportStep(p)
  \/ FillRead \/ FillStore \/ FillFails \/ FillAgain
  \/ StreamsToProbe
  \/ \E url \in catProbe.urls : UpdateStreamHealth(url) \/ ProbeLost(url)

CatalogSpec == CatalogInit /\ [][CatalogNext]_catVars

-----------------------------------------------------------------------------
CatActive == {s \in CatIds : catStation[s] # NoRow /\ ~catStation[s].retired}
SharedStations == {s \in CatIds : catStation[s] # NoRow /\ catStation[s].source = "rockcatalog"}
LiveStreams(s) == {n \in CatNames : catStream[s][n] # NoRow /\ ~catStream[s][n].retired}

(* An activation is all or nothing: whatever activations overlap or fail,  *)
(* the active stations of the shared catalog, their texts, live streams,   *)
(* primary streams and tombstones are those of the one release committed   *)
(* last.                                                                   *)
ReleaseIsWhole ==
  IF catCurrent = NoRow
    THEN SharedStations = {} /\ \A s \in CatIds : catTomb[s] = NoRow
    ELSE /\ SharedStations \cap CatActive = DOMAIN catCurrent.meta
         /\ \A s \in DOMAIN catCurrent.meta :
              /\ catStation[s].meta = catCurrent.meta[s]
              /\ \E i \in 1..Len(catCurrent.entries) :
                   LET e == catCurrent.entries[i] IN
                   /\ e.id = s
                   /\ LiveStreams(s) = DOMAIN e.streams
                   /\ \A n \in LiveStreams(s) :
                        /\ catStream[s][n].url = e.streams[n]
                        /\ catStream[s][n].primary <=> (n = e.primary)
         /\ \A s \in CatIds : LookupReplacement(s) = ReplacementFor(catCurrent, s)

(* The public listing joins stations with primary streams and does not ask *)
(* whether the station is retired; it lists the active stations all the    *)
(* same, each of them once, because whatever is retired loses its flag.    *)
ListedOnce ==
  \A s \in CatIds :
     LET primary == {n \in CatNames : catStream[s][n] # NoRow /\ catStream[s][n].primary} IN
     Cardinality(primary) = IF s \in CatActive THEN 1 ELSE 0

(* The row of a run tells the truth, also when the reply to a commit is    *)
(* lost: an activation is completed exactly when its stations are stored,  *)
(* and an import never claims more than it stored, nor a completed one     *)
(* less than it fetched.                                                   *)
RunsTellTheTruth ==
  \A p \in CatProcs :
     (catRun[p] # NoRow) =>
        /\ catRun[p].imported <= catStored[p]
        /\ (p \notin Importers) => ((catRun[p].status = "completed") <=> (catStored[p] > 0))
        /\ (catRun[p].status = "completed") =>
              catRun[p].imported + catRun[p].skipped = catRun[p].fetched

(* A stored embedding was made of the station's present text, unless the   *)
(* text changed while the backfill or another import had read the old one. *)
EmbeddingIsCurrent ==
  \A s \in CatIds \ catOvertaken :
     catEmbedding[s] # NoRow => catEmbedding[s] = catStation[s].meta

(* The health of a stream is the verdict on the URL it has now, although a *)
(* probe reports seconds after it read the URL and an import may change it *)
(* in between.                                                             *)
HealthIsOfUrl ==
  \A s \in CatIds, n \in CatNames :
     catStream[s][n] # NoRow => catStream[s][n].health \in {NoRow, catStream[s][n].url}

(* The depth-first search of the preflight finds exactly the replacement   *)
(* graphs in which some id is reachable from itself.                       *)
CycleCheckIsExact ==
  sample.of = "graph" =>
     LET graph == sample.value
         Reached[k \in Nat] ==
           IF k = 0 THEN {<<a, b>> \in (DOMAIN graph) \X (DOMAIN graph) : b \in graph[a]}
           ELSE LET r == Reached[k - 1] IN
                r \cup {<<a, c>> \in (DOMAIN graph) \X (DOMAIN graph) :
                          \E b \in DOMAIN graph : <<a, b>> \in r /\ <<b, c>> \in r}
     IN (\E id \in DOMAIN graph : HasCycle(graph, id))
          <=> (\E id \in DOMAIN graph : <<id, id>> \in Reached[Cardinality(DOMAIN graph)])

(* What imports, activations, the backfill and the probe keep between them *)
(* in the tables of the catalog.                                           *)
CatalogSafe ==
  /\ ReleaseIsWhole /\ ListedOnce /\ RunsTellTheTruth
  /\ EmbeddingIsCurrent /\ HealthIsOfUrl

CatalogTypeOK ==
  /\ \A s \in CatIds : catStation[s] # NoRow =>
        catStation[s].source \in {"rockcatalog", "radio"} /\ catStation[s].retired \in BOOLEAN
  /\ \A p \in CatProcs : catRun[p] # NoRow =>
        catRun[p].status \in {"started", "completed", "failed"}
  /\ catOvertaken \subseteq CatIds
=============================================================================
