---------------------------- MODULE StationIcons ----------------------------
(***************************************************************************)
(* Station icons: the import job of the administrator and its worker, the  *)
(* administrator's own icons, the catalog import that supplies the sources *)
(* and the files that are served.  Each action is one statement of the     *)
(* database or one operation of the file storage.                          *)
(***************************************************************************)
EXTENDS Integers, Sequences, SequencesExt, FiniteSetsExt, Sample

CONSTANTS Stations, Sources,    \* stations, source URLs of the catalog
          Links,                \* links found on a homepage
          Uploads,              \* icons uploaded by the administrator
          MaxJobs, MaxUploads, MaxImports,
          Nil

VARIABLES iconRow,    \* station_icons
          files,      \* artifacts in the storage
          jobs,       \* station_icon_jobs with their items, in start order
          worker,     \* what the task of the last job is doing
          upload,     \* the administrator's upload in progress, or Nil
          homepage,   \* stations that have a homepage
          retired,    \* stations.retired_at is set
          uploads, imports   \* bounds: uploads begun, catalog imports

iconVars == <<iconRow, files, jobs, worker, upload, homepage, retired,
              uploads, imports>>

ASSUME IconAssumption ==
    /\ {MaxJobs, MaxUploads, MaxImports} \subseteq Nat
    /\ Nil \notin Sources \cup Links \cup Uploads

(* An artifact is named by the hash of its content: by what it was made    *)
(* from.                                                                   *)
Artifacts == Sources \cup Links \cup Uploads
IconRow == [source : Sources \cup Links \cup {Nil}, status : {"pending",
            "missing", "ready"}, manual : BOOLEAN, refresh : BOOLEAN,
            key : Artifacts \cup {Nil}]
ItemStates == {"unselected", "pending", "processing", "ready", "missing",
               "retryable_error", "permanent_error"}
Outcomes == {"ready", "missing", "retryable_error", "permanent_error"}
Job == [status : {"running", "completed", "interrupted"},
        item : [Stations -> ItemStates], selected : Nat, processed : Nat,
        count : [Outcomes -> Nat]]
Idle == [stage |-> "idle", station |-> Nil, source |-> Nil, key |-> Nil,
         outcome |-> Nil]

-----------------------------------------------------------------------------
(* A download follows redirects: a hop is the kind of address it leads to  *)
(* and what the server there replies.                                      *)
FetchReplies == {"redirect", "no_location", "transport", "status", "broken_body",
            "empty", "large", "image", "not_an_image", "undecodable", "too_wide"}
MaxHops == 6

(* validate_public_url, before each request.                               *)
PublicUrl(address) ==
    address \notin {"not_http", "credentials", "localhost", "private"}

(* fetch_bounded_opt: the body, or the error; decode stands for a failure  *)
(* of the transport.                                                       *)
FetchBounded(chain, truncateOversize) ==
    LET ends == {i \in DOMAIN chain : ~PublicUrl(chain[i].address)
                                      \/ chain[i].reply # "redirect"}
        hop == chain[Min(ends)]
    IN CASE ends = {} \/ (ends # {} /\ Min(ends) > MaxHops) -> "format"
         [] ~PublicUrl(hop.address) -> "format"
         [] hop.reply \in {"status", "no_location"} -> "format"
         [] hop.reply \in {"transport", "broken_body"} -> "decode"
         [] hop.reply = "large" /\ ~truncateOversize -> "size"
         [] OTHER -> hop.reply

(* prepare_icon: the checks before an image is normalised to square WebP.  *)
PrepareIcon(body) ==
    CASE body \in {"empty", "large"} -> "size"
      [] body = "not_an_image" -> "format"
      [] body = "undecodable" -> "decode"
      [] body = "too_wide" -> "dimensions"
      [] body = "image" -> "icon"

FetchErrors == {"format", "decode", "size"}
FetchIcon(chain) ==
    LET body == FetchBounded(chain, FALSE)
    IN IF body \in FetchErrors THEN body ELSE PrepareIcon(body)

Chains ==
    UNION {{[i \in 1..(n + 1) |->
               [address |-> a[i],
                reply |-> IF i <= n THEN "redirect" ELSE r]] :
              a \in [1..(n + 1) -> {"public", "private"}], r \in FetchReplies} :
           n \in 0..MaxHops}

(* What fetching an icon, and a homepage, may come to.                     *)
Bodies == {"empty", "large", "image", "not_an_image", "undecodable", "too_wide"}
FetchResults == FetchErrors \cup {PrepareIcon(body) : body \in Bodies}
PageResults == {"format", "decode"} \cup Bodies

(* Nothing is downloaded from an address that is not public: an icon comes *)
(* from a chain of at most six requests, each to a validated address.      *)
OnlyPublicHops ==
    sample.of = "chain" =>
        LET c == sample.value IN
        FetchIcon(c) = "icon"
        => Len(c) <= MaxHops /\ \A i \in DOMAIN c : c[i].address = "public"

(* homepage_icon_candidates: up to four declared links without repetition, *)
(* then the root icon.                                                     *)
MaxIconCandidates == 4

IconLinks(declared) ==
    FoldLeft(LAMBDA acc, l : IF l \in Range(acc) \/ Len(acc) = MaxIconCandidates
                             THEN acc ELSE Append(acc, l),
             <<>>, declared)

IconCandidates(declared, root) ==
    LET links == IconLinks(declared)
    IN IF root \in Range(links) THEN links ELSE Append(links, root)

(* resolve_item_plan: the catalog's source, else the candidates of the     *)
(* homepage in order; result[s] is what fetching s comes to.               *)
IconPlan(sources, result) ==
    LET good == {i \in DOMAIN sources : result[sources[i]] = "icon"}
        bad == {i \in DOMAIN sources : result[sources[i]] = "decode"}
    IN CASE good # {} -> [outcome |-> "ready", source |-> sources[Min(good)]]
         [] good = {} /\ bad # {} -> [outcome |-> "retryable_error", source |-> Nil]
         [] OTHER -> [outcome |-> "permanent_error", source |-> Nil]

-----------------------------------------------------------------------------
IconTypeOK ==
    /\ iconRow \in [Stations -> IconRow \cup {Nil}]
    /\ files \subseteq Artifacts
    /\ jobs \in Seq(Job)
    /\ worker.stage \in {"idle", "claim", "resolve", "put", "publish", "finish"}
    /\ homepage \subseteq Stations /\ retired \subseteq Stations

IconInit ==
    /\ iconRow = [s \in Stations |-> Nil]
    /\ files = {}
    /\ jobs = <<>>
    /\ worker = Idle
    /\ upload = Nil
    /\ homepage \in SUBSET Stations
    /\ retired = {}
    /\ uploads = 0 /\ imports = 0

(* The catalog import writes the source of a station: a row that is ready  *)
(* stays ready and is marked when its source has changed; a manual icon is *)
(* left alone.                                                             *)
SourceUpsert(old, src) ==
    LET fresh == IF src = Nil THEN "missing" ELSE "pending"
    IN CASE old = Nil -> [source |-> src, status |-> fresh, manual |-> FALSE,
                          refresh |-> FALSE, key |-> Nil]
         [] old # Nil /\ old.manual -> old
         [] OTHER -> [old EXCEPT !.source = src, !.refresh = old.source # src,
                        !.status = IF old.status = "ready" THEN "ready"
                                                           ELSE fresh]

ImportSource(s, src) ==
    /\ imports < MaxImports /\ imports' = imports + 1
    /\ iconRow' = [iconRow EXCEPT ![s] = SourceUpsert(@, src)]
    /\ retired' = retired \ {s}
    /\ UNCHANGED <<files, jobs, worker, upload, homepage, uploads>>

Retire(s) ==
    /\ retired' = retired \cup {s}
    /\ UNCHANGED <<iconRow, files, jobs, worker, upload, homepage, uploads,
                   imports>>

-----------------------------------------------------------------------------
(* start_import: one job may run; its items are the stations without a     *)
(* finished icon.  The worker is spawned once the new job has been read    *)
(* back; without it the job stays running until the next start.            *)
Eligible(s) ==
    /\ s \notin retired
    /\ \/ iconRow[s] = Nil
       \/ /\ ~iconRow[s].manual
          /\ iconRow[s].status \in {"pending", "missing"} \/ iconRow[s].refresh

Running == {j \in DOMAIN jobs : jobs[j].status = "running"}

StartJobBeside(spawned) ==
    /\ Len(jobs) < MaxJobs
    /\ jobs' = Append(jobs,
         [status |-> "running",
          item |-> [s \in Stations |-> IF Eligible(s) THEN "pending" ELSE "unselected"],
          selected |-> Cardinality({s \in Stations : Eligible(s)}),
          processed |-> 0, count |-> [o \in Outcomes |-> 0]])
    /\ worker' = IF spawned THEN [Idle EXCEPT !.stage = "claim"] ELSE Idle
    /\ UNCHANGED <<iconRow, files, upload, homepage, retired, uploads, imports>>

StartJob(spawned) ==
    /\ Len(jobs) < MaxJobs /\ Running = {}
    /\ jobs' = Append(jobs,
         [status |-> "running",
          item |-> [s \in Stations |-> IF Eligible(s) THEN "pending"
                                                      ELSE "unselected"],
          selected |-> Cardinality({s \in Stations : Eligible(s)}),
          processed |-> 0, count |-> [o \in Outcomes |-> 0]])
    /\ worker' = IF spawned THEN [Idle EXCEPT !.stage = "claim"] ELSE Idle
    /\ UNCHANGED <<iconRow, files, upload, homepage, retired, uploads, imports>>

Current == Len(jobs)

(* claim_item: the next item and the sources it has now.                   *)
ClaimItem(s) ==
    /\ worker.stage = "claim" /\ jobs[Current].item[s] = "pending"
    /\ jobs' = [jobs EXCEPT ![Current].item[s] = "processing"]
    /\ worker' = [Idle EXCEPT !.stage = "resolve", !.station = s,
                    !.source = IF iconRow[s] = Nil THEN Nil
                                                   ELSE iconRow[s].source]
    /\ UNCHANGED <<iconRow, files, upload, homepage, retired, uploads, imports>>

(* The network decides what each source comes to.                          *)
Resolved(plan) ==
    /\ worker' = [worker EXCEPT !.outcome = plan.outcome, !.key = plan.source,
                    !.stage = IF plan.outcome = "ready" THEN "put" ELSE "finish"]
    /\ UNCHANGED <<iconRow, files, jobs, upload, homepage, retired, uploads,
                   imports>>

ResolveSource ==
    /\ worker.stage = "resolve" /\ worker.source # Nil
    /\ \E r \in FetchResults :
         Resolved(IconPlan(<<worker.source>>, [u \in {worker.source} |-> r]))

ResolveHomepage ==
    /\ worker.stage = "resolve" /\ worker.source = Nil
    /\ \/ /\ worker.station \notin homepage
          /\ Resolved([outcome |-> "missing", source |-> Nil])
       \/ /\ worker.station \in homepage
          /\ \/ /\ "decode" \in PageResults
                /\ Resolved([outcome |-> "retryable_error", source |-> Nil])
             \/ /\ "format" \in PageResults
                /\ Resolved([outcome |-> "permanent_error", source |-> Nil])
             \/ \E declared \in SeqOf(Links, 2), root \in Links,
                   result \in [Links -> FetchResults] :
                  Resolved(IconPlan(IconCandidates(declared, root), result))

(* publish: the artifact first, then the row; both may fail.               *)
PutArtifact(ok) ==
    /\ worker.stage = "put"
    /\ IF ok THEN /\ files' = files \cup {worker.key}
                  /\ worker' = [worker EXCEPT !.stage = "publish"]
             ELSE /\ worker' = [worker EXCEPT !.stage = "finish",
                                  !.outcome = "retryable_error"]
                  /\ UNCHANGED files
    /\ UNCHANGED <<iconRow, jobs, upload, homepage, retired, uploads, imports>>

PublishedOver(old, key) ==
    [source |-> key, status |-> "ready", manual |-> FALSE, refresh |-> FALSE, key |-> key]

Published(old, key) ==
    IF old # Nil /\ old.manual
    THEN old
    ELSE [source |-> key, status |-> "ready", manual |-> FALSE,
          refresh |-> FALSE, key |-> key]

PublishRow(ok) ==
    /\ worker.stage = "publish"
    /\ IF ok THEN /\ iconRow' = [iconRow EXCEPT ![worker.station] =
                                   Published(@, worker.key)]
                  /\ worker' = [worker EXCEPT !.stage = "finish"]
             ELSE /\ worker' = [worker EXCEPT !.stage = "finish",
                                  !.outcome = "retryable_error"]
                  /\ UNCHANGED iconRow
    /\ UNCHANGED <<files, jobs, upload, homepage, retired, uploads, imports>>

(* finish_item: the item and the counters of the job, unless it fails.     *)
FinishItem(ok) ==
    /\ worker.stage = "finish"
    /\ jobs' = IF ok
               THEN [jobs EXCEPT
                       ![Current].item[worker.station] =
                           IF @ = "processing" THEN worker.outcome ELSE @,
                       ![Current].processed = @ + 1,
                       ![Current].count[worker.outcome] = @ + 1]
               ELSE jobs
    /\ worker' = [Idle EXCEPT !.stage = "claim"]
    /\ UNCHANGED <<iconRow, files, upload, homepage, retired, uploads, imports>>

(* The loop ends when no item is left, or when the claim fails; the last   *)
(* update may fail too.                                                    *)
CompleteJob(ok) ==
    /\ worker.stage = "claim"
    /\ jobs' = [jobs EXCEPT ![Current].status = IF ok /\ @ = "running"
                                                THEN "completed" ELSE @]
    /\ worker' = Idle
    /\ UNCHANGED <<iconRow, files, upload, homepage, retired, uploads, imports>>

(* A restart loses the worker and the upload; interrupt_running.           *)
IconRestart ==
    /\ worker' = Idle /\ upload' = Nil
    /\ jobs' = [j \in DOMAIN jobs |->
                  IF jobs[j].status = "running"
                  THEN [jobs[j] EXCEPT !.status = "interrupted"] ELSE jobs[j]]
    /\ UNCHANGED <<iconRow, files, homepage, retired, uploads, imports>>

-----------------------------------------------------------------------------
(* replace_manual: the image is validated and the station looked up, the   *)
(* artifact stored, the row written.                                       *)
UploadStart(s, key) ==
    /\ upload = Nil /\ uploads < MaxUploads /\ s \notin retired
    /\ uploads' = uploads + 1
    /\ upload' = [station |-> s, key |-> key, stage |-> "put"]
    /\ UNCHANGED <<iconRow, files, jobs, worker, homepage, retired, imports>>

UploadPut ==
    /\ upload # Nil /\ upload.stage = "put"
    /\ files' = files \cup {upload.key}
    /\ upload' = [upload EXCEPT !.stage = "row"]
    /\ UNCHANGED <<iconRow, jobs, worker, homepage, retired, uploads, imports>>

UploadRow ==
    /\ upload # Nil /\ upload.stage = "row"
    /\ iconRow' = [iconRow EXCEPT ![upload.station] =
         [source |-> IF @ = Nil THEN Nil ELSE @.source, status |-> "ready",
          manual |-> TRUE, refresh |-> FALSE, key |-> upload.key]]
    /\ upload' = Nil
    /\ UNCHANGED <<files, jobs, worker, homepage, retired, uploads, imports>>

UploadFail ==
    /\ upload # Nil /\ upload' = Nil
    /\ UNCHANGED <<iconRow, files, jobs, worker, homepage, retired, uploads,
                   imports>>

(* remove_manual keeps the artifact, which another station may use.        *)
RemoveManual(s) ==
    /\ iconRow[s] # Nil /\ iconRow[s].manual
    /\ iconRow' = [iconRow EXCEPT ![s] =
         [@ EXCEPT !.key = Nil, !.status = "missing", !.manual = FALSE,
                   !.refresh = TRUE]]
    /\ UNCHANGED <<files, jobs, worker, upload, homepage, retired, uploads,
                   imports>>

(* ready_icon: what is served for a station, or Nil.                       *)
ServedIcon(s) ==
    IF iconRow[s] # Nil /\ iconRow[s].status = "ready"
         /\ iconRow[s].key \in files
    THEN iconRow[s].key ELSE Nil

IconNext ==
    \/ \E s \in Stations : ClaimItem(s) \/ RemoveManual(s) \/ Retire(s)
    \/ \E s \in Stations, src \in Sources \cup {Nil} : ImportSource(s, src)
    \/ \E s \in Stations, key \in Uploads : UploadStart(s, key)
    \/ \E ok \in BOOLEAN : \/ StartJob(ok) \/ PutArtifact(ok) \/ PublishRow(ok)
                            \/ FinishItem(ok) \/ CompleteJob(ok)
    \/ ResolveSource \/ ResolveHomepage \/ IconRestart
    \/ UploadPut \/ UploadRow \/ UploadFail

IconSpec == IconInit /\ [][IconNext]_iconVars

-----------------------------------------------------------------------------
(* A row that says ready is served: its artifact was stored before, and no *)
(* failed job, upload, removal or restart leaves a row without a file.     *)
ReadyIsServed ==
    \A s \in Stations :
        (iconRow[s] # Nil /\ iconRow[s].status = "ready") => ServedIcon(s) # Nil

(* A station that shows an icon goes on showing one: neither a catalog     *)
(* import with another source, nor a job that fails, nor a restart opens a *)
(* window without it.  Only the administrator removes an icon.             *)
ServedUntilRemoved ==
    \A s \in Stations :
        ServedIcon(s) # Nil => \/ ServedIcon(s)' # Nil
                               \/ iconRow[s].manual /\ iconRow'[s].refresh

(* Only the administrator changes the icon the administrator has set: an   *)
(* item that the job claimed before the upload does not overwrite it.      *)
ManualIconKept ==
    \A s \in Stations :
        (iconRow[s] # Nil /\ iconRow[s].manual /\ iconRow'[s] # iconRow[s])
        => \/ iconRow'[s].manual /\ upload # Nil /\ upload.station = s
           \/ ~iconRow'[s].manual /\ iconRow'[s].status = "missing"

(* The counters of a job agree with its items and never exceed what was    *)
(* selected, although results may be lost and workers interrupted.         *)
CountersAgree ==
    \A j \in DOMAIN jobs :
        /\ \A o \in Outcomes : jobs[j].count[o] =
              Cardinality({s \in Stations : jobs[j].item[s] = o})
        /\ jobs[j].processed =
              Cardinality({s \in Stations : jobs[j].item[s] \in Outcomes})
        /\ jobs[j].processed <= jobs[j].selected

(* Only the last job can be running, and the worker works for a running    *)
(* job: no two jobs fetch at the same time.                                *)
WorkerOwnsJob ==
    /\ Running \subseteq {Current}
    /\ worker.stage # "idle" => Running = {Current}

(* What the job, the uploads and the catalog keep between them: ready rows *)
(* have their file, counters agree with items, one worker has one job.     *)
IconsSafe == ReadyIsServed /\ CountersAgree /\ WorkerOwnsJob

(* What no step of them may do to an icon that is shown or was set by the  *)
(* administrator.                                                          *)
IconSteps == [][ServedUntilRemoved /\ ManualIconKept]_iconVars
=============================================================================
