----------------------------- MODULE MCServices -----------------------------
(***************************************************************************)
(* Instances of the parts of the server around device control.  They share *)
(* no variable, so a behaviour is one of a single part, chosen at the      *)
(* start; the others stand still.  In the part "samples" nothing moves:    *)
(* each initial state holds a value on which a pure operator is checked.   *)
(***************************************************************************)
EXTENDS BrowserAccess, YandexLink, PersonalSync, StationIcons, AdminAccess, StreamRelay, CatalogImport, ManifestStore,
        StationPages, VoiceClient, EntitySync, MCDomainSamples, MCSearchSamples

CONSTANTS Parts, \* the parts of the run
          p1, p2, c1, c2, l1, l2, f1, h1, h2,
          sensor, light

VARIABLE part

-----------------------------------------------------------------------------
(* Browser ceremonies, two at a time; visits of accounts that exist.      *)
Ceremonies ==
    /\ BrowserNext
    /\ clock' <= 1 /\ \A p \in BrowserProcs : serving'[p].stage \notin {"renew", "act"}
    /\ \A u \in People : person'[u] # "deleted"
    /\ \A s \in BrowserSessions : browserRow'[s] # Unset => browserRow'[s].proof = 0
Visits ==
    /\ BrowserNext
    /\ \A c \in Challenges : challengeRow'[c] # Unset
          => c = c1 /\ challengeRow'[c].kind = "authentication"
    /\ serving'[p2].stage \in {"idle", "renew", "act"}

-----------------------------------------------------------------------------
(* Personal data: the pushes of a device.                                  *)
Push(k, r, t, st) == [kind |-> k, rec |-> r, at |-> t, started |-> st]
TheBatches ==
    {<<>>, <<Push("upsert", f1, 1, 1)>>, <<Push("delete", f1, 1, 0)>>,
     <<Push("upsert", h1, 1, 0)>>,
     <<Push("delete", f1, 0, 0), Push("upsert", h2, 1, 0)>>,
     <<Push("upsert", f1, 2, 2), Push("delete", h1, 2, 1)>>}

(* Each device sends one request; devices are alike, so c1 sends first, to *)
(* the first process.  The account is deleted beside one request.          *)
Synchronising ==
    /\ SyncNext
    /\ syncs'[c2] <= syncs'[c1]
    /\ account' # account => syncs[c2] = 0
    /\ \A p \in SyncProcs : job'[p] # NoRecord => (job'[p].client = c1 <=> p = p1)

(* Icons: one station is retired and has a homepage, the other one gets    *)
(* the uploads.                                                            *)
IconWork ==
    /\ IconNext
    /\ retired' \subseteq {s2} /\ (upload' # Nil => upload'.station = s1)
    /\ Len(jobs') = 2 => uploads' = 0
    /\ iconRow'[s2] # iconRow[s2] =>
          \/ worker.stage = "publish" /\ worker.station = s2
          \/ imports' # imports /\ uploads = 0

(* Administration: lists are read by one process.                          *)
Administration == AdminNext /\ adminReq'[p2].stage # "page"

(* What a station may point to: it is dialled or it is not.                *)
Url(scheme, plain, addresses) == [scheme |-> scheme, plain |-> plain, addresses |-> addresses]
TheUrls == {Url("http", TRUE, {"public"}), Url("https", TRUE, {"public", "private"})}

(* What the server finds for two searches; a station may come back on a    *)
(* later page.                                                             *)
TheIssuances == "rock" :> <<1, 2, 1, 3, 4>> @@ "jazz" :> <<2, 5>>

(* Streams with metadata intervals of up to two bytes.                     *)
TheUpstreams == (0..2) \X UNION {[1..n -> 0..2] : n \in {0, 1, 3, 4}}

(* Two releases that follow each other, and the pages of the importer.     *)
Entry(i, m, ss, p) == [id |-> i, meta |-> m, streams |-> ss, primary |-> p]
Release(es, ts) ==
    [entries |-> es, tombstones |-> ts,
     meta |-> [s \in {es[i].id : i \in DOMAIN es} |->
                 (CHOOSE e \in {es[i] : i \in DOMAIN es} : e.id = s).meta]]
OneStream(u) == [n \in {"a"} |-> u]
TheReleases ==
    {Release(<<Entry(1, "m1", [n \in {"a", "b"} |-> IF n = "a" THEN "u1" ELSE "u2"], "a"),
               Entry(2, "m1", OneStream("u3"), "a")>>, [s \in {} |-> {}]),
     Release(<<Entry(3, "m1", OneStream("u4"), "a"), Entry(1, "m2", [n \in {"b"} |-> "u1"], "b")>>,
             [s \in {2} |-> [reason |-> "merged", to |-> {3}]])}
Dto(i, m, u, lacks) == [station |-> Entry(i, m, OneStream(u), "a"), lacks |-> lacks]
Replied(dtos) == [error |-> FALSE, foreign |-> FALSE, dtos |-> dtos]
TheAnswers ==
    {[Replied(<<>>) EXCEPT !.error = TRUE],
     [Replied(<<Dto(4, "m1", "u1", "nothing")>>) EXCEPT !.foreign = TRUE],
     Replied(<<Dto(4, "m1", "u1", "check"), Dto(3, "m1", "u1", "stream")>>),
     Replied(<<Dto(4, "m1", "u5", "nothing"), Dto(3, "m1", "u5", "name")>>),
     Replied(<<Dto(4, "m2", "u6", "nothing")>>), Replied(<<Dto(3, "m2", "u6", "nothing")>>)}
TheGraphs == UNION {[d -> SUBSET (1..3)] : d \in SUBSET (1..3)}

(* A sensor and a switch; a text is not a reading of the sensor, and one   *)
(* number is too large for both.  One observation carries its own time.    *)
(* The switch stays declared.                                              *)
TheEntities == e1 :> Sensor(e1, 8) @@ e2 :> Switch("outlet", <<"turn_on">>, Absent, 9)
Observed(id, n, unit, value) ==
    [id |-> id, revision |-> n, numeric |-> value # vendor, unit |-> unit, value |-> value,
     received_at |-> Absent, stale_after |-> 0, freshness |-> Absent]
TheObservations ==
    {Observed(e1, n, "ppm", 5) : n \in 1..3}
    \cup {[Observed(e1, 2, "ppm", 6) EXCEPT !.received_at = 0], Observed(e1, 1, Absent, vendor),
          Observed(e2, 1, Absent, 10)}
Observing == EntityNext /\ e2 \in entityRow'

Releasing == CatalogNext /\ \A p \in Bootstraps \cup Importers : catWork'[p] = catWork[p]
Importing ==
    /\ CatalogNext
    /\ \A p \in Activators : catWork'[p] = catWork[p]
    /\ UNCHANGED catFill

-----------------------------------------------------------------------------
ASample ==
    \/ sample \in Samples("capability", TheCapabilities)
    \/ sample \in Samples("body", TheBodies)
    \/ sample \in Samples("request", TheRequests)
    \/ sample \in Samples("chain", Chains)
    \/ sample \in Samples("page", (0..4) \X (1..4))
    \/ sample \in Samples("answer", Answer)
    \/ sample \in Samples("graph", TheGraphs)
    \/ sample \in Samples("search", Searches)
    \/ sample \in Samples("spoken", Spoken)
    \/ sample \in Samples("genres", Hierarchies \X Tagged \X Tagged)

ServicesInit ==
    /\ part \in Parts
    /\ BrowserInit /\ LinkInit /\ SyncInit
    /\ IconInit /\ homepage = {s2}
    /\ AdminInit /\ (part # "admin" => knows)
    /\ PumpInit /\ RelayInit
    /\ (part # "pump" => metaint = 0 /\ whole = <<>> /\ wantsIcy)
    /\ subTo = [u \in Subscribers |-> s1]
    /\ tuned[l1] = s2 => tuned[l2] = s2 \* listeners are alike
    /\ part # "relay" => tuned = [l \in Listeners |-> s1]
    /\ CatalogInit /\ Init /\ ClientInit /\ EntityInit
    /\ PagesInit /\ (part # "pages" => wanted.query = "rock")
    /\ IF part = "samples" THEN ASample ELSE sample = NoSample

peopleVars == <<browserVars, linkVars>>
stationVars == <<iconVars, pumpVars, relayVars, catVars>>
otherVars == <<syncVars, adminVars, vars, entityVars>>
webVars == <<pagesVars, clientVars>>
servicesVars == <<peopleVars, stationVars, otherVars, webVars, part, sample>>

PeopleNext ==
    \/ part = "ceremonies" /\ Ceremonies /\ UNCHANGED linkVars
    \/ part = "visits" /\ Visits /\ UNCHANGED linkVars
    \/ part = "yandex" /\ LinkNext /\ UNCHANGED browserVars

StationNext ==
    \/ part = "icons" /\ IconWork /\ UNCHANGED <<pumpVars, relayVars, catVars>>
    \/ part = "pump" /\ PumpNext /\ UNCHANGED <<iconVars, relayVars, catVars>>
    \/ part = "relay" /\ RelayNext /\ UNCHANGED <<iconVars, pumpVars, catVars>>
    \/ part = "releases" /\ Releasing /\ UNCHANGED <<iconVars, pumpVars, relayVars>>
    \/ part = "imports" /\ Importing /\ UNCHANGED <<iconVars, pumpVars, relayVars>>

OtherNext ==
    \/ part = "personal" /\ Synchronising /\ UNCHANGED <<adminVars, vars, entityVars>>
    \/ part = "admin" /\ Administration /\ UNCHANGED <<syncVars, vars, entityVars>>
    \/ part = "manifest" /\ Next /\ UNCHANGED <<syncVars, adminVars, entityVars>>
    \/ part = "entities" /\ Observing /\ UNCHANGED <<syncVars, adminVars, vars>>

WebNext ==
    \/ part = "pages" /\ PagesNext /\ UNCHANGED clientVars
    \/ part = "voice" /\ ClientNext /\ UNCHANGED pagesVars

ServicesNext ==
    /\ \/ PeopleNext /\ UNCHANGED <<stationVars, otherVars, webVars>>
       \/ StationNext /\ UNCHANGED <<peopleVars, otherVars, webVars>>
       \/ OtherNext /\ UNCHANGED <<peopleVars, stationVars, webVars>>
       \/ WebNext /\ UNCHANGED <<peopleVars, stationVars, otherVars>>
    /\ UNCHANGED <<part, sample>>

ServicesSpec == ServicesInit /\ [][ServicesNext]_servicesVars

(* The pure operators on every sample: messages of devices survive their   *)
(* hand-written serialisation and intents are planned as they were meant,  *)
(* answers of Yandex Smart Home and rows of the console are listed whole,  *)
(* an icon is fetched from public addresses only, cycles of replacements   *)
(* are found, and a search answers what was asked.                         *)
SamplesSafe ==
    /\ DomainSafe /\ SensorsWhole /\ PagesAreWhole /\ OnlyPublicHops /\ CycleCheckIsExact
    /\ SearchSafe

(* The variables of the part that moves hold values of their types.        *)
ServicesTypeOK ==
    CASE part \in {"ceremonies", "visits"} -> BrowserTypeOK
      [] part = "yandex" -> LinkTypeOK
      [] part = "personal" -> SyncTypeOK
      [] part = "icons" -> IconTypeOK
      [] part = "admin" -> AdminTypeOK
      [] part \in {"pump", "relay"} -> RelayTypeOK
      [] part \in {"releases", "imports"} -> CatalogTypeOK
      [] part = "pages" -> PagesTypeOK
      [] part = "voice" -> ClientTypeOK
      [] part = "entities" -> EntityTypeOK
      [] OTHER -> TypeOK
=============================================================================
