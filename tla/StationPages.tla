---------------------------- MODULE StationPages ----------------------------
(***************************************************************************)
(* The station list of the web client, useStationPages.ts and paging.ts:   *)
(* pages of a query are fetched one after the other and merged; a query    *)
(* that is left keeps its pages in a cache; late answers are told by a     *)
(* generation number.                                                      *)
(*                                                                         *)
(* A callback and the re-render its setState asks for are one action: the  *)
(* re-render is a microtask of the same task.  The effect of a new query   *)
(* is not: it runs after the paint, so between the render that hands over  *)
(* a new query and its effect the list can still be asked for more.        *)
(***************************************************************************)
EXTENDS Integers, Sequences

CONSTANTS Issuance,    \* query -> the stations the server finds, in order
          PageSize,    \* PAGE_SIZE
          MaxOffset,   \* MAX_SEARCH_OFFSET
          MaxRetries,  \* bound: attempts of the user
          MaxEffects   \* bound: runs of the effect

Queries == DOMAIN Issuance

ASSUME PagesAssumption ==
    /\ {PageSize, MaxOffset, MaxRetries, MaxEffects} \subseteq Nat
    /\ PageSize > 0
    /\ \A q \in Queries : Issuance[q] \in Seq(Nat)

VARIABLES wanted,     \* query and attempt of the last render
          ran,        \* lastRun: those of the last effect
          list,       \* the state of the hook
          generation,
          busy,
          cached,     \* query -> what merging gave, offset -1 where nothing is
          requests,   \* the page requests in flight
          crossed     \* a page was merged into the list of another query

pagesVars == <<wanted, ran, list, generation, busy, cached, requests, crossed>>

-----------------------------------------------------------------------------
ShorterOf(m, n) == IF m < n THEN m ELSE n

(* What the endpoint answers (external).                                   *)
ServerPage(q, offset) ==
    LET end == ShorterOf(offset + PageSize, Len(Issuance[q]))
    IN [stations |-> SubSeq(Issuance[q], offset + 1, end), more |-> end < Len(Issuance[q])]

RowsOf(s) == {s[i] : i \in DOMAIN s}

MergeServerPage(base, page, offset) ==
    LET added == SelectSeq(page.stations, LAMBDA x : x \notin RowsOf(base))
        end == offset + Len(page.stations)
        more == page.more /\ page.stations # <<>>
    IN [stations |-> base \o added, offset |-> end, more |-> more /\ end <= MaxOffset]

NoPages == [stations |-> <<>>, offset |-> -1, more |-> FALSE]

(* The state for what was merged, and for a first page on its way.         *)
Listed(q, m) == [query |-> q, stations |-> m.stations, offset |-> m.offset, more |-> m.more,
                 loading |-> FALSE, loadingMore |-> FALSE, failed |-> FALSE]
Loading(q) == [query |-> q, stations |-> <<>>, offset |-> 0, more |-> TRUE,
               loading |-> TRUE, loadingMore |-> FALSE, failed |-> FALSE]

PagesTypeOK ==
    /\ wanted \in [query : Queries, attempt : 0..MaxRetries]
    /\ ran \in [query : Queries, attempt : -1..MaxRetries]
    /\ list.stations \in Seq(Nat) /\ list.offset \in Nat
    /\ {list.more, list.loading, list.loadingMore, list.failed, busy, crossed} \subseteq BOOLEAN
    /\ generation \in 0..MaxEffects
    /\ \A r \in requests : r.query \in Queries /\ r.generation \in 1..generation

PagesInit ==
    /\ wanted \in [query : Queries, attempt : {0}]
    /\ ran = [query |-> wanted.query, attempt |-> -1]
    /\ list = [Listed(wanted.query, NoPages) EXCEPT !.offset = 0]
    /\ generation = 0 /\ busy = FALSE /\ crossed = FALSE
    /\ cached = [q \in Queries |-> NoPages] /\ requests = {}

-----------------------------------------------------------------------------
(* Another query or another attempt is handed to the hook.                 *)
SearchFor(q, attempt) ==
    /\ attempt \in {wanted.attempt, wanted.attempt + 1} \cap 0..MaxRetries
    /\ wanted' = [query |-> q, attempt |-> attempt] /\ wanted' # wanted
    /\ UNCHANGED <<ran, list, generation, busy, cached, requests, crossed>>

Requested(q, offset, base, gen) ==
    [query |-> q, offset |-> offset, base |-> base, generation |-> gen]

(* The effect of a changed query or attempt.                               *)
Effect ==
    LET q == wanted.query
        retry == ran.query = q /\ ran.attempt \notin {-1, wanted.attempt}
        first == Requested(q, 0, <<>>, generation + 1)
    IN
    /\ ran # wanted /\ generation < MaxEffects
    /\ ran' = wanted /\ generation' = generation + 1
    /\ IF ~retry /\ cached[q] # NoPages
       THEN list' = Listed(q, cached[q]) /\ busy' = FALSE /\ UNCHANGED <<cached, requests>>
       ELSE /\ list' = Loading(q) /\ busy' = TRUE /\ requests' = requests \cup {first}
            /\ cached' = [cached EXCEPT ![q] = NoPages]
    /\ UNCHANGED <<wanted, crossed>>

(* Mutant: the state is not asked whether a page is on its way.            *)
LoadMoreAgain ==
    /\ list.stations # <<>>
    /\ ~list.loading /\ list.more
    /\ list.offset <= MaxOffset
    /\ list' = [list EXCEPT !.loadingMore = TRUE] /\ busy' = TRUE
    /\ requests' = requests \cup {Requested(wanted.query, list.offset, list.stations, generation)}
    /\ UNCHANGED <<wanted, ran, generation, cached, crossed>>

(* loadMore, called by the footer, which is there when stations are shown. *)
(* The query is the one of the last render.                                *)
LoadMore ==
    /\ list.stations # <<>>
    /\ ~list.loading /\ ~list.loadingMore /\ list.more /\ ~busy
    /\ list.offset <= MaxOffset
    /\ list' = [list EXCEPT !.loadingMore = TRUE] /\ busy' = TRUE
    /\ requests' = requests \cup {Requested(wanted.query, list.offset, list.stations, generation)}
    /\ UNCHANGED <<wanted, ran, generation, cached, crossed>>

(* The rest of loadPage: the page has come ...                             *)
Answered(r) ==
    LET merged == MergeServerPage(r.base, ServerPage(r.query, r.offset), r.offset) IN
    /\ r \in requests /\ requests' = requests \ {r} /\ busy' = FALSE
    /\ IF r.generation # generation THEN UNCHANGED <<list, cached, crossed>>
       ELSE /\ list' = Listed(list.query, merged)
            /\ cached' = [cached EXCEPT ![r.query] = merged]
            /\ crossed' = (crossed \/ r.query # list.query)
    /\ UNCHANGED <<wanted, ran, generation>>

(* Mutant: a failure starts from the initial state.                        *)
FailedEmpty(r) ==
    /\ r \in requests /\ requests' = requests \ {r} /\ busy' = FALSE
    /\ list' = IF r.generation # generation THEN list
               ELSE [Loading(list.query) EXCEPT !.failed = TRUE, !.loading = FALSE]
    /\ UNCHANGED <<wanted, ran, generation, cached, crossed>>

(* ... or has not.                                                         *)
Failed(r) ==
    /\ r \in requests /\ requests' = requests \ {r} /\ busy' = FALSE
    /\ list' = IF r.generation # generation THEN list
               ELSE IF r.offset = 0 THEN [list EXCEPT !.failed = TRUE, !.loading = FALSE]
               ELSE [list EXCEPT !.failed = TRUE, !.loadingMore = FALSE]
    /\ UNCHANGED <<wanted, ran, generation, cached, crossed>>

PagesNext ==
    \/ \E q \in Queries, n \in 0..MaxRetries : SearchFor(q, n)
    \/ Effect \/ LoadMore
    \/ \E r \in requests : Answered(r) \/ Failed(r)

PagesSpec == PagesInit /\ [][PagesNext]_pagesVars

-----------------------------------------------------------------------------
(* The first rows of what the server finds, none left out, none twice.     *)
IsWhole(q, m) ==
    /\ RowsOf(m.stations) = RowsOf(SubSeq(Issuance[q], 1, m.offset))
    /\ \A i, j \in DOMAIN m.stations : m.stations[i] = m.stations[j] => i = j

(* What is listed is what the server finds for the query that is named,    *)
(* from its first row up to the next offset, each station once; so is what *)
(* the cache keeps.  Late answers of a query or an attempt that was left   *)
(* never get in, unless the list was asked for more between a render with  *)
(* another query and its effect and was answered before that effect.       *)
ListIsWhole ==
    ~crossed => /\ IsWhole(list.query, list)
                /\ \A q \in Queries : cached[q] # NoPages => IsWhole(q, cached[q])

(* While the query is the same a shown station stays where it is: no       *)
(* failure, late page or second request takes one away.                    *)
ShownStays ==
    [][generation' = generation
       => /\ Len(list.stations) <= Len(list'.stations)
          /\ SubSeq(list'.stations, 1, Len(list.stations)) = list.stations]_pagesVars

(* One page of the list is on its way at a time, and the list says so: the *)
(* guards survive the unconditional reset of busy by a late answer.        *)
OnePageAtATime ==
    LET mine == {r \in requests : r.generation = generation} IN
    /\ \A r, s \in mine : r = s
    /\ mine # {} <=> list.loading \/ list.loadingMore
    /\ list.loading => list.stations = <<>>

(* The list of useStationPages: whole, and filled by one request at a time.*)
PagesSafe == ListIsWhole /\ OnePageAtATime
=============================================================================
