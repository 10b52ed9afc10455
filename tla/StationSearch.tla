---------------------------- MODULE StationSearch ----------------------------
(***************************************************************************)
(* Station search as pure operators: from the words of a request to an     *)
(* intent, from the intent to ranked rows of one of the two repositories,  *)
(* and from a page of rows to the answer.                                  *)
(*                                                                         *)
(* Words, tags, languages and countries are values; Lexicon holds the word *)
(* lists compiled into the server.  A station is a row that tells which    *)
(* words its name and tags consist of, which words its name contains or    *)
(* resembles, and how near its embedding is.  Scores are integers over the *)
(* denominator ScoreUnit * Denominator(q), which all rows of a query       *)
(* share, so comparing scores needs no division.                           *)
(***************************************************************************)
EXTENDS Integers, Sequences, SequencesExt, FiniteSetsExt, Sample

CONSTANTS Lexicon,          \* [stop, from, tag, mood : sets of words, prefix : set of sequences,
                            \*  alias : word -> words, letters : word -> word,
                            \*  parent : tag -> tag, language, country : word -> code]
          PrefilterFactor,  \* 20 in the code
          PrefilterFloor,   \* 200 in the code
          Unknown           \* None

-----------------------------------------------------------------------------
(* The genre hierarchy *)

(* Everything above a genre: the least set that holds its parent and with  *)
(* a genre the parent of that genre.                                       *)
Ancestors(parents, genre) ==
    {a \in Range(parents) :
        \A S \in SUBSET Range(parents) :
            /\ genre \in DOMAIN parents => parents[genre] \in S
            /\ \A h \in S \cap DOMAIN parents : parents[h] \in S
            => a \in S}

(* The loop of GenreTaxonomy::ancestors, which stops at a parent it has    *)
(* met: the ancestors, nearest first.                                      *)
GuardedAncestors(parents, genre) ==
    LET walk[n \in 0..Cardinality(DOMAIN parents)] ==
            IF n = 0 THEN <<>>
            ELSE LET met == walk[n - 1]
                     current == IF met = <<>> THEN genre ELSE Last(met)
                 IN IF current \in DOMAIN parents /\ parents[current] \notin ToSet(met)
                    THEN Append(met, parents[current]) ELSE met
    IN walk[Cardinality(DOMAIN parents)]

RequestedGenres(tags) == tags \ Lexicon.mood

(* One requested genre, or a genre above it, is enough.                    *)
GenreMatches(parents, tags, stationTags) ==
    \/ RequestedGenres(tags) = {}
    \/ \E g \in RequestedGenres(tags) : ({g} \cup Ancestors(parents, g)) \cap stationTags # {}

BroadenedTags(parents, tags) == UNION {Ancestors(parents, t) : t \in tags}

-----------------------------------------------------------------------------
(* Words to intents *)

Without(words, drop) == SelectSeq(words, LAMBDA w : w \notin drop)
Expanded(terms) == terms \cup UNION {Lexicon.alias[w] : w \in terms \cap DOMAIN Lexicon.alias}

(* A country counts only when the words name exactly one.                  *)
InferredCountry(words) ==
    LET codes == {Lexicon.country[w] : w \in ToSet(words) \cap DOMAIN Lexicon.country}
    IN IF Cardinality(codes) = 1 THEN CHOOSE c \in codes : TRUE ELSE Unknown
InferredLanguage(words) ==
    LET codes == {Lexicon.language[w] : w \in ToSet(words) \cap DOMAIN Lexicon.language}
    IN IF "ru" \in codes THEN "ru" ELSE IF codes # {} THEN "en" ELSE Unknown
ExplicitCountryRequest(words) == \E i \in 1..(Len(words) - 1) : words[i] \in Lexicon.from

DeterministicIntent(words) ==
    LET kept == Without(words, Lexicon.stop)
        terms == Expanded(ToSet(kept))
    IN [terms |-> terms, tags |-> terms \cap Lexicon.tag, language |-> InferredLanguage(words),
        country |-> InferredCountry(words), core |-> Len(kept), raw |-> ToSet(kept)]

(* A provider's reply, [error : BOOLEAN, terms, tags, language, country],  *)
(* joined with what the words say; an error covers a failed call and a     *)
(* reply that is too long or malformed.                                    *)
LlmIntent(words, reply) ==
    [terms |-> reply.terms, tags |-> reply.tags \cup DeterministicIntent(words).tags,
     language |-> IF InferredLanguage(words) # Unknown THEN InferredLanguage(words) ELSE reply.language,
     country |-> IF InferredCountry(words) # Unknown THEN InferredCountry(words)
                 ELSE IF ExplicitCountryRequest(words) THEN reply.country ELSE Unknown,
     core |-> Cardinality(reply.terms), raw |-> reply.terms]

(* A code of the wrong length or alphabet is the value "invalid".          *)
ValidQueryIntent(intent) == "invalid" \notin {intent.language, intent.country}
ValidatedIntent(intent) ==
    LET terms == intent.terms \ Lexicon.stop
    IN [intent EXCEPT !.terms = Expanded(terms), !.tags = @ \cap Lexicon.tag,
                      !.core = Cardinality(terms), !.raw = terms]

(* interpret_and_search up to the query: the parser's intent, or without a *)
(* usable one that of the words; terms of the words where the parser has   *)
(* none.  The classifier's language is the last resort.                    *)
Interpreted(words, parsed, error, classified) ==
    LET first == IF error \/ ~ValidQueryIntent(parsed) THEN DeterministicIntent(words) ELSE ValidatedIntent(parsed)
        plain == ValidatedIntent(DeterministicIntent(words))
        second == IF first.terms # {} THEN first
                  ELSE IF first.tags = {} THEN plain
                  ELSE [first EXCEPT !.terms = plain.terms, !.raw = plain.raw, !.core = plain.core]
    IN IF second.language = Unknown /\ ~ExplicitCountryRequest(words)
       THEN [second EXCEPT !.language = classified] ELSE second

(* The best label counts when it is near enough and clearly ahead; labels  *)
(* are [code, near], near in hundredths.                                   *)
Classified(labels) ==
    LET best == {l \in labels : \A m \in labels : m.near <= l.near}
        second == Max({m.near : m \in labels \ best} \cup {-100})
    IN IF Cardinality(best) = 1 /\ \E l \in best : l.near >= 72 /\ l.near - second >= 4
       THEN (CHOOSE l \in best : TRUE).code ELSE Unknown

(* After "play radio" and the like the rest is the name of a station, as   *)
(* spoken and in the other alphabet.                                       *)
NameHints(words) ==
    LET rests == {Without(SubSeq(words, Len(p) + 1, Len(words)), Lexicon.stop) :
                    p \in {x \in Lexicon.prefix : IsPrefix(x, words)}} \ {<<>>}
    IN rests \cup {[i \in DOMAIN rest |-> Lexicon.letters[rest[i]]] : rest \in rests}
SearchQuery(words, intent) ==
    [terms |-> intent.terms, tags |-> intent.tags, language |-> intent.language, country |-> intent.country,
     core |-> intent.core, raw |-> intent.raw, hints |-> NameHints(words)]

-----------------------------------------------------------------------------
(* Intents to ranked rows *)

ScoreUnit == 10000
Denominator(q) == Max({q.core + Cardinality(q.tags), 1})
MinRelevance(q) == 3500 * Denominator(q)

PassesFilters(q, c, s) ==
    /\ s.id \notin c.excluded
    /\ q.language \in {Unknown, s.language}
    /\ q.country \in {Unknown, s.country}

(* Rows by descending score, equal scores by identifier, cut to a page.    *)
RankedBy(rows, score) ==
    SetToSortSeq(rows, LAMBDA a, b : score[a] > score[b] \/ (score[a] = score[b] /\ a.id < b.id))
PageOf(ranked, c) == SubSeq(ranked, c.offset + 1, Min({c.offset + c.limit, Len(ranked)}))
RankedPage(rows, score, c) ==
    [stations |-> PageOf(RankedBy(rows, score), c), total |-> Cardinality(rows), score |-> score]

(* The catalog in memory: words and tags of the station count in full,     *)
(* words its name merely contains by half.                                 *)
MemoryScore(q, s) ==
    LET exact == q.terms \cap s.words
    IN 10000 * (Cardinality(exact) + Cardinality(q.tags \cap s.tags))
       + 5000 * Cardinality((q.terms \cap s.within) \ exact)
RankStations(catalog, q, c) ==
    LET rows == {s \in catalog : PassesFilters(q, c, s) /\ MemoryScore(q, s) > 0}
    IN RankedPage(rows, [s \in rows |-> MemoryScore(q, s)], c)

(* The statement: rows found by tag, by full text (every word of the       *)
(* cleaned query) or by a name that resembles a word; trgm is the          *)
(* similarity in tenths.                                                   *)
FullText(q, s) == q.raw # {} /\ q.raw \subseteq s.words
CandidateMatches(catalog, q, c) ==
    {s \in catalog : /\ ~s.retired /\ PassesFilters(q, c, s)
                     /\ \/ q.tags \cap s.tags # {} \/ FullText(q, s)
                        \/ \E w \in q.terms \cap DOMAIN s.trgm : s.trgm[w] >= 3}

(* Only the best of them are scored; how many depends on the page.         *)
Prefiltered(catalog, q, c) ==
    LET matches == CandidateMatches(catalog, q, c)
        rough == [s \in matches |-> 100 * Cardinality(q.tags \cap s.tags) + IF FullText(q, s) THEN s.rank ELSE 0]
        cap == Max({(c.limit + c.offset) * PrefilterFactor, PrefilterFloor})
    IN ToSet(PageOf(RankedBy(matches, rough), [offset |-> 0, limit |-> cap]))

(* The stream a station is played from: of those that are not retired the  *)
(* primary one, or else the one with the least identifier.                 *)
OpenStreams(s) == {x \in s.streams : ~x.retired}
PlayedStream(s) ==
    CHOOSE x \in OpenStreams(s) :
        \A y \in OpenStreams(s) : x = y \/ (x.primary /\ ~y.primary) \/ (x.primary = y.primary /\ x.id < y.id)
Playable(s) == OpenStreams(s) # {} /\ PlayedStream(s).health # "degraded"

(* A station's embedding counts when it has the provenance of the query's; *)
(* near is their cosine in thousandths.                                    *)
SemanticScore(embedding, s) ==
    IF Unknown \in {embedding, s.embedding} \/ s.embedding.of # embedding THEN Unknown
    ELSE (1000 + s.embedding.near) \div 2

MetadataScore(q, s) ==
    1000 * (Cardinality(q.terms \cap s.words) + Cardinality(q.tags \cap s.tags))
    + 500 * Cardinality(q.terms \cap s.within)
    + 30 * Max({s.trgm[w] : w \in q.terms \cap DOMAIN s.trgm} \cup {0})
    + (IF q.core > 0 /\ Cardinality(q.terms \cap s.name) >= q.core
       THEN 1000 \div Max({Cardinality(s.name), 1}) ELSE 0)
    + (IF q.hints \cap s.phrases # {} THEN 2000 ELSE 0)
HybridScore(q, embedding, s) ==
    LET semantic == SemanticScore(embedding, s)
    IN IF semantic = Unknown THEN 10 * MetadataScore(q, s)
       ELSE 7 * MetadataScore(q, s) + 3 * semantic * Denominator(q)

PostgresSearch(catalog, q, c, embedding) ==
    LET rows == {s \in Prefiltered(catalog, q, c) :
                    Playable(s) /\ (MetadataScore(q, s) > 0 \/ SemanticScore(embedding, s) \notin {Unknown, 0})}
    IN RankedPage(rows, [s \in rows |-> HybridScore(q, embedding, s)], c)

-----------------------------------------------------------------------------
(* Rows to the answer *)

(* Rows that are relevant enough, of the genre; if none is of the genre,   *)
(* of a genre above; if none is, all.                                      *)
GenreStages(parents, q, found) ==
    LET relevant == SelectSeq(found.stations, LAMBDA s : found.score[s] >= MinRelevance(q))
        ofGenre(tags) == SelectSeq(relevant, LAMBDA s : GenreMatches(parents, tags, s.tags))
        above == BroadenedTags(parents, q.tags)
    IN IF ofGenre(q.tags) # <<>> THEN ofGenre(q.tags)
       ELSE IF above # {} /\ ofGenre(above) # <<>> THEN ofGenre(above)
       ELSE relevant

SearchOutcome(parents, q, found) ==
    LET stations == GenreStages(parents, q, found)
    IN [stations |-> stations, total |-> IF stations = <<>> THEN 0 ELSE found.total]

(* The page with has_more, or a refusal: a request is [length, limit,      *)
(* offset, ids] with the identifiers to leave out as sent.                 *)
MaxLimit == 20
AcceptedSearch(r) ==
    /\ r.length \in 1..500
    /\ r.limit \in 1..50 /\ r.limit <= MaxLimit
    /\ r.offset <= 10000
    /\ Len(r.ids) <= 100 /\ Cardinality(ToSet(r.ids)) = Len(r.ids)
    /\ \A i \in DOMAIN r.ids : r.ids[i] # Unknown
SearchAnswer(c, outcome) ==
    [stations |-> outcome.stations, total |-> outcome.total,
     has_more |-> c.offset + Len(outcome.stations) < outcome.total]

(* The lists by ascending identifier, after a cursor.  The public list of  *)
(* the database joins the primary stream and asks for nothing else.        *)
ListAfter(rows, after, limit) ==
    LET rest == SetToSortSeq({s \in rows : after = Unknown \/ s.id > after}, LAMBDA a, b : a.id < b.id)
    IN SubSeq(rest, 1, Min({limit, Len(rest)}))
PublicRows(catalog) == {s \in catalog : \E x \in s.streams : x.primary}
AdminRows(catalog, needle) ==
    {s \in PublicRows(catalog) : ~s.retired /\ (needle = Unknown \/ needle \in s.within \cup s.tags)}
PublicStation(catalog, id) ==
    {s \in catalog : s.id = id /\ ~s.retired /\ \E x \in OpenStreams(s) : x.primary}

-----------------------------------------------------------------------------
(* What holds of every sample *)

Searched(v, c) ==
    IF v.memory THEN RankStations(v.catalog, v.query, c)
    ELSE PostgresSearch(v.catalog, v.query, c, v.embedding)
AnswerFor(v, c) == SearchAnswer(c, SearchOutcome(Lexicon.parent, v.query, Searched(v, c)))
NextPage(c) == [c EXCEPT !.offset = @ + c.limit]

(* An answer holds stations of the catalog that pass the hard filters and  *)
(* are relevant, best first, none twice; from the database only stations   *)
(* in the catalog's current release with a stream that is not degraded.    *)
AnswerIsAllowed(v, c) ==
    LET found == Searched(v, c)
        page == AnswerFor(v, c).stations
    IN /\ Len(page) <= c.limit
       /\ \A i \in DOMAIN page :
             /\ PassesFilters(v.query, c, page[i]) /\ found.score[page[i]] >= MinRelevance(v.query)
             /\ v.memory \/ (~page[i].retired /\ Playable(page[i]))
       /\ \A i, j \in DOMAIN page :
             i < j => /\ found.score[page[i]] >= found.score[page[j]]
                      /\ page[i].id # page[j].id

(* While the candidates fit into the prefilter, two pages in a row share   *)
(* no station, and after an answer without has_more there is nothing more. *)
PagesFollow(v, c) ==
    v.memory \/ Cardinality(CandidateMatches(v.catalog, v.query, c)) <= PrefilterFloor
    => /\ ToSet(AnswerFor(v, c).stations) \cap ToSet(AnswerFor(v, NextPage(c)).stations) = {}
       /\ ~AnswerFor(v, c).has_more => AnswerFor(v, NextPage(c)).stations = <<>>

(* Reading the public list from cursor to cursor yields it as a whole.     *)
ListFollows(v, n) ==
    LET rows == PublicRows(v.catalog)
        page == ListAfter(rows, Unknown, n)
    IN page # <<>> => page \o ListAfter(rows, Last(page).id, Cardinality(rows)) = ListAfter(rows, Unknown, Cardinality(rows))

(* Whatever a provider answers: a country is a filter only if the words    *)
(* name one or ask for one, a failing provider changes nothing, and there  *)
(* is something to search for unless all words are commands.               *)
IntentIsSpoken(words, reply, classified) ==
    LET intent == Interpreted(words, LlmIntent(words, reply), reply.error, classified)
        plain == DeterministicIntent(words)
    IN /\ intent.country # Unknown => InferredCountry(words) # Unknown \/ ExplicitCountryRequest(words)
       /\ reply.error => [intent EXCEPT !.language = Unknown] = [plain EXCEPT !.language = Unknown]
       /\ plain.language # Unknown => intent.language = plain.language
       /\ ToSet(words) \subseteq Lexicon.stop \/ intent.terms # {}

(* The two walks up the hierarchy meet the same genres, cycles included,   *)
(* and looking above the requested genres finds nothing that was not found *)
(* before.                                                                 *)
BroadeningAddsNothing(parents, tags, stationTags) ==
    /\ Lexicon.mood \cap (DOMAIN parents \cup Range(parents)) = {}
    /\ BroadenedTags(parents, tags) # {}
    /\ GenreMatches(parents, BroadenedTags(parents, tags), stationTags)
    => GenreMatches(parents, tags, stationTags)
WalksAgree(parents, genre) == ToSet(GuardedAncestors(parents, genre)) = Ancestors(parents, genre)

SearchSafe ==
    /\ sample.of = "search" =>
          \A c \in sample.value.pages :
              /\ AnswerIsAllowed(sample.value, c) /\ PagesFollow(sample.value, c)
              /\ ListFollows(sample.value, c.limit)
    /\ sample.of = "spoken" => IntentIsSpoken(sample.value[1], sample.value[2], sample.value[3])
    /\ sample.of = "genres" =>
          /\ BroadeningAddsNothing(sample.value[1], sample.value[2], sample.value[3])
          /\ \A g \in DOMAIN sample.value[1] : WalksAgree(sample.value[1], g)
=============================================================================
