-------------------------- MODULE MCSearchSamples --------------------------
(***************************************************************************)
(* The values on which StationSearch is checked: catalogs of up to three   *)
(* stations that differ in what a query tells apart, spoken requests with  *)
(* the replies a provider may give, and hierarchies of three genres.       *)
(***************************************************************************)
EXTENDS StationSearch

(* Command words, three genres in a chain and a mood, a word with its form *)
(* in the other alphabet, adjectives of a language and of two countries.   *)
TheLexicon ==
    [stop |-> {"play"}, from |-> {"from"}, tag |-> {"rock", "metal", "calm"}, mood |-> {"calm"},
     prefix |-> {<<"play", "radio">>},
     alias |-> [w \in {"rok", "nova"} |-> IF w = "rok" THEN {"rock", "rok2"} ELSE {"nowa"}],
     letters |-> [w \in {"nova", "rok", "metal", "radio", "play"} |-> IF w = "nova" THEN "nowa" ELSE w],
     parent |-> [g \in {"thrash", "metal"} |-> IF g = "thrash" THEN "metal" ELSE "rock"],
     language |-> [w \in {"russian"} |-> "ru"],
     country |-> [w \in {"german", "french"} |-> IF w = "german" THEN "DE" ELSE "FR"]]

-----------------------------------------------------------------------------
(* Requests *)
Sentences ==
    {<<"play">>, <<"play", "rok">>, <<"rok", "rok">>, <<"play", "radio", "nova">>, <<"german", "metal">>,
     <<"from", "german">>, <<"from", "rok">>, <<"from">>, <<"german", "french">>, <<"russian", "calm">>}
Replies ==
    [error : BOOLEAN, terms : {{}, {"play"}, {"nova"}}, tags : {{}, {"thrash"}, {"metal"}},
     language : {Unknown, "en", "invalid"}, country : {Unknown, "DE", "invalid"}]
Labels == {{}, {[code |-> "ru", near |-> 72]}, {[code |-> "ru", near |-> 80], [code |-> "en", near |-> 77]}}
Spoken == Sentences \X Replies \X {Classified(l) : l \in Labels}

-----------------------------------------------------------------------------
(* Catalogs *)
Stream(i, p, r, h) == [id |-> i, primary |-> p, retired |-> r, health |-> h]
Plain(i, words, tags) ==
    [id |-> i, words |-> words \cup tags, name |-> words, within |-> words, tags |-> tags,
     phrases |-> {<<w>> : w \in words}, language |-> "en", country |-> "DE", retired |-> FALSE, rank |-> 10,
     trgm |-> [w \in words |-> 9], embedding |-> Unknown, streams |-> {Stream(1, TRUE, FALSE, "healthy")}]
Rows ==
    {Plain(1, {"nova"}, {"rock"}), Plain(2, {"rock"}, {}),
     [Plain(3, {"nowa", "radio"}, {"metal"}) EXCEPT !.language = "ru"],
     [Plain(4, {"nova"}, {"rock"}) EXCEPT !.retired = TRUE],
     [Plain(5, {"radio"}, {"rock", "calm"}) EXCEPT !.embedding = [of |-> "e", near |-> 900],
          !.streams = {Stream(1, FALSE, FALSE, "degraded"), Stream(2, TRUE, TRUE, "healthy")}],
     [Plain(6, {"metal"}, {"calm"}) EXCEPT !.embedding = [of |-> "e", near |-> -1000],
          !.streams = {Stream(1, FALSE, FALSE, "degraded"), Stream(2, TRUE, FALSE, "healthy")}]}
SearchPages == [offset : 0..2, limit : 1..2, excluded : {{}, {1}}]
Searches ==
    {[catalog |-> rows, query |-> SearchQuery(w, Interpreted(w, DeterministicIntent(w), FALSE, Unknown)),
      embedding |-> e, memory |-> m, pages |-> SearchPages] :
        rows \in {R \in SUBSET Rows : Cardinality(R) \in 2..4},
        w \in {<<"play", "rok">>, <<"play", "radio", "nova">>, <<"german", "metal">>, <<"russian", "calm">>,
               <<"rock", "metal", "calm">>},
        e \in {Unknown, "e", "other"}, m \in BOOLEAN}

(* Hierarchies, cyclic ones too, over genres that are not moods.           *)
Hierarchies == UNION {[d -> {"thrash", "metal", "rock"}] : d \in SUBSET {"thrash", "metal", "rock"}}
Tagged == SUBSET {"thrash", "metal", "rock", "calm"}
=============================================================================
