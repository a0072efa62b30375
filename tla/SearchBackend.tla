--------------------------- MODULE SearchBackend ---------------------------
(***************************************************************************)
(* What the server answers to POST /packages/search: the search query is   *)
(* parsed into filters and search terms (Features/Browse/Parsers.hs), the  *)
(* packages found are filtered and sorted (Browse/ApplyFilter.hs) and one  *)
(* page of them is returned (Features/Browse.hs).                          *)
(*                                                                         *)
(* A text is a sequence of lexemes: an opening or closing parenthesis, a   *)
(* word, or the inside of a filter such as tag:bsd3.  Of the filters only  *)
(* those that the form of the page can write are kept; the others are      *)
(* parsed and applied in the same way.                                     *)
(***************************************************************************)
EXTENDS Integers, Sequences, FiniteSets, SequencesExt

CONSTANTS
    Package,    \* the packages
    Item,       \* per package what the list of packages says of it
    Hits,       \* per word the packages the search engine finds
    Ranking,    \* per set of words, where the search engine puts each package
                \* it finds; for no words where it comes by its name
    SortKey,    \* per column and package what the rows are sorted by, as a number
    PageSize    \* entries per page

ASSUME PageSizeAssumption == PageSize \in Nat \ {0}
ASSUME PackageAssumption == IsFiniteSet(Package)
ASSUME ColumnAssumption ==
    /\ "default" \notin DOMAIN SortKey
    /\ \A c \in DOMAIN SortKey : SortKey[c] \in [Package -> Int]
ASSUME RankingAssumption ==
    /\ {} \in DOMAIN Ranking
    /\ \A ws \in DOMAIN Ranking : Ranking[ws] \in Injection(Package, Int)

Open  == [lexeme |-> "("]
Close == [lexeme |-> ")"]
Word(w)   == [word |-> w]
Inside(f) == [filter |-> f]

Column == DOMAIN SortKey
Direction == {"ascending", "descending"}

-----------------------------------------------------------------------------
(* Parsing.                                                                *)

IsWord(x) == "lexeme" \notin DOMAIN x

(* filterWith: an age must be positive, otherwise its text is words.       *)
IsFilter(x) ==
    /\ "filter" \in DOMAIN x
    /\ "age" \in DOMAIN x.filter => x.filter.age.amount > 0

(* A filter in parentheses starts at i.                                    *)
FilterAt(text, i) ==
    /\ i + 2 <= Len(text)
    /\ text[i] = Open /\ IsFilter(text[i + 1]) /\ text[i + 2] = Close

(* Words in parentheses, or none, start at i and end at j.                 *)
TermsAt(text, i, j) ==
    /\ i < j /\ text[i] = Open /\ text[j] = Close
    /\ \A k \in i + 1 .. j - 1 : IsWord(text[k])
    /\ i + 1 < j => ~ IsFilter(text[i + 1])

(* many' filterOrSearchTerms: filters in parentheses, and words in or out  *)
(* of parentheses.  At a parenthesis that does not fit the parser succeeds *)
(* and leaves the rest of the text unread.                                 *)
conditions(text) ==
    LET n == Len(text)
        Term(i) == [is |-> "term", lexeme |-> text[i]]
        from[i \in 1 .. n + 1] ==
            CASE i <= n /\ IsWord(text[i]) -> <<Term(i)>> \o from[i + 1]
              [] i <= n /\ FilterAt(text, i) ->
                    <<[is |-> "filter", lexeme |-> text[i + 1]]>> \o from[i + 3]
              [] \E j \in i .. n : TermsAt(text, i, j) ->
                    LET j == CHOOSE k \in i .. n : TermsAt(text, i, k)
                    IN  [k \in 1 .. j - i - 1 |-> Term(i + k)] \o from[j + 1]
              [] OTHER -> << >>
    IN  from[1]

(* condsToFiltersAndTerms.                                                 *)
filters(conds) == {c.lexeme.filter : c \in {d \in Range(conds) : d.is = "filter"}}
terms(conds)   == {c.lexeme : c \in {d \in Range(conds) : d.is = "term"}}

-----------------------------------------------------------------------------
(* Finding, filtering and sorting.                                         *)

(* nominalDiffTime, in thousandths of a day; months and years are average. *)
Days(unit) ==
    CASE unit = "d" -> 1000 [] unit = "w" -> 7000 [] unit = "m" -> 30437 [] OTHER -> 365250

includeItem(p, f) ==
    \/ "tag" \in DOMAIN f /\ f.tag \in Item[p].tags
    \/ "age" \in DOMAIN f /\ 1000 * Item[p].age < f.age.amount * Days(f.age.unit)
    \/ "rating" \in DOMAIN f /\ Item[p].votes >= f.rating
    \/ /\ "deprecated" \in DOMAIN f
       /\ f.deprecated # "any" => Item[p].deprecated = (f.deprecated = "true")

(* Deprecated packages are left out unless a filter is about them.         *)
filtersWithDefaults(fs) ==
    IF \E f \in fs : "deprecated" \in DOMAIN f
    THEN fs
    ELSE fs \cup {[deprecated |-> "false"]}

words(ts) == {x.word : x \in {y \in ts : "word" \in DOMAIN y}}

(* Without search terms all packages listed; with terms those that contain *)
(* any of them.  The text of a filter that is not one is found nowhere.    *)
pkgDetails(ts, listed) ==
    IF ts = {}
    THEN listed
    ELSE listed \cap UNION {Hits[w] : w \in words(ts)}

(* They come in the order of the list, or as the search engine ranks them. *)
ranking(ts) == Ranking[IF words(ts) \in DOMAIN Ranking THEN words(ts) ELSE {}]

(* Mutant: the filters are a disjunction.                                  *)
applyFilter_Any(fs, packages) ==
    {p \in packages : \E f \in filtersWithDefaults(fs) : includeItem(p, f)}

applyFilter(fs, packages) ==
    {p \in packages : \A f \in filtersWithDefaults(fs) : includeItem(p, f)}

comparer(column, direction, p, q) ==
    /\ column # "default"
    /\ LET key == SortKey[column]
       IN  IF direction = "ascending" THEN key[p] < key[q] ELSE key[q] < key[p]

(* sortBy is stable, also with the comparison reversed.                    *)
Precedes(column, direction, rank, p, q) ==
    \/ comparer(column, direction, p, q)
    \/ rank[p] < rank[q] /\ ~ comparer(column, direction, q, p)

sortItems(column, direction, rank, packages) ==
    LET place == [p \in packages |->
                     Cardinality({q \in packages : Precedes(column, direction, rank, q, p)})]
    IN  [k \in 1 .. Cardinality(packages) |-> CHOOSE p \in packages : place[p] = k - 1]

found(options, listed) ==
    LET conds == conditions(options.searchQuery)
    IN  applyFilter(filters(conds), pkgDetails(terms(conds), listed))

-----------------------------------------------------------------------------
(* One page of it.                                                         *)

Nothing == [startIndex |-> -1, numElems |-> 0]

(* Page 0 is never out of bounds.                                          *)
paginate(total, page) ==
    IF total <= page * PageSize /\ page # 0
    THEN Nothing
    ELSE [startIndex |-> page * PageSize,
          numElems |-> IF total < (page + 1) * PageSize THEN total - page * PageSize ELSE PageSize]

(* The answer: an error if there is no such page.  A package is listed     *)
(* once, so that the length of the list is the number of packages found.   *)
renderResultPage(options, listed) ==
    LET items == found(options, listed)
        rank  == ranking(terms(conditions(options.searchQuery)))
        total == Cardinality(items)
        page  == paginate(total, options.page)
    IN  IF page = Nothing
        THEN [status |-> "error", pageContents |-> << >>, numberOfResults |-> 0]
        ELSE [status |-> "ok",
              pageContents |-> SubSeq(sortItems(options.column, options.direction, rank, items),
                                      page.startIndex + 1, page.startIndex + page.numElems),
              numberOfResults |-> total]
=============================================================================
