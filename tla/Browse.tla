------------------------------- MODULE Browse -------------------------------
(***************************************************************************)
(* The page /packages/browse as one visitor uses it: the script            *)
(* datafiles/static/browse.js with its state, the history of the browser   *)
(* tab and the requests it has sent.  Every operation of the script        *)
(* changes the state, sends it to the server and waits; whichever answer   *)
(* comes, in whatever order, is then shown beside the state of that time.  *)
(***************************************************************************)
EXTENDS SearchBackend

CONSTANTS
    Typed,          \* texts the visitor types into the search box
    TagText,        \* what he types as a tag ...
    AlphaNumeric,   \* ... and which of it are ASCII letters and digits
    AgeText,        \* what he types as an age: amount (-1: no number), unit
    Rating,         \* positions of the slider
    Histories,      \* histories of the tab when the page is loaded, at the last entry
    Volatile,       \* packages that others deprecate, delete or restore meanwhile
    MaxRequests     \* bound: requests one visit sends

VARIABLES
    state,          \* class Model
    box,            \* #searchQuery
    expanded,       \* whether the advanced form is shown
    header,         \* per column the classes and aria-sort of its header
    listing,        \* #listing, #paginatorContainer and #browseFooter
    fatalError,     \* whether #fatalError is shown
    entries,        \* history entries of the tab: saved state, terms
    current,        \* the one the tab is at
    requests,       \* requests whose answer was not handled yet
    sent,           \* how many were sent
    past            \* history variable, see below

vars == <<state, box, expanded, header, listing, fatalError, entries, current,
          requests, sent, past>>

page_vars == <<expanded, listing, fatalError>>

(* The texts that can come about.                                          *)
Filter == [tag : TagText] \cup [deprecated : {"any", "true", "false"}]
             \cup [age : AgeText] \cup [rating : Rating]
Text == Seq([lexeme : {"(", ")"}] \cup [word : DOMAIN Hits] \cup [filter : Filter])

-----------------------------------------------------------------------------
(* The model.                                                              *)

State == [page : Nat, numberOfResults : Nat, column : Column \cup {"default"},
          direction : Direction, searchQuery : Text]

Model(query) == [page |-> 0, numberOfResults |-> 0, column |-> "default",
                 direction |-> "ascending", searchQuery |-> query]

Flipped(direction) == IF direction = "ascending" THEN "descending" ELSE "ascending"

(* The null that the entry the page was loaded with has as its state.      *)
NoState == [Model(<< >>) EXCEPT !.page = -1]

Entry(saved, query) == [saved |-> saved, terms |-> query]

SavedEntry == [saved : State \cup {NoState}, terms : Text]

(* A history the page can be loaded with: the last entry is where it is.   *)
ASSUME BrowseAssumption ==
    /\ Typed \subseteq Text
    /\ \A h \in Histories : h \in Seq(SavedEntry) /\ h # << >>

(* get(): the request is made of the state as it is when it is sent.       *)
get(s) == [page |-> s.page, column |-> s.column, direction |-> s.direction,
           searchQuery |-> s.searchQuery]

Request(id, s) == [id |-> id, options |-> get(s)]

(* Mutant: the request is sent before the state is changed.                *)
refresh_Early(s) ==
    /\ sent < MaxRequests
    /\ sent' = sent + 1
    /\ requests' = requests \cup {Request(sent + 1, state)}

(* refresh(), up to its await.                                             *)
refresh(s) ==
    /\ sent < MaxRequests
    /\ sent' = sent + 1
    /\ requests' = requests \cup {Request(sent + 1, s)}

-----------------------------------------------------------------------------
(* Pages.                                                                  *)

(* Mutant: pages are counted from 1.                                       *)
pageAvailable_FromOne(s, page) ==
    page >= 0 /\ (page = 0 \/ (page - 1) * PageSize < s.numberOfResults)

pageAvailable(s, page) ==
    page >= 0 /\ (page = 0 \/ page * PageSize < s.numberOfResults)

maxAvailablePage(numberOfResults) ==
    (IF numberOfResults = 0 THEN 0 ELSE numberOfResults - 1) \div PageSize

(* "Showing from to to of entries"; from 0 stands for "No results found."  *)
createIndexIndicator(s) ==
    LET maxIdx == (s.page + 1) * PageSize
    IN  IF s.numberOfResults = 0
        THEN [from |-> 0, to |-> 0]
        ELSE [from |-> s.page * PageSize + 1,
              to |-> IF maxIdx < s.numberOfResults THEN maxIdx ELSE s.numberOfResults]

Ellipsis == -1
NoLink == -1

Pages(first, last) == [i \in 1 .. last - first + 1 |-> first + i - 1]

(* The page links: all, or those at the start, at the end or around the    *)
(* current page, with an ellipsis for each gap.                            *)
pageLinks(page, maxPage) ==
    CASE maxPage <= 4 -> Pages(0, maxPage)
      [] maxPage > 4 /\ page <= 3 -> Pages(0, 4) \o <<Ellipsis, maxPage>>
      [] maxPage > 4 /\ page > 3 /\ page + 3 >= maxPage ->
            <<0, Ellipsis>> \o Pages(maxPage - 4, maxPage)
      [] OTHER -> <<0, Ellipsis>> \o Pages(page - 1, page + 1) \o <<Ellipsis, maxPage>>

createPaginator(s) ==
    LET maxPage == maxAvailablePage(s.numberOfResults)
    IN  [current  |-> s.page,
         previous |-> IF s.page # 0 THEN s.page - 1 ELSE NoLink,
         links    |-> pageLinks(s.page, maxPage),
         next     |-> IF s.page # maxPage THEN s.page + 1 ELSE NoLink]

LinksOf(paginator) ==
    ({paginator.previous, paginator.next} \cup Range(paginator.links)) \ {NoLink}

-----------------------------------------------------------------------------
(* What is shown.  "answers" is the number of the request answered; the    *)
(* rows are those of the reply, all else is made of the state of the time. *)
EmptyListing ==
    [answers |-> 0, rows |-> << >>, indicator |-> [from |-> 0, to |-> 0],
     paginator |-> [current |-> 0, previous |-> NoLink, links |-> << >>, next |-> NoLink],
     hoogle |-> << >>]

PlainHeader == [c \in Column |-> [classes |-> {}, aria |-> "none"]]

(* Memory of what happened: since the page was loaded, a reply came after  *)
(* one to a later request, a reply never came, the history brought back    *)
(* another order; in the tab, the entry the page was loaded with was gone  *)
(* back to from another query: maybe on an earlier visit, by the trace     *)
(* that leaves in the history, a state saved under another address.        *)
Uneventful == [overtaken |-> FALSE, lost |-> FALSE, reordered |-> FALSE, astray |-> FALSE]

WasAstray(h) ==
    \E i \in DOMAIN h : h[i].saved # NoState /\ h[i].saved.searchQuery # h[i].terms

(* The script is run at the last entry of a history: of one with no saved  *)
(* state, or of one saved by an earlier run of it.                         *)
Init ==
    /\ entries \in Histories
    /\ current = Len(entries)
    /\ state = Model(Last(entries).terms)
    /\ box = Last(entries).terms
    /\ expanded = FALSE
    /\ header = PlainHeader
    /\ listing = EmptyListing
    /\ fatalError = FALSE
    /\ requests = {Request(1, Model(Last(entries).terms))}
    /\ sent = 1
    /\ past = [Uneventful EXCEPT !.astray = WasAstray(entries)]

-----------------------------------------------------------------------------
(* The visitor.                                                            *)

(* Mutant: the arrow of the old column stays.                              *)
removeSortIndicator_Not(h) == h

(* On the default column no header is touched.                             *)
removeSortIndicator(h) ==
    IF state.column = "default"
    THEN h
    ELSE [h EXCEPT ![state.column] = [classes |-> @.classes \ Direction, aria |-> "none"]]

Toggle(classes, class) ==
    IF class \in classes THEN classes \ {class} ELSE classes \cup {class}

(* A click on a header.  No history entry is made.                         *)
sort(column) ==
    LET flipped == Flipped(state.direction)
        turned  == [state EXCEPT !.direction = flipped, !.page = 0]
        changed == [state EXCEPT !.direction = "ascending", !.column = column, !.page = 0]
    IN  /\ \/ /\ state.column = column
              /\ state' = turned
              /\ header' = [header EXCEPT ![column] =
                    [classes |-> Toggle(Toggle(@.classes, state.direction), flipped),
                     aria |-> flipped]]
              /\ refresh(turned)
           \/ /\ state.column # column
              /\ state' = changed
              /\ header' = [removeSortIndicator(header) EXCEPT ![column] =
                    [classes |-> @.classes \cup {"ascending"}, aria |-> "ascending"]]
              /\ refresh(changed)
        /\ UNCHANGED <<page_vars, box, entries, current, past>>

(* Mutant: the address stays as it is.                                     *)
pushState_SameAddress(s, query) ==
    /\ entries' = Append(SubSeq(entries, 1, current), Entry(s, entries[current].terms))
    /\ current' = current + 1

(* history.pushState: the entries ahead of the current one are dropped.    *)
pushState(s, query) ==
    /\ entries' = Append(SubSeq(entries, 1, current), Entry(s, query))
    /\ current' = current + 1

(* A click on a link of the paginator that is shown.                       *)
changePage(candidate) ==
    LET turned == [state EXCEPT !.page = candidate]
    IN  /\ candidate \in LinksOf(listing.paginator)
        /\ pageAvailable(state, candidate)
        /\ state' = turned
        /\ pushState(turned, entries[current].terms)
        /\ refresh(turned)
        /\ UNCHANGED <<page_vars, box, header, past>>

(* The search for what is in the box.                                      *)
submitSearch(text) ==
    LET searched == [Model(text) EXCEPT !.numberOfResults = state.numberOfResults]
    IN  /\ box' = text
        /\ state' = searched
        /\ header' = removeSortIndicator(header)
        /\ pushState(searched, text)
        /\ refresh(searched)
        /\ UNCHANGED <<page_vars, past>>

search == submitSearch(box)

type(text) ==
    /\ box' = text
    /\ UNCHANGED <<page_vars, state, header, entries, current, requests, sent, past>>

toggleAdvanced ==
    /\ expanded' = ~ expanded
    /\ UNCHANGED <<state, box, header, listing, fatalError, entries, current, requests, sent,
                   past>>

(* The advanced form appends a filter to what is in the box.               *)
append(f) ==
    /\ expanded
    /\ submitSearch(box \o <<Open, Inside(f), Close>>)

appendDeprecated == append([deprecated |-> "any"])

isNonNegativeFloatString(amount) == amount >= 0

validateAgeOfLastUL(duration) ==
    duration.unit \in {"d", "w", "m", "y"} /\ isNonNegativeFloatString(duration.amount)

appendAgeOfLastUL(duration) ==
    validateAgeOfLastUL(duration) /\ append([age |-> duration])

validateTag(tag) == tag # "" /\ tag \in AlphaNumeric

appendTag(tag) == validateTag(tag) /\ append([tag |-> tag])

appendRating(rating) == append([rating |-> rating])

-----------------------------------------------------------------------------
(* The browser.                                                            *)

(* Back and Forward.  On the entry the page was loaded with only the       *)
(* address changes.                                                        *)
popstate(i) ==
    LET saved == entries[i].saved
        restored == [saved EXCEPT !.numberOfResults = state.numberOfResults]
    IN  /\ i # current
        /\ current' = i
        /\ \/ /\ saved = NoState
              /\ past' = [past EXCEPT !.astray =
                    @ \/ entries[i].terms # state.searchQuery]
              /\ UNCHANGED <<state, box, requests, sent>>
           \/ /\ saved # NoState
              /\ state' = restored
              /\ box' = saved.searchQuery
              /\ past' = [past EXCEPT !.reordered =
                    @ \/ <<saved.column, saved.direction>> # <<state.column, state.direction>>]
              /\ refresh(restored)
        /\ UNCHANGED <<page_vars, header, entries>>

(* The page is loaded again at the current entry; the script starts anew   *)
(* and does not look at the state saved there.                             *)
reload ==
    LET loaded == Model(entries[current].terms)
    IN  /\ sent < MaxRequests
        /\ state' = loaded
        /\ box' = entries[current].terms
        /\ expanded' = FALSE
        /\ header' = PlainHeader
        /\ listing' = EmptyListing
        /\ fatalError' = FALSE
        /\ requests' = {Request(sent + 1, loaded)}
        /\ sent' = sent + 1
        /\ past' = [Uneventful EXCEPT !.astray = past.astray]
        /\ UNCHANGED <<entries, current>>

-----------------------------------------------------------------------------
(* The server and the network.                                             *)

(* What the server may answer: the list of packages changes while the      *)
(* request and its reply are under way.                                    *)
Replies(options) ==
    {renderResultPage(options, Package \ hidden) : hidden \in SUBSET Volatile}

(* One row per package of the reply, in its order; the old rows go.        *)
replaceRows(reply) == reply.pageContents

(* The rest of refresh(), when the promise of get() is fulfilled.          *)
show(id, reply) ==
    LET s == [state EXCEPT !.numberOfResults = reply.numberOfResults]
    IN  /\ reply.status = "ok"
        /\ state' = s
        /\ listing' = [answers   |-> id,
                       rows      |-> replaceRows(reply),
                       indicator |-> createIndexIndicator(s),
                       paginator |-> createPaginator(s),
                       hoogle    |-> s.searchQuery]
        /\ past' = [past EXCEPT !.overtaken = @ \/ id < listing.answers]
        /\ UNCHANGED fatalError

(* Mutant: the promise is rejected and nothing is shown.                   *)
reject_Silent(reply) ==
    /\ reply.status = "error"
    /\ UNCHANGED <<state, listing, past, fatalError>>

(* The promise is rejected: the message is shown, and stays.               *)
reject(reply) ==
    /\ reply.status = "error"
    /\ fatalError' = TRUE
    /\ UNCHANGED <<state, listing, past>>

settle(r) ==
    /\ \E reply \in Replies(r.options) : show(r.id, reply) \/ reject(reply)
    /\ requests' = requests \ {r}
    /\ UNCHANGED <<box, expanded, header, entries, current, sent>>

(* The connection fails.  Nothing handles that: the promise stays pending. *)
lose(r) ==
    /\ requests' = requests \ {r}
    /\ past' = [past EXCEPT !.lost = TRUE]
    /\ UNCHANGED <<page_vars, state, box, header, entries, current, sent>>

Visitor ==
    \/ \E column \in Column : sort(column)
    \/ \E candidate \in LinksOf(listing.paginator) : changePage(candidate)
    \/ search
    \/ \E text \in Typed : type(text)
    \/ toggleAdvanced
    \/ appendDeprecated
    \/ \E duration \in AgeText : appendAgeOfLastUL(duration)
    \/ \E tag \in TagText : appendTag(tag)
    \/ \E rating \in Rating : appendRating(rating)
    \/ \E i \in DOMAIN entries : popstate(i)
    \/ reload

Settle == \E r \in requests : settle(r)
Lose   == \E r \in requests : lose(r)

Next == Visitor \/ Settle \/ Lose

Spec == Init /\ [][Next]_vars

-----------------------------------------------------------------------------
(* Properties.                                                             *)

(* Types; the numbers of requests not handled are those of requests sent.  *)
TypeOK ==
    /\ state \in State
    /\ box \in Text
    /\ header \in [Column -> [classes : SUBSET Direction, aria : Direction \cup {"none"}]]
    /\ entries \in Seq(SavedEntry) /\ current \in DOMAIN entries
    /\ sent \in Nat
    /\ \A r \in requests : r.id \in 1 .. sent
    /\ listing.answers \in 0 .. sent
    /\ LinksOf(listing.paginator) \subseteq Int
    /\ past \in [{"overtaken", "lost", "reordered", "astray"} -> BOOLEAN]

(* Once the reply to the last request is shown, all that is on the page is *)
(* about the current state: the rows are the page, order and query that    *)
(* the state names, as many as the indicator says, and the paginator and   *)
(* the link to hoogle say the same.  (browse.js, every handler)            *)
ListingIsCurrent ==
    listing.answers = sent =>
        /\ listing.paginator.current = state.page
        /\ listing.hoogle = state.searchQuery
        /\ state.numberOfResults > 0 =>
              listing.indicator.to - listing.indicator.from + 1 = Len(listing.rows)
        /\ state.numberOfResults = 0 => listing.rows = << >>
        /\ listing.rows \in {reply.pageContents : reply \in Replies(get(state))}

(* "make sure it is kept in sync with backend" (browse.js:177) and "with   *)
(* frontend" (Browse.hs:116): script and server agree, for the number of   *)
(* results known, on which pages there are, the last of them, and which    *)
(* entries each shows; and the paginator beside the reply to the last      *)
(* request leads to available pages only, to the first, the last, the      *)
(* current one and its neighbours, skipping pages only at an ellipsis.     *)
PagesAgree ==
    LET n == state.numberOfResults
        p == listing.paginator
    IN  /\ \A page \in 0 .. maxAvailablePage(n) + 1 :
            LET slice == paginate(n, page)
                shown == createIndexIndicator([state EXCEPT !.page = page])
            IN  /\ pageAvailable(state, page) <=> slice # Nothing
                /\ page <= maxAvailablePage(n) <=> slice # Nothing
                /\ slice # Nothing /\ n > 0 =>
                      shown = [from |-> slice.startIndex + 1,
                               to   |-> slice.startIndex + slice.numElems]
        /\ listing.answers = sent =>
              /\ \A page \in LinksOf(p) : pageAvailable(state, page)
              /\ {0, state.page, maxAvailablePage(n)} \subseteq Range(p.links)
              /\ {page \in {state.page - 1, state.page + 1} : pageAvailable(state, page)}
                    \subseteq {p.previous, p.next} \cap Range(p.links)
              /\ \A i, j \in DOMAIN p.links :
                    i < j /\ Ellipsis \notin {p.links[i], p.links[j]} =>
                        /\ p.links[i] < p.links[j]
                        /\ j = i + 1 => p.links[j] = p.links[i] + 1

(* Exactly the column that the rows are sorted by has an arrow, in the     *)
(* direction they are sorted, unless the history brought back another      *)
(* order: popstate does not touch the headers.  (sort, submitSearch)       *)
ArrowsAgree ==
    ~ past.reordered => \A c \in Column :
        header[c] = IF c = state.column
                    THEN [classes |-> {state.direction}, aria |-> state.direction]
                    ELSE [classes |-> {}, aria |-> "none"]

(* The address of the tab and the saved state carry the query that the     *)
(* state has, through searches, pages, the history and loading again.  It  *)
(* is so until the visitor goes back to the entry the page was loaded with *)
(* from another query: the script ignores that, and the pages turned there *)
(* are saved under the address of that entry.                              *)
(* (submitSearch, changePage, popstate)                                    *)
AddressMatchesQuery ==
    ~ past.astray =>
        /\ entries[current].terms = state.searchQuery
        /\ entries[current].saved # NoState =>
              entries[current].saved.searchQuery = state.searchQuery

(* "All filters have to pass for every package shown in the result"        *)
(* (browse.html.st): every row shown passes every filter written in the    *)
(* query, unless the query has a parenthesis that does not fit or an age   *)
(* of 0, which the form lets pass and the server takes for words.          *)
Fits(text) ==
    /\ \A i \in DOMAIN text :
          /\ text[i] = Open => FilterAt(text, i) \/ \E j \in DOMAIN text : TermsAt(text, i, j)
          /\ text[i] = Close => \E j \in 1 .. i - 1 : text[j] = Open
                                  /\ \A k \in j + 1 .. i - 1 : IsWord(text[k])
Written(text) ==
    {text[i].filter : i \in {k \in 2 .. Len(text) - 1 :
        "filter" \in DOMAIN text[k] /\ text[k - 1] = Open /\ text[k + 1] = Close}}
FiltersHold ==
    listing.answers = sent /\ Fits(state.searchQuery) =>
        \A i \in DOMAIN listing.rows : \A f \in Written(state.searchQuery) :
            IsFilter(Inside(f)) => includeItem(listing.rows[i], f)

(* With no reply outstanding the page shows the answer to the last request *)
(* or an error, unless replies came out of order or one never came: those  *)
(* are the two ways in which a visitor is left with the rows of another    *)
(* request, unwarned.  (get, refresh)                                      *)
AnsweredOrWarned ==
    requests = {} =>
        listing.answers = sent \/ fatalError \/ past.overtaken \/ past.lost
=============================================================================
