--------------------------- MODULE Browse_proofs ---------------------------
(***************************************************************************)
(* Theorems about the page /packages/browse: for any packages, page size   *)
(* and history of the tab, any number of requests, and whatever order the  *)
(* replies come in.                                                        *)
(*                                                                         *)
(* In the second half, theorems about DownloadCount, whose totals the page *)
(* ranks packages by: for any packages and number of days, downloads,      *)
(* imports that overlap in any way, crashes and errors of the files.       *)
(***************************************************************************)
EXTENDS Browse, DownloadCount, FiniteSetTheorems, SequenceTheorems, WellFoundedInduction, TLAPS

-----------------------------------------------------------------------------
(* Pages.                                                                  *)

LEMMA LastPageType == ASSUME NEW n \in Nat PROVE maxAvailablePage(n) \in Nat
<1>1. PICK a : a = IF n = 0 THEN 0 ELSE n - 1
  OBVIOUS
<1>2. a \in Nat
  BY <1>1
<1>3. a \div PageSize \in Nat
  BY <1>2, PageSizeAssumption
<1> QED
  BY <1>1, <1>3 DEF maxAvailablePage

LEMMA PagesAre ==
    ASSUME NEW first \in Nat, NEW last \in Nat, first <= last
    PROVE  /\ Pages(first, last) \in Seq(first .. last)
           /\ Len(Pages(first, last)) = last - first + 1
           /\ DOMAIN Pages(first, last) = 1 .. last - first + 1
           /\ \A i \in 1 .. last - first + 1 : Pages(first, last)[i] = first + i - 1
<1>1. PICK n \in Nat : n = last - first + 1
  OBVIOUS
<1>2. Pages(first, last) = [i \in 1 .. n |-> first + i - 1]
  BY <1>1 DEF Pages
<1>3. \A i \in 1 .. n : first + i - 1 \in first .. last
  BY <1>1
<1>4. Pages(first, last) \in [1 .. n -> first .. last]
  BY <1>2, <1>3
<1> QED
  BY <1>1, <1>2, <1>4

LEMMA FivePages ==
    ASSUME NEW a \in Nat
    PROVE  Pages(a, a + 4) = <<a, a + 1, a + 2, a + 3, a + 4>>
<1>1. Pages(a, a + 4) \in [1 .. 5 -> a .. a + 4]
      /\ \A i \in 1 .. 5 : Pages(a, a + 4)[i] = a + i - 1
  BY DEF Pages
<1>2. <<a, a + 1, a + 2, a + 3, a + 4>> \in [1 .. 5 -> a .. a + 4]
  OBVIOUS
<1>3. ASSUME NEW i \in 1 .. 5
      PROVE  <<a, a + 1, a + 2, a + 3, a + 4>>[i] = a + i - 1
  OBVIOUS
<1> QED
  BY <1>1, <1>2, <1>3

LEMMA ThreePages ==
    ASSUME NEW a \in Nat
    PROVE  Pages(a, a + 2) = <<a, a + 1, a + 2>>
<1>1. Pages(a, a + 2) \in [1 .. 3 -> a .. a + 2]
      /\ \A i \in 1 .. 3 : Pages(a, a + 2)[i] = a + i - 1
  BY DEF Pages
<1>2. <<a, a + 1, a + 2>> \in [1 .. 3 -> a .. a + 2]
  OBVIOUS
<1>3. ASSUME NEW i \in 1 .. 3
      PROVE  <<a, a + 1, a + 2>>[i] = a + i - 1
  OBVIOUS
<1> QED
  BY <1>1, <1>2, <1>3

(* The shapes of the paginator.                                            *)
Seven(L, a, b, c, d, e, f, g) ==
    /\ L \in Seq(Int) /\ Len(L) = 7
    /\ L[1] = a /\ L[2] = b /\ L[3] = c /\ L[4] = d /\ L[5] = e /\ L[6] = f /\ L[7] = g

LEMMA Joined ==
    ASSUME NEW s \in Seq(Int), NEW t \in Seq(Int)
    PROVE  \E u \in Seq(Int) :
              /\ u = s \o t /\ Len(u) = Len(s) + Len(t)
              /\ \A i \in 1 .. Len(s) : u[i] = s[i]
              /\ \A i \in 1 .. Len(t) : u[Len(s) + i] = t[i]
<1>1. s \o t \in Seq(Int) /\ Len(s \o t) = Len(s) + Len(t)
  OBVIOUS
<1>2. \A i \in 1 .. Len(s) : (s \o t)[i] = s[i]
  OBVIOUS
<1>3. \A i \in 1 .. Len(t) : (s \o t)[Len(s) + i] = t[i]
  OBVIOUS
<1> QED
  BY <1>1, <1>2, <1>3

LEMMA FirstFive ==
    ASSUME NEW s \in Seq(Int), NEW u, Len(s) = 5, \A i \in 1 .. Len(s) : u[i] = s[i]
    PROVE  u[1] = s[1] /\ u[2] = s[2] /\ u[3] = s[3] /\ u[4] = s[4] /\ u[5] = s[5]
<1>1. u[1] = s[1] /\ u[2] = s[2] /\ u[3] = s[3]
  OBVIOUS
<1>2. u[4] = s[4] /\ u[5] = s[5]
  OBVIOUS
<1> QED
  BY <1>1, <1>2

LEMMA JoinFiveTwo ==
    ASSUME NEW s \in Seq(Int), NEW t \in Seq(Int), Len(s) = 5, Len(t) = 2
    PROVE  \E u \in Seq(Int) :
              /\ u = s \o t /\ Len(u) = 7
              /\ u[1] = s[1] /\ u[2] = s[2] /\ u[3] = s[3] /\ u[4] = s[4] /\ u[5] = s[5]
              /\ u[6] = t[1] /\ u[7] = t[2]
<1>1. PICK u \in Seq(Int) :
          /\ u = s \o t /\ Len(u) = Len(s) + Len(t)
          /\ \A i \in 1 .. Len(s) : u[i] = s[i]
          /\ \A i \in 1 .. Len(t) : u[Len(s) + i] = t[i]
  BY Joined
<1>2. Len(u) = 7
  BY <1>1
<1>3. u[1] = s[1] /\ u[2] = s[2] /\ u[3] = s[3] /\ u[4] = s[4] /\ u[5] = s[5]
  BY <1>1, FirstFive
<1>4. u[6] = t[1]
  <2>1. u[Len(s) + 1] = t[1]
    BY <1>1, SMTT(30)
  <2> QED
    BY <2>1
<1>5. u[7] = t[2]
  <2>1. u[Len(s) + 2] = t[2]
    BY <1>1
  <2> QED
    BY <2>1
<1> QED
  BY <1>1, <1>2, <1>3, <1>4, <1>5

LEMMA JoinTwoFive ==
    ASSUME NEW s \in Seq(Int), NEW t \in Seq(Int), Len(s) = 2, Len(t) = 5
    PROVE  \E u \in Seq(Int) :
              /\ u = s \o t /\ Len(u) = 7
              /\ u[1] = s[1] /\ u[2] = s[2]
              /\ u[3] = t[1] /\ u[4] = t[2] /\ u[5] = t[3] /\ u[6] = t[4] /\ u[7] = t[5]
<1>1. PICK u \in Seq(Int) :
          /\ u = s \o t /\ Len(u) = Len(s) + Len(t)
          /\ \A i \in 1 .. Len(s) : u[i] = s[i]
          /\ \A i \in 1 .. Len(t) : u[Len(s) + i] = t[i]
  BY Joined
<1>2. Len(u) = 7
  BY <1>1
<1>3. u[1] = s[1] /\ u[2] = s[2]
  BY <1>1, SMTT(30)
<1>4. u[3] = t[1]
  <2>1. u[Len(s) + 1] = t[1]
    BY <1>1
  <2> QED
    BY <2>1
<1>5. u[4] = t[2]
  <2>1. u[Len(s) + 2] = t[2]
    BY <1>1
  <2> QED
    BY <2>1
<1>6. u[5] = t[3]
  <2>1. u[Len(s) + 3] = t[3]
    BY <1>1
  <2> QED
    BY <2>1
<1>7. u[6] = t[4]
  <2>1. u[Len(s) + 4] = t[4]
    BY <1>1
  <2> QED
    BY <2>1
<1>8. u[7] = t[5]
  <2>1. u[Len(s) + 5] = t[5]
    BY <1>1
  <2> QED
    BY <2>1
<1> QED
  BY <1>1, <1>2, <1>3, <1>4, <1>5, <1>6, <1>7, <1>8

LEMMA JoinTwoThree ==
    ASSUME NEW s \in Seq(Int), NEW t \in Seq(Int), Len(s) = 2, Len(t) = 3
    PROVE  \E u \in Seq(Int) :
              /\ u = s \o t /\ Len(u) = 5
              /\ u[1] = s[1] /\ u[2] = s[2]
              /\ u[3] = t[1] /\ u[4] = t[2] /\ u[5] = t[3]
<1>1. PICK u \in Seq(Int) :
          /\ u = s \o t /\ Len(u) = Len(s) + Len(t)
          /\ \A i \in 1 .. Len(s) : u[i] = s[i]
          /\ \A i \in 1 .. Len(t) : u[Len(s) + i] = t[i]
  BY Joined
<1>2. Len(u) = 5
  BY <1>1
<1>3. u[1] = s[1] /\ u[2] = s[2]
  BY <1>1
<1>4. u[3] = t[1]
  <2>1. u[Len(s) + 1] = t[1]
    BY <1>1
  <2> QED
    BY <2>1
<1>5. u[4] = t[2]
  <2>1. u[Len(s) + 2] = t[2]
    BY <1>1
  <2> QED
    BY <2>1
<1>6. u[5] = t[3]
  <2>1. u[Len(s) + 3] = t[3]
    BY <1>1
  <2> QED
    BY <2>1
<1> QED
  BY <1>1, <1>2, <1>3, <1>4, <1>5, <1>6

LEMMA FiveAndTwo ==
    ASSUME NEW a \in Int, NEW b \in Int, NEW c \in Int, NEW d \in Int, NEW e \in Int,
           NEW f \in Int, NEW g \in Int
    PROVE  Seven(<<a, b, c, d, e>> \o <<f, g>>, a, b, c, d, e, f, g)
<1>1. PICK s : s = <<a, b, c, d, e>>
  OBVIOUS
<1>1a. s \in Seq(Int) /\ Len(s) = 5 /\ s[1] = a /\ s[2] = b /\ s[3] = c /\ s[4] = d /\ s[5] = e
  BY <1>1
<1>2. PICK t : t = <<f, g>>
  OBVIOUS
<1>2a. t \in Seq(Int) /\ Len(t) = 2 /\ t[1] = f /\ t[2] = g
  BY <1>2
<1>3. PICK u \in Seq(Int) :
          /\ u = s \o t /\ Len(u) = 7
          /\ u[1] = s[1] /\ u[2] = s[2] /\ u[3] = s[3] /\ u[4] = s[4] /\ u[5] = s[5]
          /\ u[6] = t[1] /\ u[7] = t[2]
  BY <1>1a, <1>2a, JoinFiveTwo
<1>4. Seven(u, a, b, c, d, e, f, g)
  BY <1>1a, <1>2a, <1>3 DEF Seven
<1> QED
  BY <1>1, <1>2, <1>3, <1>4

LEMMA TwoAndFive ==
    ASSUME NEW a \in Int, NEW b \in Int, NEW c \in Int, NEW d \in Int, NEW e \in Int,
           NEW f \in Int, NEW g \in Int
    PROVE  Seven(<<a, b>> \o <<c, d, e, f, g>>, a, b, c, d, e, f, g)
<1>1. PICK s : s = <<a, b>>
  OBVIOUS
<1>1a. s \in Seq(Int) /\ Len(s) = 2 /\ s[1] = a /\ s[2] = b
  BY <1>1
<1>2. PICK t : t = <<c, d, e, f, g>>
  OBVIOUS
<1>2a. t \in Seq(Int) /\ Len(t) = 5 /\ t[1] = c /\ t[2] = d /\ t[3] = e /\ t[4] = f /\ t[5] = g
  BY <1>2
<1>3. PICK u \in Seq(Int) :
          /\ u = s \o t /\ Len(u) = 7
          /\ u[1] = s[1] /\ u[2] = s[2]
          /\ u[3] = t[1] /\ u[4] = t[2] /\ u[5] = t[3] /\ u[6] = t[4] /\ u[7] = t[5]
  BY <1>1a, <1>2a, JoinTwoFive
<1>4. Seven(u, a, b, c, d, e, f, g)
  BY <1>1a, <1>2a, <1>3 DEF Seven
<1> QED
  BY <1>1, <1>2, <1>3, <1>4

LEMMA TwoThreeTwo ==
    ASSUME NEW a \in Int, NEW b \in Int, NEW c \in Int, NEW d \in Int, NEW e \in Int,
           NEW f \in Int, NEW g \in Int
    PROVE  Seven(<<a, b>> \o <<c, d, e>> \o <<f, g>>, a, b, c, d, e, f, g)
<1>1. PICK s : s = <<a, b>>
  OBVIOUS
<1>1a. s \in Seq(Int) /\ Len(s) = 2 /\ s[1] = a /\ s[2] = b
  BY <1>1
<1>2. PICK t : t = <<c, d, e>>
  OBVIOUS
<1>2a. t \in Seq(Int) /\ Len(t) = 3 /\ t[1] = c /\ t[2] = d /\ t[3] = e
  BY <1>2
<1>3. PICK r : r = <<f, g>>
  OBVIOUS
<1>3a. r \in Seq(Int) /\ Len(r) = 2 /\ r[1] = f /\ r[2] = g
  BY <1>3
<1>4. PICK v \in Seq(Int) :
          /\ v = s \o t /\ Len(v) = 5
          /\ v[1] = s[1] /\ v[2] = s[2]
          /\ v[3] = t[1] /\ v[4] = t[2] /\ v[5] = t[3]
  BY <1>1a, <1>2a, JoinTwoThree
<1>5. PICK u \in Seq(Int) :
          /\ u = v \o r /\ Len(u) = 7
          /\ u[1] = v[1] /\ u[2] = v[2] /\ u[3] = v[3] /\ u[4] = v[4] /\ u[5] = v[5]
          /\ u[6] = r[1] /\ u[7] = r[2]
  BY <1>3a, <1>4, JoinFiveTwo
<1>6. Seven(u, a, b, c, d, e, f, g)
  BY <1>1a, <1>2a, <1>3a, <1>4, <1>5 DEF Seven
<1> QED
  BY <1>1, <1>2, <1>3, <1>4, <1>5, <1>6

LEMMA PageLinksAre ==
    ASSUME NEW page \in Nat, NEW max \in Nat
    PROVE  \/ max <= 4 /\ pageLinks(page, max) = Pages(0, max)
           \/ /\ max > 4 /\ page <= 3
              /\ Seven(pageLinks(page, max), 0, 1, 2, 3, 4, Ellipsis, max)
           \/ /\ max > 4 /\ page > 3 /\ page + 3 >= max
              /\ Seven(pageLinks(page, max), 0, Ellipsis, max - 4, max - 3, max - 2, max - 1, max)
           \/ /\ max > 4 /\ page > 3 /\ page + 3 < max
              /\ Seven(pageLinks(page, max), 0, Ellipsis, page - 1, page, page + 1, Ellipsis, max)
<1>0. Ellipsis \in Int
  BY DEF Ellipsis
<1>1. CASE max <= 4
  BY <1>1 DEF pageLinks
<1>2. CASE max > 4 /\ page <= 3
  <2>1. pageLinks(page, max) = Pages(0, 4) \o <<Ellipsis, max>>
    BY <1>2 DEF pageLinks
  <2>2. Pages(0, 4) = <<0, 1, 2, 3, 4>>
    BY FivePages
  <2>3. Seven(<<0, 1, 2, 3, 4>> \o <<Ellipsis, max>>, 0, 1, 2, 3, 4, Ellipsis, max)
    BY <1>0, FiveAndTwo
  <2> QED
    BY <1>2, <2>1, <2>2, <2>3
<1>3. CASE max > 4 /\ page > 3 /\ page + 3 >= max
  <2>1. pageLinks(page, max) = <<0, Ellipsis>> \o Pages(max - 4, max)
    BY <1>3 DEF pageLinks
  <2>2. Pages(max - 4, max) = <<max - 4, max - 3, max - 2, max - 1, max>>
    <3>1. PICK a \in Nat : a = max - 4
      BY <1>3
    <3>2. max = a + 4 /\ max - 3 = a + 1 /\ max - 2 = a + 2 /\ max - 1 = a + 3
      BY <3>1
    <3> QED
      BY <3>1, <3>2, FivePages
  <2>3. Seven(<<0, Ellipsis>> \o <<max - 4, max - 3, max - 2, max - 1, max>>,
              0, Ellipsis, max - 4, max - 3, max - 2, max - 1, max)
    BY <1>0, TwoAndFive
  <2> QED
    BY <1>3, <2>1, <2>2, <2>3
<1>4. CASE max > 4 /\ page > 3 /\ page + 3 < max
  <2>1. pageLinks(page, max) =
            <<0, Ellipsis>> \o Pages(page - 1, page + 1) \o <<Ellipsis, max>>
    BY <1>4 DEF pageLinks
  <2>2. Pages(page - 1, page + 1) = <<page - 1, page, page + 1>>
    <3>1. PICK a \in Nat : a = page - 1
      BY <1>4
    <3>2. page = a + 1 /\ page + 1 = a + 2
      BY <3>1
    <3> QED
      BY <3>1, <3>2, ThreePages
  <2>3. Seven(<<0, Ellipsis>> \o <<page - 1, page, page + 1>> \o <<Ellipsis, max>>,
              0, Ellipsis, page - 1, page, page + 1, Ellipsis, max)
    BY <1>0, TwoThreeTwo
  <2> QED
    BY <1>4, <2>1, <2>2, <2>3
<1> QED
  BY <1>1, <1>2, <1>3, <1>4

LEMMA PageLinksType ==
    ASSUME NEW page \in Nat, NEW max \in Nat
    PROVE  Range(pageLinks(page, max)) \subseteq Int
<1>1. CASE max <= 4 /\ pageLinks(page, max) = Pages(0, max)
  <2>1. PICK first \in Nat : first = 0
    OBVIOUS
  <2>2. \A i \in DOMAIN Pages(first, max) : Pages(first, max)[i] \in Int
    <3>1. first <= max
      BY <2>1
    <3>2. /\ DOMAIN Pages(first, max) = 1 .. max - first + 1
          /\ \A i \in 1 .. max - first + 1 : Pages(first, max)[i] = first + i - 1
      BY <3>1, PagesAre
    <3> QED
      BY <3>2
  <2> QED
    BY <1>1, <2>1, <2>2 DEF Range
<1>2. ASSUME NEW s \in Seq(Int) PROVE Range(s) \subseteq Int
  BY DEF Range
<1>3. pageLinks(page, max) \in Seq(Int) \/ (max <= 4 /\ pageLinks(page, max) = Pages(0, max))
  BY PageLinksAre DEF Seven
<1> QED
  BY <1>1, <1>2, <1>3

-----------------------------------------------------------------------------
(* Types.                                                                  *)

(* What is found is among the packages listed.                             *)
LEMMA FoundIsListed ==
    ASSUME NEW options, NEW hidden
    PROVE  /\ found(options, Package \ hidden) \subseteq Package
           /\ IsFiniteSet(found(options, Package \ hidden))
           /\ Cardinality(found(options, Package \ hidden)) \in Nat
<1>1. found(options, Package \ hidden) \subseteq Package
  <2>1. \A ts, listed : pkgDetails(ts, listed) \subseteq listed
    BY DEF pkgDetails
  <2>2. \A fs, packages : applyFilter(fs, packages) \subseteq packages
    BY DEF applyFilter
  <2>3. PICK fs, ts : found(options, Package \ hidden) = applyFilter(fs, pkgDetails(ts, Package \ hidden))
    BY DEF found
  <2> QED
    BY <2>1, <2>2, <2>3
<1>2. IsFiniteSet(found(options, Package \ hidden))
  BY <1>1, PackageAssumption, FS_Subset
<1> QED
  BY <1>1, <1>2, FS_CardinalityType

LEMMA ReplyType ==
    ASSUME NEW options, NEW reply \in Replies(options)
    PROVE  reply.numberOfResults \in Nat
<1>1. PICK hidden \in SUBSET Volatile : reply = renderResultPage(options, Package \ hidden)
  BY DEF Replies
<1>2. \/ reply.numberOfResults = 0
      \/ reply.numberOfResults = Cardinality(found(options, Package \ hidden))
  BY <1>1 DEF renderResultPage
<1>3. Cardinality(found(options, Package \ hidden)) \in Nat
  BY FoundIsListed
<1> QED
  BY <1>2, <1>3

LEMMA PaginatorType ==
    ASSUME NEW s \in State
    PROVE  LinksOf(createPaginator(s)) \subseteq Int
<1>1. s.page \in Nat /\ s.numberOfResults \in Nat
  BY DEF State
<1>2. PICK max \in Nat : max = maxAvailablePage(s.numberOfResults)
  BY <1>1, LastPageType
<1>3. Range(pageLinks(s.page, max)) \subseteq Int
  BY <1>1, PageLinksType
<1>4. PICK p : p = createPaginator(s)
  OBVIOUS
<1>5. p.links = pageLinks(s.page, max) /\ p.previous \in Int /\ p.next \in Int
  <2>1. p.links = pageLinks(s.page, max)
    BY <1>2, <1>4 DEF createPaginator
  <2>2. p.previous = s.page - 1 \/ p.previous = NoLink
    BY <1>4 DEF createPaginator
  <2>3. p.next = s.page + 1 \/ p.next = NoLink
    BY <1>4 DEF createPaginator
  <2> QED
    BY <1>1, <2>1, <2>2, <2>3 DEF NoLink
<1> QED
  BY <1>3, <1>4, <1>5 DEF LinksOf

LEMMA ModelType == ASSUME NEW query \in Text PROVE Model(query) \in State
  BY DEF Model, State, Direction

(* The entries ahead of the current one are dropped and one is added.      *)
LEMMA Pushed ==
    ASSUME NEW S, NEW list \in Seq(S), NEW k \in DOMAIN list, NEW e \in S
    PROVE  \E u \in Seq(S) :
              /\ u = Append(SubSeq(list, 1, k), e)
              /\ DOMAIN u = 1 .. k + 1 /\ u[k + 1] = e
              /\ \A i \in 1 .. k : i \in DOMAIN list /\ u[i] = list[i]
<1>1. k \in Nat /\ k <= Len(list)
  OBVIOUS
<1>2. PICK t : t = SubSeq(list, 1, k)
  OBVIOUS
<1>3. t \in Seq(S) /\ Len(t) = k /\ \A i \in 1 .. k : t[i] = list[i]
  <2>1. \A i \in 1 .. k : list[i] \in S
    BY <1>1
  <2>2. /\ t \in Seq(S)
        /\ Len(t) = IF 1 <= k THEN k - 1 + 1 ELSE 0
        /\ \A i \in 1 .. k - 1 + 1 : t[i] = list[1 + i - 1]
    BY <1>1, <1>2, <2>1, SubSeqProperties
  <2> QED
    BY <1>1, <2>2
<1>4. PICK u : u = Append(t, e)
  OBVIOUS
<1>5. u \in Seq(S) /\ Len(u) = k + 1 /\ u[k + 1] = e /\ \A i \in 1 .. k : u[i] = t[i]
  BY <1>1, <1>3, <1>4
<1>6. DOMAIN u = 1 .. k + 1 /\ \A i \in 1 .. k : i \in DOMAIN list /\ u[i] = list[i]
  BY <1>1, <1>3, <1>5
<1>7. u = Append(SubSeq(list, 1, k), e)
  BY <1>2, <1>4
<1> QED
  BY <1>5, <1>6, <1>7

LEMMA EntryType ==
    ASSUME TypeOK, NEW i \in DOMAIN entries
    PROVE  entries[i].saved \in State \cup {NoState} /\ entries[i].terms \in Text
<1>1. entries[i] \in SavedEntry
  BY DEF TypeOK
<1> QED
  BY <1>1 DEF SavedEntry

LEMMA PushStateType ==
    ASSUME TypeOK, NEW s \in State, NEW query \in Text, pushState(s, query)
    PROVE  /\ entries' \in Seq(SavedEntry) /\ current' \in DOMAIN entries'
           /\ current' = current + 1
           /\ DOMAIN entries' = 1 .. current + 1
           /\ entries'[current'] = Entry(s, query)
           /\ \A i \in 1 .. current : i \in DOMAIN entries /\ entries'[i] = entries[i]
<1>1. Entry(s, query) \in SavedEntry
  BY DEF Entry, SavedEntry
<1>2. entries \in Seq(SavedEntry) /\ current \in DOMAIN entries
  BY DEF TypeOK
<1>3. PICK u \in Seq(SavedEntry) :
          /\ u = Append(SubSeq(entries, 1, current), Entry(s, query))
          /\ DOMAIN u = 1 .. current + 1 /\ u[current + 1] = Entry(s, query)
          /\ \A i \in 1 .. current : i \in DOMAIN entries /\ u[i] = entries[i]
  BY <1>1, <1>2, Pushed
<1>4. current \in Nat
  BY <1>2
<1> QED
  BY <1>3, <1>4 DEF pushState

LEMMA RefreshType ==
    ASSUME TypeOK, NEW s, refresh(s)
    PROVE  /\ sent' \in Nat /\ sent' = sent + 1
           /\ \A r \in requests' : r.id \in 1 .. sent'
<1>1. Request(sent + 1, s).id = sent + 1
  BY DEF Request
<1> QED
  BY <1>1 DEF TypeOK, refresh

HeaderType == [classes : SUBSET Direction, aria : Direction \cup {"none"}]

LEMMA IndicatorType ==
    ASSUME TypeOK PROVE removeSortIndicator(header) \in [Column -> HeaderType]
<1>1. header \in [Column -> HeaderType]
  BY DEF TypeOK, HeaderType
<1>2. ASSUME NEW h \in HeaderType
      PROVE  [classes |-> h.classes \ Direction, aria |-> "none"] \in HeaderType
  BY DEF HeaderType
<1> QED
  BY <1>1, <1>2 DEF removeSortIndicator

Memory == {"overtaken", "lost", "reordered", "astray"}

LEMMA MemoryType ==
    ASSUME NEW b \in BOOLEAN
    PROVE  [Uneventful EXCEPT !.astray = b] \in [Memory -> BOOLEAN]
<1>1. DOMAIN Uneventful = Memory /\ Uneventful = [x \in Memory |-> Uneventful[x]]
  BY DEF Uneventful, Memory
<1>2. \A x \in Memory : Uneventful[x] = FALSE
  BY DEF Uneventful, Memory
<1>3. Uneventful \in [Memory -> BOOLEAN]
  BY <1>1, <1>2
<1> QED
  BY <1>3

LEMMA InitType == ASSUME Init PROVE TypeOK
<1>1. entries \in Seq(SavedEntry) /\ entries # << >> /\ current = Len(entries)
  BY BrowseAssumption DEF Init
<1>2. current \in DOMAIN entries
  BY <1>1
<1>3. entries[current] \in SavedEntry /\ Last(entries) = entries[current]
  BY <1>1, <1>2 DEF Last
<1>4. Last(entries).terms \in Text
  BY <1>3 DEF SavedEntry
<1>5. state \in State /\ box \in Text
  BY <1>4, ModelType DEF Init
<1>6. header \in [Column -> [classes : SUBSET Direction, aria : Direction \cup {"none"}]]
  BY DEF Init, PlainHeader
<1>7. sent \in Nat /\ \A r \in requests : r.id \in 1 .. sent
  BY DEF Init, Request
<1>8. listing.answers \in 0 .. sent
  BY DEF Init, EmptyListing
<1>9. LinksOf(listing.paginator) \subseteq Int
  <2>1. listing.paginator.previous = -1 /\ listing.paginator.next = -1
    BY DEF Init, EmptyListing, NoLink
  <2>2. Range(listing.paginator.links) = {}
    BY DEF Init, EmptyListing, Range
  <2> QED
    BY <2>1, <2>2 DEF LinksOf
<1>10. past \in [{"overtaken", "lost", "reordered", "astray"} -> BOOLEAN]
  <2>1. WasAstray(entries) \in BOOLEAN
    BY DEF WasAstray
  <2> QED
    BY <2>1, MemoryType DEF Init, Memory
<1> QED
  BY <1>1, <1>2, <1>5, <1>6, <1>7, <1>8, <1>9, <1>10 DEF TypeOK

(* What a step that sends a request and changes nothing of what is shown   *)
(* keeps.                                                                  *)
LEMMA SentType ==
    ASSUME TypeOK, NEW s \in State, refresh(s), state' = s, UNCHANGED listing,
           box' \in Text, header' \in [Column -> HeaderType],
           entries' \in Seq(SavedEntry), current' \in DOMAIN entries',
           past' \in [{"overtaken", "lost", "reordered", "astray"} -> BOOLEAN]
    PROVE  TypeOK'
<1>1. /\ sent' \in Nat /\ sent' = sent + 1
      /\ \A r \in requests' : r.id \in 1 .. sent'
  BY RefreshType
<1>2. listing.answers' \in 0 .. sent'
  BY <1>1 DEF TypeOK
<1> QED
  BY <1>1, <1>2 DEF TypeOK, HeaderType

LEMMA SortType == ASSUME TypeOK, NEW column \in Column, sort(column) PROVE TypeOK'
<1>1. header \in [Column -> HeaderType] /\ state \in State
  BY DEF TypeOK, HeaderType
<1>2. Flipped(state.direction) \in Direction /\ "ascending" \in Direction
  BY DEF Flipped, Direction
<1>3. UNCHANGED <<listing, box, entries, current, past>>
  BY DEF sort, page_vars
<1>4. CASE state.column = column
  <2> DEFINE turned == [state EXCEPT !.direction = Flipped(state.direction), !.page = 0]
  <2>1. turned \in State
    BY <1>1, <1>2 DEF State
  <2>2. state' = turned /\ refresh(turned)
    BY <1>4 DEF sort
  <2>3. header' \in [Column -> HeaderType]
    <3>1. header' = [header EXCEPT ![column] =
              [classes |-> Toggle(Toggle(@.classes, state.direction), Flipped(state.direction)),
               aria |-> Flipped(state.direction)]]
      BY <1>4 DEF sort
    <3>2. \A cs \in SUBSET Direction : \A d \in Direction : Toggle(cs, d) \in SUBSET Direction
      BY DEF Toggle
    <3>3. header[column].classes \in SUBSET Direction /\ state.direction \in Direction
      BY <1>1 DEF HeaderType, State
    <3>4. [classes |-> Toggle(Toggle(header[column].classes, state.direction),
                              Flipped(state.direction)),
           aria |-> Flipped(state.direction)] \in HeaderType
      BY <1>2, <3>2, <3>3 DEF HeaderType
    <3> QED
      BY <1>1, <3>1, <3>4
  <2> QED
    BY <1>3, <2>1, <2>2, <2>3, SentType DEF TypeOK
<1>5. CASE state.column # column
  <2> DEFINE changed == [state EXCEPT !.direction = "ascending", !.column = column, !.page = 0]
  <2>1. changed \in State
    BY <1>1, <1>2 DEF State
  <2>2. state' = changed /\ refresh(changed)
    BY <1>5 DEF sort
  <2>3. header' \in [Column -> HeaderType]
    <3>1. PICK h \in [Column -> HeaderType] : h = removeSortIndicator(header)
      BY IndicatorType
    <3>2. header' = [h EXCEPT ![column] =
              [classes |-> @.classes \cup {"ascending"}, aria |-> "ascending"]]
      BY <1>5, <3>1 DEF sort
    <3>3. [classes |-> h[column].classes \cup {"ascending"}, aria |-> "ascending"] \in HeaderType
      BY <1>2, <3>1 DEF HeaderType
    <3> QED
      BY <3>1, <3>2, <3>3
  <2> QED
    BY <1>3, <2>1, <2>2, <2>3, SentType DEF TypeOK
<1> QED
  BY <1>4, <1>5

LEMMA ChangePageType ==
    ASSUME TypeOK, NEW candidate \in LinksOf(listing.paginator), changePage(candidate)
    PROVE  TypeOK'
<1> DEFINE turned == [state EXCEPT !.page = candidate]
<1>1. candidate \in Nat
  BY DEF TypeOK, changePage, pageAvailable
<1>2. turned \in State
  BY <1>1 DEF TypeOK, State
<1>3. entries[current].terms \in Text
  BY EntryType DEF TypeOK
<1>4. /\ state' = turned /\ pushState(turned, entries[current].terms) /\ refresh(turned)
      /\ UNCHANGED <<listing, box, header, past>>
  BY DEF changePage, page_vars
<1>5. entries' \in Seq(SavedEntry) /\ current' \in DOMAIN entries'
  BY <1>2, <1>3, <1>4, PushStateType
<1> QED
  BY <1>2, <1>4, <1>5, SentType DEF TypeOK, HeaderType

LEMMA SearchType == ASSUME TypeOK, NEW text \in Text, submitSearch(text) PROVE TypeOK'
<1> DEFINE searched == [Model(text) EXCEPT !.numberOfResults = state.numberOfResults]
<1>1. searched \in State
  BY ModelType DEF TypeOK, State
<1>2. /\ state' = searched /\ pushState(searched, text) /\ refresh(searched)
      /\ box' = text /\ header' = removeSortIndicator(header)
      /\ UNCHANGED <<listing, past>>
  BY DEF submitSearch, page_vars
<1>3. entries' \in Seq(SavedEntry) /\ current' \in DOMAIN entries'
  BY <1>1, <1>2, PushStateType
<1>4. header' \in [Column -> HeaderType]
  BY <1>2, IndicatorType
<1> QED
  BY <1>1, <1>2, <1>3, <1>4, SentType DEF TypeOK

(* A filter appended to a text gives a text.                               *)
LEMMA AppendedType ==
    ASSUME NEW text \in Text, NEW f \in Filter
    PROVE  text \o <<Open, Inside(f), Close>> \in Text
<1> DEFINE Lexeme == [lexeme : {"(", ")"}] \cup [word : DOMAIN Hits] \cup [filter : Filter]
<1>1. Open \in Lexeme /\ Inside(f) \in Lexeme /\ Close \in Lexeme
  BY DEF Open, Inside, Close
<1>2. text \in Seq(Lexeme)
  BY DEF Text
<1> HIDE DEF Lexeme
<1>3. <<Open, Inside(f), Close>> \in Seq(Lexeme)
  BY <1>1
<1>4. text \o <<Open, Inside(f), Close>> \in Seq(Lexeme)
  BY <1>2, <1>3
<1> QED
  BY <1>4 DEF Text, Lexeme

LEMMA PopstateType == ASSUME TypeOK, NEW i \in DOMAIN entries, popstate(i) PROVE TypeOK'
<1> DEFINE saved == entries[i].saved
           restored == [saved EXCEPT !.numberOfResults = state.numberOfResults]
<1>1. saved \in State \cup {NoState} /\ entries[i].terms \in Text
  BY EntryType
<1>2. entries' \in Seq(SavedEntry) /\ current' \in DOMAIN entries' /\ UNCHANGED <<listing, header>>
  BY DEF TypeOK, popstate, page_vars
<1>3. CASE saved = NoState /\ UNCHANGED <<state, box, requests, sent>>
           /\ past' = [past EXCEPT !.astray = @ \/ entries[i].terms # state.searchQuery]
  <2>1. past' \in [{"overtaken", "lost", "reordered", "astray"} -> BOOLEAN]
    BY <1>3 DEF TypeOK
  <2> QED
    BY <1>2, <1>3, <2>1 DEF TypeOK
<1>4. CASE /\ saved # NoState /\ state' = restored /\ box' = saved.searchQuery
           /\ past' = [past EXCEPT !.reordered =
                @ \/ <<saved.column, saved.direction>> # <<state.column, state.direction>>]
           /\ refresh(restored)
  <2>1. restored \in State /\ saved.searchQuery \in Text
    BY <1>1, <1>4 DEF TypeOK, State
  <2>2. past' \in [{"overtaken", "lost", "reordered", "astray"} -> BOOLEAN]
    BY <1>4 DEF TypeOK
  <2> QED
    BY <1>2, <1>4, <2>1, <2>2, SentType DEF TypeOK, HeaderType
<1> QED
  BY <1>3, <1>4 DEF popstate

LEMMA ReloadType == ASSUME TypeOK, reload PROVE TypeOK'
<1>1. entries[current].terms \in Text
  BY EntryType DEF TypeOK
<1>2. state' \in State /\ box' \in Text
  BY <1>1, ModelType DEF reload
<1>3. header' \in [Column -> [classes : SUBSET Direction, aria : Direction \cup {"none"}]]
  BY DEF reload, PlainHeader
<1>4. sent' \in Nat /\ \A r \in requests' : r.id \in 1 .. sent'
  <2>1. sent' = sent + 1 /\ \A r \in requests' : r.id = sent + 1
    BY DEF reload, Request
  <2> QED
    BY <2>1 DEF TypeOK
<1>5. listing'.answers = 0 /\ listing'.answers \in 0 .. sent'
  BY <1>4 DEF reload, EmptyListing
<1>6. LinksOf(listing'.paginator) \subseteq Int
  <2>1. listing'.paginator.previous = -1 /\ listing'.paginator.next = -1
    BY DEF reload, EmptyListing, NoLink
  <2>2. Range(listing'.paginator.links) = {}
    BY DEF reload, EmptyListing, Range
  <2> QED
    BY <2>1, <2>2 DEF LinksOf
<1>7. past' \in [{"overtaken", "lost", "reordered", "astray"} -> BOOLEAN]
  <2>1. past.astray \in BOOLEAN
    BY DEF TypeOK
  <2> QED
    BY <2>1, MemoryType DEF reload, Memory
<1> QED
  BY <1>2, <1>3, <1>4, <1>5, <1>6, <1>7 DEF TypeOK, reload

LEMMA ShowType ==
    ASSUME TypeOK, NEW r \in requests, NEW reply \in Replies(r.options), show(r.id, reply)
    PROVE  /\ state' \in State
           /\ listing'.answers \in 0 .. sent
           /\ LinksOf(listing'.paginator) \subseteq Int
           /\ past' \in [{"overtaken", "lost", "reordered", "astray"} -> BOOLEAN]
<1> DEFINE s == [state EXCEPT !.numberOfResults = reply.numberOfResults]
<1>1. s \in State
  <2>1. reply.numberOfResults \in Nat
    BY ReplyType
  <2> QED
    BY <2>1 DEF TypeOK, State
<1>2. state' = s /\ listing'.answers = r.id /\ listing'.paginator = createPaginator(s)
  BY DEF show
<1>3. listing'.answers \in 0 .. sent
  BY <1>2 DEF TypeOK
<1>4. past' \in [{"overtaken", "lost", "reordered", "astray"} -> BOOLEAN]
  <2>1. past' = [past EXCEPT !.overtaken = @ \/ r.id < listing.answers]
    BY DEF show
  <2> QED
    BY <2>1 DEF TypeOK
<1> HIDE DEF s
<1> QED
  BY <1>1, <1>2, <1>3, <1>4, PaginatorType

LEMMA SettleType == ASSUME TypeOK, NEW r \in requests, settle(r) PROVE TypeOK'
<1>1. PICK reply \in Replies(r.options) : show(r.id, reply) \/ reject(reply)
  BY DEF settle
<1>2. requests' = requests \ {r} /\ UNCHANGED <<box, expanded, header, entries, current, sent>>
  BY DEF settle
<1>3. CASE show(r.id, reply)
  BY <1>2, <1>3, ShowType DEF TypeOK
<1>4. CASE reject(reply)
  BY <1>2, <1>4 DEF TypeOK, reject
<1> QED
  BY <1>1, <1>3, <1>4

LEMMA LoseType == ASSUME TypeOK, NEW r \in requests, lose(r) PROVE TypeOK'
<1>1. past' \in [{"overtaken", "lost", "reordered", "astray"} -> BOOLEAN]
  BY DEF TypeOK, lose
<1> QED
  BY <1>1 DEF TypeOK, lose, page_vars

(* The texts the form appends.                                             *)
LEMMA FormType ==
    ASSUME TypeOK,
           \/ appendDeprecated
           \/ \E duration \in AgeText : appendAgeOfLastUL(duration)
           \/ \E tag \in TagText : appendTag(tag)
           \/ \E rating \in Rating : appendRating(rating)
    PROVE  \E text \in Text : submitSearch(text)
<1>1. PICK f \in Filter : append(f)
  <2>1. CASE appendDeprecated
    BY <2>1 DEF appendDeprecated, Filter
  <2>2. CASE \E duration \in AgeText : appendAgeOfLastUL(duration)
    <3>1. PICK duration \in AgeText : append([age |-> duration])
      BY <2>2 DEF appendAgeOfLastUL
    <3>2. [age |-> duration] \in Filter
      BY DEF Filter
    <3> QED
      BY <3>1, <3>2
  <2>3. CASE \E tag \in TagText : appendTag(tag)
    <3>1. PICK tag \in TagText : append([tag |-> tag])
      BY <2>3 DEF appendTag
    <3>2. [tag |-> tag] \in Filter
      BY DEF Filter
    <3> QED
      BY <3>1, <3>2
  <2>4. CASE \E rating \in Rating : appendRating(rating)
    <3>1. PICK rating \in Rating : append([rating |-> rating])
      BY <2>4 DEF appendRating
    <3>2. [rating |-> rating] \in Filter
      BY DEF Filter
    <3> QED
      BY <3>1, <3>2
  <2> QED
    BY <2>1, <2>2, <2>3, <2>4
<1>2. box \o <<Open, Inside(f), Close>> \in Text
  BY AppendedType DEF TypeOK
<1> QED
  BY <1>1, <1>2 DEF append

(* A search, whether of what is in the box or with a filter appended.      *)
LEMMA SearchSteps ==
    ASSUME TypeOK, Next
    PROVE  \/ \E column \in Column : sort(column)
           \/ \E candidate \in LinksOf(listing.paginator) : changePage(candidate)
           \/ \E text \in Text : submitSearch(text)
           \/ \E text \in Typed : type(text)
           \/ toggleAdvanced
           \/ \E i \in DOMAIN entries : popstate(i)
           \/ reload
           \/ \E r \in requests : settle(r)
           \/ \E r \in requests : lose(r)
<1>1. ASSUME search PROVE \E text \in Text : submitSearch(text)
  BY <1>1 DEF TypeOK, search
<1> QED
  BY <1>1, FormType DEF Next, Visitor, Settle, Lose

(* The types of the page's variables: above all, pages and numbers of      *)
(* results are never negative, entries stay within the history, and a      *)
(* reply is always to a request that was sent.                             *)
THEOREM TypeCorrect == Spec => []TypeOK
<1>1. Init => TypeOK
  BY InitType
<1>2. TypeOK /\ [Next]_vars => TypeOK'
  <2> SUFFICES ASSUME TypeOK, [Next]_vars PROVE TypeOK'
    OBVIOUS
  <2>1. ASSUME NEW column \in Column, sort(column) PROVE TypeOK'
    BY <2>1, SortType
  <2>2. ASSUME NEW candidate \in LinksOf(listing.paginator), changePage(candidate) PROVE TypeOK'
    BY <2>2, ChangePageType
  <2>3. ASSUME NEW text \in Text, submitSearch(text) PROVE TypeOK'
    BY <2>3, SearchType
  <2>4. ASSUME NEW text \in Typed, type(text) PROVE TypeOK'
    <3>1. text \in Text
      BY BrowseAssumption
    <3> QED
      BY <2>4, <3>1 DEF TypeOK, type, page_vars
  <2>5. CASE toggleAdvanced
    BY <2>5 DEF TypeOK, toggleAdvanced
  <2>6. ASSUME NEW i \in DOMAIN entries, popstate(i) PROVE TypeOK'
    BY <2>6, PopstateType
  <2>7. CASE reload
    BY <2>7, ReloadType
  <2>8. ASSUME NEW r \in requests, settle(r) PROVE TypeOK'
    BY <2>8, SettleType
  <2>9. ASSUME NEW r \in requests, lose(r) PROVE TypeOK'
    BY <2>9, LoseType
  <2>10. CASE UNCHANGED vars
    BY <2>10 DEF TypeOK, vars
  <2> QED
    BY <2>1, <2>2, <2>3, <2>4, <2>5, <2>6, <2>7, <2>8, <2>9, <2>10, SearchSteps
<1> QED
  BY <1>1, <1>2, PTL DEF Spec

-----------------------------------------------------------------------------
(* The address and the arrows.                                             *)

(* No entry was saved under another query than its address names.          *)
Addressed ==
    ~ past.astray =>
        /\ entries[current].terms = state.searchQuery
        /\ \A i \in DOMAIN entries :
              entries[i].saved # NoState => entries[i].saved.searchQuery = entries[i].terms

LEMMA AddressedInit == ASSUME Init PROVE Addressed
<1>1. TypeOK
  BY InitType
<1>2. entries[current].terms = state.searchQuery
  BY <1>1 DEF Init, Last, Model
<1>3. past.astray = WasAstray(entries)
  BY DEF Init, Uneventful
<1> QED
  BY <1>2, <1>3 DEF Addressed, WasAstray

LEMMA AddressedPush ==
    ASSUME TypeOK, Addressed, NEW s \in State, pushState(s, s.searchQuery), UNCHANGED past,
           state'.searchQuery = s.searchQuery
    PROVE  Addressed'
<1>1. s.searchQuery \in Text
  BY DEF State
<1>2. /\ current' = current + 1 /\ DOMAIN entries' = 1 .. current + 1
      /\ entries'[current'] = Entry(s, s.searchQuery)
      /\ \A i \in 1 .. current : i \in DOMAIN entries /\ entries'[i] = entries[i]
  BY <1>1, PushStateType
<1>3. current \in Nat
  BY DEF TypeOK
<1>4. \A i \in DOMAIN entries' : i = current' \/ i \in 1 .. current
  BY <1>2, <1>3
<1>5. entries'[current'].saved = s /\ entries'[current'].terms = s.searchQuery
  BY <1>2 DEF Entry
<1> QED
  BY <1>2, <1>4, <1>5 DEF Addressed

LEMMA AddressedStep == ASSUME TypeOK, Addressed, [Next]_vars PROVE Addressed'
<1>1. ASSUME NEW column \in Column, sort(column) PROVE Addressed'
  <2>1. state'.searchQuery = state.searchQuery
    BY <1>1 DEF sort, TypeOK, State
  <2> QED
    BY <1>1, <2>1 DEF Addressed, sort
<1>2. ASSUME NEW candidate \in LinksOf(listing.paginator), changePage(candidate) PROVE Addressed'
  <2> DEFINE turned == [state EXCEPT !.page = candidate]
  <2>1. turned \in State /\ turned.searchQuery = state.searchQuery
    <3>1. candidate \in Nat
      BY <1>2 DEF TypeOK, changePage, pageAvailable
    <3> QED
      BY <3>1 DEF TypeOK, State
  <2>2. state' = turned /\ pushState(turned, entries[current].terms) /\ UNCHANGED past
    BY <1>2 DEF changePage
  <2>3. CASE past.astray
    BY <2>2, <2>3 DEF Addressed
  <2>4. CASE ~ past.astray
    <3>1. entries[current].terms = turned.searchQuery
      BY <2>1, <2>4 DEF Addressed
    <3> HIDE DEF turned
    <3> QED
      BY <2>1, <2>2, <3>1, AddressedPush
  <2> QED
    BY <2>3, <2>4
<1>3. ASSUME NEW text \in Text, submitSearch(text) PROVE Addressed'
  <2> DEFINE searched == [Model(text) EXCEPT !.numberOfResults = state.numberOfResults]
  <2>1. searched \in State /\ searched.searchQuery = text
    BY ModelType DEF TypeOK, State, Model
  <2>2. state' = searched /\ pushState(searched, text) /\ UNCHANGED past
    BY <1>3 DEF submitSearch
  <2> HIDE DEF searched
  <2> QED
    BY <2>1, <2>2, AddressedPush
<1>4. ASSUME NEW text \in Typed, type(text) PROVE Addressed'
  BY <1>4 DEF Addressed, type
<1>5. CASE toggleAdvanced
  BY <1>5 DEF Addressed, toggleAdvanced
<1>6. ASSUME NEW i \in DOMAIN entries, popstate(i) PROVE Addressed'
  <2> DEFINE saved == entries[i].saved
             restored == [saved EXCEPT !.numberOfResults = state.numberOfResults]
  <2>1. saved \in State \cup {NoState}
    BY EntryType
  <2>2. UNCHANGED entries /\ current' = i
    BY <1>6 DEF popstate
  <2>3. CASE /\ saved = NoState /\ UNCHANGED state
             /\ past' = [past EXCEPT !.astray = @ \/ entries[i].terms # state.searchQuery]
    <3>1. past'.astray <=> past.astray \/ entries[i].terms # state.searchQuery
      BY <2>3 DEF TypeOK
    <3> QED
      BY <2>2, <2>3, <3>1 DEF Addressed
  <2>4. CASE /\ saved # NoState /\ state' = restored
             /\ past' = [past EXCEPT !.reordered =
                  @ \/ <<saved.column, saved.direction>> # <<state.column, state.direction>>]
    <3>1. past'.astray = past.astray
      BY <2>4 DEF TypeOK
    <3>2. state'.searchQuery = saved.searchQuery
      BY <2>1, <2>4 DEF State
    <3> QED
      BY <2>2, <2>4, <3>1, <3>2 DEF Addressed
  <2> QED
    BY <1>6, <2>3, <2>4 DEF popstate
<1>7. CASE reload
  <2>1. past'.astray = past.astray
    BY <1>7 DEF reload, Uneventful
  <2>2. state'.searchQuery = entries[current].terms /\ UNCHANGED <<entries, current>>
    BY <1>7 DEF reload, Model
  <2> QED
    BY <2>1, <2>2 DEF Addressed
<1>8. ASSUME NEW r \in requests, settle(r) PROVE Addressed'
  <2>1. PICK reply \in Replies(r.options) : show(r.id, reply) \/ reject(reply)
    BY <1>8 DEF settle
  <2>2. UNCHANGED <<entries, current>>
    BY <1>8 DEF settle
  <2>3. state'.searchQuery = state.searchQuery /\ past'.astray = past.astray
    BY <2>1 DEF show, reject, TypeOK, State
  <2> QED
    BY <2>2, <2>3 DEF Addressed
<1>9. ASSUME NEW r \in requests, lose(r) PROVE Addressed'
  <2>1. past'.astray = past.astray /\ UNCHANGED <<state, entries, current>>
    BY <1>9 DEF lose, TypeOK
  <2> QED
    BY <2>1 DEF Addressed
<1>10. CASE UNCHANGED vars
  BY <1>10 DEF Addressed, vars
<1> QED
  BY <1>1, <1>2, <1>3, <1>4, <1>5, <1>6, <1>7, <1>8, <1>9, <1>10, SearchSteps

(* AddressMatchesQuery, for every history the tab can have: the address    *)
(* names the query the page searches until the script ignores an entry.    *)
(* Every entry matters, not the current one alone, because any of them     *)
(* can be gone back to: that is what Addressed adds.                       *)
THEOREM AddressHolds == Spec => []AddressMatchesQuery
<1>1. Init => Addressed
  BY AddressedInit
<1>2. TypeOK /\ Addressed /\ [Next]_vars => Addressed'
  BY AddressedStep
<1>3. TypeOK /\ Addressed => AddressMatchesQuery
  BY DEF TypeOK, Addressed, AddressMatchesQuery
<1> QED
  BY <1>1, <1>2, <1>3, TypeCorrect, PTL DEF Spec

Arrow(c, column, direction) ==
    IF c = column
    THEN [classes |-> {direction}, aria |-> direction]
    ELSE [classes |-> {}, aria |-> "none"]

(* The header without its arrow.                                           *)
LEMMA ArrowRemoved ==
    ASSUME TypeOK, ArrowsAgree, ~ past.reordered, NEW c \in Column
    PROVE  removeSortIndicator(header)[c] = [classes |-> {}, aria |-> "none"]
<1>1. header \in [Column -> HeaderType] /\ state \in State
  BY DEF TypeOK, HeaderType
<1>2. \A k \in Column : header[k] = Arrow(k, state.column, state.direction)
  BY DEF ArrowsAgree, Arrow
<1>3. CASE state.column = "default"
  <2>1. c # state.column
    BY <1>3, ColumnAssumption DEF Column
  <2> QED
    BY <1>2, <1>3, <2>1 DEF removeSortIndicator, Arrow
<1>4. CASE state.column # "default"
  <2>1. removeSortIndicator(header) =
            [header EXCEPT ![state.column] = [classes |-> @.classes \ Direction, aria |-> "none"]]
    BY <1>4 DEF removeSortIndicator
  <2>2. CASE c # state.column
    BY <1>1, <1>2, <2>1, <2>2 DEF Arrow
  <2>3. CASE c = state.column
    <3>1. header[c].classes = {state.direction} /\ state.direction \in Direction
      BY <1>1, <1>2, <2>3 DEF Arrow, State
    <3>2. header[c].classes \ Direction = {}
      BY <3>1
    <3> QED
      BY <1>1, <2>1, <2>3, <3>2
  <2> QED
    BY <2>2, <2>3
<1> QED
  BY <1>3, <1>4

LEMMA ArrowsStep == ASSUME TypeOK, ArrowsAgree, [Next]_vars PROVE ArrowsAgree'
<1>0. header \in [Column -> HeaderType] /\ state \in State
  BY DEF TypeOK, HeaderType
<1>1. ASSUME NEW column \in Column, sort(column) PROVE ArrowsAgree'
  <2> SUFFICES ASSUME ~ past'.reordered, NEW c \in Column
               PROVE  header'[c] = Arrow(c, state'.column, state'.direction)
    BY DEF ArrowsAgree, Arrow
  <2>1. ~ past.reordered
    BY <1>1 DEF sort
  <2>2. \A k \in Column : header[k] = Arrow(k, state.column, state.direction)
    BY <2>1 DEF ArrowsAgree, Arrow
  <2>3. CASE state.column = column
    <3> DEFINE flipped == Flipped(state.direction)
    <3>1. state' = [state EXCEPT !.direction = flipped, !.page = 0]
      BY <1>1, <2>3 DEF sort
    <3>2. state'.column = column /\ state'.direction = flipped
      BY <1>0, <2>3, <3>1 DEF State
    <3>3. header' = [header EXCEPT ![column] =
              [classes |-> Toggle(Toggle(@.classes, state.direction), flipped), aria |-> flipped]]
      BY <1>1, <2>3 DEF sort
    <3>4. header[column].classes = {state.direction}
      BY <2>2, <2>3 DEF Arrow
    <3>5. Toggle(Toggle({state.direction}, state.direction), flipped) = {flipped}
      BY DEF Toggle
    <3>6. header'[column] = [classes |-> {flipped}, aria |-> flipped]
      BY <1>0, <3>3, <3>4, <3>5
    <3>7. c # column => header'[c] = header[c]
      BY <1>0, <3>3
    <3> QED
      BY <2>2, <2>3, <3>2, <3>6, <3>7 DEF Arrow
  <2>4. CASE state.column # column
    <3>1. state' = [state EXCEPT !.direction = "ascending", !.column = column, !.page = 0]
      BY <1>1, <2>4 DEF sort
    <3>2. state'.column = column /\ state'.direction = "ascending"
      BY <1>0, <3>1 DEF State
    <3>3. PICK h \in [Column -> HeaderType] : h = removeSortIndicator(header)
      BY IndicatorType
    <3>4. header' = [h EXCEPT ![column] =
              [classes |-> @.classes \cup {"ascending"}, aria |-> "ascending"]]
      BY <1>1, <2>4, <3>3 DEF sort
    <3>5. \A k \in Column : h[k] = [classes |-> {}, aria |-> "none"]
      BY <2>1, <3>3, ArrowRemoved
    <3>6. h[column].classes = {}
      BY <3>5
    <3>7. header'[column] = [classes |-> {"ascending"}, aria |-> "ascending"]
      BY <3>3, <3>4, <3>6
    <3>8. c # column => header'[c] = [classes |-> {}, aria |-> "none"]
      BY <3>3, <3>4, <3>5
    <3> QED
      BY <3>2, <3>7, <3>8 DEF Arrow
  <2> QED
    BY <2>3, <2>4
<1>2. ASSUME NEW candidate \in LinksOf(listing.paginator), changePage(candidate) PROVE ArrowsAgree'
  <2>1. /\ state'.column = state.column /\ state'.direction = state.direction
        /\ UNCHANGED <<header, past>>
    BY <1>0, <1>2 DEF changePage, State
  <2> QED
    BY <2>1 DEF ArrowsAgree
<1>3. ASSUME NEW text \in Text, submitSearch(text) PROVE ArrowsAgree'
  <2> SUFFICES ASSUME ~ past'.reordered, NEW c \in Column
               PROVE  header'[c] = Arrow(c, state'.column, state'.direction)
    BY DEF ArrowsAgree, Arrow
  <2>1. ~ past.reordered /\ header' = removeSortIndicator(header)
    BY <1>3 DEF submitSearch
  <2>2. state'.column = "default"
    BY <1>3 DEF submitSearch, Model
  <2>3. c # "default"
    BY ColumnAssumption DEF Column
  <2> QED
    BY <2>1, <2>2, <2>3, ArrowRemoved DEF Arrow
<1>4. ASSUME NEW text \in Typed, type(text) PROVE ArrowsAgree'
  BY <1>4 DEF ArrowsAgree, type
<1>5. CASE toggleAdvanced
  BY <1>5 DEF ArrowsAgree, toggleAdvanced
<1>6. ASSUME NEW i \in DOMAIN entries, popstate(i) PROVE ArrowsAgree'
  <2> DEFINE saved == entries[i].saved
             restored == [saved EXCEPT !.numberOfResults = state.numberOfResults]
  <2>1. saved \in State \cup {NoState}
    BY EntryType
  <2>2. UNCHANGED header
    BY <1>6 DEF popstate
  <2>3. CASE /\ saved = NoState /\ UNCHANGED state
             /\ past' = [past EXCEPT !.astray = @ \/ entries[i].terms # state.searchQuery]
    <3>1. past'.reordered = past.reordered
      BY <2>3 DEF TypeOK
    <3> QED
      BY <2>2, <2>3, <3>1 DEF ArrowsAgree
  <2>4. CASE /\ saved # NoState /\ state' = restored
             /\ past' = [past EXCEPT !.reordered =
                  @ \/ <<saved.column, saved.direction>> # <<state.column, state.direction>>]
    <3>1. past'.reordered <=>
              past.reordered \/ <<saved.column, saved.direction>> # <<state.column, state.direction>>
      BY <2>4 DEF TypeOK
    <3>2. state'.column = saved.column /\ state'.direction = saved.direction
      BY <2>1, <2>4 DEF State
    <3>3. ~ past'.reordered =>
              ~ past.reordered /\ saved.column = state.column /\ saved.direction = state.direction
      BY <3>1
    <3> QED
      BY <2>2, <3>2, <3>3 DEF ArrowsAgree
  <2> QED
    BY <1>6, <2>3, <2>4 DEF popstate
<1>7. CASE reload
  <2>1. header' = PlainHeader /\ state'.column = "default"
    BY <1>7 DEF reload, Model
  <2>2. \A c \in Column : c # "default"
    BY ColumnAssumption DEF Column
  <2> QED
    BY <2>1, <2>2 DEF ArrowsAgree, PlainHeader
<1>8. ASSUME NEW r \in requests, settle(r) PROVE ArrowsAgree'
  <2>1. PICK reply \in Replies(r.options) : show(r.id, reply) \/ reject(reply)
    BY <1>8 DEF settle
  <2>2. UNCHANGED header
    BY <1>8 DEF settle
  <2>3. state'.column = state.column /\ state'.direction = state.direction
    BY <1>0, <2>1 DEF show, reject, State
  <2>4. past'.reordered = past.reordered
    BY <2>1 DEF show, reject, TypeOK
  <2> QED
    BY <2>2, <2>3, <2>4 DEF ArrowsAgree
<1>9. ASSUME NEW r \in requests, lose(r) PROVE ArrowsAgree'
  <2>1. past'.reordered = past.reordered /\ UNCHANGED <<state, header>>
    BY <1>9 DEF lose, TypeOK
  <2> QED
    BY <2>1 DEF ArrowsAgree
<1>10. CASE UNCHANGED vars
  BY <1>10 DEF ArrowsAgree, vars
<1> QED
  BY <1>1, <1>2, <1>3, <1>4, <1>5, <1>6, <1>7, <1>8, <1>9, <1>10, SearchSteps

(* ArrowsAgree for any columns and any visit: with the types it is         *)
(* inductive, and the column "default" having no header is needed for it.  *)
THEOREM ArrowsHold == Spec => []ArrowsAgree
<1>1. Init => ArrowsAgree
  <2> SUFFICES ASSUME Init PROVE ArrowsAgree
    OBVIOUS
  <2>1. header = PlainHeader /\ state.column = "default"
    BY DEF Init, Model
  <2>2. \A c \in Column : c # "default"
    BY ColumnAssumption DEF Column
  <2> QED
    BY <2>1, <2>2 DEF ArrowsAgree, PlainHeader
<1>2. TypeOK /\ ArrowsAgree /\ [Next]_vars => ArrowsAgree'
  BY ArrowsStep
<1> QED
  BY <1>1, <1>2, TypeCorrect, PTL DEF Spec

-----------------------------------------------------------------------------
(* The reply to the last request.                                          *)

(* It is on its way, shown, or one of the things that keep it from being   *)
(* shown has happened.                                                     *)
Awaited ==
    \/ fatalError \/ past.overtaken \/ past.lost
    \/ listing.answers = sent
    \/ \E r \in requests : r.id = sent

LEMMA AwaitedSent ==
    ASSUME TypeOK, NEW s, refresh(s)
    PROVE  Awaited'
<1>1. Request(sent + 1, s) \in requests' /\ Request(sent + 1, s).id = sent'
  BY DEF refresh, Request
<1> QED
  BY <1>1 DEF Awaited

LEMMA AwaitedStep == ASSUME TypeOK, Awaited, [Next]_vars PROVE Awaited'
<1>1. ASSUME NEW column \in Column, sort(column) PROVE Awaited'
  BY <1>1, AwaitedSent DEF sort
<1>2. ASSUME NEW candidate \in LinksOf(listing.paginator), changePage(candidate) PROVE Awaited'
  BY <1>2, AwaitedSent DEF changePage
<1>3. ASSUME NEW text \in Text, submitSearch(text) PROVE Awaited'
  BY <1>3, AwaitedSent DEF submitSearch
<1>4. ASSUME NEW text \in Typed, type(text) PROVE Awaited'
  BY <1>4 DEF Awaited, type, page_vars
<1>5. CASE toggleAdvanced
  BY <1>5 DEF Awaited, toggleAdvanced
<1>6. ASSUME NEW i \in DOMAIN entries, popstate(i) PROVE Awaited'
  <2>1. CASE entries[i].saved # NoState
    BY <1>6, <2>1, AwaitedSent DEF popstate
  <2>2. CASE entries[i].saved = NoState
    <3>1. UNCHANGED <<fatalError, listing, requests, sent>>
      BY <1>6, <2>2 DEF popstate, page_vars
    <3>2. past' = [past EXCEPT !.astray = @ \/ entries[i].terms # state.searchQuery]
      BY <1>6, <2>2 DEF popstate
    <3>3. past'.overtaken = past.overtaken /\ past'.lost = past.lost
      BY <3>2 DEF TypeOK
    <3> QED
      BY <3>1, <3>3 DEF Awaited
  <2> QED
    BY <2>1, <2>2
<1>7. CASE reload
  <2>1. \E r \in requests' : r.id = sent'
    BY <1>7 DEF reload, Request
  <2> QED
    BY <2>1 DEF Awaited
<1>8. ASSUME NEW r \in requests, settle(r) PROVE Awaited'
  <2>1. PICK reply \in Replies(r.options) : show(r.id, reply) \/ reject(reply)
    BY <1>8 DEF settle
  <2>2. requests' = requests \ {r} /\ sent' = sent
    BY <1>8 DEF settle
  <2>3. r.id \in 1 .. sent /\ sent \in Nat
    BY DEF TypeOK
  <2>4. CASE reject(reply)
    BY <2>4 DEF Awaited, reject
  <2>5. CASE show(r.id, reply)
    <3>1. listing'.answers = r.id /\ fatalError' = fatalError
      BY <2>5 DEF show
    <3>2. past' = [past EXCEPT !.overtaken = @ \/ r.id < listing.answers]
      BY <2>5 DEF show
    <3>3. past'.lost = past.lost /\ (past'.overtaken <=> past.overtaken \/ r.id < listing.answers)
      BY <3>2 DEF TypeOK
    <3>4. CASE r.id = sent
      BY <2>2, <3>1, <3>4 DEF Awaited
    <3>5. CASE r.id # sent
      <4>1. listing.answers = sent => past'.overtaken
        BY <2>3, <3>3, <3>5
      <4>2. \A q \in requests : q.id = sent => q \in requests' /\ q.id = sent'
        BY <2>2, <3>5
      <4> QED
        BY <3>1, <3>3, <4>1, <4>2 DEF Awaited
    <3> QED
      BY <3>4, <3>5
  <2> QED
    BY <2>1, <2>4, <2>5
<1>9. ASSUME NEW r \in requests, lose(r) PROVE Awaited'
  <2>1. past'.lost
    BY <1>9 DEF lose, TypeOK
  <2> QED
    BY <2>1 DEF Awaited
<1>10. CASE UNCHANGED vars
  BY <1>10 DEF Awaited, vars
<1> QED
  BY <1>1, <1>2, <1>3, <1>4, <1>5, <1>6, <1>7, <1>8, <1>9, <1>10, SearchSteps

(* AnsweredOrWarned, for any number of requests answered in any order: the *)
(* last request is what is followed, for a reply that replaces the answer  *)
(* to it is one that was overtaken.                                        *)
THEOREM AnswerIsAwaited == Spec => []AnsweredOrWarned
<1>1. Init => Awaited
  BY DEF Init, Awaited, Request
<1>2. TypeOK /\ Awaited /\ [Next]_vars => Awaited'
  BY AwaitedStep
<1>3. Awaited => AnsweredOrWarned
  BY DEF Awaited, AnsweredOrWarned
<1> QED
  BY <1>1, <1>2, <1>3, TypeCorrect, PTL DEF Spec

(* What is shown of the reply to the last request is about the state, and  *)
(* the request it answers is the one the state makes: nothing that changes *)
(* page, order or query is done without another request.                   *)
Answer(reply, s) ==
    /\ reply.status = "ok"
    /\ listing.rows = reply.pageContents
    /\ s.numberOfResults = reply.numberOfResults
    /\ listing.indicator = createIndexIndicator(s)
    /\ listing.paginator = createPaginator(s)
    /\ listing.hoogle = s.searchQuery

Current ==
    /\ \A r \in requests : r.id = sent => r.options = get(state)
    /\ listing.answers = sent => \E reply \in Replies(get(state)) : Answer(reply, state)

LEMMA CurrentSent ==
    ASSUME TypeOK, NEW s, refresh(s), state' = s, UNCHANGED listing
    PROVE  Current'
<1>1. sent' = sent + 1 /\ requests' = requests \cup {Request(sent + 1, s)}
  BY DEF refresh
<1>2. \A r \in requests : r.id # sent'
  BY <1>1 DEF TypeOK
<1>3. Request(sent + 1, s).options = get(s)
  BY DEF Request
<1>4. \A r \in requests' : r.id = sent' => r.options = get(state')
  BY <1>1, <1>2, <1>3
<1>5. listing'.answers # sent'
  BY <1>1 DEF TypeOK
<1> QED
  BY <1>4, <1>5 DEF Current

LEMMA CurrentUnchanged ==
    ASSUME Current, UNCHANGED <<state, listing, sent>>, requests' \subseteq requests
    PROVE  Current'
  BY DEF Current, Answer

LEMMA CurrentSettle ==
    ASSUME TypeOK, Current, NEW r \in requests, settle(r)
    PROVE  Current'
<1>1. PICK reply \in Replies(r.options) : show(r.id, reply) \/ reject(reply)
  BY DEF settle
<1>2. requests' = requests \ {r} /\ sent' = sent
  BY DEF settle
<1>3. CASE reject(reply)
  BY <1>2, <1>3, CurrentUnchanged DEF reject
<1>4. CASE show(r.id, reply)
  <2> DEFINE s == [state EXCEPT !.numberOfResults = reply.numberOfResults]
  <2>1. state' = s /\ listing' = [answers |-> r.id, rows |-> replaceRows(reply),
                                  indicator |-> createIndexIndicator(s),
                                  paginator |-> createPaginator(s), hoogle |-> s.searchQuery]
        /\ reply.status = "ok"
    BY <1>4 DEF show
  <2>2. get(state') = get(state) /\ state'.numberOfResults = reply.numberOfResults
    BY <2>1 DEF get, TypeOK, State
  <2>3. \A q \in requests' : q.id = sent' => q.options = get(state')
    BY <1>2, <2>2 DEF Current
  <2>4. CASE r.id = sent
    <3>1. reply \in Replies(get(state'))
      BY <2>2, <2>4 DEF Current
    <3>2. /\ listing'.rows = reply.pageContents
          /\ listing'.indicator = createIndexIndicator(state')
          /\ listing'.paginator = createPaginator(state')
          /\ listing'.hoogle = state'.searchQuery
      BY <2>1 DEF replaceRows
    <3> QED
      BY <2>1, <2>2, <2>3, <3>1, <3>2 DEF Current, Answer
  <2>5. CASE r.id # sent
    <3>1. listing'.answers # sent'
      BY <1>2, <2>1, <2>5
    <3> QED
      BY <2>3, <3>1 DEF Current
  <2> QED
    BY <2>4, <2>5
<1> QED
  BY <1>1, <1>3, <1>4

LEMMA CurrentStep == ASSUME TypeOK, Current, [Next]_vars PROVE Current'
<1>1. ASSUME NEW column \in Column, sort(column) PROVE Current'
  BY <1>1, CurrentSent DEF sort, page_vars
<1>2. ASSUME NEW candidate \in LinksOf(listing.paginator), changePage(candidate) PROVE Current'
  BY <1>2, CurrentSent DEF changePage, page_vars
<1>3. ASSUME NEW text \in Text, submitSearch(text) PROVE Current'
  BY <1>3, CurrentSent DEF submitSearch, page_vars
<1>4. ASSUME NEW text \in Typed, type(text) PROVE Current'
  BY <1>4, CurrentUnchanged DEF type, page_vars
<1>5. CASE toggleAdvanced
  BY <1>5, CurrentUnchanged DEF toggleAdvanced
<1>6. ASSUME NEW i \in DOMAIN entries, popstate(i) PROVE Current'
  <2>1. CASE entries[i].saved # NoState
    BY <1>6, <2>1, CurrentSent DEF popstate, page_vars
  <2>2. CASE entries[i].saved = NoState
    BY <1>6, <2>2, CurrentUnchanged DEF popstate, page_vars
  <2> QED
    BY <2>1, <2>2
<1>7. CASE reload
  <2>1. \A r \in requests' : r.options = get(state')
    BY <1>7 DEF reload, Request
  <2>2. listing'.answers # sent'
    BY <1>7 DEF reload, EmptyListing, TypeOK
  <2> QED
    BY <2>1, <2>2 DEF Current
<1>8. ASSUME NEW r \in requests, settle(r) PROVE Current'
  BY <1>8, CurrentSettle
<1>9. ASSUME NEW r \in requests, lose(r) PROVE Current'
  BY <1>9, CurrentUnchanged DEF lose, page_vars
<1>10. CASE UNCHANGED vars
  BY <1>10, CurrentUnchanged DEF vars
<1> QED
  BY <1>1, <1>2, <1>3, <1>4, <1>5, <1>6, <1>7, <1>8, <1>9, <1>10, SearchSteps

LEMMA CurrentInit == ASSUME Init PROVE Current
<1>1. \A r \in requests : r.options = get(state)
  BY DEF Init, Request
<1>2. listing.answers # sent
  BY DEF Init, EmptyListing
<1> QED
  BY <1>1, <1>2 DEF Current

(* Whatever order the replies come in: once the reply to the last request  *)
(* is shown, all that is on the page is made of it and of the state of     *)
(* now.  ListingIsCurrent and PagesAgree rest on this.                     *)
THEOREM ShownIsCurrent == Spec => []Current
<1>1. Init => Current
  BY CurrentInit
<1>2. TypeOK /\ Current /\ [Next]_vars => Current'
  BY CurrentStep
<1> QED
  BY <1>1, <1>2, TypeCorrect, PTL DEF Spec

-----------------------------------------------------------------------------
(* Pages, by the script and by the server.                                 *)

(* A page there is of n results is one up to the last: the one test        *)
(* multiplies and the other divides.                                       *)
LEMMA PagesOf ==
    ASSUME NEW n \in Nat, NEW page \in Nat
    PROVE  page <= maxAvailablePage(n) <=> page = 0 \/ page * PageSize < n
<1>1. PICK a \in Nat : a = IF n = 0 THEN 0 ELSE n - 1
  OBVIOUS
<1>2. PICK max : max = a \div PageSize
  OBVIOUS
<1>3. max \in Nat /\ max * PageSize <= a /\ a < max * PageSize + PageSize
  BY <1>2, PageSizeAssumption
<1>4. maxAvailablePage(n) = max
  BY <1>1, <1>2 DEF maxAvailablePage
<1>5. CASE page <= max
  <2>1. page * PageSize <= max * PageSize
    BY <1>3, <1>5, PageSizeAssumption
  <2>2. CASE n = 0
    <3>1. a = 0
      BY <1>1, <2>2
    <3>2. max * PageSize <= 0
      BY <1>3, <3>1
    <3>3. max = 0
      BY <1>3, <3>2, PageSizeAssumption
    <3> QED
      BY <1>4, <1>5, <3>3
  <2>3. CASE n # 0
    <3>1. a < n
      BY <1>1, <2>3
    <3>2. page * PageSize \in Nat /\ max * PageSize \in Nat
      BY <1>3, PageSizeAssumption
    <3>3. page * PageSize < n
      BY <1>3, <2>1, <3>1, <3>2
    <3> QED
      BY <1>4, <1>5, <3>3
  <2> QED
    BY <2>2, <2>3
<1>6. CASE ~ (page <= max)
  <2>1. max * PageSize + PageSize <= page * PageSize
    BY <1>3, <1>6, PageSizeAssumption
  <2>2. page * PageSize \in Nat /\ max * PageSize \in Nat /\ PageSize \in Nat
    BY <1>3, PageSizeAssumption
  <2>3. a < page * PageSize
    BY <1>3, <2>1, <2>2
  <2>4. n <= page * PageSize
    BY <1>1, <2>2, <2>3
  <2>5. page # 0
    BY <1>3, <1>6
  <2> QED
    BY <1>4, <1>6, <2>2, <2>4, <2>5
<1> QED
  BY <1>5, <1>6

LEMMA SlicesOf ==
    ASSUME NEW n \in Nat, NEW page \in Nat
    PROVE  /\ paginate(n, page) # Nothing <=> page = 0 \/ page * PageSize < n
           /\ paginate(n, page) # Nothing =>
                 /\ paginate(n, page).startIndex = page * PageSize
                 /\ paginate(n, page).numElems =
                        IF n < (page + 1) * PageSize THEN n - page * PageSize ELSE PageSize
<1>1. page * PageSize \in Nat
  BY PageSizeAssumption
<1>2. CASE n <= page * PageSize /\ page # 0
  <2>1. paginate(n, page) = Nothing
    BY <1>2 DEF paginate
  <2> QED
    BY <1>1, <1>2, <2>1
<1>3. CASE ~ (n <= page * PageSize /\ page # 0)
  <2>1. paginate(n, page) =
            [startIndex |-> page * PageSize,
             numElems |-> IF n < (page + 1) * PageSize THEN n - page * PageSize ELSE PageSize]
    BY <1>3 DEF paginate
  <2>2. paginate(n, page).startIndex = page * PageSize
    BY <2>1
  <2>3. Nothing.startIndex = -1
    BY DEF Nothing
  <2>4. paginate(n, page) # Nothing
    BY <1>1, <2>2, <2>3
  <2> QED
    BY <1>1, <1>3, <2>1, <2>4
<1> QED
  BY <1>2, <1>3

(* The links: every page there is, and no other, is linked or stands       *)
(* behind an ellipsis; the current page has its neighbours beside it.      *)
LinksAgree(L, page, max) ==
    /\ Range(L) \subseteq 0 .. max \cup {Ellipsis}
    /\ {0, page, max} \subseteq Range(L)
    /\ {x \in {page - 1, page + 1} : x \in 0 .. max} \subseteq Range(L)
    /\ \A i, j \in DOMAIN L :
          i < j /\ Ellipsis \notin {L[i], L[j]} => L[i] < L[j] /\ (j = i + 1 => L[j] = L[i] + 1)

LEMMA SevenRange ==
    ASSUME NEW L, NEW a, NEW b, NEW c, NEW d, NEW e, NEW f, NEW g, Seven(L, a, b, c, d, e, f, g)
    PROVE  Range(L) = {a, b, c, d, e, f, g} /\ DOMAIN L = 1 .. 7
<1>1. DOMAIN L = 1 .. 7
  BY DEF Seven
<1>2. \A i \in 1 .. 7 : i = 1 \/ i = 2 \/ i = 3 \/ i = 4 \/ i = 5 \/ i = 6 \/ i = 7
  OBVIOUS
<1>3. Range(L) = {L[i] : i \in 1 .. 7}
  BY <1>1 DEF Range
<1>4. {L[i] : i \in 1 .. 7} = {L[1], L[2], L[3], L[4], L[5], L[6], L[7]}
  BY <1>2
<1> QED
  BY <1>1, <1>3, <1>4 DEF Seven

LEMMA AllLinks ==
    ASSUME NEW page \in Nat, NEW max \in Nat, page <= max
    PROVE  LinksAgree(Pages(0, max), page, max)
<1>1. PICK first \in Nat : first = 0
  OBVIOUS
<1>2. PICK L : L = Pages(first, max)
  OBVIOUS
<1>3. DOMAIN L = 1 .. max + 1 /\ \A i \in 1 .. max + 1 : L[i] = i - 1
  <2>1. first <= max
    BY <1>1
  <2>2. /\ DOMAIN L = 1 .. max - first + 1
        /\ \A i \in 1 .. max - first + 1 : L[i] = first + i - 1
    BY <1>2, <2>1, PagesAre
  <2> QED
    BY <1>1, <2>2
<1>4. \A x \in 0 .. max : x + 1 \in DOMAIN L /\ L[x + 1] = x
  BY <1>3
<1>5. \A x \in 0 .. max : x \in Range(L)
  BY <1>4 DEF Range
<1>6. Range(L) \subseteq 0 .. max
  BY <1>3 DEF Range
<1>7. \A i, j \in DOMAIN L : i < j => L[i] < L[j] /\ (j = i + 1 => L[j] = L[i] + 1)
  BY <1>3
<1> QED
  BY <1>1, <1>2, <1>5, <1>6, <1>7 DEF LinksAgree

LEMMA FirstLinks ==
    ASSUME NEW page \in Nat, NEW max \in Nat, max > 4, page <= 3,
           NEW L, Seven(L, 0, 1, 2, 3, 4, Ellipsis, max)
    PROVE  LinksAgree(L, page, max)
<1>1. Range(L) = {0, 1, 2, 3, 4, Ellipsis, max} /\ DOMAIN L = 1 .. 7
  BY SevenRange
<1>2. page \in {0, 1, 2, 3}
  OBVIOUS
<1>3. \A i, j \in DOMAIN L :
          i < j /\ Ellipsis \notin {L[i], L[j]} => L[i] < L[j] /\ (j = i + 1 => L[j] = L[i] + 1)
  BY <1>1 DEF Seven, Ellipsis
<1> QED
  BY <1>1, <1>2, <1>3 DEF LinksAgree, Ellipsis

LEMMA LastLinks ==
    ASSUME NEW page \in Nat, NEW max \in Nat, max > 4, page > 3, page + 3 >= max, page <= max,
           NEW L, Seven(L, 0, Ellipsis, max - 4, max - 3, max - 2, max - 1, max)
    PROVE  LinksAgree(L, page, max)
<1>1. Range(L) = {0, Ellipsis, max - 4, max - 3, max - 2, max - 1, max} /\ DOMAIN L = 1 .. 7
  BY SevenRange
<1>2. page \in {max - 3, max - 2, max - 1, max}
  OBVIOUS
<1>3. \A i, j \in DOMAIN L :
          i < j /\ Ellipsis \notin {L[i], L[j]} => L[i] < L[j] /\ (j = i + 1 => L[j] = L[i] + 1)
  BY <1>1 DEF Seven, Ellipsis
<1> QED
  BY <1>1, <1>2, <1>3 DEF LinksAgree, Ellipsis

LEMMA MiddleLinks ==
    ASSUME NEW page \in Nat, NEW max \in Nat, max > 4, page > 3, page + 3 < max,
           NEW L, Seven(L, 0, Ellipsis, page - 1, page, page + 1, Ellipsis, max)
    PROVE  LinksAgree(L, page, max)
<1>1. Range(L) = {0, Ellipsis, page - 1, page, page + 1, Ellipsis, max} /\ DOMAIN L = 1 .. 7
  BY SevenRange
<1>2. \A i, j \in DOMAIN L :
          i < j /\ Ellipsis \notin {L[i], L[j]} => L[i] < L[j] /\ (j = i + 1 => L[j] = L[i] + 1)
  BY <1>1 DEF Seven, Ellipsis
<1> QED
  BY <1>1, <1>2 DEF LinksAgree, Ellipsis

LEMMA LinksHold ==
    ASSUME NEW page \in Nat, NEW max \in Nat, page <= max
    PROVE  LinksAgree(pageLinks(page, max), page, max)
  BY PageLinksAre, AllLinks, FirstLinks, LastLinks, MiddleLinks

(* The reply shown is to a page there is.                                  *)
LEMMA ReplyInBounds ==
    ASSUME TypeOK, NEW reply \in Replies(get(state)), Answer(reply, state)
    PROVE  state.page <= maxAvailablePage(state.numberOfResults)
<1>1. state.page \in Nat /\ state.numberOfResults \in Nat
  BY DEF TypeOK, State
<1>2. PICK hidden \in SUBSET Volatile : reply = renderResultPage(get(state), Package \ hidden)
  BY DEF Replies
<1>3. PICK total : total = Cardinality(found(get(state), Package \ hidden))
  OBVIOUS
<1>4. get(state).page = state.page
  BY DEF get
<1>5. reply = IF paginate(total, state.page) = Nothing
              THEN [status |-> "error", pageContents |-> << >>, numberOfResults |-> 0]
              ELSE [status |-> "ok",
                    pageContents |->
                        SubSeq(sortItems(get(state).column, get(state).direction,
                                         ranking(terms(conditions(get(state).searchQuery))),
                                         found(get(state), Package \ hidden)),
                               paginate(total, state.page).startIndex + 1,
                               paginate(total, state.page).startIndex
                                   + paginate(total, state.page).numElems),
                    numberOfResults |-> total]
  BY <1>2, <1>3, <1>4 DEF renderResultPage
<1>6. paginate(total, state.page) # Nothing /\ reply.numberOfResults = total
  BY <1>5 DEF Answer
<1>7. total = state.numberOfResults
  BY <1>6 DEF Answer
<1> QED
  BY <1>1, <1>6, <1>7, SlicesOf, PagesOf

(* Script and server agree on the pages of n results and on what each      *)
(* shows.                                                                  *)
LEMMA BothAgree ==
    ASSUME NEW s \in State, NEW page \in Nat
    PROVE  LET n == s.numberOfResults
               slice == paginate(n, page)
               shown == createIndexIndicator([s EXCEPT !.page = page])
           IN  /\ pageAvailable(s, page) <=> slice # Nothing
               /\ page <= maxAvailablePage(n) <=> slice # Nothing
               /\ slice # Nothing /\ n > 0 =>
                     shown = [from |-> slice.startIndex + 1,
                              to   |-> slice.startIndex + slice.numElems]
<1>1. PICK n \in Nat : n = s.numberOfResults
  BY DEF State
<1>2. PICK slice : slice = paginate(n, page)
  OBVIOUS
<1>3. PICK p \in Nat : p = page * PageSize
  BY PageSizeAssumption
<1>4. slice # Nothing <=> page = 0 \/ p < n
  BY <1>2, <1>3, SlicesOf
<1>5. pageAvailable(s, page) <=> page = 0 \/ p < n
  BY <1>1, <1>3 DEF pageAvailable
<1>6. page <= maxAvailablePage(n) <=> page = 0 \/ p < n
  BY <1>3, PagesOf
<1>7. ASSUME slice # Nothing, n > 0
      PROVE  createIndexIndicator([s EXCEPT !.page = page]) =
                 [from |-> slice.startIndex + 1, to |-> slice.startIndex + slice.numElems]
  <2>1. PICK next \in Nat : next = (page + 1) * PageSize
    BY PageSizeAssumption
  <2>2. next = p + PageSize /\ PageSize \in Nat
    BY <1>3, <2>1, PageSizeAssumption
  <2>3. /\ slice.startIndex = p
        /\ slice.numElems = IF n < next THEN n - p ELSE PageSize
    BY <1>2, <1>3, <1>7, <2>1, SlicesOf
  <2>4. PICK t : t = [s EXCEPT !.page = page]
    OBVIOUS
  <2>5. t.page = page /\ t.numberOfResults = n
    BY <1>1, <2>4 DEF State
  <2>6. createIndexIndicator(t) = [from |-> p + 1, to |-> IF next < n THEN next ELSE n]
    BY <1>3, <1>7, <2>1, <2>5 DEF createIndexIndicator
  <2>7. slice.startIndex + slice.numElems = IF next < n THEN next ELSE n
    <3>1. CASE n < next
      BY <1>1, <2>2, <2>3, <3>1
    <3>2. CASE ~ (n < next)
      BY <1>1, <2>1, <2>2, <2>3, <3>2
    <3> QED
      BY <3>1, <3>2
  <2> QED
    BY <2>3, <2>4, <2>6, <2>7
<1> QED
  BY <1>1, <1>2, <1>4, <1>5, <1>6, <1>7

(* The paginator of a page there is.                                       *)
LEMMA PaginatorAgrees ==
    ASSUME NEW s \in State, s.page <= maxAvailablePage(s.numberOfResults),
           NEW p, p = createPaginator(s)
    PROVE  /\ \A page \in LinksOf(p) : pageAvailable(s, page)
           /\ {0, s.page, maxAvailablePage(s.numberOfResults)} \subseteq Range(p.links)
           /\ {page \in {s.page - 1, s.page + 1} : pageAvailable(s, page)}
                 \subseteq {p.previous, p.next} \cap Range(p.links)
           /\ \A i, j \in DOMAIN p.links :
                 i < j /\ Ellipsis \notin {p.links[i], p.links[j]} =>
                     /\ p.links[i] < p.links[j]
                     /\ j = i + 1 => p.links[j] = p.links[i] + 1
<1>1. PICK n \in Nat : n = s.numberOfResults
  BY DEF State
<1>2. PICK max \in Nat : max = maxAvailablePage(n)
  BY LastPageType
<1>3. PICK page \in Nat : page = s.page
  BY DEF State
<1>4. page <= max
  BY <1>1, <1>2, <1>3
<1>5. p.links = pageLinks(page, max)
  BY <1>1, <1>2, <1>3 DEF createPaginator
<1>6. p.previous = IF page # 0 THEN page - 1 ELSE NoLink
  BY <1>3 DEF createPaginator
<1>7. p.next = IF page # max THEN page + 1 ELSE NoLink
  BY <1>1, <1>2, <1>3 DEF createPaginator
<1>8. LinksAgree(p.links, page, max)
  BY <1>4, <1>5, LinksHold
<1>9. ASSUME NEW x \in Int PROVE pageAvailable(s, x) <=> x \in 0 .. max
  <2>1. CASE x < 0
    BY <1>2, <1>9, <2>1 DEF pageAvailable
  <2>2. CASE x >= 0
    <3>1. x \in Nat
      BY <1>9, <2>2
    <3>2. x <= max <=> x = 0 \/ x * PageSize < n
      BY <1>2, <3>1, PagesOf
    <3> QED
      BY <1>1, <1>2, <3>1, <3>2 DEF pageAvailable
  <2> QED
    BY <1>9, <2>1, <2>2
<1>10. \A x \in LinksOf(p) : x \in 0 .. max
  <2>1. p.previous \in 0 .. max \/ p.previous = NoLink
    BY <1>4, <1>6
  <2>2. p.next \in 0 .. max \/ p.next = NoLink
    BY <1>4, <1>7
  <2>3. Range(p.links) \subseteq 0 .. max \cup {NoLink}
    BY <1>8 DEF LinksAgree, Ellipsis, NoLink
  <2> QED
    BY <2>1, <2>2, <2>3 DEF LinksOf
<1>11. \A x \in LinksOf(p) : pageAvailable(s, x)
  BY <1>9, <1>10
<1>12. {x \in {page - 1, page + 1} : pageAvailable(s, x)} \subseteq {p.previous, p.next} \cap Range(p.links)
  <2> SUFFICES ASSUME NEW x \in {page - 1, page + 1}, pageAvailable(s, x)
               PROVE  x \in {p.previous, p.next} /\ x \in Range(p.links)
    OBVIOUS
  <2>1. x \in 0 .. max
    BY <1>3, <1>9
  <2>2. x \in Range(p.links)
    BY <1>8, <2>1 DEF LinksAgree
  <2>3. x \in {p.previous, p.next}
    BY <1>6, <1>7, <2>1
  <2> QED
    BY <2>2, <2>3
<1>13. {0, page, max} \subseteq Range(p.links)
  BY <1>8 DEF LinksAgree
<1>14. \A i, j \in DOMAIN p.links :
          i < j /\ Ellipsis \notin {p.links[i], p.links[j]} =>
              /\ p.links[i] < p.links[j]
              /\ j = i + 1 => p.links[j] = p.links[i] + 1
  BY <1>8 DEF LinksAgree
<1> QED
  BY <1>1, <1>2, <1>3, <1>11, <1>12, <1>13, <1>14

(* PagesAgree for every page size and number of results.  What it says of  *)
(* script and server is arithmetic: the last page is found by dividing and *)
(* compared with what multiplying says.  What it says of the page needs    *)
(* Current: the paginator shown is that of the present state, whose page   *)
(* is one the server had an answer for.                                    *)
THEOREM PagesHold == Spec => []PagesAgree
<1>1. TypeOK /\ Current => PagesAgree
  <2> SUFFICES ASSUME TypeOK, Current PROVE PagesAgree
    OBVIOUS
  <2>1. state \in State
    BY DEF TypeOK
  <2>2. \A page \in 0 .. maxAvailablePage(state.numberOfResults) + 1 : page \in Nat
    <3>1. state.numberOfResults \in Nat
      BY <2>1 DEF State
    <3> QED
      BY <3>1, LastPageType
  <2>3. listing.answers = sent =>
            /\ state.page <= maxAvailablePage(state.numberOfResults)
            /\ listing.paginator = createPaginator(state)
    BY ReplyInBounds DEF Current, Answer
  <2> QED
    BY <2>1, <2>2, <2>3, BothAgree, PaginatorAgrees DEF PagesAgree
<1> QED
  BY <1>1, TypeCorrect, ShownIsCurrent, PTL

-----------------------------------------------------------------------------
(* The rows.                                                               *)

LEMMA SortedLength ==
    ASSUME NEW items, Cardinality(items) \in Nat, NEW column, NEW direction, NEW rank
    PROVE  /\ DOMAIN sortItems(column, direction, rank, items) = 1 .. Cardinality(items)
           /\ Len(sortItems(column, direction, rank, items)) = Cardinality(items)
<1>1. PICK n \in Nat : n = Cardinality(items)
  OBVIOUS
<1>2. \E f : sortItems(column, direction, rank, items) = [k \in 1 .. n |-> f[k]]
  <2>1. PICK place : place = [p \in items |->
            Cardinality({q \in items : Precedes(column, direction, rank, q, p)})]
    OBVIOUS
  <2> DEFINE row(k) == CHOOSE p \in items : place[p] = k - 1
             g == [k \in 1 .. n |-> row(k)]
  <2>2. sortItems(column, direction, rank, items) = g
    BY <1>1, <2>1 DEF sortItems
  <2> HIDE DEF row
  <2>3. g = [k \in 1 .. n |-> g[k]]
    OBVIOUS
  <2> QED
    BY <2>2, <2>3
<1>3. PICK f : sortItems(column, direction, rank, items) = [k \in 1 .. n |-> f[k]]
  BY <1>2
<1> QED
  BY <1>1, <1>3

(* The rows of one page.                                                   *)
LEMMA SliceLength ==
    ASSUME NEW list, NEW total \in Nat, DOMAIN list = 1 .. total, NEW start \in Nat,
           NEW num \in Nat, start + num <= total
    PROVE  /\ Len(SubSeq(list, start + 1, start + num)) = num
           /\ num = 0 => SubSeq(list, start + 1, start + num) = << >>
           /\ \A i \in DOMAIN SubSeq(list, start + 1, start + num) :
                 \E k \in 1 .. total : SubSeq(list, start + 1, start + num)[i] = list[k]
<1> DEFINE S == {list[k] : k \in 1 .. total}
<1>1. PICK a \in Int, b \in Int : a = start + 1 /\ b = start + num
  OBVIOUS
<1>2. \A i \in a .. b : list[i] \in S
  BY <1>1
<1> HIDE DEF S
<1>3. PICK u : u = SubSeq(list, a, b)
  OBVIOUS
<1>4. u \in Seq(S) /\ Len(u) = IF a <= b THEN b - a + 1 ELSE 0
  BY <1>2, <1>3, SubSeqProperties
<1>5. Len(u) = num
  BY <1>1, <1>4
<1>6. num = 0 => u = << >>
  BY <1>1, <1>3, SubSeqEmpty
<1>7. \A i \in DOMAIN u : u[i] \in S
  BY <1>4
<1>8. \A i \in DOMAIN u : \E k \in 1 .. total : u[i] = list[k]
  BY <1>7 DEF S
<1> QED
  BY <1>1, <1>3, <1>5, <1>6, <1>8

(* What a slice shows is in the list.                                      *)
LEMMA SliceSelects ==
    ASSUME NEW list, NEW total \in Nat, DOMAIN list = 1 .. total, NEW start \in Nat,
           NEW num \in Nat, start + num <= total,
           NEW S, \A k \in 1 .. total : list[k] \in S,
           NEW rows, rows = SubSeq(list, start + 1, start + num), NEW i \in DOMAIN rows
    PROVE  rows[i] \in S
<1>1. \E k \in 1 .. total : rows[i] = list[k]
  BY SliceLength
<1> QED
  BY <1>1

(* No two packages have the same place in a ranking.                       *)
LEMMA RankingType ==
    ASSUME NEW ts
    PROVE  ranking(ts) \in Injection(Package, Int)
BY RankingAssumption DEF ranking

LEMMA ReplyRows ==
    ASSUME NEW options, options.page \in Nat, NEW reply \in Replies(options), reply.status = "ok"
    PROVE  \E items \in SUBSET Package : \E hidden \in SUBSET Volatile :
           \E rank \in Injection(Package, Int) :
              LET n == reply.numberOfResults
                  slice == paginate(n, options.page)
                  list == sortItems(options.column, options.direction, rank, items)
              IN  /\ items = found(options, Package \ hidden)
                  /\ n \in Nat /\ n = Cardinality(items)
                  /\ slice # Nothing
                  /\ reply.pageContents =
                        SubSeq(list, slice.startIndex + 1, slice.startIndex + slice.numElems)
                  /\ slice.startIndex \in Nat /\ slice.numElems \in Nat
                  /\ slice.startIndex + slice.numElems <= n
                  /\ slice.numElems = 0 <=> n = 0
<1>1. PICK hidden \in SUBSET Volatile : reply = renderResultPage(options, Package \ hidden)
  BY DEF Replies
<1>2. PICK items : items = found(options, Package \ hidden)
  OBVIOUS
<1>3. items \in SUBSET Package /\ Cardinality(items) \in Nat
  BY <1>2, FoundIsListed
<1>4. PICK n \in Nat : n = Cardinality(items)
  BY <1>3
<1>5. PICK slice : slice = paginate(n, options.page)
  OBVIOUS
<1>6. PICK rank \in Injection(Package, Int) : rank = ranking(terms(conditions(options.searchQuery)))
  BY RankingType
<1>7. PICK list : list = sortItems(options.column, options.direction, rank, items)
  OBVIOUS
<1>8. reply = IF slice = Nothing
              THEN [status |-> "error", pageContents |-> << >>, numberOfResults |-> 0]
              ELSE [status |-> "ok",
                    pageContents |->
                        SubSeq(list, slice.startIndex + 1, slice.startIndex + slice.numElems),
                    numberOfResults |-> n]
  BY <1>1, <1>2, <1>4, <1>5, <1>7, <1>6 DEF renderResultPage
<1>9. /\ slice # Nothing /\ reply.numberOfResults = n
      /\ reply.pageContents =
            SubSeq(list, slice.startIndex + 1, slice.startIndex + slice.numElems)
  BY <1>8
<1>10. PICK page \in Nat : page = options.page
  OBVIOUS
<1>11. PICK p \in Nat : p = page * PageSize
  BY PageSizeAssumption
<1>12. PICK next \in Nat : next = (page + 1) * PageSize
  BY PageSizeAssumption
<1>13. next = p + PageSize /\ PageSize \in Nat \ {0}
  BY <1>11, <1>12, PageSizeAssumption
<1>14. page = 0 => p = 0
  BY <1>11, PageSizeAssumption
<1>15. /\ page = 0 \/ p < n
       /\ slice.startIndex = p
       /\ slice.numElems = IF n < next THEN n - p ELSE PageSize
  BY <1>5, <1>9, <1>10, <1>11, <1>12, SlicesOf
<1>16. /\ slice.startIndex \in Nat /\ slice.numElems \in Nat
       /\ slice.startIndex + slice.numElems <= n
       /\ slice.numElems = 0 <=> n = 0
  <2>1. p <= n
    BY <1>14, <1>15
  <2>2. CASE n < next
    <3>1. slice.numElems = n - p
      BY <1>15, <2>2
    <3>2. p = n => n = 0
      BY <1>14, <1>15
    <3>3. n = 0 => p = 0
      BY <2>1
    <3> QED
      BY <1>15, <2>1, <3>1, <3>2, <3>3
  <2>3. CASE ~ (n < next)
    <3>1. slice.numElems = PageSize
      BY <1>15, <2>3
    <3>2. p + PageSize <= n
      BY <1>13, <2>3
    <3> QED
      BY <1>13, <1>15, <3>1, <3>2
  <2> QED
    BY <2>2, <2>3
<1> QED
  BY <1>2, <1>3, <1>4, <1>5, <1>7, <1>9, <1>16

(* ListingIsCurrent for any list of packages and page size: that there are *)
(* as many rows as the indicator says needs the list to be sorted without  *)
(* losing a package, and both sides to cut it alike.                       *)
THEOREM ListingHolds == Spec => []ListingIsCurrent
<1>1. TypeOK /\ Current => ListingIsCurrent
  <2> SUFFICES ASSUME TypeOK, Current, listing.answers = sent
               PROVE  /\ listing.paginator.current = state.page
                      /\ listing.hoogle = state.searchQuery
                      /\ state.numberOfResults > 0 =>
                            listing.indicator.to - listing.indicator.from + 1 = Len(listing.rows)
                      /\ state.numberOfResults = 0 => listing.rows = << >>
                      /\ listing.rows \in {reply.pageContents : reply \in Replies(get(state))}
    BY DEF ListingIsCurrent
  <2>1. PICK reply \in Replies(get(state)) : Answer(reply, state)
    BY DEF Current
  <2>2. state \in State /\ state.page \in Nat /\ state.numberOfResults \in Nat
    BY DEF TypeOK, State
  <2>3. get(state).page = state.page
    BY DEF get
  <2>4. reply.status = "ok" /\ reply.numberOfResults = state.numberOfResults
    BY <2>1 DEF Answer
  <2>5. PICK n \in Nat : n = state.numberOfResults
    BY <2>2
  <2>6. PICK slice : slice = paginate(n, state.page)
    OBVIOUS
  <2>7. \E list :
            /\ DOMAIN list = 1 .. n
            /\ slice # Nothing
            /\ reply.pageContents =
                  SubSeq(list, slice.startIndex + 1, slice.startIndex + slice.numElems)
            /\ slice.startIndex \in Nat /\ slice.numElems \in Nat
            /\ slice.startIndex + slice.numElems <= n
            /\ slice.numElems = 0 <=> n = 0
    <3>1. PICK options : options = get(state)
      OBVIOUS
    <3>2. options.page \in Nat /\ slice = paginate(reply.numberOfResults, options.page)
      BY <2>2, <2>3, <2>4, <2>5, <2>6, <3>1
    <3>3. reply \in Replies(options) /\ reply.numberOfResults = n
      BY <2>1, <2>4, <2>5, <3>1
    <3>4. PICK items \in SUBSET Package, rank \in Injection(Package, Int) :
              /\ n = Cardinality(items)
              /\ slice # Nothing
              /\ reply.pageContents =
                    SubSeq(sortItems(options.column, options.direction, rank, items),
                           slice.startIndex + 1, slice.startIndex + slice.numElems)
              /\ slice.startIndex \in Nat /\ slice.numElems \in Nat
              /\ slice.startIndex + slice.numElems <= n
              /\ slice.numElems = 0 <=> n = 0
      BY <2>4, <3>2, <3>3, ReplyRows
    <3>5. PICK list : list = sortItems(options.column, options.direction, rank, items)
      OBVIOUS
    <3>6. DOMAIN list = 1 .. n
      BY <3>4, <3>5, SortedLength
    <3> QED
      BY <3>4, <3>5, <3>6
  <2>8. PICK list :
            /\ DOMAIN list = 1 .. n
            /\ slice # Nothing
            /\ reply.pageContents =
                  SubSeq(list, slice.startIndex + 1, slice.startIndex + slice.numElems)
            /\ slice.startIndex \in Nat /\ slice.numElems \in Nat
            /\ slice.startIndex + slice.numElems <= n
            /\ slice.numElems = 0 <=> n = 0
    BY <2>7
  <2>9. /\ Len(reply.pageContents) = slice.numElems
        /\ slice.numElems = 0 => reply.pageContents = << >>
    BY <2>8, SliceLength, SMTT(30)
  <2>10. listing.rows = reply.pageContents
    BY <2>1 DEF Answer
  <2>11. listing.indicator = createIndexIndicator(state)
    BY <2>1 DEF Answer
  <2>12. [state EXCEPT !.page = state.page] = state
    BY <2>2 DEF State
  <2>13. n > 0 => listing.indicator =
              [from |-> slice.startIndex + 1, to |-> slice.startIndex + slice.numElems]
    BY <2>2, <2>5, <2>6, <2>8, <2>11, <2>12, BothAgree
  <2>14. n > 0 => listing.indicator.to - listing.indicator.from + 1 = slice.numElems
    BY <2>8, <2>13
  <2>15. listing.paginator.current = state.page /\ listing.hoogle = state.searchQuery
    BY <2>1 DEF Answer, createPaginator
  <2> QED
    BY <2>1, <2>5, <2>8, <2>9, <2>10, <2>14, <2>15
<1> QED
  BY <1>1, TypeCorrect, ShownIsCurrent, PTL

-----------------------------------------------------------------------------
(* Sorting.                                                                *)

(* Rows are in the order of a key, and as they were found where it is      *)
(* equal.                                                                  *)
LEMMA SortedBy ==
    ASSUME NEW column \in Column \cup {"default"}, NEW direction \in Direction,
           NEW rank \in Injection(Package, Int)
    PROVE  \E v \in [Package -> Int] : \A p, q \in Package :
              Precedes(column, direction, rank, p, q)
                  <=> v[p] < v[q] \/ (v[p] = v[q] /\ rank[p] < rank[q])
<1>1. CASE column = "default"
  <2>1. PICK v : v = [p \in Package |-> 0]
    OBVIOUS
  <2>2. \A p, q \in Package : Precedes(column, direction, rank, p, q) <=> rank[p] < rank[q]
    BY <1>1 DEF Precedes, comparer
  <2> QED
    BY <2>1, <2>2
<1>2. CASE column # "default"
  <2>1. PICK key \in [Package -> Int] : key = SortKey[column]
    BY <1>2, ColumnAssumption DEF Column
  <2>2. PICK v \in [Package -> Int] : \A p, q \in Package :
            comparer(column, direction, p, q) <=> v[p] < v[q]
    <3>1. CASE direction = "ascending"
      BY <1>2, <2>1, <3>1 DEF comparer
    <3>2. CASE direction # "ascending"
      <4>1. PICK w : w = [p \in Package |-> - key[p]]
        OBVIOUS
      <4>2. \A p, q \in Package : comparer(column, direction, p, q) <=> w[p] < w[q]
        BY <1>2, <2>1, <3>2, <4>1 DEF comparer
      <4> QED
        BY <4>1, <4>2
    <3> QED
      BY <3>1, <3>2
  <2>3. \A p, q \in Package :
            Precedes(column, direction, rank, p, q)
                <=> v[p] < v[q] \/ (v[p] = v[q] /\ rank[p] < rank[q])
    BY <2>2 DEF Precedes
  <2> QED
    BY <2>3
<1> QED
  BY <1>1, <1>2

Before(items, column, direction, rank, p) ==
    {q \in items : Precedes(column, direction, rank, q, p)}

(* Every place in the sorted list is some row's: places are numbers below  *)
(* the number of rows, and no two rows have the same.                      *)
LEMMA PlacesAreTaken ==
    ASSUME NEW rows \in SUBSET Package,
           NEW column \in Column \cup {"default"}, NEW direction \in Direction,
           NEW rank \in Injection(Package, Int), NEW k \in 1 .. Cardinality(rows)
    PROVE  \E i \in rows : Cardinality(Before(rows, column, direction, rank, i)) = k - 1
<1>1. IsFiniteSet(rows)
  BY PackageAssumption, FS_Subset
<1>2. PICK n \in Nat : n = Cardinality(rows)
  BY <1>1, FS_CardinalityType
<1>3. PICK v \in [Package -> Int] : \A i, j \in Package :
          Precedes(column, direction, rank, i, j)
              <=> v[i] < v[j] \/ (v[i] = v[j] /\ rank[i] < rank[j])
  BY SortedBy
<1>4. \A i, j \in rows :
          Precedes(column, direction, rank, i, j)
              <=> v[i] < v[j] \/ (v[i] = v[j] /\ rank[i] < rank[j])
  BY <1>3
<1>5. rank \in [Package -> Int] /\ \A i, j \in Package : rank[i] = rank[j] => i = j
  BY DEF Injection, IsInjective
<1>6. \A i \in rows : v[i] \in Int /\ rank[i] \in Int
  BY <1>5
<1>7. \A i, j \in rows : i # j => rank[i] # rank[j]
  BY <1>5
<1>8. \A i \in rows : ~ Precedes(column, direction, rank, i, i)
  BY <1>4, <1>6
<1>9. \A i, j \in rows : i # j =>
          Precedes(column, direction, rank, i, j) \/ Precedes(column, direction, rank, j, i)
  BY <1>4, <1>6, <1>7
<1>10. \A i, j, l \in rows :
          Precedes(column, direction, rank, l, i) /\ Precedes(column, direction, rank, i, j)
              => Precedes(column, direction, rank, l, j)
  BY <1>4, <1>6
<1> DEFINE below(i) == Before(rows, column, direction, rank, i)
           place == [i \in rows |-> Cardinality(below(i))]
<1>11. ASSUME NEW i \in rows
       PROVE  IsFiniteSet(below(i)) /\ Cardinality(below(i)) \in 0 .. n - 1
  <2>1. below(i) \subseteq rows /\ i \notin below(i)
    BY <1>8 DEF Before
  <2>2. IsFiniteSet(below(i)) /\ Cardinality(below(i)) \in Nat
    BY <1>1, <2>1, FS_Subset, FS_CardinalityType
  <2>3. Cardinality(below(i)) <= Cardinality(rows) /\ Cardinality(below(i)) # Cardinality(rows)
    <3>1. below(i) \in SUBSET rows /\ below(i) # rows
      BY <2>1
    <3> HIDE DEF below
    <3> QED
      BY <1>1, <3>1, FS_Subset
  <2> QED
    BY <1>2, <2>2, <2>3
<1>12. ASSUME NEW i \in rows, NEW j \in rows, Precedes(column, direction, rank, i, j)
       PROVE  Cardinality(below(i)) < Cardinality(below(j))
  <2>1. below(i) \subseteq below(j)
    BY <1>10, <1>12 DEF Before
  <2>2. i \in below(j) /\ i \notin below(i)
    BY <1>8, <1>12 DEF Before
  <2>3. below(i) \in SUBSET below(j) /\ below(i) # below(j)
    BY <2>1, <2>2
  <2>4. IsFiniteSet(below(j)) /\ Cardinality(below(i)) \in Nat /\ Cardinality(below(j)) \in Nat
    BY <1>11
  <2> HIDE DEF below
  <2>5. /\ Cardinality(below(i)) <= Cardinality(below(j))
        /\ Cardinality(below(i)) # Cardinality(below(j))
    BY <2>3, <2>4, FS_Subset
  <2> QED
    BY <2>4, <2>5
<1> HIDE DEF below
<1>13. place \in [rows -> 0 .. n - 1]
  BY <1>11
<1>14. \A i, j \in rows : place[i] = place[j] => i = j
  <2> SUFFICES ASSUME NEW i \in rows, NEW j \in rows, i # j PROVE place[i] # place[j]
    OBVIOUS
  <2>1. Cardinality(below(i)) \in Nat /\ Cardinality(below(j)) \in Nat
    BY <1>11
  <2>2. Cardinality(below(i)) # Cardinality(below(j))
    BY <1>9, <1>12, <2>1
  <2> QED
    BY <2>2
<1>15. place \in Injection(rows, 0 .. n - 1)
  BY <1>13, <1>14 DEF Injection, IsInjective
<1> HIDE DEF place
<1>16. IsFiniteSet(0 .. n - 1) /\ Cardinality(0 .. n - 1) = n
  BY FS_Interval
<1>17. place \in Surjection(rows, 0 .. n - 1)
  BY <1>1, <1>2, <1>15, <1>16, FS_Injection
<1>18. k - 1 \in 0 .. n - 1
  BY <1>2
<1>19. PICK i \in rows : place[i] = k - 1
  BY <1>17, <1>18 DEF Surjection
<1> QED
  BY <1>19 DEF place, below

(* What is sorted is among the packages found.                             *)
LEMMA SortedAreFound ==
    ASSUME NEW items \in SUBSET Package,
           NEW column \in Column \cup {"default"}, NEW direction \in Direction,
           NEW rank \in Injection(Package, Int), NEW k \in 1 .. Cardinality(items)
    PROVE  sortItems(column, direction, rank, items)[k] \in items
<1> DEFINE place == [p \in items |-> Cardinality(Before(items, column, direction, rank, p))]
           row == CHOOSE p \in items : place[p] = k - 1
<1>1. sortItems(column, direction, rank, items) =
          [l \in 1 .. Cardinality(items) |-> CHOOSE p \in items : place[p] = l - 1]
  BY DEF sortItems, Before
<1>2. \E p \in items : place[p] = k - 1
  BY PlacesAreTaken
<1>3. row \in items
  BY <1>2
<1>4. sortItems(column, direction, rank, items)[k] = row
  BY <1>1
<1> QED
  BY <1>3, <1>4

-----------------------------------------------------------------------------
(* Parsing.                                                                *)

LEMMA LeastIn ==
    ASSUME NEW S \in SUBSET Nat, S # {}
    PROVE  \E m \in S : \A x \in S : m <= x
<1> DEFINE Less == {p \in Nat \X Nat : p[1] < p[2]}
<1>1. IsWellFoundedOn(Less, Nat)
  BY NatLessThanWellFounded DEF OpToRel
<1>2. PICK m \in S : \A x \in S : ~ (<<x, m>> \in Less)
  BY <1>1, WFMin
<1>3. \A x \in S : m <= x
  <2> SUFFICES ASSUME NEW x \in S PROVE m <= x
    OBVIOUS
  <2>1. x \in Nat /\ m \in Nat
    OBVIOUS
  <2>2. ~ (x < m)
    BY <1>2, <2>1
  <2> QED
    BY <2>1, <2>2
<1> QED
  BY <1>3

(* What holds at a place if it holds at all later ones holds everywhere.   *)
LEMMA Backwards ==
    ASSUME NEW top \in Nat, NEW S,
           \A i \in 0 .. top : (\A j \in i + 1 .. top : j \in S) => i \in S
    PROVE  \A i \in 0 .. top : i \in S
<1> DEFINE D == {d \in 0 .. top : top - d \notin S}
<1>1. D = {}
  <2> SUFFICES ASSUME D # {} PROVE FALSE
    OBVIOUS
  <2>1. D \in SUBSET Nat
    OBVIOUS
  <2> HIDE DEF D
  <2>2. PICK m \in D : \A x \in D : m <= x
    BY <2>1, LeastIn
  <2> USE DEF D
  <2>3. PICK i \in 0 .. top : i = top - m
    OBVIOUS
  <2>4. ASSUME NEW j \in i + 1 .. top PROVE j \in S
    <3>1. top - j \in 0 .. top /\ top - j < m /\ top - (top - j) = j
      BY <2>3
    <3>2. top - j \notin D
      BY <2>2, <3>1
    <3> QED
      BY <3>1, <3>2
  <2>5. i \in S
    BY <2>4
  <2> QED
    BY <2>3, <2>5
<1>2. ASSUME NEW i \in 0 .. top PROVE i \in S
  <2>1. top - i \in 0 .. top /\ top - (top - i) = i
    OBVIOUS
  <2> QED
    BY <1>1, <2>1
<1> QED
  BY <1>2

(* The parser at place i, given what it makes of the rest of the text.     *)
Parsed(text, rest, i) ==
    LET n == Len(text)
        Term(k) == [is |-> "term", lexeme |-> text[k]]
    IN  CASE i <= n /\ IsWord(text[i]) -> <<Term(i)>> \o rest[i + 1]
          [] i <= n /\ FilterAt(text, i) ->
                <<[is |-> "filter", lexeme |-> text[i + 1]]>> \o rest[i + 3]
          [] \E j \in i .. n : TermsAt(text, i, j) ->
                LET j == CHOOSE k \in i .. n : TermsAt(text, i, k)
                IN  [k \in 1 .. j - i - 1 |-> Term(i + k)] \o rest[j + 1]
          [] OTHER -> << >>

LEMMA NotWords == ~ IsWord(Open) /\ ~ IsWord(Close) /\ Open # Close
<1>1. Open.lexeme # Close.lexeme
  BY DEF Open, Close
<1> QED
  BY <1>1 DEF IsWord, Open, Close

LEMMA NotFilters == ~ IsFilter(Open) /\ ~ IsFilter(Close)
  BY DEF IsFilter, Open, Close

(* A filter in parentheses is not words in parentheses.                    *)
LEMMA FilterIsNotTerms ==
    ASSUME NEW text, NEW i \in Nat, NEW j \in Nat, FilterAt(text, i)
    PROVE  ~ TermsAt(text, i, j)
<1> SUFFICES ASSUME TermsAt(text, i, j) PROVE FALSE
  OBVIOUS
<1>1. i < j /\ text[j] = Close /\ (i + 1 < j => ~ IsFilter(text[i + 1]))
  BY DEF TermsAt
<1>2. IsFilter(text[i + 1])
  BY DEF FilterAt
<1>3. j = i + 1
  BY <1>1, <1>2
<1> QED
  BY <1>1, <1>2, <1>3, NotFilters

LEMMA ParsedWord ==
    ASSUME NEW text, NEW rest, NEW i \in 1 .. Len(text), IsWord(text[i])
    PROVE  Parsed(text, rest, i) = <<[is |-> "term", lexeme |-> text[i]]>> \o rest[i + 1]
<1>1. text[i] # Open
  BY NotWords
<1>2. ~ FilterAt(text, i) /\ \A j : ~ TermsAt(text, i, j)
  BY <1>1 DEF FilterAt, TermsAt
<1> QED
  BY <1>2 DEF Parsed

LEMMA ParsedFilter ==
    ASSUME NEW text, Len(text) \in Nat, NEW rest, NEW i \in 1 .. Len(text), FilterAt(text, i)
    PROVE  Parsed(text, rest, i) = <<[is |-> "filter", lexeme |-> text[i + 1]]>> \o rest[i + 3]
<1>1. ~ IsWord(text[i])
  BY NotWords DEF FilterAt
<1>2. \A j \in i .. Len(text) : ~ TermsAt(text, i, j)
  BY FilterIsNotTerms
<1> QED
  BY <1>1, <1>2 DEF Parsed

LEMMA ParsedTerms ==
    ASSUME NEW text, Len(text) \in Nat, NEW rest, NEW i \in 1 .. Len(text),
           \E j \in i .. Len(text) : TermsAt(text, i, j)
    PROVE  \E j \in i .. Len(text) :
              /\ TermsAt(text, i, j)
              /\ Parsed(text, rest, i) =
                    [k \in 1 .. j - i - 1 |-> [is |-> "term", lexeme |-> text[i + k]]] \o rest[j + 1]
<1>1. ~ IsWord(text[i])
  BY NotWords DEF TermsAt
<1>2. ~ FilterAt(text, i)
  BY FilterIsNotTerms
<1>3. PICK j : j = CHOOSE k \in i .. Len(text) : TermsAt(text, i, k)
  OBVIOUS
<1>4. j \in i .. Len(text) /\ TermsAt(text, i, j)
  BY <1>3
<1>5. Parsed(text, rest, i) =
          [k \in 1 .. j - i - 1 |-> [is |-> "term", lexeme |-> text[i + k]]] \o rest[j + 1]
  BY <1>1, <1>2, <1>3 DEF Parsed
<1> QED
  BY <1>4, <1>5

LEMMA ParsedNothing ==
    ASSUME NEW text, NEW rest, NEW i, ~ (i <= Len(text) /\ IsWord(text[i])),
           ~ (i <= Len(text) /\ FilterAt(text, i)),
           ~ \E j \in i .. Len(text) : TermsAt(text, i, j)
    PROVE  Parsed(text, rest, i) = << >>
  BY DEF Parsed

(* What the parser makes of a place depends on later places only.          *)
LEMMA ParsedLocal ==
    ASSUME NEW text, Len(text) \in Nat, NEW i \in 1 .. Len(text) + 1, NEW f, NEW g,
           \A j \in i + 1 .. Len(text) + 1 : f[j] = g[j]
    PROVE  Parsed(text, f, i) = Parsed(text, g, i)
<1>1. CASE i <= Len(text) /\ IsWord(text[i])
  <2>1. i \in 1 .. Len(text) /\ i + 1 \in i + 1 .. Len(text) + 1
    BY <1>1
  <2>2. f[i + 1] = g[i + 1]
    BY <2>1
  <2> QED
    BY <1>1, <2>1, <2>2, ParsedWord
<1>2. CASE i <= Len(text) /\ FilterAt(text, i)
  <2>1. i \in 1 .. Len(text) /\ i + 3 \in i + 1 .. Len(text) + 1
    BY <1>2 DEF FilterAt
  <2>2. f[i + 3] = g[i + 3]
    BY <2>1
  <2> QED
    BY <1>2, <2>1, <2>2, ParsedFilter
<1>3. CASE \E j \in i .. Len(text) : TermsAt(text, i, j)
  <2>1. i \in 1 .. Len(text) /\ ~ IsWord(text[i]) /\ ~ FilterAt(text, i)
    BY <1>3, NotWords, FilterIsNotTerms DEF TermsAt
  <2>2. PICK j : j = CHOOSE k \in i .. Len(text) : TermsAt(text, i, k)
    OBVIOUS
  <2>3. j \in i .. Len(text)
    BY <1>3, <2>2
  <2>4. f[j + 1] = g[j + 1]
    BY <2>3
  <2>5. \A h : Parsed(text, h, i) =
            [k \in 1 .. j - i - 1 |-> [is |-> "term", lexeme |-> text[i + k]]] \o h[j + 1]
    BY <1>3, <2>1, <2>2 DEF Parsed
  <2> QED
    BY <2>4, <2>5
<1>4. CASE /\ ~ (i <= Len(text) /\ IsWord(text[i])) /\ ~ (i <= Len(text) /\ FilterAt(text, i))
           /\ ~ \E j \in i .. Len(text) : TermsAt(text, i, j)
  BY <1>4, ParsedNothing
<1> QED
  BY <1>1, <1>2, <1>3, <1>4

(* The parser is well defined: it always gets further in the text.         *)
LEMMA ParserExists ==
    ASSUME NEW text, Len(text) \in Nat
    PROVE  \E f : f = [i \in 1 .. Len(text) + 1 |-> Parsed(text, f, i)]
<1> DEFINE top == Len(text) + 1
           From(a, f) == DOMAIN f = a + 1 .. top /\ \A i \in a + 1 .. top : f[i] = Parsed(text, f, i)
           S == {a \in 0 .. top : \E f : From(a, f)}
<1>1. ASSUME NEW a \in 0 .. top, \A b \in a + 1 .. top : b \in S
      PROVE  a \in S
  <2>1. CASE a = top
    <3>1. PICK f : f = [i \in a + 1 .. top |-> 0]
      OBVIOUS
    <3>2. From(a, f)
      BY <2>1, <3>1
    <3> QED
      BY <3>2
  <2>2. CASE a # top
    <3>1. a + 1 \in a + 1 .. top /\ a + 1 \in 1 .. top
      BY <2>2
    <3>2. PICK g : From(a + 1, g)
      BY <1>1, <3>1
    <3>3. PICK f : f = [i \in a + 1 .. top |-> IF i = a + 1 THEN Parsed(text, g, i) ELSE g[i]]
      OBVIOUS
    <3>4. \A j \in a + 2 .. top : f[j] = g[j]
      BY <3>3
    <3>5. ASSUME NEW i \in a + 1 .. top PROVE f[i] = Parsed(text, f, i)
      <4>1. i \in 1 .. top
        OBVIOUS
      <4>2. \A j \in i + 1 .. top : f[j] = g[j]
        BY <3>4
      <4>3. Parsed(text, f, i) = Parsed(text, g, i)
        BY <4>1, <4>2, ParsedLocal
      <4>4. CASE i = a + 1
        BY <3>3, <4>3, <4>4
      <4>5. CASE i # a + 1
        <5>1. i \in (a + 1) + 1 .. top
          BY <4>5
        <5>2. g[i] = Parsed(text, g, i)
          BY <3>2, <5>1
        <5> QED
          BY <3>3, <4>3, <4>5, <5>2
      <4> QED
        BY <4>4, <4>5
    <3>6. DOMAIN f = a + 1 .. top
      BY <3>3
    <3> QED
      BY <3>5, <3>6
  <2> QED
    BY <2>1, <2>2
<1>2. top \in Nat /\ 0 \in 0 .. top
  OBVIOUS
<1> HIDE DEF S, top
<1>3. 0 \in S
  BY <1>1, <1>2, Backwards
<1>4. PICK f : From(0, f)
  BY <1>3 DEF S
<1>5. PICK h : h = [i \in 1 .. top |-> f[i]]
  OBVIOUS
<1>6. ASSUME NEW i \in 1 .. top PROVE h[i] = Parsed(text, h, i)
  <2>1. f[i] = Parsed(text, f, i)
    BY <1>4
  <2>2. \A j \in i + 1 .. top : h[j] = f[j]
    BY <1>2, <1>5
  <2>3. Parsed(text, h, i) = Parsed(text, f, i)
    BY <2>2, ParsedLocal DEF top
  <2> QED
    BY <1>5, <2>1, <2>3
<1>7. h = [i \in 1 .. top |-> Parsed(text, h, i)]
  BY <1>5, <1>6
<1> QED
  BY <1>7 DEF top

LEMMA ConditionsAre ==
    ASSUME NEW text, Len(text) \in Nat
    PROVE  \E f : /\ \A i \in 1 .. Len(text) + 1 : f[i] = Parsed(text, f, i)
                  /\ conditions(text) = f[1]
<1>1. PICK f : f = CHOOSE g : g = [i \in 1 .. Len(text) + 1 |-> Parsed(text, g, i)]
  OBVIOUS
<1>2. f = [i \in 1 .. Len(text) + 1 |-> Parsed(text, f, i)]
  BY <1>1, ParserExists
<1>3. conditions(text) = f[1]
  BY <1>1 DEF conditions, Parsed
<1> QED
  BY <1>2, <1>3

LEMMA RangeJoined ==
    ASSUME NEW S, NEW s \in Seq(S), NEW t \in Seq(S)
    PROVE  s \o t \in Seq(S) /\ Range(s) \subseteq Range(s \o t) /\ Range(t) \subseteq Range(s \o t)
<1>1. PICK u : u = s \o t
  OBVIOUS
<1>2. u \in Seq(S) /\ Len(u) = Len(s) + Len(t)
  BY <1>1
<1>3. \A i \in 1 .. Len(s) : i \in DOMAIN u /\ u[i] = s[i]
  BY <1>1, <1>2
<1>4. \A i \in 1 .. Len(t) : Len(s) + i \in DOMAIN u /\ u[Len(s) + i] = t[i]
  BY <1>1, <1>2
<1>5. Range(s) \subseteq Range(u)
  BY <1>3 DEF Range
<1>6. Range(t) \subseteq Range(u)
  BY <1>4 DEF Range
<1> QED
  BY <1>1, <1>2, <1>5, <1>6

LEMMA LexemeTypes ==
    ASSUME NEW text \in Text
    PROVE  /\ Len(text) \in Nat /\ DOMAIN text = 1 .. Len(text)
           /\ \A i \in 1 .. Len(text) : IsWord(text[i]) \/ text[i] = Open \/ text[i] = Close
<1> DEFINE Lexeme == [lexeme : {"(", ")"}] \cup [word : DOMAIN Hits] \cup [filter : Filter]
<1>1. text \in Seq(Lexeme)
  BY DEF Text
<1>2. ASSUME NEW x \in Lexeme PROVE IsWord(x) \/ x = Open \/ x = Close
  <2>1. CASE x \in [lexeme : {"(", ")"}]
    BY <2>1 DEF Open, Close
  <2>2. CASE x \in [word : DOMAIN Hits]
    BY <2>2 DEF IsWord
  <2>3. CASE x \in [filter : Filter]
    BY <2>3 DEF IsWord
  <2> QED
    BY <2>1, <2>2, <2>3
<1> HIDE DEF Lexeme
<1> QED
  BY <1>1, <1>2

Conds(text) == {[is |-> w, lexeme |-> text[k]] : w \in {"term", "filter"}, k \in DOMAIN text}

(* No parenthesis that was opened before place i is still open there.      *)
Outside(text, i) ==
    \A j \in 1 .. i - 1 : text[j] = Open => \E k \in j + 1 .. i - 1 : ~ IsWord(text[k])

(* A filter written at k, in parentheses.                                  *)
WrittenAt(text, k) == text[k - 1] = Open /\ IsFilter(text[k]) /\ text[k + 1] = Close

(* Every filter written from place i on is found from there.               *)
Kept(text, f, i) ==
    /\ f[i] \in Seq(Conds(text))
    /\ Outside(text, i) =>
          \A k \in i + 1 .. Len(text) - 1 :
              WrittenAt(text, k) => [is |-> "filter", lexeme |-> text[k]] \in Range(f[i])

LEMMA KeptWord ==
    ASSUME NEW text \in Text, NEW f, NEW i \in 1 .. Len(text), IsWord(text[i]),
           f[i] = Parsed(text, f, i), Kept(text, f, i + 1)
    PROVE  Kept(text, f, i)
<1>1. Len(text) \in Nat /\ DOMAIN text = 1 .. Len(text)
  BY LexemeTypes
<1>2. PICK t : t = [is |-> "term", lexeme |-> text[i]]
  OBVIOUS
<1>3. f[i] = <<t>> \o f[i + 1]
  BY <1>2, ParsedWord
<1>4. t \in Conds(text)
  BY <1>1, <1>2 DEF Conds
<1>5. f[i + 1] \in Seq(Conds(text)) /\ <<t>> \in Seq(Conds(text))
  BY <1>4 DEF Kept
<1>6. f[i] \in Seq(Conds(text)) /\ Range(f[i + 1]) \subseteq Range(f[i])
  BY <1>3, <1>5, RangeJoined
<1>7. Outside(text, i) => Outside(text, i + 1)
  <2> SUFFICES ASSUME Outside(text, i), NEW j \in 1 .. (i + 1) - 1, text[j] = Open
               PROVE  \E k \in j + 1 .. (i + 1) - 1 : ~ IsWord(text[k])
    BY DEF Outside
  <2>1. j # i
    BY NotWords
  <2>2. j \in 1 .. i - 1
    BY <1>1, <2>1
  <2>3. PICK k \in j + 1 .. i - 1 : ~ IsWord(text[k])
    BY <2>2 DEF Outside
  <2> QED
    BY <1>1, <2>3
<1>8. ASSUME Outside(text, i), NEW k \in i + 1 .. Len(text) - 1, WrittenAt(text, k)
      PROVE  [is |-> "filter", lexeme |-> text[k]] \in Range(f[i])
  <2>1. k - 1 # i
    BY <1>8, NotWords DEF WrittenAt
  <2>2. k \in (i + 1) + 1 .. Len(text) - 1
    BY <1>1, <2>1
  <2>3. [is |-> "filter", lexeme |-> text[k]] \in Range(f[i + 1])
    BY <1>7, <1>8, <2>2 DEF Kept
  <2> QED
    BY <1>6, <2>3
<1> QED
  BY <1>6, <1>8 DEF Kept

LEMMA KeptFilter ==
    ASSUME NEW text \in Text, NEW f, NEW i \in 1 .. Len(text), FilterAt(text, i),
           f[i] = Parsed(text, f, i), Kept(text, f, i + 3)
    PROVE  Kept(text, f, i)
<1>1. Len(text) \in Nat /\ DOMAIN text = 1 .. Len(text) /\ i + 2 <= Len(text)
  BY LexemeTypes DEF FilterAt
<1>2. PICK t : t = [is |-> "filter", lexeme |-> text[i + 1]]
  OBVIOUS
<1>3. f[i] = <<t>> \o f[i + 3]
  BY <1>1, <1>2, ParsedFilter
<1>4. t \in Conds(text)
  BY <1>1, <1>2 DEF Conds
<1>5. f[i + 3] \in Seq(Conds(text)) /\ <<t>> \in Seq(Conds(text))
  BY <1>4 DEF Kept
<1>6. /\ f[i] \in Seq(Conds(text))
      /\ Range(f[i + 3]) \subseteq Range(f[i]) /\ Range(<<t>>) \subseteq Range(f[i])
  BY <1>3, <1>5, RangeJoined
<1>7. t \in Range(f[i])
  <2>1. t \in Range(<<t>>)
    BY DEF Range
  <2> QED
    BY <1>6, <2>1
<1>8. text[i + 1] # Open /\ text[i + 2] # Open /\ ~ IsWord(text[i + 2])
  BY NotFilters, NotWords DEF FilterAt
<1>9. Outside(text, i + 3)
  <2> SUFFICES ASSUME NEW j \in 1 .. (i + 3) - 1, text[j] = Open
               PROVE  \E k \in j + 1 .. (i + 3) - 1 : ~ IsWord(text[k])
    BY DEF Outside
  <2>1. j # i + 2
    BY <1>8
  <2>2. i + 2 \in j + 1 .. (i + 3) - 1
    BY <1>1, <2>1
  <2> QED
    BY <1>8, <2>2
<1>10. ASSUME NEW k \in i + 1 .. Len(text) - 1, WrittenAt(text, k)
       PROVE  [is |-> "filter", lexeme |-> text[k]] \in Range(f[i])
  <2>1. CASE k = i + 1
    BY <1>2, <1>7, <2>1
  <2>2. CASE k # i + 1
    <3>1. text[k - 1] = Open /\ k \in Int
      BY <1>1, <1>10 DEF WrittenAt
    <3>2. k - 1 # i + 1
      BY <1>8, <3>1
    <3>3. k - 1 # i + 2
      BY <1>8, <3>1
    <3>4. k \in (i + 3) + 1 .. Len(text) - 1
      BY <1>1, <2>2, <3>1, <3>2, <3>3
    <3>5. [is |-> "filter", lexeme |-> text[k]] \in Range(f[i + 3])
      BY <1>9, <1>10, <3>4 DEF Kept
    <3> QED
      BY <1>6, <3>5
  <2> QED
    BY <2>1, <2>2
<1> QED
  BY <1>6, <1>10 DEF Kept

LEMMA KeptTerms ==
    ASSUME NEW text \in Text, NEW f, NEW i \in 1 .. Len(text),
           \E j \in i .. Len(text) : TermsAt(text, i, j),
           f[i] = Parsed(text, f, i), \A j \in i + 1 .. Len(text) + 1 : Kept(text, f, j)
    PROVE  Kept(text, f, i)
<1>1. Len(text) \in Nat /\ DOMAIN text = 1 .. Len(text)
  BY LexemeTypes
<1>2. PICK j \in i .. Len(text) :
          /\ TermsAt(text, i, j)
          /\ Parsed(text, f, i) =
                [k \in 1 .. j - i - 1 |-> [is |-> "term", lexeme |-> text[i + k]]] \o f[j + 1]
  BY <1>1, ParsedTerms
<1>3. i < j /\ text[j] = Close /\ (\A k \in i + 1 .. j - 1 : IsWord(text[k]))
      /\ (i + 1 < j => ~ IsFilter(text[i + 1]))
  BY <1>2 DEF TermsAt
<1>4. PICK ts : ts = [k \in 1 .. j - i - 1 |-> [is |-> "term", lexeme |-> text[i + k]]]
  OBVIOUS
<1>5. f[i] = ts \o f[j + 1]
  BY <1>2, <1>4
<1>6. ts \in Seq(Conds(text))
  <2>1. PICK m \in Nat : m = j - i - 1
    BY <1>1, <1>3
  <2>2. \A k \in 1 .. m : i + k \in DOMAIN text
    BY <1>1, <1>3, <2>1
  <2>3. \A k \in 1 .. m : [is |-> "term", lexeme |-> text[i + k]] \in Conds(text)
    BY <2>2 DEF Conds
  <2>4. ts \in [1 .. m -> Conds(text)]
    BY <1>4, <2>1, <2>3
  <2> QED
    BY <2>4
<1>7. j + 1 \in i + 1 .. Len(text) + 1
  BY <1>1, <1>3
<1>8. Kept(text, f, j + 1)
  BY <1>7
<1>9. f[i] \in Seq(Conds(text)) /\ Range(f[j + 1]) \subseteq Range(f[i])
  BY <1>5, <1>6, <1>8, RangeJoined DEF Kept
<1>10. ~ IsWord(text[j]) /\ text[j] # Open
  BY <1>3, NotWords
<1>11. Outside(text, j + 1)
  <2> SUFFICES ASSUME NEW l \in 1 .. (j + 1) - 1, text[l] = Open
               PROVE  \E k \in l + 1 .. (j + 1) - 1 : ~ IsWord(text[k])
    BY DEF Outside
  <2>1. l # j
    BY <1>10
  <2>2. j \in l + 1 .. (j + 1) - 1
    BY <1>1, <2>1
  <2> QED
    BY <1>10, <2>2
<1>12. ASSUME NEW k \in i + 1 .. Len(text) - 1, WrittenAt(text, k)
       PROVE  [is |-> "filter", lexeme |-> text[k]] \in Range(f[i])
  <2>1. text[k - 1] = Open /\ IsFilter(text[k]) /\ k \in Int
    BY <1>1, <1>12 DEF WrittenAt
  <2>2. k # i + 1
    <3> SUFFICES ASSUME k = i + 1 PROVE FALSE
      OBVIOUS
    <3>1. j = i + 1
      BY <1>1, <1>3, <2>1
    <3> QED
      BY <1>3, <2>1, <3>1, NotFilters
  <2>3. ~ (k - 1 \in i + 1 .. j - 1)
    BY <1>3, <2>1, NotWords
  <2>4. k - 1 # j
    BY <1>10, <2>1
  <2>5. k \in (j + 1) + 1 .. Len(text) - 1
    BY <1>1, <1>3, <2>1, <2>2, <2>3, <2>4
  <2>6. [is |-> "filter", lexeme |-> text[k]] \in Range(f[j + 1])
    BY <1>8, <1>11, <1>12, <2>5 DEF Kept
  <2> QED
    BY <1>9, <2>6
<1> QED
  BY <1>9, <1>12 DEF Kept

(* At a parenthesis that does not fit, or at the end.                      *)
LEMMA KeptNothing ==
    ASSUME NEW text \in Text, Fits(text), NEW f, NEW i \in 1 .. Len(text) + 1,
           ~ (i <= Len(text) /\ IsWord(text[i])), ~ (i <= Len(text) /\ FilterAt(text, i)),
           ~ \E j \in i .. Len(text) : TermsAt(text, i, j),
           f[i] = Parsed(text, f, i)
    PROVE  Kept(text, f, i)
<1>1. Len(text) \in Nat /\ DOMAIN text = 1 .. Len(text)
  BY LexemeTypes
<1>2. f[i] = << >> /\ f[i] \in Seq(Conds(text))
  <2>1. Parsed(text, f, i) = << >>
    BY ParsedNothing
  <2>2. << >> \in Seq(Conds(text))
    OBVIOUS
  <2> QED
    BY <2>1, <2>2
<1>3. CASE i = Len(text) + 1
  <2>1. i + 1 .. Len(text) - 1 = {}
    BY <1>1, <1>3
  <2> QED
    BY <1>2, <2>1 DEF Kept
<1>4. CASE i # Len(text) + 1
  <2>1. i \in DOMAIN text /\ (text[i] = Open \/ text[i] = Close)
    BY <1>1, <1>4, LexemeTypes
  <2>2. CASE text[i] = Open
    <3>1. PICK j \in DOMAIN text : TermsAt(text, i, j)
      BY <1>1, <1>4, <2>1, <2>2 DEF Fits
    <3>2. j \in i .. Len(text)
      BY <1>1, <3>1 DEF TermsAt
    <3> QED
      BY <3>1, <3>2
  <2>3. CASE text[i] = Close
    <3>1. PICK j \in 1 .. i - 1 : text[j] = Open /\ \A k \in j + 1 .. i - 1 : IsWord(text[k])
      BY <2>1, <2>3 DEF Fits
    <3>2. ~ Outside(text, i)
      BY <3>1 DEF Outside
    <3> QED
      BY <1>2, <3>2 DEF Kept
  <2> QED
    BY <2>1, <2>2, <2>3
<1> QED
  BY <1>3, <1>4

(* The parser finds every filter of a text whose parentheses fit.          *)
LEMMA FiltersAreFound ==
    ASSUME NEW text \in Text, Fits(text), NEW k \in 2 .. Len(text) - 1, WrittenAt(text, k)
    PROVE  text[k].filter \in filters(conditions(text))
<1>1. Len(text) \in Nat /\ DOMAIN text = 1 .. Len(text)
  BY LexemeTypes
<1>2. PICK f : /\ \A i \in 1 .. Len(text) + 1 : f[i] = Parsed(text, f, i)
               /\ conditions(text) = f[1]
  BY <1>1, ConditionsAre
<1> DEFINE top == Len(text) + 1
           S == {i \in 0 .. top : i = 0 \/ Kept(text, f, i)}
<1>3. ASSUME NEW i \in 0 .. top, \A j \in i + 1 .. top : j \in S
      PROVE  i \in S
  <2>1. \A j \in i + 1 .. top : Kept(text, f, j)
    BY <1>3
  <2>2. CASE i = 0
    BY <2>2
  <2>3. CASE i # 0
    <3>1. i \in 1 .. Len(text) + 1 /\ f[i] = Parsed(text, f, i)
      BY <1>1, <1>2, <2>3
    <3>2. CASE i <= Len(text) /\ IsWord(text[i])
      <4>1. i \in 1 .. Len(text) /\ i + 1 \in i + 1 .. top
        BY <1>1, <3>1, <3>2
      <4>2. Kept(text, f, i + 1)
        BY <2>1, <4>1
      <4> QED
        BY <3>1, <3>2, <4>1, <4>2, KeptWord
    <3>3. CASE i <= Len(text) /\ FilterAt(text, i)
      <4>1. i \in 1 .. Len(text) /\ i + 3 \in i + 1 .. top
        BY <1>1, <3>1, <3>3 DEF FilterAt
      <4>2. Kept(text, f, i + 3)
        BY <2>1, <4>1
      <4> QED
        BY <3>1, <3>3, <4>1, <4>2, KeptFilter
    <3>4. CASE \E j \in i .. Len(text) : TermsAt(text, i, j)
      <4>1. i \in 1 .. Len(text)
        BY <1>1, <3>1, <3>4
      <4> QED
        BY <2>1, <3>1, <3>4, <4>1, KeptTerms
    <3>5. CASE /\ ~ (i <= Len(text) /\ IsWord(text[i]))
               /\ ~ (i <= Len(text) /\ FilterAt(text, i))
               /\ ~ \E j \in i .. Len(text) : TermsAt(text, i, j)
      BY <3>1, <3>5, KeptNothing
    <3> QED
      BY <3>2, <3>3, <3>4, <3>5
  <2> QED
    BY <2>2, <2>3
<1>4. top \in Nat /\ 1 \in 0 .. top
  BY <1>1
<1> HIDE DEF S, top
<1>5. 1 \in S
  BY <1>3, <1>4, Backwards
<1>6. Kept(text, f, 1)
  BY <1>5 DEF S
<1>7. Outside(text, 1)
  BY DEF Outside
<1>8. k \in 1 + 1 .. Len(text) - 1
  BY <1>1
<1>9. PICK c : c = [is |-> "filter", lexeme |-> text[k]]
  OBVIOUS
<1>10. c \in Range(conditions(text)) /\ c.is = "filter" /\ c.lexeme = text[k]
  BY <1>2, <1>6, <1>7, <1>8, <1>9 DEF Kept
<1> QED
  BY <1>10 DEF filters

(* FiltersHold for every text and every list of packages: the parser finds *)
(* each filter that is written, what is found passes each filter parsed,   *)
(* and what is shown is among what is found.                               *)
THEOREM FiltersAreApplied == Spec => []FiltersHold
<1>1. TypeOK /\ Current => FiltersHold
  <2> SUFFICES ASSUME TypeOK, Current, listing.answers = sent, Fits(state.searchQuery),
                      NEW i \in DOMAIN listing.rows, NEW f \in Written(state.searchQuery),
                      IsFilter(Inside(f))
               PROVE  includeItem(listing.rows[i], f)
    BY DEF FiltersHold
  <2>1. PICK reply \in Replies(get(state)) : Answer(reply, state)
    BY DEF Current
  <2>2. state.page \in Nat /\ state.searchQuery \in Text
        /\ state.column \in Column \cup {"default"} /\ state.direction \in Direction
    BY DEF TypeOK, State
  <2>3. PICK options : options = get(state)
    OBVIOUS
  <2>4. /\ options.page = state.page /\ options.searchQuery = state.searchQuery
        /\ options.column = state.column /\ options.direction = state.direction
    BY <2>3 DEF get
  <2>5. options.page \in Nat /\ reply \in Replies(options) /\ reply.status = "ok"
    BY <2>1, <2>2, <2>3, <2>4 DEF Answer
  <2>6. PICK n : n = reply.numberOfResults
    OBVIOUS
  <2>7. PICK slice : slice = paginate(n, options.page)
    OBVIOUS
  <2>8. PICK items \in SUBSET Package, hidden \in SUBSET Volatile,
             rank \in Injection(Package, Int) :
            /\ items = found(options, Package \ hidden)
            /\ n \in Nat /\ n = Cardinality(items)
            /\ reply.pageContents =
                  SubSeq(sortItems(options.column, options.direction, rank, items),
                         slice.startIndex + 1, slice.startIndex + slice.numElems)
            /\ slice.startIndex \in Nat /\ slice.numElems \in Nat
            /\ slice.startIndex + slice.numElems <= n
    BY <2>5, <2>6, <2>7, ReplyRows
  <2>9. PICK list : list = sortItems(options.column, options.direction, rank, items)
    OBVIOUS
  <2>10. DOMAIN list = 1 .. n /\ \A k \in 1 .. n : list[k] \in items
    BY <2>2, <2>4, <2>8, <2>9, SortedLength, SortedAreFound
  <2>11. listing.rows = SubSeq(list, slice.startIndex + 1, slice.startIndex + slice.numElems)
    BY <2>1, <2>8, <2>9 DEF Answer
  <2>12. listing.rows[i] \in items
    <3>1. PICK start \in Nat, num \in Nat : start = slice.startIndex /\ num = slice.numElems
      BY <2>8
    <3>2. start + num <= n /\ listing.rows = SubSeq(list, start + 1, start + num)
      BY <2>8, <2>11, <3>1
    <3>3. n \in Nat /\ DOMAIN list = 1 .. n /\ \A k \in 1 .. n : list[k] \in items
      BY <2>8, <2>10
    <3> QED
      BY <3>2, <3>3, SliceSelects
  <2>13. PICK conds : conds = conditions(state.searchQuery)
    OBVIOUS
  <2>14. f \in filters(conds)
    <3>1. PICK text \in Text : text = state.searchQuery
      BY <2>2
    <3>2. PICK k \in 2 .. Len(text) - 1 :
              /\ "filter" \in DOMAIN text[k] /\ text[k - 1] = Open /\ text[k + 1] = Close
              /\ f = text[k].filter
      BY <3>1 DEF Written
    <3>3. IsFilter(text[k])
      BY <3>2 DEF IsFilter, Inside
    <3> QED
      BY <2>13, <3>1, <3>2, <3>3, FiltersAreFound DEF WrittenAt
  <2>15. items = applyFilter(filters(conds), pkgDetails(terms(conds), Package \ hidden))
    BY <2>4, <2>8, <2>13 DEF found
  <2>16. f \in filtersWithDefaults(filters(conds))
    BY <2>14 DEF filtersWithDefaults
  <2> QED
    BY <2>12, <2>15, <2>16 DEF applyFilter
<1> QED
  BY <1>1, TypeCorrect, ShownIsCurrent, PTL
-----------------------------------------------------------------------------
(* The counts of downloads (DownloadCount), which the page shows and sorts *)
(* by: sums over days.                                                     *)

LEMMA Upwards ==
    ASSUME NEW top \in Nat, NEW S, 0 \in S,
           \A i \in 0 .. top : i # 0 /\ i - 1 \in S => i \in S
    PROVE  \A i \in 0 .. top : i \in S
<1> DEFINE D == {d \in 0 .. top : d \notin S}
<1>1. D = {}
  <2> SUFFICES ASSUME D # {} PROVE FALSE
    OBVIOUS
  <2>1. D \in SUBSET Nat
    OBVIOUS
  <2> HIDE DEF D
  <2>2. PICK m \in D : \A x \in D : m <= x
    BY <2>1, LeastIn
  <2> USE DEF D
  <2>3. m # 0 /\ m - 1 \in 0 .. top /\ m - 1 < m
    BY <2>2
  <2>4. m - 1 \in S
    BY <2>2, <2>3
  <2> QED
    BY <2>2, <2>3, <2>4
<1> QED
  BY <1>1

(* The sum of the first days, given that of one day less.                  *)
Summed(f, u, d) == IF d = 0 THEN f[0] ELSE u[d - 1] + f[d]

LEMMA SumExists ==
    ASSUME NEW f, MaxDay \in Nat
    PROVE  \E u : u = [d \in Day |-> Summed(f, u, d)]
<1> DEFINE From(a, u) == \A d \in 0 .. a : u[d] = Summed(f, u, d)
           S == {a \in Day : \E u : From(a, u)}
<1>1. 0 \in S
  <2>1. PICK u : u = [d \in 0 .. 0 |-> f[0]]
    OBVIOUS
  <2>2. From(0, u)
    BY <2>1 DEF Summed
  <2> QED
    BY <2>2 DEF Day
<1>2. ASSUME NEW a \in Day, a # 0, a - 1 \in S PROVE a \in S
  <2>1. PICK g : From(a - 1, g)
    BY <1>2
  <2>2. PICK u : u = [d \in 0 .. a |-> IF d = a THEN g[a - 1] + f[a] ELSE g[d]]
    OBVIOUS
  <2>3. a \in Nat
    BY DEF Day
  <2>4. ASSUME NEW d \in 0 .. a PROVE u[d] = Summed(f, u, d)
    <3>1. CASE d = a
      BY <1>2, <2>2, <2>3, <3>1 DEF Summed
    <3>2. CASE d # a
      <4>1. d \in 0 .. a - 1 /\ (d # 0 => d - 1 \in 0 .. a /\ d - 1 # a)
        BY <2>3, <3>2
      <4>2. u[d] = g[d] /\ (d # 0 => u[d - 1] = g[d - 1])
        BY <2>2, <3>2, <4>1
      <4>3. g[d] = Summed(f, g, d)
        BY <2>1, <4>1
      <4> QED
        BY <4>2, <4>3 DEF Summed
    <3> QED
      BY <3>1, <3>2
  <2> QED
    BY <2>4
<1> HIDE DEF S
<1>3. MaxDay \in S
  BY <1>1, <1>2, Upwards DEF Day
<1>4. PICK g : From(MaxDay, g)
  BY <1>3 DEF S
<1>5. PICK u : u = [d \in Day |-> g[d]]
  OBVIOUS
<1>6. ASSUME NEW d \in Day PROVE u[d] = Summed(f, u, d)
  <2>1. g[d] = Summed(f, g, d)
    BY <1>4 DEF Day
  <2>2. d # 0 => d - 1 \in Day
    BY DEF Day
  <2> QED
    BY <1>5, <2>1, <2>2 DEF Summed
<1>7. PICK h : h = [d \in Day |-> Summed(f, u, d)]
  OBVIOUS
<1>8. u = h
  BY <1>5, <1>6, <1>7
<1> QED
  BY <1>7, <1>8

LEMMA TotalIs ==
    ASSUME NEW f, MaxDay \in Nat
    PROVE  \E u : (\A d \in Day : u[d] = Summed(f, u, d)) /\ cmTotal(f) = u[MaxDay]
<1>1. PICK u : u = CHOOSE v : v = [d \in Day |-> Summed(f, v, d)]
  OBVIOUS
<1>2. u = [d \in Day |-> Summed(f, u, d)]
  BY <1>1, SumExists
<1>3. cmTotal(f) = u[MaxDay]
  BY <1>1 DEF cmTotal, Summed
<1>4. \A d \in Day : u[d] = Summed(f, u, d)
  BY <1>2
<1> QED
  BY <1>3, <1>4

LEMMA TotalType ==
    ASSUME NEW f \in PerDay, MaxDay \in Nat
    PROVE  cmTotal(f) \in Nat
<1>1. PICK u : (\A d \in Day : u[d] = Summed(f, u, d)) /\ cmTotal(f) = u[MaxDay]
  BY TotalIs
<1> DEFINE S == {d \in Day : u[d] \in Nat}
<1>2. 0 \in S
  BY <1>1 DEF Day, PerDay, Summed
<1>3. ASSUME NEW d \in Day, d # 0, d - 1 \in S PROVE d \in S
  BY <1>1, <1>3 DEF PerDay, Summed
<1> HIDE DEF S
<1>4. MaxDay \in S
  BY <1>2, <1>3, Upwards DEF Day
<1> QED
  BY <1>1, <1>4 DEF S

LEMMA TotalEmpty ==
    ASSUME MaxDay \in Nat
    PROVE  cmTotal(cmEmpty) = 0
<1>1. PICK u : (\A d \in Day : u[d] = Summed(cmEmpty, u, d)) /\ cmTotal(cmEmpty) = u[MaxDay]
  BY TotalIs
<1> DEFINE S == {d \in Day : u[d] = 0}
<1>2. 0 \in S
  BY <1>1 DEF Day, cmEmpty, Summed
<1>3. ASSUME NEW d \in Day, d # 0, d - 1 \in S PROVE d \in S
  BY <1>1, <1>3 DEF cmEmpty, Summed
<1> HIDE DEF S
<1>4. MaxDay \in S
  BY <1>2, <1>3, Upwards DEF Day
<1> QED
  BY <1>1, <1>4 DEF S

(* An insertion adds what is inserted to the sum.                          *)
LEMMA TotalInsert ==
    ASSUME NEW f \in PerDay, NEW e \in Day, NEW n \in Nat, MaxDay \in Nat
    PROVE  /\ cmInsert(e, n, f) \in PerDay
           /\ cmTotal(cmInsert(e, n, f)) = cmTotal(f) + n
<1>1. PICK g : g = cmInsert(e, n, f)
  OBVIOUS
<1>2. g \in PerDay /\ \A d \in Day : g[d] = IF d = e THEN f[d] + n ELSE f[d]
  BY <1>1 DEF cmInsert, PerDay
<1>3. PICK u : (\A d \in Day : u[d] = Summed(f, u, d)) /\ cmTotal(f) = u[MaxDay]
  BY TotalIs
<1>4. PICK v : (\A d \in Day : v[d] = Summed(g, v, d)) /\ cmTotal(g) = v[MaxDay]
  BY TotalIs
<1> DEFINE S == {d \in Day : u[d] \in Nat /\ v[d] = IF d < e THEN u[d] ELSE u[d] + n}
<1>5. 0 \in S
  BY <1>2, <1>3, <1>4 DEF Day, PerDay, Summed
<1>6. ASSUME NEW d \in Day, d # 0, d - 1 \in S PROVE d \in S
  <2>1. /\ u[d] = u[d - 1] + f[d] /\ v[d] = v[d - 1] + g[d]
        /\ f[d] \in Nat /\ u[d - 1] \in Nat /\ d \in Nat /\ e \in Nat
    BY <1>3, <1>4, <1>6 DEF PerDay, Summed, Day
  <2>2. g[d] = IF d = e THEN f[d] + n ELSE f[d]
    BY <1>2
  <2>3. v[d - 1] = IF d - 1 < e THEN u[d - 1] ELSE u[d - 1] + n
    BY <1>6
  <2>4. v[d] = IF d < e THEN u[d] ELSE u[d] + n
    BY <2>1, <2>2, <2>3
  <2> QED
    BY <2>1, <2>4
<1> HIDE DEF S
<1>7. MaxDay \in S
  BY <1>5, <1>6, Upwards DEF Day
<1>8. v[MaxDay] = u[MaxDay] + n
  BY <1>7 DEF S, Day
<1> QED
  BY <1>1, <1>2, <1>3, <1>4, <1>8

(* How often the package is on the channel.                                *)
Places(s, p) == {i \in DOMAIN s : s[i] = p}

LEMMA PlacesAreFinite ==
    ASSUME NEW s \in Seq(PackageName), NEW p
    PROVE  IsFiniteSet(Places(s, p)) /\ Cardinality(Places(s, p)) \in Nat
<1>1. Len(s) \in Nat /\ DOMAIN s = 1 .. Len(s)
  OBVIOUS
<1>2. IsFiniteSet(1 .. Len(s))
  BY <1>1, FS_Interval
<1>3. Places(s, p) \in SUBSET (1 .. Len(s))
  BY <1>1 DEF Places
<1>4. IsFiniteSet(Places(s, p))
  BY <1>2, <1>3, FS_Subset
<1> QED
  BY <1>4, FS_CardinalityType

LEMMA PlacesAppend ==
    ASSUME NEW s \in Seq(PackageName), NEW x \in PackageName, NEW p
    PROVE  Cardinality(Places(Append(s, x), p))
               = Cardinality(Places(s, p)) + (IF x = p THEN 1 ELSE 0)
<1>1. PICK t : t = Append(s, x)
  OBVIOUS
<1>2. PICK n \in Nat : n = Len(s)
  OBVIOUS
<1>3. /\ DOMAIN t = 1 .. n + 1 /\ DOMAIN s = 1 .. n
      /\ \A i \in 1 .. n : t[i] = s[i]
      /\ t[n + 1] = x
  BY <1>1, <1>2
<1>4. CASE x = p
  <2>1. Places(t, p) = Places(s, p) \cup {n + 1}
    BY <1>3, <1>4 DEF Places
  <2>2. n + 1 \notin Places(s, p)
    BY <1>3 DEF Places
  <2>3. Cardinality(Places(t, p)) = Cardinality(Places(s, p)) + 1
    BY <2>1, <2>2, PlacesAreFinite, FS_AddElement
  <2> QED
    BY <1>1, <1>4, <2>3
<1>5. CASE x # p
  <2>1. Places(t, p) = Places(s, p)
    BY <1>3, <1>5 DEF Places
  <2> QED
    BY <1>1, <1>5, <2>1, PlacesAreFinite
<1> QED
  BY <1>4, <1>5

LEMMA PlacesTail ==
    ASSUME NEW s \in Seq(PackageName), s # << >>, NEW p
    PROVE  Cardinality(Places(s, p))
               = Cardinality(Places(Tail(s), p)) + (IF Head(s) = p THEN 1 ELSE 0)
<1>1. PICK t : t = Tail(s)
  OBVIOUS
<1>2. PICK n \in Nat \ {0} : n = Len(s)
  OBVIOUS
<1>3. /\ DOMAIN t = 1 .. n - 1 /\ DOMAIN s = 1 .. n /\ Head(s) = s[1]
      /\ \A i \in 1 .. n - 1 : t[i] = s[i + 1]
  BY <1>1, <1>2
<1>4. PICK S : S = Places(s, p) \ {1}
  OBVIOUS
<1>5. PICK f : f = [i \in S |-> i - 1]
  OBVIOUS
<1>6. f \in Injection(S, Places(t, p))
  <2>1. \A i \in S : i - 1 \in Places(t, p)
    BY <1>3, <1>4 DEF Places
  <2>2. f \in [S -> Places(t, p)]
    BY <1>5, <2>1
  <2>3. \A i, j \in S : f[i] = f[j] => i = j
    BY <1>3, <1>4, <1>5 DEF Places
  <2> QED
    BY <2>2, <2>3 DEF Injection, IsInjective
<1>7. f \in Surjection(S, Places(t, p))
  <2>1. ASSUME NEW j \in Places(t, p) PROVE \E i \in S : f[i] = j
    <3>1. j + 1 \in S /\ (j + 1) - 1 = j
      BY <1>3, <1>4, <2>1 DEF Places
    <3> QED
      BY <1>5, <3>1
  <2>2. f \in [S -> Places(t, p)]
    BY <1>6 DEF Injection
  <2> QED
    BY <2>1, <2>2 DEF Surjection
<1>8. ExistsBijection(S, Places(t, p))
  BY <1>6, <1>7 DEF ExistsBijection, Bijection
<1>9. IsFiniteSet(Places(s, p)) /\ Cardinality(Places(s, p)) \in Nat
  BY PlacesAreFinite
<1>10. IsFiniteSet(S) /\ Cardinality(S) = IF 1 \in Places(s, p) THEN Cardinality(Places(s, p)) - 1
                                         ELSE Cardinality(Places(s, p))
  BY <1>4, <1>9, FS_RemoveElement
<1>11. Cardinality(Places(t, p)) = Cardinality(S)
  BY <1>8, <1>10, FS_Bijection
<1>12. 1 \in Places(s, p) <=> Head(s) = p
  BY <1>3 DEF Places
<1> QED
  BY <1>1, <1>9, <1>10, <1>11, <1>12

LEMMA QueuedIs ==
    ASSUME NEW p
    PROVE  Queued(p) = Cardinality(Places(chan, p))
BY DEF Queued, Places

LEMMA QueuedNext ==
    ASSUME NEW p, NEW c, chan' = c
    PROVE  Queued(p)' = Cardinality(Places(c, p))
BY DEF Queued, Places

LEMMA NoneQueued ==
    ASSUME NEW p
    PROVE  Cardinality(Places(<< >>, p)) = 0
<1>1. Places(<< >>, p) = {}
  BY DEF Places
<1> QED
  BY <1>1, FS_EmptySet

-----------------------------------------------------------------------------
(* Types.                                                                  *)

LEMMA BoundsHold == MaxDay \in Nat /\ 0 \in Day /\ None \in Counts
BY CountAssumption DEF Day, None, Counts

(* What the thread holds where it is.                                      *)
LEMMA CounterIs ==
    ASSUME NEW c \in Counter
    PROVE  /\ c.at \in {"idle", "dead", "register", "reset", "append", "list", "read", "recompute", "write"}
           /\ c.at = "idle" => c = Idle
           /\ c.at = "dead" => c = Dead
           /\ c.at \notin {"idle", "dead"} => c.pkg \in PackageName /\ c.day \in Day
           /\ c.at \in Rollover => c.stats \in Stats
           /\ c.at \in {"append", "list"} =>
                c \in [at : {"append", "list"}, pkg : PackageName, day : Day, stats : Stats]
           /\ c.at \in {"read", "recompute", "write"} =>
                c.listed \subseteq PackageName /\ c.left \subseteq PackageName
           /\ c.at = "write" => c.file \in PackageName /\ c.perPkg \in PerDay
<1>1. CASE c = Idle \/ c = Dead
  BY <1>1 DEF Idle, Dead, Rollover
<1>2. CASE c \in [at : {"register", "reset"}, pkg : PackageName, day : Day]
  BY <1>2 DEF Rollover
<1>3. CASE c \in [at : {"append", "list"}, pkg : PackageName, day : Day, stats : Stats]
  BY <1>3 DEF Rollover
<1>4. CASE c \in [at : {"read", "recompute"}, pkg : PackageName, day : Day, stats : Stats,
                  listed : SUBSET PackageName, left : SUBSET PackageName]
  BY <1>4 DEF Rollover
<1>5. CASE c \in [at : {"write"}, pkg : PackageName, day : Day, stats : Stats,
                  listed : SUBSET PackageName, left : SUBSET PackageName, file : PackageName, perPkg : PerDay]
  BY <1>5 DEF Rollover
<1> QED
  BY <1>1, <1>2, <1>3, <1>4, <1>5 DEF Counter

LEMMA FileTotalType ==
    ASSUME CountTypeOK, NEW p
    PROVE  FileTotal(p) \in Nat
BY TotalType, BoundsHold DEF FileTotal, CountTypeOK

(* A file that is written holds what was written; the others are as before.*)
LEMMA FileWritten ==
    ASSUME CountTypeOK, NEW p \in PackageName, NEW f \in PerDay, disk' = WithFile(p, f)
    PROVE  /\ DOMAIN disk' = DOMAIN disk \cup {p}
           /\ disk'[p] = f
           /\ \A q \in DOMAIN disk \ {p} : disk'[q] = disk[q]
           /\ FileTotal(p)' = cmTotal(f)
           /\ \A q : q # p => FileTotal(q)' = FileTotal(q)
<1>1. /\ DOMAIN disk' = DOMAIN disk \cup {p}
      /\ \A q \in DOMAIN disk \cup {p} : disk'[q] = IF q = p THEN f ELSE disk[q]
  BY DEF WithFile
<1>2. FileTotal(p)' = cmTotal(disk'[p])
  BY <1>1 DEF FileTotal, cmTotal
<1>3. ASSUME NEW q, q # p PROVE FileTotal(q)' = FileTotal(q)
  <2>1. CASE q \in DOMAIN disk
    <3>1. q \in DOMAIN disk' /\ disk'[q] = disk[q]
      BY <1>1, <1>3, <2>1
    <3> QED
      BY <2>1, <3>1 DEF FileTotal, cmTotal
  <2>2. CASE q \notin DOMAIN disk
    BY <1>1, <1>3, <2>2 DEF FileTotal
  <2> QED
    BY <2>1, <2>2
<1> QED
  BY <1>1, <1>2, <1>3

LEMMA FilesUnchanged ==
    ASSUME disk' = disk
    PROVE  \A q : FileTotal(q)' = FileTotal(q)
BY DEF FileTotal, cmTotal

LEMMA IdleIsCounter == Idle \in Counter /\ Dead \in Counter /\ Idle.at = "idle" /\ Dead.at = "dead"
BY DEF Counter, Idle, Dead

(* Files stay where they were listed; the one about to be written has been *)
(* taken off those left.                                                   *)
FilesListed ==
    /\ counter.at \in {"read", "write"} => counter.listed \subseteq DOMAIN disk
    /\ counter.at = "write" => counter.file \notin counter.left

(* Steps of the thread that only go on to another place.                   *)
LEMMA GoTypes ==
    ASSUME CountTypeOK, NEW c \in Counter, Goto(c),
           UNCHANGED <<today, importer, downloads, imported, lost, crossed, unlogged>>,
           inMem' \in Stats, log' \in Counts, chan' \in Seq(PackageName), totals' \in Counts,
           DOMAIN disk' \subseteq PackageName, \A p \in DOMAIN disk' : disk'[p] \in PerDay
    PROVE  CountTypeOK'
<1>1. counter' = c /\ mixed' \in BOOLEAN
  BY DEF Goto, CountTypeOK
<1>2. ImportsOK'
  BY DEF CountTypeOK, ImportsOK, ImportOK
<1> QED
  BY <1>1, <1>2 DEF CountTypeOK

LEMMA ThreadTypes ==
    ASSUME CountTypeOK, FilesListed, registerDownloads
    PROVE  CountTypeOK'
<1>0. /\ today \in Day /\ inMem \in Stats /\ DOMAIN disk \subseteq PackageName
      /\ \A p \in DOMAIN disk : disk[p] \in PerDay
      /\ log \in Counts /\ chan \in Seq(PackageName) /\ totals \in Counts /\ counter \in Counter
  BY DEF CountTypeOK
<1>1. CASE readChan
  <2>1. PICK c : c = [at |-> IF today = inMem.day THEN "register" ELSE "reset",
                      pkg |-> Head(chan), day |-> today]
    OBVIOUS
  <2>2. Head(chan) \in PackageName /\ Tail(chan) \in Seq(PackageName)
    BY <1>0, <1>1 DEF readChan
  <2>3. c \in Counter
    BY <1>0, <2>1, <2>2 DEF Counter
  <2>4. Goto(c) /\ chan' = Tail(chan)
    BY <1>1, <2>1 DEF readChan
  <2> QED
    BY <1>0, <1>1, <2>2, <2>3, <2>4, GoTypes DEF readChan, files
<1>2. CASE resetInMem
  <2>1. PICK c : c = [at |-> "append", pkg |-> counter.pkg, day |-> counter.day, stats |-> inMem]
    OBVIOUS
  <2>2. counter.pkg \in PackageName /\ counter.day \in Day
    BY <1>0, <1>2, CounterIs DEF resetInMem
  <2>3. c \in Counter
    BY <1>0, <2>1, <2>2 DEF Counter
  <2>4. inMem' \in Stats
    BY <1>2, <2>2, BoundsHold DEF resetInMem, Stats
  <2>5. Goto(c)
    BY <1>2, <2>1 DEF resetInMem
  <2> QED
    BY <1>0, <1>2, <2>3, <2>4, <2>5, GoTypes DEF resetInMem, files
<1>3. CASE appendToLog
  <2>1. PICK c : c = [counter EXCEPT !.at = "list"]
    OBVIOUS
  <2>2. /\ counter \in [at : {"append", "list"}, pkg : PackageName, day : Day, stats : Stats]
        /\ counter.stats \in Stats
    BY <1>0, <1>3, CounterIs DEF appendToLog, Rollover
  <2>3. c \in [at : {"append", "list"}, pkg : PackageName, day : Day, stats : Stats]
    BY <2>1, <2>2
  <2>4. c \in Counter
    BY <2>3 DEF Counter
  <2>5. log' \in Counts
    BY <1>0, <1>3, <2>2 DEF appendToLog, Plus, Counts, Stats
  <2>6. Goto(c)
    BY <1>3, <2>1 DEF appendToLog
  <2> QED
    BY <1>0, <1>3, <2>4, <2>5, <2>6, GoTypes DEF appendToLog
<1>4. CASE listFiles
  <2>1. counter.pkg \in PackageName /\ counter.day \in Day /\ counter.stats \in Stats
    BY <1>0, <1>4, CounterIs DEF listFiles, Rollover
  <2>2. PICK left : left = DOMAIN disk \cup {p \in PackageName : counter.stats.counts[p] > 0}
    OBVIOUS
  <2>3. PICK c : c = [at |-> IF left = {} THEN "recompute" ELSE "read",
                      pkg |-> counter.pkg, day |-> counter.day, stats |-> counter.stats,
                      listed |-> DOMAIN disk, left |-> left]
    OBVIOUS
  <2>4. left \subseteq PackageName
    BY <1>0, <2>2
  <2>5. c \in Counter
    BY <1>0, <2>1, <2>3, <2>4 DEF Counter
  <2>6. Goto(c)
    BY <1>4, <2>2, <2>3 DEF listFiles
  <2> QED
    BY <1>0, <1>4, <2>5, <2>6, GoTypes DEF listFiles, files
<1>5. CASE readFile
  <2>1. /\ counter.pkg \in PackageName /\ counter.day \in Day /\ counter.stats \in Stats
        /\ counter.listed \subseteq PackageName /\ counter.left \subseteq PackageName
    BY <1>0, <1>5, CounterIs DEF readFile, Rollover
  <2>2. PICK p \in counter.left :
          Goto([at |-> "write", pkg |-> counter.pkg, day |-> counter.day,
                stats |-> counter.stats, listed |-> counter.listed,
                left |-> counter.left \ {p}, file |-> p,
                perPkg |-> updateHistory(counter.stats, p, IF p \in counter.listed THEN disk[p] ELSE cmEmpty)])
    BY <1>5 DEF readFile
  <2>3. PICK old : old = IF p \in counter.listed THEN disk[p] ELSE cmEmpty
    OBVIOUS
  <2>4. old \in PerDay
    BY <1>0, <1>5, <2>3 DEF FilesListed, readFile, cmEmpty, PerDay
  <2>5. PICK new : new = updateHistory(counter.stats, p, old)
    OBVIOUS
  <2>6. new \in PerDay
    BY <2>1, <2>4, <2>5, TotalInsert, BoundsHold DEF updateHistory, Stats, Counts
  <2>7. PICK c : c = [at |-> "write", pkg |-> counter.pkg, day |-> counter.day,
                      stats |-> counter.stats, listed |-> counter.listed,
                      left |-> counter.left \ {p}, file |-> p, perPkg |-> new]
    OBVIOUS
  <2>8. c \in Counter
    BY <2>1, <2>6, <2>7 DEF Counter
  <2>9. Goto(c)
    BY <2>2, <2>3, <2>5, <2>7
  <2> QED
    BY <1>0, <1>5, <2>8, <2>9, GoTypes DEF readFile, files
<1>6. CASE writeFile
  <2>1. /\ counter.pkg \in PackageName /\ counter.day \in Day /\ counter.stats \in Stats
        /\ counter.listed \subseteq PackageName /\ counter.left \subseteq PackageName
        /\ counter.file \in PackageName /\ counter.perPkg \in PerDay
    BY <1>0, <1>6, CounterIs DEF writeFile, Rollover
  <2>2. PICK c : c = [at |-> IF counter.left = {} THEN "recompute" ELSE "read",
                      pkg |-> counter.pkg, day |-> counter.day, stats |-> counter.stats,
                      listed |-> counter.listed, left |-> counter.left]
    OBVIOUS
  <2>3. c \in Counter
    BY <2>1, <2>2 DEF Counter
  <2>4. Goto(c) /\ disk' = WithFile(counter.file, counter.perPkg)
    BY <1>6, <2>2 DEF writeFile
  <2>5. WithFile(counter.file, counter.perPkg) = disk'
    BY <2>4
  <2>6. PICK f, g : f = counter.file /\ g = counter.perPkg
    OBVIOUS
  <2>7. /\ DOMAIN disk' = DOMAIN disk \cup {f} /\ disk'[f] = g
        /\ \A q \in DOMAIN disk \ {f} : disk'[q] = disk[q]
    BY <2>1, <2>5, <2>6, FileWritten
  <2>8. DOMAIN disk' \subseteq PackageName /\ \A p \in DOMAIN disk' : disk'[p] \in PerDay
    BY <1>0, <2>1, <2>6, <2>7
  <2> QED
    BY <1>0, <1>6, <2>3, <2>4, <2>8, GoTypes DEF writeFile
<1>7. CASE recompute
  <2>1. PICK c : c = [at |-> "register", pkg |-> counter.pkg, day |-> counter.day]
    OBVIOUS
  <2>2. counter.pkg \in PackageName /\ counter.day \in Day
    BY <1>0, <1>7, CounterIs DEF recompute
  <2>3. c \in Counter
    BY <2>1, <2>2 DEF Counter
  <2>4. totals' \in Counts
    BY <1>7, FileTotalType DEF recompute, computeTotalDownloads, Counts
  <2>5. Goto(c)
    BY <1>7, <2>1 DEF recompute
  <2> QED
    BY <1>0, <1>7, <2>3, <2>4, <2>5, GoTypes DEF recompute, files
<1>8. CASE registerDownload
  <2>1. counter.pkg \in PackageName
    BY <1>0, <1>8, CounterIs DEF registerDownload
  <2>2. inMem' \in Stats
    BY <1>0, <1>8, <2>1, SMTT(30) DEF registerDownload, Stats, Counts
  <2>3. Goto(Idle)
    BY <1>8 DEF registerDownload
  <2> QED
    BY <1>0, <1>8, <2>2, <2>3, IdleIsCounter, GoTypes DEF registerDownload, files
<1> QED
  BY <1>1, <1>2, <1>3, <1>4, <1>5, <1>6, <1>7, <1>8 DEF registerDownloads

(* What the thread holds of a package, now and after a step.               *)
LEMMA HeldIs ==
    ASSUME NEW p
    PROVE  /\ counter.at \in {"append", "list"} => Unwritten(p) = counter.stats.counts[p]
           /\ counter.at = "read" =>
                Unwritten(p) = IF p \in counter.left THEN counter.stats.counts[p] ELSE 0
           /\ counter.at = "write" =>
                Unwritten(p) = IF p \in counter.left \/ p = counter.file
                               THEN counter.stats.counts[p] ELSE 0
           /\ counter.at \notin {"append", "list", "read", "write"} => Unwritten(p) = 0
           /\ counter.at \in {"idle", "dead"} => InHand(p) = 0
           /\ counter.at \notin {"idle", "dead"} =>
                InHand(p) = IF counter.pkg = p THEN 1 ELSE 0
BY DEF Unwritten, InHand

LEMMA HeldNext ==
    ASSUME NEW p
    PROVE  /\ counter'.at \in {"append", "list"} => Unwritten(p)' = counter'.stats.counts[p]
           /\ counter'.at = "read" =>
                Unwritten(p)' = IF p \in counter'.left THEN counter'.stats.counts[p] ELSE 0
           /\ counter'.at = "write" =>
                Unwritten(p)' = IF p \in counter'.left \/ p = counter'.file
                                THEN counter'.stats.counts[p] ELSE 0
           /\ counter'.at \notin {"append", "list", "read", "write"} => Unwritten(p)' = 0
           /\ counter'.at \in {"idle", "dead"} => InHand(p)' = 0
           /\ counter'.at \notin {"idle", "dead"} =>
                InHand(p)' = IF counter'.pkg = p THEN 1 ELSE 0
BY DEF Unwritten, InHand

LEMMA HeldTypes ==
    ASSUME CountTypeOK, NEW p \in PackageName
    PROVE  Queued(p) \in Nat /\ InHand(p) \in Nat /\ Unwritten(p) \in Nat
<1>1. counter \in Counter /\ chan \in Seq(PackageName)
  BY DEF CountTypeOK
<1>2. Queued(p) \in Nat
  BY <1>1, QueuedIs, PlacesAreFinite
<1>3. counter.at \in Rollover => counter.stats.counts[p] \in Nat
  BY <1>1, CounterIs DEF Stats, Counts
<1>4. Unwritten(p) \in Nat
  BY <1>3, HeldIs DEF Rollover
<1>5. InHand(p) \in Nat
  BY HeldIs
<1> QED
  BY <1>2, <1>4, <1>5

LEMMA CsvType ==
    ASSUME NEW csv, \A p \in DOMAIN csv : csv[p] \in PerDay
    PROVE  CsvTotals(csv) \in Counts
BY TotalType, BoundsHold DEF CsvTotals, Counts

(* An import changes its own place and no other.                           *)
LEMMA ImportMoves ==
    ASSUME ImportsOK, NEW r \in ImportRequest, NEW i, importer' = [importer EXCEPT ![r] = i]
    PROVE  /\ importer'[r] = i /\ DOMAIN importer' = ImportRequest
           /\ \A q \in ImportRequest \ {r} : importer'[q] = importer[q]
           /\ ImportOK(i) => ImportsOK'
BY DEF ImportsOK, ImportOK

LEMMA ImportsStay ==
    ASSUME ImportsOK, importer' = importer
    PROVE  ImportsOK' /\ Importing' = Importing
BY DEF ImportsOK, ImportOK, Importing

(* What an import at work holds.                                           *)
LEMMA ImportHas ==
    ASSUME ImportsOK, NEW r \in ImportRequest, importer[r] # Idle
    PROVE  /\ r \in Importing
           /\ importer[r].at \in {"files", "log", "write"}
           /\ DOMAIN importer[r].csv \subseteq PackageName
           /\ importer[r].left \subseteq DOMAIN importer[r].csv
           /\ \A p \in DOMAIN importer[r].csv : importer[r].csv[p] \in PerDay
BY DEF ImportsOK, ImportOK, Importing

LEMMA AtWork ==
    ASSUME NEW i, i.at \in {"files", "log", "write"}
    PROVE  i # Idle
BY DEF Idle

(* A new import has all its files before it.                               *)
LEMMA PutIs ==
    ASSUME CountTypeOK, NEW r \in ImportRequest, putDownloadCounts(r)
    PROVE  \E i : /\ importer[r] = Idle /\ importer' = [importer EXCEPT ![r] = i]
                  /\ importer'[r] = i /\ ImportOK(i) /\ i # Idle
                  /\ i.at = "files" /\ DOMAIN i.csv = i.left /\ ImportsOK'
                  /\ \A q \in ImportRequest \ {r} : importer'[q] = importer[q]
<1>1. PICK pkgs \in SUBSET PackageName :
        importer' = [importer EXCEPT ![r] =
                       [at |-> "files", left |-> pkgs,
                        csv |-> [p \in pkgs |-> cmInsert(0, 1, cmEmpty)]]]
  BY DEF putDownloadCounts
<1>2. cmInsert(0, 1, cmEmpty) \in PerDay
  BY TotalInsert, BoundsHold DEF cmEmpty, PerDay
<1>3. PICK csv : csv = [p \in pkgs |-> cmInsert(0, 1, cmEmpty)]
  OBVIOUS
<1>4. DOMAIN csv = pkgs /\ \A p \in DOMAIN csv : csv[p] \in PerDay
  BY <1>2, <1>3
<1>5. PICK i : i = [at |-> "files", left |-> pkgs, csv |-> csv]
  OBVIOUS
<1>6. i.at = "files" /\ i.left = pkgs /\ i.csv = csv
  BY <1>5
<1>7. i # Idle /\ ImportOK(i)
  BY <1>4, <1>6, AtWork DEF ImportOK
<1>8. importer' = [importer EXCEPT ![r] = i]
  BY <1>1, <1>3, <1>5
<1>9. importer[r] = Idle /\ ImportsOK
  BY DEF putDownloadCounts, CountTypeOK
<1> QED
  BY <1>4, <1>6, <1>7, <1>8, <1>9, ImportMoves

(* An import goes on to the totals, to opening the log, and ends.          *)
LEMMA TotalsGo ==
    ASSUME ImportsOK, NEW r \in ImportRequest, importTotals(r)
    PROVE  /\ importer[r].at = "files" /\ importer[r].left = {} /\ importer[r] # Idle
           /\ importer'[r].at = "log" /\ importer'[r] # Idle
           /\ importer'[r].csv = importer[r].csv /\ importer'[r].left = importer[r].left
           /\ \A q \in ImportRequest \ {r} : importer'[q] = importer[q]
           /\ totals' = CsvTotals(importer[r].csv) /\ ImportsOK'
           /\ UNCHANGED <<today, inMem, files, chan, counter, history, faults>>
<1>1. /\ importer[r].at = "files" /\ importer[r].left = {}
      /\ importer' = [importer EXCEPT ![r].at = "log"]
      /\ totals' = CsvTotals(importer[r].csv)
      /\ UNCHANGED <<today, inMem, files, chan, counter, history, faults>>
  BY DEF importTotals
<1>2. importer[r] # Idle
  BY <1>1, AtWork
<1>3. PICK i : i = [importer[r] EXCEPT !.at = "log"]
  OBVIOUS
<1>4. importer' = [importer EXCEPT ![r] = i]
  BY <1>1, <1>3
<1>5. i.at = "log" /\ i.csv = importer[r].csv /\ i.left = importer[r].left
  BY <1>3
<1>6. i # Idle /\ ImportOK(i)
  BY <1>2, <1>5, AtWork, ImportHas DEF ImportOK
<1> QED
  BY <1>1, <1>2, <1>4, <1>5, <1>6, ImportMoves

LEMMA OpenGoes ==
    ASSUME ImportsOK, NEW r \in ImportRequest, openLog(r)
    PROVE  /\ importer[r].at = "log" /\ importer[r] # Idle
           /\ importer'[r].at = "write" /\ importer'[r] # Idle
           /\ importer'[r].csv = importer[r].csv /\ importer'[r].left = importer[r].left
           /\ \A q \in ImportRequest \ {r} : importer'[q] = importer[q]
           /\ log' = None /\ ImportsOK'
           /\ UNCHANGED <<today, inMem, disk, chan, totals, counter, history, faults>>
<1>1. /\ importer[r].at = "log"
      /\ importer' = [importer EXCEPT ![r].at = "write"]
      /\ log' = None
      /\ UNCHANGED <<today, inMem, disk, chan, totals, counter, history, faults>>
  BY DEF openLog
<1>2. importer[r] # Idle
  BY <1>1, AtWork
<1>3. PICK i : i = [importer[r] EXCEPT !.at = "write"]
  OBVIOUS
<1>4. importer' = [importer EXCEPT ![r] = i]
  BY <1>1, <1>3
<1>5. i.at = "write" /\ i.csv = importer[r].csv /\ i.left = importer[r].left
  BY <1>3
<1>6. i # Idle /\ ImportOK(i)
  BY <1>2, <1>5, AtWork, ImportHas DEF ImportOK
<1> QED
  BY <1>1, <1>2, <1>4, <1>5, <1>6, ImportMoves

LEMMA ImportEnds ==
    ASSUME ImportsOK, NEW r \in ImportRequest, reconstructLog(r) \/ importError(r)
    PROVE  /\ importer[r] # Idle /\ importer'[r] = Idle
           /\ \A q \in ImportRequest \ {r} : importer'[q] = importer[q]
           /\ ImportsOK'
           /\ UNCHANGED <<today, inMem, disk, chan, totals, counter,
                          downloads, imported, lost, crossed, mixed>>
<1>1. importer' = [importer EXCEPT ![r] = Idle]
  BY DEF reconstructLog, importError
<1>2. importer[r] # Idle
  BY AtWork DEF reconstructLog, importError
<1>3. UNCHANGED <<today, inMem, disk, chan, totals, counter,
                  downloads, imported, lost, crossed, mixed>>
  BY DEF reconstructLog, importError, files
<1>4. ImportOK(Idle)
  BY DEF ImportOK
<1> QED
  BY <1>1, <1>2, <1>3, <1>4, ImportMoves

(* An import writes one file.                                              *)
LEMMA ImportFileIs ==
    ASSUME CountTypeOK, NEW r \in ImportRequest, importFile(r)
    PROVE  \E p \in PackageName :
              /\ importer[r] # Idle /\ importer[r].at = "files"
              /\ p \in importer[r].left /\ p \in DOMAIN importer[r].csv
              /\ importer[r].csv[p] \in PerDay
              /\ importer'[r] # Idle /\ importer'[r].at = "files"
              /\ importer'[r].csv = importer[r].csv
              /\ importer'[r].left = importer[r].left \ {p}
              /\ \A q \in ImportRequest \ {r} : importer'[q] = importer[q]
              /\ ImportsOK'
              /\ DOMAIN disk' = DOMAIN disk \cup {p} /\ disk'[p] = importer[r].csv[p]
              /\ \A q \in DOMAIN disk \ {p} : disk'[q] = disk[q]
              /\ FileTotal(p)' = cmTotal(importer[r].csv[p]) /\ FileTotal(p)' \in Nat
              /\ \A q : q # p => FileTotal(q)' = FileTotal(q)
              /\ imported' \in [PackageName -> Int]
              /\ \A q \in PackageName \ {p} : imported'[q] = imported[q]
              /\ imported'[p] = imported[p] + FileTotal(p)' - FileTotal(p)
              /\ crossed \subseteq crossed' /\ (Crosses(p) => p \in crossed')
              /\ crossed' \subseteq PackageName
<1>1. importer[r].at = "files" /\ importer[r] # Idle /\ ImportsOK
  BY AtWork DEF importFile, CountTypeOK
<1>2. PICK p \in importer[r].left :
          /\ disk' = WithFile(p, importer[r].csv[p])
          /\ importer' = [importer EXCEPT ![r].left = @ \ {p}]
          /\ imported' = [imported EXCEPT ![p] = @ + cmTotal(importer[r].csv[p]) - FileTotal(p)]
          /\ crossed' = IF Crosses(p) THEN crossed \cup {p} ELSE crossed
  BY DEF importFile
<1>3. p \in PackageName /\ p \in DOMAIN importer[r].csv /\ importer[r].csv[p] \in PerDay
  BY <1>1, <1>2, ImportHas
<1>4. PICK f : f = importer[r].csv[p]
  OBVIOUS
<1>5. /\ DOMAIN disk' = DOMAIN disk \cup {p} /\ disk'[p] = f
      /\ \A q \in DOMAIN disk \ {p} : disk'[q] = disk[q]
      /\ FileTotal(p)' = cmTotal(f)
      /\ \A q : q # p => FileTotal(q)' = FileTotal(q)
  BY <1>2, <1>3, <1>4, FileWritten
<1>6. cmTotal(f) \in Nat /\ FileTotal(p) \in Nat
  BY <1>3, <1>4, TotalType, FileTotalType, BoundsHold
<1>7. PICK i : i = [importer[r] EXCEPT !.left = @ \ {p}]
  OBVIOUS
<1>8. importer' = [importer EXCEPT ![r] = i]
  BY <1>2, <1>7
<1>9. i.at = "files" /\ i.csv = importer[r].csv /\ i.left = importer[r].left \ {p}
  BY <1>1, <1>7
<1>10. i # Idle /\ ImportOK(i)
  BY <1>1, <1>9, AtWork, ImportHas DEF ImportOK
<1>11. /\ importer'[r] = i /\ ImportsOK'
       /\ \A q \in ImportRequest \ {r} : importer'[q] = importer[q]
  BY <1>1, <1>8, <1>10, ImportMoves
<1>12. /\ imported' \in [PackageName -> Int]
       /\ \A q \in PackageName \ {p} : imported'[q] = imported[q]
       /\ imported'[p] = imported[p] + cmTotal(f) - FileTotal(p)
  BY <1>2, <1>3, <1>4, <1>6 DEF CountTypeOK
<1>13. /\ crossed \subseteq crossed' /\ (Crosses(p) => p \in crossed')
       /\ crossed' \subseteq PackageName
  BY <1>2, <1>3 DEF CountTypeOK
<1> QED
  BY <1>1, <1>2, <1>3, <1>4, <1>5, <1>6, <1>9, <1>10, <1>11, <1>12, <1>13

LEMMA CountTypeStep ==
    ASSUME CountTypeOK, FilesListed, [CountNext]_countVars
    PROVE  CountTypeOK'
<1>0. /\ today \in Day /\ inMem \in Stats /\ DOMAIN disk \subseteq PackageName
      /\ \A p \in DOMAIN disk : disk[p] \in PerDay
      /\ log \in Counts /\ chan \in Seq(PackageName) /\ totals \in Counts /\ counter \in Counter
      /\ ImportsOK
      /\ downloads \in Counts /\ lost \in Counts /\ imported \in [PackageName -> Int]
      /\ crossed \subseteq PackageName /\ mixed \in BOOLEAN /\ unlogged \subseteq PackageName
  BY DEF CountTypeOK
<1>1. ASSUME NEW p \in PackageName, download(p) PROVE CountTypeOK'
  <2>1. chan' \in Seq(PackageName) /\ downloads' \in Counts
    BY <1>0, <1>1 DEF download, Counts
  <2>2. ImportsOK'
    BY <1>0, <1>1, ImportsStay DEF download
  <2> QED
    BY <1>0, <1>1, <2>1, <2>2 DEF download, files, CountTypeOK
<1>2. CASE Midnight
  <2>1. today' \in Day
    BY <1>0, <1>2, BoundsHold DEF Midnight, Day
  <2>2. ImportsOK'
    BY <1>0, <1>2, ImportsStay DEF Midnight
  <2> QED
    BY <1>0, <1>2, <2>1, <2>2 DEF Midnight, files, history, CountTypeOK
<1>3. ASSUME NEW r \in ImportRequest, putDownloadCounts(r) PROVE CountTypeOK'
  <2>1. ImportsOK'
    BY <1>3, PutIs
  <2>2. mixed' \in BOOLEAN
    BY <1>3 DEF putDownloadCounts
  <2> QED
    BY <1>0, <1>3, <2>1, <2>2 DEF putDownloadCounts, files, CountTypeOK
<1>4. ASSUME NEW r \in ImportRequest, importFile(r) PROVE CountTypeOK'
  <2>1. PICK p \in PackageName :
          /\ importer[r].csv[p] \in PerDay /\ ImportsOK'
          /\ DOMAIN disk' = DOMAIN disk \cup {p} /\ disk'[p] = importer[r].csv[p]
          /\ \A q \in DOMAIN disk \ {p} : disk'[q] = disk[q]
          /\ imported' \in [PackageName -> Int] /\ crossed' \subseteq PackageName
    BY <1>4, ImportFileIs
  <2>2. DOMAIN disk' \subseteq PackageName /\ \A q \in DOMAIN disk' : disk'[q] \in PerDay
    BY <1>0, <2>1
  <2> QED
    BY <1>0, <1>4, <2>1, <2>2 DEF importFile, CountTypeOK
<1>5. ASSUME NEW r \in ImportRequest, importTotals(r) PROVE CountTypeOK'
  <2>1. /\ importer[r] # Idle /\ ImportsOK' /\ totals' = CsvTotals(importer[r].csv)
        /\ UNCHANGED <<today, inMem, files, chan, counter, history, faults>>
    BY <1>0, <1>5, TotalsGo
  <2>2. totals' \in Counts
    BY <1>0, <2>1, CsvType, ImportHas
  <2> QED
    BY <1>0, <2>1, <2>2 DEF files, history, CountTypeOK
<1>6. ASSUME NEW r \in ImportRequest, openLog(r) PROVE CountTypeOK'
  <2>1. /\ log' = None /\ ImportsOK'
        /\ UNCHANGED <<today, inMem, disk, chan, totals, counter, history, faults>>
    BY <1>0, <1>6, OpenGoes
  <2> QED
    BY <1>0, <2>1, BoundsHold DEF history, CountTypeOK
<1>7. ASSUME NEW r \in ImportRequest, reconstructLog(r) \/ importError(r) PROVE CountTypeOK'
  <2>1. /\ importer[r] # Idle /\ ImportsOK'
        /\ UNCHANGED <<today, inMem, disk, chan, totals, counter,
                       downloads, imported, lost, crossed, mixed>>
    BY <1>0, <1>7, ImportEnds
  <2>2. log' \in Counts
    <3>1. CsvTotals(importer[r].csv) \in Counts
      BY <1>0, <2>1, CsvType, ImportHas
    <3> QED
      BY <1>0, <1>7, <3>1 DEF reconstructLog, importError, files
  <2>3. unlogged' \subseteq PackageName
    <3>1. DOMAIN importer[r].csv \subseteq PackageName
      BY <1>0, <2>1, ImportHas
    <3> QED
      BY <1>0, <1>7, <3>1 DEF reconstructLog, importError
  <2> QED
    BY <1>0, <2>1, <2>2, <2>3 DEF CountTypeOK
<1>8. CASE Crash
  <2>1. lost' \in Counts
    BY <1>0, <1>8, HeldTypes DEF Crash, Counts
  <2>2. totals' \in Counts
    BY <1>8, FileTotalType DEF Crash, computeTotalDownloads, Counts
  <2>3. unlogged' \subseteq PackageName
    <3>1. ASSUME NEW r \in Importing PROVE Rewrites(r) \subseteq PackageName
      <4>1. DOMAIN importer[r].csv \subseteq PackageName
        BY <1>0, <3>1, ImportHas DEF Importing
      <4> QED
        BY <1>0, <4>1 DEF Rewrites
    <3> QED
      BY <1>0, <1>8, <3>1 DEF Crash
  <2>4. chan' \in Seq(PackageName) /\ counter' \in Counter
    BY <1>8, IdleIsCounter DEF Crash
  <2>5. ImportsOK'
    BY <1>8 DEF Crash, ImportsOK, ImportOK
  <2> QED
    BY <1>0, <1>8, <2>1, <2>2, <2>3, <2>4, <2>5 DEF Crash, files, CountTypeOK
<1>9. CASE Death
  <2>1. lost' \in Counts
    BY <1>0, <1>9, HeldTypes DEF Death, Counts
  <2>2. counter' \in Counter /\ ImportsOK'
    BY <1>0, <1>9, IdleIsCounter, ImportsStay DEF Death
  <2> QED
    BY <1>0, <1>9, <2>1, <2>2 DEF Death, files, CountTypeOK
<1>10. CASE UNCHANGED countVars
  <2>1. ImportsOK'
    BY <1>0, <1>10, ImportsStay DEF countVars
  <2> QED
    BY <1>0, <1>10, <2>1 DEF CountTypeOK, countVars, files, history
<1> QED
  BY <1>1, <1>2, <1>3, <1>4, <1>5, <1>6, <1>7, <1>8, <1>9, <1>10, ThreadTypes
  DEF CountNext, Die, logIsLocked

LEMMA FilesListedStep ==
    ASSUME CountTypeOK, FilesListed, [CountNext]_countVars
    PROVE  FilesListed'
<1>0. counter \in Counter
  BY DEF CountTypeOK
<1>1. CASE registerDownloads
  <2>1. CASE readChan \/ resetInMem \/ appendToLog \/ recompute \/ registerDownload
    <3>1. counter'.at \notin {"read", "write"}
      <4>1. CASE appendToLog
        <5>1. counter'.at = "list"
          BY <1>0, <4>1, CounterIs DEF appendToLog, Goto
        <5> QED
          BY <5>1
      <4>2. CASE readChan \/ resetInMem \/ recompute \/ registerDownload
        BY <4>2, IdleIsCounter DEF readChan, resetInMem, recompute, registerDownload, Goto
      <4> QED
        BY <2>1, <4>1, <4>2
    <3> QED
      BY <3>1 DEF FilesListed
  <2>2. CASE listFiles
    <3>1. counter'.at # "write" /\ counter'.listed = DOMAIN disk /\ disk' = disk
      BY <2>2 DEF listFiles, Goto, files
    <3> QED
      BY <3>1 DEF FilesListed
  <2>3. CASE readFile
    <3>1. PICK p \in counter.left :
            /\ counter'.listed = counter.listed /\ counter'.file = p
            /\ counter'.left = counter.left \ {p}
      BY <2>3 DEF readFile, Goto
    <3>2. disk' = disk /\ counter.at = "read"
      BY <2>3 DEF readFile, files
    <3> QED
      BY <3>1, <3>2 DEF FilesListed
  <2>4. CASE writeFile
    <3>1. /\ counter'.at # "write" /\ counter'.listed = counter.listed
          /\ DOMAIN disk \subseteq DOMAIN disk' /\ counter.at = "write"
      BY <2>4 DEF writeFile, Goto, WithFile
    <3> QED
      BY <3>1 DEF FilesListed
  <2> QED
    BY <1>1, <2>1, <2>2, <2>3, <2>4 DEF registerDownloads
<1>2. CASE counter' = counter /\ DOMAIN disk \subseteq DOMAIN disk'
  BY <1>2 DEF FilesListed
<1>3. ASSUME NEW r \in ImportRequest, importFile(r) PROVE FilesListed'
  <2>1. counter' = counter /\ DOMAIN disk \subseteq DOMAIN disk'
    BY <1>3 DEF importFile, WithFile
  <2> QED
    BY <1>2, <2>1
<1>4. CASE Crash \/ Death
  <2>1. counter'.at \notin {"read", "write"}
    BY <1>4, IdleIsCounter DEF Crash, Death
  <2> QED
    BY <2>1 DEF FilesListed
<1>5. ASSUME NEW p \in PackageName, download(p) PROVE FilesListed'
  BY <1>2, <1>5 DEF download, files
<1>6. CASE Midnight \/ UNCHANGED countVars
  BY <1>2, <1>6 DEF Midnight, countVars, files
<1>7. ASSUME NEW r \in ImportRequest,
             \/ putDownloadCounts(r) \/ importTotals(r) \/ openLog(r)
             \/ reconstructLog(r) \/ importError(r)
      PROVE  FilesListed'
  BY <1>2, <1>7 DEF putDownloadCounts, importTotals, openLog, reconstructLog, importError, files
<1> QED
  BY <1>1, <1>3, <1>4, <1>5, <1>6, <1>7 DEF CountNext, Die, logIsLocked

LEMMA CountTypeInit == CountInit => CountTypeOK /\ FilesListed
<1> SUFFICES ASSUME CountInit PROVE CountTypeOK /\ FilesListed
  OBVIOUS
<1>1. DOMAIN disk = {}
  BY DEF CountInit
<1>2. None \in [PackageName -> Int] /\ None \in Counts
  BY DEF None, Counts
<1>3. inMem \in Stats
  BY <1>2, BoundsHold DEF CountInit, Stats
<1>4. counter \in Counter /\ counter.at = "idle" /\ ImportsOK
  BY IdleIsCounter DEF CountInit, ImportsOK, ImportOK
<1>5. chan \in Seq(PackageName) /\ today \in Day
  BY BoundsHold DEF CountInit
<1> QED
  BY <1>1, <1>2, <1>3, <1>4, <1>5 DEF CountInit, CountTypeOK, FilesListed

(* Files, log, totals and what the thread and the import hold keep their   *)
(* types: no file is read that was not there.                              *)
THEOREM CountTypeCorrect == CountSpec => []CountTypeOK
<1>1. CountTypeOK /\ FilesListed /\ [CountNext]_countVars => (CountTypeOK /\ FilesListed)'
  BY CountTypeStep, FilesListedStep
<1> QED
  BY <1>1, CountTypeInit, PTL DEF CountSpec

-----------------------------------------------------------------------------
(* Nothing is counted twice.                                               *)

(* What will be written of a package is what its file holds and            *)
(* yesterday's count: the thread has read the file as it still is, or took *)
(* it for missing and it is.                                               *)
ReadTrue(p) ==
    /\ counter.at \in {"read", "write"} /\ p \in counter.left \ counter.listed =>
          p \notin DOMAIN disk
    /\ counter.at = "write" /\ p = counter.file =>
          cmTotal(counter.perPkg) = FileTotal(p) + counter.stats.counts[p]

(* An import and a change of day are under way.                            *)
Met == Importing # {} /\ counter.at \in Rollover

LEMMA ReadFileIs ==
    ASSUME CountTypeOK, FilesListed, readFile
    PROVE  \E p \in counter.left :
              /\ counter'.at = "write" /\ counter'.file = p /\ counter'.left = counter.left \ {p}
              /\ counter'.pkg = counter.pkg
              /\ counter'.listed = counter.listed /\ counter'.stats = counter.stats
              /\ counter.at = "read" /\ disk' = disk
              /\ ReadTrue(p) => cmTotal(counter'.perPkg) = FileTotal(p) + counter.stats.counts[p]
<1>1. PICK p \in counter.left :
          Goto([at |-> "write", pkg |-> counter.pkg, day |-> counter.day,
                stats |-> counter.stats, listed |-> counter.listed,
                left |-> counter.left \ {p}, file |-> p,
                perPkg |-> updateHistory(counter.stats, p, IF p \in counter.listed THEN disk[p] ELSE cmEmpty)])
  BY DEF readFile
<1>2. PICK old : old = IF p \in counter.listed THEN disk[p] ELSE cmEmpty
  OBVIOUS
<1>3. /\ counter'.at = "write" /\ counter'.file = p /\ counter'.left = counter.left \ {p}
      /\ counter'.pkg = counter.pkg
      /\ counter'.listed = counter.listed /\ counter'.stats = counter.stats
      /\ counter'.perPkg = updateHistory(counter.stats, p, old)
  BY <1>1, <1>2 DEF Goto
<1>4. counter.at = "read" /\ disk' = disk
  BY DEF readFile, files
<1>5. counter.stats \in Stats /\ counter.left \subseteq PackageName
  BY <1>4, CounterIs DEF CountTypeOK, Rollover
<1>6. old \in PerDay
  BY <1>2, <1>4 DEF FilesListed, CountTypeOK, cmEmpty, PerDay
<1>7. cmTotal(counter'.perPkg) = cmTotal(old) + counter.stats.counts[p]
  BY <1>3, <1>5, <1>6, TotalInsert, BoundsHold DEF updateHistory, Stats, Counts
<1>8. ASSUME ReadTrue(p) PROVE cmTotal(old) = FileTotal(p)
  <2>1. CASE p \in counter.listed
    BY <1>2, <1>4, <2>1 DEF FilesListed, FileTotal
  <2>2. CASE p \notin counter.listed
    <3>1. p \notin DOMAIN disk
      BY <1>4, <1>8, <2>2 DEF ReadTrue
    <3> QED
      BY <1>2, <2>2, <3>1, TotalEmpty, BoundsHold DEF FileTotal
  <2> QED
    BY <2>1, <2>2
<1> QED
  BY <1>3, <1>4, <1>7, <1>8

LEMMA WriteFileIs ==
    ASSUME CountTypeOK, FilesListed, writeFile
    PROVE  \E f \in PackageName :
              /\ f = counter.file /\ counter.at = "write" /\ f \notin counter.left
              /\ counter'.at = IF counter.left = {} THEN "recompute" ELSE "read"
              /\ counter'.left = counter.left /\ counter'.pkg = counter.pkg
              /\ counter'.listed = counter.listed /\ counter'.stats = counter.stats
              /\ DOMAIN disk' = DOMAIN disk \cup {f}
              /\ FileTotal(f)' = cmTotal(counter.perPkg)
              /\ \A q : q # f => FileTotal(q)' = FileTotal(q)
<1>1. /\ counter.at = "write"
      /\ counter'.at = IF counter.left = {} THEN "recompute" ELSE "read"
      /\ counter'.left = counter.left /\ counter'.pkg = counter.pkg
      /\ counter'.listed = counter.listed /\ counter'.stats = counter.stats
  BY DEF writeFile, Goto
<1>2. PICK f, g : f = counter.file /\ g = counter.perPkg
  OBVIOUS
<1>3. f \in PackageName /\ g \in PerDay
  BY <1>1, <1>2, CounterIs DEF CountTypeOK
<1>4. disk' = WithFile(f, g)
  BY <1>2 DEF writeFile
<1>5. f \notin counter.left
  BY <1>1, <1>2 DEF FilesListed
<1> QED
  BY <1>1, <1>2, <1>3, <1>4, <1>5, FileWritten

LEMMA ReadTrueStep ==
    ASSUME CountTypeOK, FilesListed, [CountNext]_countVars, NEW p \in PackageName,
           ReadTrue(p), p \notin crossed' \/ ~ Met
    PROVE  ReadTrue(p)'
<1>0. counter \in Counter
  BY DEF CountTypeOK
<1>1. CASE counter'.at \notin {"read", "write"}
  BY <1>1 DEF ReadTrue
<1>2. CASE counter' = counter /\ disk' = disk
  BY <1>2, FilesUnchanged DEF ReadTrue
<1>3. CASE listFiles
  <2>1. counter'.at # "write" /\ counter'.listed = DOMAIN disk /\ disk' = disk
    BY <1>3 DEF listFiles, Goto, files
  <2> QED
    BY <2>1 DEF ReadTrue
<1>4. CASE readFile
  <2>1. PICK q \in counter.left :
          /\ counter'.at = "write" /\ counter'.file = q /\ counter'.left = counter.left \ {q}
          /\ counter'.listed = counter.listed /\ counter'.stats = counter.stats
          /\ counter.at = "read" /\ disk' = disk
          /\ ReadTrue(q) => cmTotal(counter'.perPkg) = FileTotal(q) + counter.stats.counts[q]
    BY <1>4, ReadFileIs
  <2>2. FileTotal(p)' = FileTotal(p)
    BY <2>1, FilesUnchanged
  <2>3. ASSUME p = counter'.file
        PROVE  cmTotal(counter'.perPkg) = FileTotal(p)' + counter'.stats.counts[p]
    BY <2>1, <2>2, <2>3
  <2>4. ASSUME p \in counter'.left \ counter'.listed PROVE p \notin DOMAIN disk'
    BY <2>1, <2>4 DEF ReadTrue
  <2>5. cmTotal(counter.perPkg)' = cmTotal(counter'.perPkg)
    BY DEF cmTotal
  <2> QED
    BY <2>3, <2>4, <2>5 DEF ReadTrue
<1>5. CASE writeFile
  <2>1. PICK f \in PackageName :
          /\ f = counter.file /\ counter.at = "write" /\ f \notin counter.left
          /\ counter'.at = IF counter.left = {} THEN "recompute" ELSE "read"
          /\ counter'.left = counter.left
          /\ counter'.listed = counter.listed
          /\ DOMAIN disk' = DOMAIN disk \cup {f}
    BY <1>5, WriteFileIs
  <2> QED
    BY <2>1 DEF ReadTrue
<1>6. ASSUME NEW r \in ImportRequest, importFile(r) PROVE ReadTrue(p)'
  <2>1. PICK q \in PackageName :
          /\ importer[r] # Idle
          /\ DOMAIN disk' = DOMAIN disk \cup {q}
          /\ \A x : x # q => FileTotal(x)' = FileTotal(x)
          /\ Crosses(q) => q \in crossed'
    BY <1>6, ImportFileIs
  <2>2. counter' = counter
    BY <1>6 DEF importFile
  <2>3. CASE p # q
    BY <2>1, <2>2, <2>3 DEF ReadTrue
  <2>4. CASE p = q
    <3>1. ~ Crosses(p)
      <4>1. Crosses(p) => counter.at \in Rollover
        BY DEF Crosses, Rollover
      <4> QED
        BY <2>1, <2>4, <4>1 DEF Met, Importing
    <3> QED
      BY <2>2, <3>1 DEF ReadTrue, Crosses
  <2> QED
    BY <2>3, <2>4
<1>7. CASE readChan \/ resetInMem \/ appendToLog \/ recompute \/ registerDownload
  <2>1. CASE appendToLog
    <3>1. counter'.at = "list"
      BY <1>0, <2>1, CounterIs DEF appendToLog, Goto
    <3> QED
      BY <1>1, <3>1
  <2>2. CASE readChan \/ resetInMem \/ recompute \/ registerDownload
    BY <1>1, <2>2, IdleIsCounter DEF readChan, resetInMem, recompute, registerDownload, Goto
  <2> QED
    BY <1>7, <2>1, <2>2
<1>8. CASE Crash \/ Death
  BY <1>1, <1>8, IdleIsCounter DEF Crash, Death
<1>9. ASSUME NEW q \in PackageName, download(q) PROVE ReadTrue(p)'
  BY <1>2, <1>9 DEF download, files
<1>10. CASE Midnight \/ UNCHANGED countVars
  BY <1>2, <1>10 DEF Midnight, countVars, files
<1>11. ASSUME NEW r \in ImportRequest,
              \/ putDownloadCounts(r) \/ importTotals(r) \/ openLog(r)
              \/ reconstructLog(r) \/ importError(r)
       PROVE  ReadTrue(p)'
  BY <1>2, <1>11 DEF putDownloadCounts, importTotals, openLog, reconstructLog, importError, files
<1> QED
  BY <1>3, <1>4, <1>5, <1>6, <1>7, <1>8, <1>9, <1>10, <1>11
  DEF CountNext, registerDownloads, Die, logIsLocked

Conserved(p) ==
    inMem.counts[p] + FileTotal(p) + Queued(p) + InHand(p) + Unwritten(p) + lost[p]
        = downloads[p] + imported[p]

LEMMA NothingMoves ==
    ASSUME NEW p, UNCHANGED <<inMem, disk, chan, counter, lost, downloads, imported>>, Conserved(p)
    PROVE  Conserved(p)'
<1>1. FileTotal(p)' = FileTotal(p)
  BY FilesUnchanged
<1>2. Queued(p)' = Queued(p) /\ InHand(p)' = InHand(p) /\ Unwritten(p)' = Unwritten(p)
  BY DEF Queued, InHand, Unwritten
<1> QED
  BY <1>1, <1>2 DEF Conserved

LEMMA AmountTypes ==
    ASSUME CountTypeOK, NEW p \in PackageName
    PROVE  /\ inMem.counts[p] \in Nat /\ FileTotal(p) \in Nat /\ Queued(p) \in Nat
           /\ InHand(p) \in Nat /\ Unwritten(p) \in Nat /\ lost[p] \in Nat
           /\ downloads[p] \in Nat /\ imported[p] \in Int
           /\ counter.at \in Rollover => counter.stats.counts[p] \in Nat
<1>1. counter.at \in Rollover => counter.stats.counts[p] \in Nat
  BY CounterIs DEF CountTypeOK, Stats, Counts
<1> QED
  BY <1>1, HeldTypes, FileTotalType DEF CountTypeOK, Stats, Counts

(* The thread passes on what it takes, and keeps nothing behind.           *)
LEMMA ThreadConserves ==
    ASSUME CountTypeOK, FilesListed, registerDownloads, NEW p \in PackageName,
           ReadTrue(p), Conserved(p)
    PROVE  Conserved(p)'
<1>0. counter \in Counter /\ UNCHANGED <<lost, downloads, imported>>
  BY DEF CountTypeOK, registerDownloads, readChan, resetInMem, appendToLog, listFiles,
         readFile, writeFile, recompute, registerDownload
<1>1. PICK m, f, q, h, u : /\ m = inMem.counts[p] /\ f = FileTotal(p) /\ q = Queued(p)
                           /\ h = InHand(p) /\ u = Unwritten(p)
  OBVIOUS
<1>2. /\ m \in Nat /\ f \in Nat /\ q \in Nat /\ h \in Nat /\ u \in Nat
      /\ lost[p] \in Nat /\ downloads[p] \in Nat /\ imported[p] \in Int
      /\ m + f + q + h + u + lost[p] = downloads[p] + imported[p]
  BY <1>1, AmountTypes DEF Conserved
<1>3. SUFFICES inMem'.counts[p] + FileTotal(p)' + Queued(p)' + InHand(p)' + Unwritten(p)'
                   = m + f + q + h + u
  BY <1>0, <1>2 DEF Conserved
<1>4. chan' = chan => Queued(p)' = q
  BY <1>1 DEF Queued
<1>5. disk' = disk => FileTotal(p)' = f
  BY <1>1, FilesUnchanged
<1>6. CASE readChan
  <2>1. /\ counter.at = "idle" /\ inMem' = inMem /\ disk' = disk
        /\ chan # << >> /\ chan' = Tail(chan) /\ chan \in Seq(PackageName)
        /\ counter'.at \in {"register", "reset"} /\ counter'.pkg = Head(chan)
    BY <1>6 DEF readChan, Goto, Idle, files, CountTypeOK
  <2>2. h = 0 /\ u = 0 /\ Unwritten(p)' = 0
    BY <1>1, <2>1, HeldIs, HeldNext
  <2>3. InHand(p)' = IF Head(chan) = p THEN 1 ELSE 0
    BY <2>1, HeldNext
  <2>4. PICK c, n : c = Tail(chan) /\ n = Cardinality(Places(c, p))
    OBVIOUS
  <2>5. Queued(p)' = n /\ n \in Nat
    <3>1. c \in Seq(PackageName) /\ chan' = c
      BY <2>1, <2>4
    <3>2. Queued(p)' = Cardinality(Places(c, p))
      BY <3>1, QueuedNext
    <3> QED
      BY <2>4, <3>1, <3>2, PlacesAreFinite
  <2>6. q = n + (IF Head(chan) = p THEN 1 ELSE 0)
    BY <1>1, <2>1, <2>4, QueuedIs, PlacesTail
  <2>7. inMem'.counts[p] = m /\ FileTotal(p)' = f
    BY <1>1, <1>5, <2>1
  <2> QED
    BY <1>2, <2>2, <2>3, <2>5, <2>6, <2>7
<1>7. CASE resetInMem
  <2>1. /\ counter.at = "reset" /\ disk' = disk /\ chan' = chan
        /\ inMem'.counts = None
        /\ counter'.at = "append" /\ counter'.pkg = counter.pkg /\ counter'.stats = inMem
    BY <1>7 DEF resetInMem, Goto, files
  <2>2. u = 0 /\ Unwritten(p)' = m /\ InHand(p)' = h /\ inMem'.counts[p] = 0
    BY <1>1, <2>1, HeldIs, HeldNext DEF None
  <2> QED
    BY <1>2, <1>4, <1>5, <2>1, <2>2
<1>8. CASE appendToLog
  <2>1. counter \in [at : {"append", "list"}, pkg : PackageName, day : Day, stats : Stats]
    BY <1>0, <1>8, CounterIs DEF appendToLog
  <2>2. /\ counter.at = "append" /\ disk' = disk /\ chan' = chan /\ inMem' = inMem
        /\ counter'.at = "list" /\ counter'.pkg = counter.pkg /\ counter'.stats = counter.stats
    BY <1>8, <2>1 DEF appendToLog, Goto
  <2>3. Unwritten(p)' = u /\ InHand(p)' = h
    BY <1>1, <2>2, HeldIs, HeldNext
  <2> QED
    BY <1>1, <1>2, <1>4, <1>5, <2>2, <2>3
<1>9. CASE listFiles
  <2>1. PICK left : left = DOMAIN disk \cup {x \in PackageName : counter.stats.counts[x] > 0}
    OBVIOUS
  <2>2. /\ counter.at = "list" /\ disk' = disk /\ chan' = chan /\ inMem' = inMem
        /\ counter'.at = IF left = {} THEN "recompute" ELSE "read"
        /\ counter'.pkg = counter.pkg /\ counter'.stats = counter.stats /\ counter'.left = left
    BY <1>9, <2>1 DEF listFiles, Goto, files
  <2>3. counter.stats.counts[p] \in Nat
    BY <2>2, AmountTypes DEF Rollover
  <2>4. p \notin left => counter.stats.counts[p] = 0
    BY <2>1, <2>3
  <2>5. Unwritten(p)' = u /\ InHand(p)' = h
    BY <1>1, <2>2, <2>4, HeldIs, HeldNext
  <2> QED
    BY <1>1, <1>2, <1>4, <1>5, <2>2, <2>5
<1>10. CASE readFile
  <2>1. PICK r \in counter.left :
          /\ counter'.at = "write" /\ counter'.file = r /\ counter'.left = counter.left \ {r}
          /\ counter'.pkg = counter.pkg
          /\ counter'.stats = counter.stats
          /\ counter.at = "read" /\ disk' = disk
    BY <1>10, ReadFileIs
  <2>2. Unwritten(p)' = u /\ InHand(p)' = h
    BY <1>1, <2>1, HeldIs, HeldNext
  <2>3. chan' = chan /\ inMem' = inMem
    BY <1>10 DEF readFile
  <2> QED
    BY <1>1, <1>2, <1>4, <1>5, <2>1, <2>2, <2>3
<1>11. CASE writeFile
  <2>1. PICK r \in PackageName :
          /\ r = counter.file /\ counter.at = "write" /\ r \notin counter.left
          /\ counter'.at = IF counter.left = {} THEN "recompute" ELSE "read"
          /\ counter'.left = counter.left /\ counter'.pkg = counter.pkg
          /\ counter'.stats = counter.stats
          /\ FileTotal(r)' = cmTotal(counter.perPkg)
          /\ \A x : x # r => FileTotal(x)' = FileTotal(x)
    BY <1>11, WriteFileIs
  <2>2. chan' = chan /\ inMem' = inMem
    BY <1>11 DEF writeFile
  <2>3. InHand(p)' = h
    BY <1>1, <2>1, HeldIs, HeldNext
  <2>4. counter.stats.counts[p] \in Nat
    BY <2>1, AmountTypes DEF Rollover
  <2>5. CASE p = r
    <3>1. FileTotal(p)' = f + counter.stats.counts[p]
      BY <1>1, <2>1, <2>5 DEF ReadTrue
    <3>2. u = counter.stats.counts[p] /\ Unwritten(p)' = 0
      BY <1>1, <2>1, <2>5, HeldIs, HeldNext
    <3> QED
      BY <1>1, <1>2, <1>4, <2>2, <2>3, <2>4, <3>1, <3>2
  <2>6. CASE p # r
    <3>1. FileTotal(p)' = f
      BY <1>1, <2>1, <2>6
    <3>2. Unwritten(p)' = u
      BY <1>1, <2>1, <2>6, HeldIs, HeldNext
    <3> QED
      BY <1>1, <1>2, <1>4, <2>2, <2>3, <3>1, <3>2
  <2> QED
    BY <2>5, <2>6
<1>12. CASE recompute
  <2>1. /\ counter.at = "recompute" /\ disk' = disk /\ chan' = chan /\ inMem' = inMem
        /\ counter'.at = "register" /\ counter'.pkg = counter.pkg
    BY <1>12 DEF recompute, Goto, files
  <2>2. u = 0 /\ Unwritten(p)' = 0 /\ InHand(p)' = h
    BY <1>1, <2>1, HeldIs, HeldNext
  <2> QED
    BY <1>1, <1>2, <1>4, <1>5, <2>1, <2>2
<1>13. CASE registerDownload
  <2>1. /\ counter.at = "register" /\ disk' = disk /\ chan' = chan /\ counter' = Idle
        /\ inMem' = [inMem EXCEPT !.counts[counter.pkg] = @ + 1]
    BY <1>13 DEF registerDownload, Goto, files
  <2>2. inMem'.counts[p] = m + (IF counter.pkg = p THEN 1 ELSE 0)
    BY <1>1, <1>2, <2>1 DEF CountTypeOK, Stats, Counts
  <2>3. /\ h = IF counter.pkg = p THEN 1 ELSE 0
        /\ InHand(p)' = 0 /\ Unwritten(p)' = 0 /\ u = 0
    BY <1>1, <2>1, HeldIs, HeldNext, IdleIsCounter
  <2> QED
    BY <1>2, <1>4, <1>5, <2>1, <2>2, <2>3
<1> QED
  BY <1>6, <1>7, <1>8, <1>9, <1>10, <1>11, <1>12, <1>13 DEF registerDownloads

LEMMA ConservedStep ==
    ASSUME CountTypeOK, FilesListed, [CountNext]_countVars, NEW p \in PackageName,
           ReadTrue(p), Conserved(p), p \notin crossed'
    PROVE  Conserved(p)'
<1>1. CASE registerDownloads
  BY <1>1, ThreadConserves
<1>2. ASSUME NEW x \in PackageName, download(x) PROVE Conserved(p)'
  <2>1. /\ chan' = Append(chan, x) /\ chan \in Seq(PackageName)
        /\ downloads' = [downloads EXCEPT ![x] = @ + 1]
        /\ UNCHANGED <<inMem, disk, counter, lost, imported>>
    BY <1>2 DEF download, files, CountTypeOK
  <2>2. /\ FileTotal(p)' = FileTotal(p) /\ InHand(p)' = InHand(p) /\ Unwritten(p)' = Unwritten(p)
    BY <2>1, FilesUnchanged DEF InHand, Unwritten
  <2>3. Queued(p)' = Queued(p) + (IF x = p THEN 1 ELSE 0)
    <3>1. PICK c : c = Append(chan, x)
      OBVIOUS
    <3>2. Queued(p)' = Cardinality(Places(c, p))
      BY <2>1, <3>1, QueuedNext
    <3> QED
      BY <2>1, <3>1, <3>2, QueuedIs, PlacesAppend
  <2>4. downloads'[p] = downloads[p] + (IF x = p THEN 1 ELSE 0)
    BY <2>1, AmountTypes DEF CountTypeOK, Counts
  <2>5. inMem'.counts[p] = inMem.counts[p] /\ lost'[p] = lost[p] /\ imported'[p] = imported[p]
    BY <2>1
  <2> QED
    BY <2>2, <2>3, <2>4, <2>5, AmountTypes DEF Conserved
<1>3. ASSUME NEW r \in ImportRequest, importFile(r) PROVE Conserved(p)'
  <2>1. PICK x \in PackageName :
          /\ FileTotal(x)' \in Nat
          /\ \A y : y # x => FileTotal(y)' = FileTotal(y)
          /\ \A y \in PackageName \ {x} : imported'[y] = imported[y]
          /\ imported'[x] = imported[x] + FileTotal(x)' - FileTotal(x)
    BY <1>3, ImportFileIs
  <2>2. UNCHANGED <<inMem, chan, counter, lost, downloads>>
    BY <1>3 DEF importFile
  <2>3. Queued(p)' = Queued(p) /\ InHand(p)' = InHand(p) /\ Unwritten(p)' = Unwritten(p)
    BY <2>2 DEF Queued, InHand, Unwritten
  <2>4. /\ inMem'.counts[p] = inMem.counts[p] /\ lost'[p] = lost[p]
        /\ downloads'[p] = downloads[p]
    BY <2>2
  <2>5. /\ FileTotal(p)' \in Nat
        /\ imported'[p] = imported[p] + FileTotal(p)' - FileTotal(p)
    <3>1. CASE x = p
      BY <2>1, <3>1
    <3>2. CASE x # p
      BY <2>1, <3>2, AmountTypes
    <3> QED
      BY <3>1, <3>2
  <2>6. PICK m, f, g, q, h, u, i : /\ m = inMem.counts[p] /\ f = FileTotal(p) /\ q = Queued(p)
                                   /\ h = InHand(p) /\ u = Unwritten(p)
                                   /\ g = FileTotal(p)' /\ i = imported'[p]
    OBVIOUS
  <2>7. m + f + q + h + u + lost[p] = downloads[p] + imported[p]
    BY <2>6 DEF Conserved
  <2>8. /\ m \in Nat /\ f \in Nat /\ g \in Nat /\ q \in Nat /\ h \in Nat /\ u \in Nat
        /\ lost[p] \in Nat /\ downloads[p] \in Nat /\ imported[p] \in Int
        /\ i = imported[p] + g - f
    BY <2>5, <2>6, AmountTypes
  <2>9. m + g + q + h + u + lost[p] = downloads[p] + i
    BY <2>7, <2>8
  <2> QED
    BY <2>3, <2>4, <2>6, <2>9 DEF Conserved
<1>4. CASE Crash
  <2>1. /\ chan' = << >> /\ counter' = Idle /\ UNCHANGED <<inMem, disk, downloads, imported>>
        /\ lost'[p] = lost[p] + Queued(p) + InHand(p) + Unwritten(p)
    BY <1>4 DEF Crash, files
  <2>2. FileTotal(p)' = FileTotal(p) /\ InHand(p)' = 0 /\ Unwritten(p)' = 0
    BY <2>1, FilesUnchanged, HeldNext, IdleIsCounter
  <2>3. Queued(p)' = 0
    <3>1. PICK c : c = << >>
      OBVIOUS
    <3> QED
      BY <2>1, <3>1, QueuedNext, NoneQueued
  <2>4. PICK m, f, q, h, u : /\ m = inMem.counts[p] /\ f = FileTotal(p) /\ q = Queued(p)
                             /\ h = InHand(p) /\ u = Unwritten(p)
    OBVIOUS
  <2>5. /\ m \in Nat /\ f \in Nat /\ q \in Nat /\ h \in Nat /\ u \in Nat /\ lost[p] \in Nat
        /\ m + f + q + h + u + lost[p] = downloads[p] + imported[p]
    BY <2>4, AmountTypes DEF Conserved
  <2>6. /\ inMem'.counts[p] = m /\ FileTotal(p)' = f /\ lost'[p] = lost[p] + q + h + u
        /\ downloads'[p] = downloads[p] /\ imported'[p] = imported[p]
    BY <2>1, <2>2, <2>4
  <2>7. m + f + 0 + 0 + 0 + (lost[p] + q + h + u) = downloads[p] + imported[p]
    BY <2>5
  <2> QED
    BY <2>2, <2>3, <2>6, <2>7 DEF Conserved
<1>5. CASE Death
  <2>1. /\ counter' = Dead /\ UNCHANGED <<inMem, disk, chan, downloads, imported>>
        /\ lost'[p] = lost[p] + InHand(p) + Unwritten(p)
    BY <1>5 DEF Death, files
  <2>2. /\ FileTotal(p)' = FileTotal(p) /\ InHand(p)' = 0 /\ Unwritten(p)' = 0
        /\ Queued(p)' = Queued(p)
    BY <2>1, FilesUnchanged, HeldNext, IdleIsCounter DEF Queued
  <2> QED
    BY <2>1, <2>2, AmountTypes DEF Conserved
<1>6. CASE Midnight \/ UNCHANGED countVars
  BY <1>6, NothingMoves DEF Midnight, countVars, files, history
<1>7. ASSUME NEW r \in ImportRequest,
             \/ putDownloadCounts(r) \/ importTotals(r) \/ openLog(r)
             \/ reconstructLog(r) \/ importError(r)
      PROVE  Conserved(p)'
  BY <1>7, NothingMoves
  DEF putDownloadCounts, importTotals, openLog, reconstructLog, importError, files, history
<1> QED
  BY <1>1, <1>2, <1>3, <1>4, <1>5, <1>6, <1>7 DEF CountNext, Die, logIsLocked

CountsInv ==
    /\ CountTypeOK
    /\ FilesListed
    /\ \A p \in PackageName \ crossed : ReadTrue(p) /\ Conserved(p)

(* However days, downloads, imports, crashes and the death of the thread   *)
(* come together, a download is in one place, or was lost from memory.     *)
THEOREM DownloadsAreConserved == CountSpec => []CountsConserved
<1>1. CountInit => CountsInv
  <2> SUFFICES ASSUME CountInit PROVE CountsInv
    OBVIOUS
  <2>1. CountTypeOK /\ FilesListed
    BY CountTypeInit
  <2>2. ASSUME NEW p \in PackageName PROVE ReadTrue(p) /\ Conserved(p)
    <3>1. counter = Idle /\ counter.at = "idle" /\ chan = << >> /\ DOMAIN disk = {}
      BY IdleIsCounter DEF CountInit
    <3>2. FileTotal(p) = 0 /\ InHand(p) = 0 /\ Unwritten(p) = 0 /\ Queued(p) = 0
      BY <3>1, HeldIs, QueuedIs, NoneQueued DEF FileTotal
    <3>3. inMem.counts[p] = 0 /\ lost[p] = 0 /\ downloads[p] = 0 /\ imported[p] = 0
      BY DEF CountInit, None
    <3> QED
      BY <3>1, <3>2, <3>3 DEF ReadTrue, Conserved
  <2> QED
    BY <2>1, <2>2 DEF CountsInv
<1>2. CountsInv /\ [CountNext]_countVars => CountsInv'
  <2> SUFFICES ASSUME CountsInv, [CountNext]_countVars PROVE CountsInv'
    OBVIOUS
  <2>1. crossed \subseteq crossed'
    <3>1. ASSUME NEW r \in ImportRequest, importFile(r) PROVE crossed \subseteq crossed'
      BY <3>1 DEF importFile
    <3>2. CASE \A r \in ImportRequest : ~ importFile(r)
      BY <3>2 DEF CountNext, countVars, history, registerDownloads, download, Midnight, readChan,
          resetInMem, appendToLog, listFiles, readFile, writeFile, recompute, registerDownload,
          putDownloadCounts, importTotals, openLog, reconstructLog, importError, Crash,
          Die, logIsLocked, Death
    <3> QED
      BY <3>1, <3>2
  <2>2. ASSUME NEW p \in PackageName \ crossed' PROVE ReadTrue(p)' /\ Conserved(p)'
    BY <2>1, <2>2, ReadTrueStep, ConservedStep DEF CountsInv
  <2> QED
    BY <2>2, CountTypeStep, FilesListedStep DEF CountsInv
<1>3. CountsInv => CountsConserved
  BY DEF CountsInv, CountsConserved, Conserved
<1> QED
  BY <1>1, <1>2, <1>3, PTL DEF CountSpec

-----------------------------------------------------------------------------
(* The log covers the files.                                               *)

(* As long as nothing is mixed, one import is at work; the files it has    *)
(* written hold what it says, and then the totals do.                      *)
Single == \A q, r \in Importing : q = r

ImportDone ==
    \A r \in Importing :
        /\ \A p \in DOMAIN importer[r].csv \ importer[r].left :
              p \in DOMAIN disk /\ disk[p] = importer[r].csv[p]
        /\ importer[r].at \in {"log", "write"} =>
              importer[r].left = {} /\ totals = CsvTotals(importer[r].csv)

(* Once logged, yesterday's counts are in the log and on their way to the  *)
(* files.                                                                  *)
OnTheWay(p) == IF counter.at \in {"list", "read", "write"} THEN Unwritten(p) ELSE 0

Excused(p) == p \in unlogged \/ \E r \in Importing : p \in Rewrites(r)
Replaced   == \E r \in Importing : importer[r].at \in {"log", "write"}

Covered(p) ==
    \/ Excused(p)
    \/ /\ FileTotal(p) + OnTheWay(p) <= log[p]
       /\ counter.at \in Rollover \cup {"dead"} \/ Replaced \/ totals[p] = FileTotal(p)

LEMMA ThreadGoes ==
    ASSUME registerDownloads, ~ mixed'
    PROVE  ~ mixed /\ importer' = importer /\ ~ Met'
<1>1. importer' = importer
  BY DEF registerDownloads, readChan, resetInMem, appendToLog, listFiles, readFile,
         writeFile, recompute, registerDownload
<1>2. ASSUME NEW c, Goto(c) PROVE ~ mixed /\ ~ Met'
  <2>1. counter' = c /\ ~ mixed /\ ~ (c.at \in Rollover /\ Importing # {})
    BY <1>2, Zenon DEF Goto
  <2> QED
    BY <1>1, <2>1 DEF Met, Importing
<1>3. CASE readChan
  BY <1>1, <1>2, <1>3 DEF readChan
<1>4. CASE resetInMem
  BY <1>1, <1>2, <1>4 DEF resetInMem
<1>5. CASE appendToLog
  BY <1>1, <1>2, <1>5 DEF appendToLog
<1>6. CASE listFiles
  BY <1>1, <1>2, <1>6 DEF listFiles
<1>7. CASE readFile
  BY <1>1, <1>2, <1>7 DEF readFile
<1>8. CASE writeFile
  BY <1>1, <1>2, <1>8 DEF writeFile
<1>9. CASE recompute
  BY <1>1, <1>2, <1>9 DEF recompute
<1>10. CASE registerDownload
  BY <1>1, <1>2, <1>10 DEF registerDownload
<1> QED
  BY <1>3, <1>4, <1>5, <1>6, <1>7, <1>8, <1>9, <1>10 DEF registerDownloads

LEMMA MixedStays ==
    ASSUME CountTypeOK, [CountNext]_countVars, mixed
    PROVE  mixed'
<1>0. ImportsOK
  BY DEF CountTypeOK
<1>1. CASE registerDownloads
  BY <1>1, ThreadGoes
<1>2. ASSUME NEW r \in ImportRequest, putDownloadCounts(r) PROVE mixed'
  BY <1>2, Zenon DEF putDownloadCounts
<1>3. ASSUME NEW p \in PackageName, download(p) PROVE mixed' = mixed
  BY <1>3 DEF download
<1>4. ASSUME NEW r \in ImportRequest, importFile(r) \/ importTotals(r) \/ openLog(r) PROVE mixed' = mixed
  BY <1>4 DEF importFile, importTotals, openLog, history
<1>5. ASSUME NEW r \in ImportRequest, reconstructLog(r) \/ importError(r) PROVE mixed' = mixed
  BY <1>0, <1>5, ImportEnds
<1>6. CASE Midnight \/ Crash \/ Death \/ UNCHANGED countVars
  BY <1>6 DEF Midnight, Crash, Death, countVars, history
<1> QED
  BY <1>1, <1>2, <1>3, <1>4, <1>5, <1>6 DEF CountNext, Die, logIsLocked

(* An import that starts alone is alone; the others go on or end.          *)
LEMMA MetStep ==
    ASSUME CountTypeOK, [CountNext]_countVars, ~ mixed', ~ Met, Single
    PROVE  ~ Met' /\ Single'
<1>0. ImportsOK
  BY DEF CountTypeOK
<1>1. CASE registerDownloads
  <2>1. ~ Met' /\ importer' = importer
    BY <1>1, ThreadGoes
  <2> QED
    BY <2>1 DEF Single, Importing
<1>2. ASSUME NEW r \in ImportRequest, putDownloadCounts(r) PROVE ~ Met' /\ Single'
  <2>1. counter' = counter /\ counter.at \notin Rollover /\ Importing = {}
    BY <1>2, Zenon DEF putDownloadCounts
  <2>2. \A q \in ImportRequest \ {r} : importer'[q] = importer[q]
    BY <1>2, PutIs
  <2>3. Importing' \subseteq {r}
    BY <2>1, <2>2 DEF Importing
  <2> QED
    BY <2>1, <2>3 DEF Met, Single
<1>3. CASE counter' = counter /\ Importing' \subseteq Importing
  BY <1>3 DEF Met, Single
<1>4. ASSUME NEW r \in ImportRequest, importFile(r) \/ importTotals(r) \/ openLog(r)
      PROVE  counter' = counter /\ Importing' \subseteq Importing
  <2>1. importer[r] # Idle /\ \A q \in ImportRequest \ {r} : importer'[q] = importer[q]
    BY <1>0, <1>4, ImportFileIs, TotalsGo, OpenGoes
  <2>2. counter' = counter
    BY <1>4 DEF importFile, importTotals, openLog
  <2> QED
    BY <2>1, <2>2 DEF Importing
<1>5. ASSUME NEW r \in ImportRequest, reconstructLog(r) \/ importError(r)
      PROVE  counter' = counter /\ Importing' \subseteq Importing
  <2>1. /\ importer[r] # Idle /\ counter' = counter
        /\ \A q \in ImportRequest \ {r} : importer'[q] = importer[q]
    BY <1>0, <1>5, ImportEnds
  <2> QED
    BY <2>1 DEF Importing
<1>6. CASE Crash
  <2>1. Importing' = {}
    BY <1>6 DEF Crash, Importing
  <2> QED
    BY <2>1 DEF Met, Single
<1>7. CASE Death
  <2>1. counter'.at \notin Rollover /\ importer' = importer
    BY <1>7, IdleIsCounter DEF Death, Rollover
  <2> QED
    BY <2>1 DEF Met, Single, Importing
<1>8. ASSUME NEW p \in PackageName, download(p) PROVE counter' = counter /\ Importing' \subseteq Importing
  BY <1>8 DEF download, Importing
<1>9. CASE Midnight \/ UNCHANGED countVars
  <2>1. counter' = counter /\ importer' = importer
    BY <1>9 DEF Midnight, countVars
  <2> QED
    BY <1>3, <2>1 DEF Importing
<1> QED
  BY <1>1, <1>2, <1>3, <1>4, <1>5, <1>6, <1>7, <1>8, <1>9 DEF CountNext, Die, logIsLocked

LEMMA ImportStep ==
    ASSUME CountTypeOK, FilesListed, [CountNext]_countVars, ~ Met, Single, ImportDone
    PROVE  ImportDone'
<1>0. ImportsOK
  BY DEF CountTypeOK
<1>1. CASE UNCHANGED <<importer, disk, totals>>
  BY <1>1 DEF ImportDone, Importing, CsvTotals, cmTotal
<1>2. CASE Importing' = {}
  BY <1>2 DEF ImportDone
<1>3. CASE registerDownloads
  <2>1. importer' = importer
    BY <1>3 DEF registerDownloads, readChan, resetInMem, appendToLog, listFiles, readFile,
        writeFile, recompute, registerDownload
  <2>2. CASE writeFile \/ recompute
    <3>1. counter.at \in Rollover
      BY <2>2 DEF writeFile, recompute, Rollover
    <3> QED
      BY <1>2, <2>1, <3>1 DEF Met, Importing
  <2>3. CASE readChan \/ resetInMem \/ appendToLog \/ listFiles \/ readFile \/ registerDownload
    BY <1>1, <2>1, <2>3 DEF readChan, resetInMem, appendToLog, listFiles, readFile, registerDownload, files
  <2> QED
    BY <1>3, <2>2, <2>3 DEF registerDownloads
<1>4. ASSUME NEW r \in ImportRequest, putDownloadCounts(r) PROVE ImportDone'
  <2>1. PICK i : /\ importer'[r] = i /\ i.at = "files" /\ DOMAIN i.csv = i.left
                 /\ \A q \in ImportRequest \ {r} : importer'[q] = importer[q]
    BY <1>4, PutIs
  <2>2. disk' = disk /\ totals' = totals
    BY <1>4 DEF putDownloadCounts, files
  <2>3. ASSUME NEW q \in Importing', q # r
        PROVE  /\ \A p \in DOMAIN importer'[q].csv \ importer'[q].left :
                      p \in DOMAIN disk' /\ disk'[p] = importer'[q].csv[p]
               /\ importer'[q].at \in {"log", "write"} =>
                      importer'[q].left = {} /\ totals' = CsvTotals(importer[q].csv)'
    <3>1. importer'[q] = importer[q] /\ q \in Importing
      BY <2>1, <2>3 DEF Importing
    <3>2. CsvTotals(importer[q].csv)' = CsvTotals(importer[q].csv)
      BY <3>1 DEF CsvTotals, cmTotal
    <3> QED
      BY <2>2, <3>1, <3>2 DEF ImportDone
  <2>4. DOMAIN importer'[r].csv \ importer'[r].left = {} /\ importer'[r].at = "files"
    BY <2>1
  <2> QED
    BY <2>3, <2>4 DEF ImportDone
<1>5. ASSUME NEW r \in ImportRequest, importFile(r) PROVE ImportDone'
  <2>1. PICK p \in PackageName :
          /\ importer[r] # Idle /\ importer'[r].at = "files" /\ importer'[r].csv = importer[r].csv
          /\ importer'[r].left = importer[r].left \ {p}
          /\ \A q \in ImportRequest \ {r} : importer'[q] = importer[q]
          /\ DOMAIN disk' = DOMAIN disk \cup {p} /\ disk'[p] = importer[r].csv[p]
          /\ \A q \in DOMAIN disk \ {p} : disk'[q] = disk[q]
    BY <1>5, ImportFileIs
  <2>2. r \in Importing /\ Importing' \subseteq {r}
    BY <2>1 DEF Importing, Single
  <2>3. ASSUME NEW q \in DOMAIN importer[r].csv \ importer'[r].left
        PROVE  q \in DOMAIN disk' /\ disk'[q] = importer[r].csv[q]
    BY <2>1, <2>2, <2>3 DEF ImportDone
  <2> QED
    BY <2>1, <2>2, <2>3 DEF ImportDone
<1>6. ASSUME NEW r \in ImportRequest, importTotals(r) \/ openLog(r) PROVE ImportDone'
  <2>1. /\ importer[r] # Idle /\ disk' = disk
        /\ importer'[r].csv = importer[r].csv /\ importer'[r].left = importer[r].left
        /\ \A q \in ImportRequest \ {r} : importer'[q] = importer[q]
    BY <1>0, <1>6, TotalsGo, OpenGoes DEF files
  <2>2. r \in Importing /\ Importing' \subseteq {r}
    BY <2>1 DEF Importing, Single
  <2>3. importer[r].left = {} /\ totals' = CsvTotals(importer[r].csv)
    <3>1. CASE importTotals(r)
      BY <1>0, <3>1, TotalsGo
    <3>2. CASE openLog(r)
      BY <1>0, <2>2, <3>2, OpenGoes DEF ImportDone
    <3> QED
      BY <1>6, <3>1, <3>2
  <2>4. PICK csv : csv = importer[r].csv
    OBVIOUS
  <2>5. totals' = CsvTotals(importer[r].csv)'
    <3>1. totals' = CsvTotals(csv) /\ importer'[r].csv = csv
      BY <2>1, <2>3, <2>4
    <3> QED
      BY <3>1 DEF CsvTotals, cmTotal
  <2>6. \A p \in DOMAIN importer'[r].csv \ importer'[r].left :
           p \in DOMAIN disk' /\ disk'[p] = importer'[r].csv[p]
    BY <2>1, <2>2 DEF ImportDone
  <2> QED
    BY <2>1, <2>2, <2>3, <2>5, <2>6 DEF ImportDone
<1>7. ASSUME NEW r \in ImportRequest, reconstructLog(r) \/ importError(r) PROVE ImportDone'
  <2>1. /\ importer[r] # Idle /\ importer'[r] = Idle
        /\ \A q \in ImportRequest \ {r} : importer'[q] = importer[q]
    BY <1>0, <1>7, ImportEnds
  <2>2. Importing' = {}
    BY <2>1 DEF Importing, Single
  <2> QED
    BY <1>2, <2>2
<1>8. CASE Crash
  <2>1. Importing' = {}
    BY <1>8 DEF Crash, Importing
  <2> QED
    BY <1>2, <2>1
<1>9. ASSUME NEW p \in PackageName, download(p) PROVE ImportDone'
  BY <1>1, <1>9 DEF download, files
<1>10. CASE Midnight \/ Death \/ UNCHANGED countVars
  BY <1>1, <1>10 DEF Midnight, Death, countVars, files
<1> QED
  BY <1>3, <1>4, <1>5, <1>6, <1>7, <1>8, <1>9, <1>10 DEF CountNext, Die, logIsLocked

(* Being covered, after a step.                                            *)
LEMMA CoverMeans ==
    ASSUME NEW p
    PROVE  /\ Excused(p)' => Covered(p)'
           /\ FileTotal(p)' + OnTheWay(p)' <= log'[p] =>
                 /\ counter'.at \in Rollover \cup {"dead"} => Covered(p)'
                 /\ Replaced' => Covered(p)'
                 /\ totals'[p] = FileTotal(p)' => Covered(p)'
BY DEF Covered, Rollover

LEMMA ExcusedNext ==
    ASSUME NEW p
    PROVE  Excused(p)' <=>
              \/ p \in unlogged'
              \/ \E r \in ImportRequest :
                    /\ importer'[r] # Idle
                    /\ \/ p \in DOMAIN importer'[r].csv
                       \/ importer'[r].at = "write" /\ p \in DOMAIN disk'
BY DEF Excused, Importing, Idle, Rewrites

LEMMA ExcusedIs ==
    ASSUME NEW p
    PROVE  Excused(p) <=>
              \/ p \in unlogged
              \/ \E r \in ImportRequest :
                    /\ importer[r] # Idle
                    /\ \/ p \in DOMAIN importer[r].csv
                       \/ importer[r].at = "write" /\ p \in DOMAIN disk
BY DEF Excused, Importing, Rewrites

LEMMA ReplacedIs ==
    /\ Replaced <=> \E r \in ImportRequest : importer[r].at \in {"log", "write"}
    /\ Replaced' <=> \E r \in ImportRequest : importer'[r].at \in {"log", "write"}
BY AtWork DEF Replaced, Importing, Idle

LEMMA WayIs ==
    ASSUME NEW p
    PROVE  /\ counter.at = "list" => OnTheWay(p) = counter.stats.counts[p]
           /\ counter.at = "read" =>
                OnTheWay(p) = IF p \in counter.left THEN counter.stats.counts[p] ELSE 0
           /\ counter.at = "write" =>
                OnTheWay(p) = IF p \in counter.left \/ p = counter.file
                              THEN counter.stats.counts[p] ELSE 0
           /\ counter.at \notin {"list", "read", "write"} => OnTheWay(p) = 0
BY HeldIs DEF OnTheWay

LEMMA WayNext ==
    ASSUME NEW p
    PROVE  /\ counter'.at = "list" => OnTheWay(p)' = counter'.stats.counts[p]
           /\ counter'.at = "read" =>
                OnTheWay(p)' = IF p \in counter'.left THEN counter'.stats.counts[p] ELSE 0
           /\ counter'.at = "write" =>
                OnTheWay(p)' = IF p \in counter'.left \/ p = counter'.file
                               THEN counter'.stats.counts[p] ELSE 0
           /\ counter'.at \notin {"list", "read", "write"} => OnTheWay(p)' = 0
BY HeldNext DEF OnTheWay

LEMMA WayType ==
    ASSUME CountTypeOK, NEW p \in PackageName
    PROVE  OnTheWay(p) \in Nat
BY HeldTypes DEF OnTheWay

(* The thread logs yesterday's counts before it writes them.               *)
LEMMA ThreadCovers ==
    ASSUME CountTypeOK, FilesListed, registerDownloads, NEW p \in PackageName,
           ReadTrue(p), Covered(p)
    PROVE  Covered(p)'
<1>0. counter \in Counter /\ importer' = importer /\ unlogged' = unlogged
  BY DEF CountTypeOK, registerDownloads, readChan, resetInMem, appendToLog, listFiles,
         readFile, writeFile, recompute, registerDownload
<1>1. CASE Excused(p)
  <2>1. DOMAIN disk \subseteq DOMAIN disk'
    BY DEF registerDownloads, readChan, resetInMem, appendToLog, listFiles,
           readFile, writeFile, recompute, registerDownload, files, WithFile
  <2>2. Excused(p)'
    BY <1>0, <1>1, <2>1, ExcusedIs, ExcusedNext
  <2> QED
    BY <2>2, CoverMeans
<1>2. CASE ~ Excused(p)
  <2>1. PICK f, w : f = FileTotal(p) /\ w = OnTheWay(p)
    OBVIOUS
  <2>2. f \in Nat /\ w \in Nat /\ log[p] \in Nat /\ f + w <= log[p]
    BY <1>2, <2>1, FileTotalType, WayType DEF Covered, CountTypeOK, Counts
  <2>3. counter.at \in Rollover \cup {"dead"} \/ Replaced \/ totals[p] = f
    BY <1>2, <2>1 DEF Covered
  <2>4. disk' = disk => FileTotal(p)' = f
    BY <2>1, FilesUnchanged
  <2>5. ASSUME FileTotal(p)' + OnTheWay(p)' <= log'[p],
               counter'.at \in Rollover \/ Replaced \/ totals'[p] = FileTotal(p)'
        PROVE  Covered(p)'
    BY <1>0, <2>5, CoverMeans, ReplacedIs
  <2>6. CASE readChan
    <3>1. /\ counter.at = "idle" /\ disk' = disk /\ log' = log /\ totals' = totals
          /\ counter'.at \in {"register", "reset"}
      BY <2>6 DEF readChan, Goto, Idle, files
    <3>2. OnTheWay(p)' = 0
      BY <3>1, WayNext
    <3>3. Replaced \/ totals[p] = f
      BY <2>3, <3>1 DEF Rollover
    <3> QED
      BY <2>2, <2>4, <2>5, <3>1, <3>2, <3>3
  <2>7. CASE resetInMem
    <3>1. /\ counter'.at = "append" /\ disk' = disk /\ log' = log
      BY <2>7 DEF resetInMem, Goto, files
    <3>2. OnTheWay(p)' = 0 /\ counter'.at \in Rollover
      BY <3>1, WayNext DEF Rollover
    <3> QED
      BY <2>2, <2>4, <2>5, <3>1, <3>2
  <2>8. CASE appendToLog
    <3>1. counter \in [at : {"append", "list"}, pkg : PackageName, day : Day, stats : Stats]
      BY <1>0, <2>8, CounterIs DEF appendToLog
    <3>2. /\ counter.at = "append" /\ disk' = disk
          /\ counter'.at = "list" /\ counter'.stats = counter.stats
          /\ log'[p] = log[p] + counter.stats.counts[p]
      BY <2>8, <3>1 DEF appendToLog, Goto, Plus
    <3>3. w = 0 /\ OnTheWay(p)' = counter.stats.counts[p] /\ counter'.at \in Rollover
      BY <2>1, <3>2, WayIs, WayNext DEF Rollover
    <3>4. counter.stats.counts[p] \in Nat
      BY <3>2, AmountTypes DEF Rollover
    <3> QED
      BY <2>2, <2>4, <2>5, <3>2, <3>3, <3>4
  <2>9. CASE listFiles
    <3>1. PICK left : left = DOMAIN disk \cup {x \in PackageName : counter.stats.counts[x] > 0}
      OBVIOUS
    <3>2. /\ counter.at = "list" /\ disk' = disk /\ log' = log
          /\ counter'.at = IF left = {} THEN "recompute" ELSE "read"
          /\ counter'.stats = counter.stats /\ counter'.left = left
      BY <2>9, <3>1 DEF listFiles, Goto, files
    <3>3. counter.stats.counts[p] \in Nat
      BY <3>2, AmountTypes DEF Rollover
    <3>4. p \notin left => counter.stats.counts[p] = 0
      BY <3>1, <3>3
    <3>5. OnTheWay(p)' = w /\ counter'.at \in Rollover
      BY <2>1, <3>2, <3>4, WayIs, WayNext DEF Rollover
    <3> QED
      BY <2>2, <2>4, <2>5, <3>2, <3>5
  <2>10. CASE readFile
    <3>1. PICK r \in counter.left :
            /\ counter'.at = "write" /\ counter'.file = r /\ counter'.left = counter.left \ {r}
            /\ counter'.stats = counter.stats
            /\ counter.at = "read" /\ disk' = disk
      BY <2>10, ReadFileIs
    <3>2. OnTheWay(p)' = w /\ counter'.at \in Rollover
      BY <2>1, <3>1, WayIs, WayNext DEF Rollover
    <3>3. log' = log
      BY <2>10 DEF readFile, files
    <3> QED
      BY <2>2, <2>4, <2>5, <3>1, <3>2, <3>3
  <2>11. CASE writeFile
    <3>1. PICK r \in PackageName :
            /\ r = counter.file /\ counter.at = "write" /\ r \notin counter.left
            /\ counter'.at = IF counter.left = {} THEN "recompute" ELSE "read"
            /\ counter'.left = counter.left /\ counter'.stats = counter.stats
            /\ FileTotal(r)' = cmTotal(counter.perPkg)
            /\ \A x : x # r => FileTotal(x)' = FileTotal(x)
      BY <2>11, WriteFileIs
    <3>2. log' = log /\ counter'.at \in Rollover
      BY <2>11, <3>1 DEF writeFile, Rollover
    <3>3. counter.stats.counts[p] \in Nat
      BY <3>1, AmountTypes DEF Rollover
    <3>4. CASE p = r
      <4>1. FileTotal(p)' = f + counter.stats.counts[p]
        BY <2>1, <3>1, <3>4 DEF ReadTrue
      <4>2. w = counter.stats.counts[p] /\ OnTheWay(p)' = 0
        BY <2>1, <3>1, <3>4, WayIs, WayNext
      <4> QED
        BY <2>2, <2>5, <3>2, <3>3, <4>1, <4>2
    <3>5. CASE p # r
      <4>1. FileTotal(p)' = f
        BY <2>1, <3>1, <3>5
      <4>2. OnTheWay(p)' = w
        BY <2>1, <3>1, <3>5, WayIs, WayNext
      <4> QED
        BY <2>2, <2>5, <3>2, <4>1, <4>2
    <3> QED
      BY <3>4, <3>5
  <2>12. CASE recompute
    <3>1. /\ disk' = disk /\ log' = log /\ counter'.at = "register"
          /\ totals'[p] = f
      BY <2>1, <2>12 DEF recompute, Goto, files, computeTotalDownloads
    <3>2. OnTheWay(p)' = 0
      BY <3>1, WayNext
    <3> QED
      BY <2>2, <2>4, <2>5, <3>1, <3>2
  <2>13. CASE registerDownload
    <3>1. /\ counter.at = "register" /\ disk' = disk /\ log' = log /\ totals' = totals
          /\ counter' = Idle
      BY <2>13 DEF registerDownload, Goto, files
    <3>2. OnTheWay(p)' = 0
      BY <3>1, WayNext, IdleIsCounter
    <3>3. Replaced \/ totals[p] = f
      BY <2>3, <3>1 DEF Rollover
    <3> QED
      BY <2>2, <2>4, <2>5, <3>1, <3>2, <3>3
  <2> QED
    BY <2>6, <2>7, <2>8, <2>9, <2>10, <2>11, <2>12, <2>13 DEF registerDownloads
<1> QED
  BY <1>1, <1>2

LEMMA NothingUncovers ==
    ASSUME NEW p, UNCHANGED <<disk, log, counter>>, Covered(p),
           Excused(p) => Excused(p)', Replaced => Replaced',
           totals' = totals \/ Replaced'
    PROVE  Covered(p)'
<1>1. FileTotal(p)' = FileTotal(p)
  BY FilesUnchanged
<1>2. OnTheWay(p)' = OnTheWay(p)
  BY DEF OnTheWay, Unwritten
<1> QED
  BY <1>1, <1>2, CoverMeans DEF Covered

(* A new import is excused from what it will write.                        *)
LEMMA PutCovers ==
    ASSUME CountTypeOK, NEW r \in ImportRequest, putDownloadCounts(r), NEW p, Covered(p)
    PROVE  Covered(p)'
<1>1. UNCHANGED <<disk, log, counter, totals, unlogged>> /\ importer[r] = Idle
  BY DEF putDownloadCounts, files
<1>2. \A q \in ImportRequest \ {r} : importer'[q] = importer[q]
  BY PutIs
<1>3. Excused(p) => Excused(p)'
  BY <1>1, <1>2, ExcusedIs, ExcusedNext
<1>4. Replaced => Replaced'
  BY <1>1, <1>2, ReplacedIs DEF Idle
<1> QED
  BY <1>1, <1>3, <1>4, NothingUncovers

LEMMA ImportCovers ==
    ASSUME CountTypeOK, NEW r \in ImportRequest, importFile(r), NEW p \in PackageName, Covered(p)
    PROVE  Covered(p)'
<1>1. PICK x \in PackageName :
          /\ importer[r] # Idle /\ importer[r].at = "files"
          /\ x \in DOMAIN importer[r].csv
          /\ importer'[r] # Idle
          /\ importer'[r].csv = importer[r].csv
          /\ \A q \in ImportRequest \ {r} : importer'[q] = importer[q]
          /\ DOMAIN disk' = DOMAIN disk \cup {x}
          /\ \A q : q # x => FileTotal(q)' = FileTotal(q)
  BY ImportFileIs, ZenonT(40)
<1>2. UNCHANGED <<log, counter, totals, unlogged>>
  BY DEF importFile
<1>3. CASE p \in DOMAIN importer[r].csv
  BY <1>1, <1>3, CoverMeans, ExcusedNext
<1>4. CASE p \notin DOMAIN importer[r].csv
  <2>1. FileTotal(p)' = FileTotal(p)
    BY <1>1, <1>4
  <2>2. OnTheWay(p)' = OnTheWay(p)
    BY <1>2 DEF OnTheWay, Unwritten
  <2>3. Excused(p) => Excused(p)'
    BY <1>1, <1>2, ExcusedIs, ExcusedNext
  <2>4. Replaced => Replaced'
    BY <1>1, ReplacedIs
  <2> QED
    BY <1>2, <2>1, <2>2, <2>3, <2>4, CoverMeans DEF Covered
<1> QED
  BY <1>3, <1>4

LEMMA TotalsCover ==
    ASSUME CountTypeOK, NEW r \in ImportRequest, importTotals(r), NEW p \in PackageName, Covered(p)
    PROVE  Covered(p)'
<1>1. /\ importer[r].at = "files" /\ importer[r] # Idle /\ importer'[r].at = "log"
      /\ importer'[r] # Idle /\ importer'[r].csv = importer[r].csv
      /\ \A q \in ImportRequest \ {r} : importer'[q] = importer[q]
      /\ UNCHANGED <<disk, log, counter, unlogged>>
  BY TotalsGo DEF CountTypeOK, files, history
<1>2. Excused(p) => Excused(p)'
  BY <1>1, ExcusedIs, ExcusedNext
<1>3. Replaced'
  BY <1>1, ReplacedIs
<1> QED
  BY <1>1, <1>2, <1>3, NothingUncovers

(* The log that is emptied covers packages that have no file.              *)
LEMMA OpenCovers ==
    ASSUME CountTypeOK, NEW r \in ImportRequest, openLog(r), ~ Met, NEW p \in PackageName
    PROVE  Covered(p)'
<1>1. /\ importer[r] # Idle /\ importer'[r].at = "write" /\ importer'[r] # Idle
      /\ log' = None /\ disk' = disk /\ counter' = counter
  BY OpenGoes DEF CountTypeOK, history
<1>2. CASE p \in DOMAIN disk
  BY <1>1, <1>2, CoverMeans, ExcusedNext
<1>3. CASE p \notin DOMAIN disk
  <2>1. FileTotal(p)' = 0
    BY <1>1, <1>3, FilesUnchanged DEF FileTotal
  <2>2. OnTheWay(p)' = 0
    BY <1>1, WayNext DEF Met, Importing, Rollover
  <2>3. log'[p] = 0
    BY <1>1 DEF None
  <2>4. Replaced'
    BY <1>1, ReplacedIs
  <2> QED
    BY <2>1, <2>2, <2>3, <2>4, CoverMeans
<1> QED
  BY <1>2, <1>3

(* What the new log lacks is among the files that were there.              *)
LEMMA ReconstructCovers ==
    ASSUME CountTypeOK, NEW r \in ImportRequest, reconstructLog(r), ~ Met, ImportDone,
           NEW p \in PackageName
    PROVE  Covered(p)'
<1>1. PICK csv : csv = importer[r].csv
  OBVIOUS
<1>2. /\ importer[r].at = "write" /\ importer[r] # Idle
      /\ disk' = disk /\ counter' = counter /\ totals' = totals
      /\ log' = CsvTotals(csv)
      /\ unlogged' = (unlogged \cup DOMAIN disk) \ DOMAIN csv
  BY <1>1, AtWork DEF reconstructLog
<1>3. counter.at \notin Rollover /\ r \in Importing
  BY <1>2 DEF Met, Importing
<1>4. OnTheWay(p)' = 0
  BY <1>2, <1>3, WayNext DEF Rollover
<1>5. FileTotal(p)' = FileTotal(p) /\ FileTotal(p) \in Nat
  BY <1>2, FilesUnchanged, FileTotalType
<1>6. PICK n : n = IF p \in DOMAIN csv THEN cmTotal(csv[p]) ELSE 0
  OBVIOUS
<1>7. totals = CsvTotals(csv) /\ importer[r].left = {}
  BY <1>1, <1>2, <1>3 DEF ImportDone
<1>8. log'[p] = n /\ totals'[p] = n
  BY <1>2, <1>6, <1>7 DEF CsvTotals
<1>9. CASE p \notin DOMAIN csv /\ p \in DOMAIN disk
  BY <1>2, <1>9, CoverMeans, ExcusedNext
<1>10. CASE p \in DOMAIN csv \/ p \notin DOMAIN disk
  <2>1. FileTotal(p) = n
    <3>1. CASE p \in DOMAIN csv
      <4>1. p \in DOMAIN disk /\ disk[p] = csv[p]
        BY <1>1, <1>3, <1>7, <3>1 DEF ImportDone
      <4> QED
        BY <1>6, <3>1, <4>1 DEF FileTotal
    <3>2. CASE p \notin DOMAIN csv
      BY <1>6, <1>10, <3>2 DEF FileTotal
    <3> QED
      BY <3>1, <3>2
  <2> QED
    BY <1>4, <1>5, <1>8, <2>1, CoverMeans
<1> QED
  BY <1>9, <1>10

(* An import cut short leaves behind what it has written, and from the     *)
(* totals on what there was in files.                                      *)
LEMMA ErrorCovers ==
    ASSUME CountTypeOK, NEW r \in ImportRequest, importError(r), ~ Met, Single, ImportDone,
           NEW p \in PackageName, Covered(p)
    PROVE  Covered(p)'
<1>1. /\ importer[r] # Idle /\ UNCHANGED <<disk, log, counter, totals>>
      /\ unlogged' = unlogged \cup DOMAIN importer[r].csv
                        \cup (IF importer[r].at = "files" THEN {} ELSE DOMAIN disk)
  BY DEF importError, files
<1>2. r \in Importing /\ \A q \in ImportRequest \ {r} : importer[q] = Idle
  BY <1>1 DEF Importing, Single
<1>3. FileTotal(p)' = FileTotal(p) /\ FileTotal(p) \in Nat /\ log[p] \in Nat /\ OnTheWay(p) \in Nat
  BY <1>1, FilesUnchanged, FileTotalType, WayType DEF CountTypeOK, Counts
<1>4. OnTheWay(p)' = 0
  BY <1>1, <1>2, WayNext DEF Met, Rollover
<1>5. CASE p \in unlogged'
  BY <1>5, CoverMeans, ExcusedNext
<1>6. CASE p \notin unlogged' /\ importer[r].at = "files"
  <2>1. ~ Excused(p)
    BY <1>1, <1>2, <1>6, ExcusedIs
  <2>2. ~ Replaced
    BY <1>2, <1>6, ReplacedIs DEF Idle
  <2>3. /\ FileTotal(p) + OnTheWay(p) <= log[p]
        /\ counter.at \in Rollover \cup {"dead"} \/ totals[p] = FileTotal(p)
    BY <2>1, <2>2 DEF Covered
  <2> QED
    BY <1>1, <1>3, <1>4, <2>3, CoverMeans
<1>7. CASE p \notin unlogged' /\ importer[r].at # "files"
  <2>1. p \notin DOMAIN disk /\ p \notin DOMAIN importer[r].csv
    BY <1>1, <1>7
  <2>2. FileTotal(p) = 0
    BY <2>1 DEF FileTotal
  <2>3. importer[r].at \in {"log", "write"}
    BY <1>1, <1>7, ImportHas DEF CountTypeOK
  <2>4. totals = CsvTotals(importer[r].csv)
    BY <1>2, <2>3 DEF ImportDone
  <2>5. totals[p] = 0
    BY <2>1, <2>4 DEF CsvTotals
  <2> QED
    BY <1>1, <1>3, <1>4, <2>2, <2>5, CoverMeans
<1> QED
  BY <1>5, <1>6, <1>7

LEMMA CrashCovers ==
    ASSUME CountTypeOK, Crash, NEW p \in PackageName, Covered(p)
    PROVE  Covered(p)'
<1>1. /\ disk' = disk /\ log' = log /\ counter' = Idle
      /\ totals'[p] = FileTotal(p)
      /\ unlogged' = unlogged \cup UNION {Rewrites(r) : r \in Importing}
  BY DEF Crash, files, computeTotalDownloads
<1>2. FileTotal(p)' = FileTotal(p) /\ OnTheWay(p)' = 0
  BY <1>1, FilesUnchanged, WayNext, IdleIsCounter
<1>3. FileTotal(p) \in Nat /\ OnTheWay(p) \in Nat /\ log[p] \in Nat
  BY FileTotalType, WayType DEF CountTypeOK, Counts
<1>4. CASE Excused(p)
  <2>1. p \in unlogged'
    BY <1>1, <1>4 DEF Excused
  <2> QED
    BY <2>1, CoverMeans, ExcusedNext
<1>5. CASE ~ Excused(p)
  <2>1. FileTotal(p) + OnTheWay(p) <= log[p]
    BY <1>5 DEF Covered
  <2>2. FileTotal(p)' + OnTheWay(p)' <= log'[p] /\ totals'[p] = FileTotal(p)'
    BY <1>1, <1>2, <1>3, <2>1
  <2> QED
    BY <2>2, CoverMeans
<1> QED
  BY <1>4, <1>5

LEMMA DeathCovers ==
    ASSUME CountTypeOK, Death, NEW p \in PackageName, Covered(p)
    PROVE  Covered(p)'
<1>1. UNCHANGED <<disk, log, importer, unlogged>> /\ counter' = Dead
  BY DEF Death, files
<1>2. FileTotal(p)' = FileTotal(p) /\ OnTheWay(p)' = 0 /\ counter'.at = "dead"
  BY <1>1, FilesUnchanged, WayNext, IdleIsCounter
<1>3. FileTotal(p) \in Nat /\ OnTheWay(p) \in Nat /\ log[p] \in Nat
  BY FileTotalType, WayType DEF CountTypeOK, Counts
<1>4. CASE Excused(p)
  BY <1>1, <1>4, CoverMeans, ExcusedIs, ExcusedNext
<1>5. CASE ~ Excused(p)
  <2>1. FileTotal(p) + OnTheWay(p) <= log[p]
    BY <1>5 DEF Covered
  <2>2. FileTotal(p)' + OnTheWay(p)' <= log'[p]
    BY <1>1, <1>2, <1>3, <2>1
  <2> QED
    BY <1>2, <2>2, CoverMeans
<1> QED
  BY <1>4, <1>5

LEMMA CoveredStep ==
    ASSUME CountTypeOK, FilesListed, [CountNext]_countVars, ~ Met, Single, ImportDone,
           NEW p \in PackageName, ReadTrue(p), Covered(p)
    PROVE  Covered(p)'
<1>1. CASE registerDownloads
  BY <1>1, ThreadCovers
<1>2. ASSUME NEW r \in ImportRequest,
             putDownloadCounts(r) \/ importFile(r) \/ importTotals(r)
      PROVE  Covered(p)'
  BY <1>2, PutCovers, ImportCovers, TotalsCover
<1>3. ASSUME NEW r \in ImportRequest,
             openLog(r) \/ reconstructLog(r) \/ importError(r)
      PROVE  Covered(p)'
  BY <1>3, OpenCovers, ReconstructCovers, ErrorCovers
<1>4. CASE Crash
  BY <1>4, CrashCovers
<1>5. CASE Death
  BY <1>5, DeathCovers
<1>6. CASE UNCHANGED <<files, counter, unlogged, importer, totals>>
  <2>1. (Excused(p) => Excused(p)') /\ (Replaced => Replaced')
    BY <1>6, ExcusedIs, ExcusedNext, ReplacedIs DEF files
  <2> QED
    BY <1>6, <2>1, NothingUncovers DEF files
<1>7. ASSUME NEW q \in PackageName, download(q) PROVE Covered(p)'
  BY <1>6, <1>7 DEF download
<1>8. CASE Midnight \/ UNCHANGED countVars
  BY <1>6, <1>8 DEF Midnight, countVars, history
<1> QED
  BY <1>1, <1>2, <1>3, <1>4, <1>5, <1>7, <1>8 DEF CountNext, Die, logIsLocked

CoverInv ==
    /\ CountTypeOK
    /\ FilesListed
    /\ ~ mixed => /\ ~ Met /\ Single /\ ImportDone
                  /\ \A p \in PackageName : ReadTrue(p) /\ Covered(p)

(* At whatever point the process stops or the thread dies, the log holds   *)
(* what the files hold, as long as no import meets a change of day or      *)
(* another import, but for the packages that an import leaves out, or is   *)
(* writing or was when it was cut short, and for all while the log is      *)
(* empty.                                                                  *)
THEOREM LogAndTotalsAreCovered == CountSpec => []LogAndTotalsCover
<1>1. CountInit => CoverInv
  <2> SUFFICES ASSUME CountInit PROVE CoverInv
    OBVIOUS
  <2>1. CountTypeOK /\ FilesListed
    BY CountTypeInit
  <2>2. counter.at = "idle" /\ Importing = {} /\ DOMAIN disk = {}
    BY IdleIsCounter DEF CountInit, Importing
  <2>3. ~ Met /\ Single /\ ImportDone
    BY <2>2 DEF Met, Single, ImportDone
  <2>4. ASSUME NEW p \in PackageName PROVE ReadTrue(p) /\ Covered(p)
    <3>1. FileTotal(p) = 0 /\ OnTheWay(p) = 0
      BY <2>2, WayIs DEF FileTotal
    <3>2. log[p] = 0 /\ totals[p] = 0
      BY DEF CountInit, None
    <3> QED
      BY <2>2, <3>1, <3>2 DEF ReadTrue, Covered
  <2> QED
    BY <2>1, <2>3, <2>4 DEF CoverInv
<1>2. CoverInv /\ [CountNext]_countVars => CoverInv'
  <2> SUFFICES ASSUME CoverInv, [CountNext]_countVars PROVE CoverInv'
    OBVIOUS
  <2>1. CountTypeOK /\ FilesListed /\ CountTypeOK' /\ FilesListed'
    BY CountTypeStep, FilesListedStep DEF CoverInv
  <2>2. ASSUME ~ mixed'
        PROVE  /\ ~ Met' /\ Single' /\ ImportDone'
               /\ \A p \in PackageName : ReadTrue(p)' /\ Covered(p)'
    <3>1. ~ mixed
      BY <2>1, <2>2, MixedStays
    <3>2. ~ Met /\ Single /\ ImportDone /\ \A p \in PackageName : ReadTrue(p) /\ Covered(p)
      BY <3>1 DEF CoverInv
    <3>3. ~ Met' /\ Single'
      BY <2>1, <2>2, <3>2, MetStep
    <3>4. ImportDone'
      BY <2>1, <3>2, ImportStep
    <3>5. ASSUME NEW p \in PackageName PROVE ReadTrue(p)' /\ Covered(p)'
      BY <2>1, <3>2, <3>5, ReadTrueStep, CoveredStep
    <3> QED
      BY <3>3, <3>4, <3>5
  <2> QED
    BY <2>1, <2>2 DEF CoverInv
<1>3. CoverInv => LogAndTotalsCover
  <2> SUFFICES ASSUME CoverInv, ~ mixed, NEW p \in PackageName
               PROVE  \/ p \in unlogged
                      \/ \E r \in Importing : p \in Rewrites(r)
                      \/ /\ FileTotal(p) <= log[p]
                         /\ \/ counter.at \in Rollover \cup {"dead"}
                            \/ \E r \in Importing : importer[r].at \in {"log", "write"}
                            \/ totals[p] = FileTotal(p)
    BY DEF LogAndTotalsCover
  <2>1. Covered(p) /\ FileTotal(p) \in Nat /\ OnTheWay(p) \in Nat /\ log[p] \in Nat
    BY FileTotalType, WayType DEF CoverInv, CountTypeOK, Counts
  <2> QED
    BY <2>1 DEF Covered, Excused, Replaced
<1> QED
  BY <1>1, <1>2, <1>3, PTL DEF CountSpec
=============================================================================
