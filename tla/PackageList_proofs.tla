------------------------- MODULE PackageList_proofs -------------------------
(***************************************************************************)
(* Theorems about PackageList, for any packages, versions and tags, any    *)
(* number of requests side by side and any number of crashes.              *)
(***************************************************************************)
EXTENDS PackageList, FiniteSetTheorems, WellFoundedInduction, TLAPS

-----------------------------------------------------------------------------
(* Sequences of steps.                                                     *)

(* What is to come of a sequence of steps, and what comes after the next.  *)
Coming(q) == {q[i] : i \in DOMAIN q}
Later(q) == IF q = << >> THEN {} ELSE Coming(Tail(q))

(* Steps r are those of q without the next, or with one or two for it.     *)
NoneFor(q, r) == r = << >> \o Tail(q)
OneFor(q, s, r) == r = <<s>> \o Tail(q)
TwoFor(q, s, t, r) == r = <<s, t>> \o Tail(q)

(* Steps that hold nothing that was read before.                           *)
Cold == {"retag", "review", "tagsUpdated", "indexEntry", "deprecatedTags",
         "initTags", "constructItemIndex"}

BuildsList(q) == \E s \in Coming(q) : s.op = "constructItemIndex"

(* The order of the steps of any thread: only the next one holds what was  *)
(* read before, the list is built last, and who sets the tags of a package *)
(* or other than the tag Deprecated has the items renewed later.           *)
Orderly(q) ==
    /\ \A s \in Later(q) : s.op \in Cold
    /\ \A i \in DOMAIN q : q[i].op = "constructItemIndex" => i = Len(q)
    /\ \A s \in Coming(q) :
          s.op = "initTags" \/ (s.op = "setTagPackages" /\ s.tag # Deprecated) => BuildsList(q)
    /\ \A s \in Coming(q) : s.op = "setPackageTags" =>
          \E t \in Later(q) : t.op = "tagsUpdated" /\ s.pkg \in t.pkgs

IsDeprecated(p) == deprecatedFor[p] # Nothing
Reference(p) == ReferenceVersion(preferred[p], index[p])

(* What a step holds about the package is so still.                        *)
Fresh(s, p) ==
    /\ s.op = "setTagPackages" /\ s.tag = Deprecated => (p \in s.pkgs <=> IsDeprecated(p))
    /\ s.op = "setPackageTags" /\ s.pkg = p => (Deprecated \in s.tagList <=> IsDeprecated(p))
    /\ s.op = "preferredHook" /\ s.pkg = p => s.versions = preferred[p]
    /\ s.op = "insert" /\ s.pkg = p => p \in InIndex /\ s.item = constructItem(p)
    /\ s.op = "modify" /\ s.pkg = p =>
          s.change \in {[tags |-> tags.packageTags[p]], [deprecated |-> deprecatedFor[p]],
                        [reference |-> Reference(p)]}

(* What is to be true of the package, and the steps that make it so: it    *)
(* has the tag exactly if it is deprecated, it has an item, and the item   *)
(* shows its deprecation, its tags and its reference version.              *)
Told(p) == Deprecated \in tags.packageTags[p] <=> IsDeprecated(p)
Tells(s) == s.op = "deprecatedTags" \/ (s.op = "setTagPackages" /\ s.tag = Deprecated)

Lists(s, p) == \/ s.op = "constructItemIndex"
               \/ s.op \in {"lastUpload", "modify", "insert"} /\ s.pkg = p

ShowsDeprecation(item, p) == item.deprecated = deprecatedFor[p]
RenewsDeprecation(s, p) == \/ s.op = "constructItemIndex"
                           \/ s = Modify(p, [deprecated |-> deprecatedFor[p]])

ShowsTags(item, p) ==
    /\ item.tags \ {Deprecated} = tags.packageTags[p] \ {Deprecated}
    /\ Deprecated \in tags.packageTags[p] => Deprecated \in item.tags
RenewsTags(s, p) == \/ s.op = "constructItemIndex"
                    \/ s.op = "tagsUpdated" /\ p \in s.pkgs
                    \/ s = Modify(p, [tags |-> tags.packageTags[p]])

ShowsReference(item, p) ==
    \/ item.reference = Reference(p)
    \/ item.reference = NoVersion /\ Highest(index[p]) \in preferred[p]
RenewsReference(s, p) == \/ s.op = "constructItemIndex"
                         \/ s.op \in {"lastUpload", "preferredHook"} /\ s.pkg = p
                         \/ s = Modify(p, [reference |-> Reference(p)])

(* With these steps to come all will be well with the package.             *)
Well(steps, p) ==
    /\ \A s \in steps : Fresh(s, p)
    /\ Told(p) \/ \E s \in steps : Tells(s)
    /\ p \in InIndex => p \in DOMAIN itemCache \/ \E s \in steps : Lists(s, p)
    /\ p \in DOMAIN itemCache =>
          /\ ShowsDeprecation(itemCache[p], p) \/ \E s \in steps : RenewsDeprecation(s, p)
          /\ ShowsTags(itemCache[p], p) \/ \E s \in steps : RenewsTags(s, p)
          /\ ShowsReference(itemCache[p], p) \/ \E s \in steps : RenewsReference(s, p)

Busy(p) == {w \in Thread : p \in scope[w]}
Ahead(p) == IF Busy(p) = {} THEN {{}} ELSE {Coming(todo[w]) : w \in Busy(p)}
Waiting(p) == \A steps \in Ahead(p) : Well(steps, p)

(* No two threads have a package in their scopes that is not noted.        *)
Apart ==
    /\ \A w \in Thread : todo[w] = << >> => scope[w] = {}
    /\ \A v, w \in Thread : v # w => scope[v] \cap scope[w] \subseteq overlapped
    /\ todo[Main] # << >> => \A w \in Request : todo[w] = << >>

ListInv ==
    /\ TypeOK
    /\ TagMapsAgree
    /\ \A p \in Package : IsFiniteSet(index[p])
    /\ Apart
    /\ \A w \in Thread : Orderly(todo[w])
    /\ \A p \in Package \ overlapped : Waiting(p)

(* The entries of the index a thread has yet to add for the package.       *)
Entries(w, p) == {s \in Coming(todo[w]) : s.op = "indexEntry" /\ s.pkg = p}

(* An entry to come is of the versions stored; the last one is, or else    *)
(* another is to come.                                                     *)
EntriesFollow ==
    \A p \in Package \ unsure :
        /\ \A w \in Thread : \A s \in Entries(w, p) : s.versions = preferred[p]
        /\ entry[p] = preferred[p] \/ \E w \in Request : Entries(w, p) # {}
-----------------------------------------------------------------------------
(* The steps of a thread, one by one: what is the next and what is left.   *)

LEMMA ComingIs ==
    ASSUME NEW S, NEW q \in Seq(S)
    PROVE  /\ Coming(q) \subseteq S
           /\ Later(q) \subseteq Coming(q)
           /\ q # << >> => Head(q) \in Coming(q) /\ Coming(q) = {Head(q)} \cup Later(q)
           /\ q = << >> => Coming(q) = {} /\ Later(q) = {}
<1>1. q # << >> => \A i \in DOMAIN q : i = 1 \/ (i - 1 \in DOMAIN Tail(q) /\ Tail(q)[i - 1] = q[i])
  OBVIOUS
<1>2. q # << >> => \A i \in DOMAIN Tail(q) : i + 1 \in DOMAIN q /\ Tail(q)[i] = q[i + 1]
  OBVIOUS
<1>3. q # << >> => Head(q) = q[1] /\ 1 \in DOMAIN q
  OBVIOUS
<1>4. q = << >> => DOMAIN q = {}
  OBVIOUS
<1>5. Coming(q) \subseteq S
  BY DEF Coming
<1>6. ASSUME q # << >> PROVE Coming(q) = {Head(q)} \cup Later(q)
  <2>1. Later(q) = {Tail(q)[i] : i \in DOMAIN Tail(q)}
    BY <1>6 DEF Later, Coming
  <2>2. \A s \in Coming(q) : s \in {Head(q)} \cup Later(q)
    BY <1>1, <1>3, <1>6, <2>1 DEF Coming
  <2>3. \A s \in Later(q) : s \in Coming(q)
    BY <1>2, <1>6, <2>1 DEF Coming
  <2> QED
    BY <1>3, <1>6, <2>2, <2>3 DEF Coming
<1>7. q = << >> => Coming(q) = {} /\ Later(q) = {}
  BY <1>4 DEF Coming, Later
<1> QED
  BY <1>5, <1>6, <1>7

(* What is left when the next step is done, ...                            *)
LEMMA NothingNew ==
    ASSUME NEW S, NEW q \in Seq(S), q # << >>, NEW r, NoneFor(q, r)
    PROVE  /\ r \in Seq(S)
           /\ Coming(r) = Later(q)
           /\ Later(r) \subseteq Later(q)
           /\ \A i \in DOMAIN r : i + 1 \in DOMAIN q /\ r[i] = q[i + 1]
           /\ Len(q) = Len(r) + 1
<1>1. r = Tail(q) /\ r \in Seq(S)
  BY DEF NoneFor, OneFor, TwoFor
<1>2. Coming(r) = Later(q)
  BY <1>1 DEF Later
<1>3. Later(r) \subseteq Coming(r)
  BY <1>1, ComingIs
<1> QED
  BY <1>1, <1>2, <1>3

(* ... and when a step or two come in its place.                           *)
LEMMA OneNew ==
    ASSUME NEW S, NEW q \in Seq(S), q # << >>, NEW s \in S, NEW r, OneFor(q, s, r)
    PROVE  /\ r \in Seq(S)
           /\ r # << >>
           /\ Coming(r) = {s} \cup Later(q)
           /\ Later(r) = Later(q)
           /\ \A i \in DOMAIN r : r[i] = s \/ (i \in DOMAIN q /\ r[i] = q[i])
           /\ Len(q) = Len(r)
<1>1. r \in Seq(S) /\ r # << >> /\ Head(r) = s /\ Tail(r) = Tail(q)
  BY DEF NoneFor, OneFor, TwoFor
<1>2. Later(r) = Later(q)
  BY <1>1 DEF Later
<1>3. Coming(r) = {s} \cup Later(q)
  BY <1>1, <1>2, ComingIs
<1>4. /\ \A i \in DOMAIN r : i = 1 \/ (i \in DOMAIN q /\ r[i] = q[i])
      /\ r[1] = s
      /\ Len(q) = Len(r)
  BY DEF NoneFor, OneFor, TwoFor
<1>5. \A i \in DOMAIN r : r[i] = s \/ (i \in DOMAIN q /\ r[i] = q[i])
  BY <1>4
<1> QED
  BY <1>1, <1>2, <1>3, <1>4, <1>5

LEMMA TwoNew ==
    ASSUME NEW S, NEW q \in Seq(S), q # << >>, NEW s \in S, NEW t \in S,
           NEW r, TwoFor(q, s, t, r)
    PROVE  /\ r \in Seq(S)
           /\ r # << >>
           /\ Coming(r) = {s, t} \cup Later(q)
           /\ Later(r) = {t} \cup Later(q)
           /\ \A i \in DOMAIN r : r[i] \in {s, t} \/ (i - 1 \in DOMAIN q /\ r[i] = q[i - 1])
           /\ Len(r) = Len(q) + 1
<1>1. PICK u : OneFor(q, t, u)
  BY DEF OneFor
<1>2. u \in Seq(S) /\ Coming(u) = {t} \cup Later(q)
  BY <1>1, OneNew
<1>3. r \in Seq(S) /\ r # << >> /\ Head(r) = s /\ Tail(r) = u
  BY <1>1 DEF NoneFor, OneFor, TwoFor
<1>4. Later(r) = {t} \cup Later(q)
  BY <1>2, <1>3 DEF Later
<1>5. Coming(r) = {s, t} \cup Later(q)
  <2>1. Coming(r) = {Head(r)} \cup Later(r)
    BY <1>3, ComingIs
  <2> QED
    BY <1>3, <1>4, <2>1
<1>6. /\ \A i \in DOMAIN u : u[i] = t \/ (i \in DOMAIN q /\ u[i] = q[i])
      /\ Len(q) = Len(u)
  BY <1>1, OneNew
<1>7. r[1] = s /\ Len(r) = Len(u) + 1
  BY <1>2, <1>3 DEF TwoFor, OneFor
<1>8. ASSUME NEW i \in DOMAIN r, i # 1 PROVE i - 1 \in DOMAIN u /\ r[i] = u[i - 1]
  <2>1. \A j \in 1 .. Len(u) : Tail(r)[j] = r[j + 1]
    BY <1>3, <1>7
  <2>2. Len(u) \in Nat /\ DOMAIN u = 1 .. Len(u) /\ DOMAIN r = 1 .. Len(u) + 1
    BY <1>2, <1>3, <1>7
  <2>3. i - 1 \in 1 .. Len(u) /\ (i - 1) + 1 = i
    BY <1>8, <2>2
  <2> QED
    BY <1>3, <2>1, <2>2, <2>3
<1>9. \A i \in DOMAIN r : r[i] \in {s, t} \/ (i - 1 \in DOMAIN q /\ r[i] = q[i - 1])
  BY <1>6, <1>7, <1>8
<1> QED
  BY <1>3, <1>4, <1>5, <1>6, <1>7, <1>9

LEMMA NoSteps == Coming(<< >>) = {} /\ Later(<< >>) = {} /\ DOMAIN << >> = {}
BY DEF Coming, Later

LEMMA OneStep ==
    ASSUME NEW s, NEW q, q = <<s>>
    PROVE  Coming(q) = {s} /\ Later(q) = {} /\ q # << >>
<1>1. DOMAIN q = {1} /\ q[1] = s /\ Tail(q) = << >> /\ q # << >>
  OBVIOUS
<1> QED
  BY <1>1, NoSteps DEF Coming, Later

LEMMA TwoSteps ==
    ASSUME NEW s, NEW t, NEW q, q = <<s, t>>
    PROVE  Coming(q) = {s, t} /\ Later(q) = {t} /\ q # << >>
<1>1. DOMAIN q = {1, 2} /\ q[1] = s /\ q[2] = t
  OBVIOUS
<1>2. Coming(q) = {s, t}
  BY <1>1 DEF Coming
<1>3. Tail(q) = <<t>> /\ q # << >>
  OBVIOUS
<1>4. Later(q) = {t}
  BY <1>3, OneStep DEF Later
<1> QED
  BY <1>2, <1>3, <1>4

LEMMA ThreeSteps ==
    ASSUME NEW s, NEW t, NEW u, NEW q, q = <<s, t, u>>
    PROVE  Coming(q) = {s, t, u} /\ Later(q) = {t, u} /\ q # << >>
<1>1. DOMAIN q = {1, 2, 3} /\ q[1] = s /\ q[2] = t /\ q[3] = u
  OBVIOUS
<1>2. Coming(q) = {s, t, u}
  BY <1>1 DEF Coming
<1>3. Tail(q) = <<t, u>> /\ q # << >>
  OBVIOUS
<1>4. Later(q) = {t, u}
  BY <1>3, TwoSteps DEF Later
<1> QED
  BY <1>2, <1>3, <1>4

-----------------------------------------------------------------------------
(* Steps and items.                                                        *)

PackageOps == {"retag", "lastUpload", "setPackageTags", "propose", "review",
               "preferredHook", "indexEntry"}
TagOps == {"setTagPackages", "initTags", "deprecatedTags", "constructItemIndex"}

(* What the types say of a step, by what it does.                          *)
ItemFields(s, pkgs) ==
    /\ s.op = "modify" => s.pkg \in pkgs /\ s.change \in Change
    /\ s.op = "insert" => s.pkg \in pkgs /\ s.item \in Item
    /\ s.op = "tagsUpdated" => s.pkgs \in SUBSET pkgs

PackageFields(s, pkgs) ==
    /\ s.op \in PackageOps => s.pkg \in pkgs
    /\ s.op = "setPackageTags" => s.tagList \in SUBSET Tag
    /\ s.op \in {"propose", "review"} => s.add \in SUBSET Tag /\ s.del \in SUBSET Tag
    /\ s.op \in {"preferredHook", "indexEntry"} => s.versions \in SUBSET Version

TagFields(s) ==
    /\ s.op = "setTagPackages" => s.tag \in Tag /\ s.pkgs \in SUBSET Package
    /\ s.op = "initTags" => s.tags \in SUBSET (Tag \ {Deprecated})

LEMMA StepFields ==
    ASSUME NEW pkgs, NEW s
    PROVE  /\ s \in ItemSteps(pkgs) \cup PackageSteps(pkgs) =>
                ItemFields(s, pkgs) /\ PackageFields(s, pkgs) /\ s.op \notin TagOps
           /\ s \in ItemSteps(pkgs) \cup TagSteps =>
                ItemFields(s, pkgs) /\ TagFields(s) /\ s.op \notin PackageOps
<1>1. s \in ItemSteps(pkgs) =>
        ItemFields(s, pkgs) /\ s.op \in {"modify", "insert", "tagsUpdated"}
  BY DEF ItemSteps, ItemFields
<1>2. s \in PackageSteps(pkgs) => PackageFields(s, pkgs) /\ s.op \in PackageOps
  BY DEF PackageSteps, PackageFields, PackageOps
<1>3. s \in TagSteps => TagFields(s) /\ s.op \in TagOps
  BY DEF TagSteps, TagFields, TagOps
<1>4. s.op \in {"modify", "insert", "tagsUpdated"} => PackageFields(s, pkgs) /\ TagFields(s)
  BY DEF PackageFields, TagFields, PackageOps
<1>5. s.op \in PackageOps \cup TagOps => ItemFields(s, pkgs)
  BY DEF ItemFields, PackageOps, TagOps
<1>6. s.op \in {"modify", "insert", "tagsUpdated"} => s.op \notin PackageOps \cup TagOps
  BY DEF PackageOps, TagOps
<1>7. s.op \in PackageOps => s.op \notin TagOps
  BY DEF PackageOps, TagOps
<1> QED
  BY <1>1, <1>2, <1>3, <1>4, <1>5, <1>6, <1>7

LEMMA ItemStepsAre ==
    ASSUME NEW pkgs, NEW p \in pkgs
    PROVE  /\ \A change \in Change : Modify(p, change) \in ItemSteps(pkgs)
           /\ \A item \in Item : Insert(p, item) \in ItemSteps(pkgs)
BY DEF Modify, Insert, ItemSteps

LEMMA TellStepsAre ==
    ASSUME NEW pkgs, NEW S \in SUBSET pkgs
    PROVE  RunTagsUpdated(S) \in ItemSteps(pkgs)
BY DEF RunTagsUpdated, ItemSteps

LEMMA LeastIn ==
    ASSUME NEW S \in SUBSET Nat, S # {}
    PROVE  \E m \in S : \A x \in S : m <= x
<1> DEFINE Below == {p \in Nat \X Nat : p[1] < p[2]}
<1>1. IsWellFoundedOn(Below, Nat)
  BY NatLessThanWellFounded DEF OpToRel
<1>2. PICK m \in S : \A x \in S : <<x, m>> \notin Below
  BY <1>1, WFMin
<1>3. ASSUME NEW x \in S PROVE m <= x
  <2>1. x \in Nat /\ m \in Nat /\ ~ (x < m)
    BY <1>2
  <2> QED
    BY <2>1
<1> QED
  BY <1>3

(* A finite set of versions has a highest one: else there were a smallest  *)
(* without.                                                                *)
LEMMA HighestIs ==
    ASSUME NEW S \in SUBSET Nat, IsFiniteSet(S), S # {}
    PROVE  Highest(S) \in S /\ \A v \in S : v <= Highest(S)
<1> DEFINE Sizes == {n \in Nat : \E T \in SUBSET S : /\ T # {} /\ IsFiniteSet(T) /\ Cardinality(T) = n
                                                    /\ ~ \E v \in T : \A x \in T : x <= v}
<1>1. Sizes = {}
  <2> SUFFICES ASSUME Sizes # {} PROVE FALSE
    OBVIOUS
  <2>1. PICK n \in Sizes : \A m \in Sizes : n <= m
    <3>1. Sizes \in SUBSET Nat
      OBVIOUS
    <3> HIDE DEF Sizes
    <3> QED
      BY <3>1, LeastIn
  <2>2. PICK T \in SUBSET S : /\ T # {} /\ IsFiniteSet(T) /\ Cardinality(T) = n
                              /\ ~ \E v \in T : \A x \in T : x <= v
    BY <2>1
  <2>3. PICK t \in T : TRUE
    BY <2>2
  <2>4. IsFiniteSet(T \ {t}) /\ Cardinality(T \ {t}) = n - 1 /\ n \in Nat /\ n - 1 \in Nat
    <3>1. IsFiniteSet(T \ {t}) /\ Cardinality(T \ {t}) = n - 1
      BY <2>2, <2>3, FS_RemoveElement
    <3>2. Cardinality(T \ {t}) \in Nat
      BY <3>1, FS_CardinalityType
    <3>3. n \in Nat
      BY <2>1
    <3> QED
      BY <3>1, <3>2, <3>3
  <2>5. n - 1 \notin Sizes
    BY <2>1, <2>4
  <2>6. T \ {t} = {} \/ \E v \in T \ {t} : \A x \in T \ {t} : x <= v
    BY <2>2, <2>4, <2>5
  <2>7. CASE T \ {t} = {}
    BY <2>2, <2>3, <2>7
  <2>8. ASSUME NEW v \in T \ {t}, \A x \in T \ {t} : x <= v PROVE FALSE
    <3>1. t \in Nat /\ v \in Nat /\ T \subseteq Nat
      BY <2>2, <2>3
    <3>2. CASE t <= v
      BY <2>2, <2>8, <3>1, <3>2
    <3>3. CASE ~ t <= v
      <4>1. \A x \in T : x <= t
        BY <2>8, <3>1, <3>3
      <4> QED
        BY <2>2, <4>1
    <3> QED
      BY <3>2, <3>3
  <2> QED
    BY <2>6, <2>7, <2>8
<1>2. \E v \in S : \A x \in S : x <= v
  <2>1. Cardinality(S) \in Nat
    BY FS_CardinalityType
  <2> QED
    BY <1>1, <2>1
<1> QED
  BY <1>2 DEF Highest

LEMMA HighestOfOne ==
    ASSUME NEW v \in Nat
    PROVE  Highest({v}) = v
<1>1. IsFiniteSet({v}) /\ {v} \in SUBSET Nat /\ {v} # {}
  BY FS_Singleton
<1> QED
  BY <1>1, HighestIs

LEMMA ReferenceType ==
    ASSUME NEW dep, NEW S \in SUBSET Version, IsFiniteSet(S)
    PROVE  ReferenceVersion(dep, S) \in Version \cup {NoVersion}
<1>1. Version \subseteq Nat
  BY ListAssumption
<1>2. S \ dep \in SUBSET Nat /\ IsFiniteSet(S \ dep)
  BY <1>1, FS_Difference
<1>3. S \ dep # {} => Highest(S \ dep) \in S \ dep
  BY <1>2, HighestIs
<1> QED
  BY <1>3 DEF ReferenceVersion

(* Where the highest version is not deprecated, it is the one shown.       *)
LEMMA ConstructedItem ==
    ASSUME TypeOK, NEW p \in Package, IsFiniteSet(index[p]), index[p] # {}
    PROVE  /\ constructItem(p) \in Item
           /\ constructItem(p).deprecated = deprecatedFor[p]
           /\ constructItem(p).tags = tags.packageTags[p]
           /\ ShowsReference(constructItem(p), p)
<1>1. index[p] \in SUBSET Version /\ Version \subseteq Nat /\ deprecatedFor[p] \in Replacements \cup {Nothing}
  BY ListAssumption DEF TypeOK
<1>2. tags.packageTags[p] \in SUBSET Tag
  BY DEF TypeOK, PackageTags
<1>3. PICK v : v = Highest(index[p])
  OBVIOUS
<1>4. v \in index[p] /\ \A w \in index[p] : w <= v
  BY <1>1, <1>3, HighestIs
<1>5. IsFiniteSet({v}) /\ {v} \in SUBSET Version
  BY <1>1, <1>4, FS_Singleton
<1>6. ReferenceVersion(preferred[p], {v}) \in Version \cup {NoVersion}
  BY <1>5, ReferenceType
<1>7. CASE v \in preferred[p]
  <2>1. ReferenceVersion(preferred[p], {v}) = NoVersion
    BY <1>7 DEF ReferenceVersion
  <2> QED
    BY <1>1, <1>2, <1>3, <1>6, <1>7, <2>1 DEF constructItem, Item, ShowsReference
<1>8. CASE v \notin preferred[p]
  <2>1. {v} \ preferred[p] = {v}
    BY <1>8
  <2>2. ReferenceVersion(preferred[p], {v}) = v
    BY <1>1, <1>4, <2>1, HighestOfOne DEF ReferenceVersion
  <2>3. IsFiniteSet(index[p] \ preferred[p]) /\ v \in index[p] \ preferred[p]
    BY <1>4, <1>8, FS_Difference
  <2>4. PICK u : u = Highest(index[p] \ preferred[p])
    OBVIOUS
  <2>5. u \in index[p] \ preferred[p] /\ \A w \in index[p] \ preferred[p] : w <= u
    BY <1>1, <2>3, <2>4, HighestIs
  <2>6. u = v
    <3>1. u \in Nat /\ v \in Nat /\ u <= v /\ v <= u
      BY <1>1, <1>4, <2>3, <2>5
    <3> QED
      BY <3>1
  <2>7. Reference(p) = v
    BY <2>3, <2>4, <2>6 DEF Reference, ReferenceVersion
  <2> QED
    BY <1>1, <1>2, <1>3, <1>6, <2>2, <2>7 DEF constructItem, Item, ShowsReference
<1> QED
  BY <1>7, <1>8

LEMMA ChangedItem ==
    ASSUME NEW item \in Item, NEW change \in Change
    PROVE  /\ Changed(item, change) \in Item
           /\ \A t : change = [tags |-> t] =>
                 Changed(item, change) = [item EXCEPT !.tags = t]
           /\ \A d : change = [deprecated |-> d] =>
                 Changed(item, change) = [item EXCEPT !.deprecated = d]
           /\ \A r : change = [reference |-> r] =>
                 Changed(item, change) = [item EXCEPT !.reference = r]
<1>1. DOMAIN item = {"tags", "deprecated", "reference"}
  BY DEF Item
<1>2. ASSUME NEW t, change = [tags |-> t]
      PROVE  Changed(item, change) \in Item /\ Changed(item, change) = [item EXCEPT !.tags = t]
  <2>1. DOMAIN change = {"tags"} /\ change["tags"] = t
    BY <1>2
  <2>2. t \in SUBSET Tag
    BY <1>2 DEF Change
  <2>3. Changed(item, change) = [item EXCEPT !.tags = t]
    BY <1>1, <2>1 DEF Changed, Item
  <2> QED
    BY <2>2, <2>3 DEF Item
<1>3. ASSUME NEW d, change = [deprecated |-> d]
      PROVE  Changed(item, change) \in Item /\ Changed(item, change) = [item EXCEPT !.deprecated = d]
  <2>1. DOMAIN change = {"deprecated"} /\ change["deprecated"] = d
    BY <1>3
  <2>2. d \in Replacements \cup {Nothing}
    BY <1>3 DEF Change
  <2>3. Changed(item, change) = [item EXCEPT !.deprecated = d]
    BY <1>1, <2>1 DEF Changed, Item
  <2> QED
    BY <2>2, <2>3 DEF Item
<1>4. ASSUME NEW r, change = [reference |-> r]
      PROVE  Changed(item, change) \in Item /\ Changed(item, change) = [item EXCEPT !.reference = r]
  <2>1. DOMAIN change = {"reference"} /\ change["reference"] = r
    BY <1>4
  <2>2. r \in Version \cup {NoVersion}
    BY <1>4 DEF Change
  <2>3. Changed(item, change) = [item EXCEPT !.reference = r]
    BY <1>1, <2>1 DEF Changed, Item
  <2> QED
    BY <2>2, <2>3 DEF Item
<1>5. \/ \E t : change = [tags |-> t]
      \/ \E d : change = [deprecated |-> d]
      \/ \E r : change = [reference |-> r]
  BY DEF Change
<1> QED
  BY <1>2, <1>3, <1>4, <1>5

-----------------------------------------------------------------------------
(* Tags.                                                                   *)

LEMMA SetTagsGives ==
    ASSUME NEW pt \in PackageTags, NEW p \in Package, NEW tagList \in SUBSET Tag,
           NEW r, r = setTags(p, tagList, pt)
    PROVE  /\ r \in PackageTags
           /\ r.packageTags = [pt.packageTags EXCEPT ![p] = tagList]
           /\ OneRelation(pt) => OneRelation(r)
<1>1. /\ pt.packageTags \in [Package -> SUBSET Tag]
      /\ pt.tagPackages \in [Tag -> SUBSET Package]
      /\ pt.reviewTags \in [Package -> Review]
  BY DEF PackageTags
<1>2. /\ r.packageTags = [pt.packageTags EXCEPT ![p] = tagList]
      /\ r.reviewTags = pt.reviewTags
      /\ r.tagPackages = [t \in Tag |->
            IF t \in tagList \ pt.packageTags[p] THEN pt.tagPackages[t] \cup {p}
            ELSE IF t \in pt.packageTags[p] \ tagList THEN pt.tagPackages[t] \ {p}
            ELSE pt.tagPackages[t]]
  BY DEF setTags, PackageTags
<1>3. r = [packageTags |-> r.packageTags, tagPackages |-> r.tagPackages, reviewTags |-> r.reviewTags]
  BY DEF setTags, PackageTags
<1>4. r.packageTags \in [Package -> SUBSET Tag] /\ r.tagPackages \in [Tag -> SUBSET Package]
  BY <1>1, <1>2
<1>5. r \in PackageTags
  BY <1>1, <1>2, <1>3, <1>4 DEF PackageTags
<1>6. ASSUME OneRelation(pt), NEW q \in Package, NEW t \in Tag
      PROVE  t \in r.packageTags[q] <=> q \in r.tagPackages[t]
  <2>1. t \in pt.packageTags[q] <=> q \in pt.tagPackages[t]
    BY <1>6 DEF OneRelation
  <2>2. CASE q = p
    BY <1>1, <1>2, <2>1, <2>2
  <2>3. CASE q # p
    BY <1>1, <1>2, <2>1, <2>3
  <2> QED
    BY <2>2, <2>3
<1> QED
  BY <1>2, <1>5, <1>6 DEF OneRelation

(* The packages have the tag, the others do not; other tags are as before. *)
HasTag(r, t, pkgs, pt) ==
    \A p \in Package : r.packageTags[p] = IF p \in pkgs THEN pt.packageTags[p] \cup {t}
                                          ELSE pt.packageTags[p] \ {t}

LEMMA SetTagGives ==
    ASSUME NEW pt \in PackageTags, NEW t \in Tag, NEW pkgs \in SUBSET Package,
           OneRelation(pt), NEW r, r = setTag(t, pkgs, pt)
    PROVE  /\ r \in PackageTags
           /\ HasTag(r, t, pkgs, pt)
           /\ OneRelation(r)
<1>1. /\ pt.packageTags \in [Package -> SUBSET Tag]
      /\ pt.tagPackages \in [Tag -> SUBSET Package]
      /\ pt.reviewTags \in [Package -> Review]
  BY DEF PackageTags
<1>2. /\ r.tagPackages = [pt.tagPackages EXCEPT ![t] = pkgs]
      /\ r.reviewTags = pt.reviewTags
      /\ r.packageTags = [p \in Package |->
            IF p \in pkgs \ pt.tagPackages[t] THEN pt.packageTags[p] \cup {t}
            ELSE IF p \in pt.tagPackages[t] \ pkgs THEN pt.packageTags[p] \ {t}
            ELSE pt.packageTags[p]]
  BY DEF setTag, PackageTags
<1>3. r = [packageTags |-> r.packageTags, tagPackages |-> r.tagPackages, reviewTags |-> r.reviewTags]
  BY DEF setTag, PackageTags
<1>4. r.packageTags \in [Package -> SUBSET Tag] /\ r.tagPackages \in [Tag -> SUBSET Package]
  BY <1>1, <1>2
<1>5. r \in PackageTags
  BY <1>1, <1>2, <1>3, <1>4 DEF PackageTags
<1>6. ASSUME NEW p \in Package
      PROVE  r.packageTags[p] = IF p \in pkgs THEN pt.packageTags[p] \cup {t}
                                ELSE pt.packageTags[p] \ {t}
  <2>1. t \in pt.packageTags[p] <=> p \in pt.tagPackages[t]
    BY DEF OneRelation
  <2>2. r.packageTags[p] = IF p \in pkgs \ pt.tagPackages[t] THEN pt.packageTags[p] \cup {t}
                           ELSE IF p \in pt.tagPackages[t] \ pkgs THEN pt.packageTags[p] \ {t}
                           ELSE pt.packageTags[p]
    BY <1>2
  <2>3. CASE p \in pkgs
    <3>1. CASE p \in pt.tagPackages[t]
      <4>1. pt.packageTags[p] \cup {t} = pt.packageTags[p]
        BY <2>1, <3>1
      <4> QED
        BY <2>2, <2>3, <3>1, <4>1
    <3> QED
      BY <2>2, <2>3, <3>1
  <2>4. CASE p \notin pkgs
    <3>1. CASE p \notin pt.tagPackages[t]
      <4>1. pt.packageTags[p] \ {t} = pt.packageTags[p]
        BY <2>1, <3>1
      <4> QED
        BY <2>2, <2>4, <3>1, <4>1
    <3> QED
      BY <2>2, <2>4, <3>1
  <2> QED
    BY <2>3, <2>4
<1>7. ASSUME NEW q \in Package, NEW u \in Tag
      PROVE  u \in r.packageTags[q] <=> q \in r.tagPackages[u]
  <2>1. u \in pt.packageTags[q] <=> q \in pt.tagPackages[u]
    BY DEF OneRelation
  <2> QED
    BY <1>1, <1>2, <1>6, <2>1
<1> QED
  BY <1>5, <1>6, <1>7 DEF OneRelation, HasTag

(* Proposals leave the tags alone.                                         *)
LEMMA ReviewsGive ==
    ASSUME NEW pt \in PackageTags, NEW p \in Package, NEW add \in SUBSET Tag, NEW del \in SUBSET Tag,
           NEW r, r = insertReviewTags(p, add, del, pt) \/ r = replaceReviewTags(p, add, del, pt)
    PROVE  /\ r \in PackageTags
           /\ r.packageTags = pt.packageTags
           /\ OneRelation(pt) => OneRelation(r)
<1>1. /\ pt.packageTags \in [Package -> SUBSET Tag]
      /\ pt.tagPackages \in [Tag -> SUBSET Package]
      /\ pt.reviewTags \in [Package -> Review]
  BY DEF PackageTags
<1>2. \E add2, del2 \in SUBSET Tag :
        r = [pt EXCEPT !.reviewTags = [@ EXCEPT ![p] = [add |-> add2, del |-> del2]]]
  <2>1. pt.reviewTags[p].add \in SUBSET Tag /\ pt.reviewTags[p].del \in SUBSET Tag
    BY <1>1 DEF Review
  <2>2. CASE r = replaceReviewTags(p, add, del, pt)
    BY <2>2 DEF replaceReviewTags
  <2>3. CASE r = insertReviewTags(p, add, del, pt)
    <3>1. PICK add2 \in SUBSET Tag, del2 \in SUBSET Tag :
            add2 = add \cup pt.reviewTags[p].add /\ del2 = del \cup pt.reviewTags[p].del
      BY <2>1
    <3>2. r = [pt EXCEPT !.reviewTags = [@ EXCEPT ![p] = [add |-> add2, del |-> del2]]]
      BY <2>3, <3>1 DEF insertReviewTags
    <3> QED
      BY <3>2
  <2> QED
    BY <2>2, <2>3
<1>3. PICK add2, del2 \in SUBSET Tag :
        r = [pt EXCEPT !.reviewTags = [@ EXCEPT ![p] = [add |-> add2, del |-> del2]]]
  BY <1>2
<1>4. PICK f : f = [pt.reviewTags EXCEPT ![p] = [add |-> add2, del |-> del2]]
  OBVIOUS
<1>5. f \in [Package -> Review]
  BY <1>1, <1>4 DEF Review
<1>6. r = [packageTags |-> pt.packageTags, tagPackages |-> pt.tagPackages, reviewTags |-> f]
  BY <1>3, <1>4 DEF PackageTags
<1> QED
  BY <1>1, <1>5, <1>6 DEF PackageTags, OneRelation

-----------------------------------------------------------------------------
(* Threads.                                                                *)

(* The order of the steps is kept when the next one is done and ...        *)
LEMMA OrderlyNothing ==
    ASSUME NEW S, NEW q \in Seq(S), q # << >>, Orderly(q), NEW r, NoneFor(q, r)
    PROVE  Orderly(r)
<1>1. /\ r \in Seq(S)
      /\ Coming(r) = Later(q)
      /\ Later(r) \subseteq Later(q)
      /\ \A i \in DOMAIN r : i + 1 \in DOMAIN q /\ r[i] = q[i + 1]
      /\ Len(q) = Len(r) + 1
  BY NothingNew
<1>2. Coming(q) = {Head(q)} \cup Later(q)
  BY ComingIs
<1>3. \A s \in Later(r) : s.op \in Cold
  BY <1>1 DEF Orderly
<1>4. ASSUME NEW i \in DOMAIN r, r[i].op = "constructItemIndex" PROVE i = Len(r)
  <2>1. i + 1 \in DOMAIN q /\ q[i + 1].op = "constructItemIndex" /\ i \in Nat /\ Len(r) \in Nat
    BY <1>1, <1>4
  <2>2. i + 1 = Len(q)
    BY <2>1 DEF Orderly
  <2> QED
    BY <1>1, <2>1, <2>2
<1>5. ASSUME NEW s \in Coming(r), s.op = "initTags" PROVE BuildsList(r)
  <2>1. BuildsList(q) /\ s \in Later(q)
    BY <1>1, <1>2, <1>5 DEF Orderly
  <2>2. ASSUME Head(q).op = "constructItemIndex" PROVE FALSE
    <3>1. q[1].op = "constructItemIndex" /\ 1 \in DOMAIN q
      BY <2>2
    <3>2. 1 = Len(q)
      BY <3>1 DEF Orderly
    <3>3. DOMAIN r = {}
      BY <1>1, <3>2
    <3> QED
      BY <1>5, <3>3 DEF Coming
  <2> QED
    BY <1>1, <1>2, <2>1, <2>2 DEF BuildsList
<1>6. \A s \in Coming(r) : s.op # "setPackageTags" /\ s.op # "setTagPackages"
  BY <1>1 DEF Orderly, Cold
<1> QED
  BY <1>3, <1>4, <1>5, <1>6 DEF Orderly

(* ... another comes in its place, ...                                     *)
LEMMA OrderlyOne ==
    ASSUME NEW S, NEW q \in Seq(S), q # << >>, Orderly(q), NEW s \in S, NEW r, OneFor(q, s, r),
           Head(q).op # "constructItemIndex", s.op # "constructItemIndex",
           s.op = "initTags" \/ (s.op = "setTagPackages" /\ s.tag # Deprecated) => BuildsList(q),
           s.op = "setPackageTags" => \E t \in Later(q) : t.op = "tagsUpdated" /\ s.pkg \in t.pkgs
    PROVE  Orderly(r)
<1>1. /\ r \in Seq(S)
      /\ r # << >>
      /\ Coming(r) = {s} \cup Later(q)
      /\ Later(r) = Later(q)
      /\ \A i \in DOMAIN r : r[i] = s \/ (i \in DOMAIN q /\ r[i] = q[i])
      /\ Len(q) = Len(r)
  <2>1. r \in Seq(S) /\ r # << >>
    BY OneNew
  <2>2. Coming(r) = {s} \cup Later(q)
    BY OneNew
  <2>5. Later(r) = Later(q)
    BY OneNew
  <2>3. \A i \in DOMAIN r : r[i] = s \/ (i \in DOMAIN q /\ r[i] = q[i])
    BY OneNew
  <2>4. Len(q) = Len(r)
    BY OneNew
  <2> QED
    BY <2>1, <2>2, <2>3, <2>4, <2>5
<1>2. Coming(q) = {Head(q)} \cup Later(q)
  BY ComingIs
<1>3. BuildsList(q) => BuildsList(r)
  BY <1>1, <1>2 DEF BuildsList
<1>4. \A i \in DOMAIN r : r[i].op = "constructItemIndex" => i = Len(r)
  BY <1>1 DEF Orderly
<1>5. \A t \in Later(q) : t.op # "setPackageTags" /\ t.op # "setTagPackages" /\ t \in Coming(q)
  BY <1>2 DEF Orderly, Cold
<1>6. \A t \in Coming(r) :
        t.op = "initTags" \/ (t.op = "setTagPackages" /\ t.tag # Deprecated) => BuildsList(r)
  BY <1>1, <1>3, <1>5 DEF Orderly
<1>7. \A t \in Coming(r) : t.op = "setPackageTags" =>
        \E u \in Later(r) : u.op = "tagsUpdated" /\ t.pkg \in u.pkgs
  BY <1>1, <1>5
<1>8. \A t \in Later(r) : t.op \in Cold
  BY <1>1 DEF Orderly
<1> QED
  BY <1>4, <1>6, <1>7, <1>8 DEF Orderly

(* ... or two.                                                             *)
LEMMA OrderlyTwo ==
    ASSUME NEW S, NEW q \in Seq(S), q # << >>, Orderly(q), NEW s \in S, NEW t \in S,
           NEW r, TwoFor(q, s, t, r),
           Head(q).op # "constructItemIndex", s.op # "constructItemIndex",
           t.op \in Cold \ {"constructItemIndex"},
           s.op = "setTagPackages" /\ s.tag # Deprecated => BuildsList(q),
           s.op = "initTags" \/ t.op = "initTags" => BuildsList(q),
           s.op = "setPackageTags" => t.op = "tagsUpdated" /\ s.pkg \in t.pkgs
    PROVE  Orderly(r)
<1>1. /\ r \in Seq(S)
      /\ r # << >>
      /\ Coming(r) = {s, t} \cup Later(q)
      /\ Later(r) = {t} \cup Later(q)
      /\ \A i \in DOMAIN r : r[i] \in {s, t} \/ (i - 1 \in DOMAIN q /\ r[i] = q[i - 1])
      /\ Len(r) = Len(q) + 1
  <2>1. r \in Seq(S) /\ r # << >>
    BY TwoNew
  <2>2. Coming(r) = {s, t} \cup Later(q)
    BY TwoNew
  <2>5. Later(r) = {t} \cup Later(q)
    BY TwoNew
  <2>3. \A i \in DOMAIN r : r[i] \in {s, t} \/ (i - 1 \in DOMAIN q /\ r[i] = q[i - 1])
    BY TwoNew
  <2>4. Len(r) = Len(q) + 1
    BY TwoNew
  <2> QED
    BY <2>1, <2>2, <2>3, <2>4, <2>5
<1>2. Coming(q) = {Head(q)} \cup Later(q)
  BY ComingIs
<1>3. BuildsList(q) => BuildsList(r)
  BY <1>1, <1>2 DEF BuildsList
<1>4. ASSUME NEW i \in DOMAIN r, r[i].op = "constructItemIndex" PROVE i = Len(r)
  <2>1. i - 1 \in DOMAIN q /\ q[i - 1].op = "constructItemIndex"
    BY <1>1, <1>4 DEF Cold
  <2>2. i - 1 = Len(q) /\ i \in Nat /\ Len(q) \in Nat
    BY <1>1, <2>1 DEF Orderly
  <2> QED
    BY <1>1, <2>2
<1>5. \A u \in Later(q) : u.op # "setPackageTags" /\ u.op # "setTagPackages" /\ u \in Coming(q)
  BY <1>2 DEF Orderly, Cold
<1>6. \A u \in Coming(r) :
        u.op = "initTags" \/ (u.op = "setTagPackages" /\ u.tag # Deprecated) => BuildsList(r)
  BY <1>1, <1>3, <1>5 DEF Orderly, Cold
<1>7. \A u \in Coming(r) : u.op = "setPackageTags" =>
        \E v \in Later(r) : v.op = "tagsUpdated" /\ u.pkg \in v.pkgs
  BY <1>1, <1>5 DEF Cold
<1>8. \A u \in Later(r) : u.op \in Cold
  BY <1>1 DEF Orderly
<1> QED
  BY <1>4, <1>6, <1>7, <1>8 DEF Orderly

LEMMA NothingOrderly == Orderly(<< >>)
BY NoSteps DEF Orderly
(* The steps a thread may have to do, with these packages in its scope.    *)
Kinds(pkgs) == {ItemSteps(pkgs) \cup PackageSteps(pkgs)}
               \cup IF pkgs = Package THEN {ItemSteps(Package) \cup TagSteps} ELSE {}

LEMMA KindFields ==
    ASSUME NEW pkgs, NEW S \in Kinds(pkgs), NEW s \in S
    PROVE  /\ ItemFields(s, pkgs)
           /\ ItemSteps(pkgs) \subseteq S
           /\ s.op \in PackageOps =>
                PackageFields(s, pkgs) /\ PackageSteps(pkgs) \subseteq S
           /\ s.op \in TagOps =>
                TagFields(s) /\ TagSteps \subseteq S /\ pkgs = Package
<1>1. CASE S = ItemSteps(pkgs) \cup PackageSteps(pkgs)
  BY <1>1, StepFields
<1>2. CASE pkgs = Package /\ S = ItemSteps(pkgs) \cup TagSteps
  BY <1>2, StepFields
<1> QED
  BY <1>1, <1>2 DEF Kinds

LEMMA ThreadKind ==
    ASSUME TypeOK, NEW w \in Thread
    PROVE  \E S \in Kinds(scope[w]) : todo[w] \in Seq(S)
BY DEF TypeOK, Kinds

(* A thread goes on, or ends and has no packages in its scope.             *)
LEMMA ThenTypes ==
    ASSUME TypeOK, NEW w \in Thread, NEW new, Then(w, new),
           NEW S \in Kinds(scope[w]), todo'[w] \in Seq(S)
    PROVE  /\ scope' \in [Thread -> SUBSET Package]
           /\ DOMAIN todo' = Thread
           /\ \A v \in Thread :
                 \/ todo'[v] \in Seq(ItemSteps(scope'[v]) \cup PackageSteps(scope'[v]))
                 \/ scope'[v] = Package /\ todo'[v] \in Seq(ItemSteps(Package) \cup TagSteps)
           /\ \A v \in Thread \ {w} : todo'[v] = todo[v] /\ scope'[v] = scope[v]
           /\ todo'[w] = new \o Tail(todo[w])
           /\ scope'[w] = IF todo'[w] = << >> THEN {} ELSE scope[w]
<1>1. DOMAIN todo = Thread /\ scope \in [Thread -> SUBSET Package]
  BY DEF TypeOK
<1>2. todo' = [todo EXCEPT ![w] = new \o Tail(todo[w])]
  BY DEF Then
<1>3. scope' = [scope EXCEPT ![w] = IF new \o Tail(todo[w]) = << >> THEN {} ELSE @]
  BY DEF Then
<1>4. /\ DOMAIN todo' = Thread
      /\ todo'[w] = new \o Tail(todo[w])
      /\ \A v \in Thread \ {w} : todo'[v] = todo[v] /\ scope'[v] = scope[v]
  BY <1>1, <1>2, <1>3
<1>5. scope'[w] = IF todo'[w] = << >> THEN {} ELSE scope[w]
  BY <1>1, <1>3, <1>4
<1>6. scope' \in [Thread -> SUBSET Package]
  BY <1>1, <1>3
<1>7. ASSUME NEW v \in Thread
      PROVE  \/ todo'[v] \in Seq(ItemSteps(scope'[v]) \cup PackageSteps(scope'[v]))
             \/ scope'[v] = Package /\ todo'[v] \in Seq(ItemSteps(Package) \cup TagSteps)
  <2>1. CASE v # w
    BY <1>4, <2>1 DEF TypeOK
  <2>2. CASE v = w /\ todo'[w] = << >>
    BY <2>2
  <2>3. CASE v = w /\ todo'[w] # << >>
    BY <1>5, <2>3 DEF Kinds
  <2> QED
    BY <2>1, <2>2, <2>3
<1> QED
  BY <1>4, <1>5, <1>6, <1>7

(* All that the features hold of a package is as before.                   *)
SameData(p) ==
    /\ index'[p] = index[p] /\ preferred'[p] = preferred[p]
    /\ deprecatedFor'[p] = deprecatedFor[p]
    /\ tags'.packageTags[p] = tags.packageTags[p]
Same(p) ==
    /\ SameData(p)
    /\ p \in DOMAIN itemCache' <=> p \in DOMAIN itemCache
    /\ p \in DOMAIN itemCache => itemCache'[p] = itemCache[p]

LEMMA SameFacts ==
    ASSUME NEW p \in Package, SameData(p)
    PROVE  /\ p \in InIndex' <=> p \in InIndex
           /\ IsDeprecated(p)' <=> IsDeprecated(p)
           /\ Told(p)' <=> Told(p)
           /\ Reference(p)' = Reference(p)
           /\ constructItem(p)' = constructItem(p)
           /\ \A item : /\ ShowsDeprecation(item, p)' <=> ShowsDeprecation(item, p)
                        /\ ShowsTags(item, p)' <=> ShowsTags(item, p)
                        /\ ShowsReference(item, p)' <=> ShowsReference(item, p)
           /\ \A s : /\ RenewsDeprecation(s, p)' <=> RenewsDeprecation(s, p)
                     /\ RenewsTags(s, p)' <=> RenewsTags(s, p)
                     /\ RenewsReference(s, p)' <=> RenewsReference(s, p)
                     /\ Fresh(s, p)' <=> Fresh(s, p)
<1>1. p \in InIndex' <=> p \in InIndex
  BY DEF InIndex, SameData
<1>2. IsDeprecated(p)' <=> IsDeprecated(p)
  BY DEF IsDeprecated, SameData
<1>3. Told(p)' <=> Told(p)
  BY <1>2 DEF Told, SameData
<1>4. Reference(p)' = Reference(p)
  BY DEF Reference, SameData
<1>5. constructItem(p)' = constructItem(p)
  BY DEF constructItem, SameData
<1>6. ASSUME NEW item
      PROVE  /\ ShowsDeprecation(item, p)' <=> ShowsDeprecation(item, p)
             /\ ShowsTags(item, p)' <=> ShowsTags(item, p)
             /\ ShowsReference(item, p)' <=> ShowsReference(item, p)
  BY <1>4 DEF ShowsDeprecation, ShowsTags, ShowsReference, SameData
<1>7. ASSUME NEW s
      PROVE  /\ RenewsDeprecation(s, p)' <=> RenewsDeprecation(s, p)
             /\ RenewsTags(s, p)' <=> RenewsTags(s, p)
             /\ RenewsReference(s, p)' <=> RenewsReference(s, p)
  BY <1>4 DEF RenewsDeprecation, RenewsTags, RenewsReference, SameData
<1>8. ASSUME NEW s PROVE Fresh(s, p)' <=> Fresh(s, p)
  BY <1>1, <1>2, <1>4, <1>5 DEF Fresh, SameData
<1> QED
  BY <1>1, <1>2, <1>3, <1>4, <1>5, <1>6, <1>7, <1>8

LEMMA WellSame ==
    ASSUME NEW p \in Package, NEW steps, Same(p), Well(steps, p)
    PROVE  Well(steps, p)'
<1>1. SameData(p)
  BY DEF Same
<1>2. \A s \in steps : Fresh(s, p)'
  BY <1>1, SameFacts DEF Well
<1>3. (Told(p) \/ \E s \in steps : Tells(s))'
  BY <1>1, SameFacts DEF Well
<1>4. (p \in InIndex => p \in DOMAIN itemCache \/ \E s \in steps : Lists(s, p))'
  BY <1>1, SameFacts DEF Well, Same, Lists
<1>5. ASSUME p \in DOMAIN itemCache'
      PROVE  /\ ShowsDeprecation(itemCache[p], p)' \/ \E s \in steps : RenewsDeprecation(s, p)'
             /\ ShowsTags(itemCache[p], p)' \/ \E s \in steps : RenewsTags(s, p)'
             /\ ShowsReference(itemCache[p], p)' \/ \E s \in steps : RenewsReference(s, p)'
  <2>1. p \in DOMAIN itemCache /\ itemCache'[p] = itemCache[p]
    BY <1>5 DEF Same
  <2>2. /\ ShowsDeprecation(itemCache[p], p)' <=> ShowsDeprecation(itemCache[p], p)
        /\ ShowsTags(itemCache[p], p)' <=> ShowsTags(itemCache[p], p)
        /\ ShowsReference(itemCache[p], p)' <=> ShowsReference(itemCache[p], p)
    <3>1. Reference(p)' = Reference(p)
      BY <1>1, SameFacts
    <3> QED
      BY <1>1, <2>1, <3>1 DEF ShowsDeprecation, ShowsTags, ShowsReference, SameData
  <2>3. \A s : /\ RenewsDeprecation(s, p)' <=> RenewsDeprecation(s, p)
               /\ RenewsTags(s, p)' <=> RenewsTags(s, p)
               /\ RenewsReference(s, p)' <=> RenewsReference(s, p)
    BY <1>1, SameFacts
  <2> QED
    BY <2>1, <2>2, <2>3 DEF Well
<1> QED
  BY <1>2, <1>3, <1>4, <1>5 DEF Well

LEMMA NextSteps ==
    ASSUME NEW v, NEW q, q = todo'[v]
    PROVE  /\ Coming(todo[v])' = Coming(q)
           /\ Orderly(q) => Orderly(todo[v])'
<1>1. Coming(todo[v])' = Coming(q)
  BY DEF Coming
<1>2. Later(todo[v])' = Later(q)
  BY DEF Later, Coming
<1>3. BuildsList(todo[v])' <=> BuildsList(q)
  BY <1>1 DEF BuildsList
<1> QED
  BY <1>1, <1>2, <1>3 DEF Orderly

(* While a thread goes on it is enough that its remaining steps suit the   *)
(* packages in its scope.                                                  *)
LEMMA ThenKeeps ==
    ASSUME ListInv, NEW w \in Thread, todo[w] # << >>, NEW new, Then(w, new),
           NEW S \in Kinds(scope[w]), NEW r \in Seq(S), r = todo'[w],
           TypeOK', TagMapsAgree', UNCHANGED <<index, overlapped>>, Orderly(r),
           \A p \in Package \ overlapped :
              IF p \in scope[w] THEN Well(Coming(todo[w]), p) => Well(Coming(r), p)' ELSE Same(p)
    PROVE  ListInv'
<1>0. TypeOK /\ Apart
  BY DEF ListInv
<1>1. /\ \A v \in Thread \ {w} : todo'[v] = todo[v] /\ scope'[v] = scope[v]
      /\ scope'[w] = IF todo'[w] = << >> THEN {} ELSE scope[w]
  BY <1>0, ThenTypes
<1>2. Apart'
  <2>1. \A v \in Thread : todo'[v] = << >> => scope'[v] = {}
    BY <1>0, <1>1 DEF Apart
  <2>2. \A u, v \in Thread : u # v => scope'[u] \cap scope'[v] \subseteq overlapped'
    BY <1>0, <1>1 DEF Apart
  <2>3. todo'[Main] # << >> => \A v \in Request : todo'[v] = << >>
    <3>1. w \in Request \/ w = Main
      BY DEF Thread
    <3>2. Main \notin Request /\ Main \in Thread /\ Request \subseteq Thread
      BY ListAssumption DEF Thread
    <3> QED
      BY <1>0, <1>1, <3>1, <3>2 DEF Apart
  <2> QED
    BY <2>1, <2>2, <2>3 DEF Apart
<1>3. \A v \in Thread : Orderly(todo[v])'
  <2> SUFFICES ASSUME NEW v \in Thread PROVE Orderly(todo[v])'
    OBVIOUS
  <2>1. CASE v = w
    BY <2>1, NextSteps
  <2>2. CASE v # w
    <3>1. Orderly(todo[v]) /\ todo'[v] = todo[v]
      BY <1>1, <2>2 DEF ListInv
    <3> QED
      BY <3>1, NextSteps
  <2> QED
    BY <2>1, <2>2
<1>4. ASSUME NEW p \in Package \ overlapped' PROVE Waiting(p)'
  <2>0. p \in Package \ overlapped /\ Waiting(p)
    BY <1>4 DEF ListInv
  <2>1. CASE p \in scope[w]
    <3>1. Busy(p) = {w} /\ Busy(p)' \subseteq {w}
      BY <1>0, <1>1, <2>0, <2>1 DEF Busy, Apart
    <3>2. Well(Coming(todo[w]), p)
      BY <2>0, <3>1 DEF Waiting, Ahead
    <3>3. Well(Coming(r), p)'
      BY <2>0, <2>1, <3>2
    <3>4. CASE r = << >>
      <4>1. Busy(p)' = {}
        BY <1>1, <3>1, <3>4 DEF Busy
      <4>2. Coming(r) = {}
        BY <3>4, ComingIs
      <4> QED
        BY <3>3, <4>1, <4>2 DEF Waiting, Ahead
    <3>5. CASE r # << >>
      <4>1. Busy(p)' = {w}
        BY <1>1, <2>1, <3>1, <3>5 DEF Busy
      <4>2. Ahead(p)' = {Coming(r)}
        BY <4>1 DEF Ahead, Coming
      <4> QED
        BY <3>3, <4>2 DEF Waiting
    <3> QED
      BY <3>4, <3>5
  <2>2. CASE p \notin scope[w]
    <3>1. Same(p)
      BY <2>0, <2>2
    <3>2. Busy(p)' = Busy(p) /\ \A v \in Busy(p) : todo'[v] = todo[v]
      BY <1>1, <2>2 DEF Busy
    <3>3. Ahead(p)' = Ahead(p)
      <4>1. \A v \in Busy(p) : Coming(todo[v])' = Coming(todo[v])
        BY <3>2, NextSteps
      <4> QED
        BY <3>2, <4>1 DEF Ahead
    <3>4. ASSUME NEW steps \in Ahead(p) PROVE Well(steps, p)'
      BY <2>0, <3>1, <3>4, WellSame DEF Waiting
    <3> QED
      BY <3>3, <3>4 DEF Waiting
  <2> QED
    BY <2>1, <2>2
<1>5. \A p \in Package : IsFiniteSet(index'[p])
  BY DEF ListInv
<1> QED
  BY <1>2, <1>3, <1>4, <1>5 DEF ListInv

(* The new steps, and those that are left, do for the package what the     *)
(* step h was to do and does not.                                          *)
Kept(p, h, left, new) ==
    /\ \A s \in new : Fresh(s, p)'
    /\ Told(p) \/ Tells(h) => Told(p)' \/ \E s \in new : Tells(s)
    /\ p \in InIndex /\ (p \in DOMAIN itemCache \/ Lists(h, p)) =>
          p \in DOMAIN itemCache' \/ \E s \in new : Lists(s, p)
    /\ p \in DOMAIN itemCache' =>
          /\ (p \in DOMAIN itemCache =>
                ShowsDeprecation(itemCache[p], p) \/ RenewsDeprecation(h, p)) =>
             ShowsDeprecation(itemCache[p], p)' \/ \E s \in new : RenewsDeprecation(s, p)'
          /\ (p \in DOMAIN itemCache => ShowsTags(itemCache[p], p) \/ RenewsTags(h, p)) =>
             \/ ShowsTags(itemCache[p], p)' \/ \E s \in new : RenewsTags(s, p)'
             \/ \E s \in left : RenewsTags(s, p)
          /\ (p \in DOMAIN itemCache =>
                ShowsReference(itemCache[p], p) \/ RenewsReference(h, p)) =>
             ShowsReference(itemCache[p], p)' \/ \E s \in new : RenewsReference(s, p)'

LEMMA WellStep ==
    ASSUME NEW p \in Package, NEW steps, NEW h, NEW left, NEW new,
           steps = {h} \cup left, \A s \in left : s.op \in Cold, Well(steps, p),
           index'[p] = index[p], Kept(p, h, left, new)
    PROVE  Well(new \cup left, p)'
<1>1. ASSUME NEW s \in left
      PROVE  /\ Fresh(s, p)'
             /\ RenewsDeprecation(s, p) => RenewsDeprecation(s, p)'
             /\ RenewsTags(s, p) => RenewsTags(s, p)'
             /\ RenewsReference(s, p) => RenewsReference(s, p)'
  <2>1. s.op \in Cold
    OBVIOUS
  <2>2. s.op \notin {"setPackageTags", "preferredHook", "insert", "modify"}
    BY <2>1 DEF Cold
  <2>3. s.op # "setTagPackages"
    BY <2>1 DEF Cold
  <2>4. \A c : s # Modify(p, c)
    BY <2>2 DEF Modify
  <2> QED
    BY <2>2, <2>3, <2>4 DEF Fresh, RenewsDeprecation, RenewsTags, RenewsReference
<1>2. \A s \in new \cup left : Fresh(s, p)'
  BY <1>1 DEF Kept
<1>3. (Told(p) \/ \E s \in new \cup left : Tells(s))'
  BY DEF Well, Kept
<1>4. p \in InIndex' <=> p \in InIndex
  BY DEF InIndex
<1>5. (p \in InIndex => p \in DOMAIN itemCache \/ \E s \in new \cup left : Lists(s, p))'
  BY <1>4 DEF Well, Lists, Kept
<1>6. ASSUME p \in DOMAIN itemCache'
      PROVE  /\ ShowsDeprecation(itemCache[p], p)' \/ \E s \in new \cup left : RenewsDeprecation(s, p)'
             /\ ShowsTags(itemCache[p], p)' \/ \E s \in new \cup left : RenewsTags(s, p)'
             /\ ShowsReference(itemCache[p], p)' \/ \E s \in new \cup left : RenewsReference(s, p)'
  <2>1. ShowsDeprecation(itemCache[p], p)' \/ \E s \in new \cup left : RenewsDeprecation(s, p)'
    BY <1>1, <1>6 DEF Well, Kept
  <2>2. ShowsTags(itemCache[p], p)' \/ \E s \in new \cup left : RenewsTags(s, p)'
    BY <1>1, <1>6 DEF Well, Kept
  <2>3. ShowsReference(itemCache[p], p)' \/ \E s \in new \cup left : RenewsReference(s, p)'
    BY <1>1, <1>6 DEF Well, Kept
  <2> QED
    BY <2>1, <2>2, <2>3
<1> QED
  BY <1>2, <1>3, <1>5, <1>6 DEF Well

(* A step of other packages.                                               *)
LEMMA KeptSame ==
    ASSUME NEW p \in Package, NEW h, NEW left, NEW new, Same(p), \A s \in new : Fresh(s, p)',
           Tells(h) => \E s \in new : Tells(s),
           ~ Lists(h, p), ~ RenewsDeprecation(h, p), ~ RenewsTags(h, p), ~ RenewsReference(h, p)
    PROVE  Kept(p, h, left, new)
<1>1. SameData(p)
  BY DEF Same
<1>2. Told(p)' <=> Told(p)
  BY <1>1, SameFacts
<1>3. ASSUME p \in DOMAIN itemCache
      PROVE  /\ ShowsDeprecation(itemCache[p], p)' <=> ShowsDeprecation(itemCache[p], p)
             /\ ShowsTags(itemCache[p], p)' <=> ShowsTags(itemCache[p], p)
             /\ ShowsReference(itemCache[p], p)' <=> ShowsReference(itemCache[p], p)
  <2>1. Reference(p)' = Reference(p) /\ itemCache'[p] = itemCache[p]
    BY <1>1, <1>3, SameFacts DEF Same
  <2> QED
    BY <1>1, <2>1 DEF ShowsDeprecation, ShowsTags, ShowsReference, SameData
<1> QED
  BY <1>2, <1>3 DEF Kept, Same

-----------------------------------------------------------------------------
(* Steps that keep the invariant, by the number of steps they call for.    *)

DataOK ==
    /\ index \in [Package -> SUBSET Version]
    /\ preferred \in [Package -> SUBSET Version]
    /\ deprecatedFor \in [Package -> Replacements \cup {Nothing}]
    /\ tags \in PackageTags
    /\ entry \in [Package -> SUBSET Version]
    /\ DOMAIN itemCache \subseteq Package /\ itemCache \in [DOMAIN itemCache -> Item]
    /\ overlapped \subseteq Package /\ unsure \subseteq Package

(* What every step leaves as it is, and what it does for the packages.     *)
Regular(w, new) ==
    /\ todo[w] # << >>
    /\ DataOK' /\ TagMapsAgree'
    /\ UNCHANGED <<index, overlapped>>
    /\ \A p \in Package \ overlapped :
          IF p \in scope[w]
          THEN Well(Coming(todo[w]), p) => Kept(p, Head(todo[w]), Later(todo[w]), new)
          ELSE Same(p)

LEMMA RegularKeeps ==
    ASSUME ListInv, NEW w \in Thread, NEW new, NEW steps, Regular(w, steps), Then(w, new),
           NEW S \in Kinds(scope[w]), todo[w] \in Seq(S),
           NEW r \in Seq(S), r = todo'[w], Orderly(r),
           Coming(r) = steps \cup Later(todo[w])
    PROVE  ListInv'
<1>0. TypeOK /\ Orderly(todo[w])
  BY DEF ListInv
<1>1. Coming(todo[w]) = {Head(todo[w])} \cup Later(todo[w])
  BY ComingIs DEF Regular
<1>2. TypeOK'
  <2>1. /\ scope' \in [Thread -> SUBSET Package]
        /\ DOMAIN todo' = Thread
        /\ \A v \in Thread :
              \/ todo'[v] \in Seq(ItemSteps(scope'[v]) \cup PackageSteps(scope'[v]))
              \/ scope'[v] = Package /\ todo'[v] \in Seq(ItemSteps(Package) \cup TagSteps)
    BY <1>0, ThenTypes
  <2> QED
    BY <2>1 DEF TypeOK, Regular, DataOK
<1>3. ASSUME NEW p \in Package \ overlapped
      PROVE  IF p \in scope[w] THEN Well(Coming(todo[w]), p) => Well(Coming(r), p)' ELSE Same(p)
  <2>1. CASE p \in scope[w]
    <3>1. ASSUME Well(Coming(todo[w]), p) PROVE Well(Coming(r), p)'
      <4>1. PICK h, left, q : h = Head(todo[w]) /\ left = Later(todo[w]) /\ q = Coming(todo[w])
        OBVIOUS
      <4>2. q = {h} \cup left /\ \A s \in left : s.op \in Cold
        BY <1>0, <1>1, <4>1 DEF Orderly
      <4>3. Kept(p, h, left, steps)
        BY <2>1, <3>1, <4>1 DEF Regular
      <4>4. Well(steps \cup left, p)'
        BY <3>1, <4>1, <4>2, <4>3, WellStep DEF Regular
      <4>5. Coming(r) = steps \cup left
        BY <4>1
      <4> QED
        BY <4>4, <4>5
    <3> QED
      BY <2>1, <3>1
  <2>2. CASE p \notin scope[w]
    BY <2>2 DEF Regular
  <2> QED
    BY <2>1, <2>2
<1>4. todo[w] # << >> /\ TagMapsAgree' /\ UNCHANGED <<index, overlapped>>
  BY DEF Regular
<1> QED
  BY <1>2, <1>3, <1>4, ThenKeeps

LEMMA NoneKeeps ==
    ASSUME ListInv, NEW w \in Thread, Then(w, << >>), Regular(w, {})
    PROVE  ListInv'
<1>0. TypeOK /\ todo[w] # << >> /\ Orderly(todo[w])
  BY DEF ListInv, Regular
<1>1. PICK S \in Kinds(scope[w]) : todo[w] \in Seq(S)
  BY <1>0, ThreadKind
<1>2. PICK r : r = todo'[w]
  OBVIOUS
<1>3. NoneFor(todo[w], r)
  BY <1>0, <1>2 DEF NoneFor, Then, TypeOK
<1>4. r \in Seq(S) /\ Coming(r) = {} \cup Later(todo[w])
  BY <1>0, <1>1, <1>3, NothingNew
<1>5. Orderly(r)
  BY <1>0, <1>1, <1>3, OrderlyNothing
<1> QED
  BY <1>1, <1>2, <1>4, <1>5, RegularKeeps

LEMMA OneKeeps ==
    ASSUME ListInv, NEW w \in Thread, NEW s, Then(w, <<s>>), Regular(w, {s}),
           \A S \in Kinds(scope[w]) : todo[w] \in Seq(S) => s \in S,
           Head(todo[w]).op # "constructItemIndex", s.op # "constructItemIndex",
           s.op = "initTags" \/ (s.op = "setTagPackages" /\ s.tag # Deprecated) => BuildsList(todo[w]),
           s.op = "setPackageTags" =>
              \E t \in Later(todo[w]) : t.op = "tagsUpdated" /\ s.pkg \in t.pkgs
    PROVE  ListInv'
<1>0. TypeOK /\ todo[w] # << >> /\ Orderly(todo[w])
  BY DEF ListInv, Regular
<1>1. PICK S \in Kinds(scope[w]) : todo[w] \in Seq(S)
  BY <1>0, ThreadKind
<1>2. PICK r : r = todo'[w]
  OBVIOUS
<1>3. OneFor(todo[w], s, r) /\ s \in S
  BY <1>0, <1>1, <1>2 DEF OneFor, Then, TypeOK
<1>4. r \in Seq(S) /\ Coming(r) = {s} \cup Later(todo[w])
  BY <1>0, <1>1, <1>3, OneNew
<1>5. Orderly(r)
  BY <1>0, <1>1, <1>3, OrderlyOne
<1> QED
  BY <1>1, <1>2, <1>4, <1>5, RegularKeeps

LEMMA TwoKeeps ==
    ASSUME ListInv, NEW w \in Thread, NEW s, NEW t, Then(w, <<s, t>>), Regular(w, {s, t}),
           \A S \in Kinds(scope[w]) : todo[w] \in Seq(S) => s \in S /\ t \in S,
           Head(todo[w]).op # "constructItemIndex", s.op # "constructItemIndex",
           t.op \in Cold \ {"constructItemIndex"},
           s.op = "setTagPackages" /\ s.tag # Deprecated => BuildsList(todo[w]),
           s.op = "initTags" \/ t.op = "initTags" => BuildsList(todo[w]),
           s.op = "setPackageTags" => t.op = "tagsUpdated" /\ s.pkg \in t.pkgs
    PROVE  ListInv'
<1>0. TypeOK /\ todo[w] # << >> /\ Orderly(todo[w])
  BY DEF ListInv, Regular
<1>1. PICK S \in Kinds(scope[w]) : todo[w] \in Seq(S)
  BY <1>0, ThreadKind
<1>2. PICK r : r = todo'[w]
  OBVIOUS
<1>3. TwoFor(todo[w], s, t, r) /\ s \in S /\ t \in S
  BY <1>0, <1>1, <1>2 DEF TwoFor, Then, TypeOK
<1>4. r \in Seq(S) /\ Coming(r) = {s, t} \cup Later(todo[w])
  BY <1>0, <1>1, <1>3, TwoNew
<1>5. Orderly(r)
  BY <1>0, <1>1, <1>3, OrderlyTwo
<1> QED
  BY <1>1, <1>2, <1>4, <1>5, RegularKeeps
-----------------------------------------------------------------------------
(* The steps.                                                              *)

LEMMA StepFacts ==
    ASSUME ListInv, NEW w \in Thread, NEW op, Doing(w, op), NEW h, h = Head(todo[w])
    PROVE  /\ todo[w] # << >> /\ h.op = op
           /\ Coming(todo[w]) = {h} \cup Later(todo[w])
           /\ scope[w] \in SUBSET Package
           /\ ItemFields(h, scope[w])
           /\ op \in PackageOps => PackageFields(h, scope[w])
           /\ op \in TagOps => TagFields(h) /\ scope[w] = Package
           /\ \A S \in Kinds(scope[w]) : todo[w] \in Seq(S) =>
                 /\ ItemSteps(scope[w]) \subseteq S
                 /\ op \in PackageOps => PackageSteps(scope[w]) \subseteq S
                 /\ op \in TagOps => TagSteps \subseteq S
           /\ \A S : S \in SUBSET Package => RunTagsUpdated(S \cap scope[w]) \in ItemSteps(scope[w])
<1>1. PICK S \in Kinds(scope[w]) : todo[w] \in Seq(S)
  BY ThreadKind DEF ListInv
<1>2. todo[w] # << >> /\ h.op = op
  BY DEF Doing
<1>3. h \in S
  BY <1>1, <1>2
<1>4. ASSUME NEW T \in Kinds(scope[w]), todo[w] \in Seq(T)
      PROVE  /\ ItemFields(h, scope[w])
             /\ op \in PackageOps => PackageFields(h, scope[w])
             /\ op \in TagOps => TagFields(h) /\ scope[w] = Package
             /\ ItemSteps(scope[w]) \subseteq T
             /\ op \in PackageOps => PackageSteps(scope[w]) \subseteq T
             /\ op \in TagOps => TagSteps \subseteq T
  <2>1. h \in T
    BY <1>2, <1>4
  <2> QED
    BY <1>2, <1>4, <2>1, KindFields
<1>5. Coming(todo[w]) = {h} \cup Later(todo[w])
  BY <1>1, <1>2, ComingIs
<1>6. scope[w] \in SUBSET Package
  BY DEF ListInv, TypeOK
<1>7. \A T : T \in SUBSET Package => RunTagsUpdated(T \cap scope[w]) \in ItemSteps(scope[w])
  BY TellStepsAre
<1> QED
  BY <1>1, <1>2, <1>4, <1>5, <1>6, <1>7

LEMMA DataHolds ==
    ASSUME ListInv
    PROVE  /\ DataOK /\ TagMapsAgree
           /\ \A p \in Package : IsFiniteSet(index[p])
BY DEF ListInv, TypeOK, DataOK

LEMMA DataUnchanged ==
    ASSUME ListInv, UNCHANGED <<index, preferred, deprecatedFor, tags, entry, itemCache, history>>
    PROVE  DataOK' /\ TagMapsAgree' /\ UNCHANGED <<index, overlapped>> /\ \A p : Same(p)
BY DataHolds DEF DataOK, TagMapsAgree, history, Same, SameData

LEMMA ModifyKeeps ==
    ASSUME ListInv, NEW w \in Thread, modifyItem(w)
    PROVE  ListInv'
<1>1. PICK h, p : h = Head(todo[w]) /\ p = h.pkg
  OBVIOUS
<1>2. /\ todo[w] # << >> /\ h.op = "modify"
      /\ Coming(todo[w]) = {h} \cup Later(todo[w])
      /\ scope[w] \in SUBSET Package
      /\ ItemFields(h, scope[w])
      /\ \A S \in Kinds(scope[w]) : todo[w] \in Seq(S) => ItemSteps(scope[w]) \subseteq S
  BY <1>1, StepFacts DEF modifyItem
<1>3. p \in scope[w] /\ p \in Package /\ h.change \in Change
  BY <1>1, <1>2 DEF ItemFields
<1>4. /\ DataOK /\ TagMapsAgree /\ TypeOK
      /\ \A x \in Package : IsFiniteSet(index[x])
  BY DataHolds DEF ListInv
<1>5. UNCHANGED <<index, preferred, deprecatedFor, tags, entry, overlapped, unsure>>
  BY DEF modifyItem, durable, history
<1>6. ASSUME NEW x \in Package, x # p
      PROVE  ~ Lists(h, x) /\ ~ RenewsDeprecation(h, x) /\ ~ RenewsTags(h, x) /\ ~ RenewsReference(h, x)
  BY <1>1, <1>2, <1>6 DEF Lists, RenewsDeprecation, RenewsTags, RenewsReference, Modify
<1>7. ~ Tells(h)
  BY <1>2 DEF Tells
<1>8. CASE p \in DOMAIN itemCache /\ itemCache' = [itemCache EXCEPT ![p] = Changed(@, h.change)]
           /\ Then(w, << >>)
  <2>1. PICK old, item : old = itemCache[p] /\ item = Changed(old, h.change)
    OBVIOUS
  <2>2. old \in Item
    BY <1>4, <1>8, <2>1 DEF DataOK
  <2>3. item \in Item
    BY <1>3, <2>1, <2>2, ChangedItem
  <2>4. DOMAIN itemCache' = DOMAIN itemCache /\ itemCache'[p] = item
        /\ \A x \in DOMAIN itemCache \ {p} : itemCache'[x] = itemCache[x]
    BY <1>4, <1>8, <2>1 DEF DataOK
  <2>5. DataOK' /\ TagMapsAgree'
    BY <1>4, <1>5, <1>8, <2>1, <2>3 DEF DataOK, TagMapsAgree
  <2>6. ASSUME NEW x \in Package, x # p PROVE Same(x) /\ Kept(x, h, Later(todo[w]), {})
    <3>1. Same(x)
      BY <1>5, <2>4, <2>6 DEF Same, SameData
    <3> QED
      BY <1>6, <1>7, <2>6, <3>1, KeptSame
  <2>7. ASSUME Fresh(h, p) PROVE Kept(p, h, Later(todo[w]), {})
    <3>0. SameData(p)
      BY <1>5 DEF SameData
    <3>1. Told(p)' <=> Told(p)
      BY <1>3, <3>0, SameFacts
    <3>2. /\ ShowsDeprecation(itemCache[p], p)' <=> item.deprecated = deprecatedFor[p]
          /\ ShowsTags(itemCache[p], p)' <=>
                /\ item.tags \ {Deprecated} = tags.packageTags[p] \ {Deprecated}
                /\ Deprecated \in tags.packageTags[p] => Deprecated \in item.tags
          /\ ShowsReference(itemCache[p], p)' <=>
                \/ item.reference = Reference(p)
                \/ item.reference = NoVersion /\ Highest(index[p]) \in preferred[p]
      <4>1. Reference(p)' = Reference(p)
        BY <1>3, <3>0, SameFacts
      <4> QED
        BY <1>5, <2>4, <4>1 DEF ShowsDeprecation, ShowsTags, ShowsReference
    <3>3. h.change \in {[tags |-> tags.packageTags[p]], [deprecated |-> deprecatedFor[p]],
                        [reference |-> Reference(p)]}
      BY <1>1, <1>2, <2>7 DEF Fresh
    <3>4. h.op # "constructItemIndex" /\ h.op # "tagsUpdated" /\ h.op \notin {"lastUpload", "preferredHook"}
      BY <1>2
    <3>5. CASE h.change = [tags |-> tags.packageTags[p]]
      <4>1. item = [old EXCEPT !.tags = tags.packageTags[p]]
        BY <1>3, <2>1, <2>2, <3>5, ChangedItem
      <4>2. item.tags = tags.packageTags[p] /\ item.deprecated = old.deprecated /\ item.reference = old.reference
        BY <2>2, <4>1 DEF Item
      <4>3. ~ RenewsDeprecation(h, p) /\ ~ RenewsReference(h, p)
        BY <3>4, <3>5 DEF RenewsDeprecation, RenewsReference, Modify
      <4> QED
        BY <1>7, <1>8, <2>1, <2>4, <3>1, <3>2, <4>2, <4>3
           DEF Kept, ShowsDeprecation, ShowsReference
    <3>6. CASE h.change = [deprecated |-> deprecatedFor[p]]
      <4>1. item = [old EXCEPT !.deprecated = deprecatedFor[p]]
        BY <1>3, <2>1, <2>2, <3>6, ChangedItem
      <4>2. item.deprecated = deprecatedFor[p] /\ item.tags = old.tags /\ item.reference = old.reference
        BY <2>2, <4>1 DEF Item
      <4>3. ~ RenewsTags(h, p) /\ ~ RenewsReference(h, p)
        BY <3>4, <3>6 DEF RenewsTags, RenewsReference, Modify
      <4> QED
        BY <1>7, <1>8, <2>1, <2>4, <3>1, <3>2, <4>2, <4>3
           DEF Kept, ShowsTags, ShowsReference
    <3>7. CASE h.change = [reference |-> Reference(p)]
      <4>1. item = [old EXCEPT !.reference = Reference(p)]
        BY <1>3, <2>1, <2>2, <3>7, ChangedItem
      <4>2. item.reference = Reference(p) /\ item.tags = old.tags /\ item.deprecated = old.deprecated
        BY <2>2, <4>1 DEF Item
      <4>3. ~ RenewsTags(h, p) /\ ~ RenewsDeprecation(h, p)
        BY <3>4, <3>7 DEF RenewsTags, RenewsDeprecation, Modify
      <4> QED
        BY <1>7, <1>8, <2>1, <2>4, <3>1, <3>2, <4>2, <4>3
           DEF Kept, ShowsTags, ShowsDeprecation
    <3> QED
      BY <3>3, <3>5, <3>6, <3>7
  <2>8. Regular(w, {})
    <3>1. Well(Coming(todo[w]), p) => Fresh(h, p)
      BY <1>2 DEF Well
    <3> QED
      BY <1>1, <1>2, <1>3, <1>5, <2>5, <2>6, <2>7, <3>1 DEF Regular
  <2> QED
    BY <1>8, <2>8, NoneKeeps
<1>9. CASE p \notin DOMAIN itemCache /\ p \in InIndex /\ UNCHANGED itemCache
           /\ Then(w, <<Insert(p, constructItem(p))>>)
  <2>1. PICK s : s = Insert(p, constructItem(p))
    OBVIOUS
  <2>2. s.op = "insert" /\ s.pkg = p /\ s.item = constructItem(p)
    BY <2>1 DEF Insert
  <2>3. index[p] # {}
    BY <1>9 DEF InIndex
  <2>4. s \in ItemSteps(scope[w])
    BY <1>3, <1>4, <2>1, <2>3, ConstructedItem, ItemStepsAre
  <2>5. DataOK' /\ TagMapsAgree' /\ \A x : Same(x)
    BY <1>4, <1>5, <1>9 DEF DataOK, TagMapsAgree, Same, SameData
  <2>6. ASSUME NEW x \in Package PROVE Fresh(s, x)'
    <3>1. p \in InIndex' /\ constructItem(p)' = constructItem(p)
      BY <1>3, <1>9, <2>5, SameFacts DEF Same
    <3> QED
      BY <2>2, <3>1 DEF Fresh
  <2>7. ASSUME NEW x \in Package PROVE Kept(x, h, Later(todo[w]), {s})
    <3>1. CASE x # p
      BY <1>6, <1>7, <2>5, <2>6, <3>1, KeptSame
    <3>2. CASE x = p
      <4>1. Told(p)' <=> Told(p)
        BY <1>3, <2>5, SameFacts DEF Same
      <4>2. Lists(s, p)
        BY <2>2 DEF Lists
      <4> QED
        BY <1>7, <1>9, <2>6, <3>2, <4>1, <4>2 DEF Kept
    <3> QED
      BY <3>1, <3>2
  <2>8. Regular(w, {s})
    BY <1>1, <1>2, <1>5, <2>5, <2>7 DEF Regular
  <2>9. \A S \in Kinds(scope[w]) : todo[w] \in Seq(S) => s \in S
    BY <1>2, <2>4
  <2> QED
    BY <1>1, <1>2, <1>9, <2>1, <2>2, <2>8, <2>9, OneKeeps
<1> QED
  BY <1>1, <1>8, <1>9 DEF modifyItem

LEMMA InsertKeeps ==
    ASSUME ListInv, NEW w \in Thread, insertItem(w)
    PROVE  ListInv'
<1>1. PICK h, p : h = Head(todo[w]) /\ p = h.pkg
  OBVIOUS
<1>2. /\ todo[w] # << >> /\ h.op = "insert"
      /\ Coming(todo[w]) = {h} \cup Later(todo[w])
      /\ scope[w] \in SUBSET Package
      /\ ItemFields(h, scope[w])
  BY <1>1, StepFacts DEF insertItem
<1>3. p \in scope[w] /\ p \in Package /\ h.item \in Item
  BY <1>1, <1>2 DEF ItemFields
<1>4. /\ DataOK /\ TagMapsAgree /\ TypeOK
      /\ \A x \in Package : IsFiniteSet(index[x])
  BY DataHolds DEF ListInv
<1>5. UNCHANGED <<index, preferred, deprecatedFor, tags, entry, overlapped, unsure>> /\ Then(w, << >>)
  BY DEF insertItem, durable, history
<1>6. itemCache' = [x \in DOMAIN itemCache \cup {p} |-> IF x = p THEN h.item ELSE itemCache[x]]
  BY <1>1 DEF insertItem
<1>7. DataOK' /\ TagMapsAgree'
  BY <1>3, <1>4, <1>5, <1>6 DEF DataOK, TagMapsAgree
<1>8. ASSUME NEW x \in Package, x # p PROVE Same(x) /\ Kept(x, h, Later(todo[w]), {})
  <2>1. Same(x)
    BY <1>5, <1>6, <1>8 DEF Same, SameData
  <2>2. ~ Lists(h, x) /\ ~ RenewsDeprecation(h, x) /\ ~ RenewsTags(h, x) /\ ~ RenewsReference(h, x)
        /\ ~ Tells(h)
    BY <1>1, <1>2, <1>8 DEF Lists, RenewsDeprecation, RenewsTags, RenewsReference, Modify, Tells
  <2> QED
    BY <2>1, <2>2, KeptSame
<1>9. ASSUME Fresh(h, p) PROVE Kept(p, h, Later(todo[w]), {})
  <2>1. PICK item : item = constructItem(p)
    OBVIOUS
  <2>2. p \in InIndex /\ itemCache'[p] = item
    BY <1>1, <1>2, <1>6, <1>9, <2>1 DEF Fresh
  <2>3. SameData(p)
    BY <1>5 DEF SameData
  <2>4. /\ item.deprecated = deprecatedFor[p]
        /\ item.tags = tags.packageTags[p]
        /\ ShowsReference(item, p)
    BY <1>3, <1>4, <2>1, <2>2, ConstructedItem DEF InIndex
  <2>5. ShowsReference(item, p)' /\ ShowsDeprecation(item, p)' /\ ShowsTags(item, p)'
    BY <1>3, <2>3, <2>4, SameFacts DEF ShowsDeprecation, ShowsTags
  <2>6. ShowsReference(itemCache[p], p)' /\ ShowsDeprecation(itemCache[p], p)' /\ ShowsTags(itemCache[p], p)'
    BY <2>2, <2>5 DEF ShowsReference, ShowsDeprecation, ShowsTags
  <2>7. (Told(p)' <=> Told(p)) /\ ~ Tells(h) /\ p \in DOMAIN itemCache'
    BY <1>2, <1>3, <1>6, <2>3, SameFacts DEF Tells
  <2> QED
    BY <2>6, <2>7 DEF Kept
<1>10. Regular(w, {})
  <2>1. Well(Coming(todo[w]), p) => Fresh(h, p)
    BY <1>2 DEF Well
  <2> QED
    BY <1>1, <1>2, <1>3, <1>5, <1>7, <1>8, <1>9, <2>1 DEF Regular
<1> QED
  BY <1>5, <1>10, NoneKeeps

(* What makes a step of items none of the package's own.                   *)
LEMMA NoRole ==
    ASSUME NEW h, NEW p,
           h.op \notin {"modify", "insert", "tagsUpdated", "lastUpload", "preferredHook", "constructItemIndex"}
    PROVE  /\ ~ Lists(h, p) /\ ~ RenewsDeprecation(h, p) /\ ~ RenewsTags(h, p)
           /\ ~ RenewsReference(h, p)
BY DEF Lists, RenewsDeprecation, RenewsTags, RenewsReference, Modify

LEMMA TagsUpdatedKeeps ==
    ASSUME ListInv, NEW w \in Thread, tagsUpdated(w)
    PROVE  ListInv'
<1>1. PICK h, pkgs : h = Head(todo[w]) /\ pkgs = h.pkgs
  OBVIOUS
<1>2. /\ todo[w] # << >> /\ h.op = "tagsUpdated"
      /\ scope[w] \in SUBSET Package
      /\ ItemFields(h, scope[w])
      /\ \A S \in Kinds(scope[w]) : todo[w] \in Seq(S) => ItemSteps(scope[w]) \subseteq S
  BY <1>1, StepFacts DEF tagsUpdated
<1>3. pkgs \in SUBSET scope[w] /\ pkgs \in SUBSET Package
  BY <1>1, <1>2 DEF ItemFields
<1>4. DataOK' /\ TagMapsAgree' /\ UNCHANGED <<index, overlapped>> /\ \A x : Same(x)
  BY DataUnchanged DEF tagsUpdated, durable
<1>5. ASSUME NEW x \in Package
      PROVE  /\ ~ Lists(h, x) /\ ~ RenewsDeprecation(h, x) /\ ~ RenewsReference(h, x) /\ ~ Tells(h)
             /\ RenewsTags(h, x) => x \in pkgs
  BY <1>1, <1>2 DEF Lists, RenewsDeprecation, RenewsTags, RenewsReference, Modify, Tells
<1>6. CASE pkgs = {} /\ Then(w, << >>)
  <2>1. \A x \in Package : Kept(x, h, Later(todo[w]), {})
    BY <1>4, <1>5, <1>6, KeptSame
  <2>2. Regular(w, {})
    BY <1>1, <1>2, <1>4, <2>1 DEF Regular
  <2> QED
    BY <1>6, <2>2, NoneKeeps
<1>7. ASSUME NEW p \in pkgs,
             Then(w, <<Modify(p, [tags |-> tags.packageTags[p]]), RunTagsUpdated(pkgs \ {p})>>)
      PROVE  ListInv'
  <2>1. PICK s, t : s = Modify(p, [tags |-> tags.packageTags[p]]) /\ t = RunTagsUpdated(pkgs \ {p})
    OBVIOUS
  <2>2. /\ s.op = "modify" /\ s.pkg = p /\ s.change = [tags |-> tags.packageTags[p]]
        /\ t.op = "tagsUpdated" /\ t.pkgs = pkgs \ {p}
    BY <2>1 DEF Modify, RunTagsUpdated
  <2>3. s \in ItemSteps(scope[w]) /\ t \in ItemSteps(scope[w])
    <3>1. tags.packageTags[p] \in SUBSET Tag
      BY <1>3, <1>7, DataHolds DEF DataOK, PackageTags
    <3>2. [tags |-> tags.packageTags[p]] \in Change
      BY <3>1 DEF Change
    <3>3. pkgs \ {p} \in SUBSET scope[w] /\ p \in scope[w]
      BY <1>3, <1>7
    <3> QED
      BY <2>1, <3>2, <3>3, ItemStepsAre, TellStepsAre
  <2>4. ASSUME NEW x \in Package PROVE Kept(x, h, Later(todo[w]), {s, t})
    <3>1. Fresh(s, x)' /\ Fresh(t, x)'
      <4>1. SameData(x)
        BY <1>4 DEF Same
      <4> QED
        BY <2>2, <4>1 DEF Fresh, SameData
    <3>2. RenewsTags(h, x) => RenewsTags(s, x)' \/ RenewsTags(t, x)'
      <4>1. SameData(x)
        BY <1>4 DEF Same
      <4> QED
        BY <1>5, <2>1, <2>2, <4>1 DEF RenewsTags, SameData
    <3>3. CASE ~ RenewsTags(h, x)
      BY <1>4, <1>5, <3>1, <3>3, KeptSame
    <3>4. CASE RenewsTags(h, x)
      <4>1. SameData(x) /\ (x \in DOMAIN itemCache' <=> x \in DOMAIN itemCache)
            /\ (x \in DOMAIN itemCache => itemCache'[x] = itemCache[x])
        BY <1>4 DEF Same
      <4>2. (Told(x)' <=> Told(x))
        BY <4>1, SameFacts
      <4>3. ASSUME x \in DOMAIN itemCache
            PROVE  /\ ShowsDeprecation(itemCache[x], x)' <=> ShowsDeprecation(itemCache[x], x)
                   /\ ShowsReference(itemCache[x], x)' <=> ShowsReference(itemCache[x], x)
        <5>1. Reference(x)' = Reference(x)
          BY <4>1, SameFacts
        <5> QED
          BY <4>1, <4>3, <5>1 DEF ShowsDeprecation, ShowsReference, SameData
      <4> QED
        BY <1>5, <3>1, <3>2, <3>4, <4>1, <4>2, <4>3 DEF Kept
    <3> QED
      BY <3>3, <3>4
  <2>5. Regular(w, {s, t})
    BY <1>1, <1>2, <1>4, <2>4 DEF Regular
  <2>6. \A S \in Kinds(scope[w]) : todo[w] \in Seq(S) => s \in S /\ t \in S
    BY <1>2, <2>3
  <2>7. t.op \in Cold \ {"constructItemIndex"}
    BY <2>2 DEF Cold
  <2> QED
    BY <1>1, <1>2, <1>7, <2>1, <2>2, <2>5, <2>6, <2>7, TwoKeeps
<1> QED
  BY <1>1, <1>6, <1>7 DEF tagsUpdated

LEMMA SetPackageTagsKeeps ==
    ASSUME ListInv, NEW w \in Thread, setPackageTags(w)
    PROVE  ListInv'
<1>1. PICK h, p, left : h = Head(todo[w]) /\ p = h.pkg /\ left = Later(todo[w])
  OBVIOUS
<1>2. /\ todo[w] # << >> /\ h.op = "setPackageTags"
      /\ Coming(todo[w]) = {h} \cup left
      /\ scope[w] \in SUBSET Package
      /\ PackageFields(h, scope[w])
  BY <1>1, StepFacts DEF setPackageTags, PackageOps
<1>3. p \in scope[w] /\ p \in Package /\ h.tagList \in SUBSET Tag
  BY <1>1, <1>2 DEF PackageFields, PackageOps
<1>4. DataOK /\ TagMapsAgree /\ Orderly(todo[w])
  BY DataHolds DEF ListInv
<1>5. UNCHANGED <<index, preferred, deprecatedFor, entry, itemCache, overlapped, unsure>> /\ Then(w, << >>)
  BY DEF setPackageTags, history
<1>6. /\ tags' \in PackageTags /\ OneRelation(tags')
      /\ tags'.packageTags = [tags.packageTags EXCEPT ![p] = h.tagList]
  <2>1. tags' = setTags(p, h.tagList, tags) /\ tags \in PackageTags /\ OneRelation(tags)
    BY <1>1, <1>4 DEF setPackageTags, DataOK, TagMapsAgree
  <2> QED
    BY <1>3, <2>1, SetTagsGives
<1>7. DataOK' /\ TagMapsAgree'
  BY <1>4, <1>5, <1>6 DEF DataOK, TagMapsAgree
<1>8. tags.packageTags \in [Package -> SUBSET Tag]
  BY <1>4 DEF DataOK, PackageTags
<1>9. ASSUME NEW x \in Package
      PROVE  ~ Lists(h, x) /\ ~ RenewsDeprecation(h, x) /\ ~ RenewsTags(h, x) /\ ~ RenewsReference(h, x) /\ ~ Tells(h)
  BY <1>2, NoRole DEF Tells
<1>10. ASSUME NEW x \in Package, x # p PROVE Same(x) /\ Kept(x, h, left, {})
  <2>1. Same(x)
    BY <1>5, <1>6, <1>8, <1>10 DEF Same, SameData
  <2> QED
    BY <1>9, <2>1, KeptSame
<1>11. ASSUME Fresh(h, p) PROVE Kept(p, h, left, {})
  <2>1. Deprecated \in h.tagList <=> IsDeprecated(p)
    BY <1>1, <1>2, <1>11 DEF Fresh
  <2>2. Told(p)'
    BY <1>3, <1>5, <1>6, <1>8, <2>1 DEF Told, IsDeprecated
  <2>3. \E t \in left : RenewsTags(t, p)
    <3>1. \E t \in left : t.op = "tagsUpdated" /\ p \in t.pkgs
      BY <1>1, <1>2, <1>4 DEF Orderly
    <3> QED
      BY <3>1 DEF RenewsTags
  <2>4. (ShowsDeprecation(itemCache[p], p)' <=> ShowsDeprecation(itemCache[p], p))
        /\ (ShowsReference(itemCache[p], p)' <=> ShowsReference(itemCache[p], p))
    BY <1>5 DEF ShowsDeprecation, ShowsReference, Reference
  <2> QED
    BY <1>3, <1>5, <1>9, <2>2, <2>3, <2>4 DEF Kept
<1>12. Regular(w, {})
  <2>1. Well(Coming(todo[w]), p) => Fresh(h, p)
    BY <1>2 DEF Well
  <2> QED
    BY <1>1, <1>2, <1>3, <1>5, <1>7, <1>10, <1>11, <2>1 DEF Regular
<1> QED
  BY <1>5, <1>12, NoneKeeps

LEMMA SetTagPackagesKeeps ==
    ASSUME ListInv, NEW w \in Thread, setCalculatedTag(w)
    PROVE  ListInv'
<1>1. PICK h, t, pkgs, left : h = Head(todo[w]) /\ t = h.tag /\ pkgs = h.pkgs /\ left = Later(todo[w])
  OBVIOUS
<1>2. /\ todo[w] # << >> /\ h.op = "setTagPackages"
      /\ Coming(todo[w]) = {h} \cup left
      /\ scope[w] = Package
      /\ TagFields(h)
      /\ \A S \in Kinds(scope[w]) : todo[w] \in Seq(S) => ItemSteps(scope[w]) \subseteq S
  BY <1>1, StepFacts DEF setCalculatedTag, TagOps
<1>3. t \in Tag /\ pkgs \in SUBSET Package
  BY <1>1, <1>2 DEF TagFields
<1>4. DataOK /\ TagMapsAgree /\ Orderly(todo[w])
  BY DataHolds DEF ListInv
<1>5. UNCHANGED <<index, preferred, deprecatedFor, entry, itemCache, overlapped, unsure>>
      /\ Then(w, <<RunTagsUpdated(pkgs)>>)
  BY <1>1 DEF setCalculatedTag, history
<1>6. /\ tags' \in PackageTags /\ OneRelation(tags')
      /\ \A p \in Package : tags'.packageTags[p] = IF p \in pkgs THEN tags.packageTags[p] \cup {t}
                                                   ELSE tags.packageTags[p] \ {t}
  <2>1. PICK pt, r : pt = tags /\ r = tags'
    OBVIOUS
  <2>2. r = setTag(t, pkgs, pt) /\ pt \in PackageTags /\ OneRelation(pt)
    BY <1>1, <1>4, <2>1 DEF setCalculatedTag, DataOK, TagMapsAgree
  <2>3. r \in PackageTags /\ OneRelation(r) /\ HasTag(r, t, pkgs, pt)
    BY <1>3, <2>2, SetTagGives
  <2> QED
    BY <2>1, <2>3 DEF HasTag
<1>7. DataOK' /\ TagMapsAgree'
  BY <1>4, <1>5, <1>6 DEF DataOK, TagMapsAgree
<1>8. PICK s : s = RunTagsUpdated(pkgs)
  OBVIOUS
<1>9. s.op = "tagsUpdated" /\ s.pkgs = pkgs /\ s \in ItemSteps(scope[w])
  <2>1. s \in ItemSteps(scope[w])
    BY <1>2, <1>3, <1>8, TellStepsAre
  <2> QED
    BY <1>8, <2>1 DEF RunTagsUpdated
<1>10. ASSUME NEW p \in Package, Fresh(h, p) PROVE Kept(p, h, left, {s})
  <2>1. ~ Lists(h, p) /\ ~ RenewsDeprecation(h, p) /\ ~ RenewsTags(h, p) /\ ~ RenewsReference(h, p)
    BY <1>2, NoRole
  <2>2. Fresh(s, p)'
    BY <1>9 DEF Fresh
  <2>3. (ShowsDeprecation(itemCache[p], p)' <=> ShowsDeprecation(itemCache[p], p))
        /\ (ShowsReference(itemCache[p], p)' <=> ShowsReference(itemCache[p], p))
    BY <1>5 DEF ShowsDeprecation, ShowsReference, Reference
  <2>4. Told(p) \/ Tells(h) => Told(p)'
    <3>1. CASE t = Deprecated
      <4>1. p \in pkgs <=> IsDeprecated(p)
        BY <1>1, <1>2, <1>10, <3>1 DEF Fresh
      <4>2. Deprecated \in tags'.packageTags[p] <=> p \in pkgs
        BY <1>6, <3>1
      <4>3. IsDeprecated(p)' <=> IsDeprecated(p)
        BY <1>5 DEF IsDeprecated
      <4> QED
        BY <4>1, <4>2, <4>3 DEF Told
    <3>2. CASE t # Deprecated
      <4>1. ~ Tells(h)
        BY <1>1, <1>2, <3>2 DEF Tells
      <4>2. Deprecated \in tags'.packageTags[p] <=> Deprecated \in tags.packageTags[p]
        <5>1. CASE p \in pkgs
          <6>1. tags'.packageTags[p] = tags.packageTags[p] \cup {t}
            BY <1>6, <5>1
          <6> QED
            BY <3>2, <6>1
        <5>2. CASE p \notin pkgs
          <6>1. tags'.packageTags[p] = tags.packageTags[p] \ {t}
            BY <1>6, <5>2
          <6> QED
            BY <3>2, <6>1
        <5> QED
          BY <5>1, <5>2
      <4> QED
        BY <1>5, <4>1, <4>2 DEF Told, IsDeprecated
    <3> QED
      BY <3>1, <3>2
  <2>5. \/ ShowsTags(itemCache[p], p) => ShowsTags(itemCache[p], p)' \/ RenewsTags(s, p)'
        \/ \E u \in left : RenewsTags(u, p)
    <3>1. CASE t = Deprecated /\ p \in pkgs
      BY <1>9, <3>1 DEF RenewsTags
    <3>2. CASE t = Deprecated /\ p \notin pkgs
      <4>1. tags'.packageTags[p] = tags.packageTags[p] \ {Deprecated}
        BY <1>6, <3>2
      <4>2. tags'.packageTags[p] \ {Deprecated} = tags.packageTags[p] \ {Deprecated}
            /\ Deprecated \notin tags'.packageTags[p]
        BY <4>1
      <4> QED
        BY <1>5, <4>2 DEF ShowsTags
    <3>3. CASE t # Deprecated
      <4>1. BuildsList(todo[w])
        BY <1>1, <1>2, <1>4, <3>3 DEF Orderly
      <4>2. \E u \in left : u.op = "constructItemIndex"
        BY <1>2, <4>1 DEF BuildsList
      <4> QED
        BY <4>2 DEF RenewsTags
    <3> QED
      BY <3>1, <3>2, <3>3
  <2> QED
    BY <1>5, <2>1, <2>2, <2>3, <2>4, <2>5 DEF Kept
<1>11. Regular(w, {s})
  <2>1. \A p \in Package : Well(Coming(todo[w]), p) => Fresh(h, p)
    BY <1>2 DEF Well
  <2> QED
    BY <1>1, <1>2, <1>5, <1>7, <1>10, <2>1 DEF Regular
<1>12. \A S \in Kinds(scope[w]) : todo[w] \in Seq(S) => s \in S
  BY <1>2, <1>9
<1> QED
  BY <1>1, <1>2, <1>5, <1>8, <1>9, <1>11, <1>12, OneKeeps

(* Steps that change none of what the invariant is about; the next step is *)
(* no longer to come.                                                      *)
LEMMA QuietKeeps ==
    ASSUME ListInv, NEW w \in Thread, NEW h, h = Head(todo[w]), todo[w] # << >>,
           DataOK', TagMapsAgree', UNCHANGED <<index, overlapped>>, \A p \in Package : Same(p),
           Then(w, << >>), ~ Tells(h),
           \A p \in Package : /\ ~ Lists(h, p) /\ ~ RenewsDeprecation(h, p)
                              /\ ~ RenewsTags(h, p) /\ ~ RenewsReference(h, p)
    PROVE  ListInv'
<1>1. \A p \in Package : Kept(p, h, Later(todo[w]), {})
  BY KeptSame
<1>2. Regular(w, {})
  BY <1>1 DEF Regular
<1> QED
  BY <1>2, NoneKeeps

LEMMA ReviewKeeps ==
    ASSUME ListInv, NEW w \in Thread, replaceReview(w) \/ insertReview(w)
    PROVE  ListInv'
<1>1. PICK h, p : h = Head(todo[w]) /\ p = h.pkg
  OBVIOUS
<1>2. /\ todo[w] # << >> /\ h.op \in {"review", "propose"}
      /\ scope[w] \in SUBSET Package
      /\ PackageFields(h, scope[w])
  BY <1>1, StepFacts DEF replaceReview, insertReview, PackageOps
<1>3. p \in Package /\ h.add \in SUBSET Tag /\ h.del \in SUBSET Tag
  BY <1>1, <1>2 DEF PackageFields, PackageOps
<1>4. DataOK /\ TagMapsAgree
  BY DataHolds
<1>5. UNCHANGED <<index, preferred, deprecatedFor, entry, itemCache, overlapped, unsure>>
      /\ Then(w, << >>)
  BY DEF replaceReview, insertReview, history
<1>6. tags' \in PackageTags /\ OneRelation(tags') /\ tags'.packageTags = tags.packageTags
  <2>1. PICK pt, r : pt = tags /\ r = tags'
    OBVIOUS
  <2>2. /\ pt \in PackageTags /\ OneRelation(pt)
        /\ r = insertReviewTags(p, h.add, h.del, pt) \/ r = replaceReviewTags(p, h.add, h.del, pt)
    BY <1>1, <1>4, <2>1 DEF replaceReview, insertReview, DataOK, TagMapsAgree
  <2> QED
    BY <1>3, <2>1, <2>2, ReviewsGive
<1>7. DataOK' /\ TagMapsAgree' /\ \A x \in Package : Same(x)
  BY <1>4, <1>5, <1>6 DEF DataOK, TagMapsAgree, Same, SameData
<1>8. ~ Tells(h) /\ \A x \in Package : /\ ~ Lists(h, x) /\ ~ RenewsDeprecation(h, x)
                                       /\ ~ RenewsTags(h, x) /\ ~ RenewsReference(h, x)
  BY <1>2, NoRole DEF Tells
<1> QED
  BY <1>1, <1>2, <1>5, <1>7, <1>8, QuietKeeps

LEMMA EntryKeeps ==
    ASSUME ListInv, NEW w \in Thread, addIndexEntry(w)
    PROVE  ListInv'
<1>1. PICK h, p : h = Head(todo[w]) /\ p = h.pkg
  OBVIOUS
<1>2. /\ todo[w] # << >> /\ h.op = "indexEntry"
      /\ scope[w] \in SUBSET Package
      /\ PackageFields(h, scope[w])
  BY <1>1, StepFacts DEF addIndexEntry, PackageOps
<1>3. p \in Package /\ h.versions \in SUBSET Version
  BY <1>1, <1>2 DEF PackageFields, PackageOps
<1>4. DataOK /\ TagMapsAgree
  BY DataHolds
<1>5. /\ UNCHANGED <<index, preferred, deprecatedFor, tags, itemCache, overlapped, unsure>>
      /\ entry' = [entry EXCEPT ![p] = h.versions]
      /\ Then(w, << >>)
  BY <1>1 DEF addIndexEntry, history
<1>6. DataOK' /\ TagMapsAgree' /\ \A x \in Package : Same(x)
  BY <1>3, <1>4, <1>5 DEF DataOK, TagMapsAgree, Same, SameData
<1>7. ~ Tells(h) /\ \A x \in Package : /\ ~ Lists(h, x) /\ ~ RenewsDeprecation(h, x)
                                       /\ ~ RenewsTags(h, x) /\ ~ RenewsReference(h, x)
  BY <1>2, NoRole DEF Tells
<1> QED
  BY <1>1, <1>2, <1>5, <1>6, <1>7, QuietKeeps

(* No step of a request about one package tells the tags of deprecation:   *)
(* the package has the tag exactly if it is deprecated.                    *)
LEMMA RetagKeeps ==
    ASSUME ListInv, NEW w \in Thread, retag(w)
    PROVE  ListInv'
<1>1. PICK h, p, left : h = Head(todo[w]) /\ p = h.pkg /\ left = Later(todo[w])
  OBVIOUS
<1>2. /\ todo[w] # << >> /\ h.op = "retag"
      /\ Coming(todo[w]) = {h} \cup left
      /\ scope[w] \in SUBSET Package
      /\ PackageFields(h, scope[w])
      /\ \A S \in Kinds(scope[w]) : todo[w] \in Seq(S) =>
            ItemSteps(scope[w]) \subseteq S /\ PackageSteps(scope[w]) \subseteq S
  BY <1>1, StepFacts DEF retag, PackageOps
<1>3. p \in scope[w] /\ p \in Package
  BY <1>1, <1>2 DEF PackageFields, PackageOps
<1>4. /\ DataOK /\ DataOK' /\ TagMapsAgree' /\ UNCHANGED <<index, overlapped>>
      /\ \A x : Same(x)
  BY DataHolds, DataUnchanged DEF retag, durable
<1>5. PICK s, t : /\ s = SetPackageTags(p, ImmutableTags[p] \cup tags.packageTags[p])
                  /\ t = RunTagsUpdated({p})
  OBVIOUS
<1>6. /\ s.op = "setPackageTags" /\ s.pkg = p
      /\ s.tagList = ImmutableTags[p] \cup tags.packageTags[p]
      /\ t.op = "tagsUpdated" /\ t.pkgs = {p}
  BY <1>5 DEF SetPackageTags, RunTagsUpdated
<1>7. Then(w, <<s, t>>)
  BY <1>1, <1>5 DEF retag
<1>8. ImmutableTags[p] \in SUBSET (Tag \ {Deprecated})
  BY <1>3, ListAssumption
<1>9. s \in PackageSteps(scope[w]) /\ t \in ItemSteps(scope[w])
  <2>1. tags.packageTags[p] \in SUBSET Tag
    BY <1>3, <1>4 DEF DataOK, PackageTags
  <2>2. s \in PackageSteps(scope[w])
    BY <1>3, <1>5, <1>8, <2>1 DEF SetPackageTags, PackageSteps
  <2> QED
    BY <1>3, <1>5, <2>2, TellStepsAre
<1>10. ASSUME NEW x \in Package, Well(Coming(todo[w]), x) PROVE Kept(x, h, left, {s, t})
  <2>1. Told(x)
    <3>1. ASSUME NEW u \in Coming(todo[w]) PROVE ~ Tells(u)
      <4>1. PICK S \in Kinds(scope[w]) : todo[w] \in Seq(S)
        BY ThreadKind DEF ListInv
      <4>2. h \in S
        BY <1>1, <1>2, <4>1
      <4>3. PackageSteps(scope[w]) \subseteq S /\ ItemSteps(scope[w]) \subseteq S
        BY <1>2, <4>1
      <4>4. S = ItemSteps(scope[w]) \cup PackageSteps(scope[w])
        BY <1>2, <4>1, <4>2, StepFields DEF Kinds, PackageOps
      <4>5. u \in S
        BY <3>1, <4>1, ComingIs
      <4>6. u.op \notin TagOps
        BY <4>4, <4>5, StepFields
      <4> QED
        BY <4>6 DEF TagOps, Tells
    <3> QED
      BY <1>10, <3>1 DEF Well
  <2>2. Fresh(t, x)'
    BY <1>6 DEF Fresh
  <2>3. Fresh(s, x)'
    <3>1. s.pkg = x => (Deprecated \in s.tagList <=> IsDeprecated(x))
      BY <1>6, <1>8, <2>1 DEF Told
    <3>2. SameData(x)
      BY <1>4 DEF Same
    <3> QED
      BY <1>6, <3>1, <3>2, SameFacts DEF Fresh
  <2>4. ~ Tells(h) /\ ~ Lists(h, x) /\ ~ RenewsDeprecation(h, x) /\ ~ RenewsTags(h, x)
        /\ ~ RenewsReference(h, x)
    BY <1>2, NoRole DEF Tells
  <2> QED
    BY <1>4, <2>2, <2>3, <2>4, KeptSame
<1>11. Regular(w, {s, t})
  BY <1>1, <1>2, <1>4, <1>10 DEF Regular
<1>12. t.op \in Cold \ {"constructItemIndex"}
  BY <1>6 DEF Cold
<1>13. \A S \in Kinds(scope[w]) : todo[w] \in Seq(S) => s \in S /\ t \in S
  BY <1>2, <1>9
<1>14. s.op # "initTags" /\ t.op # "initTags" /\ s.op # "setTagPackages"
       /\ t.op = "tagsUpdated" /\ s.pkg \in t.pkgs /\ s.op # "constructItemIndex"
  BY <1>6
<1> QED
  BY <1>1, <1>2, <1>7, <1>11, <1>12, <1>13, <1>14, TwoKeeps

LEMMA InitTagsKeeps ==
    ASSUME ListInv, NEW w \in Thread, initImmutableTags(w)
    PROVE  ListInv'
<1>1. PICK h, ts, left : h = Head(todo[w]) /\ ts = h.tags /\ left = Later(todo[w])
  OBVIOUS
<1>2. /\ todo[w] # << >> /\ h.op = "initTags"
      /\ Coming(todo[w]) = {h} \cup left
      /\ scope[w] = Package
      /\ TagFields(h)
      /\ \A S \in Kinds(scope[w]) : todo[w] \in Seq(S) => TagSteps \subseteq S
  BY <1>1, StepFacts DEF initImmutableTags, TagOps
<1>3. ts \in SUBSET (Tag \ {Deprecated})
  BY <1>1, <1>2 DEF TagFields
<1>4. /\ DataOK' /\ TagMapsAgree' /\ UNCHANGED <<index, overlapped>>
      /\ \A x : Same(x)
  BY DataUnchanged DEF initImmutableTags, durable
<1>5. ~ Tells(h) /\ \A x \in Package : /\ ~ Lists(h, x) /\ ~ RenewsDeprecation(h, x)
                                       /\ ~ RenewsTags(h, x) /\ ~ RenewsReference(h, x)
  BY <1>2, NoRole DEF Tells
<1>6. CASE Then(w, << >>)
  BY <1>1, <1>2, <1>4, <1>5, <1>6, QuietKeeps
<1>7. ASSUME NEW u \in ts,
             Then(w, <<SetTagPackages(u, {p \in InIndex : u \in ImmutableTags[p]}),
                       InitImmutableTags(ts \ {u})>>)
      PROVE  ListInv'
  <2>1. PICK pkgs : pkgs = {p \in InIndex : u \in ImmutableTags[p]}
    OBVIOUS
  <2>2. PICK s, t : s = SetTagPackages(u, pkgs) /\ t = InitImmutableTags(ts \ {u})
    OBVIOUS
  <2>3. /\ s.op = "setTagPackages" /\ s.tag = u /\ t.op = "initTags"
        /\ u # Deprecated /\ u \in Tag
    BY <1>3, <1>7, <2>2 DEF SetTagPackages, InitImmutableTags
  <2>4. s \in TagSteps /\ t \in TagSteps
    <3>1. pkgs \in SUBSET Package
      BY <2>1 DEF InIndex
    <3> QED
      BY <1>3, <2>2, <2>3, <3>1 DEF SetTagPackages, InitImmutableTags, TagSteps
  <2>5. ASSUME NEW x \in Package PROVE Kept(x, h, left, {s, t})
    <3>1. Fresh(s, x)' /\ Fresh(t, x)'
      BY <2>3 DEF Fresh
    <3> QED
      BY <1>4, <1>5, <3>1, KeptSame
  <2>6. Regular(w, {s, t})
    BY <1>1, <1>2, <1>4, <2>5 DEF Regular
  <2>7. BuildsList(todo[w])
    BY <1>2 DEF ListInv, Orderly
  <2>8. t.op \in Cold \ {"constructItemIndex"}
    BY <2>3 DEF Cold
  <2>9. \A S \in Kinds(scope[w]) : todo[w] \in Seq(S) => s \in S /\ t \in S
    BY <1>2, <2>4
  <2>10. Then(w, <<s, t>>)
    BY <1>7, <2>1, <2>2
  <2> QED
    BY <1>1, <1>2, <2>3, <2>6, <2>7, <2>8, <2>9, <2>10, TwoKeeps
<1> QED
  BY <1>1, <1>6, <1>7 DEF initImmutableTags

(* The listeners of versions and of uploads renew the reference version.   *)
LEMMA ReferenceKeeps ==
    ASSUME ListInv, NEW w \in Thread, updatePreferred(w) \/ updateLastUpload(w)
    PROVE  ListInv'
<1>1. PICK h, p, left : h = Head(todo[w]) /\ p = h.pkg /\ left = Later(todo[w])
  OBVIOUS
<1>2. /\ todo[w] # << >> /\ h.op \in {"preferredHook", "lastUpload"}
      /\ Coming(todo[w]) = {h} \cup left
      /\ scope[w] \in SUBSET Package
      /\ PackageFields(h, scope[w])
      /\ \A S \in Kinds(scope[w]) : todo[w] \in Seq(S) => ItemSteps(scope[w]) \subseteq S
  BY <1>1, StepFacts DEF updatePreferred, updateLastUpload, PackageOps
<1>3. p \in scope[w] /\ p \in Package
  BY <1>1, <1>2 DEF PackageFields, PackageOps
<1>4. /\ DataOK /\ DataOK' /\ TagMapsAgree' /\ UNCHANGED <<index, overlapped>>
      /\ \A x : Same(x)
  BY DataHolds, DataUnchanged DEF updatePreferred, updateLastUpload, durable
<1>5. PICK dep : /\ dep = IF h.op = "preferredHook" THEN h.versions ELSE preferred[p]
                 /\ Then(w, <<Modify(p, [reference |-> ReferenceVersion(dep, index[p])])>>)
  BY <1>1, <1>2 DEF updatePreferred, updateLastUpload, Doing
<1>6. PICK ref : ref = ReferenceVersion(dep, index[p])
  OBVIOUS
<1>7. PICK s : s = Modify(p, [reference |-> ref])
  OBVIOUS
<1>8. s.op = "modify" /\ s.pkg = p /\ s.change = [reference |-> ref]
  BY <1>7 DEF Modify
<1>9. s \in ItemSteps(scope[w])
  <2>1. index[p] \in SUBSET Version /\ IsFiniteSet(index[p])
    BY <1>3, <1>4, DataHolds DEF DataOK
  <2>2. ref \in Version \cup {NoVersion}
    BY <1>6, <2>1, ReferenceType
  <2>3. [reference |-> ref] \in Change
    BY <2>2 DEF Change
  <2> QED
    BY <1>3, <1>7, <2>3, ItemStepsAre
<1>10. ASSUME NEW x \in Package, Well(Coming(todo[w]), x) PROVE Kept(x, h, left, {s})
  <2>0. SameData(x) /\ ~ Tells(h)
    BY <1>2, <1>4 DEF Same, Tells
  <2>1. CASE x # p
    <3>1. ~ Lists(h, x) /\ ~ RenewsDeprecation(h, x) /\ ~ RenewsTags(h, x) /\ ~ RenewsReference(h, x)
      BY <1>1, <1>2, <2>1 DEF Lists, RenewsDeprecation, RenewsTags, RenewsReference, Modify
    <3>2. Fresh(s, x)'
      BY <1>8, <2>1 DEF Fresh
    <3> QED
      BY <1>4, <2>0, <3>1, <3>2, KeptSame
  <2>2. CASE x = p
    <3>1. Fresh(h, x)
      BY <1>2, <1>10 DEF Well
    <3>2. ref = Reference(x)
      BY <1>1, <1>2, <1>5, <1>6, <2>2, <3>1 DEF Fresh, Reference
    <3>3. Reference(x)' = Reference(x) /\ (Told(x)' <=> Told(x))
      BY <2>0, SameFacts
    <3>4. Fresh(s, x)' /\ RenewsReference(s, x)' /\ Lists(s, x)
      <4>1. s.change = [reference |-> Reference(x)'] /\ s = Modify(x, [reference |-> Reference(x)'])
        BY <1>7, <1>8, <2>2, <3>2, <3>3
      <4> QED
        BY <1>8, <2>2, <4>1 DEF Fresh, RenewsReference, Lists
    <3>5. ~ RenewsDeprecation(h, x) /\ ~ RenewsTags(h, x)
      BY <1>2 DEF RenewsDeprecation, RenewsTags, Modify
    <3>6. ASSUME x \in DOMAIN itemCache
          PROVE  /\ ShowsDeprecation(itemCache[x], x)' <=> ShowsDeprecation(itemCache[x], x)
                 /\ ShowsTags(itemCache[x], x)' <=> ShowsTags(itemCache[x], x)
      BY <1>4, <3>6 DEF ShowsDeprecation, ShowsTags, Same, SameData
    <3> QED
      BY <1>4, <2>0, <3>3, <3>4, <3>5, <3>6 DEF Kept, Same
  <2> QED
    BY <2>1, <2>2
<1>11. Regular(w, {s})
  BY <1>1, <1>2, <1>4, <1>10 DEF Regular
<1>12. \A S \in Kinds(scope[w]) : todo[w] \in Seq(S) => s \in S
  BY <1>2, <1>9
<1>13. Then(w, <<s>>)
  BY <1>5, <1>6, <1>7
<1> QED
  BY <1>1, <1>2, <1>8, <1>11, <1>12, <1>13, OneKeeps

LEMMA DeprecatedTagsKeeps ==
    ASSUME ListInv, NEW w \in Thread, updateDeprecatedTags(w)
    PROVE  ListInv'
<1>1. PICK h, left : h = Head(todo[w]) /\ left = Later(todo[w])
  OBVIOUS
<1>2. /\ todo[w] # << >> /\ h.op = "deprecatedTags"
      /\ Coming(todo[w]) = {h} \cup left
      /\ scope[w] = Package
      /\ \A S \in Kinds(scope[w]) : todo[w] \in Seq(S) => TagSteps \subseteq S
  BY <1>1, StepFacts DEF updateDeprecatedTags, TagOps
<1>3. /\ DataOK' /\ TagMapsAgree' /\ UNCHANGED <<index, overlapped>>
      /\ \A x : Same(x)
  BY DataUnchanged DEF updateDeprecatedTags, durable
<1>4. PICK s : s = SetTagPackages(Deprecated, DeprecatedPackages)
  OBVIOUS
<1>5. s.op = "setTagPackages" /\ s.tag = Deprecated /\ s.pkgs = DeprecatedPackages
  BY <1>4 DEF SetTagPackages
<1>6. s \in TagSteps
  <2>1. PICK pkgs \in SUBSET Package : pkgs = DeprecatedPackages
    BY DEF DeprecatedPackages
  <2>2. Deprecated \in Tag
    BY ListAssumption
  <2> QED
    BY <1>4, <2>1, <2>2 DEF SetTagPackages, TagSteps
<1>7. ASSUME NEW x \in Package PROVE Kept(x, h, left, {s})
  <2>1. Fresh(s, x)'
    <3>1. x \in s.pkgs <=> IsDeprecated(x)
      BY <1>5 DEF DeprecatedPackages, IsDeprecated
    <3>2. SameData(x)
      BY <1>3 DEF Same
    <3>3. IsDeprecated(x)' <=> IsDeprecated(x)
      BY <3>2, SameFacts
    <3> QED
      BY <1>5, <3>1, <3>3 DEF Fresh
  <2>2. Tells(s)
    BY <1>5 DEF Tells
  <2>3. ~ Lists(h, x) /\ ~ RenewsDeprecation(h, x) /\ ~ RenewsTags(h, x) /\ ~ RenewsReference(h, x)
    BY <1>2, NoRole
  <2> QED
    BY <1>3, <2>1, <2>2, <2>3, KeptSame
<1>8. Regular(w, {s})
  BY <1>1, <1>2, <1>3, <1>7 DEF Regular
<1>9. \A S \in Kinds(scope[w]) : todo[w] \in Seq(S) => s \in S
  BY <1>2, <1>6
<1>10. Then(w, <<s>>)
  BY <1>4 DEF updateDeprecatedTags
<1> QED
  BY <1>1, <1>2, <1>5, <1>8, <1>9, <1>10, OneKeeps

LEMMA ConstructKeeps ==
    ASSUME ListInv, NEW w \in Thread, constructItemIndex(w)
    PROVE  ListInv'
<1>1. PICK h, left : h = Head(todo[w]) /\ left = Later(todo[w])
  OBVIOUS
<1>2. todo[w] # << >> /\ h.op = "constructItemIndex" /\ scope[w] = Package
  BY <1>1, StepFacts DEF constructItemIndex, TagOps
<1>3. /\ DataOK /\ TagMapsAgree /\ TypeOK
      /\ \A x \in Package : IsFiniteSet(index[x])
  BY DataHolds DEF ListInv
<1>4. /\ UNCHANGED <<index, preferred, deprecatedFor, tags, entry, overlapped, unsure>>
      /\ itemCache' = [p \in InIndex |-> constructItem(p)] /\ Then(w, << >>)
  BY DEF constructItemIndex, durable, history
<1>5. ASSUME NEW p \in InIndex
      PROVE  /\ p \in Package
             /\ constructItem(p) \in Item
             /\ constructItem(p).deprecated = deprecatedFor[p]
             /\ constructItem(p).tags = tags.packageTags[p]
             /\ ShowsReference(constructItem(p), p)
  <2>1. p \in Package /\ index[p] # {}
    BY DEF InIndex
  <2> QED
    BY <1>3, <2>1, ConstructedItem
<1>6. DataOK' /\ TagMapsAgree'
  <2>1. InIndex \subseteq Package
    BY DEF InIndex
  <2>2. itemCache' \in [InIndex -> Item] /\ DOMAIN itemCache' = InIndex
    BY <1>4, <1>5
  <2> QED
    BY <1>3, <1>4, <2>1, <2>2 DEF DataOK, TagMapsAgree
<1>7. ASSUME NEW x \in Package PROVE Kept(x, h, left, {})
  <2>1. SameData(x) /\ ~ Tells(h)
    BY <1>2, <1>4 DEF SameData, Tells
  <2>2. Told(x)' <=> Told(x)
    BY <2>1, SameFacts
  <2>3. ASSUME x \in InIndex
        PROVE  /\ x \in DOMAIN itemCache'
               /\ ShowsReference(itemCache[x], x)' /\ ShowsDeprecation(itemCache[x], x)'
               /\ ShowsTags(itemCache[x], x)'
    <3>1. PICK item : item = constructItem(x)
      OBVIOUS
    <3>2. x \in DOMAIN itemCache' /\ itemCache'[x] = item
      BY <1>4, <2>3, <3>1
    <3>3. /\ item.deprecated = deprecatedFor[x]
          /\ item.tags = tags.packageTags[x]
          /\ ShowsReference(item, x)
      BY <1>5, <2>3, <3>1
    <3>4. ShowsReference(item, x)' /\ ShowsDeprecation(item, x)' /\ ShowsTags(item, x)'
      BY <2>1, <3>3, SameFacts DEF ShowsDeprecation, ShowsTags
    <3> QED
      BY <3>2, <3>4 DEF ShowsReference, ShowsDeprecation, ShowsTags
  <2>4. x \in DOMAIN itemCache' => x \in InIndex
    BY <1>4
  <2> QED
    BY <2>1, <2>2, <2>3, <2>4 DEF Kept
<1>8. Regular(w, {})
  BY <1>1, <1>2, <1>4, <1>6, <1>7 DEF Regular
<1> QED
  BY <1>4, <1>8, NoneKeeps

-----------------------------------------------------------------------------
(* Requests that begin.                                                    *)

LEMMA BeginKeeps ==
    ASSUME ListInv, NEW w \in Request, NEW pkgs \in SUBSET Package, NEW q, q # << >>,
           Begin(w, pkgs, q), NEW S \in Kinds(pkgs), q \in Seq(S), Orderly(q),
           index' \in [Package -> SUBSET Version], \A p \in Package : IsFiniteSet(index'[p]),
           preferred' \in [Package -> SUBSET Version],
           deprecatedFor' \in [Package -> Replacements \cup {Nothing}],
           UNCHANGED <<tags, entry>>, unsure' \subseteq Package,
           \A p \in Package \ pkgs : SameData(p),
           \A p \in pkgs : Well({}, p) => Well(Coming(q), p)'
    PROVE  ListInv'
<1>0. TypeOK /\ Apart /\ TagMapsAgree /\ w \in Thread /\ Main \in Thread /\ w # Main
  BY ListAssumption DEF ListInv, Thread
<1>1. PICK shared : shared = pkgs \cap UNION {scope[v] : v \in Request}
  OBVIOUS
<1>2. /\ todo[Main] = << >> /\ todo[w] = << >>
      /\ todo' = [todo EXCEPT ![w] = q] /\ scope' = [scope EXCEPT ![w] = pkgs]
      /\ overlapped' = overlapped \cup shared
      /\ itemCache' = itemCache
  BY <1>1 DEF Begin, Serving
<1>3. /\ DOMAIN todo' = Thread /\ scope' \in [Thread -> SUBSET Package]
      /\ todo'[w] = q /\ scope'[w] = pkgs
      /\ \A v \in Thread \ {w} : todo'[v] = todo[v] /\ scope'[v] = scope[v]
  <2>1. DOMAIN todo = Thread /\ scope \in [Thread -> SUBSET Package]
    BY <1>0 DEF TypeOK
  <2> QED
    BY <1>0, <1>2, <2>1
<1>4. TypeOK'
  <2>1. ASSUME NEW v \in Thread
        PROVE  \/ todo'[v] \in Seq(ItemSteps(scope'[v]) \cup PackageSteps(scope'[v]))
               \/ scope'[v] = Package /\ todo'[v] \in Seq(ItemSteps(Package) \cup TagSteps)
    <3>1. CASE v = w
      BY <1>3, <3>1 DEF Kinds
    <3>2. CASE v # w
      BY <1>0, <1>3, <3>2 DEF TypeOK
    <3> QED
      BY <3>1, <3>2
  <2>2. overlapped' \subseteq Package
    BY <1>0, <1>1, <1>2 DEF TypeOK
  <2> QED
    BY <1>0, <1>2, <1>3, <2>1, <2>2 DEF TypeOK
<1>5. TagMapsAgree'
  BY <1>0 DEF TagMapsAgree
<1>6. Apart'
  <2>1. \A v \in Thread : todo'[v] = << >> => scope'[v] = {}
    BY <1>0, <1>3 DEF Apart
  <2>2. ASSUME NEW v \in Thread \ {w} PROVE pkgs \cap scope[v] \subseteq overlapped'
    <3>1. CASE v \in Request
      BY <1>1, <1>2, <3>1
    <3>2. CASE v = Main
      BY <1>0, <1>2, <3>2 DEF Apart
    <3> QED
      BY <3>1, <3>2 DEF Thread
  <2>3. \A u, v \in Thread \ {w} : u # v => scope[u] \cap scope[v] \subseteq overlapped'
    BY <1>0, <1>2 DEF Apart
  <2>4. \A u, v \in Thread : u # v => scope'[u] \cap scope'[v] \subseteq overlapped'
    BY <1>3, <2>2, <2>3
  <2> QED
    BY <1>0, <1>2, <1>3, <2>1, <2>4 DEF Apart
<1>7. \A v \in Thread : Orderly(todo[v])'
  <2> SUFFICES ASSUME NEW v \in Thread PROVE Orderly(todo[v])'
    OBVIOUS
  <2>1. CASE v = w
    BY <1>3, <2>1, NextSteps
  <2>2. CASE v # w
    <3>1. Orderly(todo[v]) /\ todo'[v] = todo[v]
      BY <1>3, <2>2 DEF ListInv
    <3> QED
      BY <3>1, NextSteps
  <2> QED
    BY <2>1, <2>2
<1>8. ASSUME NEW p \in Package \ overlapped' PROVE Waiting(p)'
  <2>0. p \in Package \ overlapped /\ Waiting(p)
    BY <1>2, <1>8 DEF ListInv
  <2>1. CASE p \in pkgs
    <3>1. Busy(p) = {}
      <4>1. ASSUME NEW v \in Thread PROVE p \notin scope[v]
        <5>1. CASE v \in Request
          BY <1>1, <1>2, <1>8, <2>1, <5>1
        <5>2. CASE v = Main
          BY <1>0, <1>2, <5>2 DEF Apart
        <5> QED
          BY <5>1, <5>2 DEF Thread
      <4> QED
        BY <4>1 DEF Busy
    <3>2. Well(Coming(q), p)'
      BY <2>0, <2>1, <3>1 DEF Waiting, Ahead
    <3>3. Busy(p)' = {w}
      <4>1. \A v \in Thread \ {w} : p \notin scope'[v]
        BY <1>3, <3>1 DEF Busy
      <4> QED
        BY <1>0, <1>3, <2>1, <4>1 DEF Busy
    <3>4. Coming(todo[w])' = Coming(q)
      BY <1>3, NextSteps
    <3>5. Ahead(p)' = {Coming(q)}
      BY <3>3, <3>4 DEF Ahead
    <3> QED
      BY <3>2, <3>5 DEF Waiting
  <2>2. CASE p \notin pkgs
    <3>1. Same(p)
      BY <1>2, <2>2 DEF Same
    <3>2. Busy(p)' = Busy(p) /\ \A v \in Busy(p) : todo'[v] = todo[v]
      <4>1. scope[w] = {}
        BY <1>0, <1>2 DEF Apart
      <4> QED
        BY <1>3, <2>2, <4>1 DEF Busy
    <3>3. Ahead(p)' = Ahead(p)
      <4>1. \A v \in Busy(p) : Coming(todo[v])' = Coming(todo[v])
        BY <3>2, NextSteps
      <4> QED
        BY <3>2, <4>1 DEF Ahead
    <3>4. ASSUME NEW steps \in Ahead(p) PROVE Well(steps, p)'
      BY <2>0, <3>1, <3>4, WellSame DEF Waiting
    <3> QED
      BY <3>3, <3>4 DEF Waiting
  <2> QED
    BY <2>1, <2>2
<1> QED
  BY <1>4, <1>5, <1>6, <1>7, <1>8 DEF ListInv

LEMMA OrderlyFirst ==
    ASSUME NEW q, \A s \in Coming(q) : s.op \notin TagOps, \A s \in Later(q) : s.op \in Cold,
           \A s \in Coming(q) : s.op = "setPackageTags" =>
              \E t \in Later(q) : t.op = "tagsUpdated" /\ s.pkg \in t.pkgs
    PROVE  Orderly(q)
<1>1. \A i \in DOMAIN q : q[i].op # "constructItemIndex"
  BY DEF Coming, TagOps
<1> QED
  BY <1>1 DEF Orderly, TagOps

(* The features as before: nothing but the steps is to be looked at.       *)
LEMMA WellFirst ==
    ASSUME NEW p \in Package, NEW steps, Well({}, p), SameData(p), UNCHANGED itemCache,
           \A s \in steps : Fresh(s, p)'
    PROVE  Well(steps, p)'
<1>1. Same(p)
  BY DEF Same
<1>2. Well({}, p)'
  BY <1>1, WellSame
<1> QED
  BY <1>2 DEF Well

LEMMA UploadKeeps ==
    ASSUME ListInv, NEW w \in Request, upload(w)
    PROVE  ListInv'
<1>1. PICK p \in Package, v \in Version :
        /\ Begin(w, {p}, <<LastUpload(p), Retag(p)>>)
        /\ index' = [index EXCEPT ![p] = @ \cup {v}]
        /\ UNCHANGED <<preferred, deprecatedFor, tags, entry, unsure>>
  BY DEF upload
<1>2. PICK s, t : s = LastUpload(p) /\ t = Retag(p)
  OBVIOUS
<1>3. s.op = "lastUpload" /\ s.pkg = p /\ t.op = "retag" /\ t.pkg = p
  BY <1>2 DEF LastUpload, Retag
<1>4. PICK q : q = <<s, t>>
  OBVIOUS
<1>5. Coming(q) = {s, t} /\ Later(q) = {t} /\ q # << >>
  BY <1>4, TwoSteps
<1>6. PICK S \in Kinds({p}) : S = ItemSteps({p}) \cup PackageSteps({p})
  BY DEF Kinds
<1>7. q \in Seq(S)
  <2>1. s \in S /\ t \in S
    BY <1>2, <1>6 DEF LastUpload, Retag, PackageSteps
  <2> QED
    BY <1>4, <2>1
<1>8. Orderly(q)
  <2>1. \A u \in Coming(q) : u.op \notin TagOps /\ u.op # "setPackageTags"
    BY <1>3, <1>5 DEF TagOps
  <2>2. \A u \in Later(q) : u.op \in Cold
    BY <1>3, <1>5 DEF Cold
  <2> QED
    BY <2>1, <2>2, OrderlyFirst
<1>9. /\ index \in [Package -> SUBSET Version] /\ \A x \in Package : IsFiniteSet(index[x])
      /\ preferred \in [Package -> SUBSET Version]
      /\ deprecatedFor \in [Package -> Replacements \cup {Nothing}] /\ unsure \subseteq Package
  BY DEF ListInv, TypeOK
<1>10. index' \in [Package -> SUBSET Version] /\ \A x \in Package : IsFiniteSet(index'[x])
  <2>1. IsFiniteSet(index[p] \cup {v})
    BY <1>9, FS_AddElement
  <2>2. index[p] \cup {v} \in SUBSET Version
    BY <1>9
  <2> QED
    BY <1>1, <1>9, <2>1, <2>2
<1>11. \A x \in Package \ {p} : SameData(x)
  BY <1>1, <1>9 DEF SameData
<1>12. ASSUME Well({}, p) PROVE Well(Coming(q), p)'
  <2>1. itemCache' = itemCache
    BY <1>1 DEF Begin
  <2>2. Told(p)'
    BY <1>1, <1>12 DEF Well, Told, IsDeprecated
  <2>3. Fresh(s, p)' /\ Fresh(t, p)'
    BY <1>3 DEF Fresh
  <2>4. Lists(s, p) /\ RenewsReference(s, p)'
    BY <1>3 DEF Lists, RenewsReference
  <2>5. p \in DOMAIN itemCache' => ShowsDeprecation(itemCache[p], p)' /\ ShowsTags(itemCache[p], p)'
    BY <1>1, <1>12, <2>1 DEF Well, ShowsDeprecation, ShowsTags
  <2> QED
    BY <1>5, <2>2, <2>3, <2>4, <2>5 DEF Well
<1>13. Begin(w, {p}, q) /\ {p} \in SUBSET Package
  BY <1>1, <1>2, <1>4
<1>14. /\ preferred' \in [Package -> SUBSET Version]
       /\ deprecatedFor' \in [Package -> Replacements \cup {Nothing}]
       /\ UNCHANGED <<tags, entry>> /\ unsure' \subseteq Package
  BY <1>1, <1>9
<1> QED
  BY <1>5, <1>6, <1>7, <1>8, <1>10, <1>11, <1>12, <1>13, <1>14, BeginKeeps

LEMMA DeprecateKeeps ==
    ASSUME ListInv, NEW w \in Request, putDeprecated(w)
    PROVE  ListInv'
<1>1. PICK p \in InIndex, by \in Replacements \cup {Nothing} :
        /\ Begin(w, Package, <<Modify(p, [deprecated |-> by]), UpdateDeprecatedTags>>)
        /\ deprecatedFor' = [deprecatedFor EXCEPT ![p] = by]
        /\ UNCHANGED <<index, preferred, tags, entry, unsure>>
  BY DEF putDeprecated
<1>2. PICK s, t : s = Modify(p, [deprecated |-> by]) /\ t = UpdateDeprecatedTags
  OBVIOUS
<1>3. s.op = "modify" /\ s.pkg = p /\ s.change = [deprecated |-> by] /\ t.op = "deprecatedTags"
  BY <1>2 DEF Modify, UpdateDeprecatedTags
<1>4. PICK q : q = <<s, t>>
  OBVIOUS
<1>5. Coming(q) = {s, t} /\ Later(q) = {t} /\ q # << >>
  BY <1>4, TwoSteps
<1>6. PICK S \in Kinds(Package) : S = ItemSteps(Package) \cup TagSteps
  BY DEF Kinds
<1>7. q \in Seq(S)
  <2>1. p \in Package /\ [deprecated |-> by] \in Change
    BY <1>1 DEF InIndex, Change
  <2>2. s \in S
    BY <1>2, <1>6, <2>1, ItemStepsAre
  <2>3. t \in S
    BY <1>2, <1>6 DEF UpdateDeprecatedTags, TagSteps
  <2> QED
    BY <1>4, <2>2, <2>3
<1>8. Orderly(q)
  <2>1. \A i \in DOMAIN q : q[i].op # "constructItemIndex"
    BY <1>3, <1>5 DEF Coming
  <2>2. \A u \in Coming(q) : u.op \notin {"initTags", "setTagPackages", "setPackageTags"}
    BY <1>3, <1>5
  <2>3. \A u \in Later(q) : u.op \in Cold
    BY <1>3, <1>5 DEF Cold
  <2> QED
    BY <2>1, <2>2, <2>3 DEF Orderly
<1>9. /\ index \in [Package -> SUBSET Version] /\ \A x \in Package : IsFiniteSet(index[x])
      /\ preferred \in [Package -> SUBSET Version]
      /\ deprecatedFor \in [Package -> Replacements \cup {Nothing}] /\ unsure \subseteq Package
  BY DEF ListInv, TypeOK
<1>10. p \in Package /\ deprecatedFor'[p] = by
  BY <1>1, <1>9 DEF InIndex
<1>11. ASSUME NEW x \in Package, Well({}, x) PROVE Well(Coming(q), x)'
  <2>1. itemCache' = itemCache
    BY <1>1 DEF Begin
  <2>2. Tells(t) /\ Fresh(t, x)'
    BY <1>3 DEF Tells, Fresh
  <2>3. Fresh(s, x)'
    BY <1>3, <1>10 DEF Fresh
  <2>4. CASE x # p
    <3>1. SameData(x)
      BY <1>1, <1>9, <2>4 DEF SameData
    <3> QED
      BY <1>5, <1>11, <2>1, <2>2, <2>3, <3>1, WellFirst
  <2>5. CASE x = p
    <3>1. RenewsDeprecation(s, x)'
      BY <1>2, <1>10, <2>5 DEF RenewsDeprecation
    <3>2. x \in InIndex' => x \in DOMAIN itemCache'
      BY <1>1, <1>11, <2>1 DEF Well, InIndex
    <3>3. x \in DOMAIN itemCache' => ShowsTags(itemCache[x], x)' /\ ShowsReference(itemCache[x], x)'
      BY <1>1, <1>11, <2>1 DEF Well, ShowsTags, ShowsReference, Reference
    <3> QED
      BY <1>5, <2>2, <2>3, <3>1, <3>2, <3>3 DEF Well
  <2> QED
    BY <2>4, <2>5
<1>12. Begin(w, Package, q) /\ Package \in SUBSET Package
  BY <1>1, <1>2, <1>4
<1>13. /\ index' \in [Package -> SUBSET Version] /\ \A x \in Package : IsFiniteSet(index'[x])
       /\ preferred' \in [Package -> SUBSET Version]
       /\ UNCHANGED <<tags, entry>> /\ unsure' \subseteq Package
  BY <1>1, <1>9
<1>14. deprecatedFor' \in [Package -> Replacements \cup {Nothing}]
  BY <1>1, <1>9, <1>10
<1>15. \A x \in Package \ Package : SameData(x)
  OBVIOUS
<1> QED
  BY <1>5, <1>6, <1>7, <1>8, <1>11, <1>12, <1>13, <1>14, <1>15, BeginKeeps

LEMMA PreferKeeps ==
    ASSUME ListInv, NEW w \in Request, putPreferred(w)
    PROVE  ListInv'
<1>1. PICK p \in InIndex : \E versions \in SUBSET index[p] :
        /\ Begin(w, {p}, <<PreferredHook(p, versions), IndexEntry(p, versions)>>)
        /\ preferred' = [preferred EXCEPT ![p] = versions]
        /\ unsure' = IF EntryPending(p) THEN unsure \cup {p} ELSE unsure
        /\ UNCHANGED <<index, deprecatedFor, tags, entry>>
  BY DEF putPreferred
<1>2. PICK versions \in SUBSET index[p] :
        /\ Begin(w, {p}, <<PreferredHook(p, versions), IndexEntry(p, versions)>>)
        /\ preferred' = [preferred EXCEPT ![p] = versions]
        /\ unsure' = IF EntryPending(p) THEN unsure \cup {p} ELSE unsure
        /\ UNCHANGED <<index, deprecatedFor, tags, entry>>
  BY <1>1
<1>3. PICK s, t : s = PreferredHook(p, versions) /\ t = IndexEntry(p, versions)
  OBVIOUS
<1>4. /\ s.op = "preferredHook" /\ s.pkg = p /\ s.versions = versions
      /\ t.op = "indexEntry" /\ t.pkg = p
  BY <1>3 DEF PreferredHook, IndexEntry
<1>5. PICK q : q = <<s, t>>
  OBVIOUS
<1>6. Coming(q) = {s, t} /\ Later(q) = {t} /\ q # << >>
  BY <1>5, TwoSteps
<1>7. /\ index \in [Package -> SUBSET Version] /\ \A x \in Package : IsFiniteSet(index[x])
      /\ preferred \in [Package -> SUBSET Version]
      /\ deprecatedFor \in [Package -> Replacements \cup {Nothing}] /\ unsure \subseteq Package
  BY DEF ListInv, TypeOK
<1>8. p \in Package /\ versions \in SUBSET Version
  BY <1>2, <1>7 DEF InIndex
<1>9. PICK S \in Kinds({p}) : S = ItemSteps({p}) \cup PackageSteps({p})
  BY DEF Kinds
<1>10. q \in Seq(S)
  <2>1. s \in S /\ t \in S
    BY <1>3, <1>8, <1>9 DEF PreferredHook, IndexEntry, PackageSteps
  <2> QED
    BY <1>5, <2>1
<1>11. Orderly(q)
  <2>1. \A u \in Coming(q) : u.op \notin TagOps /\ u.op # "setPackageTags"
    BY <1>4, <1>6 DEF TagOps
  <2>2. \A u \in Later(q) : u.op \in Cold
    BY <1>4, <1>6 DEF Cold
  <2> QED
    BY <2>1, <2>2, OrderlyFirst
<1>12. preferred' \in [Package -> SUBSET Version] /\ unsure' \subseteq Package /\ preferred'[p] = versions
  BY <1>2, <1>7, <1>8
<1>13. \A x \in Package \ {p} : SameData(x)
  BY <1>2, <1>7 DEF SameData
<1>14. ASSUME Well({}, p) PROVE Well(Coming(q), p)'
  <2>1. itemCache' = itemCache
    BY <1>2 DEF Begin
  <2>2. Told(p)'
    BY <1>2, <1>14 DEF Well, Told, IsDeprecated
  <2>3. Fresh(s, p)' /\ Fresh(t, p)'
    BY <1>4, <1>12 DEF Fresh
  <2>4. RenewsReference(s, p)'
    BY <1>4 DEF RenewsReference
  <2>5. p \in DOMAIN itemCache' => ShowsDeprecation(itemCache[p], p)' /\ ShowsTags(itemCache[p], p)'
    BY <1>2, <1>14, <2>1 DEF Well, ShowsDeprecation, ShowsTags
  <2>6. p \in InIndex' => p \in DOMAIN itemCache'
    BY <1>2, <1>14, <2>1 DEF Well, InIndex
  <2> QED
    BY <1>6, <2>2, <2>3, <2>4, <2>5, <2>6 DEF Well
<1>15. Begin(w, {p}, q) /\ {p} \in SUBSET Package
  BY <1>2, <1>3, <1>5, <1>8
<1>16. /\ index' \in [Package -> SUBSET Version] /\ \A x \in Package : IsFiniteSet(index'[x])
       /\ deprecatedFor' \in [Package -> Replacements \cup {Nothing}]
       /\ UNCHANGED <<tags, entry>>
  BY <1>2, <1>7
<1> QED
  BY <1>6, <1>9, <1>10, <1>11, <1>12, <1>13, <1>14, <1>15, <1>16, BeginKeeps

(* A request that begins by storing nothing.                               *)
LEMMA QuietBegin ==
    ASSUME ListInv, NEW w \in Request, NEW p \in Package, NEW q, q # << >>,
           Begin(w, {p}, q), q \in Seq(ItemSteps({p}) \cup PackageSteps({p})), Orderly(q),
           UNCHANGED <<durable, unsure>>,
           Well({}, p) => \A s \in Coming(q) : Fresh(s, p)
    PROVE  ListInv'
<1>1. /\ index \in [Package -> SUBSET Version] /\ \A x \in Package : IsFiniteSet(index[x])
      /\ preferred \in [Package -> SUBSET Version]
      /\ deprecatedFor \in [Package -> Replacements \cup {Nothing}] /\ unsure \subseteq Package
  BY DEF ListInv, TypeOK
<1>2. UNCHANGED <<index, preferred, deprecatedFor, tags, entry, unsure>>
  BY DEF durable
<1>3. \A x \in Package : SameData(x)
  BY <1>2 DEF SameData
<1>4. ASSUME Well({}, p) PROVE Well(Coming(q), p)'
  <2>1. \A s \in Coming(q) : Fresh(s, p)'
    BY <1>3, <1>4, SameFacts
  <2>2. UNCHANGED itemCache
    BY DEF Begin
  <2> QED
    BY <1>3, <1>4, <2>1, <2>2, WellFirst
<1>5. PICK S \in Kinds({p}) : S = ItemSteps({p}) \cup PackageSteps({p})
  BY DEF Kinds
<1>6. /\ index' \in [Package -> SUBSET Version] /\ \A x \in Package : IsFiniteSet(index'[x])
      /\ preferred' \in [Package -> SUBSET Version]
      /\ deprecatedFor' \in [Package -> Replacements \cup {Nothing}]
      /\ UNCHANGED <<tags, entry>> /\ unsure' \subseteq Package
  BY <1>1, <1>2
<1>7. {p} \in SUBSET Package
  OBVIOUS
<1> QED
  BY <1>3, <1>4, <1>5, <1>6, <1>7, BeginKeeps

LEMMA PutTagsKeeps ==
    ASSUME ListInv, NEW w \in Request, putTags(w)
    PROVE  ListInv'
<1>1. PICK p \in InIndex, add \in SUBSET Editable, del \in SUBSET Editable, rejected \in SUBSET Editable :
        /\ Begin(w, {p},
             <<SetPackageTags(p, (tags.packageTags[p] \cup add) \ del),
               ReplaceReview(p, tags.reviewTags[p].add \ (add \cup rejected),
                                tags.reviewTags[p].del \ (del \cup rejected)),
               RunTagsUpdated({p})>>)
        /\ UNCHANGED <<durable, unsure>>
  BY DEF putTags
<1>2. PICK tagList, radd, rdel :
        /\ tagList = (tags.packageTags[p] \cup add) \ del
        /\ radd = tags.reviewTags[p].add \ (add \cup rejected)
        /\ rdel = tags.reviewTags[p].del \ (del \cup rejected)
  OBVIOUS
<1>3. p \in Package
  BY <1>1 DEF InIndex
<1>4. tagList \in SUBSET Tag /\ radd \in SUBSET Tag /\ rdel \in SUBSET Tag
  <2>1. tags \in PackageTags
    BY DEF ListInv, TypeOK
  <2>2. tags.packageTags[p] \in SUBSET Tag /\ tags.reviewTags[p] \in Review
    BY <1>3, <2>1 DEF PackageTags
  <2>3. tags.reviewTags[p].add \in SUBSET Tag /\ tags.reviewTags[p].del \in SUBSET Tag
    BY <2>2 DEF Review
  <2>4. Editable \subseteq Tag
    BY ListAssumption
  <2> QED
    BY <1>2, <2>2, <2>3, <2>4
<1>5. PICK s, t, u : /\ s = SetPackageTags(p, tagList)
                     /\ t = ReplaceReview(p, radd, rdel)
                     /\ u = RunTagsUpdated({p})
  OBVIOUS
<1>6. /\ s.op = "setPackageTags" /\ s.pkg = p /\ s.tagList = tagList
      /\ t.op = "review" /\ u.op = "tagsUpdated" /\ u.pkgs = {p}
  BY <1>5 DEF SetPackageTags, ReplaceReview, RunTagsUpdated
<1>7. PICK q : q = <<s, t, u>>
  OBVIOUS
<1>8. Coming(q) = {s, t, u} /\ Later(q) = {t, u} /\ q # << >>
  BY <1>7, ThreeSteps
<1>9. q \in Seq(ItemSteps({p}) \cup PackageSteps({p}))
  <2>1. s \in PackageSteps({p})
    BY <1>4, <1>5 DEF SetPackageTags, PackageSteps
  <2>2. t \in PackageSteps({p})
    BY <1>4, <1>5 DEF ReplaceReview, PackageSteps
  <2>3. u \in ItemSteps({p})
    BY <1>5, TellStepsAre
  <2> QED
    BY <1>7, <2>1, <2>2, <2>3
<1>10. Orderly(q)
  <2>1. \A x \in Coming(q) : x.op \notin TagOps
    BY <1>6, <1>8 DEF TagOps
  <2>2. \A x \in Later(q) : x.op \in Cold
    BY <1>6, <1>8 DEF Cold
  <2>3. \A x \in Coming(q) : x.op = "setPackageTags" =>
          \E y \in Later(q) : y.op = "tagsUpdated" /\ x.pkg \in y.pkgs
    BY <1>6, <1>8
  <2> QED
    BY <2>1, <2>2, <2>3, OrderlyFirst
<1>11. ASSUME Well({}, p) PROVE \A x \in Coming(q) : Fresh(x, p)
  <2>1. Told(p)
    BY <1>11 DEF Well
  <2>2. Deprecated \notin add /\ Deprecated \notin del
    BY <1>1, ListAssumption
  <2>3. Deprecated \in tagList <=> IsDeprecated(p)
    BY <1>2, <2>1, <2>2 DEF Told
  <2> QED
    BY <1>6, <1>8, <2>3 DEF Fresh
<1>12. Begin(w, {p}, q) /\ UNCHANGED <<durable, unsure>>
  BY <1>1, <1>2, <1>5, <1>7
<1> QED
  BY <1>3, <1>8, <1>9, <1>10, <1>11, <1>12, QuietBegin

LEMMA ProposeKeeps ==
    ASSUME ListInv, NEW w \in Request, proposeTags(w)
    PROVE  ListInv'
<1>1. PICK p \in InIndex, add \in SUBSET Editable, del \in SUBSET Editable :
        /\ Begin(w, {p}, <<ProposeTags(p, add \ tags.packageTags[p],
                                          del \cap tags.packageTags[p])>>)
        /\ UNCHANGED <<durable, unsure>>
  BY DEF proposeTags
<1>2. PICK add2 \in SUBSET Tag, del2 \in SUBSET Tag :
        add2 = add \ tags.packageTags[p] /\ del2 = del \cap tags.packageTags[p]
  BY ListAssumption
<1>3. p \in Package
  BY <1>1 DEF InIndex
<1>4. PICK s : s = ProposeTags(p, add2, del2)
  OBVIOUS
<1>5. s.op = "propose" /\ s.pkg = p /\ s \in PackageSteps({p})
  BY <1>4 DEF ProposeTags, PackageSteps
<1>6. PICK q : q = <<s>>
  OBVIOUS
<1>7. Coming(q) = {s} /\ Later(q) = {} /\ q # << >>
  BY <1>6, OneStep
<1>8. q \in Seq(ItemSteps({p}) \cup PackageSteps({p}))
  BY <1>5, <1>6
<1>9. Orderly(q)
  <2>1. \A x \in Coming(q) : x.op \notin TagOps /\ x.op # "setPackageTags"
    BY <1>5, <1>7 DEF TagOps
  <2> QED
    BY <1>7, <2>1, OrderlyFirst
<1>10. \A x \in Coming(q) : Fresh(x, p)
  BY <1>5, <1>7 DEF Fresh
<1>11. Begin(w, {p}, q) /\ UNCHANGED <<durable, unsure>>
  BY <1>1, <1>2, <1>4, <1>6
<1> QED
  BY <1>3, <1>7, <1>8, <1>9, <1>10, <1>11, QuietBegin

-----------------------------------------------------------------------------
(* A crash leaves all of it to the start of the server.                    *)
LEMMA CrashKeeps ==
    ASSUME ListInv, Crash
    PROVE  ListInv'
<1>0. TypeOK /\ Main \in Thread /\ \A v \in Request : v # Main
  BY ListAssumption DEF ListInv, Thread
<1>1. PICK ts : ts = UNION {ImmutableTags[p] : p \in InIndex}
  OBVIOUS
<1>2. PICK s, t, u : s = InitImmutableTags(ts) /\ t = UpdateDeprecatedTags /\ u = ConstructItemIndex
  OBVIOUS
<1>3. /\ s.op = "initTags" /\ t.op = "deprecatedTags" /\ u.op = "constructItemIndex"
  BY <1>2 DEF InitImmutableTags, UpdateDeprecatedTags, ConstructItemIndex
<1>4. PICK q : q = <<s, t, u>>
  OBVIOUS
<1>5. Coming(q) = {s, t, u} /\ Later(q) = {t, u} /\ q # << >>
  BY <1>4, ThreeSteps
<1>6. /\ UNCHANGED <<index, preferred, deprecatedFor, tags, entry>>
      /\ itemCache' = << >> /\ overlapped' = {}
      /\ todo' = [v \in Thread |-> IF v # Main THEN << >> ELSE q]
      /\ scope' = [v \in Thread |-> IF v = Main THEN Package ELSE {}]
      /\ unsure' = unsure \cup {p \in Package : EntryPending(p)}
  BY <1>1, <1>2, <1>4 DEF Crash, durable
<1>7. q \in Seq(ItemSteps(Package) \cup TagSteps)
  <2>1. \A p \in InIndex : ImmutableTags[p] \in SUBSET (Tag \ {Deprecated})
    BY ListAssumption DEF InIndex
  <2>2. ts \in SUBSET (Tag \ {Deprecated})
    BY <1>1, <2>1
  <2>3. s \in TagSteps /\ t \in TagSteps /\ u \in TagSteps
    BY <1>2, <2>2 DEF InitImmutableTags, UpdateDeprecatedTags, ConstructItemIndex, TagSteps
  <2> QED
    BY <1>4, <2>3
<1>8. DOMAIN itemCache' = {}
  BY <1>6
<1>9. TypeOK'
  <2>1. \A v \in Thread :
          \/ todo'[v] \in Seq(ItemSteps(scope'[v]) \cup PackageSteps(scope'[v]))
          \/ scope'[v] = Package /\ todo'[v] \in Seq(ItemSteps(Package) \cup TagSteps)
    BY <1>6, <1>7
  <2>2. itemCache' \in [DOMAIN itemCache' -> Item] /\ DOMAIN itemCache' \subseteq Package
    BY <1>6, <1>8
  <2>3. scope' \in [Thread -> SUBSET Package] /\ DOMAIN todo' = Thread
    BY <1>6
  <2>4. overlapped' \subseteq Package /\ unsure' \subseteq Package
    BY <1>0, <1>6 DEF TypeOK
  <2> QED
    BY <1>0, <1>6, <2>1, <2>2, <2>3, <2>4 DEF TypeOK
<1>10. TagMapsAgree' /\ \A p \in Package : IsFiniteSet(index'[p])
  BY <1>6 DEF ListInv, TagMapsAgree
<1>11. Apart'
  BY <1>0, <1>5, <1>6 DEF Apart, Thread
<1>12. Orderly(q)
  <2>1. \A i \in DOMAIN q : q[i].op = "constructItemIndex" => i = Len(q)
    <3>1. DOMAIN q = {1, 2, 3} /\ q[1] = s /\ q[2] = t /\ Len(q) = 3
      BY <1>4
    <3> QED
      BY <1>3, <3>1
  <2>2. \A x \in Later(q) : x.op \in Cold
    BY <1>3, <1>5 DEF Cold
  <2>3. BuildsList(q)
    BY <1>3, <1>5 DEF BuildsList
  <2>4. \A x \in Coming(q) : x.op # "setPackageTags"
    BY <1>3, <1>5
  <2> QED
    BY <2>1, <2>2, <2>3, <2>4 DEF Orderly
<1>13. Orderly(<< >>)
  BY NothingOrderly
<1>14. \A v \in Thread : Orderly(todo[v])'
  <2> SUFFICES ASSUME NEW v \in Thread PROVE Orderly(todo[v])'
    OBVIOUS
  <2>1. todo'[v] = q \/ todo'[v] = << >>
    BY <1>6
  <2> QED
    BY <1>12, <1>13, <2>1, NextSteps
<1>15. ASSUME NEW p \in Package PROVE Waiting(p)'
  <2>1. Busy(p)' = {Main}
    BY <1>0, <1>6 DEF Busy
  <2>2. Coming(todo[Main])' = Coming(q)
    <3>1. todo'[Main] = q
      BY <1>0, <1>6
    <3> QED
      BY <3>1, NextSteps
  <2>3. Ahead(p)' = {Coming(q)}
    BY <2>1, <2>2 DEF Ahead
  <2>4. Well(Coming(q), p)'
    <3>1. Fresh(s, p)' /\ Fresh(t, p)' /\ Fresh(u, p)'
      BY <1>3 DEF Fresh
    <3>2. Tells(t) /\ Lists(u, p)
      BY <1>3 DEF Tells, Lists
    <3> QED
      BY <1>5, <1>8, <3>1, <3>2 DEF Well
  <2> QED
    BY <2>3, <2>4 DEF Waiting
<1> QED
  BY <1>9, <1>10, <1>11, <1>14, <1>15 DEF ListInv

LEMMA EmptyTags ==
    emptyPackageTags \in PackageTags /\ OneRelation(emptyPackageTags)
<1>1. [add |-> {}, del |-> {}] \in Review
  BY DEF Review
<1>2. PICK r \in Review : r = [add |-> {}, del |-> {}]
  BY <1>1
<1>3. PICK none, unused, calm :
        /\ none = [p \in Package |-> {}]
        /\ unused = [t \in Tag |-> {}]
        /\ calm = [p \in Package |-> r]
  OBVIOUS
<1>4. none \in [Package -> SUBSET Tag] /\ unused \in [Tag -> SUBSET Package]
      /\ calm \in [Package -> Review]
  BY <1>3
<1>5. PICK pt : pt = emptyPackageTags
  OBVIOUS
<1>6. pt = [packageTags |-> none, tagPackages |-> unused, reviewTags |-> calm]
  BY <1>2, <1>3, <1>5 DEF emptyPackageTags
<1>7. pt \in PackageTags
  BY <1>4, <1>6 DEF PackageTags
<1>8. OneRelation(pt)
  BY <1>3, <1>6 DEF OneRelation
<1> QED
  BY <1>5, <1>7, <1>8

LEMMA InitListInv ==
    ASSUME Init
    PROVE  ListInv
<1>1. tags = emptyPackageTags /\ emptyPackageTags \in PackageTags /\ OneRelation(emptyPackageTags)
  BY EmptyTags DEF Init
<1>2. ASSUME NEW p \in Package PROVE Deprecated \notin tags.packageTags[p]
  BY <1>1 DEF emptyPackageTags
<1>3. DOMAIN itemCache = {} /\ itemCache \in [{} -> Item]
  BY DEF Init
<1>4. TypeOK
  BY <1>1, <1>3 DEF Init, TypeOK
<1>5. Main \in Thread /\ Request \subseteq Thread
  BY DEF Thread
<1>6. Apart
  BY <1>5 DEF Init, Apart
<1>7. \A v \in Thread : Orderly(todo[v])
  <2>1. \A v \in Thread : todo[v] = << >>
    BY DEF Init
  <2> QED
    BY <2>1, NothingOrderly
<1>8. ASSUME NEW p \in Package PROVE Waiting(p)
  <2>1. Busy(p) = {}
    BY DEF Init, Busy
  <2>2. Well({}, p)
    <3>1. Told(p)
      BY <1>2, <1>8 DEF Init, Told, IsDeprecated
    <3>2. p \notin InIndex
      BY DEF Init, InIndex
    <3> QED
      BY <1>3, <3>1, <3>2 DEF Well
  <2> QED
    BY <2>1, <2>2 DEF Waiting, Ahead
<1>9. ASSUME NEW p \in Package PROVE IsFiniteSet(index[p])
  <2>1. index[p] = {}
    BY DEF Init
  <2>2. IsFiniteSet({})
    BY FS_EmptySet
  <2> QED
    BY <2>1, <2>2
<1> QED
  BY <1>1, <1>4, <1>6, <1>7, <1>8, <1>9 DEF ListInv, TagMapsAgree

LEMMA ListInvUnchanged ==
    ASSUME ListInv, UNCHANGED vars
    PROVE  ListInv'
<1>1. UNCHANGED <<index, preferred, deprecatedFor, tags, entry, itemCache, todo, scope, overlapped, unsure>>
  BY DEF vars, durable, threads, history
<1>2. TypeOK' /\ TagMapsAgree' /\ Apart' /\ \A p \in Package : IsFiniteSet(index'[p])
  BY <1>1 DEF ListInv, TypeOK, TagMapsAgree, Apart
<1>3. \A v \in Thread : Orderly(todo[v])'
  BY <1>1, NextSteps DEF ListInv
<1>4. ASSUME NEW p \in Package \ overlapped' PROVE Waiting(p)'
  <2>1. Same(p) /\ Waiting(p) /\ p \in Package
    BY <1>1, <1>4 DEF Same, SameData, ListInv
  <2>2. Ahead(p)' = Ahead(p)
    BY <1>1 DEF Ahead, Busy, Coming
  <2>3. \A steps \in Ahead(p) : Well(steps, p)'
    BY <2>1, WellSame DEF Waiting
  <2> QED
    BY <2>2, <2>3 DEF Waiting
<1> QED
  BY <1>2, <1>3, <1>4 DEF ListInv

LEMMA NextListInv ==
    ASSUME ListInv, [Next]_vars
    PROVE  ListInv'
<1>1. ASSUME NEW w \in Request, Handle(w) PROVE ListInv'
  BY <1>1, UploadKeeps, DeprecateKeeps, PreferKeeps, PutTagsKeeps, ProposeKeeps DEF Handle
<1>2. ASSUME NEW w \in Thread, Step(w) PROVE ListInv'
  <2>1. CASE modifyItem(w) \/ insertItem(w) \/ tagsUpdated(w)
    BY <2>1, ModifyKeeps, InsertKeeps, TagsUpdatedKeeps
  <2>2. CASE setPackageTags(w) \/ setCalculatedTag(w) \/ retag(w)
    BY <2>2, SetPackageTagsKeeps, SetTagPackagesKeeps, RetagKeeps
  <2>3. CASE replaceReview(w) \/ insertReview(w) \/ initImmutableTags(w)
    BY <2>3, ReviewKeeps, InitTagsKeeps
  <2>4. CASE updatePreferred(w) \/ addIndexEntry(w) \/ updateDeprecatedTags(w)
    BY <2>4, ReferenceKeeps, EntryKeeps, DeprecatedTagsKeeps
  <2>5. CASE updateLastUpload(w) \/ constructItemIndex(w)
    BY <2>5, ReferenceKeeps, ConstructKeeps
  <2> QED
    BY <1>2, <2>1, <2>2, <2>3, <2>4, <2>5 DEF Step
<1> QED
  BY <1>1, <1>2, CrashKeeps, ListInvUnchanged DEF Next

(* The invariant from which the theorems below follow: whatever the steps  *)
(* of a request and wherever the server stops, the steps still to come     *)
(* will bring a package that no two requests were busy with to agreement.  *)
THEOREM ListInvariant == Spec => []ListInv
<1>1. Init => ListInv
  BY InitListInv
<1>2. ListInv /\ [Next]_vars => ListInv'
  BY NextListInv
<1> QED
  BY <1>1, <1>2, PTL DEF Spec

(* Every step and item has its type; a thread has steps about the packages *)
(* in its scope only.                                                      *)
THEOREM TypeCorrect == Spec => []TypeOK
<1>1. ListInv => TypeOK
  BY DEF ListInv
<1> QED
  BY <1>1, ListInvariant, PTL

LEMMA SettledWell ==
    ASSUME ListInv, NEW p \in Package, Settled(p)
    PROVE  Well({}, p)
<1>1. Busy(p) = {} /\ Waiting(p)
  BY DEF Settled, Busy, ListInv
<1> QED
  BY <1>1 DEF Waiting, Ahead

(* A package that no thread is busy with has the tag of deprecation        *)
(* exactly if it is deprecated.                                            *)
THEOREM TagsFollow == Spec => []TagsAgree
<1>1. ASSUME ListInv PROVE TagsAgree
  <2>1. TagMapsAgree
    BY <1>1 DEF ListInv
  <2>2. ASSUME NEW p \in InIndex, Settled(p)
        PROVE  Deprecated \in tags.packageTags[p] <=> deprecatedFor[p] # Nothing
    <3>1. Well({}, p)
      BY <1>1, <2>2, SettledWell DEF InIndex
    <3> QED
      BY <3>1 DEF Well, Told, IsDeprecated
  <2> QED
    BY <2>1, <2>2 DEF TagsAgree
<1> QED
  BY <1>1, ListInvariant, PTL

(* The list shows what the features hold of such a package.                *)
THEOREM ListFollows == Spec => []ListAgrees
<1>1. ASSUME ListInv PROVE ListAgrees
  <2>1. ASSUME NEW p \in InIndex, Settled(p)
        PROVE  /\ p \in DOMAIN itemCache
               /\ itemCache[p].deprecated = deprecatedFor[p]
               /\ itemCache[p].tags \ {Deprecated} = tags.packageTags[p] \ {Deprecated}
               /\ Deprecated \in tags.packageTags[p] => Deprecated \in itemCache[p].tags
               /\ \/ itemCache[p].reference = ReferenceVersion(preferred[p], index[p])
                  \/ itemCache[p].reference = NoVersion /\ Highest(index[p]) \in preferred[p]
    <3>1. Well({}, p)
      BY <1>1, <2>1, SettledWell DEF InIndex
    <3> QED
      BY <3>1 DEF Well, ShowsDeprecation, ShowsTags, ShowsReference, Reference
  <2> QED
    BY <2>1 DEF ListAgrees
<1> QED
  BY <1>1, ListInvariant, PTL

-----------------------------------------------------------------------------
(* The entries of the index.                                               *)

LEMMA PendingIs ==
    ASSUME NEW p
    PROVE  EntryPending(p) <=> \E w \in Request : Entries(w, p) # {}
BY DEF EntryPending, Entries, Coming

LEMMA ComingOfThen ==
    ASSUME NEW S, NEW q \in Seq(S), q # << >>, NEW T, NEW new \in Seq(T),
           NEW r, r = new \o Tail(q)
    PROVE  Coming(r) = Coming(new) \cup Later(q)
<1>1. PICK u : u = Tail(q)
  OBVIOUS
<1>2. u \in Seq(S) /\ Later(q) = {u[i] : i \in DOMAIN u}
  BY <1>1 DEF Later, Coming
<1>3. PICK m \in Nat : m = Len(new)
  OBVIOUS
<1>4. PICK n \in Nat : n = Len(u)
  BY <1>2
<1>5. /\ DOMAIN r = 1 .. m + n /\ DOMAIN new = 1 .. m /\ DOMAIN u = 1 .. n
      /\ \A i \in 1 .. m + n : r[i] = IF i <= m THEN new[i] ELSE u[i - m]
  <2>1. r = new \o u
    BY <1>1
  <2>2. DOMAIN new = 1 .. m /\ DOMAIN u = 1 .. n
    BY <1>2, <1>3, <1>4
  <2>3. DOMAIN r = 1 .. m + n
    BY <1>2, <1>3, <1>4, <2>1
  <2>4. ASSUME NEW i \in 1 .. m + n PROVE r[i] = IF i <= m THEN new[i] ELSE u[i - m]
    BY <1>2, <1>3, <1>4, <2>1
  <2> QED
    BY <2>2, <2>3, <2>4
<1>6. ASSUME NEW x \in Coming(r) PROVE x \in Coming(new) \cup Later(q)
  <2>1. PICK i \in DOMAIN r : x = r[i]
    BY <1>6 DEF Coming
  <2>2. CASE i <= m
    BY <1>5, <2>1, <2>2 DEF Coming
  <2>3. CASE ~ i <= m
    <3>1. i \in 1 .. m + n /\ i - m \in 1 .. n
      BY <1>5, <2>1, <2>3
    <3> QED
      BY <1>2, <1>5, <2>1, <2>3, <3>1
  <2> QED
    BY <2>2, <2>3
<1>7. ASSUME NEW x \in Coming(new) PROVE x \in Coming(r)
  <2>1. PICK i \in DOMAIN new : x = new[i]
    BY <1>7 DEF Coming
  <2>2. i \in DOMAIN r /\ r[i] = x
    BY <1>5, <2>1
  <2> QED
    BY <2>2 DEF Coming
<1>8. ASSUME NEW x \in Later(q) PROVE x \in Coming(r)
  <2>1. PICK i \in DOMAIN u : x = u[i]
    BY <1>2, <1>8
  <2>2. i \in 1 .. n /\ i + m \in 1 .. m + n /\ ~ i + m <= m /\ (i + m) - m = i
    BY <1>5, <2>1
  <2>3. r[i + m] = x /\ i + m \in DOMAIN r
    BY <1>5, <2>1, <2>2
  <2> QED
    BY <2>3 DEF Coming
<1> QED
  BY <1>6, <1>7, <1>8

(* Steps that neither add an entry nor call for one.                       *)
NoEntry(w, new) ==
    /\ todo[w] # << >> /\ Head(todo[w]).op # "indexEntry"
    /\ Then(w, new) /\ \A s \in Coming(new) : s.op # "indexEntry"
    /\ UNCHANGED <<preferred, entry, unsure>>

LEMMA StepEntries ==
    ASSUME TypeOK, NEW w \in Thread, NEW T, NEW new \in Seq(T), Then(w, new), todo[w] # << >>,
           \A s \in Coming(new) : s.op # "indexEntry", NEW v \in Thread, NEW p,
           NEW h, h = Head(todo[w]), v = w => ~ (h.op = "indexEntry" /\ h.pkg = p)
    PROVE  Entries(v, p)' = Entries(v, p)
<1>1. todo' = [todo EXCEPT ![w] = new \o Tail(todo[w])] /\ DOMAIN todo = Thread
  BY DEF Then, TypeOK
<1>2. CASE v # w
  BY <1>1, <1>2 DEF Entries, Coming
<1>3. CASE v = w
  <2>1. PICK r : r = todo'[w]
    OBVIOUS
  <2>2. r = new \o Tail(todo[w])
    BY <1>1, <2>1
  <2>3. PICK S : todo[w] \in Seq(S)
    BY DEF TypeOK
  <2>4. Coming(r) = Coming(new) \cup Later(todo[w])
    BY <2>2, <2>3, ComingOfThen
  <2>5. Coming(todo[w]) = {h} \cup Later(todo[w])
    BY <2>3, ComingIs
  <2>6. Entries(w, p)' = {s \in Coming(r) : s.op = "indexEntry" /\ s.pkg = p}
    <3>1. Coming(todo[w])' = Coming(r)
      BY <2>1, NextSteps
    <3> QED
      BY <3>1 DEF Entries
  <2>7. {s \in Coming(r) : s.op = "indexEntry" /\ s.pkg = p} = Entries(w, p)
    BY <1>3, <2>4, <2>5 DEF Entries
  <2> QED
    BY <1>3, <2>6, <2>7
<1> QED
  BY <1>2, <1>3

LEMMA NoEntryKeeps ==
    ASSUME TypeOK, EntriesFollow, NEW w \in Thread, NEW T, NEW new \in Seq(T), NoEntry(w, new)
    PROVE  EntriesFollow'
<1>1. \A p : \A v \in Thread : Entries(v, p)' = Entries(v, p)
  BY StepEntries DEF NoEntry
<1>2. Request \subseteq Thread
  BY DEF Thread
<1> QED
  BY <1>1, <1>2 DEF NoEntry, EntriesFollow

LEMMA AddEntryKeeps ==
    ASSUME ListInv, EntriesFollow, NEW w \in Thread, addIndexEntry(w)
    PROVE  EntriesFollow'
<1>1. PICK h, p : h = Head(todo[w]) /\ p = h.pkg
  OBVIOUS
<1>2. /\ todo[w] # << >> /\ h.op = "indexEntry"
      /\ Coming(todo[w]) = {h} \cup Later(todo[w])
      /\ scope[w] \in SUBSET Package /\ PackageFields(h, scope[w])
  BY <1>1, StepFacts DEF addIndexEntry, PackageOps
<1>3. p \in Package
  BY <1>1, <1>2 DEF PackageFields, PackageOps
<1>4. TypeOK /\ Orderly(todo[w]) /\ Request \subseteq Thread
  BY DEF ListInv, Thread
<1>5. UNCHANGED <<preferred, unsure>> /\ entry' = [entry EXCEPT ![p] = h.versions] /\ Then(w, << >>)
  BY <1>1 DEF addIndexEntry, history
<1>6. << >> \in Seq({}) /\ Coming(<< >>) = {}
  BY NoSteps
<1>7. \A x : x # p => \A v \in Thread : Entries(v, x)' = Entries(v, x)
  BY <1>1, <1>2, <1>4, <1>5, <1>6, StepEntries
<1>8. \A v \in Thread : Entries(v, p)' \subseteq Entries(v, p)
  <2>1. ASSUME NEW v \in Thread, v # w PROVE Entries(v, p)' = Entries(v, p)
    BY <1>1, <1>2, <1>4, <1>5, <1>6, <2>1, StepEntries
  <2>2. Coming(todo[w])' \subseteq Coming(todo[w])
    <3>1. PICK r : r = todo'[w]
      OBVIOUS
    <3>2. r = << >> \o Tail(todo[w])
      BY <1>4, <1>5, <3>1 DEF Then, TypeOK
    <3>3. PICK S : todo[w] \in Seq(S)
      BY <1>4 DEF TypeOK
    <3>4. Coming(r) = Coming(<< >>) \cup Later(todo[w])
      BY <1>2, <1>6, <3>2, <3>3, ComingOfThen
    <3>5. Coming(todo[w])' = Coming(r)
      BY <3>1, NextSteps
    <3> QED
      BY <1>2, <1>6, <3>4, <3>5
  <2> QED
    BY <2>1, <2>2 DEF Entries
<1>9. ASSUME NEW x \in Package \ unsure'
      PROVE  /\ \A v \in Thread : \A s \in Entries(v, x)' : s.versions = preferred'[x]
             /\ entry'[x] = preferred'[x] \/ \E v \in Request : Entries(v, x)' # {}
  <2>1. x \in Package \ unsure /\ preferred'[x] = preferred[x]
    BY <1>5, <1>9
  <2>2. CASE x # p
    <3>1. entry'[x] = entry[x]
      BY <1>4, <1>5, <2>1, <2>2 DEF TypeOK
    <3> QED
      BY <1>4, <1>7, <2>1, <2>2, <3>1 DEF EntriesFollow
  <2>3. CASE x = p
    <3>1. h \in Entries(w, p)
      BY <1>1, <1>2 DEF Entries
    <3>2. h.versions = preferred[p]
      BY <2>1, <2>3, <3>1 DEF EntriesFollow
    <3>3. entry'[p] = h.versions
      BY <1>3, <1>4, <1>5 DEF TypeOK
    <3> QED
      BY <1>8, <2>1, <2>3, <3>2, <3>3 DEF EntriesFollow
  <2> QED
    BY <2>2, <2>3
<1> QED
  BY <1>9 DEF EntriesFollow

LEMMA NoNewEntry ==
    ASSUME TypeOK, EntriesFollow, NEW w \in Thread,
           todo[w] # << >>, Head(todo[w]).op # "indexEntry", UNCHANGED <<preferred, entry, unsure>>,
           \/ Then(w, << >>)
           \/ \E s : Then(w, <<s>>) /\ s.op # "indexEntry"
           \/ \E s, t : Then(w, <<s, t>>) /\ s.op # "indexEntry" /\ t.op # "indexEntry"
    PROVE  EntriesFollow'
<1>1. CASE Then(w, << >>)
  <2>1. << >> \in Seq({}) /\ NoEntry(w, << >>)
    BY <1>1, NoSteps DEF NoEntry
  <2> QED
    BY <2>1, NoEntryKeeps
<1>2. ASSUME NEW s, Then(w, <<s>>), s.op # "indexEntry" PROVE EntriesFollow'
  <2>1. PICK new : new = <<s>>
    OBVIOUS
  <2>2. new \in Seq({s}) /\ Coming(new) = {s}
    BY <2>1, OneStep
  <2>3. NoEntry(w, new)
    BY <1>2, <2>1, <2>2 DEF NoEntry
  <2> QED
    BY <2>2, <2>3, NoEntryKeeps
<1>3. ASSUME NEW s, NEW t, Then(w, <<s, t>>), s.op # "indexEntry", t.op # "indexEntry"
      PROVE  EntriesFollow'
  <2>1. PICK new : new = <<s, t>>
    OBVIOUS
  <2>2. new \in Seq({s, t}) /\ Coming(new) = {s, t}
    BY <2>1, TwoSteps
  <2>3. NoEntry(w, new)
    BY <1>3, <2>1, <2>2 DEF NoEntry
  <2> QED
    BY <2>2, <2>3, NoEntryKeeps
<1> QED
  BY <1>1, <1>2, <1>3

LEMMA OtherStepsKeep ==
    ASSUME ListInv, EntriesFollow, NEW w \in Thread, Step(w)
    PROVE  EntriesFollow'
<1>0. TypeOK
  BY DEF ListInv
<1>1. CASE modifyItem(w)
  <2>1. \A p : Insert(p, constructItem(p)).op # "indexEntry"
    BY DEF Insert
  <2> QED
    BY <1>0, <1>1, <2>1, NoNewEntry DEF modifyItem, Doing, durable, history
<1>2. CASE insertItem(w)
  BY <1>0, <1>2, NoNewEntry DEF insertItem, Doing, durable, history
<1>3. CASE tagsUpdated(w)
  <2>1. \A p, pkgs : /\ Modify(p, [tags |-> tags.packageTags[p]]).op # "indexEntry"
                     /\ RunTagsUpdated(pkgs \ {p}).op # "indexEntry"
    BY DEF Modify, RunTagsUpdated
  <2> QED
    BY <1>0, <1>3, <2>1, NoNewEntry DEF tagsUpdated, Doing, durable, history
<1>4. CASE setPackageTags(w)
  BY <1>0, <1>4, NoNewEntry DEF setPackageTags, Doing, history
<1>5. CASE setCalculatedTag(w)
  <2>1. \A pkgs : RunTagsUpdated(pkgs).op # "indexEntry"
    BY DEF RunTagsUpdated
  <2> QED
    BY <1>0, <1>5, <2>1, NoNewEntry DEF setCalculatedTag, Doing, history
<1>6. CASE retag(w)
  <2>1. PICK p, tagList : Then(w, <<SetPackageTags(p, tagList), RunTagsUpdated({p})>>)
    BY <1>6 DEF retag
  <2>2. SetPackageTags(p, tagList).op # "indexEntry" /\ RunTagsUpdated({p}).op # "indexEntry"
    BY DEF SetPackageTags, RunTagsUpdated
  <2>3. todo[w] # << >> /\ Head(todo[w]).op = "retag" /\ UNCHANGED <<preferred, entry, unsure>>
    BY <1>6 DEF retag, Doing, durable, history
  <2> QED
    BY <1>0, <2>1, <2>2, <2>3, NoNewEntry
<1>7. CASE replaceReview(w) \/ insertReview(w)
  BY <1>0, <1>7, NoNewEntry DEF replaceReview, insertReview, Doing, history
<1>8. CASE initImmutableTags(w)
  <2>1. \/ Then(w, << >>)
        \/ \E u, pkgs, ts : Then(w, <<SetTagPackages(u, pkgs), InitImmutableTags(ts)>>)
    BY <1>8 DEF initImmutableTags
  <2>2. \A u, pkgs, ts : /\ SetTagPackages(u, pkgs).op # "indexEntry"
                         /\ InitImmutableTags(ts).op # "indexEntry"
    BY DEF SetTagPackages, InitImmutableTags
  <2>3. todo[w] # << >> /\ Head(todo[w]).op = "initTags" /\ UNCHANGED <<preferred, entry, unsure>>
    BY <1>8 DEF initImmutableTags, Doing, durable, history
  <2> QED
    BY <1>0, <2>1, <2>2, <2>3, NoNewEntry
<1>9. CASE updatePreferred(w)
  <2>1. \A p, change : Modify(p, change).op # "indexEntry"
    BY DEF Modify
  <2> QED
    BY <1>0, <1>9, <2>1, NoNewEntry DEF updatePreferred, Doing, durable, history
<1>10. CASE updateDeprecatedTags(w)
  <2>1. \A u, pkgs : SetTagPackages(u, pkgs).op # "indexEntry"
    BY DEF SetTagPackages
  <2> QED
    BY <1>0, <1>10, <2>1, NoNewEntry DEF updateDeprecatedTags, Doing, durable, history
<1>11. CASE updateLastUpload(w)
  <2>1. \A p, change : Modify(p, change).op # "indexEntry"
    BY DEF Modify
  <2> QED
    BY <1>0, <1>11, <2>1, NoNewEntry DEF updateLastUpload, Doing, durable, history
<1>12. CASE constructItemIndex(w)
  BY <1>0, <1>12, NoNewEntry DEF constructItemIndex, Doing, durable, history
<1> QED
  BY <1>1, <1>2, <1>3, <1>4, <1>5, <1>6, <1>7, <1>8, <1>9, <1>10, <1>11, <1>12, AddEntryKeeps DEF Step

(* A request that begins has the entries of its own steps to add.          *)
LEMMA BeginEntries ==
    ASSUME TypeOK, NEW w \in Request, NEW pkgs, NEW q, Begin(w, pkgs, q), NEW p
    PROVE  /\ Entries(w, p) = {}
           /\ Entries(w, p)' = {s \in Coming(q) : s.op = "indexEntry" /\ s.pkg = p}
           /\ \A v \in Thread \ {w} : Entries(v, p)' = Entries(v, p)
<1>1. /\ todo[w] = << >> /\ todo' = [todo EXCEPT ![w] = q] /\ DOMAIN todo = Thread /\ w \in Thread
  BY DEF Begin, TypeOK, Thread
<1>2. Coming(todo[w])' = Coming(q)
  BY <1>1, NextSteps
<1>3. \A v \in Thread \ {w} : Entries(v, p)' = Entries(v, p)
  BY <1>1 DEF Entries, Coming
<1>4. Entries(w, p) = {}
  BY <1>1, NoSteps DEF Entries
<1> QED
  BY <1>2, <1>3, <1>4 DEF Entries

LEMMA OtherBeginKeeps ==
    ASSUME TypeOK, EntriesFollow, NEW w \in Request, NEW pkgs, NEW q, Begin(w, pkgs, q),
           \A s \in Coming(q) : s.op # "indexEntry", UNCHANGED <<preferred, entry, unsure>>
    PROVE  EntriesFollow'
<1>1. \A v \in Thread : \A p : Entries(v, p)' = Entries(v, p)
  BY BeginEntries
<1>2. Request \subseteq Thread
  BY DEF Thread
<1> QED
  BY <1>1, <1>2 DEF EntriesFollow

LEMMA HandleEntries ==
    ASSUME ListInv, EntriesFollow, NEW w \in Request, Handle(w)
    PROVE  EntriesFollow'
<1>0. TypeOK
  BY DEF ListInv
<1>1. CASE upload(w)
  <2>1. PICK p, q : q = <<LastUpload(p), Retag(p)>> /\ Begin(w, {p}, q)
    BY <1>1 DEF upload
  <2>2. LastUpload(p).op # "indexEntry" /\ Retag(p).op # "indexEntry"
    BY DEF LastUpload, Retag
  <2>3. \A s \in Coming(q) : s.op # "indexEntry"
    BY <2>1, <2>2, TwoSteps
  <2>4. UNCHANGED <<preferred, entry, unsure>>
    BY <1>1 DEF upload
  <2> QED
    BY <1>0, <2>1, <2>3, <2>4, OtherBeginKeeps
<1>2. CASE putDeprecated(w)
  <2>1. PICK p, by, q : /\ q = <<Modify(p, [deprecated |-> by]), UpdateDeprecatedTags>>
                        /\ Begin(w, Package, q)
    BY <1>2 DEF putDeprecated
  <2>2. Modify(p, [deprecated |-> by]).op # "indexEntry" /\ UpdateDeprecatedTags.op # "indexEntry"
    BY DEF Modify, UpdateDeprecatedTags
  <2>3. \A s \in Coming(q) : s.op # "indexEntry"
    BY <2>1, <2>2, TwoSteps
  <2>4. UNCHANGED <<preferred, entry, unsure>>
    BY <1>2 DEF putDeprecated
  <2> QED
    BY <1>0, <2>1, <2>3, <2>4, OtherBeginKeeps
<1>3. CASE putTags(w)
  <2>1. PICK p, tagList, add, del :
          Begin(w, {p}, <<SetPackageTags(p, tagList), ReplaceReview(p, add, del), RunTagsUpdated({p})>>)
    BY <1>3 DEF putTags
  <2>2. PICK s, t, u : s = SetPackageTags(p, tagList) /\ t = ReplaceReview(p, add, del)
                       /\ u = RunTagsUpdated({p})
    OBVIOUS
  <2>3. s.op # "indexEntry" /\ t.op # "indexEntry" /\ u.op # "indexEntry"
    BY <2>2 DEF SetPackageTags, ReplaceReview, RunTagsUpdated
  <2>4. PICK q : q = <<s, t, u>>
    OBVIOUS
  <2>5. \A x \in Coming(q) : x.op # "indexEntry"
    BY <2>3, <2>4, ThreeSteps
  <2>6. UNCHANGED <<preferred, entry, unsure>> /\ Begin(w, {p}, q)
    BY <1>3, <2>1, <2>2, <2>4 DEF putTags, durable
  <2> QED
    BY <1>0, <2>5, <2>6, OtherBeginKeeps
<1>4. CASE proposeTags(w)
  <2>1. PICK p, add, del, q : q = <<ProposeTags(p, add, del)>> /\ Begin(w, {p}, q)
    BY <1>4 DEF proposeTags
  <2>2. ProposeTags(p, add, del).op # "indexEntry"
    BY DEF ProposeTags
  <2>3. \A s \in Coming(q) : s.op # "indexEntry"
    BY <2>1, <2>2, OneStep
  <2>4. UNCHANGED <<preferred, entry, unsure>>
    BY <1>4 DEF proposeTags, durable
  <2> QED
    BY <1>0, <2>1, <2>3, <2>4, OtherBeginKeeps
<1>5. CASE putPreferred(w)
  <2>0. PICK p \in InIndex : \E versions \in SUBSET index[p] :
          /\ Begin(w, {p}, <<PreferredHook(p, versions), IndexEntry(p, versions)>>)
          /\ preferred' = [preferred EXCEPT ![p] = versions]
          /\ unsure' = IF EntryPending(p) THEN unsure \cup {p} ELSE unsure
          /\ entry' = entry
    BY <1>5 DEF putPreferred
  <2>1. PICK versions :
          /\ Begin(w, {p}, <<PreferredHook(p, versions), IndexEntry(p, versions)>>)
          /\ preferred' = [preferred EXCEPT ![p] = versions]
          /\ unsure' = IF EntryPending(p) THEN unsure \cup {p} ELSE unsure
          /\ entry' = entry
    BY <2>0
  <2>8. p \in Package
    BY DEF InIndex
  <2>2. PICK s, t : s = PreferredHook(p, versions) /\ t = IndexEntry(p, versions)
    OBVIOUS
  <2>3. s.op # "indexEntry" /\ t.op = "indexEntry" /\ t.pkg = p /\ t.versions = versions
    BY <2>2 DEF PreferredHook, IndexEntry
  <2>4. PICK q : q = <<s, t>>
    OBVIOUS
  <2>5. Coming(q) = {s, t} /\ Begin(w, {p}, q)
    BY <2>1, <2>2, <2>4, TwoSteps
  <2>6. todo[Main] = << >> /\ preferred \in [Package -> SUBSET Version]
    BY <1>0, <2>1 DEF Begin, Serving, TypeOK
  <2>7. ASSUME NEW x \in Package \ unsure'
        PROVE  /\ \A v \in Thread : \A e \in Entries(v, x)' : e.versions = preferred'[x]
               /\ entry'[x] = preferred'[x] \/ \E v \in Request : Entries(v, x)' # {}
    <3>0. x \in Package \ unsure /\ Request \subseteq Thread
      BY <2>1, <2>7 DEF Thread
    <3>1. /\ Entries(w, x) = {}
          /\ Entries(w, x)' = {e \in {s, t} : e.op = "indexEntry" /\ e.pkg = x}
          /\ \A v \in Thread \ {w} : Entries(v, x)' = Entries(v, x)
      BY <1>0, <2>5, BeginEntries
    <3>2. CASE x # p
      <4>1. Entries(w, x)' = {} /\ preferred'[x] = preferred[x]
        BY <2>1, <2>3, <2>6, <3>1, <3>2
      <4> QED
        BY <2>1, <3>0, <3>1, <4>1 DEF EntriesFollow
    <3>3. CASE x = p
      <4>1. Entries(w, p)' = {t} /\ preferred'[p] = versions
        BY <2>1, <2>3, <2>6, <2>8, <3>1, <3>3
      <4>2. ~ EntryPending(p)
        BY <2>1, <2>7, <3>3
      <4>3. ASSUME NEW v \in Thread \ {w} PROVE Entries(v, p)' = {}
        <5>1. CASE v \in Request
          BY <3>1, <3>3, <4>2, <5>1, PendingIs
        <5>2. CASE v = Main
          <6>1. Entries(Main, p) = {}
            BY <2>6, NoSteps DEF Entries
          <6> QED
            BY <3>1, <3>3, <5>2, <6>1
        <5> QED
          BY <5>1, <5>2 DEF Thread
      <4>4. \A v \in Thread : \A e \in Entries(v, p)' : e = t
        BY <4>1, <4>3
      <4> QED
        BY <2>3, <3>3, <4>1, <4>4
    <3> QED
      BY <3>2, <3>3
  <2> QED
    BY <2>7 DEF EntriesFollow
<1> QED
  BY <1>1, <1>2, <1>3, <1>4, <1>5 DEF Handle

LEMMA CrashEntries ==
    ASSUME ListInv, EntriesFollow, Crash
    PROVE  EntriesFollow'
<1>1. PICK s, t, u : /\ s = InitImmutableTags(UNION {ImmutableTags[p] : p \in InIndex})
                     /\ t = UpdateDeprecatedTags /\ u = ConstructItemIndex
  OBVIOUS
<1>2. s.op # "indexEntry" /\ t.op # "indexEntry" /\ u.op # "indexEntry"
  BY <1>1 DEF InitImmutableTags, UpdateDeprecatedTags, ConstructItemIndex
<1>3. PICK q : q = <<s, t, u>>
  OBVIOUS
<1>4. Coming(q) = {s, t, u}
  BY <1>3, ThreeSteps
<1>5. /\ UNCHANGED <<preferred, entry>> /\ unsure' = unsure \cup {p \in Package : EntryPending(p)}
      /\ todo' = [v \in Thread |-> IF v # Main THEN << >> ELSE q]
  BY <1>1, <1>3 DEF Crash, durable
<1>6. ASSUME NEW v \in Thread, NEW p PROVE \A e \in Entries(v, p)' : FALSE
  <2>1. todo'[v] = q \/ todo'[v] = << >>
    BY <1>5
  <2>2. Coming(todo[v])' = Coming(q) \/ Coming(todo[v])' = {}
    BY <2>1, NextSteps, NoSteps
  <2> QED
    BY <1>2, <1>4, <2>2 DEF Entries
<1>7. \A p \in Package \ unsure' : entry[p] = preferred[p]
  BY <1>5, PendingIs DEF EntriesFollow
<1> QED
  BY <1>5, <1>6, <1>7 DEF EntriesFollow

(* An entry on its way to the index holds the versions that are stored,    *)
(* and when none is on its way the last one holds them: for any package    *)
(* whose versions no two requests set at once and no crash cut off.        *)
THEOREM EntriesInvariant == Spec => []EntriesFollow
<1>1. Init => EntriesFollow
  <2> SUFFICES ASSUME Init PROVE EntriesFollow
    OBVIOUS
  <2>1. ASSUME NEW v \in Thread, NEW p, NEW s \in Entries(v, p) PROVE FALSE
    <3>1. todo[v] = << >>
      BY DEF Init
    <3> QED
      BY <2>1, <3>1, NoSteps DEF Entries
  <2>2. ASSUME NEW p \in Package PROVE entry[p] = preferred[p]
    BY DEF Init
  <2> QED
    BY <2>1, <2>2, Zenon DEF EntriesFollow
<1>2. ListInv /\ EntriesFollow /\ [Next]_vars => EntriesFollow'
  <2> SUFFICES ASSUME ListInv, EntriesFollow, [Next]_vars PROVE EntriesFollow'
    OBVIOUS
  <2>1. CASE UNCHANGED vars
    <3>1. UNCHANGED <<preferred, entry, todo, unsure>>
      BY <2>1 DEF vars, durable, threads, history
    <3> QED
      BY <3>1 DEF EntriesFollow, Entries, Coming
  <2>2. CASE Next
    BY <2>2, HandleEntries, OtherStepsKeep, CrashEntries DEF Next
  <2> QED
    BY <2>1, <2>2
<1> QED
  BY <1>1, <1>2, ListInvariant, PTL DEF Spec

(* The last entry of a package in the index is what the server has stored. *)
THEOREM IndexFollows == Spec => []IndexPreferencesAgree
<1>1. ASSUME EntriesFollow PROVE IndexPreferencesAgree
  <2>1. ASSUME NEW p \in Package, p \notin unsure, ~ EntryPending(p) PROVE entry[p] = preferred[p]
    <3>1. \A w \in Request : ~ Entries(w, p) # {}
      BY <2>1, PendingIs
    <3> QED
      BY <1>1, <2>1, <3>1 DEF EntriesFollow
  <2> QED
    BY <2>1, Zenon DEF IndexPreferencesAgree
<1> QED
  BY <1>1, EntriesInvariant, PTL
=============================================================================
