---------------------------- MODULE PackageList ----------------------------
(***************************************************************************)
(* The list of packages kept in memory (PackageList.hs) and the two        *)
(* features it follows most closely, versions (PreferredVersions.hs) and   *)
(* tags (Tags.hs).  Each of them stores something in one transaction and   *)
(* then runs a hook; the handlers of the hook, in the thread of the same   *)
(* request, read state again, store more and run further hooks, and others *)
(* of them change the items of the list.  Requests run side by side; a     *)
(* crash loses the list and the requests, and the server rebuilds the list *)
(* when it starts.                                                         *)
(*                                                                         *)
(* What a thread has yet to do is a sequence of steps, each of which reads *)
(* or changes one thing: a handler that is called puts its steps in front. *)
(* An item is reduced to three fields, one for each way in which they are  *)
(* kept up to date: read again after a hook, taken from the hook's         *)
(* argument, or computed from both.                                        *)
(***************************************************************************)
EXTENDS PackageTags, Integers, Sequences, FiniteSets

CONSTANTS Version,        \* versions a package may be released in
          Replacements,   \* what a package may be deprecated in favour of
          Nothing,        \* of a package that is not deprecated
          Deprecated,     \* the tag of deprecated packages
          ImmutableTags,  \* per package: the tags its description implies
          Editable,       \* the tags users add and remove by hand
          Request,        \* threads of requests
          Main,           \* the thread that starts the server
          MaxRequests,    \* bound: requests
          MaxCrashes      \* bound: crashes

ASSUME ListAssumption ==
    /\ Version \subseteq Nat \ {0}
    /\ Nothing \notin Replacements
    /\ Deprecated \in Tag
    /\ ImmutableTags \in [Package -> SUBSET (Tag \ {Deprecated})]
    /\ Editable \subseteq Tag \ {Deprecated}
    /\ Main \notin Request
    /\ MaxRequests \in Nat /\ MaxCrashes \in Nat

VARIABLES index,         \* durable: the versions in the package index
          preferred,     \* durable: per package, its deprecated versions
          deprecatedFor, \* durable: per package, its replacements or Nothing
          tags,          \* durable: the PackageTags
          entry,         \* durable: per package, the versions its last
                         \* preferred-versions entry in the index excludes
          itemCache,     \* the list: per package, its item
          todo,          \* per thread: the steps it has yet to do
          scope,         \* per thread: the packages these may be about
          overlapped,    \* history: packages two threads were busy with since
                         \* the start of the server
          unsure,        \* history: packages whose entries two requests wrote
                         \* side by side, or whose entry a crash prevented
          requests,      \* counts the requests
          crashes        \* counts the crashes

durable == <<index, preferred, deprecatedFor, tags, entry>>
threads == <<todo, scope>>
history == <<overlapped, unsure, requests, crashes>>
vars    == <<durable, itemCache, threads, history>>

Thread == Request \cup {Main}
InIndex == {p \in Package : index[p] # {}}
DeprecatedPackages == {p \in Package : deprecatedFor[p] # Nothing}

Highest(versions) == CHOOSE v \in versions : \A w \in versions : w <= v

-----------------------------------------------------------------------------
(* Threads.                                                                *)

Doing(w, op) == todo[w] # << >> /\ Head(todo[w]).op = op

(* The step is done; new steps come before the others.                     *)
Then(w, steps) ==
    LET rest == steps \o Tail(todo[w])
    IN  /\ todo' = [todo EXCEPT ![w] = rest]
        /\ scope' = [scope EXCEPT ![w] = IF rest = << >> THEN {} ELSE @]

Serving == todo[Main] = << >>

(* A request about some packages begins; the bookkeeping notes which of    *)
(* them another request is still busy with.                                *)
Begin(w, pkgs, steps) ==
    LET shared == pkgs \cap UNION {scope[v] : v \in Request}
    IN  /\ Serving
        /\ todo[w] = << >>
        /\ requests < MaxRequests /\ requests' = requests + 1
        /\ todo' = [todo EXCEPT ![w] = steps]
        /\ scope' = [scope EXCEPT ![w] = pkgs]
        /\ overlapped' = overlapped \cup shared
        /\ UNCHANGED <<itemCache, crashes>>

-----------------------------------------------------------------------------
(* Items.                                                                  *)

NoVersion == 0

(* itemReferenceVersion, from the versions and the preferred info given.   *)
ReferenceVersion(deprecatedVersions, allVersions) ==
    LET left == allVersions \ deprecatedVersions
    IN  IF left = {} THEN NoVersion ELSE Highest(left)

(* constructItem is given the last version of the package only.            *)
constructItem(p) ==
    [tags |-> tags.packageTags[p],
     deprecated |-> deprecatedFor[p],
     reference |-> ReferenceVersion(preferred[p], {Highest(index[p])})]

(* Steps: a change of an item, the item to insert, the listeners of        *)
(* tagsUpdated for each of some packages.                                  *)
Modify(p, change)       == [op |-> "modify", pkg |-> p, change |-> change]
Insert(p, item)         == [op |-> "insert", pkg |-> p, item |-> item]
RunTagsUpdated(pkgs)    == [op |-> "tagsUpdated", pkgs |-> pkgs]

(* The item with the fields of the change.                                 *)
Changed(item, change) ==
    [f \in DOMAIN item |-> IF f \in DOMAIN change THEN change[f] ELSE item[f]]

(* An item that exists is changed; else it is built from what the other    *)
(* features hold, the change is dropped, ...                               *)
modifyItem(w) ==
    /\ Doing(w, "modify")
    /\ LET step == Head(todo[w])
           p == step.pkg
       IN  \/ /\ p \in DOMAIN itemCache
              /\ itemCache' = [itemCache EXCEPT ![p] = Changed(@, step.change)]
              /\ Then(w, << >>)
           \/ /\ p \notin DOMAIN itemCache
              /\ p \in InIndex
              /\ Then(w, <<Insert(p, constructItem(p))>>)
              /\ UNCHANGED itemCache
    /\ UNCHANGED <<durable, history>>

(* ... and the new item is inserted later, whatever is there by then.      *)
insertItem(w) ==
    /\ Doing(w, "insert")
    /\ LET step == Head(todo[w])
       IN  itemCache' = [p \in DOMAIN itemCache \cup {step.pkg} |->
                            IF p = step.pkg THEN step.item ELSE itemCache[p]]
    /\ Then(w, << >>)
    /\ UNCHANGED <<durable, history>>

(* Mutant: the listener takes the tags that the hook names for the tags of *)
(* the package.                                                            *)
tagsUpdated_Named(w) ==
    /\ Doing(w, "tagsUpdated")
    /\ LET pkgs == Head(todo[w]).pkgs
       IN  \/ pkgs = {} /\ Then(w, << >>)
           \/ \E p \in pkgs :
                 Then(w, <<Modify(p, [tags |-> {Deprecated}]),
                           RunTagsUpdated(pkgs \ {p})>>)
    /\ UNCHANGED <<durable, itemCache, history>>

(* The listener of tagsUpdated reads the tags of each package again.       *)
tagsUpdated(w) ==
    /\ Doing(w, "tagsUpdated")
    /\ LET pkgs == Head(todo[w]).pkgs
       IN  \/ pkgs = {} /\ Then(w, << >>)
           \/ \E p \in pkgs :
                 Then(w, <<Modify(p, [tags |-> tags.packageTags[p]]),
                           RunTagsUpdated(pkgs \ {p})>>)
    /\ UNCHANGED <<durable, itemCache, history>>

-----------------------------------------------------------------------------
(* Tags.                                                                   *)

SetPackageTags(p, tagList) == [op |-> "setPackageTags", pkg |-> p, tagList |-> tagList]
SetTagPackages(t, pkgs)    == [op |-> "setTagPackages", tag |-> t, pkgs |-> pkgs]
ProposeTags(p, add, del)   == [op |-> "propose", pkg |-> p, add |-> add, del |-> del]
ReplaceReview(p, add, del) == [op |-> "review", pkg |-> p, add |-> add, del |-> del]
Retag(p)                   == [op |-> "retag", pkg |-> p]
InitImmutableTags(ts)      == [op |-> "initTags", tags |-> ts]

setPackageTags(w) ==
    /\ Doing(w, "setPackageTags")
    /\ tags' = setTags(Head(todo[w]).pkg, Head(todo[w]).tagList, tags)
    /\ Then(w, << >>)
    /\ UNCHANGED <<index, preferred, deprecatedFor, entry, itemCache, history>>

(* setCalculatedTag: the packages that lose the tag are not told of.       *)
setCalculatedTag(w) ==
    /\ Doing(w, "setTagPackages")
    /\ LET step == Head(todo[w])
       IN  /\ tags' = setTag(step.tag, step.pkgs, tags)
           /\ Then(w, <<RunTagsUpdated(step.pkgs)>>)
    /\ UNCHANGED <<index, preferred, deprecatedFor, entry, itemCache, history>>

(* After an upload the tags of the description join those there are.       *)
retag(w) ==
    /\ Doing(w, "retag")
    /\ LET p == Head(todo[w]).pkg
       IN  Then(w, <<SetPackageTags(p, ImmutableTags[p] \cup tags.packageTags[p]),
                     RunTagsUpdated({p})>>)
    /\ UNCHANGED <<durable, itemCache, history>>

(* putTags of a maintainer or trustee: the tags and proposals are read,    *)
(* both are replaced by what follows from them, the hook is run.           *)
putTags(w) ==
    \E p \in InIndex, add, del, rejected \in SUBSET Editable :
        LET review == tags.reviewTags[p]
        IN  /\ Begin(w, {p},
                 <<SetPackageTags(p, (tags.packageTags[p] \cup add) \ del),
                   ReplaceReview(p, review.add \ (add \cup rejected),
                                    review.del \ (del \cup rejected)),
                   RunTagsUpdated({p})>>)
            /\ UNCHANGED <<durable, unsure>>

replaceReview(w) ==
    /\ Doing(w, "review")
    /\ LET step == Head(todo[w])
       IN  tags' = replaceReviewTags(step.pkg, step.add, step.del, tags)
    /\ Then(w, << >>)
    /\ UNCHANGED <<index, preferred, deprecatedFor, entry, itemCache, history>>

(* putTags of any other user: what makes a difference is proposed.         *)
proposeTags(w) ==
    \E p \in InIndex, add, del \in SUBSET Editable :
        /\ Begin(w, {p}, <<ProposeTags(p, add \ tags.packageTags[p],
                                          del \cap tags.packageTags[p])>>)
        /\ UNCHANGED <<durable, unsure>>

insertReview(w) ==
    /\ Doing(w, "propose")
    /\ LET step == Head(todo[w])
       IN  tags' = insertReviewTags(step.pkg, step.add, step.del, tags)
    /\ Then(w, << >>)
    /\ UNCHANGED <<index, preferred, deprecatedFor, entry, itemCache, history>>

(* At start-up: setCalculatedTag for each tag that descriptions imply.     *)
initImmutableTags(w) ==
    /\ Doing(w, "initTags")
    /\ LET ts == Head(todo[w]).tags
       IN  \/ ts = {} /\ Then(w, << >>)
           \/ \E t \in ts :
                 Then(w, <<SetTagPackages(t, {p \in InIndex : t \in ImmutableTags[p]}),
                           InitImmutableTags(ts \ {t})>>)
    /\ UNCHANGED <<durable, itemCache, history>>

-----------------------------------------------------------------------------
(* Versions.                                                               *)

PreferredHook(p, versions) == [op |-> "preferredHook", pkg |-> p, versions |-> versions]
IndexEntry(p, versions)    == [op |-> "indexEntry", pkg |-> p, versions |-> versions]
UpdateDeprecatedTags       == [op |-> "deprecatedTags"]

EntryPending(p) ==
    \E w \in Request : \E i \in DOMAIN todo[w] :
        todo[w][i].op = "indexEntry" /\ todo[w][i].pkg = p

(* putPreferred: the deprecated versions, all of which exist, are stored;  *)
(* then come the listener and the entry of the index.                      *)
putPreferred(w) ==
    \E p \in InIndex : \E versions \in SUBSET index[p] :
        /\ Begin(w, {p}, <<PreferredHook(p, versions), IndexEntry(p, versions)>>)
        /\ preferred' = [preferred EXCEPT ![p] = versions]
        /\ unsure' = IF EntryPending(p) THEN unsure \cup {p} ELSE unsure
        /\ UNCHANGED <<index, deprecatedFor, tags, entry>>

(* The listener takes the info from the hook and reads the index.          *)
updatePreferred(w) ==
    /\ Doing(w, "preferredHook")
    /\ LET step == Head(todo[w])
       IN  Then(w, <<Modify(step.pkg, [reference |->
                     ReferenceVersion(step.versions, index[step.pkg])])>>)
    /\ UNCHANGED <<durable, itemCache, history>>

(* Mutant: nothing to exclude, no entry.                                   *)
addIndexEntry_Unless(w) ==
    /\ Doing(w, "indexEntry")
    /\ LET step == Head(todo[w])
       IN  entry' = IF step.versions = {} THEN entry
                    ELSE [entry EXCEPT ![step.pkg] = step.versions]
    /\ Then(w, << >>)
    /\ UNCHANGED <<index, preferred, deprecatedFor, tags, itemCache, history>>

addIndexEntry(w) ==
    /\ Doing(w, "indexEntry")
    /\ LET step == Head(todo[w])
       IN  entry' = [entry EXCEPT ![step.pkg] = step.versions]
    /\ Then(w, << >>)
    /\ UNCHANGED <<index, preferred, deprecatedFor, tags, itemCache, history>>

(* A package is deprecated or no longer: by the form, or by a PUT, which   *)
(* does not ask whether the replacements exist.  The listener takes what   *)
(* the hook says; then the tag is set on all deprecated packages.          *)
putDeprecated(w) ==
    \E p \in InIndex, by \in Replacements \cup {Nothing} :
        /\ Begin(w, Package, <<Modify(p, [deprecated |-> by]), UpdateDeprecatedTags>>)
        /\ deprecatedFor' = [deprecatedFor EXCEPT ![p] = by]
        /\ UNCHANGED <<index, preferred, tags, entry, unsure>>

(* Which packages these are is read one step before.                       *)
updateDeprecatedTags(w) ==
    /\ Doing(w, "deprecatedTags")
    /\ Then(w, <<SetTagPackages(Deprecated, DeprecatedPackages)>>)
    /\ UNCHANGED <<durable, itemCache, history>>

-----------------------------------------------------------------------------
(* Uploads.                                                                *)

LastUpload(p) == [op |-> "lastUpload", pkg |-> p]

(* A release.  Of the listeners of packageChangeHook those of the list run *)
(* first, because they were registered last.                               *)
upload(w) ==
    \E p \in Package : \E v \in Version \ index[p] :
        /\ Begin(w, {p}, <<LastUpload(p), Retag(p)>>)
        /\ index' = [index EXCEPT ![p] = @ \cup {v}]
        /\ UNCHANGED <<preferred, deprecatedFor, tags, entry, unsure>>

(* The listener reads the preferred info and the index.                    *)
updateLastUpload(w) ==
    /\ Doing(w, "lastUpload")
    /\ LET p == Head(todo[w]).pkg
       IN  Then(w, <<Modify(p, [reference |-> ReferenceVersion(preferred[p], index[p])])>>)
    /\ UNCHANGED <<durable, itemCache, history>>

-----------------------------------------------------------------------------
(* Start-up and crash.                                                     *)

ConstructItemIndex == [op |-> "constructItemIndex"]

(* A fresh server, just started.                                           *)
Init ==
    /\ index = [p \in Package |-> {}]
    /\ preferred = [p \in Package |-> {}]
    /\ deprecatedFor = [p \in Package |-> Nothing]
    /\ tags = emptyPackageTags
    /\ entry = [p \in Package |-> {}]
    /\ itemCache = << >>
    /\ todo = [w \in Thread |-> << >>]
    /\ scope = [w \in Thread |-> {}]
    /\ overlapped = {} /\ unsure = {}
    /\ requests = 0 /\ crashes = 0

(* The list and the threads are gone.  The server starts again: the        *)
(* features initialise one after the other, tags, versions and the list,   *)
(* before it serves requests.                                              *)
Crash ==
    /\ crashes < MaxCrashes /\ crashes' = crashes + 1
    /\ itemCache' = << >>
    /\ todo' = [w \in Thread |->
           IF w # Main THEN << >>
           ELSE <<InitImmutableTags(UNION {ImmutableTags[p] : p \in InIndex}),
                  UpdateDeprecatedTags, ConstructItemIndex>>]
    /\ scope' = [w \in Thread |-> IF w = Main THEN Package ELSE {}]
    /\ overlapped' = {}
    /\ unsure' = unsure \cup {p \in Package : EntryPending(p)}
    /\ UNCHANGED <<durable, requests>>

constructItemIndex(w) ==
    /\ Doing(w, "constructItemIndex")
    /\ itemCache' = [p \in InIndex |-> constructItem(p)]
    /\ Then(w, << >>)
    /\ UNCHANGED <<durable, history>>

-----------------------------------------------------------------------------
Handle(w) ==
    upload(w) \/ putDeprecated(w) \/ putPreferred(w) \/ putTags(w) \/ proposeTags(w)

Step(w) ==
    \/ modifyItem(w) \/ insertItem(w) \/ tagsUpdated(w)
    \/ setPackageTags(w) \/ setCalculatedTag(w) \/ retag(w)
    \/ replaceReview(w) \/ insertReview(w) \/ initImmutableTags(w)
    \/ updatePreferred(w) \/ addIndexEntry(w) \/ updateDeprecatedTags(w)
    \/ updateLastUpload(w) \/ constructItemIndex(w)

Next ==
    \/ \E w \in Request : Handle(w)
    \/ \E w \in Thread : Step(w)
    \/ Crash

Spec == Init /\ [][Next]_vars

-----------------------------------------------------------------------------
(* Properties.                                                             *)

(* No thread is busy with the package, and since the server started no two *)
(* were at once.                                                           *)
Settled(p) == p \notin overlapped /\ \A w \in Thread : p \notin scope[w]

Item == [tags : SUBSET Tag, deprecated : Replacements \cup {Nothing},
         reference : Version \cup {NoVersion}]

Change == [tags : SUBSET Tag] \cup [deprecated : Replacements \cup {Nothing}]
          \cup [reference : Version \cup {NoVersion}]

(* The steps of any thread, those of a request about one package, and      *)
(* those of a thread that sets the tags of all packages.                   *)
ItemSteps(pkgs) ==
    [op : {"modify"}, pkg : pkgs, change : Change]
    \cup [op : {"insert"}, pkg : pkgs, item : Item]
    \cup [op : {"tagsUpdated"}, pkgs : SUBSET pkgs]
PackageSteps(pkgs) ==
    [op : {"retag", "lastUpload"}, pkg : pkgs]
    \cup [op : {"setPackageTags"}, pkg : pkgs, tagList : SUBSET Tag]
    \cup [op : {"propose", "review"}, pkg : pkgs, add : SUBSET Tag, del : SUBSET Tag]
    \cup [op : {"preferredHook", "indexEntry"}, pkg : pkgs, versions : SUBSET Version]
TagSteps ==
    [op : {"setTagPackages"}, tag : Tag, pkgs : SUBSET Package]
    \cup [op : {"initTags"}, tags : SUBSET (Tag \ {Deprecated})]
    \cup [op : {"deprecatedTags", "constructItemIndex"}]

(* Types of the variables: the steps of a thread are about the packages in *)
(* its scope.                                                              *)
TypeOK ==
    /\ index \in [Package -> SUBSET Version]
    /\ preferred \in [Package -> SUBSET Version]
    /\ deprecatedFor \in [Package -> Replacements \cup {Nothing}]
    /\ tags \in PackageTags
    /\ entry \in [Package -> SUBSET Version]
    /\ DOMAIN itemCache \subseteq Package /\ itemCache \in [DOMAIN itemCache -> Item]
    /\ scope \in [Thread -> SUBSET Package]
    /\ DOMAIN todo = Thread
    /\ \A w \in Thread :
          \/ todo[w] \in Seq(ItemSteps(scope[w]) \cup PackageSteps(scope[w]))
          \/ scope[w] = Package /\ todo[w] \in Seq(ItemSteps(Package) \cup TagSteps)
    /\ overlapped \subseteq Package /\ unsure \subseteq Package

(* "a secondary reverse mapping" (Tags/State.hs): whoever sets the tags of *)
(* a package or the packages of a tag, the two maps remain one relation.   *)
TagMapsAgree == OneRelation(tags)

(* The list shows what the features hold: a settled package of the index   *)
(* has an item, whose deprecation is the stored one and whose tags are the *)
(* stored ones, except that it may have kept the tag of a deprecation that *)
(* was taken back; its reference version is the "non-deprecated highest    *)
(* numbered version" (PackageList.hs), except that in a list built at      *)
(* start-up it has none if the highest version is deprecated.              *)
ListAgrees ==
    \A p \in InIndex : Settled(p) =>
        /\ p \in DOMAIN itemCache
        /\ itemCache[p].deprecated = deprecatedFor[p]
        /\ itemCache[p].tags \ {Deprecated} = tags.packageTags[p] \ {Deprecated}
        /\ Deprecated \in tags.packageTags[p] => Deprecated \in itemCache[p].tags
        /\ \/ itemCache[p].reference = ReferenceVersion(preferred[p], index[p])
           \/ itemCache[p].reference = NoVersion /\ Highest(index[p]) \in preferred[p]

(* "Calculated tags are used so that other features can reserve a tag for  *)
(* their own use" (Tags.hs): a settled package has the tag deprecated      *)
(* exactly if it is; uploads and edits of its other tags leave it alone,   *)
(* and a start repairs what a crash or overlapping requests broke.  And    *)
(* however the two maps of the tags are set, they remain one relation.     *)
TagsAgree ==
    /\ TagMapsAgree
    /\ \A p \in InIndex : Settled(p) =>
          (Deprecated \in tags.packageTags[p] <=> deprecatedFor[p] # Nothing)

(* Clients see the deprecated versions that the server has stored: the     *)
(* last entry of the package in the index excludes these, unless two       *)
(* requests set them at the same time or a crash came in between.          *)
IndexPreferencesAgree ==
    \A p \in Package :
        EntryPending(p) \/ p \in unsure \/ entry[p] = preferred[p]
=============================================================================
