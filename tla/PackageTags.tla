---------------------------- MODULE PackageTags ----------------------------
(***************************************************************************)
(* The tags of the packages (Tags/State.hs): which tags each package has,  *)
(* the same relation read from the tags, and the proposals that await a    *)
(* trustee or maintainer.  A package or a tag that a map of the code lacks *)
(* is one with the empty set here.                                         *)
(***************************************************************************)
CONSTANTS Package, Tag

Review == [add : SUBSET Tag, del : SUBSET Tag]

PackageTags ==
    [packageTags : [Package -> SUBSET Tag],
     tagPackages : [Tag -> SUBSET Package],
     reviewTags  : [Package -> Review]]

emptyPackageTags ==
    [packageTags |-> [p \in Package |-> {}],
     tagPackages |-> [t \in Tag |-> {}],
     reviewTags  |-> [p \in Package |-> [add |-> {}, del |-> {}]]]

(* The package in the sets of the tags it gets, out of those it loses, and *)
(* nothing done to the others (alterTags).                                 *)
setTags(name, tagList, pt) ==
    LET old == pt.packageTags[name]
    IN  [pt EXCEPT
           !.packageTags = [@ EXCEPT ![name] = tagList],
           !.tagPackages = [t \in Tag |->
               IF t \in tagList \ old THEN pt.tagPackages[t] \cup {name}
               ELSE IF t \in old \ tagList THEN pt.tagPackages[t] \ {name}
               ELSE pt.tagPackages[t]]]

(* Mutant: the packages that no longer have the tag keep it.               *)
setTag_Keeps(tag, pkgs, pt) ==
    LET old == pt.tagPackages[tag]
    IN  [pt EXCEPT
           !.tagPackages = [@ EXCEPT ![tag] = pkgs],
           !.packageTags = [p \in Package |->
               IF p \in pkgs \ old THEN pt.packageTags[p] \cup {tag}
               ELSE pt.packageTags[p]]]

(* The same from the other side (alterTag).                                *)
setTag(tag, pkgs, pt) ==
    LET old == pt.tagPackages[tag]
    IN  [pt EXCEPT
           !.tagPackages = [@ EXCEPT ![tag] = pkgs],
           !.packageTags = [p \in Package |->
               IF p \in pkgs \ old THEN pt.packageTags[p] \cup {tag}
               ELSE IF p \in old \ pkgs THEN pt.packageTags[p] \ {tag}
               ELSE pt.packageTags[p]]]

(* A proposal joins those already there ...                                *)
insertReviewTags(name, add, del, pt) ==
    [pt EXCEPT !.reviewTags = [@ EXCEPT ![name] =
        [add |-> add \cup pt.reviewTags[name].add,
         del |-> del \cup pt.reviewTags[name].del]]]

(* ... and what a trustee leaves replaces them (InsertReviewTags').        *)
replaceReviewTags(name, add, del, pt) ==
    [pt EXCEPT !.reviewTags = [@ EXCEPT ![name] = [add |-> add, del |-> del]]]

(* The two maps are one relation.                                          *)
OneRelation(pt) ==
    \A p \in Package, t \in Tag :
        t \in pt.packageTags[p] <=> p \in pt.tagPackages[t]
=============================================================================
