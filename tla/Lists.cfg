\* Two requests at a time and a crash; one package has a tag by its description.
SPECIFICATION Spec
CONSTANTS
  p1 = p1
  p2 = p2
  library = library
  Package = {p1, p2}
  Tag = {deprecated, library}
  Version = {1, 2}
  Replacements = {old}
  Nothing = Nothing
  Deprecated = deprecated
  ImmutableTags <- MCImmutableTags
  Editable = {library}
  Request = {r1, r2}
  Main = main
  MaxRequests = 4
  MaxCrashes = 1
SYMMETRY Symmetry
CHECK_DEADLOCK FALSE  \* all the requests are done
INVARIANTS
  ListAgrees
  TagsAgree
  IndexPreferencesAgree
