\* One visit to the page: replies in any order, failing connections, a list that changes.
SPECIFICATION Spec
CONSTANTS
  Package <- MCPackage
  Item <- MCItem
  Hits <- MCHits
  Ranking <- MCRanking
  SortKey <- MCSortKey
  PageSize = 2
  Typed <- MCTyped
  TagText = {"bsd", "data-x"}
  AlphaNumeric = {"bsd"}
  AgeText <- MCAgeText
  Rating = {2}
  Histories <- MCHistories
  Volatile = {3}
  MaxRequests = 3
INVARIANTS
  ListingIsCurrent
  PagesAgree
  ArrowsAgree
  AddressMatchesQuery
  FiltersHold
  AnsweredOrWarned
