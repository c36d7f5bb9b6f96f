SPECIFICATION Spec
CONSTANTS
  Programs <- Library
  Body <- MCBody
  GoLeaves <- MCGoLeaves
  Published <- MCpublish
INVARIANTS FieldsAreFound LookupsFollow FormerMembersFound NamesApart Accounted EveryInstanceFinite RulesLead NoneInsideItself
PROPERTY PublishedClean
CHECK_DEADLOCK FALSE
