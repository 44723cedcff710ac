CONSTANTS
  Tables <- MCTables
  Versions <- MCVersions
SPECIFICATION Spec
INVARIANT LookupsAgree
PROPERTY ImplementsRelation
