SPECIFICATION FairSpec
CONSTANTS
  Object <- MCObject
  Decl <- MCDecl
  Root <- MCRoot
  File <- MCFile
  Imports <- MCImports
  WeakImports <- MCWeakImports
  Loads = {1, 2}
  NoLoad = NoLoad
  Content <- MCContent
  Bundled = {"g"}
  Requests <- MCRequests
  Touched <- MCTouched
  MaxEvents = 1
  Whole <- MCWhole
INVARIANTS
  TreeConsistent
  CachesFresh
  ExtensionsApplied
  InParallel
  CalledOnce
  OkIsComplete
PROPERTIES
  NothingLost
  LoadEnds
CHECK_DEADLOCK FALSE
