\* Two callers, four keys of two apps, a cache of two entries.
SPECIFICATION FairSpec
CONSTANTS
  Callers = {c1, c2}
  Apps = {"a", "b"}
  Keys = {"a/board", "a/other", "b/default", "b/home"}
  Texts = {"x", "y"}
  NoEntry = NoEntry
  MaxEntries = 2
CONSTANTS
  AppOf <- MCAppOf
  Alias <- MCAlias
  MaxEdits <- MCMaxEdits
INVARIANTS TypeOK OneCompile CacheBounded StaleMeansUndone
PROPERTIES EveryCallReturns ImplementsExclusiveWork
