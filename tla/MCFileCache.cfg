\* Room for one large file and one small; 9 and 17 do not fit in an int (-7 and 1).
CONSTANTS
  f = f
  g = g
  h = h
  root = root
  sub = sub
  subsub = subsub
  PathMax = 4
  Files <- MCFiles
  Folders <- MCFolders
  Root = root
  Parent <- MCParent
  Char = {"a", "b", "/"}
  Names <- MCNames
  MaxSize = 6
  MinGzip = 2
  IntMax = 7
  Sizes = {0, 1, 5, 9, 17}
  GzipSizes = {3, 6}
  MaxChanges = 2
  Targets <- MCTargets
  NOT_FOUND = NOT_FOUND
SPECIFICATION Spec
INVARIANTS CacheNeverOverfull ArraysHold LookupIsExact DeletionFreesAll DiskIsMirrored RawIsWhole
PROPERTY LoadingEnds
\* Once built, or after an error, nothing is left to do.
CHECK_DEADLOCK FALSE
