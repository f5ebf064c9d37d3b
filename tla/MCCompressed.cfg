\* One change to the disk is more than it takes.
CONSTANTS
  f = f
  g = g
  h = h
  root = root
  sub = sub
  subsub = subsub
  PathMax = 4
  Files <- MCFiles
  Folders <- MCFolders
  Root = root
  Parent <- MCParent
  Char = {"a", "b", "/"}
  Names <- MCNames
  MaxSize = 6
  MinGzip = 2
  IntMax = 7
  Sizes = {1, 5, 9, 17}
  GzipSizes = {3, 6}
  MaxChanges = 1
  Targets <- MCTargets
  NOT_FOUND = NOT_FOUND
SPECIFICATION Spec
INVARIANT CompressedIsWhole
\* Once built, or after an error, nothing is left to do.
CHECK_DEADLOCK FALSE
