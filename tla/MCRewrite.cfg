SPECIFICATION Spec
CHECK_DEADLOCK FALSE
CONSTANTS
  ChangeIds = {1, 2, 3, 4, 5, 6, 7, 8}
  Ghosts = {}
  Items <- MCItems
  Restricted = {}
  Trees <- MCTrees
  BlobFile = "logo"
  Commands = {"squash", "reorder", "restack", "continue", "abort", "prepare", "diffedit", "undo"}
  FreshProcess = FALSE
  MaxSnaps = 3
  MaxCommands = 2
  MaxSteps = 4
  MaxMishaps = 2
  GitRepos <- MCGitRepos
  Branches = {"main", "topic"}
  NoImport = NoImport
  MaxGitMoves = 1
  MaxImports = 2
INVARIANTS RewritesKeepTheTree EpochMapKept WhatFailureLeaves ImportIsFaithful KilledRestackIsPending UndoneIsReadable
