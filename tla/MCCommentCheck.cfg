SPECIFICATION Spec
CONSTANTS
  Trees <- MCTrees
  Args <- MCArgs
  GoMod <- MCGoMod
  PathOrder <- MCPathOrder
INVARIANTS
  NothingHidden
  
  ReportOrdered
  CommentInv
