SPECIFICATION RedBlackSpec
CONSTANTS
  Key = {1, 2, 3, 4}
  nil = nil
  NULL = NULL
INVARIANT
  DeleteRestores
