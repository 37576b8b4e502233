SPECIFICATION Spec
CONSTANTS
  Handlers = {h1, h2}
  MaxPassword = 1
  MaxCode = 2
  MaxSession = 2
  MaxToken = 2
  None = None
SYMMETRY Symmetry
INVARIANTS OneSessionPerCode LinkedHasToken NewestTokenStored RuntimeFollows
