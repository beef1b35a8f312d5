\* Two concurrent compactions of two messages, over a midnight.
CONSTANTS
  Messages <- TwoMessages
  Handlers = {h1, h2}
  PageSize = 1
  LastDay = 1
  MaxArchives = 3
SPECIFICATION Spec
SYMMETRY HandlerSymmetry
INVARIANTS
  CompactionInv
  DeletesOnlyCovered
PROPERTIES
  ImplementsMailbox
