\* One compaction, three messages, pages of two.
CONSTANTS
  Messages <- ThreeMessages
  Handlers = {h1}
  PageSize = 2
  LastDay = 1
  MaxArchives = 4
SPECIFICATION Spec
PROPERTIES
  ListsUpToBoundary
  OneArchivePerDay
