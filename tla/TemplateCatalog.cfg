\* Two processes, two identifiers, two names, every kind of stray file.
SPECIFICATION Spec
CONSTANTS
  Texts <- MCTexts
  Identifiers <- MCIdentifiers
  EmptyText = ""
  MaxInt64 = 3
  Processes = {p1, p2}
  Names <- MCNames
  Filters <- MCFilters
  Projections <- MCProjections
  InitialFiles <- MCInitialFiles
  Absent <- MCAbsent
INVARIANTS
  NamesAreUnique
  MemoryIsOnDisk
PROPERTIES
  DamagedFilesSurvive
SYMMETRY ProcessSymmetry
