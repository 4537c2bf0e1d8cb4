SPECIFICATION Spec
CONSTANTS
  s1 = s1
  e1 = e1
  e2 = e2
  x1 = x1
  pack = pack
  repack = repack
  episode = episode
  second = second
  pair = pair
  stranger = stranger
  root = root
  other = other
  packFolder = packFolder
  None = None
  h1 = h1
  Copy <- MCCopy
  Unit <- MCUnit
  Season <- MCSeason
  PackOf <- MCPackOf
  Name <- MCName
  UnitsOf <- MCUnitsOf
  Place <- MCPlace
  Within <- MCWithin
  Libraries <- MCLibraries
  Handler = {h1}
  Numbering <- MCNumbering
  Late = {3}
  Troubled = {1, 2}
  Handled = {1, 2}
INVARIANTS ProposalsSound
PROPERTIES NoCollateral ContentKept
