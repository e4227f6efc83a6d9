SPECIFICATION FairSpec
CONSTANTS
  ByteBits = 1
INVARIANTS DatapathImplements UnitResult AssemblyDecodes BinsExact
PROPERTIES Completes
