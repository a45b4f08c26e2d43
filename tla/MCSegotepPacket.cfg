\* Boundary values of every field, in both kinds of process.
SPECIFICATION Spec
CONSTANTS
  Arguments <- MCArguments
  Samples <- MCSamples
INVARIANTS
  TypeOK
  DisplayReadsPacket
  MatchesLayout
  DisplayShowsSample
CHECK_DEADLOCK FALSE
