\* Chunks of three bytes, bodies of up to ten, frames of none to seven.
CONSTANTS
  CHUNK_SIZE = 3
  Lengths <- SmallLengths
  Frames <- SmallFrames
SPECIFICATION Spec
INVARIANTS
  TypeOK
  ChunksAreAsDeclared
  ChunksAreWithinAllowance
  BytesAreConserved
