\* Two threads, chunks of three bytes, at most two live buffers.
SPECIFICATION Spec
CONSTANTS
  Threads = {t1, t2}
  Chunks = {c1, c2, c3, c4}
  ChunkSize = 3
  Sizes = {1, 2, 3}
  MaxLive = 2
  None = none
INVARIANTS
  BytesAreOwned
  ChunkInOnePlace
SYMMETRY Symmetry
