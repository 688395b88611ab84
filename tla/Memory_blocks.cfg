\* The code's own classes.  With the header the requests are for 64 bytes, which
\* is a class; 2032, served by that of 2080; 3892, above the last class; and
\* 4112, served by malloc.
SPECIFICATION Spec
CONSTANTS
  Threads = {t1, t2}
  Blocks = {b1, b2, b3, b4, b5}
  Bands <- CodeBands
  MaxAlloc = 4096
  Header = 32
  Requests = {32, 2000, 3860, 4080}
  MaxOwned = 2
  None = none
INVARIANTS
  BlockFits
  BlockInOnePlace
SYMMETRY Symmetry
