--------------------------- MODULE StompAllocator ---------------------------
(***************************************************************************)
(* StompAllocator, from which every object and container of the default    *)
(* build takes its memory (Types.h defines _STOMP): each block has pages of *)
(* its own and ends where they end, so that the first byte written beyond  *)
(* it faults.  VirtualFree wants the address VirtualAlloc gave; Release has *)
(* only the block's, and computes the other from it.                       *)
(*                                                                         *)
(* Addresses and sizes are numbers; VirtualAlloc gives some whole pages    *)
(* from baseAddress on.                                                    *)
(***************************************************************************)
EXTENDS Integers

PAGE_SIZE == 4096

\* What VirtualAlloc may return, and the sizes for which the int32 sum in Alloc
\* does not overflow.
BaseAddresses == {a \in Nat \ {0} : a % PAGE_SIZE = 0}
BlockSizes == {n \in Nat \ {0} : n + PAGE_SIZE - 1 <= 2147483647}

PageCount(size) == (size + PAGE_SIZE - 1) \div PAGE_SIZE

\* StompAllocator::Alloc, and the address Release frees.
Alloc(baseAddress, size) == baseAddress + PageCount(size) * PAGE_SIZE - size

Release(ptr) == ptr - (ptr % PAGE_SIZE)
=============================================================================
