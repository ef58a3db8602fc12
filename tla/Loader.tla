------------------------------- MODULE Loader -------------------------------
(* exec_file of project1/part-2.c: where the segments of an ELF file go in  *)
(* memory, and what is there afterwards.  Addresses are relative to         *)
(* 0x80000000, which is a page boundary.                                    *)
EXTENDS Integers, Sequences

CONSTANTS PageSize,   \* 4096
          Pages       \* pages of the address range that is looked at

Addresses == 0..(Pages * PageSize - 1)

ROUND_UP(a, b) == ((a + b - 1) \div b) * b
\* Mutant: the address is passed to mmap as it is.
NOT_ROUNDED(a, b) == a
ROUND_DOWN(a, b) == (a \div b) * b

\* What an address holds: no page, or a byte.
Unmapped == <<"unmapped">>
ZeroByte == <<"zero">>
Written == <<"written">>            \* by a program that ran
FileByte(file, j, k) == <<"file", file, j, k>>

NoMemory == [a \in Addresses |-> Unmapped]

\* The bytes exec_file maps for a segment.
Length(seg) == ROUND_UP(seg.memsz, PageSize)
Place(seg) == ROUND_DOWN(seg.vaddr, PageSize)
Mapping(seg) == Place(seg)..(Place(seg) + Length(seg) - 1)

\* PT_LOAD headers, with memory that lies in the range looked at; exec_file
\* passes over the others.
Segments == {s \in [vaddr : Nat, memsz : Nat \ {0}, filesz : Nat] :
               s.filesz <= s.memsz /\ Mapping(s) \subseteq Addresses}

\* mmap without MAP_FIXED: the address is a hint, and the kernel rounds it.
KernelPlace(seg) == ROUND_UP(Place(seg), PageSize)
KernelRange(seg) == KernelPlace(seg)..(KernelPlace(seg) + Length(seg) - 1)
HintFree(m, seg) == \A a \in KernelRange(seg) : m[a] = Unmapped

Mmap(m, seg) == IF HintFree(m, seg)
                  THEN [a \in Addresses |-> IF a \in KernelRange(seg) THEN ZeroByte ELSE m[a]]
                  ELSE m

\* read stops at the first byte it cannot store.
Readable(m, seg, k) == \A i \in 0..k : m[seg.vaddr + i] # Unmapped
Read(m, file, j, seg) ==
  [a \in Addresses |->
     IF a - seg.vaddr \in 0..(seg.filesz - 1) /\ Readable(m, seg, a - seg.vaddr)
       THEN FileByte(file, j, a - seg.vaddr) ELSE m[a]]

\* Mutant: the last mapping is left.
AllButLast(image) == 1..(Len(image) - 1)
All(image) == 1..Len(image)
Munmap(m, image) ==
  [a \in Addresses |-> IF \E j \in All(image) : a \in Mapping(image[j]) THEN Unmapped ELSE m[a]]
----------------------------------------------------------------------------
\* What an image in memory should hold at each address of a segment's pages.
Wanted(file, j, seg, a) ==
  IF a - seg.vaddr \in 0..(seg.filesz - 1) THEN FileByte(file, j, a - seg.vaddr) ELSE ZeroByte

\* Is every byte of the segments there?
InPlace(m, file, image) ==
  \A j \in 1..Len(image) :
    \A a \in image[j].vaddr..(image[j].vaddr + image[j].memsz - 1) :
      m[a] = Wanted(file, j, image[j], a)

\* Is the image there, the rest of its pages zero and no other page mapped?
MemoryIs(m, file, image) ==
  /\ \A j \in 1..Len(image) : \A a \in Mapping(image[j]) : m[a] = Wanted(file, j, image[j], a)
  /\ \A a \in Addresses : (\A j \in 1..Len(image) : a \notin Mapping(image[j])) => m[a] = Unmapped

(* Images that exec_file loads: no segment needs a page more because it     *)
(* does not begin on a page boundary, and no two segments share a page.     *)
Fits(seg) == seg.vaddr + seg.memsz <= Place(seg) + Length(seg)
Disjoint(image) == \A i, j \in 1..Len(image) :
                     i # j => Mapping(image[i]) \cap Mapping(image[j]) = {}
Loadable(image) == Disjoint(image) /\ \A j \in 1..Len(image) : Fits(image[j])
=============================================================================
