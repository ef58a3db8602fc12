---------------------------- MODULE Fs5600Proofs ----------------------------
(* Proofs about Fs5600, for disks, files and directories of every size and  *)
(* any calls, when the process does not die in fs_truncate: that one frees  *)
(* blocks before the inode stops naming them.                               *)
EXTENDS Fs5600, TLAPS, FiniteSetTheorems, NaturalsInduction, WellFoundedInduction, SequenceTheorems

InodeType == [kind : {"inode"}, type : {"dir", "file"}, size : 0..MaxFile, ptrs : [Ptrs -> Blocks]]
DirType == [kind : {"dir"}, entries : [Slots -> {NULL} \cup [name : Names, inode : Blocks]]]
\* The blocks an inode or a directory may occupy.
Space == 2..(DiskSize - 1)

\* What an inode on disk e owns; its first pointer; the entries of a directory.
Owns(e, i) == 0..(BlocksFor(e[i].size) - 1)
Owned(e, i) == {e[i].ptrs[k] : k \in Owns(e, i)}
Head0(e, i) == e[i].ptrs[0]
Dirs(e, S) == {i \in S : e[i].type = "dir"}
At(e, i, s) == e[Head0(e, i)].entries[s]

(* On disk e the inodes S form a tree, or trees besides that of the root.   *)
(* They are inodes; they own blocks of their own, a directory one with      *)
(* entries, a file, if any, one with data first; entries lead to them, and  *)
(* no two to the same.                                                      *)
Inodes(e, S) == /\ Root \in S /\ S \subseteq Space
                /\ \A i \in S : e[i] \in InodeType
OwnBlocks(e, S) ==
  /\ \A i \in S : \A k \in Owns(e, i) : e[i].ptrs[k] \in Space \ S
  /\ \A i, j \in S : \A k \in Owns(e, i), l \in Owns(e, j) :
       e[i].ptrs[k] = e[j].ptrs[l] => i = j /\ k = l
Heads(e, S) ==
  /\ \A i \in Dirs(e, S) : e[i].size = BlockSize /\ e[Head0(e, i)] \in DirType
  /\ \A i \in S \ Dirs(e, S) : IF e[i].size = 0 THEN Head0(e, i) = 0 ELSE e[Head0(e, i)].kind = "data"
Linked(e, S) ==
  /\ \A i \in Dirs(e, S), s \in Slots : At(e, i, s) # NULL => At(e, i, s).inode \in S \ {Root}
  /\ \A i, j \in Dirs(e, S), s, t \in Slots :
       At(e, i, s) # NULL /\ At(e, j, t) # NULL /\ At(e, i, s).inode = At(e, j, t).inode => i = j /\ s = t
Sound(e, S) == Inodes(e, S) /\ OwnBlocks(e, S) /\ Heads(e, S) /\ Linked(e, S)
\* The blocks that must be marked.
Taken(e, S) == {0, 1} \cup S \cup UNION {Owned(e, i) : i \in S}
----------------------------------------------------------------------------
(* The constants, and how many blocks a size takes. *)

(* What the assumption says of the constants and of a call.                 *)
LEMMA ConstantFacts ==
  /\ MaxComponents \in Nat \ {0} /\ DirSlots \in Nat \ {0} /\ MaxPtrs \in Nat \ {0} /\ BlockSize \in Nat \ {0}
  /\ DiskSize \in Nat /\ DiskSize > 3
  /\ Clip \in [Names -> Names]
  /\ \A c \in Calls : /\ c.path \in Seq(Names) /\ c.to \in Seq(Names) /\ c.buf \in Seq(Data)
                      /\ c.off \in Nat /\ c.len \in Nat /\ c.op \in Ops
                      /\ c.op = "write" => c.off + Len(c.buf) <= MaxFile
BY FsAssumption DEF CallType

(* The intervals the model is made of.                                      *)
LEMMA Sizes ==
  /\ Slots = 1..DirSlots /\ Ptrs = 0..(MaxPtrs - 1) /\ 0 \in Ptrs /\ Offsets = 0..(BlockSize - 1)
  /\ Blocks = 0..(DiskSize - 1) /\ 1 \in 1..(DiskSize - 1) /\ Root \in Space /\ Space \subseteq Blocks
  /\ Space \subseteq 1..(DiskSize - 1) /\ RootBlock \in Space /\ RootBlock # Root
  /\ \A b \in Space : b \in Nat /\ b # 0 /\ b # 1
BY ConstantFacts DEF Slots, Ptrs, Offsets, Blocks, Root, Space, RootBlock

(* A nonempty set of natural numbers has a smallest element.                *)
LEMMA Smallest == ASSUME NEW S \in SUBSET Nat, S # {}
                  PROVE \E x \in S : \A y \in S : x <= y
<1> DEFINE R == OpToRel(<, Nat)
<1>1. IsWellFoundedOn(R, Nat)
  BY NatLessThanWellFounded
<1>2. \A m, n \in Nat : m < n => <<m, n>> \in R
  BY DEF OpToRel
<1> HIDE DEF R
<1>3. PICK n \in S : \A m \in S : ~(<<m, n>> \in R)
  BY <1>1, WFMin
<1>4. ASSUME NEW m \in S PROVE n <= m
  <2>1. n \in Nat /\ m \in Nat
    OBVIOUS
  <2>2. ~(m < n)
    BY <1>2, <1>3, <2>1
  <2> QED BY <2>1, <2>2
<1> QED BY <1>4

(* The lowest of a nonempty set of numbers. *)
LEMMA LowestIn == ASSUME NEW S \in SUBSET Nat, S # {} PROVE Lowest(S) \in S /\ \A t \in S : Lowest(S) <= t
<1>1. \E x \in S : \A t \in S : x <= t
  BY Smallest
<1> QED BY <1>1, Zenon DEF Lowest

(* Rounding a size up to blocks. *)
LEMMA RoundUp == ASSUME NEW s \in Nat, NEW p \in Nat \ {0}
                 PROVE  /\ (s + p - 1) \div p \in Nat
                        /\ s <= ((s + p - 1) \div p) * p /\ ((s + p - 1) \div p) * p < s + p
<1> DEFINE q == (s + p - 1) \div p
<1>1. s + p - 1 \in Nat
  OBVIOUS
<1>2. q \in Nat /\ q * p <= s + p - 1 /\ s + p - 1 < (q + 1) * p
  BY <1>1
<1> HIDE DEF q
<1>3. (q + 1) * p = q * p + p /\ q * p \in Nat
  BY <1>2
<1>4. s <= q * p /\ q * p < s + p
  BY <1>1, <1>2, <1>3
<1> QED BY <1>2, <1>4 DEF q

(* BlocksFor is the least number of blocks that hold that many bytes. *)
LEMMA BlocksAre == ASSUME NEW s \in Nat PROVE BlocksFor(s) \in Nat /\ s <= BlocksFor(s) * BlockSize
BY RoundUp, ConstantFacts DEF BlocksFor
(* No fewer blocks do.                                                      *)
LEMMA BlocksLeast == ASSUME NEW s \in Nat, NEW q \in Nat, s <= q * BlockSize PROVE BlocksFor(s) <= q
<1> DEFINE r == BlocksFor(s)
           p == BlockSize
<1>1. r \in Nat /\ r * p < s + p /\ p \in Nat \ {0}
  BY RoundUp, ConstantFacts DEF BlocksFor
<1> HIDE DEF r, p
<1>2. s <= q * p
  BY DEF p
<1>3. r * p < q * p + p
  <2>1. r * p \in Nat /\ q * p \in Nat
    BY <1>1
  <2> QED BY <1>1, <1>2, <2>1
<1>4. ASSUME q + 1 <= r PROVE FALSE
  <2>1. (q + 1) * p <= r * p /\ (q + 1) * p = q * p + p
    BY <1>1, <1>4
  <2>2. r * p \in Nat /\ q * p \in Nat
    BY <1>1
  <2> QED BY <1>1, <1>3, <2>1, <2>2
<1>5. r <= q
  BY <1>1, <1>4
<1> QED BY <1>5 DEF r

(* The sizes that occur: nothing, a directory's, a file's. *)
LEMMA BlocksOfNothing == BlocksFor(0) = 0
<1>1. 0 <= 0 * BlockSize
  BY ConstantFacts
<1> QED BY <1>1, BlocksAre, BlocksLeast
(* A file that is not empty has a block.                                    *)
LEMMA BlocksPositive == ASSUME NEW s \in Nat \ {0} PROVE BlocksFor(s) \in Nat \ {0}
<1>1. BlocksFor(s) \in Nat /\ s <= BlocksFor(s) * BlockSize
  BY BlocksAre
<1>2. BlocksFor(s) = 0 => BlocksFor(s) * BlockSize = 0
  BY ConstantFacts
<1> QED BY <1>1, <1>2
(* A directory has one.                                                     *)
LEMMA BlocksOfDir == BlocksFor(BlockSize) = 1
<1>1. BlockSize \in Nat \ {0} /\ BlockSize <= 1 * BlockSize
  BY ConstantFacts
<1>2. BlocksFor(BlockSize) <= 1
  BY <1>1, BlocksLeast
<1> QED BY <1>1, <1>2, BlocksPositive
(* A larger file has no fewer blocks.                                       *)
LEMMA BlocksGrow == ASSUME NEW s \in Nat, NEW t \in Nat, s <= t PROVE BlocksFor(s) <= BlocksFor(t)
<1>1. BlocksFor(t) \in Nat /\ t <= BlocksFor(t) * BlockSize
  BY BlocksAre
<1>2. BlocksFor(t) * BlockSize \in Nat
  BY <1>1, ConstantFacts
<1>3. s <= BlocksFor(t) * BlockSize
  BY <1>1, <1>2
<1> QED BY <1>1, <1>3, BlocksLeast
(* A file of at most MaxFile bytes has no more blocks than an inode has     *)
(* pointers.                                                                *)
LEMMA BlocksFit == ASSUME NEW s \in 0..MaxFile PROVE s \in Nat /\ BlocksFor(s) \in 0..MaxPtrs
<1>1. MaxFile \in Nat
  BY ConstantFacts DEF MaxFile
<1>2. s \in Nat /\ s <= MaxPtrs * BlockSize /\ MaxPtrs \in Nat
  BY <1>1, ConstantFacts DEF MaxFile
<1> QED BY <1>2, BlocksAre, BlocksLeast

(* The block of the last byte is the last block. *)
LEMMA LastBlock == ASSUME NEW s \in Nat \ {0} PROVE (s - 1) \div BlockSize = BlocksFor(s) - 1
<1> DEFINE q == (s - 1) \div BlockSize
           r == BlocksFor(s)
           p == BlockSize
<1>1. p \in Nat \ {0} /\ r \in Nat /\ s <= r * p
  BY BlocksAre, ConstantFacts
<1>2. q \in Nat /\ q * p <= s - 1 /\ s - 1 < (q + 1) * p
  <2>1. s - 1 \in Nat /\ p \in Nat \ {0}
    BY <1>1
  <2> HIDE DEF p
  <2>2. q = (s - 1) \div p
    BY DEF p
  <2> QED BY <2>1, <2>2
<1> HIDE DEF q, r, p
<1>3. r <= q + 1
  <2>1. s <= (q + 1) * p
    <3>1. (q + 1) * p \in Nat
      BY <1>1, <1>2
    <3> QED BY <1>2, <3>1
  <2> QED BY <1>2, <2>1, BlocksLeast DEF r, p
<1>4. ASSUME r <= q PROVE FALSE
  <2>1. r * p <= q * p /\ r * p \in Nat /\ q * p \in Nat
    BY <1>1, <1>2, <1>4
  <2> QED BY <1>1, <1>2, <2>1
<1>5. q = r - 1
  BY <1>1, <1>2, <1>3, <1>4
<1> QED BY <1>5 DEF q, r
----------------------------------------------------------------------------
(* allocate_block. *)

\* How many of F are below b.
Rank(F, b) == Cardinality({c \in F : c < b})

(* From one number to the next the rank grows by one where the number is in *)
(* the set.                                                                 *)
LEMMA RankFacts ==
  ASSUME NEW F \in SUBSET Nat, IsFiniteSet(F), NEW b \in Nat
  PROVE  /\ IsFiniteSet({c \in F : c < b}) /\ Rank(F, b) \in Nat
         /\ Rank(F, b + 1) = IF b \in F THEN Rank(F, b) + 1 ELSE Rank(F, b)
<1> DEFINE B == {c \in F : c < b}
<1>1. \A n : IsFiniteSet({c \in F : c < n})
  BY FS_Subset
<1>2. IsFiniteSet(B) /\ Cardinality(B) \in Nat
  BY <1>1, FS_CardinalityType
<1>3. {c \in F : c < b + 1} = IF b \in F THEN B \cup {b} ELSE B
  <2>1. \A c \in F : c < b + 1 <=> (c < b \/ c = b)
    OBVIOUS
  <2> QED BY <2>1
<1>4. b \notin B
  OBVIOUS
<1>5. Cardinality(B \cup {b}) = Cardinality(B) + 1
  BY <1>2, <1>4, FS_AddElement
<1> QED BY <1>2, <1>3, <1>5 DEF Rank

(* Every number up to the cardinality is somebody's rank. *)
LEMMA RankFound ==
  ASSUME NEW F \in SUBSET Blocks, IsFiniteSet(F), NEW k \in Nat, k < Cardinality(F)
  PROVE  \E b \in F : Rank(F, b) = k
<1>0. F \in SUBSET Nat /\ Cardinality(F) \in Nat /\ DiskSize \in Nat
  BY ConstantFacts, Sizes, FS_CardinalityType
<1> DEFINE A == {n \in Nat : k < Rank(F, n)}
<1>1. DiskSize \in A
  <2>1. \A c \in F : c < DiskSize
    BY ConstantFacts, Sizes
  <2>2. {c \in F : c < DiskSize} = F
    BY <2>1
  <2> QED BY <1>0, <2>2 DEF Rank
<1>2. PICK n \in A : \A m \in A : n <= m
  BY <1>1, Smallest
<1>3. n \in Nat /\ k < Rank(F, n)
  BY <1>2
<1>4. n # 0
  <2>0. \A c \in F : ~(c < 0)
    BY <1>0
  <2>1. {c \in F : c < 0} = {}
    BY <2>0
  <2>2. Rank(F, 0) = 0
    BY <2>1, FS_EmptySet DEF Rank
  <2> QED BY <1>3, <2>2
<1>5. n - 1 \in Nat /\ (n - 1) + 1 = n /\ n - 1 \notin A
  BY <1>2, <1>3, <1>4
<1>6. Rank(F, n - 1) \in Nat /\ Rank(F, n) = IF n - 1 \in F THEN Rank(F, n - 1) + 1 ELSE Rank(F, n - 1)
  <2> DEFINE p == n - 1
  <2>1. p \in Nat /\ p + 1 = n
    BY <1>5
  <2> HIDE DEF p
  <2>2. Rank(F, p) \in Nat /\ Rank(F, p + 1) = IF p \in F THEN Rank(F, p) + 1 ELSE Rank(F, p)
    BY <1>0, <2>1, RankFacts
  <2>3. p = n - 1
    BY DEF p
  <2> QED BY <2>1, <2>2, <2>3
<1>7. ~(k < Rank(F, n - 1))
  BY <1>5
<1>8. n - 1 \in F /\ Rank(F, n - 1) = k
  BY <1>3, <1>6, <1>7
<1> QED BY <1>8

(* allocate_block returns free blocks, never the same one twice.            *)
LEMMA AllocatedAre ==
  ASSUME NEW n \in Nat
  PROVE  /\ Allocated(n) \in Seq(Free) /\ Len(Allocated(n)) \in Nat /\ Len(Allocated(n)) <= n
         /\ \A k \in 1..Len(Allocated(n)) : /\ Allocated(n)[k] \in Space /\ Allocated(n)[k] \notin bitmap
         /\ \A j, k \in 1..Len(Allocated(n)) : Allocated(n)[j] = Allocated(n)[k] => j = k
<1> DEFINE F == Free
           c == Cardinality(F)
           m == IF n > c THEN c ELSE n
           Nth(k) == CHOOSE b \in F : Cardinality({d \in F : d < b}) = k - 1
           got == [k \in 1..m |-> Nth(k)]
<1>1. F \in SUBSET Blocks /\ F \in SUBSET Nat /\ IsFiniteSet(F) /\ \A b \in F : b \in Space /\ b \notin bitmap
  <2>1. F \in SUBSET Blocks /\ F \in SUBSET Nat /\ \A b \in F : b \in Space /\ b \notin bitmap
    BY ConstantFacts, Sizes DEF Free, Space
  <2>2. IsFiniteSet(Blocks)
    BY ConstantFacts, Sizes, FS_Interval
  <2> QED BY <2>1, <2>2, FS_Subset
<1>2. c \in Nat /\ m \in Nat /\ m <= n /\ m <= c
  BY <1>1, FS_CardinalityType
<1>3. Allocated(n) = got
  BY Zenon DEF Allocated
<1> HIDE DEF F, m
<1>4. ASSUME NEW k \in 1..m PROVE Nth(k) \in F /\ Rank(F, Nth(k)) = k - 1
  <2>1. k - 1 \in Nat /\ k - 1 < c
    BY <1>2
  <2>2. \E b \in F : Rank(F, b) = k - 1
    BY <1>1, <2>1, RankFound
  <2>3. \E b \in F : Cardinality({d \in F : d < b}) = k - 1
    BY <2>2 DEF Rank
  <2> QED BY <2>3, Zenon DEF Rank
<1> HIDE DEF Nth
<1>5. got \in Seq(F) /\ Len(got) = m /\ \A k \in 1..m : got[k] = Nth(k)
  <2>1. \A k \in 1..m : Nth(k) \in F
    BY <1>4
  <2> QED BY <1>2, <2>1
<1> HIDE DEF got
<1>6. \A j, k \in 1..m : got[j] = got[k] => j = k
  <2> SUFFICES ASSUME NEW j \in 1..m, NEW k \in 1..m, got[j] = got[k] PROVE j = k
    OBVIOUS
  <2>1. j - 1 = k - 1
    BY <1>4, <1>5
  <2> QED BY <1>2, <2>1
<1>7. \A k \in 1..m : got[k] \in Space /\ got[k] \notin bitmap
  BY <1>1, <1>4, <1>5
<1>8. Allocated(n) \in Seq(Free)
  BY <1>3, <1>5 DEF F
<1> QED BY <1>2, <1>3, <1>5, <1>6, <1>7, <1>8
----------------------------------------------------------------------------
(* Reading a sound disk. *)

\* The variable disk as it is in every reachable state.
Image == disk \in [1..(DiskSize - 1) -> BlockContents]

(* What the tree's inodes are when the program reads them. *)
LEMMA InodeRead ==
  ASSUME Image, NEW S, Sound(disk, S), NEW i \in S
  PROVE  /\ i \in Space /\ ReadInode(i) = disk[i] /\ disk[i] \in InodeType
         /\ IsDir(i) <=> i \in Dirs(disk, S)
         /\ IsFile(i) <=> i \notin Dirs(disk, S)
<1>1. i \in Space /\ disk[i] \in InodeType
  BY DEF Sound, Inodes
<1>2. i \in DOMAIN disk
  BY <1>1, Sizes DEF Image
<1>3. disk[i].kind = "inode" /\ disk[i].type \in {"dir", "file"}
  BY <1>1 DEF InodeType
<1>4. ReadInode(i) = disk[i]
  BY <1>2, <1>3 DEF ReadInode, Holds
<1> QED BY <1>1, <1>3, <1>4 DEF IsDir, IsFile, Dirs

(* A directory owns one block, that of its entries. *)
LEMMA HeadOfDir ==
  ASSUME NEW e, NEW S, Sound(e, S), NEW i \in Dirs(e, S)
  PROVE  /\ Owns(e, i) = {0} /\ Owned(e, i) = {Head0(e, i)}
         /\ Head0(e, i) \in Space /\ Head0(e, i) \notin S /\ e[Head0(e, i)] \in DirType
         /\ \A s \in Slots : At(e, i, s) \in {NULL} \cup [name : Names, inode : Blocks]
<1>1. i \in S /\ e[i].size = BlockSize /\ e[Head0(e, i)] \in DirType
  BY DEF Sound, Heads, Dirs
<1>2. Owns(e, i) = {0}
  BY <1>1, BlocksOfDir DEF Owns
<1>3. e[i].ptrs[0] \in Space \ S
  BY <1>1, <1>2 DEF Sound, OwnBlocks
<1> QED BY <1>1, <1>2, <1>3 DEF Owned, Head0, At, DirType

(* What the program reads as the entries of a directory are its entries.    *)
LEMMA DirRead ==
  ASSUME Image, NEW S, Sound(disk, S), NEW i \in Dirs(disk, S)
  PROVE  /\ DirPtr(i) = Head0(disk, i)
         /\ Entries(i) = disk[Head0(disk, i)].entries
         /\ Entries(i) \in [Slots -> {NULL} \cup [name : Names, inode : Blocks]]
         /\ \A s \in Slots : Entries(i)[s] = At(disk, i, s)
<1>1. ReadInode(i) = disk[i]
  BY InodeRead DEF Dirs
<1>2. Head0(disk, i) \in Space /\ disk[Head0(disk, i)] \in DirType
  BY HeadOfDir
<1>3. Holds(Head0(disk, i), "dir")
  BY <1>2, Sizes DEF Holds, Image, DirType
<1>4. Entries(i) = disk[Head0(disk, i)].entries
  BY <1>1, <1>3 DEF Entries, Head0
<1> QED BY <1>1, <1>2, <1>4 DEF DirPtr, Head0, DirType, At

(* A file read as a directory has no entries. *)
LEMMA FileRead ==
  ASSUME Image, NEW S, Sound(disk, S), NEW i \in S \ Dirs(disk, S)
  PROVE  Entries(i) = EmptyDir /\ Used(i) = {} /\ \A n : Named(i, n) = {}
<1>1. ReadInode(i) = disk[i]
  BY InodeRead
<1>2. Head0(disk, i) = 0 \/ disk[Head0(disk, i)].kind = "data"
  BY DEF Sound, Heads
<1>3. 0 \notin DOMAIN disk
  BY ConstantFacts DEF Image
<1>4. ~Holds(Head0(disk, i), "dir")
  BY <1>2, <1>3 DEF Holds
<1>5. Entries(i) = EmptyDir
  BY <1>1, <1>4 DEF Entries, Head0
<1>6. Used(i) = {}
  BY <1>5 DEF Used, EmptyDir
<1> QED BY <1>5, <1>6 DEF Named

(* A name that is found is in a directory, and its entry leads to a node    *)
(* of the tree.                                                             *)
LEMMA NameFound ==
  ASSUME Image, NEW S, Sound(disk, S), NEW i \in S, NEW n, Named(i, n) # {}
  PROVE  /\ i \in Dirs(disk, S)
         /\ Lowest(Named(i, n)) \in Slots /\ Lowest(Named(i, n)) \in Used(i)
         /\ At(disk, i, Lowest(Named(i, n))) # NULL
         /\ At(disk, i, Lowest(Named(i, n))).name = n
         /\ Found(i, n) = At(disk, i, Lowest(Named(i, n))).inode
         /\ Found(i, n) \in S \ {Root}
<1>1. i \in Dirs(disk, S)
  BY FileRead
<1>2. Named(i, n) \in SUBSET Nat
  BY ConstantFacts DEF Named, Used, Slots
<1>3. Lowest(Named(i, n)) \in Named(i, n)
  BY <1>2, LowestIn
<1> DEFINE s == Lowest(Named(i, n))
<1> HIDE DEF s
<1>4. s \in Slots /\ s \in Used(i) /\ Entries(i)[s] # NULL /\ Entries(i)[s].name = n
  BY <1>3 DEF s, Named, Used
<1>5. Entries(i)[s] = At(disk, i, s)
  BY <1>1, <1>4, DirRead
<1>6. At(disk, i, s).inode \in S \ {Root}
  BY <1>1, <1>4, <1>5 DEF Sound, Linked
<1> QED BY <1>1, <1>4, <1>5, <1>6 DEF s, Found

(* translate: the nodes of the tree and two errors. *)
Reached(S) == S \cup {ENOTDIR, ENOENT}

(* The nodes of the tree are told from errors by their sign.                *)
LEMMA NodesPositive == ASSUME NEW e, NEW S, Sound(e, S)
                       PROVE /\ \A i \in S : i \in Nat /\ i >= 2
                             /\ \A i \in Reached(S) : i \in Int /\ (i < 0 <=> i \notin S)
<1>1. S \subseteq Space
  BY DEF Sound, Inodes
<1> QED BY <1>1, Sizes, ConstantFacts DEF Space, Reached, ENOTDIR, ENOENT

(* A component of a path leads from a node to a node or to an error.        *)
LEMMA StepReaches == ASSUME Image, NEW S, Sound(disk, S), NEW i \in S, NEW n
                     PROVE Step(i, n) \in Reached(S)
<1>1. CASE ~IsDir(i)
  BY <1>1 DEF Step, Reached
<1>2. CASE IsDir(i) /\ Named(i, n) = {}
  BY <1>2 DEF Step, Reached
<1>3. CASE IsDir(i) /\ Named(i, n) # {}
  BY <1>3, NameFound DEF Step, Found, Reached
<1> QED BY <1>1, <1>2, <1>3

\* The walk along a path as a function of how far it has come.
Walks(p, w, m) == w = [k \in 0..m |-> IF k = 0 THEN Root
                                        ELSE LET i == w[k - 1] IN IF i < 0 THEN i ELSE Step(i, p[k])]

(* The recursion along a path has a solution.                               *)
LEMMA WalksExist == ASSUME NEW p, NEW m \in Nat PROVE \E w : Walks(p, w, m)
<1> DEFINE Go(w, k) == IF k = 0 THEN Root ELSE IF w[k - 1] < 0 THEN w[k - 1] ELSE Step(w[k - 1], p[k])
           S == {n \in Nat : ~\E w : Walks(p, w, n)}
<1> SUFFICES ASSUME S # {} PROVE FALSE
  OBVIOUS
<1>0. \A w, n : Walks(p, w, n) <=> w = [k \in 0..n |-> Go(w, k)]
  BY DEF Walks
<1>1. PICK n \in S : \A j \in S : n <= j
  BY Smallest
<1>2. n # 0
  <2> DEFINE g == [k \in 0..0 |-> Root]
  <2>1. g = [k \in 0..0 |-> Go(g, k)]
    OBVIOUS
  <2>2. Walks(p, g, 0)
    BY <1>0, <2>1
  <2> QED BY <1>1, <2>2
<1>3. n - 1 \in Nat /\ n - 1 \notin S
  BY <1>1, <1>2
<1>4. PICK f : Walks(p, f, n - 1)
  BY <1>3
<1> DEFINE g == [k \in 0..n |-> IF k = n THEN Go(f, n) ELSE f[k]]
<1>5. \A k \in 0..(n - 1) : f[k] = Go(f, k)
  <2>1. f = [k \in 0..(n - 1) |-> Go(f, k)]
    BY <1>0, <1>4
  <2> HIDE DEF Go
  <2> QED BY <2>1, Zenon
<1>6. ASSUME NEW k \in 0..n PROVE g[k] = Go(g, k)
  <2>1. CASE k = n
    <3>1. n - 1 \in 0..n /\ n - 1 # n
      BY <1>3
    <3> QED BY <1>2, <2>1, <3>1
  <2>2. CASE k # n
    <3>1. k \in 0..(n - 1)
      BY <1>3, <2>2
    <3>2. k # 0 => k - 1 \in 0..n /\ k - 1 # n
      BY <3>1, <1>3
    <3> QED BY <2>2, <3>1, <3>2, <1>5
  <2> QED BY <2>1, <2>2
<1>7. g = [k \in 0..n |-> Go(g, k)]
  <2> HIDE DEF g, Go
  <2>1. g = [k \in 0..n |-> g[k]]
    BY DEF g
  <2> QED BY <2>1, <1>6, Zenon
<1>8. Walks(p, g, n)
  BY <1>0, <1>7
<1> QED BY <1>1, <1>8

(* A walk ends at a node of the tree or with an error.                      *)
LEMMA WalkReaches ==
  ASSUME Image, NEW S, Sound(disk, S), NEW p, Len(p) \in Nat
  PROVE  Walk(p) \in Reached(S)
<1> DEFINE m == Len(p)
<1>1. \E w : Walks(p, w, m)
  BY WalksExist
<1>2. Walk(p) = (CHOOSE w : Walks(p, w, m))[m]
  BY DEF Walk, Walks
<1>3. PICK w : Walks(p, w, m) /\ Walk(p) = w[m]
  BY <1>1, <1>2
<1>4. \A k \in 0..m : w[k] = IF k = 0 THEN Root
                             ELSE LET i == w[k - 1] IN IF i < 0 THEN i ELSE Step(i, p[k])
  BY <1>3, Zenon DEF Walks
<1> HIDE DEF m
<1> DEFINE B == {k \in 0..m : w[k] \notin Reached(S)}
<1>5. m \in Nat
  BY DEF m
<1>6. B = {}
  <2> SUFFICES ASSUME B # {} PROVE FALSE
    OBVIOUS
  <2>0. B \in SUBSET Nat
    BY <1>5
  <2>1. PICK k \in B : \A j \in B : k <= j
    BY <2>0, Smallest
  <2>2. k # 0
    BY <1>4, <1>5, <2>1 DEF Sound, Inodes, Reached
  <2>3. k - 1 \in 0..m /\ ~(k <= k - 1) /\ k \in 0..m
    BY <1>5, <2>1, <2>2
  <2>4. w[k - 1] \in Reached(S)
    BY <2>1, <2>3
  <2>5. w[k] = IF w[k - 1] < 0 THEN w[k - 1] ELSE Step(w[k - 1], p[k])
    BY <1>4, <2>2, <2>3
  <2>6. CASE w[k - 1] < 0
    BY <2>1, <2>4, <2>5, <2>6
  <2>7. CASE ~(w[k - 1] < 0)
    <3>1. w[k - 1] \in S
      BY <2>4, <2>7, NodesPositive
    <3>2. Step(w[k - 1], p[k]) \in Reached(S)
      BY <3>1, StepReaches
    <3> QED BY <2>1, <2>5, <2>7, <3>2
  <2> QED BY <2>6, <2>7
<1>7. m \in 0..m
  BY <1>5
<1> QED BY <1>3, <1>6, <1>7

(* So does translate.                                                       *)
LEMMA TranslateReaches ==
  ASSUME Image, NEW S, Sound(disk, S), NEW p \in Seq(Names)
  PROVE  Translate(p) \in Reached(S)
<1> DEFINE q == SubSeq(p, 1, IF Len(p) > MaxComponents THEN MaxComponents ELSE Len(p))
<1>1. q \in Seq(Names)
  BY ConstantFacts
<1> HIDE DEF q
<1>2. ClipPath(q) \in Seq(Names)
  <2>1. \A k \in DOMAIN q : Clip[q[k]] \in Names
    BY <1>1, ConstantFacts
  <2> QED BY <1>1, <2>1 DEF ClipPath
<1>3. Len(ClipPath(q)) \in Nat
  BY <1>2
<1> QED BY <1>3, WalkReaches DEF Translate, q

(* The directory in which create, unlink and the like look for the last     *)
(* component.                                                               *)
LEMMA ParentReaches ==
  ASSUME Image, NEW S, Sound(disk, S), NEW p \in Seq(Names)
  PROVE  /\ LookupParent(p) \in Int
         /\ ~(LookupParent(p) < 0) => LookupParent(p) \in S /\ Leaf(p) \in Names
<1>1. CASE p = <<>>
  BY <1>1 DEF LookupParent, EINVAL
<1>2. CASE p # <<>>
  <2>1. Front(p) \in Seq(Names) /\ Last(p) \in Names
    BY <1>2 DEF Front, Last
  <2>2. Translate(Front(p)) \in Reached(S)
    BY <2>1, TranslateReaches
  <2>3. LookupParent(p) \in Reached(S)
    BY <1>2, <2>2 DEF LookupParent
  <2>4. Leaf(p) \in Names
    BY <2>1, ConstantFacts DEF Leaf
  <2> QED BY <2>3, <2>4, NodesPositive
<1> QED BY <1>1, <1>2
----------------------------------------------------------------------------
(* What the pending writes of a call lead to. *)

WriteType == [lba : 1..(DiskSize - 1), value : BlockContents]

\* None of the first k writes, or the j-th as the last of them, is to block b.
None(ws, k, b) == \A j \in 1..k : ws[j].lba # b
Latest(ws, k, b, j) == ws[j].lba = b /\ \A i \in (j + 1)..k : ws[i].lba # b

(* After the first k writes disk d is e, and bitmap m in memory is n or one *)
(* write ahead.  Writes of the bitmap that free blocks may have failed.     *)
DiskAfter(d, ws, op, k, e) ==
  \A b \in 1..(DiskSize - 1) :
    \/ e[b] = d[b] /\ (None(ws, k, b) \/ (b = 1 /\ op \in Freeing))
    \/ \E j \in 1..k : /\ ws[j].lba = b /\ e[b] = ws[j].value
                       /\ Latest(ws, k, b, j) \/ (b = 1 /\ op \in Freeing)
BitmapAfter(m, ws, k, n) ==
  \/ n = m /\ None(ws, k, 1)
  \/ \E j \in 1..k : Latest(ws, k, 1, j) /\ n = ws[j].value.set
  \/ k < Len(ws) /\ ws[k + 1].lba = 1 /\ n = ws[k + 1].value.set

\* The disk is a tree and its blocks are marked, there and in memory.
Marked(e, n, S) == Taken(e, S) \subseteq n /\ Taken(e, S) \subseteq e[1].set
Quiet(d, m) == \E S : Sound(d, S) /\ Marked(d, m, S)

(* However many of its writes a call makes, the disk is a tree; where the   *)
(* call may end, its blocks are marked.                                     *)
Firm(ws, op, k) == k = Len(ws) \/ op \in Faulty
Planned(d, m, ws, op) ==
  \A k \in 0..Len(ws) : \A e, n :
    DiskAfter(d, ws, op, k, e) /\ BitmapAfter(m, ws, k, n)
      => \E S : Sound(e, S) /\ (Firm(ws, op, k) => Marked(e, n, S))

(* e holds what d holds wherever the tree is looked at. *)
Agree(d, e, S) ==
  /\ \A i \in S : e[i] = d[i]
  /\ \A i \in Dirs(d, S) : e[Head0(d, i)] = d[Head0(d, i)]
  /\ \A i \in S \ Dirs(d, S) : d[i].size # 0 => e[Head0(d, i)].kind = "data"

(* Such a disk holds the same tree.                                         *)
LEMMA AgreeSound ==
  ASSUME NEW d, NEW e, NEW S, Sound(d, S), Agree(d, e, S)
  PROVE  Sound(e, S) /\ Taken(e, S) = Taken(d, S)
<1>1. /\ \A i \in S : e[i] = d[i] /\ Owns(e, i) = Owns(d, i) /\ Head0(e, i) = Head0(d, i)
                      /\ Owned(e, i) = Owned(d, i)
      /\ Dirs(e, S) = Dirs(d, S)
  BY DEF Agree, Owns, Head0, Owned, Dirs
<1>2. \A i \in Dirs(d, S) : i \in S
  BY DEF Dirs
<1>3. \A i \in Dirs(d, S), s \in Slots : At(e, i, s) = At(d, i, s)
  BY <1>1, <1>2 DEF Agree, At
<1>4. Inodes(e, S)
  BY <1>1 DEF Sound, Inodes
<1>5. OwnBlocks(e, S)
  <2>1. ASSUME NEW i \in S, NEW k \in Owns(e, i) PROVE e[i].ptrs[k] \in Space \ S
    BY <1>1 DEF Sound, OwnBlocks
  <2>2. ASSUME NEW i \in S, NEW j \in S, NEW k \in Owns(e, i), NEW l \in Owns(e, j),
               e[i].ptrs[k] = e[j].ptrs[l]
        PROVE  i = j /\ k = l
    <3>1. k \in Owns(d, i) /\ l \in Owns(d, j) /\ d[i].ptrs[k] = d[j].ptrs[l]
      BY <1>1, <2>2
    <3> QED BY <3>1 DEF Sound, OwnBlocks
  <2> QED BY <2>1, <2>2 DEF OwnBlocks
<1>6. Heads(e, S)
  BY <1>1, <1>2 DEF Sound, Heads, Agree
<1>7. Linked(e, S)
  <2>1. ASSUME NEW i \in Dirs(e, S), NEW s \in Slots, At(e, i, s) # NULL
        PROVE  At(e, i, s).inode \in S \ {Root}
    BY <1>1, <1>3, <2>1 DEF Sound, Linked
  <2>2. ASSUME NEW i \in Dirs(e, S), NEW j \in Dirs(e, S), NEW s \in Slots, NEW t \in Slots,
               At(e, i, s) # NULL, At(e, j, t) # NULL, At(e, i, s).inode = At(e, j, t).inode
        PROVE  i = j /\ s = t
    <3>1. /\ i \in Dirs(d, S) /\ j \in Dirs(d, S)
          /\ At(d, i, s) # NULL /\ At(d, j, t) # NULL /\ At(d, i, s).inode = At(d, j, t).inode
      BY <1>1, <1>3, <2>2
    <3> QED BY <3>1 DEF Sound, Linked
  <2> QED BY <2>1, <2>2 DEF Linked
<1>8. Taken(e, S) = Taken(d, S)
  <2>1. {Owned(e, i) : i \in S} = {Owned(d, i) : i \in S}
    BY <1>1
  <2> QED BY <2>1 DEF Taken
<1> QED BY <1>4, <1>5, <1>6, <1>7, <1>8 DEF Sound

(* A disk that is the same behind the bitmap is such a disk.                *)
LEMMA SameAgree == ASSUME NEW d, NEW e, NEW S, Sound(d, S), \A b \in Space : e[b] = d[b]
                   PROVE Agree(d, e, S)
<1>1. \A i \in S : i \in Space
  BY DEF Sound, Inodes
<1>2. \A i \in Dirs(d, S) : Head0(d, i) \in Space
  BY HeadOfDir
<1>3. ASSUME NEW i \in S \ Dirs(d, S), d[i].size # 0 PROVE e[Head0(d, i)].kind = "data"
  <2>1. d[i] \in InodeType /\ d[Head0(d, i)].kind = "data"
    BY <1>3 DEF Sound, Inodes, Heads
  <2>2. d[i].size \in 0..MaxFile
    BY <2>1 DEF InodeType
  <2>3. d[i].size \in Nat \ {0}
    BY <1>3, <2>2, BlocksFit
  <2>4. 0 \in Owns(d, i)
    BY <2>3, BlocksPositive DEF Owns
  <2>5. Head0(d, i) \in Space
    BY <2>4 DEF Sound, OwnBlocks, Head0
  <2> QED BY <2>1, <2>5
<1> QED BY <1>1, <1>2, <1>3 DEF Agree

(* With no writes pending a plan says that the disk is a marked tree now.   *)
LEMMA QuietPlan == ASSUME NEW d, NEW m, NEW op, Quiet(d, m) PROVE Planned(d, m, <<>>, op)
<1> SUFFICES ASSUME NEW k \in 0..Len(<<>>), NEW e, NEW n,
                    DiskAfter(d, <<>>, op, k, e), BitmapAfter(m, <<>>, k, n)
             PROVE  \E S : Sound(e, S) /\ (Firm(<<>>, op, k) => Marked(e, n, S))
  BY DEF Planned
<1>1. k = 0 /\ Len(<<>>) = 0 /\ 1..0 = {}
  OBVIOUS
<1>2. n = m
  BY <1>1 DEF BitmapAfter
<1>3. \A b \in 1..(DiskSize - 1) : e[b] = d[b]
  BY <1>1 DEF DiskAfter
<1>4. PICK S : Sound(d, S) /\ Marked(d, m, S)
  BY DEF Quiet
<1>5. Agree(d, e, S)
  BY <1>3, <1>4, SameAgree, Sizes
<1>6. Sound(e, S) /\ Taken(e, S) = Taken(d, S)
  BY <1>4, <1>5, AgreeSound
<1> QED BY <1>2, <1>3, <1>4, <1>6, Sizes DEF Marked

(* Where a call may end, or nothing is pending, the disk is a marked tree   *)
(* now.                                                                     *)
LEMMA PlanQuiet ==
  ASSUME NEW d, NEW m, NEW ws \in Seq(WriteType), NEW op, Planned(d, m, ws, op),
         ws = <<>> \/ op \in Faulty
  PROVE  Quiet(d, m)
<1>1. 1..0 = {} /\ 0 \in 0..Len(ws)
  OBVIOUS
<1>2. DiskAfter(d, ws, op, 0, d)
  BY <1>1 DEF DiskAfter, None
<1>3. BitmapAfter(m, ws, 0, m)
  BY <1>1 DEF BitmapAfter, None
<1>4. Firm(ws, op, 0)
  BY DEF Firm
<1> QED BY <1>1, <1>2, <1>3, <1>4 DEF Planned, Quiet

(* In any case the disk is a tree now. *)
LEMMA PlanSound ==
  ASSUME NEW d, NEW m, NEW ws \in Seq(WriteType), NEW op, Planned(d, m, ws, op)
  PROVE  \E S : Sound(d, S)
<1>1. 1..0 = {} /\ 0 \in 0..Len(ws)
  OBVIOUS
<1>2. DiskAfter(d, ws, op, 0, d)
  BY <1>1 DEF DiskAfter, None
<1>3. BitmapAfter(m, ws, 0, m)
  BY <1>1 DEF BitmapAfter, None
<1> QED BY <1>1, <1>2, <1>3 DEF Planned
----------------------------------------------------------------------------
(* Making a write, and failing to. *)

(* The pending writes without the first. *)
LEMMA TailIs ==
  ASSUME NEW ws \in Seq(WriteType), ws # <<>>
  PROVE  /\ Head(ws) = ws[1] /\ Head(ws) \in WriteType /\ 1 \in 1..Len(ws)
         /\ Tail(ws) \in Seq(WriteType) /\ Len(Tail(ws)) = Len(ws) - 1
         /\ \A j \in 1..(Len(ws) - 1) : j + 1 \in 1..Len(ws) /\ Tail(ws)[j] = ws[j + 1]
OBVIOUS

(* Which write to a block is the last one, seen from before the first       *)
(* write and from after it.                                                 *)
LEMMA LaterWrites ==
  ASSUME NEW ws \in Seq(WriteType), ws # <<>>, NEW k \in 0..(Len(ws) - 1), NEW b
  PROVE  /\ None(Tail(ws), k, b) /\ ws[1].lba # b => None(ws, k + 1, b)
         /\ None(Tail(ws), k, b) /\ ws[1].lba = b => Latest(ws, k + 1, b, 1)
         /\ \A j \in 1..k : Latest(Tail(ws), k, b, j) => Latest(ws, k + 1, b, j + 1)
<1> DEFINE t == Tail(ws)
<1>1. \A j \in 1..k : t[j] = ws[j + 1]
  BY TailIs
<1>k. k \in Nat
  OBVIOUS
<1> HIDE DEF t
<1>2. \A i \in 2..(k + 1) : i - 1 \in 1..k /\ t[i - 1] = ws[i]
  BY <1>1, <1>k
<1>3. ASSUME None(t, k, b), ws[1].lba # b PROVE None(ws, k + 1, b)
  <2>1. \A i \in 1..(k + 1) : i = 1 \/ i \in 2..(k + 1)
    BY <1>k
  <2> QED BY <1>2, <1>3, <2>1 DEF None
<1>4. ASSUME None(t, k, b), ws[1].lba = b PROVE Latest(ws, k + 1, b, 1)
  BY <1>2, <1>4 DEF None, Latest
<1>5. ASSUME NEW j \in 1..k, Latest(t, k, b, j) PROVE Latest(ws, k + 1, b, j + 1)
  <2>1. \A i \in (j + 1 + 1)..(k + 1) : i \in 2..(k + 1) /\ i - 1 \in (j + 1)..k
    BY <1>k
  <2> QED BY <1>1, <1>2, <1>5, <2>1 DEF Latest
<1> QED BY <1>3, <1>4, <1>5 DEF t

(* The disk after k more writes is the disk after k + 1, whether the first  *)
(* was made or was one to free blocks and failed.                           *)
LEMMA DiskLater ==
  ASSUME NEW ws \in Seq(WriteType), ws # <<>>, NEW d, NEW c, NEW op,
         NEW k \in 0..(Len(ws) - 1), NEW e, DiskAfter(c, Tail(ws), op, k, e),
         \A b \in 1..(DiskSize - 1) :
            \/ b # ws[1].lba /\ c[b] = d[b]
            \/ b = ws[1].lba /\ c[b] = ws[1].value
            \/ b = 1 /\ b = ws[1].lba /\ op \in Freeing /\ c[b] = d[b]
  PROVE  DiskAfter(d, ws, op, k + 1, e)
<1> DEFINE t == Tail(ws)
           After(b) == \/ e[b] = d[b] /\ (None(ws, k + 1, b) \/ (b = 1 /\ op \in Freeing))
                       \/ \E j \in 1..(k + 1) : /\ ws[j].lba = b /\ e[b] = ws[j].value
                                                /\ Latest(ws, k + 1, b, j) \/ (b = 1 /\ op \in Freeing)
<1>1. \A j \in 1..k : t[j] = ws[j + 1] /\ j + 1 \in 1..(k + 1)
  BY TailIs
<1>2. 1 \in 1..(k + 1)
  OBVIOUS
<1> HIDE DEF t
<1> SUFFICES ASSUME NEW b \in 1..(DiskSize - 1) PROVE After(b)
  BY DEF DiskAfter
<1>3. \/ e[b] = c[b] /\ (None(t, k, b) \/ (b = 1 /\ op \in Freeing))
      \/ \E j \in 1..k : /\ t[j].lba = b /\ e[b] = t[j].value
                         /\ Latest(t, k, b, j) \/ (b = 1 /\ op \in Freeing)
  BY DEF DiskAfter, t
<1>4. /\ None(t, k, b) /\ ws[1].lba # b => None(ws, k + 1, b)
      /\ None(t, k, b) /\ ws[1].lba = b => Latest(ws, k + 1, b, 1)
      /\ \A j \in 1..k : Latest(t, k, b, j) => Latest(ws, k + 1, b, j + 1)
  BY LaterWrites DEF t
<1>5. CASE e[b] = c[b] /\ (None(t, k, b) \/ (b = 1 /\ op \in Freeing))
  <2>1. CASE b # ws[1].lba /\ c[b] = d[b]
    BY <1>4, <1>5, <2>1
  <2>2. CASE b = ws[1].lba /\ c[b] = ws[1].value
    BY <1>2, <1>4, <1>5, <2>2
  <2>3. CASE b = 1 /\ op \in Freeing /\ c[b] = d[b]
    BY <1>5, <2>3
  <2> QED BY <2>1, <2>2, <2>3
<1>6. CASE \E j \in 1..k : /\ t[j].lba = b /\ e[b] = t[j].value
                           /\ Latest(t, k, b, j) \/ (b = 1 /\ op \in Freeing)
  <2>1. PICK j \in 1..k : /\ t[j].lba = b /\ e[b] = t[j].value
                          /\ Latest(t, k, b, j) \/ (b = 1 /\ op \in Freeing)
    BY <1>6
  <2> DEFINE i == j + 1
  <2>2. /\ ws[i].lba = b /\ e[b] = ws[i].value /\ i \in 1..(k + 1)
        /\ Latest(ws, k + 1, b, i) \/ (b = 1 /\ op \in Freeing)
    BY <1>1, <1>4, <2>1
  <2> HIDE DEF i
  <2> QED BY <2>2
<1> QED BY <1>3, <1>5, <1>6

(* The same for the bitmap in memory.                                       *)
LEMMA BitmapLater ==
  ASSUME NEW ws \in Seq(WriteType), ws # <<>>, NEW m, NEW c, NEW k \in 0..(Len(ws) - 1), NEW n,
         BitmapAfter(c, Tail(ws), k, n), c = IF ws[1].lba = 1 THEN ws[1].value.set ELSE m
  PROVE  BitmapAfter(m, ws, k + 1, n)
<1> DEFINE t == Tail(ws)
<1>1. \A j \in 1..(Len(ws) - 1) : t[j] = ws[j + 1] /\ j + 1 \in 1..Len(ws)
  BY TailIs
<1>2. 1 \in 1..(k + 1) /\ Len(t) = Len(ws) - 1 /\ Len(ws) \in Nat /\ k \in Nat
  BY TailIs
<1> HIDE DEF t
<1>3. /\ None(t, k, 1) /\ ws[1].lba # 1 => None(ws, k + 1, 1)
      /\ None(t, k, 1) /\ ws[1].lba = 1 => Latest(ws, k + 1, 1, 1)
      /\ \A j \in 1..k : Latest(t, k, 1, j) => Latest(ws, k + 1, 1, j + 1)
  BY LaterWrites DEF t
<1>4. CASE n = c /\ None(t, k, 1)
  <2>1. CASE ws[1].lba # 1
    BY <1>3, <1>4, <2>1 DEF BitmapAfter
  <2>2. CASE ws[1].lba = 1
    BY <1>2, <1>3, <1>4, <2>2 DEF BitmapAfter
  <2> QED BY <2>1, <2>2
<1>5. CASE \E j \in 1..k : Latest(t, k, 1, j) /\ n = t[j].value.set
  <2>1. PICK j \in 1..k : Latest(t, k, 1, j) /\ n = t[j].value.set
    BY <1>5
  <2> DEFINE i == j + 1
  <2>2. Latest(ws, k + 1, 1, i) /\ n = ws[i].value.set /\ i \in 1..(k + 1)
    <3>1. j \in 1..(Len(ws) - 1)
      BY <1>2
    <3> QED BY <1>1, <1>2, <1>3, <2>1, <3>1
  <2> HIDE DEF i
  <2> QED BY <2>2 DEF BitmapAfter
<1>6. CASE k < Len(t) /\ t[k + 1].lba = 1 /\ n = t[k + 1].value.set
  <2>1. k + 1 \in 1..(Len(ws) - 1) /\ k + 1 < Len(ws)
    BY <1>2, <1>6
  <2>2. t[k + 1] = ws[(k + 1) + 1]
    BY <1>1, <2>1
  <2> QED BY <1>6, <2>1, <2>2 DEF BitmapAfter
<1> QED BY <1>4, <1>5, <1>6 DEF BitmapAfter, t

(* The plan goes on with the other writes. *)
LEMMA PlanGoesOn ==
  ASSUME NEW ws \in Seq(WriteType), ws # <<>>, NEW d, NEW m, NEW op, NEW c, NEW r,
         Planned(d, m, ws, op),
         \A b \in 1..(DiskSize - 1) :
            \/ b # ws[1].lba /\ c[b] = d[b]
            \/ b = ws[1].lba /\ c[b] = ws[1].value
            \/ b = 1 /\ b = ws[1].lba /\ op \in Freeing /\ c[b] = d[b],
         r = IF ws[1].lba = 1 THEN ws[1].value.set ELSE m
  PROVE  Planned(c, r, Tail(ws), op)
<1>0. Len(ws) \in Nat /\ Len(Tail(ws)) = Len(ws) - 1
  BY TailIs
<1> SUFFICES ASSUME NEW k \in 0..Len(Tail(ws)), NEW e, NEW n,
                    DiskAfter(c, Tail(ws), op, k, e), BitmapAfter(r, Tail(ws), k, n)
             PROVE  \E S : Sound(e, S) /\ (Firm(Tail(ws), op, k) => Marked(e, n, S))
  BY DEF Planned
<1>1. k \in 0..(Len(ws) - 1) /\ k + 1 \in 0..Len(ws) /\ (k = Len(Tail(ws)) => k + 1 = Len(ws))
  <2> DEFINE l == Len(Tail(ws))
             w == Len(ws)
  <2>1. l = w - 1 /\ w \in Nat /\ k \in 0..l
    BY <1>0
  <2> HIDE DEF l, w
  <2>2. k \in 0..(w - 1) /\ k + 1 \in 0..w /\ (k = l => k + 1 = w)
    BY <2>1
  <2> QED BY <2>2 DEF l, w
<1>2. DiskAfter(d, ws, op, k + 1, e)
  BY <1>1, DiskLater
<1>3. BitmapAfter(m, ws, k + 1, n)
  BY <1>1, BitmapLater
<1>4. Firm(Tail(ws), op, k) => Firm(ws, op, k + 1)
  BY <1>1 DEF Firm
<1>5. \E S : Sound(e, S) /\ (Firm(ws, op, k + 1) => Marked(e, n, S))
  BY <1>1, <1>2, <1>3 DEF Planned
<1> QED BY <1>4, <1>5

(* A call that may fail, and does at its next write, leaves a marked tree.  *)
LEMMA PlanFails ==
  ASSUME NEW ws \in Seq(WriteType), ws # <<>>, NEW d, NEW m, NEW op, NEW r,
         Planned(d, m, ws, op), op \in Faulty, r = IF ws[1].lba = 1 THEN ws[1].value.set ELSE m
  PROVE  Quiet(d, r)
<1>1. 1..0 = {} /\ 0 \in 0..Len(ws) /\ 0 < Len(ws) /\ 0 + 1 = 1
  OBVIOUS
<1>2. DiskAfter(d, ws, op, 0, d)
  BY <1>1 DEF DiskAfter, None
<1>3. BitmapAfter(m, ws, 0, r)
  BY <1>1 DEF BitmapAfter, None
<1>4. Firm(ws, op, 0)
  BY DEF Firm
<1> QED BY <1>1, <1>2, <1>3, <1>4 DEF Planned, Quiet
----------------------------------------------------------------------------
(* The tree from the root, and bitmaps that mark nothing besides. *)

\* X holds the root and what the directories in X lead to; S is the least such set.
Closed(e, X) == /\ Root \in X
                /\ \A i \in Dirs(e, X), s \in Slots : At(e, i, s) # NULL => At(e, i, s).inode \in X
Rooted(e, S) == \A X \in SUBSET S : Closed(e, X) => X = S

\* Nothing is marked but the blocks of the tree from the root.
Exact(e, m, S) == Rooted(e, S) /\ m \subseteq Taken(e, S)
Snug(e, m) == \E S : Sound(e, S) /\ Exact(e, m, S)

\* So it is when a call has made all its writes.
Settles(d, m, ws, op) ==
  \A e, n : DiskAfter(d, ws, op, Len(ws), e) /\ BitmapAfter(m, ws, Len(ws), n) => Snug(e, n)

(* Where the same entries lead to the same inodes, the same are reached.    *)
LEMMA RootedSame ==
  ASSUME NEW d, NEW e, NEW S, Rooted(d, S), Dirs(e, S) = Dirs(d, S),
         \A j \in Dirs(d, S), s \in Slots :
           At(d, j, s) # NULL => At(e, j, s) # NULL /\ At(e, j, s).inode = At(d, j, s).inode
  PROVE  Rooted(e, S)
<1> SUFFICES ASSUME NEW X \in SUBSET S, Closed(e, X) PROVE X = S
  BY DEF Rooted
<1>1. \A j \in Dirs(d, X) : j \in Dirs(d, S) /\ j \in Dirs(e, S) /\ j \in X
  BY DEF Dirs
<1>2. \A j \in Dirs(d, X) : j \in Dirs(e, X)
  BY <1>1 DEF Dirs
<1>3. ASSUME NEW j \in Dirs(d, X), NEW s \in Slots, At(d, j, s) # NULL PROVE At(d, j, s).inode \in X
  <2>1. At(e, j, s) # NULL /\ At(e, j, s).inode = At(d, j, s).inode
    BY <1>1, <1>3
  <2>2. At(e, j, s).inode \in X
    BY <1>2, <2>1 DEF Closed
  <2> QED BY <2>1, <2>2
<1>4. Closed(d, X)
  BY <1>3 DEF Closed
<1> QED BY <1>4 DEF Rooted

(* With one entry more, what it leads to is reached too.                    *)
LEMMA RootedAdded ==
  ASSUME NEW d, NEW e, NEW S, Sound(d, S), Rooted(d, S),
         NEW i \in Dirs(d, S), NEW s \in Slots, At(d, i, s) = NULL,
         NEW v, At(e, i, s) # NULL, At(e, i, s).inode = v,
         Dirs(e, S) = Dirs(d, S),
         \A j \in Dirs(d, S), t \in Slots : j # i \/ t # s => At(e, j, t) = At(d, j, t)
  PROVE  Rooted(e, S \cup {v})
<1> SUFFICES ASSUME NEW X \in SUBSET (S \cup {v}), Closed(e, X) PROVE X = S \cup {v}
  BY DEF Rooted
<1> DEFINE Y == X \cap S
<1>1. \A j : j \in Y <=> j \in X /\ j \in S
  OBVIOUS
<1>2. Y \in SUBSET S
  OBVIOUS
<1> HIDE DEF Y
<1>3. \A j \in Dirs(d, Y) : j \in Dirs(d, S) /\ j \in Dirs(e, S) /\ j \in X
  BY <1>1 DEF Dirs
<1>4. \A j \in Dirs(d, Y) : j \in Dirs(e, X)
  BY <1>3 DEF Dirs
<1>5. ASSUME NEW j \in Dirs(d, Y), NEW t \in Slots, At(d, j, t) # NULL PROVE At(d, j, t).inode \in Y
  <2>1. At(e, j, t) = At(d, j, t)
    BY <1>3, <1>5
  <2>2. At(d, j, t).inode \in X
    BY <1>4, <1>5, <2>1 DEF Closed
  <2>3. At(d, j, t).inode \in S
    BY <1>3, <1>5 DEF Sound, Linked
  <2> QED BY <1>1, <2>2, <2>3
<1>6. Root \in Y
  BY <1>1 DEF Closed, Sound, Inodes
<1>7. Y = S
  BY <1>2, <1>5, <1>6 DEF Rooted, Closed
<1>8. v \in X
  <2>1. i \in S /\ i \in Dirs(e, S)
    BY DEF Dirs
  <2>2. i \in X
    BY <1>1, <1>7, <2>1
  <2>3. i \in Dirs(e, X)
    BY <2>1, <2>2 DEF Dirs
  <2> QED BY <2>3 DEF Closed
<1> QED BY <1>1, <1>7, <1>8

(* Without the entry to a node that leads nowhere, all the others are.      *)
LEMMA RootedRemoved ==
  ASSUME NEW d, NEW e, NEW S, Sound(d, S), Rooted(d, S), NEW v \in S \ {Root},
         v \in Dirs(d, S) => \A t \in Slots : At(d, v, t) = NULL,
         Dirs(e, S) = Dirs(d, S),
         \A j \in Dirs(d, S), t \in Slots :
           At(d, j, t) # NULL => At(e, j, t) = At(d, j, t) \/ At(d, j, t).inode = v
  PROVE  Rooted(e, S \ {v})
<1> SUFFICES ASSUME NEW X \in SUBSET (S \ {v}), Closed(e, X) PROVE X = S \ {v}
  BY DEF Rooted
<1> DEFINE Y == X \cup {v}
<1>1. /\ \A j : j \in Y <=> j \in X \/ j = v
      /\ Y \in SUBSET S /\ v \notin X /\ \A j \in X : j \in S
  OBVIOUS
<1> HIDE DEF Y
<1>2. \A j \in Dirs(d, Y) : j \in Dirs(d, S) /\ j \in Dirs(e, S) /\ j \in Y
  BY <1>1 DEF Dirs
<1>3. \A j \in Dirs(d, Y) : j # v => j \in Dirs(e, X)
  BY <1>1, <1>2 DEF Dirs
<1>4. ASSUME NEW j \in Dirs(d, Y), NEW t \in Slots, At(d, j, t) # NULL PROVE At(d, j, t).inode \in Y
  <2>1. j # v
    BY <1>2, <1>4
  <2>2. At(e, j, t) = At(d, j, t) \/ At(d, j, t).inode = v
    BY <1>2, <1>4
  <2>3. At(e, j, t) = At(d, j, t) => At(d, j, t).inode \in X
    BY <1>3, <1>4, <2>1 DEF Closed
  <2> QED BY <1>1, <2>2, <2>3
<1>5. Root \in Y
  BY <1>1 DEF Closed
<1>6. Y = S
  BY <1>1, <1>4, <1>5 DEF Rooted, Closed
<1> QED BY <1>1, <1>6

(* The tree from the root is part of any tree of the disk.                  *)
LEMMA RootedIn ==
  ASSUME NEW e, NEW S, NEW T, Sound(e, S), Rooted(e, S), Sound(e, T)
  PROVE  S \subseteq T /\ Taken(e, S) \subseteq Taken(e, T)
<1> DEFINE X == S \cap T
<1>1. X \in SUBSET S /\ \A i : i \in X <=> i \in S /\ i \in T
  OBVIOUS
<1> HIDE DEF X
<1>2. \A i \in Dirs(e, X) : i \in Dirs(e, S) /\ i \in Dirs(e, T)
  BY <1>1 DEF Dirs
<1>3. Closed(e, X)
  <2>1. Root \in X
    BY <1>1 DEF Sound, Inodes
  <2>2. ASSUME NEW i \in Dirs(e, X), NEW s \in Slots, At(e, i, s) # NULL PROVE At(e, i, s).inode \in X
    <3>1. At(e, i, s).inode \in S /\ At(e, i, s).inode \in T
      BY <1>2, <2>2 DEF Sound, Linked
    <3> QED BY <1>1, <3>1
  <2> QED BY <2>1, <2>2 DEF Closed
<1>4. X = S
  BY <1>1, <1>3 DEF Rooted
<1>5. S \subseteq T
  BY <1>1, <1>4
<1> QED BY <1>5 DEF Taken

(* A disk that agrees where the tree is has the same one.                   *)
LEMMA SnugSame ==
  ASSUME NEW d, NEW e, NEW S, Sound(d, S), NEW m, Exact(d, m, S), Agree(d, e, S)
  PROVE  Snug(e, m)
<1>1. Sound(e, S) /\ Taken(e, S) = Taken(d, S)
  BY AgreeSound
<1>2. /\ \A j \in S : e[j] = d[j]
      /\ \A j \in Dirs(d, S) : j \in S /\ e[Head0(d, j)] = d[Head0(d, j)]
  BY DEF Agree, Dirs
<1>3. Dirs(e, S) = Dirs(d, S)
  BY <1>2 DEF Dirs
<1>4. \A j \in Dirs(d, S), s \in Slots : At(e, j, s) = At(d, j, s)
  BY <1>2 DEF At, Head0
<1>5. Rooted(e, S)
  BY <1>3, <1>4, RootedSame DEF Exact
<1> QED BY <1>1, <1>5 DEF Snug, Exact

(* A call without writes leaves it so.                                      *)
LEMMA SnugSettles == ASSUME NEW d, NEW m, NEW op, Snug(d, m) PROVE Settles(d, m, <<>>, op)
<1> SUFFICES ASSUME NEW e, NEW n, DiskAfter(d, <<>>, op, Len(<<>>), e), BitmapAfter(m, <<>>, Len(<<>>), n)
             PROVE  Snug(e, n)
  BY DEF Settles
<1>1. Len(<<>>) = 0 /\ 1..0 = {}
  OBVIOUS
<1>2. n = m
  BY <1>1 DEF BitmapAfter
<1>3. \A b \in 1..(DiskSize - 1) : e[b] = d[b]
  BY <1>1 DEF DiskAfter
<1>4. PICK S : Sound(d, S) /\ Exact(d, m, S)
  BY DEF Snug
<1>5. Agree(d, e, S)
  BY <1>3, <1>4, SameAgree, Sizes
<1> QED BY <1>2, <1>4, <1>5, SnugSame

(* When it has no writes left, it is so.                                    *)
LEMMA SettledSnug == ASSUME NEW d, NEW m, NEW op, Settles(d, m, <<>>, op) PROVE Snug(d, m)
<1>1. Len(<<>>) = 0 /\ 1..0 = {}
  OBVIOUS
<1>2. DiskAfter(d, <<>>, op, Len(<<>>), d)
  BY <1>1 DEF DiskAfter, None
<1>3. BitmapAfter(m, <<>>, Len(<<>>), m)
  BY <1>1 DEF BitmapAfter, None
<1> QED BY <1>2, <1>3 DEF Settles

(* The other writes lead there too.                                         *)
LEMMA SettlesOn ==
  ASSUME NEW ws \in Seq(WriteType), ws # <<>>, NEW d, NEW m, NEW op, NEW c, NEW r,
         Settles(d, m, ws, op),
         \A b \in 1..(DiskSize - 1) :
            \/ b # ws[1].lba /\ c[b] = d[b]
            \/ b = ws[1].lba /\ c[b] = ws[1].value
            \/ b = 1 /\ b = ws[1].lba /\ op \in Freeing /\ c[b] = d[b],
         r = IF ws[1].lba = 1 THEN ws[1].value.set ELSE m
  PROVE  Settles(c, r, Tail(ws), op)
<1>0. Len(ws) \in Nat \ {0} /\ Len(Tail(ws)) = Len(ws) - 1
  BY TailIs
<1> SUFFICES ASSUME NEW e, NEW n, DiskAfter(c, Tail(ws), op, Len(Tail(ws)), e),
                    BitmapAfter(r, Tail(ws), Len(Tail(ws)), n)
             PROVE  Snug(e, n)
  BY DEF Settles
<1> DEFINE k == Len(Tail(ws))
<1>1. k \in 0..(Len(ws) - 1) /\ k + 1 = Len(ws)
  BY <1>0
<1> HIDE DEF k
<1>2. DiskAfter(d, ws, op, k + 1, e)
  BY <1>1, DiskLater DEF k
<1>3. BitmapAfter(m, ws, k + 1, n)
  BY <1>1, BitmapLater DEF k
<1> QED BY <1>1, <1>2, <1>3 DEF Settles
----------------------------------------------------------------------------
(* Writes that leave the tree alone, before the one that changes it.        *)

\* Write w is to no inode and no directory of the tree, and puts data into a file.
Harmless(d, w, S) ==
  /\ w.lba \notin S
  /\ \A i \in Dirs(d, S) : w.lba # Head0(d, i)
  /\ \A i \in S \ Dirs(d, S) : d[i].size # 0 /\ w.lba = Head0(d, i) => w.value.kind = "data"

(* The first block of a file that is not empty is one it owns. *)
LEMMA HeadOfFile ==
  ASSUME NEW d, NEW S, Sound(d, S), NEW i \in S \ Dirs(d, S), d[i].size # 0
  PROVE  0 \in Owns(d, i) /\ Head0(d, i) \in Space /\ Head0(d, i) \in Owned(d, i)
<1>1. d[i] \in InodeType
  BY DEF Sound, Inodes
<1>2. d[i].size \in 0..MaxFile
  BY <1>1 DEF InodeType
<1>3. d[i].size \in Nat \ {0}
  BY <1>2, BlocksFit
<1>4. 0 \in Owns(d, i)
  BY <1>3, BlocksPositive DEF Owns
<1> QED BY <1>4 DEF Sound, OwnBlocks, Head0, Owned

(* Blocks outside the tree are harmless, and so is the bitmap's.            *)
LEMMA OutsideHarmless ==
  ASSUME NEW d, NEW S, Sound(d, S), NEW w, w.lba = 1 \/ w.lba \notin Taken(d, S)
  PROVE  Harmless(d, w, S)
<1>1. \A i \in S : i \in Space /\ i \in Taken(d, S)
  BY DEF Sound, Inodes, Taken
<1>2. \A i \in Dirs(d, S) : Head0(d, i) \in Space /\ Head0(d, i) \in Taken(d, S)
  BY HeadOfDir DEF Taken, Dirs
<1>3. \A i \in S \ Dirs(d, S) : d[i].size # 0 => Head0(d, i) \in Space /\ Head0(d, i) \in Taken(d, S)
  BY HeadOfFile DEF Taken
<1>4. 1 \notin Space
  BY Sizes
<1> QED BY <1>1, <1>2, <1>3, <1>4 DEF Harmless

(* What a block holds after the writes, if writes of the bitmap succeed.    *)
LEMMA BlockAfter ==
  ASSUME NEW d, NEW ws, NEW op, NEW k, NEW e, DiskAfter(d, ws, op, k, e),
         NEW b \in 1..(DiskSize - 1), b # 1 \/ op \notin Freeing
  PROVE  /\ None(ws, k, b) => e[b] = d[b]
         /\ \A j \in 1..k : Latest(ws, k, b, j) => e[b] = ws[j].value
<1>1. \/ e[b] = d[b] /\ None(ws, k, b)
      \/ \E j \in 1..k : ws[j].lba = b /\ e[b] = ws[j].value /\ Latest(ws, k, b, j)
  BY DEF DiskAfter
<1>2. None(ws, k, b) => e[b] = d[b]
  BY <1>1 DEF None
<1>3. ASSUME NEW j \in 1..k, Latest(ws, k, b, j) PROVE e[b] = ws[j].value
  <2>1. ~None(ws, k, b)
    BY <1>3 DEF None, Latest
  <2>2. PICK i \in 1..k : e[b] = ws[i].value /\ Latest(ws, k, b, i)
    BY <1>1, <2>1
  <2>3. ~(i < j) /\ ~(j < i)
    <3>1. i < j => j \in (i + 1)..k
      OBVIOUS
    <3>2. j < i => i \in (j + 1)..k
      OBVIOUS
    <3> QED BY <1>3, <2>2, <3>1, <3>2 DEF Latest
  <2>4. i = j
    BY <2>3
  <2> QED BY <2>2, <2>4
<1> QED BY <1>2, <1>3

(* After harmless writes the disk holds the same tree.                      *)
LEMMA HarmlessAgree ==
  ASSUME NEW d, NEW S, Sound(d, S), NEW ws, NEW k \in Nat, \A j \in 1..k : Harmless(d, ws[j], S),
         NEW op, NEW e, DiskAfter(d, ws, op, k, e)
  PROVE  Agree(d, e, S)
<1>1. \A b \in Space : b \in 1..(DiskSize - 1) /\ b # 1
  BY Sizes
<1>2. ASSUME NEW b \in Space PROVE None(ws, k, b) => e[b] = d[b]
  <2>1. b \in 1..(DiskSize - 1) /\ b # 1
    BY <1>1
  <2> QED BY <2>1, BlockAfter
<1>3. ASSUME NEW i \in S PROVE e[i] = d[i]
  <2>1. i \in Space
    BY DEF Sound, Inodes
  <2>2. None(ws, k, i)
    BY DEF None, Harmless
  <2> QED BY <1>2, <2>1, <2>2
<1>4. ASSUME NEW i \in Dirs(d, S) PROVE e[Head0(d, i)] = d[Head0(d, i)]
  <2>1. Head0(d, i) \in Space
    BY HeadOfDir
  <2>2. None(ws, k, Head0(d, i))
    BY DEF None, Harmless
  <2> QED BY <1>2, <2>1, <2>2
<1>5. ASSUME NEW i \in S \ Dirs(d, S), d[i].size # 0 PROVE e[Head0(d, i)].kind = "data"
  <2>1. Head0(d, i) \in Space /\ d[Head0(d, i)].kind = "data"
    BY <1>5, HeadOfFile DEF Sound, Heads
  <2>2. \/ e[Head0(d, i)] = d[Head0(d, i)]
        \/ \E j \in 1..k : ws[j].lba = Head0(d, i) /\ e[Head0(d, i)] = ws[j].value
    BY <1>1, <2>1 DEF DiskAfter
  <2> QED BY <1>5, <2>1, <2>2 DEF Harmless
<1> QED BY <1>3, <1>4, <1>5 DEF Agree

(* What was marked and stays marked in every bitmap written is marked after *)
(* any number of writes.                                                    *)
LEMMA BitsKept ==
  ASSUME NEW d, NEW m, NEW ws, NEW op, NEW k, NEW e, NEW n,
         \A j \in 1..k : j \in 1..Len(ws), k < Len(ws) => k + 1 \in 1..Len(ws),
         DiskAfter(d, ws, op, k, e), BitmapAfter(m, ws, k, n),
         NEW A, A \subseteq m, A \subseteq d[1].set,
         \A j \in 1..Len(ws) : ws[j].lba = 1 => A \subseteq ws[j].value.set
  PROVE  A \subseteq n /\ A \subseteq e[1].set
<1>1. \A j \in 1..k : j \in 1..Len(ws)
  OBVIOUS
<1>2. k < Len(ws) => k + 1 \in 1..Len(ws)
  OBVIOUS
<1>3. A \subseteq n
  BY <1>1, <1>2 DEF BitmapAfter, Latest
<1>4. e[1] = d[1] \/ \E j \in 1..k : ws[j].lba = 1 /\ e[1] = ws[j].value
  BY Sizes DEF DiskAfter
<1> QED BY <1>1, <1>3, <1>4

(* Writes of which all but the last are harmless, and mark nothing free     *)
(* that is in use if the call may end there, are a plan if the last one     *)
(* leaves a marked tree.                                                    *)
LEMMA LastPlan ==
  ASSUME NEW d, NEW m, NEW S, Sound(d, S), Marked(d, m, S), NEW op,
         NEW ws, Len(ws) \in Nat,
         \A j \in 1..(Len(ws) - 1) : Harmless(d, ws[j], S),
         op \in Faulty => \A j \in 1..Len(ws) : ws[j].lba = 1 => Taken(d, S) \subseteq ws[j].value.set,
         \A e, n : DiskAfter(d, ws, op, Len(ws), e) /\ BitmapAfter(m, ws, Len(ws), n)
                     => \E T : Sound(e, T) /\ Marked(e, n, T)
  PROVE  Planned(d, m, ws, op)
<1> SUFFICES ASSUME NEW k \in 0..Len(ws), NEW e, NEW n,
                    DiskAfter(d, ws, op, k, e), BitmapAfter(m, ws, k, n)
             PROVE  \E T : Sound(e, T) /\ (Firm(ws, op, k) => Marked(e, n, T))
  BY DEF Planned
<1>1. CASE k = Len(ws)
  BY <1>1
<1>2. CASE k # Len(ws)
  <2>1. k \in Nat /\ k <= Len(ws) /\ \A j \in 1..k : j \in 1..(Len(ws) - 1)
    BY <1>2
  <2>2. Agree(d, e, S)
    BY <2>1, HarmlessAgree
  <2>3. Sound(e, S) /\ Taken(e, S) = Taken(d, S)
    BY <2>2, AgreeSound
  <2>4. ASSUME op \in Faulty PROVE Taken(d, S) \subseteq n /\ Taken(d, S) \subseteq e[1].set
    <3> DEFINE A == Taken(d, S)
    <3>1. /\ A \subseteq m /\ A \subseteq d[1].set
          /\ \A j \in 1..Len(ws) : ws[j].lba = 1 => A \subseteq ws[j].value.set
      BY <2>4 DEF Marked
    <3> HIDE DEF A
    <3>2. (\A j \in 1..k : j \in 1..Len(ws)) /\ (k < Len(ws) => k + 1 \in 1..Len(ws))
      BY <2>1
    <3>3. A \subseteq n /\ A \subseteq e[1].set
      BY <3>1, <3>2, BitsKept
    <3> QED BY <3>3 DEF A
  <2> QED BY <1>2, <2>3, <2>4 DEF Marked, Firm
<1> QED BY <1>1, <1>2

(* Harmless writes that mark nothing free that is in use are a plan.        *)
LEMMA HarmlessPlan ==
  ASSUME NEW d, NEW m, NEW S, Sound(d, S), Marked(d, m, S), NEW op,
         NEW ws, Len(ws) \in Nat,
         \A j \in 1..Len(ws) : Harmless(d, ws[j], S),
         \A j \in 1..Len(ws) : ws[j].lba = 1 => Taken(d, S) \subseteq ws[j].value.set
  PROVE  Planned(d, m, ws, op)
<1>1. ASSUME NEW e, NEW n, DiskAfter(d, ws, op, Len(ws), e), BitmapAfter(m, ws, Len(ws), n)
      PROVE  \E T : Sound(e, T) /\ Marked(e, n, T)
  <2>1. Agree(d, e, S)
    BY <1>1, HarmlessAgree
  <2>2. Sound(e, S) /\ Taken(e, S) = Taken(d, S)
    BY <2>1, AgreeSound
  <2>3. Taken(d, S) \subseteq n /\ Taken(d, S) \subseteq e[1].set
    <3> DEFINE A == Taken(d, S)
               l == Len(ws)
    <3>1. /\ A \subseteq m /\ A \subseteq d[1].set /\ l \in Nat /\ l <= l
          /\ \A j \in 1..Len(ws) : ws[j].lba = 1 => A \subseteq ws[j].value.set
          /\ DiskAfter(d, ws, op, l, e) /\ BitmapAfter(m, ws, l, n)
      BY <1>1 DEF Marked
    <3> HIDE DEF A
    <3>2. (\A j \in 1..l : j \in 1..Len(ws)) /\ (l < Len(ws) => l + 1 \in 1..Len(ws))
      BY <3>1
    <3>3. A \subseteq n /\ A \subseteq e[1].set
      BY <3>1, <3>2, BitsKept
    <3> QED BY <3>3 DEF A
  <2> QED BY <2>2, <2>3 DEF Marked
<1>2. \A j \in 1..(Len(ws) - 1) : j \in 1..Len(ws)
  OBVIOUS
<1> QED BY <1>1, <1>2, LastPlan
----------------------------------------------------------------------------
(* Changing the tree. *)

(* The blocks of a sound disk that are taken, and whose they are.           *)
LEMMA TakenAre ==
  ASSUME NEW d, NEW S, Sound(d, S)
  PROVE  /\ \A j \in S : j \in Space /\ j \in Taken(d, S) /\ Owned(d, j) \subseteq Taken(d, S)
         /\ \A j \in S : \A k \in Owns(d, j) : d[j].ptrs[k] \in Owned(d, j) /\ d[j].ptrs[k] \in Space \ S
         /\ \A j \in Dirs(d, S) : j \in S /\ Head0(d, j) \in Owned(d, j) /\ Head0(d, j) \in Space
         /\ \A j \in S \ Dirs(d, S) : d[j].size # 0 => Head0(d, j) \in Owned(d, j) /\ Head0(d, j) \in Space
         /\ \A i, j \in S : \A b : b \in Owned(d, i) /\ b \in Owned(d, j) => i = j
         /\ \A j \in S : Owned(d, j) \subseteq Space \ S
<1>1. \A j \in S : j \in Space /\ j \in Taken(d, S) /\ Owned(d, j) \subseteq Taken(d, S)
  BY DEF Sound, Inodes, Taken
<1>2. \A j \in S : \A k \in Owns(d, j) : d[j].ptrs[k] \in Owned(d, j) /\ d[j].ptrs[k] \in Space \ S
  BY DEF Sound, OwnBlocks, Owned
<1>3. \A j \in Dirs(d, S) : j \in S /\ Head0(d, j) \in Owned(d, j) /\ Head0(d, j) \in Space
  BY HeadOfDir DEF Dirs
<1>4. \A j \in S \ Dirs(d, S) : d[j].size # 0 => Head0(d, j) \in Owned(d, j) /\ Head0(d, j) \in Space
  BY HeadOfFile
<1>5. ASSUME NEW i \in S, NEW j \in S, NEW b, b \in Owned(d, i), b \in Owned(d, j) PROVE i = j
  <2>1. PICK k \in Owns(d, i) : b = d[i].ptrs[k]
    BY <1>5 DEF Owned
  <2>2. PICK l \in Owns(d, j) : b = d[j].ptrs[l]
    BY <1>5 DEF Owned
  <2> QED BY <2>1, <2>2 DEF Sound, OwnBlocks
<1>6. \A j \in S : Owned(d, j) \subseteq Space \ S
  BY <1>2 DEF Owned
<1> QED BY <1>1, <1>2, <1>3, <1>4, <1>5, <1>6

(* An inode that is the same owns the same. *)
LEMMA SameNode ==
  ASSUME NEW d, NEW e, NEW j, e[j] = d[j]
  PROVE  Owns(e, j) = Owns(d, j) /\ Owned(e, j) = Owned(d, j) /\ Head0(e, j) = Head0(d, j)
BY DEF Owns, Owned, Head0

(* Disk e is disk d where the tree is, but for the entries of directory i.  *)
Besides(d, e, S, i) ==
  /\ \A b \in Space : b \in Taken(d, S) /\ b # Head0(d, i) => e[b] = d[b]
  /\ e[Head0(d, i)] \in DirType

(* What such a disk has in common with d: inodes, what they own, the other  *)
(* directories.                                                             *)
LEMMA BesidesSame ==
  ASSUME NEW d, NEW e, NEW S, Sound(d, S), NEW i \in Dirs(d, S), Besides(d, e, S, i)
  PROVE  /\ \A j \in S : /\ e[j] = d[j] /\ Owns(e, j) = Owns(d, j)
                         /\ Owned(e, j) = Owned(d, j) /\ Head0(e, j) = Head0(d, j)
         /\ Dirs(e, S) = Dirs(d, S)
         /\ \A j \in Dirs(d, S) : j # i => \A s \in Slots : At(e, j, s) = At(d, j, s)
         /\ Heads(e, S)
<1>1. ASSUME NEW j \in S PROVE e[j] = d[j]
  BY HeadOfDir, TakenAre DEF Besides
<1>2. ASSUME NEW j \in S
      PROVE  Owns(e, j) = Owns(d, j) /\ Owned(e, j) = Owned(d, j) /\ Head0(e, j) = Head0(d, j)
  BY <1>1, SameNode
<1>3. Dirs(e, S) = Dirs(d, S)
  BY <1>1 DEF Dirs
<1>4. ASSUME NEW j \in Dirs(d, S), j # i PROVE e[Head0(d, j)] = d[Head0(d, j)]
  <2>1. Head0(d, j) # Head0(d, i)
    BY <1>4, TakenAre
  <2>2. Head0(d, j) \in Space /\ Head0(d, j) \in Taken(d, S)
    BY TakenAre
  <2> QED BY <2>1, <2>2 DEF Besides
<1>5. \A j \in Dirs(d, S) : j # i => \A s \in Slots : At(e, j, s) = At(d, j, s)
  BY <1>2, <1>4, TakenAre DEF At
<1>6. ASSUME NEW j \in Dirs(e, S) PROVE e[j].size = BlockSize /\ e[Head0(e, j)] \in DirType
  <2>1. j \in S /\ j \in Dirs(d, S) /\ d[j].size = BlockSize /\ d[Head0(d, j)] \in DirType
    BY <1>3, TakenAre DEF Sound, Heads
  <2>2. e[j] = d[j] /\ Head0(e, j) = Head0(d, j)
    BY <1>1, <1>2, <2>1
  <2> QED BY <1>4, <2>1, <2>2 DEF Besides
<1>7. ASSUME NEW j \in S \ Dirs(e, S)
      PROVE  IF e[j].size = 0 THEN Head0(e, j) = 0 ELSE e[Head0(e, j)].kind = "data"
  <2>1. e[j] = d[j] /\ Head0(e, j) = Head0(d, j) /\ j \in S \ Dirs(d, S)
    BY <1>1, <1>2, <1>3
  <2>2. CASE d[j].size = 0
    BY <2>1, <2>2 DEF Sound, Heads
  <2>3. CASE d[j].size # 0
    <3>1. Head0(d, j) \in Space /\ Head0(d, j) \in Owned(d, j) /\ Head0(d, j) \in Taken(d, S)
      BY <2>1, <2>3, TakenAre
    <3>2. Head0(d, j) # Head0(d, i)
      BY <2>1, <3>1, TakenAre
    <3>3. e[Head0(d, j)] = d[Head0(d, j)]
      BY <3>1, <3>2 DEF Besides
    <3> QED BY <2>1, <2>3, <3>3 DEF Sound, Heads
  <2> QED BY <2>2, <2>3
<1>8. Heads(e, S)
  BY <1>6, <1>7 DEF Heads
<1> QED BY <1>1, <1>2, <1>3, <1>5, <1>8

(* Directory i keeps its block.                                             *)
LEMMA HeadStays ==
  ASSUME NEW d, NEW e, NEW S, Sound(d, S), NEW i \in Dirs(d, S), Besides(d, e, S, i)
  PROVE  Head0(e, i) = Head0(d, i)
<1>1. \A j \in S : /\ e[j] = d[j] /\ Owns(e, j) = Owns(d, j)
                   /\ Owned(e, j) = Owned(d, j) /\ Head0(e, j) = Head0(d, j)
  BY BesidesSame
<1>2. i \in S
  BY DEF Dirs
<1> QED BY <1>1, <1>2

(* Entries of a directory may be renamed and removed. *)
LEMMA DirChanged ==
  ASSUME NEW d, NEW e, NEW S, Sound(d, S), NEW i \in Dirs(d, S), Besides(d, e, S, i),
         \A s \in Slots : At(e, i, s) # NULL
                            => At(d, i, s) # NULL /\ At(e, i, s).inode = At(d, i, s).inode
  PROVE  Sound(e, S) /\ Taken(e, S) = Taken(d, S)
<1>1. /\ \A j \in S : /\ e[j] = d[j] /\ Owns(e, j) = Owns(d, j)
                      /\ Owned(e, j) = Owned(d, j) /\ Head0(e, j) = Head0(d, j)
      /\ Dirs(e, S) = Dirs(d, S)
      /\ \A j \in Dirs(d, S) : j # i => \A s \in Slots : At(e, j, s) = At(d, j, s)
      /\ Heads(e, S)
  BY BesidesSame
<1>2. Inodes(e, S)
  BY <1>1 DEF Sound, Inodes
<1>3. OwnBlocks(e, S)
  <2>1. ASSUME NEW j \in S, NEW k \in Owns(e, j) PROVE e[j].ptrs[k] \in Space \ S
    BY <1>1 DEF Sound, OwnBlocks
  <2>2. ASSUME NEW j \in S, NEW l \in S, NEW k \in Owns(e, j), NEW q \in Owns(e, l),
               e[j].ptrs[k] = e[l].ptrs[q]
        PROVE  j = l /\ k = q
    <3>1. k \in Owns(d, j) /\ q \in Owns(d, l) /\ d[j].ptrs[k] = d[l].ptrs[q]
      BY <1>1, <2>2
    <3> QED BY <3>1 DEF Sound, OwnBlocks
  <2> QED BY <2>1, <2>2 DEF OwnBlocks
<1>4. ASSUME NEW j \in Dirs(e, S), NEW s \in Slots, At(e, j, s) # NULL
      PROVE  j \in Dirs(d, S) /\ At(d, j, s) # NULL /\ At(e, j, s).inode = At(d, j, s).inode
  BY <1>1, <1>4
<1>5. Linked(e, S)
  <2>1. ASSUME NEW j \in Dirs(e, S), NEW s \in Slots, At(e, j, s) # NULL
        PROVE  At(e, j, s).inode \in S \ {Root}
    BY <1>4, <2>1 DEF Sound, Linked
  <2>2. ASSUME NEW j \in Dirs(e, S), NEW l \in Dirs(e, S), NEW s \in Slots, NEW t \in Slots,
               At(e, j, s) # NULL, At(e, l, t) # NULL, At(e, j, s).inode = At(e, l, t).inode
        PROVE  j = l /\ s = t
    <3>1. /\ j \in Dirs(d, S) /\ l \in Dirs(d, S)
          /\ At(d, j, s) # NULL /\ At(d, l, t) # NULL /\ At(d, j, s).inode = At(d, l, t).inode
      BY <1>4, <2>2
    <3> QED BY <3>1 DEF Sound, Linked
  <2> QED BY <2>1, <2>2 DEF Linked
<1>6. Taken(e, S) = Taken(d, S)
  <2>1. {Owned(e, j) : j \in S} = {Owned(d, j) : j \in S}
    BY <1>1
  <2> QED BY <2>1 DEF Taken
<1> QED BY <1>1, <1>2, <1>3, <1>5, <1>6 DEF Sound

(* An inode no entry leads to may be given up, with what it owns.           *)
LEMMA Smaller ==
  ASSUME NEW e, NEW S, Sound(e, S), NEW v \in S \ {Root},
         \A j \in Dirs(e, S), s \in Slots : At(e, j, s) # NULL => At(e, j, s).inode # v
  PROVE  /\ Sound(e, S \ {v})
         /\ Taken(e, S \ {v}) \subseteq Taken(e, S)
         /\ v \notin Taken(e, S \ {v}) /\ \A b \in Owned(e, v) : b \notin Taken(e, S \ {v})
<1> DEFINE T == S \ {v}
<1>0. T \subseteq S /\ v \notin T /\ \A j \in S : j # v => j \in T
  OBVIOUS
<1>1. \A j : j \in Dirs(e, T) => j \in Dirs(e, S)
  BY DEF Dirs
<1>2. \A j : j \in T \ Dirs(e, T) => j \in S \ Dirs(e, S)
  BY DEF Dirs
<1> HIDE DEF T
<1>3. Inodes(e, T)
  BY <1>0 DEF Sound, Inodes
<1>4. OwnBlocks(e, T)
  <2>1. ASSUME NEW j \in T, NEW k \in Owns(e, j) PROVE e[j].ptrs[k] \in Space \ T
    BY <1>0 DEF Sound, OwnBlocks
  <2>2. ASSUME NEW i \in T, NEW j \in T, NEW k \in Owns(e, i), NEW l \in Owns(e, j),
               e[i].ptrs[k] = e[j].ptrs[l]
        PROVE  i = j /\ k = l
    BY <1>0, <2>2 DEF Sound, OwnBlocks
  <2> QED BY <2>1, <2>2 DEF OwnBlocks
<1>5. Heads(e, T)
  BY <1>1, <1>2 DEF Sound, Heads
<1>6. Linked(e, T)
  <2>1. ASSUME NEW j \in Dirs(e, T), NEW s \in Slots, At(e, j, s) # NULL
        PROVE  At(e, j, s).inode \in T \ {Root}
    <3>1. j \in Dirs(e, S)
      BY <1>1
    <3>2. At(e, j, s).inode \in S \ {Root} /\ At(e, j, s).inode # v
      BY <2>1, <3>1 DEF Sound, Linked
    <3> QED BY <1>0, <3>2
  <2>2. ASSUME NEW i \in Dirs(e, T), NEW j \in Dirs(e, T), NEW s \in Slots, NEW t \in Slots,
               At(e, i, s) # NULL, At(e, j, t) # NULL, At(e, i, s).inode = At(e, j, t).inode
        PROVE  i = j /\ s = t
    <3>1. i \in Dirs(e, S) /\ j \in Dirs(e, S)
      BY <1>1
    <3> QED BY <2>2, <3>1 DEF Sound, Linked
  <2> QED BY <2>1, <2>2 DEF Linked
<1>7. \A j \in T : j \in S /\ j # v /\ Owned(e, j) \subseteq Taken(e, S) /\ j \in Taken(e, S)
  BY <1>0, TakenAre
<1>8. ASSUME NEW b \in Taken(e, T) PROVE b = 0 \/ b = 1 \/ b \in T \/ \E j \in T : b \in Owned(e, j)
  BY DEF Taken
<1>9. Taken(e, T) \subseteq Taken(e, S)
  <2>1. 0 \in Taken(e, S) /\ 1 \in Taken(e, S)
    BY DEF Taken
  <2> QED BY <1>7, <1>8, <2>1
<1>10. v \notin Taken(e, T)
  <2>1. v \in Space /\ v # 0 /\ v # 1
    BY TakenAre, Sizes
  <2>2. \A j \in T : v \notin Owned(e, j)
    BY <1>7, TakenAre
  <2> QED BY <1>0, <1>8, <2>1, <2>2
<1>11. ASSUME NEW b \in Owned(e, v) PROVE b \notin Taken(e, T)
  <2>1. b \in Space \ S
    BY TakenAre
  <2>2. b # 0 /\ b # 1 /\ b \notin T
    BY <1>0, <2>1, Sizes
  <2>3. \A j \in T : b \notin Owned(e, j)
    BY <1>7, TakenAre
  <2> QED BY <1>8, <2>2, <2>3
<1> QED BY <1>0, <1>3, <1>4, <1>5, <1>6, <1>9, <1>10, <1>11 DEF Sound, T

(* A new node at v: an empty file, or a directory with no entries.          *)
Fresh(e, v) ==
  /\ e[v] \in InodeType
  /\ e[v].type = "dir" => /\ e[v].size = BlockSize /\ e[Head0(e, v)] \in DirType
                          /\ \A s \in Slots : At(e, v, s) = NULL
  /\ e[v].type # "dir" => e[v].size = 0 /\ Head0(e, v) = 0

\* It owns blocks that were not taken on disk d.
Apart(d, e, S, v) ==
  /\ \A k \in Owns(e, v) : e[v].ptrs[k] \in Space /\ e[v].ptrs[k] \notin Taken(d, S) \cup {v}
  /\ \A k, l \in Owns(e, v) : e[v].ptrs[k] = e[v].ptrs[l] => k = l

\* Entry s of directory i, that was free, leads to it, and the others stay.
Enters(d, e, i, s, v) == /\ At(d, i, s) = NULL /\ At(e, i, s).inode = v
                         /\ \A t \in Slots : t # s => At(e, i, t) = At(d, i, t)

(* Blocks that are not taken become an inode with what it owns, and one     *)
(* entry of directory i leads to it.                                        *)
LEMMA NodeAdded ==
  ASSUME NEW d, NEW e, NEW S, Sound(d, S), NEW i \in Dirs(d, S), Besides(d, e, S, i),
         NEW v \in Space, v \notin Taken(d, S), Fresh(e, v), Apart(d, e, S, v),
         NEW s \in Slots, Enters(d, e, i, s, v)
  PROVE  Sound(e, S \cup {v}) /\ Taken(e, S \cup {v}) \subseteq Taken(d, S) \cup {v} \cup Owned(e, v)
<1> DEFINE T == S \cup {v}
<1>a. /\ \A k \in Owns(e, v) : e[v].ptrs[k] \in Space /\ e[v].ptrs[k] \notin Taken(d, S) \cup {v}
      /\ \A k, l \in Owns(e, v) : e[v].ptrs[k] = e[v].ptrs[l] => k = l
  BY DEF Apart
<1>e. /\ At(d, i, s) = NULL /\ At(e, i, s).inode = v
      /\ \A t \in Slots : t # s => At(e, i, t) = At(d, i, t)
  BY DEF Enters
<1>0. S \subseteq T /\ v \in T /\ \A j \in T : j \in S \/ j = v
  OBVIOUS
<1>1. /\ \A j \in S : /\ e[j] = d[j] /\ Owns(e, j) = Owns(d, j)
                      /\ Owned(e, j) = Owned(d, j) /\ Head0(e, j) = Head0(d, j)
      /\ Dirs(e, S) = Dirs(d, S)
      /\ \A j \in Dirs(d, S) : j # i => \A q \in Slots : At(e, j, q) = At(d, j, q)
      /\ Heads(e, S)
  BY BesidesSame
<1>2. v \notin S
  BY TakenAre
<1>3. \A j \in T : j \in Dirs(e, T) <=> j \in Dirs(d, S) \/ (j = v /\ e[v].type = "dir")
  BY <1>1, <1>2 DEF Dirs
<1>d. \A j : j \in Dirs(e, T) => j \in T
  BY DEF Dirs
<1> HIDE DEF T
<1>4. Inodes(e, T)
  BY <1>0, <1>1 DEF Sound, Inodes, Fresh
<1>5. OwnBlocks(e, T)
  <2>1. ASSUME NEW j \in S, NEW k \in Owns(e, j)
        PROVE  e[j].ptrs[k] \in Space \ S /\ e[j].ptrs[k] \in Taken(d, S) /\ e[j].ptrs[k] = d[j].ptrs[k]
    <3>1. k \in Owns(d, j) /\ e[j].ptrs[k] = d[j].ptrs[k]
      BY <1>1
    <3> QED BY <3>1, TakenAre
  <2>2. ASSUME NEW j \in T, NEW k \in Owns(e, j) PROVE e[j].ptrs[k] \in Space \ T
    <3>1. CASE j \in S
      BY <1>0, <2>1, <3>1
    <3>2. CASE j = v
      BY <1>a, <1>0, <3>2, TakenAre
    <3> QED BY <1>0, <3>1, <3>2
  <2>3. ASSUME NEW j \in T, NEW l \in T, NEW k \in Owns(e, j), NEW q \in Owns(e, l),
               e[j].ptrs[k] = e[l].ptrs[q]
        PROVE  j = l /\ k = q
    <3>1. CASE j \in S /\ l \in S
      <4>1. k \in Owns(d, j) /\ q \in Owns(d, l) /\ d[j].ptrs[k] = d[l].ptrs[q]
        BY <1>1, <2>3, <3>1
      <4> QED BY <3>1, <4>1 DEF Sound, OwnBlocks
    <3>2. CASE j \in S /\ l = v
      BY <1>a, <2>1, <2>3, <3>2
    <3>3. CASE j = v /\ l \in S
      BY <1>a, <2>1, <2>3, <3>3
    <3>4. CASE j = v /\ l = v
      BY <1>a, <2>3, <3>4
    <3> QED BY <1>0, <3>1, <3>2, <3>3, <3>4
  <2> QED BY <2>2, <2>3 DEF OwnBlocks
<1>6. Heads(e, T)
  <2>1. ASSUME NEW j \in Dirs(e, T) PROVE e[j].size = BlockSize /\ e[Head0(e, j)] \in DirType
    BY <1>1, <1>3, <1>d DEF Heads, Fresh
  <2>2. ASSUME NEW j \in T \ Dirs(e, T)
        PROVE  IF e[j].size = 0 THEN Head0(e, j) = 0 ELSE e[Head0(e, j)].kind = "data"
    <3>1. CASE j \in S
      BY <1>1, <1>3, <3>1 DEF Heads
    <3>2. CASE j = v
      BY <1>3, <3>2 DEF Fresh
    <3> QED BY <1>0, <3>1, <3>2
  <2> QED BY <2>1, <2>2 DEF Heads
\* An entry of e leads to v, or is one of d.
<1>7. ASSUME NEW j \in Dirs(e, T), NEW q \in Slots, At(e, j, q) # NULL
      PROVE  \/ j = i /\ q = s /\ At(e, j, q).inode = v
             \/ j \in Dirs(d, S) /\ At(d, j, q) # NULL /\ At(e, j, q).inode = At(d, j, q).inode
  <2>1. j \in Dirs(d, S)
    BY <1>3, <1>7, <1>d DEF Fresh
  <2> QED BY <1>e, <1>1, <1>7, <2>1
<1>8. ASSUME NEW j \in Dirs(d, S), NEW q \in Slots, At(d, j, q) # NULL
      PROVE  At(d, j, q).inode \in S \ {Root} /\ At(d, j, q).inode # v
  BY <1>2, <1>8 DEF Sound, Linked
<1>9. Linked(e, T)
  <2>0. v # Root
    BY <1>2 DEF Sound, Inodes
  <2>1. ASSUME NEW j \in Dirs(e, T), NEW q \in Slots, At(e, j, q) # NULL
        PROVE  At(e, j, q).inode \in T \ {Root}
    BY <1>0, <1>7, <1>8, <2>0, <2>1
  <2>2. ASSUME NEW j \in Dirs(e, T), NEW l \in Dirs(e, T), NEW q \in Slots, NEW t \in Slots,
               At(e, j, q) # NULL, At(e, l, t) # NULL, At(e, j, q).inode = At(e, l, t).inode
        PROVE  j = l /\ q = t
    <3>0. ASSUME NEW x \in Dirs(e, T), NEW y \in Slots, At(e, x, y) # NULL, At(e, x, y).inode = v
          PROVE  x = i /\ y = s
      BY <1>7, <1>8, <3>0
    <3>1. CASE At(e, j, q).inode = v
      <4>1. At(e, l, t).inode = v
        BY <2>2, <3>1
      <4> QED BY <2>2, <3>0, <3>1, <4>1
    <3>2. CASE At(e, j, q).inode # v
      <4>1. /\ j \in Dirs(d, S) /\ l \in Dirs(d, S)
            /\ At(d, j, q) # NULL /\ At(d, l, t) # NULL /\ At(d, j, q).inode = At(d, l, t).inode
        BY <1>7, <2>2, <3>2
      <4> QED BY <4>1 DEF Sound, Linked
    <3> QED BY <3>1, <3>2
  <2> QED BY <2>1, <2>2 DEF Linked
<1>10. ASSUME NEW b \in Taken(e, T) PROVE b \in Taken(d, S) \cup {v} \cup Owned(e, v)
  <2>1. b = 0 \/ b = 1 \/ b \in T \/ \E j \in T : b \in Owned(e, j)
    BY DEF Taken
  <2>2. 0 \in Taken(d, S) /\ 1 \in Taken(d, S)
    BY DEF Taken
  <2>3. \A j \in S : j \in Taken(d, S) /\ Owned(e, j) \subseteq Taken(d, S)
    BY <1>1, TakenAre
  <2> QED BY <1>0, <2>1, <2>2, <2>3
<1> QED BY <1>4, <1>5, <1>6, <1>9, <1>10 DEF Sound, T

(* A file gets another size and other pointers.                             *)
LEMMA FileRewritten ==
  ASSUME NEW d, NEW e, NEW S, Sound(d, S), NEW i \in S \ Dirs(d, S),
         \A b \in Space : b \in Taken(d, S) /\ b # i /\ b \notin Owned(d, i) => e[b] = d[b],
         e[i] \in InodeType, e[i].type = "file",
         \A k \in Owns(e, i) : /\ e[i].ptrs[k] \in Space
                               /\ e[i].ptrs[k] \in Owned(d, i) \/ e[i].ptrs[k] \notin Taken(d, S),
         \A k, l \in Owns(e, i) : e[i].ptrs[k] = e[i].ptrs[l] => k = l,
         IF e[i].size = 0 THEN Head0(e, i) = 0 ELSE e[Head0(e, i)].kind = "data"
  PROVE  /\ Sound(e, S)
         /\ \A b \in Taken(e, S) : b \in Owned(e, i) \/ (b \in Taken(d, S) /\ b \notin Owned(d, i))
<1>1. ASSUME NEW j \in S, j # i PROVE e[j] = d[j]
  <2>1. j \in Space /\ j \in Taken(d, S) /\ j \notin Owned(d, i)
    BY TakenAre
  <2> QED BY <1>1, <2>1
<1>2. ASSUME NEW j \in S, j # i
      PROVE  Owns(e, j) = Owns(d, j) /\ Owned(e, j) = Owned(d, j) /\ Head0(e, j) = Head0(d, j)
  BY <1>1, <1>2, SameNode
<1>3. \A j \in S : j \in Dirs(e, S) <=> j \in Dirs(d, S)
  BY <1>1 DEF Dirs
<1>d. \A j : j \in Dirs(e, S) => j \in S
  BY DEF Dirs
<1>4. ASSUME NEW j \in S, j # i, NEW b \in Owned(d, j) PROVE e[b] = d[b]
  <2>1. b \in Space /\ b \in Taken(d, S) /\ b \notin Owned(d, i) /\ b # i
    BY <1>4, TakenAre
  <2> QED BY <2>1
<1>5. Inodes(e, S)
  BY <1>1 DEF Sound, Inodes
<1>6. OwnBlocks(e, S)
  <2>1. ASSUME NEW j \in S, j # i, NEW k \in Owns(e, j)
        PROVE  /\ e[j].ptrs[k] \in Space \ S /\ e[j].ptrs[k] = d[j].ptrs[k] /\ k \in Owns(d, j)
               /\ e[j].ptrs[k] \in Taken(d, S) /\ e[j].ptrs[k] \notin Owned(d, i)
    <3>1. k \in Owns(d, j) /\ e[j].ptrs[k] = d[j].ptrs[k]
      BY <1>1, <1>2, <2>1
    <3>2. d[j].ptrs[k] \in Owned(d, j)
      BY <3>1, TakenAre
    <3> QED BY <2>1, <3>1, <3>2, TakenAre
  <2>2. ASSUME NEW k \in Owns(e, i) PROVE e[i].ptrs[k] \in Space \ S
    BY TakenAre
  <2>3. ASSUME NEW j \in S, NEW l \in S, NEW k \in Owns(e, j), NEW q \in Owns(e, l),
               e[j].ptrs[k] = e[l].ptrs[q]
        PROVE  j = l /\ k = q
    <3>1. CASE j # i /\ l # i
      <4>1. k \in Owns(d, j) /\ q \in Owns(d, l) /\ d[j].ptrs[k] = d[l].ptrs[q]
        BY <2>1, <2>3, <3>1
      <4> QED BY <4>1 DEF Sound, OwnBlocks
    <3>2. CASE j # i /\ l = i
      BY <2>1, <2>3, <3>2
    <3>3. CASE j = i /\ l # i
      BY <2>1, <2>3, <3>3
    <3>4. CASE j = i /\ l = i
      BY <2>3, <3>4
    <3> QED BY <3>1, <3>2, <3>3, <3>4
  <2>4. \A j \in S : \A k \in Owns(e, j) : e[j].ptrs[k] \in Space \ S
    BY <2>1, <2>2
  <2> QED BY <2>3, <2>4 DEF OwnBlocks
<1>7. Heads(e, S)
  <2>1. ASSUME NEW j \in Dirs(e, S) PROVE e[j].size = BlockSize /\ e[Head0(e, j)] \in DirType
    <3>1. j \in S /\ j \in Dirs(d, S) /\ j # i
      BY <1>3, <1>d
    <3>2. e[j] = d[j] /\ Head0(e, j) = Head0(d, j) /\ e[Head0(d, j)] = d[Head0(d, j)]
      BY <1>1, <1>2, <1>4, <3>1, TakenAre
    <3> QED BY <3>1, <3>2 DEF Sound, Heads
  <2>2. ASSUME NEW j \in S \ Dirs(e, S), j # i
        PROVE  IF e[j].size = 0 THEN Head0(e, j) = 0 ELSE e[Head0(e, j)].kind = "data"
    <3>1. j \in S \ Dirs(d, S) /\ e[j] = d[j] /\ Head0(e, j) = Head0(d, j)
      BY <1>1, <1>2, <1>3, <2>2
    <3>2. CASE d[j].size = 0
      BY <3>1, <3>2 DEF Sound, Heads
    <3>3. CASE d[j].size # 0
      <4>1. e[Head0(d, j)] = d[Head0(d, j)]
        BY <1>4, <2>2, <3>1, <3>3, TakenAre
      <4> QED BY <3>1, <3>3, <4>1 DEF Sound, Heads
    <3> QED BY <3>2, <3>3
  <2> QED BY <2>1, <2>2 DEF Heads
<1>8. ASSUME NEW j \in Dirs(e, S), NEW s \in Slots PROVE At(e, j, s) = At(d, j, s) /\ j \in Dirs(d, S)
  <2>1. j \in S /\ j \in Dirs(d, S) /\ j # i
    BY <1>3, <1>d
  <2> QED BY <1>2, <1>4, <2>1, TakenAre DEF At
<1>9. Linked(e, S)
  <2>1. ASSUME NEW j \in Dirs(e, S), NEW s \in Slots, At(e, j, s) # NULL
        PROVE  At(e, j, s).inode \in S \ {Root}
    BY <1>8, <2>1 DEF Sound, Linked
  <2>2. ASSUME NEW j \in Dirs(e, S), NEW l \in Dirs(e, S), NEW s \in Slots, NEW t \in Slots,
               At(e, j, s) # NULL, At(e, l, t) # NULL, At(e, j, s).inode = At(e, l, t).inode
        PROVE  j = l /\ s = t
    <3>1. /\ j \in Dirs(d, S) /\ l \in Dirs(d, S)
          /\ At(d, j, s) # NULL /\ At(d, l, t) # NULL /\ At(d, j, s).inode = At(d, l, t).inode
      BY <1>8, <2>2
    <3> QED BY <3>1 DEF Sound, Linked
  <2> QED BY <2>1, <2>2 DEF Linked
<1>10. ASSUME NEW b \in Taken(e, S), b \notin Owned(e, i) PROVE b \in Taken(d, S) /\ b \notin Owned(d, i)
  <2>1. b = 0 \/ b = 1 \/ b \in S \/ \E j \in S \ {i} : b \in Owned(d, j)
    BY <1>2, <1>10 DEF Taken
  <2>2. 0 \in Taken(d, S) /\ 1 \in Taken(d, S) /\ Owned(d, i) \subseteq Space \ S /\ 0 \notin Space /\ 1 \notin Space
    BY TakenAre, Sizes DEF Taken
  <2> QED BY <2>1, <2>2, TakenAre
<1> QED BY <1>5, <1>6, <1>7, <1>9, <1>10 DEF Sound
----------------------------------------------------------------------------
(* Plans that change the tree. *)

\* The writes ws begin with c bitmaps and have no other.
Leads(ws, c) == /\ Len(ws) \in Nat /\ c \in 0..Len(ws)
                /\ \A j \in 1..Len(ws) : ws[j].lba = 1 <=> j <= c

(* What the bitmap in memory is after such writes.                          *)
LEMMA LastBitmap ==
  ASSUME NEW m, NEW ws, NEW c, Leads(ws, c), NEW n, BitmapAfter(m, ws, Len(ws), n)
  PROVE  /\ c = 0 => n = m
         /\ c # 0 => n = ws[c].value.set
<1>1. Len(ws) \in Nat /\ c \in 0..Len(ws) /\ \A j \in 1..Len(ws) : ws[j].lba = 1 <=> j <= c
  BY DEF Leads
<1>2. \/ n = m /\ None(ws, Len(ws), 1)
      \/ \E j \in 1..Len(ws) : Latest(ws, Len(ws), 1, j) /\ n = ws[j].value.set
  BY <1>1 DEF BitmapAfter
<1>3. CASE c = 0
  BY <1>1, <1>2, <1>3 DEF Latest
<1>4. CASE c # 0
  <2>1. c \in 1..Len(ws) /\ ws[c].lba = 1
    BY <1>1, <1>4
  <2>2. ~None(ws, Len(ws), 1)
    BY <2>1 DEF None
  <2>3. ASSUME NEW j \in 1..Len(ws), Latest(ws, Len(ws), 1, j) PROVE j = c
    <3>1. j <= c
      BY <1>1, <2>3 DEF Latest
    <3>2. j < c => c \in (j + 1)..Len(ws)
      BY <2>1
    <3> QED BY <2>1, <2>3, <3>1, <3>2 DEF Latest
  <2> QED BY <1>2, <1>4, <2>2, <2>3
<1> QED BY <1>3, <1>4

(* What it is on the disk too, in a call that frees nothing.                *)
LEMMA LastBits ==
  ASSUME NEW d, NEW m, NEW ws, NEW op, op \notin Freeing, NEW c, Leads(ws, c),
         NEW e, NEW n, DiskAfter(d, ws, op, Len(ws), e), BitmapAfter(m, ws, Len(ws), n)
  PROVE  /\ c = 0 => n = m /\ e[1] = d[1]
         /\ c # 0 => n = ws[c].value.set /\ e[1] = ws[c].value
<1>0. Len(ws) \in Nat /\ c \in 0..Len(ws) /\ \A j \in 1..Len(ws) : ws[j].lba = 1 <=> j <= c
  BY DEF Leads
<1>1. 1 \in 1..(DiskSize - 1) /\ ~(Len(ws) < Len(ws))
  BY <1>0, Sizes
<1>2. /\ None(ws, Len(ws), 1) => e[1] = d[1]
      /\ \A j \in 1..Len(ws) : Latest(ws, Len(ws), 1, j) => e[1] = ws[j].value
  BY <1>1, BlockAfter
<1>3. (c = 0 => n = m) /\ (c # 0 => n = ws[c].value.set)
  BY LastBitmap
<1>4. CASE c = 0
  <2>1. None(ws, Len(ws), 1)
    BY <1>0, <1>4 DEF None
  <2> QED BY <1>2, <1>3, <1>4, <2>1
<1>5. CASE c # 0
  <2>1. c \in 1..Len(ws) /\ ws[c].lba = 1
    BY <1>0, <1>5
  <2>2. Latest(ws, Len(ws), 1, c)
    BY <1>0, <2>1 DEF Latest
  <2> QED BY <1>2, <1>3, <1>5, <2>1, <2>2
<1> QED BY <1>4, <1>5

\* The writes ws drop entry s of directory i and then clear the bits of node v.
Removes(d, m, S, i, s, v, ws) ==
  /\ ws[1].lba = Head0(d, i) /\ ws[1].value \in DirType /\ ws[1].value.entries[s] = NULL
  /\ \A t \in Slots : t # s => ws[1].value.entries[t] = At(d, i, t)
  /\ \A j \in 2..Len(ws) : /\ ws[j].lba = 1
                           /\ \A b \in Taken(d, S) : b \in ws[j].value.set \/ b = v \/ b \in Owned(d, v)
  /\ Len(ws) \in 2..Len(ws) /\ ws[Len(ws)].value.set \subseteq m \ ({v} \cup Owned(d, v))

(* fs_unlink and fs_rmdir: the entry goes first, so whatever bits are       *)
(* cleared after it, and whichever of those writes fail, are of no use.     *)
LEMMA RemovalPlan ==
  ASSUME NEW d, NEW m, NEW S, Sound(d, S), Marked(d, m, S), NEW op,
         NEW i \in Dirs(d, S), NEW s \in Slots, At(d, i, s) # NULL,
         NEW v, At(d, i, s).inode = v,
         NEW ws, Len(ws) \in Nat \ {0}, Removes(d, m, S, i, s, v, ws),
         v \in Dirs(d, S) => \A t \in Slots : At(d, v, t) = NULL
  PROVE  Planned(d, m, ws, op) /\ (Exact(d, m, S) => Settles(d, m, ws, op))
<1>r. /\ ws[1].lba = Head0(d, i) /\ ws[1].value \in DirType /\ ws[1].value.entries[s] = NULL
      /\ \A t \in Slots : t # s => ws[1].value.entries[t] = At(d, i, t)
      /\ \A j \in 2..Len(ws) : /\ ws[j].lba = 1
                               /\ \A b \in Taken(d, S) : b \in ws[j].value.set \/ b = v \/ b \in Owned(d, v)
      /\ Len(ws) \in 2..Len(ws) /\ ws[Len(ws)].value.set \subseteq m \ ({v} \cup Owned(d, v))
  BY DEF Removes
<1> SUFFICES ASSUME NEW k \in 0..Len(ws), NEW e, NEW n,
                    DiskAfter(d, ws, op, k, e), BitmapAfter(m, ws, k, n)
             PROVE  \E T : /\ Sound(e, T) /\ Marked(e, n, T)
                           /\ k = Len(ws) /\ Exact(d, m, S) => Exact(e, n, T)
  <2>1. Len(ws) \in 0..Len(ws)
    OBVIOUS
  <2>2. ASSUME NEW k \in 0..Len(ws), NEW e, NEW n, DiskAfter(d, ws, op, k, e), BitmapAfter(m, ws, k, n)
        PROVE  \E T : Sound(e, T) /\ (Firm(ws, op, k) => Marked(e, n, T))
    BY <2>2
  <2>3. ASSUME NEW e, NEW n, DiskAfter(d, ws, op, Len(ws), e), BitmapAfter(m, ws, Len(ws), n), Exact(d, m, S)
        PROVE  Snug(e, n)
    BY <2>1, <2>3 DEF Snug
  <2> QED BY <2>2, <2>3 DEF Planned, Settles
<1>h. Head0(d, i) \in Space /\ Head0(d, i) # 1 /\ Head0(d, i) \in 1..(DiskSize - 1)
  BY HeadOfDir, Sizes
<1>1. CASE k = 0
  <2>1. 1..k = {} /\ k + 1 = 1
    BY <1>1
  <2>2. \A b \in 1..(DiskSize - 1) : e[b] = d[b]
    BY <2>1 DEF DiskAfter
  <2>3. n = m
    BY <1>r, <1>h, <2>1 DEF BitmapAfter
  <2>4. Sound(e, S) /\ Taken(e, S) = Taken(d, S)
    <3>1. Agree(d, e, S)
      BY <2>2, SameAgree, Sizes
    <3> QED BY <3>1, AgreeSound
  <2>5. k # Len(ws)
    BY <1>1
  <2> QED BY <2>2, <2>3, <2>4, <2>5, Sizes DEF Marked
<1>2. CASE k # 0
  <2>1. k \in Nat /\ 1 \in 1..k /\ \A j \in 1..k : j \in 1..Len(ws) /\ (j = 1 \/ j \in 2..Len(ws))
    BY <1>2
  <2>2. e[Head0(d, i)] = ws[1].value
    <3>1. Latest(ws, k, Head0(d, i), 1)
      BY <1>r, <1>h, <2>1 DEF Latest
    <3> QED BY <1>h, <2>1, <3>1, BlockAfter
  <2>3. ASSUME NEW b \in Space, b # Head0(d, i) PROVE e[b] = d[b]
    <3>1. None(ws, k, b)
      BY <1>r, <2>1, <2>3, Sizes DEF None
    <3>2. b \in 1..(DiskSize - 1) /\ b # 1
      BY Sizes
    <3> QED BY <3>1, <3>2, BlockAfter
  <2>4. Besides(d, e, S, i)
    BY <1>r, <2>2, <2>3 DEF Besides
  <2>s. /\ \A j \in S : /\ e[j] = d[j] /\ Owns(e, j) = Owns(d, j)
                        /\ Owned(e, j) = Owned(d, j) /\ Head0(e, j) = Head0(d, j)
        /\ Dirs(e, S) = Dirs(d, S)
        /\ \A j \in Dirs(d, S) : j # i => \A t \in Slots : At(e, j, t) = At(d, j, t)
        /\ Heads(e, S)
    BY <2>4, BesidesSame
  <2>5. /\ Head0(e, i) = Head0(d, i) /\ Dirs(e, S) = Dirs(d, S)
        /\ \A j \in S : Owned(e, j) = Owned(d, j)
    BY <2>s, TakenAre
  <2>6. \A t \in Slots : At(e, i, t) = IF t = s THEN NULL ELSE At(d, i, t)
    BY <1>r, <2>2, <2>5 DEF At
  <2>7. Sound(e, S) /\ Taken(e, S) = Taken(d, S)
    BY <2>4, <2>6, DirChanged
  <2>8. v \in S \ {Root}
    BY DEF Sound, Linked
  <2>9. ASSUME NEW j \in Dirs(e, S), NEW t \in Slots, At(e, j, t) # NULL, At(e, j, t).inode = v PROVE FALSE
    <3>1. At(e, j, t) = At(d, j, t) /\ j \in Dirs(d, S)
      BY <2>4, <2>5, <2>6, <2>9, BesidesSame
    <3>2. j = i /\ t = s
      BY <2>9, <3>1 DEF Sound, Linked
    <3> QED BY <2>6, <2>9, <3>2
  <2> DEFINE T == S \ {v}
             A == Taken(e, T)
  <2>10. Sound(e, T) /\ A \subseteq Taken(d, S) /\ v \notin A /\ \A b \in Owned(d, v) : b \notin A
    <3>2. \A j \in Dirs(e, S), t \in Slots : At(e, j, t) # NULL => At(e, j, t).inode # v
      BY <2>9
    <3>3. /\ Sound(e, S \ {v}) /\ Taken(e, S \ {v}) \subseteq Taken(e, S) /\ v \notin Taken(e, S \ {v})
          /\ \A b \in Owned(e, v) : b \notin Taken(e, S \ {v})
      <4>1. Sound(e, S)
        BY <2>7
      <4> QED BY <2>8, <3>2, <4>1, Smaller
    <3>4. Owned(e, v) = Owned(d, v)
      BY <2>5, <2>8
    <3> QED BY <2>7, <3>3, <3>4
  <2>14. ASSUME k = Len(ws), Exact(d, m, S) PROVE Exact(e, n, T)
    <3>1. Rooted(e, S \ {v})
      <4>1. \A j \in Dirs(d, S), t \in Slots :
              At(d, j, t) # NULL => At(e, j, t) = At(d, j, t) \/ At(d, j, t).inode = v
        BY <2>s, <2>6
      <4> QED BY <2>8, <2>14, <2>s, <4>1, RootedRemoved DEF Exact
    <3>2. n = ws[k].value.set
      <4>1. Latest(ws, k, 1, k) /\ k \in 1..k
        BY <1>r, <2>1, <2>14 DEF Latest
      <4>2. \A j \in 1..k : j # k => k \in (j + 1)..k
        BY <2>1
      <4>3. \A j \in 1..k : Latest(ws, k, 1, j) => j = k
        BY <2>14, <4>1, <4>2 DEF Latest
      <4>4. ~None(ws, k, 1) /\ ~(k < Len(ws))
        BY <2>14, <4>1 DEF None, Latest
      <4> QED BY <4>3, <4>4 DEF BitmapAfter
    <3>3. n \subseteq m \ ({v} \cup Owned(d, v))
      BY <1>r, <2>14, <3>2
    <3>4. ASSUME NEW b \in n PROVE b \in Taken(e, T)
      <4>1. b \in Taken(d, S) /\ b # v /\ b \notin Owned(d, v)
        BY <2>14, <3>3 DEF Exact
      <4>2. b = 0 \/ b = 1 \/ b \in T \/ \E j \in T : b \in Owned(d, j)
        BY <4>1 DEF Taken
      <4>3. \A j \in T : Owned(e, j) = Owned(d, j)
        BY <2>5
      <4> QED BY <4>2, <4>3 DEF Taken
    <3> QED BY <3>1, <3>4 DEF Exact
  <2> HIDE DEF T
  <2>11. /\ A \subseteq m /\ A \subseteq d[1].set
         /\ \A j \in 1..Len(ws) : ws[j].lba = 1 => A \subseteq ws[j].value.set
    <3>1. \A j \in 1..Len(ws) : ws[j].lba = 1 => j \in 2..Len(ws)
      BY <1>r, <1>h
    <3> QED BY <1>r, <2>10, <3>1 DEF Marked
  <2> HIDE DEF A
  <2>12. (\A j \in 1..k : j \in 1..Len(ws)) /\ (k < Len(ws) => k + 1 \in 1..Len(ws))
    OBVIOUS
  <2>13. A \subseteq n /\ A \subseteq e[1].set
    BY <2>11, <2>12, BitsKept
  <2> QED BY <2>10, <2>13, <2>14 DEF Marked, A
<1> QED BY <1>1, <1>2

\* The writes ws begin with c bitmaps that keep the blocks A, and hold no other.
Begins(ws, c, A) == /\ c \in 1..(Len(ws) - 1)
                    /\ \A j \in 1..Len(ws) : ws[j].lba = 1 <=> j <= c
                    /\ \A j \in 1..c : A \subseteq ws[j].value.set

(* fs_create and fs_mkdir: the entry goes last, to blocks that are marked   *)
(* and written.                                                             *)
LEMMA LinkPlan ==
  ASSUME NEW d, NEW m, NEW S, Sound(d, S), Marked(d, m, S), NEW op, op \notin Freeing,
         NEW i \in Dirs(d, S), NEW s \in Slots, At(d, i, s) = NULL,
         NEW v \in Space, v \notin Taken(d, S),
         NEW ws, Len(ws) \in Nat, NEW c, Begins(ws, c, Taken(d, S)),
         \A j \in 1..(Len(ws) - 1) : ws[j].lba = 1 \/ ws[j].lba \notin Taken(d, S),
         ws[Len(ws)].lba = Head0(d, i), ws[Len(ws)].value \in DirType,
         ws[Len(ws)].value.entries[s] # NULL, ws[Len(ws)].value.entries[s].inode = v,
         \A t \in Slots : t # s => ws[Len(ws)].value.entries[t] = At(d, i, t),
         \A e : DiskAfter(d, ws, op, Len(ws), e)
           => /\ Fresh(e, v) /\ Apart(d, e, S, v)
              /\ {v} \cup Owned(e, v) \subseteq ws[c].value.set
              /\ ws[c].value.set \subseteq m \cup {v} \cup Owned(e, v)
  PROVE  Planned(d, m, ws, op) /\ (Exact(d, m, S) => Settles(d, m, ws, op))
<1>0. /\ c \in 1..(Len(ws) - 1) /\ \A j \in 1..Len(ws) : ws[j].lba = 1 <=> j <= c
      /\ \A j \in 1..c : Taken(d, S) \subseteq ws[j].value.set
  BY DEF Begins
<1>1. \A j \in 1..(Len(ws) - 1) : Harmless(d, ws[j], S)
  BY OutsideHarmless
<1>2. \A j \in 1..Len(ws) : ws[j].lba = 1 => Taken(d, S) \subseteq ws[j].value.set
  <2>1. \A j \in 1..Len(ws) : ws[j].lba = 1 => j \in 1..c
    BY <1>0
  <2> QED BY <1>0, <2>1
<1>3. ASSUME NEW e, NEW n, DiskAfter(d, ws, op, Len(ws), e), BitmapAfter(m, ws, Len(ws), n)
      PROVE  \E T : Sound(e, T) /\ Marked(e, n, T) /\ (Exact(d, m, S) => Exact(e, n, T))
  <2> DEFINE w == Len(ws)
             h == Head0(d, i)
  <2>1. w \in Nat /\ w \in 1..w /\ ws[w].lba = h /\ h \in Space /\ h \in Taken(d, S)
        /\ \A j \in 1..w : j = w \/ j \in 1..(w - 1)
    BY <1>0, TakenAre
  <2>2. \A b \in Space : b \in 1..(DiskSize - 1) /\ b # 1
    BY Sizes
  <2>3. e[h] = ws[w].value
    <3>1. Latest(ws, w, h, w)
      <4>1. (w + 1)..w = {}
        BY <2>1
      <4> QED BY <2>1, <4>1 DEF Latest
    <3>2. h \in 1..(DiskSize - 1) /\ h # 1
      BY <2>1, <2>2
    <3> HIDE DEF h
    <3> QED BY <1>3, <2>1, <3>1, <3>2, BlockAfter
  <2>4. ASSUME NEW b \in Space, b \in Taken(d, S), b # h PROVE e[b] = d[b]
    <3>1. \A j \in 1..w : ws[j].lba # b
      BY <2>1, <2>2, <2>4
    <3>2. None(ws, w, b)
      BY <3>1 DEF None
    <3> QED BY <1>3, <2>2, <3>2, BlockAfter
  <2>5. Besides(d, e, S, i)
    BY <2>3, <2>4 DEF Besides
  <2>6. Head0(e, i) = h
    BY <2>5, HeadStays
  <2>7. At(e, i, s) # NULL /\ At(e, i, s).inode = v /\ \A t \in Slots : t # s => At(e, i, t) = At(d, i, t)
    BY <2>3, <2>6 DEF At
  <2>8. /\ Fresh(e, v) /\ Apart(d, e, S, v)
        /\ {v} \cup Owned(e, v) \subseteq ws[c].value.set
        /\ ws[c].value.set \subseteq m \cup {v} \cup Owned(e, v)
    BY <1>3
  <2> DEFINE T == S \cup {v}
  <2>9. Sound(e, T) /\ Taken(e, T) \subseteq Taken(d, S) \cup {v} \cup Owned(e, v)
    <3>1. Enters(d, e, i, s, v)
      BY <2>7 DEF Enters
    <3> QED BY <2>5, <2>8, <3>1, NodeAdded
  <2> HIDE DEF T
  <2>10. n = ws[c].value.set /\ e[1] = ws[c].value
    <3>1. c \in 0..Len(ws) /\ c # 0
      BY <1>0
    <3>2. Leads(ws, c)
      BY <1>0, <3>1 DEF Leads
    <3> QED BY <1>0, <1>3, <3>1, <3>2, LastBits
  <2>11. Taken(d, S) \cup {v} \cup Owned(e, v) \subseteq ws[c].value.set
    <3>1. c \in 1..c
      BY <1>0
    <3> QED BY <1>0, <2>8, <3>1
  <2>12. Marked(e, n, T)
    BY <2>9, <2>10, <2>11 DEF Marked
  <2>13. ASSUME Exact(d, m, S) PROVE Exact(e, n, T)
    <3>s. /\ \A j \in S : /\ e[j] = d[j] /\ Owns(e, j) = Owns(d, j)
                          /\ Owned(e, j) = Owned(d, j) /\ Head0(e, j) = Head0(d, j)
          /\ Dirs(e, S) = Dirs(d, S)
          /\ \A j \in Dirs(d, S) : j # i => \A t \in Slots : At(e, j, t) = At(d, j, t)
          /\ Heads(e, S)
      BY <2>5, BesidesSame
    <3>1. Rooted(e, T)
      <4>1. \A j \in Dirs(d, S), t \in Slots : j # i \/ t # s => At(e, j, t) = At(d, j, t)
        BY <2>7, <3>s
      <4> QED BY <2>7, <2>13, <3>s, <4>1, RootedAdded DEF Exact, T
    <3>2. ASSUME NEW b \in n PROVE b \in Taken(e, T)
      <4>1. b \in Taken(d, S) \/ b = v \/ b \in Owned(e, v)
        BY <2>8, <2>10, <2>13, <3>2 DEF Exact
      <4>2. b \in Taken(d, S) => b = 0 \/ b = 1 \/ b \in S \/ \E j \in S : b \in Owned(e, j)
        BY <3>s DEF Taken
      <4> QED BY <4>1, <4>2 DEF Taken, T
    <3> QED BY <3>1, <3>2 DEF Exact
  <2> QED BY <2>9, <2>12, <2>13
<1>4. Planned(d, m, ws, op)
  BY <1>1, <1>2, <1>3, LastPlan
<1>5. Exact(d, m, S) => Settles(d, m, ws, op)
  BY <1>3 DEF Settles, Snug
<1> QED BY <1>4, <1>5

(* fs_rename: one write, of a directory whose entries lead where they led.  *)
LEMMA RenamePlan ==
  ASSUME NEW d, NEW m, NEW S, Sound(d, S), Marked(d, m, S), NEW op,
         NEW i \in Dirs(d, S), NEW ws, Len(ws) = 1, ws[1].lba = Head0(d, i), ws[1].value \in DirType,
         \A s \in Slots : ws[1].value.entries[s] # NULL
            => At(d, i, s) # NULL /\ ws[1].value.entries[s].inode = At(d, i, s).inode,
         \A s \in Slots : At(d, i, s) # NULL => ws[1].value.entries[s] # NULL
  PROVE  Planned(d, m, ws, op) /\ (Exact(d, m, S) => Settles(d, m, ws, op))
<1>h. Head0(d, i) \in Space /\ Head0(d, i) # 1 /\ Head0(d, i) \in 1..(DiskSize - 1)
  BY HeadOfDir, Sizes
<1>0. Len(ws) \in Nat /\ 1..(Len(ws) - 1) = {} /\ 1 \in 1..1 /\ 2..1 = {} /\ (1 + 1)..1 = {}
      /\ \A j \in 1..Len(ws) : j = 1 /\ ws[j].lba # 1
  BY <1>h
<1>1. ASSUME NEW e, NEW n, DiskAfter(d, ws, op, Len(ws), e), BitmapAfter(m, ws, Len(ws), n)
      PROVE  \E T : Sound(e, T) /\ Marked(e, n, T) /\ (Exact(d, m, S) => Exact(e, n, T))
  <2>1. e[Head0(d, i)] = ws[1].value
    <3>1. Latest(ws, 1, Head0(d, i), 1)
      BY <1>0 DEF Latest
    <3> QED BY <1>h, <1>0, <1>1, <3>1, BlockAfter
  <2>2. ASSUME NEW b \in 1..(DiskSize - 1), b # Head0(d, i) PROVE e[b] = d[b]
    <3>1. \A j \in 1..Len(ws) : ws[j].lba # b
      BY <1>0, <2>2
    <3> QED BY <1>1, <3>1 DEF DiskAfter
  <2>3. Besides(d, e, S, i)
    BY <2>1, <2>2, Sizes DEF Besides
  <2>4. Head0(e, i) = Head0(d, i)
    BY <2>3, HeadStays
  <2>5. \A s \in Slots : At(e, i, s) # NULL => At(d, i, s) # NULL /\ At(e, i, s).inode = At(d, i, s).inode
    BY <2>1, <2>4 DEF At
  <2>6. Sound(e, S) /\ Taken(e, S) = Taken(d, S)
    BY <2>3, <2>5, DirChanged
  <2>7. n = m /\ e[1] = d[1]
    <3>1. \A j \in 1..Len(ws) : ~Latest(ws, Len(ws), 1, j)
      BY <1>0 DEF Latest
    <3> QED BY <1>h, <1>0, <1>1, <2>2, <3>1, Sizes DEF BitmapAfter
  <2>8. ASSUME Exact(d, m, S) PROVE Exact(e, n, S)
    <3>1. \A s \in Slots : At(d, i, s) # NULL => At(e, i, s) # NULL
      BY <2>1, <2>4 DEF At
    <3>s. /\ \A j \in S : /\ e[j] = d[j] /\ Owns(e, j) = Owns(d, j)
                          /\ Owned(e, j) = Owned(d, j) /\ Head0(e, j) = Head0(d, j)
          /\ Dirs(e, S) = Dirs(d, S)
          /\ \A j \in Dirs(d, S) : j # i => \A t \in Slots : At(e, j, t) = At(d, j, t)
          /\ Heads(e, S)
      BY <2>3, BesidesSame
    <3>2. \A j \in Dirs(d, S), s \in Slots :
            At(d, j, s) # NULL => At(e, j, s) # NULL /\ At(e, j, s).inode = At(d, j, s).inode
      BY <2>5, <3>1, <3>s
    <3> QED BY <2>6, <2>7, <2>8, <3>2, <3>s, RootedSame DEF Exact
  <2> QED BY <2>6, <2>7, <2>8 DEF Marked
<1>2. Planned(d, m, ws, op)
  BY <1>0, <1>1, LastPlan
<1>3. Exact(d, m, S) => Settles(d, m, ws, op)
  BY <1>1 DEF Settles, Snug
<1> QED BY <1>2, <1>3

(* fs_chmod and fs_utime write an inode back as it is.                      *)
LEMMA TouchPlan ==
  ASSUME NEW d, NEW m, NEW S, Sound(d, S), Marked(d, m, S), NEW op,
         NEW i \in S, NEW ws, Len(ws) = 1, ws[1].lba = i, ws[1].value = d[i]
  PROVE  Planned(d, m, ws, op) /\ (Exact(d, m, S) => Settles(d, m, ws, op))
<1>h. i \in Space /\ i # 1
  BY TakenAre, Sizes
<1>0. Len(ws) \in Nat /\ 1..(Len(ws) - 1) = {} /\ \A j \in 1..Len(ws) : j = 1 /\ ws[j].lba # 1
  BY <1>h
<1>1. ASSUME NEW e, NEW n, DiskAfter(d, ws, op, Len(ws), e), BitmapAfter(m, ws, Len(ws), n)
      PROVE  \E T : Sound(e, T) /\ Marked(e, n, T) /\ (Exact(d, m, S) => Snug(e, n))
  <2>1. \A b \in 1..(DiskSize - 1) : e[b] = d[b]
    BY <1>0, <1>1 DEF DiskAfter
  <2>a. Agree(d, e, S)
    BY <2>1, SameAgree, Sizes
  <2>2. Sound(e, S) /\ Taken(e, S) = Taken(d, S)
    BY <2>a, AgreeSound
  <2>3. n = m
    <3>1. \A j \in 1..Len(ws) : ~Latest(ws, Len(ws), 1, j)
      BY <1>0 DEF Latest
    <3> QED BY <1>0, <1>1, <3>1 DEF BitmapAfter
  <2>4. Exact(d, m, S) => Snug(e, n)
    BY <2>a, <2>3, SnugSame
  <2> QED BY <2>1, <2>2, <2>3, <2>4, Sizes DEF Marked
<1>2. Planned(d, m, ws, op)
  BY <1>0, <1>1, LastPlan
<1>3. Exact(d, m, S) => Settles(d, m, ws, op)
  BY <1>1 DEF Settles
<1> QED BY <1>2, <1>3

\* All writes but the last are to the bitmap, or put data into blocks of file
\* i or into free ones.
FillsBlocks(d, S, i, ws) ==
  \A j \in 1..(Len(ws) - 1) : \/ ws[j].lba = 1
                              \/ /\ ws[j].lba \in Space /\ ws[j].value.kind = "data"
                                 /\ ws[j].lba \in Owned(d, i) \/ ws[j].lba \notin Taken(d, S)
\* Inode f may replace that of file i: it owns what that one did, or free
\* blocks; its first block is one with data, or written.
Replaces(d, S, i, ws, f) ==
  /\ f \in InodeType /\ f.type = "file"
  /\ \A k \in 0..(BlocksFor(f.size) - 1) :
       /\ f.ptrs[k] \in Space
       /\ f.ptrs[k] \in Owned(d, i) \/ f.ptrs[k] \notin Taken(d, S)
  /\ \A k, l \in 0..(BlocksFor(f.size) - 1) : f.ptrs[k] = f.ptrs[l] => k = l
  /\ IF f.size = 0 THEN f.ptrs[0] = 0
     ELSE d[f.ptrs[0]].kind = "data" \/ \E j \in 1..(Len(ws) - 1) : ws[j].lba = f.ptrs[0]
\* After all the writes everything is marked but what file i no longer owns,
\* and nothing that was not but what it owns then.
MarksFile(d, m, S, i, ws, op, f) ==
  \A e, n : DiskAfter(d, ws, op, Len(ws), e) /\ BitmapAfter(m, ws, Len(ws), n) /\ e[i] = f
    => /\ \A b \in Taken(d, S) \cup Owned(e, i) :
            b \in Owned(e, i) \/ b \notin Owned(d, i) => b \in n /\ b \in e[1].set
       /\ \A b \in n : b \in Owned(e, i) \/ (b \in m /\ b \notin Owned(d, i))
\* Every bitmap written keeps what is taken.
KeepsBits(d, S, ws) == \A j \in 1..Len(ws) : ws[j].lba = 1 => Taken(d, S) \subseteq ws[j].value.set

(* fs_truncate and fs_write: the inode goes last.  What it owns then is     *)
(* what it owned, or blocks that were not taken.                            *)
LEMMA FilePlan ==
  ASSUME NEW d, NEW m, NEW S, Sound(d, S), Marked(d, m, S), NEW op,
         NEW i \in S \ Dirs(d, S), NEW ws, Len(ws) \in Nat \ {0},
         FillsBlocks(d, S, i, ws), op \in Faulty => KeepsBits(d, S, ws),
         NEW f, ws[Len(ws)].lba = i, ws[Len(ws)].value = f,
         Replaces(d, S, i, ws, f), MarksFile(d, m, S, i, ws, op, f)
  PROVE  Planned(d, m, ws, op) /\ (Exact(d, m, S) => Settles(d, m, ws, op))
<1> DEFINE w == Len(ws)
<1>0. /\ w \in Nat /\ w \in 1..w /\ ws[w].lba = i /\ (w + 1)..w = {}
      /\ \A j \in 1..w : j = w \/ j \in 1..(w - 1)
      /\ \A j \in 1..(w - 1) : j \in 1..w
  OBVIOUS
<1>f. /\ \A j \in 1..(w - 1) : \/ ws[j].lba = 1
                               \/ /\ ws[j].lba \in Space /\ ws[j].value.kind = "data"
                                  /\ ws[j].lba \in Owned(d, i) \/ ws[j].lba \notin Taken(d, S)
      /\ f \in InodeType /\ f.type = "file"
      /\ \A k \in 0..(BlocksFor(f.size) - 1) :
           /\ f.ptrs[k] \in Space
           /\ f.ptrs[k] \in Owned(d, i) \/ f.ptrs[k] \notin Taken(d, S)
      /\ \A k, l \in 0..(BlocksFor(f.size) - 1) : f.ptrs[k] = f.ptrs[l] => k = l
      /\ IF f.size = 0 THEN f.ptrs[0] = 0
         ELSE d[f.ptrs[0]].kind = "data" \/ \E j \in 1..(w - 1) : ws[j].lba = f.ptrs[0]
  BY DEF FillsBlocks, Replaces
<1>1. \A b \in Space : b \in 1..(DiskSize - 1) /\ b # 1
  BY Sizes
<1>2. i \in S /\ i \in Space /\ i \in Taken(d, S) /\ i \notin Dirs(d, S)
  BY TakenAre
<1>3. ASSUME NEW j \in 1..(w - 1) PROVE Harmless(d, ws[j], S)
  <2>1. CASE ws[j].lba = 1 \/ ws[j].lba \notin Taken(d, S)
    BY <1>f, <2>1, OutsideHarmless
  <2>2. CASE ws[j].lba \in Owned(d, i) /\ ws[j].value.kind = "data"
    <3>1. ws[j].lba \notin S
      BY <1>2, <2>2, TakenAre
    <3>2. \A l \in Dirs(d, S) : ws[j].lba # Head0(d, l)
      BY <1>2, <2>2, TakenAre
    <3> QED BY <2>2, <3>1, <3>2 DEF Harmless
  <2> QED BY <1>f, <2>1, <2>2
<1>4. ASSUME NEW e, NEW n, DiskAfter(d, ws, op, Len(ws), e), BitmapAfter(m, ws, Len(ws), n)
      PROVE  \E T : Sound(e, T) /\ Marked(e, n, T) /\ (Exact(d, m, S) => Exact(e, n, T))
  <2>1. e[i] = f
    <3>1. Latest(ws, w, i, w)
      BY <1>0 DEF Latest
    <3>2. i \in 1..(DiskSize - 1) /\ i # 1
      BY <1>1, <1>2
    <3> QED BY <1>0, <1>4, <3>1, <3>2, BlockAfter
  <2>2. ASSUME NEW b \in Space, b \in Taken(d, S), b # i, b \notin Owned(d, i) PROVE e[b] = d[b]
    <3>1. \A j \in 1..w : ws[j].lba # b
      BY <1>0, <1>1, <1>2, <1>f, <2>2
    <3>2. None(ws, w, b)
      BY <3>1 DEF None
    <3>3. b \in 1..(DiskSize - 1) /\ b # 1
      BY <1>1
    <3> QED BY <1>4, <3>2, <3>3, BlockAfter
  <2>3. Owns(e, i) = 0..(BlocksFor(f.size) - 1) /\ Head0(e, i) = f.ptrs[0]
    BY <2>1 DEF Owns, Head0
  <2>4. \A k \in Owns(e, i) : /\ e[i].ptrs[k] \in Space
                              /\ e[i].ptrs[k] \in Owned(d, i) \/ e[i].ptrs[k] \notin Taken(d, S)
    BY <1>f, <2>1, <2>3
  <2>5. \A k, l \in Owns(e, i) : e[i].ptrs[k] = e[i].ptrs[l] => k = l
    BY <1>f, <2>1, <2>3
  <2>6. IF e[i].size = 0 THEN Head0(e, i) = 0 ELSE e[Head0(e, i)].kind = "data"
    <3>1. CASE f.size = 0
      BY <1>f, <2>1, <2>3, <3>1
    <3>2. CASE f.size # 0
      <4> DEFINE h == f.ptrs[0]
      <4>1. h \in Space /\ (h \in Owned(d, i) \/ h \notin Taken(d, S))
        <5>1. f.size \in 0..MaxFile
          BY <1>f DEF InodeType
        <5>2. f.size \in Nat \ {0}
          BY <3>2, <5>1, BlocksFit
        <5>3. 0 \in 0..(BlocksFor(f.size) - 1)
          BY <5>2, BlocksPositive
        <5> QED BY <1>f, <5>3
      <4>2. h \in 1..(DiskSize - 1) /\ h # 1 /\ h # i
        BY <1>1, <1>2, <4>1, TakenAre
      <4>3. \A j \in 1..w : ws[j].lba = h => ws[j].value.kind = "data"
        BY <1>0, <1>f, <4>2
      <4>4. d[h].kind = "data" \/ \E j \in 1..w : ws[j].lba = h
        BY <1>0, <1>f, <3>2
      <4> HIDE DEF h
      <4>5. \/ e[h] = d[h] /\ None(ws, w, h)
            \/ \E j \in 1..w : ws[j].lba = h /\ e[h] = ws[j].value
        BY <1>4, <4>2 DEF DiskAfter
      <4>6. e[h].kind = "data"
        BY <4>3, <4>4, <4>5 DEF None
      <4> QED BY <2>1, <2>3, <3>2, <4>6 DEF h
    <3> QED BY <3>1, <3>2
  <2>7. e[i] \in InodeType /\ e[i].type = "file"
    BY <1>f, <2>1
  <2>8. /\ Sound(e, S)
        /\ \A b \in Taken(e, S) : b \in Owned(e, i) \/ (b \in Taken(d, S) /\ b \notin Owned(d, i))
    BY <2>2, <2>4, <2>5, <2>6, <2>7, FileRewritten
  <2>9. \A b \in Taken(e, S) : b \in n /\ b \in e[1].set
    BY <1>4, <2>1, <2>8 DEF MarksFile
  <2>10. ASSUME Exact(d, m, S) PROVE Exact(e, n, S)
    <3>1. ASSUME NEW j \in S, j # i PROVE e[j] = d[j] /\ Owned(e, j) = Owned(d, j)
      <4>1. j \in Space /\ j \in Taken(d, S) /\ j \notin Owned(d, i)
        BY <1>2, TakenAre
      <4>2. e[j] = d[j]
        BY <2>2, <3>1, <4>1
      <4> QED BY <4>2, SameNode
    <3>2. ASSUME NEW j \in Dirs(d, S) PROVE j \in S /\ j # i /\ e[Head0(d, j)] = d[Head0(d, j)]
      <4>1. j \in S /\ j # i /\ Head0(d, j) \in Owned(d, j) /\ Head0(d, j) \in Space \ S
        BY <1>2, TakenAre
      <4>2. Head0(d, j) \in Taken(d, S) /\ Head0(d, j) # i /\ Head0(d, j) \notin Owned(d, i)
        BY <1>2, <4>1, TakenAre
      <4> QED BY <2>2, <4>1, <4>2
    <3>3. Dirs(e, S) = Dirs(d, S)
      <4>1. \A j \in S : j \in Dirs(e, S) <=> j \in Dirs(d, S)
        BY <1>2, <2>7, <3>1 DEF Dirs
      <4> QED BY <4>1 DEF Dirs
    <3>4. \A j \in Dirs(d, S), s \in Slots : At(e, j, s) = At(d, j, s)
      BY <3>1, <3>2 DEF At, Head0
    <3>5. Rooted(e, S)
      BY <2>10, <3>3, <3>4, RootedSame DEF Exact
    <3>6. ASSUME NEW b \in n PROVE b \in Taken(e, S)
      <4>1. b \in Owned(e, i) \/ (b \in Taken(d, S) /\ b \notin Owned(d, i))
        BY <1>4, <2>1, <2>10 DEF MarksFile, Exact
      <4>2. b \in Taken(d, S) => b = 0 \/ b = 1 \/ b \in S \/ \E j \in S : b \in Owned(d, j)
        BY DEF Taken
      <4> QED BY <1>2, <3>1, <4>1, <4>2 DEF Taken
    <3> QED BY <3>5, <3>6 DEF Exact
  <2> QED BY <2>8, <2>9, <2>10 DEF Marked
<1>5. Planned(d, m, ws, op)
  BY <1>0, <1>3, <1>4, LastPlan DEF KeepsBits
<1>6. Exact(d, m, S) => Settles(d, m, ws, op)
  BY <1>4 DEF Settles, Snug
<1> QED BY <1>5, <1>6
----------------------------------------------------------------------------
(* The writes the operations make. *)

(* What a block may hold. *)
LEMMA Contents ==
  /\ \A x \in SUBSET Blocks : Bits(x) \in BlockContents /\ Bits(x).kind = "bitmap" /\ Bits(x).set = x
  /\ \A x \in InodeType : x \in BlockContents /\ x.kind = "inode"
  /\ \A x \in DirType : x \in BlockContents /\ x.kind = "dir"
  /\ \A x \in [Offsets -> Data \cup {NULL}] : Bytes(x) \in BlockContents /\ Bytes(x).kind = "data"
  /\ \A x \in BlockContents : x.kind = "bitmap" => x.set \in SUBSET Blocks
  /\ \A x \in BlockContents : x.kind = "data" => x.bytes \in [Offsets -> Data \cup {NULL}]
<1>1. \A x \in SUBSET Blocks : Bits(x) \in BlockContents /\ Bits(x).kind = "bitmap" /\ Bits(x).set = x
  BY DEF BlockContents, Bits
<1>2. \A x \in InodeType : x \in BlockContents /\ x.kind = "inode"
  BY DEF BlockContents, InodeType
<1>3. \A x \in DirType : x \in BlockContents /\ x.kind = "dir"
  BY DEF BlockContents, DirType
<1>4. \A x \in [Offsets -> Data \cup {NULL}] : Bytes(x) \in BlockContents /\ Bytes(x).kind = "data"
  BY DEF BlockContents, Bytes
<1>5. \A x \in BlockContents : x.kind = "bitmap" => x.set \in SUBSET Blocks
  BY DEF BlockContents, Zeroes
<1>6. \A x \in BlockContents : x.kind = "data" => x.bytes \in [Offsets -> Data \cup {NULL}]
  BY DEF BlockContents, Zeroes
<1> QED BY <1>1, <1>2, <1>3, <1>4, <1>5, <1>6

\* Writes that are typed, and put nothing but bitmaps into the bitmap's block.
Typed(ws) == ws \in Seq(WriteType) /\ \A j \in 1..Len(ws) : ws[j].lba = 1 => ws[j].value.kind = "bitmap"

(* Writes outside the bitmap's block. *)
LEMMA PutIs ==
  ASSUME NEW b \in Space, NEW x \in BlockContents
  PROVE  Put(b, x) \in WriteType /\ Put(b, x).lba = b /\ Put(b, x).lba # 1 /\ Put(b, x).value = x
BY Sizes DEF Put, WriteType

(* The writes of allocate_block keep every bit and set those of its blocks. *)
LEMMA MarkUsedIs ==
  ASSUME bitmap \in SUBSET Blocks, NEW bs \in Seq(Blocks)
  PROVE  /\ MarkUsed(bs) \in Seq(WriteType) /\ Len(MarkUsed(bs)) = Len(bs) /\ Len(bs) \in Nat
         /\ \A k \in 1..Len(bs) : LET w == MarkUsed(bs)[k] IN
              /\ w.lba = 1 /\ w.value.kind = "bitmap" /\ bitmap \subseteq w.value.set
              /\ \A j \in 1..k : bs[j] \in w.value.set
              /\ w.value.set = bitmap \cup FirstOf(bs, k)
<1> DEFINE B(k) == bitmap \cup FirstOf(bs, k)
<1>1. Len(bs) \in Nat /\ DOMAIN bs = 1..Len(bs) /\ \A j \in 1..Len(bs) : bs[j] \in Blocks
  OBVIOUS
<1>2. ASSUME NEW k \in 1..Len(bs)
      PROVE  B(k) \in SUBSET Blocks /\ bitmap \subseteq B(k) /\ \A j \in 1..k : bs[j] \in B(k)
  BY <1>1 DEF FirstOf
<1>3. MarkUsed(bs) = [k \in 1..Len(bs) |-> Put(1, Bits(B(k)))]
  BY <1>1 DEF MarkUsed
<1> HIDE DEF B
<1>4. ASSUME NEW k \in 1..Len(bs)
      PROVE  /\ Put(1, Bits(B(k))) \in WriteType /\ Put(1, Bits(B(k))).lba = 1
             /\ Put(1, Bits(B(k))).value.kind = "bitmap" /\ Put(1, Bits(B(k))).value.set = B(k)
  BY <1>2, Contents, Sizes DEF Put, WriteType
<1> DEFINE ws == MarkUsed(bs)
           l == Len(bs)
<1> HIDE DEF ws, l
<1>5. ws = [k \in 1..l |-> Put(1, Bits(B(k)))] /\ l \in Nat /\ \A k \in 1..l : Put(1, Bits(B(k))) \in WriteType
  BY <1>1, <1>3, <1>4 DEF ws, l
<1>6. ws \in Seq(WriteType) /\ Len(ws) = l /\ \A k \in 1..l : ws[k] = Put(1, Bits(B(k)))
  BY <1>5
<1>7. \A k \in 1..l : /\ ws[k].lba = 1 /\ ws[k].value.kind = "bitmap" /\ bitmap \subseteq ws[k].value.set
                      /\ \A j \in 1..k : bs[j] \in ws[k].value.set
                      /\ ws[k].value.set = B(k)
  BY <1>2, <1>4, <1>6 DEF l
<1> QED BY <1>1, <1>6, <1>7 DEF ws, l, B

(* Those of free_block clear the bits of its blocks and no others.          *)
LEMMA MarkFreeIs ==
  ASSUME bitmap \in SUBSET Blocks, NEW bs \in Seq(Blocks)
  PROVE  /\ MarkFree(bs) \in Seq(WriteType) /\ Len(MarkFree(bs)) = Len(bs) /\ Len(bs) \in Nat
         /\ \A k \in 1..Len(bs) : LET w == MarkFree(bs)[k] IN
              /\ w.lba = 1 /\ w.value.kind = "bitmap"
              /\ \A b \in bitmap : b \in w.value.set \/ \E j \in 1..Len(bs) : b = bs[j]
              /\ w.value.set = bitmap \ FirstOf(bs, k)
<1> DEFINE B(k) == bitmap \ FirstOf(bs, k)
<1>1. Len(bs) \in Nat /\ DOMAIN bs = 1..Len(bs)
  OBVIOUS
<1>2. ASSUME NEW k \in 1..Len(bs)
      PROVE  B(k) \in SUBSET Blocks /\ \A b \in bitmap : b \in B(k) \/ \E j \in 1..Len(bs) : b = bs[j]
  BY <1>1 DEF FirstOf
<1>3. MarkFree(bs) = [k \in 1..Len(bs) |-> Put(1, Bits(B(k)))]
  BY <1>1 DEF MarkFree
<1> HIDE DEF B
<1>4. ASSUME NEW k \in 1..Len(bs)
      PROVE  /\ Put(1, Bits(B(k))) \in WriteType /\ Put(1, Bits(B(k))).lba = 1
             /\ Put(1, Bits(B(k))).value.kind = "bitmap" /\ Put(1, Bits(B(k))).value.set = B(k)
  BY <1>2, Contents, Sizes DEF Put, WriteType
<1> DEFINE ws == MarkFree(bs)
           l == Len(bs)
<1> HIDE DEF ws, l
<1>5. ws = [k \in 1..l |-> Put(1, Bits(B(k)))] /\ l \in Nat /\ \A k \in 1..l : Put(1, Bits(B(k))) \in WriteType
  BY <1>1, <1>3, <1>4 DEF ws, l
<1>6. ws \in Seq(WriteType) /\ Len(ws) = l /\ \A k \in 1..l : ws[k] = Put(1, Bits(B(k)))
  BY <1>5
<1>7. \A k \in 1..l : /\ ws[k].lba = 1 /\ ws[k].value.kind = "bitmap"
                      /\ \A b \in bitmap : b \in ws[k].value.set \/ \E j \in 1..Len(bs) : b = bs[j]
                      /\ ws[k].value.set = B(k)
  BY <1>2, <1>4, <1>6 DEF l
<1> QED BY <1>1, <1>6, <1>7 DEF ws, l, B

(* Two and three sequences of writes as one. *)
LEMMA TwoParts ==
  ASSUME NEW a \in Seq(WriteType), NEW b \in Seq(WriteType)
  PROVE  LET ws == a \o b IN
         /\ ws \in Seq(WriteType) /\ Len(ws) = Len(a) + Len(b) /\ Len(a) \in Nat /\ Len(b) \in Nat
         /\ \A j \in 1..Len(a) : ws[j] = a[j]
         /\ \A j \in 1..Len(b) : ws[Len(a) + j] = b[j]
         /\ \A j \in 1..Len(ws) : j \in 1..Len(a) \/ \E k \in 1..Len(b) : j = Len(a) + k
<1> DEFINE ws == a \o b
           p == Len(a)
           q == Len(b)
<1>1. /\ ws \in Seq(WriteType) /\ Len(ws) = p + q /\ p \in Nat /\ q \in Nat
      /\ \A j \in 1..p : ws[j] = a[j]
      /\ \A j \in 1..q : ws[p + j] = b[j]
  OBVIOUS
<1> HIDE DEF ws, p, q
<1>2. ASSUME NEW j \in 1..Len(ws), j \notin 1..p PROVE \E k \in 1..q : j = p + k
  <2>1. j - p \in 1..q /\ j = p + (j - p)
    BY <1>1, <1>2
  <2> QED BY <2>1
<1> QED BY <1>1, <1>2 DEF ws, p, q

\* The writes ws are those of a, then those of b, then w.
Joined(ws, a, b, w) ==
  /\ ws \in Seq(WriteType) /\ Len(ws) = Len(a) + Len(b) + 1 /\ Len(a) \in Nat /\ Len(b) \in Nat
  /\ ws[Len(ws)] = w
  /\ \A j \in 1..Len(a) : ws[j] = a[j]
  /\ \A j \in 1..Len(b) : ws[Len(a) + j] = b[j]
  /\ \A j \in 1..(Len(ws) - 1) : j \in 1..Len(a) \/ \E k \in 1..Len(b) : j = Len(a) + k

(* Three parts, the last one write.                                         *)
LEMMA ThreeParts ==
  ASSUME NEW a \in Seq(WriteType), NEW b \in Seq(WriteType), NEW w \in WriteType
  PROVE  Joined(a \o b \o <<w>>, a, b, w)
<1> DEFINE c == a \o b
           ws == c \o <<w>>
           p == Len(a)
           q == Len(b)
<1>1. /\ c \in Seq(WriteType) /\ Len(c) = p + q /\ p \in Nat /\ q \in Nat
      /\ \A j \in 1..p : c[j] = a[j]
      /\ \A j \in 1..q : c[p + j] = b[j]
      /\ \A j \in 1..Len(c) : j \in 1..p \/ \E k \in 1..q : j = p + k
  BY TwoParts
<1> HIDE DEF c
<1>2. /\ ws \in Seq(WriteType) /\ Len(ws) = Len(c) + 1 /\ ws[Len(c) + 1] = w
      /\ \A j \in 1..Len(c) : ws[j] = c[j]
  <2>1. c \in Seq(WriteType) /\ <<w>> \in Seq(WriteType) /\ Len(<<w>>) = 1 /\ <<w>>[1] = w /\ 1 \in 1..1
    BY <1>1
  <2> DEFINE o == <<w>>
  <2> HIDE DEF o
  <2>2. /\ c \o o \in Seq(WriteType) /\ Len(c \o o) = Len(c) + Len(o)
        /\ \A j \in 1..Len(c) : (c \o o)[j] = c[j]
        /\ \A j \in 1..Len(o) : (c \o o)[Len(c) + j] = o[j]
    BY <2>1, TwoParts DEF o
  <2> QED BY <2>1, <2>2 DEF o
<1> HIDE DEF ws, p, q
<1>3. (\A j \in 1..p : j \in 1..Len(c)) /\ (\A j \in 1..q : p + j \in 1..Len(c)) /\ Len(ws) - 1 = Len(c)
  BY <1>1, <1>2
<1>4. /\ ws \in Seq(WriteType) /\ Len(ws) = p + q + 1 /\ p \in Nat /\ q \in Nat
      /\ ws[Len(ws)] = w
      /\ \A j \in 1..p : ws[j] = a[j]
      /\ \A j \in 1..q : ws[p + j] = b[j]
      /\ \A j \in 1..(Len(ws) - 1) : j \in 1..p \/ \E k \in 1..q : j = p + k
  BY <1>1, <1>2, <1>3
<1>5. Joined(ws, a, b, w)
  BY <1>4 DEF Joined, p, q
<1> QED BY <1>5 DEF ws, c

(* An entry is put into a free slot of a directory that has one.            *)
LEMMA PutEntryIs ==
  ASSUME Image, NEW S, Sound(disk, S), NEW i \in Dirs(disk, S), FreeSlots(i) # {},
         NEW n \in Names, NEW v \in Blocks
  PROVE  LET w == PutEntry(i, n, v) IN
         /\ w \in WriteType /\ w.lba = Head0(disk, i) /\ w.lba # 1 /\ w.value \in DirType
         /\ \E s \in Slots : /\ At(disk, i, s) = NULL /\ w.value.entries[s] = Entry(n, v)
                             /\ \A t \in Slots : t # s => w.value.entries[t] = At(disk, i, t)
         /\ Entry(n, v) # NULL /\ Entry(n, v).inode = v /\ Entry(n, v).name = n
<1> DEFINE s == Lowest(FreeSlots(i))
           E == [Entries(i) EXCEPT ![s] = Entry(n, v)]
<1>1. s \in Slots /\ s \in FreeSlots(i)
  <2>1. FreeSlots(i) \in SUBSET Nat
    BY ConstantFacts DEF FreeSlots, Slots
  <2>2. s \in FreeSlots(i)
    BY <2>1, LowestIn
  <2> QED BY <2>2 DEF FreeSlots
<1>2. Entries(i)[s] = NULL
  BY <1>1 DEF FreeSlots, Used
<1> HIDE DEF s
<1>3. /\ DirPtr(i) = Head0(disk, i) /\ \A t \in Slots : Entries(i)[t] = At(disk, i, t)
      /\ Entries(i) \in [Slots -> {NULL} \cup [name : Names, inode : Blocks]]
  BY DirRead
<1>4. /\ Entry(n, v) \in [name : Names, inode : Blocks] /\ Entry(n, v).inode = v /\ Entry(n, v).name = n
      /\ Entry(n, v) # NULL
  <2>1. Entry(n, v) \in [name : Names, inode : Blocks] /\ Entry(n, v).inode = v /\ Entry(n, v).name = n
    BY DEF Entry
  <2> QED BY <2>1, FsAssumption
<1>5. /\ E \in [Slots -> {NULL} \cup [name : Names, inode : Blocks]]
      /\ E[s] = Entry(n, v) /\ \A t \in Slots : t # s => E[t] = Entries(i)[t]
  BY <1>1, <1>3, <1>4
<1>6. PutEntry(i, n, v) = Put(DirPtr(i), DirBlock(E))
  BY DEF PutEntry, PutDir, s
<1> HIDE DEF E
<1>7. DirBlock(E) \in DirType /\ DirBlock(E).entries = E
  BY <1>5 DEF DirBlock, DirType
<1>8. Head0(disk, i) \in Space
  BY HeadOfDir
<1>9. LET w == PutEntry(i, n, v) IN /\ w \in WriteType /\ w.lba = Head0(disk, i) /\ w.lba # 1
                                    /\ w.value = DirBlock(E)
  BY <1>3, <1>6, <1>7, <1>8, Contents, PutIs
<1>10. /\ At(disk, i, s) = NULL /\ DirBlock(E).entries[s] = Entry(n, v)
       /\ \A t \in Slots : t # s => DirBlock(E).entries[t] = At(disk, i, t)
  BY <1>1, <1>2, <1>3, <1>5, <1>7
<1> QED BY <1>1, <1>4, <1>7, <1>9, <1>10

(* The entry that is dropped leads to what was found.                       *)
LEMMA DropEntryIs ==
  ASSUME Image, NEW S, Sound(disk, S), NEW i \in S, NEW n, Named(i, n) # {}
  PROVE  LET w == DropEntry(i, n) IN
         /\ i \in Dirs(disk, S) /\ Found(i, n) \in S \ {Root}
         /\ w \in WriteType /\ w.lba = Head0(disk, i) /\ w.lba # 1 /\ w.value \in DirType
         /\ \E s \in Slots : /\ At(disk, i, s) # NULL /\ At(disk, i, s).inode = Found(i, n)
                             /\ At(disk, i, s).name = n
                             /\ w.value.entries[s] = NULL
                             /\ \A t \in Slots : t # s => w.value.entries[t] = At(disk, i, t)
<1> DEFINE s == Lowest(Named(i, n))
           E == [Entries(i) EXCEPT ![s] = NULL]
<1>1. /\ i \in Dirs(disk, S) /\ s \in Slots /\ At(disk, i, s) # NULL /\ At(disk, i, s).name = n
      /\ Found(i, n) = At(disk, i, s).inode /\ Found(i, n) \in S \ {Root}
  BY NameFound
<1> HIDE DEF s
<1>3. /\ DirPtr(i) = Head0(disk, i) /\ \A t \in Slots : Entries(i)[t] = At(disk, i, t)
      /\ Entries(i) \in [Slots -> {NULL} \cup [name : Names, inode : Blocks]]
  BY <1>1, DirRead
<1>5. /\ E \in [Slots -> {NULL} \cup [name : Names, inode : Blocks]]
      /\ E[s] = NULL /\ \A t \in Slots : t # s => E[t] = Entries(i)[t]
  BY <1>1, <1>3
<1>6. DropEntry(i, n) = Put(DirPtr(i), DirBlock(E))
  BY DEF DropEntry, PutDir, s
<1> HIDE DEF E
<1>7. DirBlock(E) \in DirType /\ DirBlock(E).entries = E
  BY <1>5 DEF DirBlock, DirType
<1>8. Head0(disk, i) \in Space
  BY <1>1, HeadOfDir
<1>9. LET w == DropEntry(i, n) IN /\ w \in WriteType /\ w.lba = Head0(disk, i) /\ w.lba # 1
                                  /\ w.value = DirBlock(E)
  BY <1>3, <1>6, <1>7, <1>8, Contents, PutIs
<1>10. DirBlock(E).entries[s] = NULL /\ \A t \in Slots : t # s => DirBlock(E).entries[t] = At(disk, i, t)
  BY <1>3, <1>5, <1>7
<1> QED BY <1>1, <1>7, <1>9, <1>10

\* The write of fs_rename.
Relabelled(i, n, new) == PutDir(i, [Entries(i) EXCEPT ![Lowest(Named(i, n))].name = new])

(* An entry that is renamed leads where it led.                             *)
LEMMA RelabelIs ==
  ASSUME Image, NEW S, Sound(disk, S), NEW i \in S, NEW n, Named(i, n) # {}, NEW new \in Names
  PROVE  LET w == Relabelled(i, n, new) IN
         /\ i \in Dirs(disk, S)
         /\ w \in WriteType /\ w.lba = Head0(disk, i) /\ w.lba # 1 /\ w.value \in DirType
         /\ \A s \in Slots : w.value.entries[s] # NULL
              => At(disk, i, s) # NULL /\ w.value.entries[s].inode = At(disk, i, s).inode
         /\ \A s \in Slots : At(disk, i, s) # NULL => w.value.entries[s] # NULL
         /\ \E s \in Slots : /\ At(disk, i, s) # NULL /\ At(disk, i, s).name = n
                             /\ At(disk, i, s).inode = Found(i, n)
                             /\ w.value.entries[s] # NULL /\ w.value.entries[s].name = new
                             /\ w.value.entries[s].inode = Found(i, n)
                             /\ \A t \in Slots : t # s => w.value.entries[t] = At(disk, i, t)
<1> DEFINE s == Lowest(Named(i, n))
           E == [Entries(i) EXCEPT ![s].name = new]
<1>1. /\ i \in Dirs(disk, S) /\ s \in Slots /\ At(disk, i, s) # NULL
      /\ At(disk, i, s).name = n /\ At(disk, i, s).inode = Found(i, n)
  BY NameFound
<1> HIDE DEF s
<1>3. /\ DirPtr(i) = Head0(disk, i) /\ \A t \in Slots : Entries(i)[t] = At(disk, i, t)
      /\ Entries(i) \in [Slots -> {NULL} \cup [name : Names, inode : Blocks]]
  BY <1>1, DirRead
<1>4. Entries(i)[s] \in [name : Names, inode : Blocks]
  BY <1>1, <1>3
<1>5. /\ E \in [Slots -> {NULL} \cup [name : Names, inode : Blocks]]
      /\ E[s] # NULL /\ E[s].inode = Entries(i)[s].inode /\ E[s].name = new
      /\ \A t \in Slots : t # s => E[t] = Entries(i)[t]
  <2>1. E[s] \in [name : Names, inode : Blocks] /\ E[s].inode = Entries(i)[s].inode /\ E[s].name = new
    BY <1>1, <1>3, <1>4
  <2>2. E[s] # NULL
    BY <2>1, FsAssumption
  <2> QED BY <1>1, <1>3, <1>4, <2>1, <2>2
<1> HIDE DEF E
<1>7. DirBlock(E) \in DirType /\ DirBlock(E).entries = E
  BY <1>5 DEF DirBlock, DirType
<1>8. Head0(disk, i) \in Space
  BY <1>1, HeadOfDir
<1>9. LET w == PutDir(i, E) IN /\ w \in WriteType /\ w.lba = Head0(disk, i) /\ w.lba # 1
                               /\ w.value = DirBlock(E)
  BY <1>3, <1>7, <1>8, Contents, PutIs DEF PutDir
<1>10. /\ \A t \in Slots : E[t] # NULL => At(disk, i, t) # NULL /\ E[t].inode = At(disk, i, t).inode
       /\ \A t \in Slots : At(disk, i, t) # NULL => E[t] # NULL
  BY <1>1, <1>3, <1>5
<1>11. PutDir(i, E) = Relabelled(i, n, new)
  BY DEF E, s, Relabelled
<1>12. /\ At(disk, i, s) # NULL /\ At(disk, i, s).name = n /\ At(disk, i, s).inode = Found(i, n)
       /\ E[s] # NULL /\ E[s].name = new /\ E[s].inode = Found(i, n)
       /\ \A t \in Slots : t # s => E[t] = At(disk, i, t)
  BY <1>1, <1>3, <1>5
<1> QED BY <1>1, <1>7, <1>9, <1>10, <1>11, <1>12

(* A state in which a handler runs. *)
Ready(S) == /\ Image /\ bitmap \in SUBSET Blocks /\ call \in Calls
            /\ Sound(disk, S) /\ Marked(disk, bitmap, S)

(* A call that writes nothing is a plan. *)
LEMMA RefuseIs ==
  ASSUME NEW S, Ready(S)
  PROVE  /\ Typed(<<>>) /\ Planned(disk, bitmap, <<>>, call.op)
         /\ Exact(disk, bitmap, S) => Settles(disk, bitmap, <<>>, call.op)
<1>1. Planned(disk, bitmap, <<>>, call.op)
  BY QuietPlan DEF Ready, Quiet
<1>2. Exact(disk, bitmap, S) => Settles(disk, bitmap, <<>>, call.op)
  BY SnugSettles DEF Ready, Snug
<1> QED BY <1>1, <1>2 DEF Typed

(* So is one that takes blocks, or writes to them, and does nothing else.   *)
LEMMA TakeIs ==
  ASSUME NEW S, Ready(S), NEW ws \in Seq(WriteType),
         \A j \in 1..Len(ws) :
           \/ ws[j].lba = 1 /\ ws[j].value.kind = "bitmap" /\ bitmap \subseteq ws[j].value.set
           \/ ws[j].lba # 1 /\ ws[j].lba \notin Taken(disk, S)
  PROVE  Typed(ws) /\ Planned(disk, bitmap, ws, call.op)
<1>1. Typed(ws)
  BY DEF Typed
<1>2. Sound(disk, S) /\ Marked(disk, bitmap, S) /\ Taken(disk, S) \subseteq bitmap
  BY DEF Ready, Marked
<1>3. \A j \in 1..Len(ws) : Harmless(disk, ws[j], S)
  BY <1>2, OutsideHarmless
<1>4. \A j \in 1..Len(ws) : ws[j].lba = 1 => Taken(disk, S) \subseteq ws[j].value.set
  BY <1>2
<1>5. Len(ws) \in Nat
  OBVIOUS
<1> QED BY <1>1, <1>2, <1>3, <1>4, <1>5, HarmlessPlan

(* The blocks allocate_block gives out are not taken.                       *)
LEMMA GotIs ==
  ASSUME NEW S, Ready(S), NEW n \in Nat
  PROVE  LET got == Allocated(n) IN
         /\ got \in Seq(Blocks) /\ Len(got) \in Nat /\ Len(got) <= n
         /\ \A k \in 1..Len(got) : got[k] \in Space /\ got[k] \in Blocks /\ got[k] \notin Taken(disk, S)
         /\ \A j, k \in 1..Len(got) : got[j] = got[k] => j = k
<1> DEFINE got == Allocated(n)
<1>1. /\ got \in Seq(Free) /\ Len(got) \in Nat /\ Len(got) <= n
      /\ \A k \in 1..Len(got) : got[k] \in Space /\ got[k] \notin bitmap
      /\ \A j, k \in 1..Len(got) : got[j] = got[k] => j = k
  BY AllocatedAre
<1> HIDE DEF got
<1>2. \A k \in 1..Len(got) : got[k] \in Blocks
  BY <1>1, Sizes
<1>3. got \in Seq(Blocks)
  BY <1>1, <1>2
<1> QED BY <1>1, <1>2, <1>3 DEF got, Ready, Marked
----------------------------------------------------------------------------
(* The operations. *)

\* What every operation leaves to be written: unless space ran out, writes that
\* balance the bitmap.
Goes(S, ws) == /\ Typed(ws) /\ Planned(disk, bitmap, ws, call.op)
               /\ ~failed' /\ Exact(disk, bitmap, S) => Settles(disk, bitmap, ws, call.op)

(* A call that only answers leaves the empty plan.                          *)
LEMMA RefuseGoes == ASSUME NEW S, Ready(S), NEW r, Finish(<<>>, r) PROVE Goes(S, writes')
<1>1. writes' = <<>>
  BY DEF Finish
<1> QED BY <1>1, RefuseIs DEF Goes

(* fs_create and fs_mkdir go on only in a directory. *)
LEMMA AddOk ==
  ASSUME NEW S, Ready(S), AddError(call.path) = 0
  PROVE  LookupParent(call.path) \in Dirs(disk, S) /\ Leaf(call.path) \in Names
<1> DEFINE d == LookupParent(call.path)
<1>1. call.path \in Seq(Names) /\ Image /\ Sound(disk, S)
  BY ConstantFacts DEF Ready
<1>2. d \in Int /\ (~(d < 0) => d \in S /\ Leaf(call.path) \in Names)
  BY <1>1, ParentReaches
<1> HIDE DEF d
<1>3. CASE d < 0
  <2>1. AddError(call.path) = d
    BY <1>2, <1>3 DEF AddError, d
  <2> QED BY <1>3, <2>1
<1>4. CASE ~(d < 0)
  <2>1. IsDir(d)
    <3>1. d >= 0
      BY <1>2, <1>4
    <3> QED BY <1>2, <1>4, <3>1 DEF AddError, d, ENOTDIR
  <2> QED BY <1>1, <1>2, <1>4, <2>1, InodeRead DEF d
<1> QED BY <1>3, <1>4

(* A sequence of at most one element that is not empty has one.             *)
LEMMA AllOfOne == ASSUME NEW T, NEW s \in Seq(T), s # <<>>, Len(s) <= 1 PROVE Len(s) = 1
<1>1. Len(s) \in Nat \ {0}
  BY EmptySeq
<1> QED BY <1>1

\* Writes of the bitmap that keep every bit, and to blocks that are not taken.
Takes(S, ws) == /\ ws \in Seq(WriteType) /\ ws # <<>>
                /\ \A j \in 1..Len(ws) :
                     \/ ws[j].lba = 1 /\ ws[j].value.kind = "bitmap" /\ bitmap \subseteq ws[j].value.set
                     \/ ws[j].lba # 1 /\ ws[j].lba \notin Taken(disk, S)
\* Such writes, and last that of entry n of directory i for a new node v of type
\* ty, which is there when they are made.
NewNode(S, op, v, ty, ws, c) ==
  /\ Begins(ws, c, Taken(disk, S))
  /\ \A e : DiskAfter(disk, ws, op, Len(ws), e)
       => /\ Fresh(e, v) /\ Apart(disk, e, S, v) /\ e[v].type = ty
          /\ {v} \cup Owned(e, v) \subseteq ws[c].value.set
          /\ ws[c].value.set \subseteq bitmap \cup {v} \cup Owned(e, v)
NewEntry(i, n, v, w, s) ==
  /\ At(disk, i, s) = NULL /\ w.value.entries[s] # NULL
  /\ w.value.entries[s].inode = v /\ w.value.entries[s].name = n
  /\ \A t \in Slots : t # s => w.value.entries[t] = At(disk, i, t)
Links(S, i, n, v, ty, ws) ==
  /\ Typed(ws) /\ call.op \notin Freeing
  /\ i \in Dirs(disk, S) /\ n \in Names /\ v \in Space /\ v \notin Taken(disk, S)
  /\ \A j \in 1..(Len(ws) - 1) : ws[j].lba = 1 \/ ws[j].lba \notin Taken(disk, S)
  /\ \E c : NewNode(S, call.op, v, ty, ws, c)
  /\ ws[Len(ws)].lba = Head0(disk, i) /\ ws[Len(ws)].value \in DirType
  /\ \E s \in Slots : NewEntry(i, n, v, ws[Len(ws)], s)

(* Such a sequence is a plan.                                               *)
LEMMA LinksGo ==
  ASSUME NEW S, Ready(S), NEW i, NEW n, NEW v, NEW ty, NEW ws, Links(S, i, n, v, ty, ws)
  PROVE  Goes(S, ws)
<1>1. /\ Typed(ws) /\ call.op \notin Freeing
      /\ i \in Dirs(disk, S) /\ v \in Space /\ v \notin Taken(disk, S)
      /\ \A j \in 1..(Len(ws) - 1) : ws[j].lba = 1 \/ ws[j].lba \notin Taken(disk, S)
      /\ ws[Len(ws)].lba = Head0(disk, i) /\ ws[Len(ws)].value \in DirType
  BY DEF Links
<1>2. PICK c : NewNode(S, call.op, v, ty, ws, c)
  BY DEF Links
<1>3. PICK s \in Slots : NewEntry(i, n, v, ws[Len(ws)], s)
  BY DEF Links
<1>4. /\ Begins(ws, c, Taken(disk, S))
      /\ \A e : DiskAfter(disk, ws, call.op, Len(ws), e)
           => /\ Fresh(e, v) /\ Apart(disk, e, S, v)
              /\ {v} \cup Owned(e, v) \subseteq ws[c].value.set
              /\ ws[c].value.set \subseteq bitmap \cup {v} \cup Owned(e, v)
  BY <1>2 DEF NewNode
<1>5. /\ At(disk, i, s) = NULL /\ ws[Len(ws)].value.entries[s] # NULL
      /\ ws[Len(ws)].value.entries[s].inode = v
      /\ \A t \in Slots : t # s => ws[Len(ws)].value.entries[t] = At(disk, i, t)
  BY <1>3 DEF NewEntry
<1>6. Len(ws) \in Nat
  BY <1>1 DEF Typed
<1>7. Planned(disk, bitmap, ws, call.op) /\ (Exact(disk, bitmap, S) => Settles(disk, bitmap, ws, call.op))
  <2>1. Sound(disk, S) /\ Marked(disk, bitmap, S)
    BY DEF Ready
  <2> QED BY <1>1, <1>4, <1>5, <1>6, <2>1, LinkPlan
<1> QED BY <1>1, <1>7 DEF Goes

(* Writes that take blocks and do nothing else are a plan of a call that     *)
(* finds no space.                                                          *)
LEMMA TakesGo ==
  ASSUME NEW S, Ready(S), NEW ws, Takes(S, ws), Finish(ws, Error(ENOSPC))
  PROVE  Goes(S, writes')
<1>1. /\ ws \in Seq(WriteType)
      /\ \A j \in 1..Len(ws) :
           \/ ws[j].lba = 1 /\ ws[j].value.kind = "bitmap" /\ bitmap \subseteq ws[j].value.set
           \/ ws[j].lba # 1 /\ ws[j].lba \notin Taken(disk, S)
  BY DEF Takes
<1>2. writes' = ws /\ failed'
  BY DEF Finish, Error
<1> QED BY <1>1, <1>2, TakeIs DEF Goes

\* What fs_create writes besides the entry: marks and an inode x in the block it got.
CreateParts(S, got, x, inode, marks) ==
  /\ Image /\ Sound(disk, S) /\ Marked(disk, bitmap, S)
  /\ Taken(disk, S) \subseteq bitmap
  /\ Len(got) = 1 /\ got[1] \in Space /\ got[1] \in Blocks /\ got[1] \notin Taken(disk, S)
  /\ marks \in Seq(WriteType) /\ Len(marks) = 1
  /\ marks[1].lba = 1 /\ marks[1].value.kind = "bitmap"
  /\ bitmap \subseteq marks[1].value.set /\ got[1] \in marks[1].value.set
  /\ marks[1].value.set = bitmap \cup {got[1]}
  /\ x \in InodeType /\ x.size = 0 /\ x.ptrs[0] = 0 /\ x.type = "file"
  /\ inode \in Seq(WriteType) /\ Len(inode) = 1
  /\ inode[1].lba = got[1] /\ inode[1].lba # 1 /\ inode[1].value = x

(* It marks a block that is not taken.                                      *)
LEMMA CreatePartsAre ==
  ASSUME NEW S, Ready(S), Allocated(1) # <<>>
  PROVE  LET got == Allocated(1)
             x == Inode("file", 0, NoPtrs)
         IN  CreateParts(S, got, x, <<Put(got[1], x)>>, MarkUsed(got))
<1> DEFINE got == Allocated(1)
           x == Inode("file", 0, NoPtrs)
           inode == <<Put(got[1], x)>>
           marks == MarkUsed(got)
<1>1. /\ got \in Seq(Blocks) /\ Len(got) \in Nat /\ Len(got) <= 1
      /\ \A k \in 1..Len(got) : got[k] \in Space /\ got[k] \in Blocks /\ got[k] \notin Taken(disk, S)
  BY GotIs
<1>n. got # <<>>
  OBVIOUS
<1> HIDE DEF got
<1>2. Len(got) = 1
  BY <1>1, <1>n, AllOfOne
<1>3. 1 \in 1..Len(got) /\ 1 \in 1..1
  BY <1>2
<1>4. /\ marks \in Seq(WriteType) /\ Len(marks) = Len(got)
      /\ marks[1].lba = 1 /\ marks[1].value.kind = "bitmap"
      /\ bitmap \subseteq marks[1].value.set /\ got[1] \in marks[1].value.set
      /\ marks[1].value.set = bitmap \cup FirstOf(got, 1)
  BY <1>1, <1>3, MarkUsedIs DEF Ready
<1>8. FirstOf(got, 1) = {got[1]}
  BY DEF FirstOf
<1>5. x \in InodeType /\ x.size = 0 /\ x.ptrs[0] = 0 /\ x.type = "file"
  BY ConstantFacts, Sizes DEF Inode, InodeType, NoPtrs, MaxFile
<1> HIDE DEF x, marks
<1>6. /\ Put(got[1], x) \in WriteType /\ Put(got[1], x).lba = got[1]
      /\ Put(got[1], x).lba # 1 /\ Put(got[1], x).value = x
  BY <1>1, <1>3, <1>5, Contents, PutIs
<1>9. CreateParts(S, got, x, inode, marks)
  BY <1>1, <1>2, <1>3, <1>4, <1>5, <1>6, <1>8 DEF Ready, Marked, CreateParts
<1> QED BY <1>9 DEF got, x, marks

(* It may end there.                                                        *)
LEMMA CreateTakes ==
  ASSUME NEW S, Ready(S), Allocated(1) # <<>>
  PROVE  Takes(S, MarkUsed(Allocated(1)) \o <<Put(Allocated(1)[1], Inode("file", 0, NoPtrs))>>)
<1> DEFINE got == Allocated(1)
           x == Inode("file", 0, NoPtrs)
           inode == <<Put(got[1], x)>>
           marks == MarkUsed(got)
<1>3. CreateParts(S, got, x, inode, marks)
  BY CreatePartsAre
<1> HIDE DEF got, x, inode, marks
<1> DEFINE ws == marks \o inode
<1>4. /\ ws \in Seq(WriteType) /\ Len(ws) = 2 /\ ws[1] = marks[1] /\ ws[2] = inode[1]
  <2>1. marks \in Seq(WriteType) /\ inode \in Seq(WriteType) /\ Len(marks) = 1 /\ Len(inode) = 1
    BY <1>3 DEF CreateParts
  <2>2. /\ ws \in Seq(WriteType) /\ Len(ws) = Len(marks) + Len(inode)
        /\ \A j \in 1..Len(marks) : ws[j] = marks[j]
        /\ \A j \in 1..Len(inode) : ws[Len(marks) + j] = inode[j]
    BY <2>1, TwoParts
  <2> QED BY <2>1, <2>2
<1> HIDE DEF ws
<1>5. \A j \in 1..Len(ws) : j = 1 \/ j = 2
  BY <1>4
<1>6. \A j \in 1..Len(ws) :
         \/ ws[j].lba = 1 /\ ws[j].value.kind = "bitmap" /\ bitmap \subseteq ws[j].value.set
         \/ ws[j].lba # 1 /\ ws[j].lba \notin Taken(disk, S)
  BY <1>3, <1>4, <1>5 DEF CreateParts
<1>7. ws # <<>>
  <2> SUFFICES ASSUME ws = <<>> PROVE FALSE
    OBVIOUS
  <2>1. Len(<<>>) = 0
    BY EmptySeq
  <2>2. Len(ws) = 2
    BY <1>4
  <2> QED BY <2>1, <2>2
<1> QED BY <1>4, <1>6, <1>7 DEF Takes, ws, marks, inode, x, got

(* Or go on with the entry.                                                 *)
LEMMA CreateLinks ==
  ASSUME NEW S, Ready(S), call.op = "create", AddError(call.path) = 0, Allocated(1) # <<>>,
         FreeSlots(LookupParent(call.path)) # {}
  PROVE  LET d == LookupParent(call.path)
             got == Allocated(1)
             n == Leaf(call.path)
         IN  Links(S, d, n, got[1], "file",
                   LinkLast(MarkUsed(got), <<Put(got[1], Inode("file", 0, NoPtrs))>>, PutEntry(d, n, got[1])))
<1> DEFINE got == Allocated(1)
           x == Inode("file", 0, NoPtrs)
           inode == <<Put(got[1], x)>>
           marks == MarkUsed(got)
           d == LookupParent(call.path)
           n == Leaf(call.path)
<1>p. CreateParts(S, got, x, inode, marks)
  BY CreatePartsAre
<1>q. d \in Dirs(disk, S) /\ n \in Names
  BY AddOk
<1> DEFINE v == got[1]
           w == PutEntry(d, n, v)
           ws == marks \o inode \o <<w>>
           op == call.op
<1>0. op \notin Freeing
  BY DEF Freeing
<1>a. /\ Image /\ Sound(disk, S) /\ Marked(disk, bitmap, S) /\ d \in Dirs(disk, S) /\ n \in Names
      /\ FreeSlots(d) # {} /\ v \in Space /\ v \in Blocks /\ v \notin Taken(disk, S)
  BY <1>p, <1>q DEF CreateParts, Ready
<1> HIDE DEF got, x, inode, marks, n, d
<1>1. /\ w \in WriteType /\ w.lba = Head0(disk, d) /\ w.lba # 1 /\ w.value \in DirType
      /\ \E s \in Slots : /\ At(disk, d, s) = NULL /\ w.value.entries[s] = Entry(n, v)
                          /\ \A t \in Slots : t # s => w.value.entries[t] = At(disk, d, t)
      /\ Entry(n, v) # NULL /\ Entry(n, v).inode = v /\ Entry(n, v).name = n
  BY <1>a, PutEntryIs
<1> HIDE DEF w, v
<1>2. PICK s \in Slots : /\ At(disk, d, s) = NULL
                         /\ w.value.entries[s] # NULL /\ w.value.entries[s].inode = v
                         /\ w.value.entries[s].name = n
                         /\ \A t \in Slots : t # s => w.value.entries[t] = At(disk, d, t)
  BY <1>1
<1>3. ws \in Seq(WriteType) /\ Len(ws) = 3 /\ ws[1] = marks[1] /\ ws[2] = inode[1] /\ ws[3] = w
  <2>1. marks \in Seq(WriteType) /\ inode \in Seq(WriteType) /\ Len(marks) = 1 /\ Len(inode) = 1
    BY <1>p DEF CreateParts
  <2>w. w \in WriteType
    BY <1>1
  <2>2. /\ ws \in Seq(WriteType) /\ Len(ws) = Len(marks) + Len(inode) + 1 /\ ws[Len(ws)] = w
        /\ \A j \in 1..Len(marks) : ws[j] = marks[j]
        /\ \A j \in 1..Len(inode) : ws[Len(marks) + j] = inode[j]
    <3>1. Joined(ws, marks, inode, w)
      BY <2>1, <2>w, ThreeParts
    <3> QED BY <3>1 DEF Joined
  <2> QED BY <2>1, <2>2
<1> HIDE DEF ws
<1>4. /\ \A j \in 1..Len(ws) : j = 1 \/ j = 2 \/ j = 3
      /\ \A j \in 1..(Len(ws) - 1) : j = 1 \/ j = 2
      /\ \A j \in 1..1 : j = 1
      /\ 1 \in 1..(Len(ws) - 1) /\ Len(ws) \in Nat
  BY <1>3
<1>5. /\ ws[1].lba = 1 /\ ws[1].value.kind = "bitmap" /\ Taken(disk, S) \subseteq ws[1].value.set
      /\ v \in ws[1].value.set /\ ws[1].value.set = bitmap \cup {v}
      /\ ws[2].lba = v /\ ws[2].lba # 1 /\ ws[2].lba \notin Taken(disk, S) /\ ws[2].value = x
      /\ ws[3].lba = Head0(disk, d) /\ ws[3].lba # 1 /\ ws[3].value = w.value
      /\ x \in InodeType /\ x.size = 0 /\ x.ptrs[0] = 0 /\ x.type = "file"
  BY <1>p, <1>a, <1>1, <1>3 DEF v, CreateParts
<1>6. Typed(ws)
  BY <1>3, <1>4, <1>5 DEF Typed
<1>7. \A j \in 1..Len(ws) : ws[j].lba = 1 <=> j <= 1
  BY <1>4, <1>5
<1>8. v # Head0(disk, d)
  <2>1. Head0(disk, d) \in Taken(disk, S)
    BY <1>a, TakenAre
  <2> QED BY <1>a, <2>1
<1>9. ASSUME NEW e, DiskAfter(disk, ws, op, Len(ws), e) PROVE e[v] = x
  <2>1. Latest(ws, Len(ws), v, 2)
    <3>1. \A j \in (2 + 1)..Len(ws) : j = 3
      BY <1>3
    <3> QED BY <1>5, <1>8, <3>1 DEF Latest
  <2>2. v \in 1..(DiskSize - 1) /\ v # 1 /\ 2 \in 1..Len(ws)
    BY <1>a, <1>3, Sizes
  <2> QED BY <1>5, <1>9, <2>1, <2>2, BlockAfter
<1>10. ASSUME NEW e, DiskAfter(disk, ws, op, Len(ws), e)
       PROVE  Fresh(e, v) /\ Owns(e, v) = {} /\ Owned(e, v) = {} /\ e[v].type = "file"
  <2>1. e[v] = x
    BY <1>9, <1>10
  <2>2. Owns(e, v) = {}
    BY <1>5, <2>1, BlocksOfNothing DEF Owns
  <2> QED BY <1>5, <2>1, <2>2 DEF Fresh, Head0, Owned
<1>11. \A e : DiskAfter(disk, ws, op, Len(ws), e)
         => /\ Fresh(e, v) /\ Apart(disk, e, S, v) /\ e[v].type = "file"
            /\ {v} \cup Owned(e, v) \subseteq ws[1].value.set
            /\ ws[1].value.set \subseteq bitmap \cup {v} \cup Owned(e, v)
  BY <1>5, <1>10 DEF Apart
<1> DEFINE c == 1
<1>12. NewNode(S, op, v, "file", ws, c)
  BY <1>4, <1>5, <1>7, <1>11 DEF Begins, NewNode
<1> HIDE DEF c
<1>13. /\ \A j \in 1..(Len(ws) - 1) : ws[j].lba = 1 \/ ws[j].lba \notin Taken(disk, S)
       /\ ws[Len(ws)].lba = Head0(disk, d) /\ ws[Len(ws)].value \in DirType
       /\ NewEntry(d, n, v, ws[Len(ws)], s)
  BY <1>1, <1>2, <1>3, <1>4, <1>5 DEF NewEntry
<1>14. Links(S, d, n, v, "file", ws)
  BY <1>0, <1>a, <1>6, <1>12, <1>13 DEF Links, op
<1> QED BY <1>14 DEF LinkLast, ws, w, v, inode, x, marks, got, d, n

(* fs_create marks a block, writes an inode there and then the entry.       *)
LEMMA CreateGoes == ASSUME NEW S, Ready(S), Create PROVE Goes(S, writes')
<1> DEFINE d == LookupParent(call.path)
           got == Allocated(1)
           inode == <<Put(got[1], Inode("file", 0, NoPtrs))>>
           n == Leaf(call.path)
           ws == LinkLast(MarkUsed(got), inode, PutEntry(d, n, got[1]))
<1>1. CASE AddError(call.path) # 0 /\ Refuse(AddError(call.path))
  BY <1>1, RefuseGoes DEF Refuse
<1>2. CASE AddError(call.path) = 0 /\ got = <<>> /\ Refuse(ENOSPC)
  BY <1>2, RefuseGoes DEF Refuse
<1>3. CASE got # <<>> /\ Finish(MarkUsed(got) \o inode, Error(ENOSPC))
  <2>1. Takes(S, MarkUsed(got) \o inode)
    BY <1>3, CreateTakes
  <2> QED BY <1>3, <2>1, TakesGo
<1>4. CASE AddError(call.path) = 0 /\ got # <<>> /\ FreeSlots(d) # {} /\ Finish(ws, Success(NULL))
  <2>1. call.op = "create"
    BY DEF Create, Handling
  <2>2. Links(S, d, n, got[1], "file", ws)
    BY <1>4, <2>1, CreateLinks
  <2>3. writes' = ws
    BY <1>4 DEF Finish
  <2> QED BY <2>2, <2>3, LinksGo
<1> QED BY <1>1, <1>2, <1>3, <1>4 DEF Create

\* What fs_mkdir writes besides the entry: marks, and an empty block y of entries
\* and an inode x in the blocks it got.
MkdirParts(S, got, y, x, blocks, marks) ==
  /\ got[1] \in Space /\ got[1] \in Blocks /\ got[1] \notin Taken(disk, S)
  /\ got[2] \in Space /\ got[2] \in Blocks /\ got[2] \notin Taken(disk, S) /\ got[1] # got[2]
  /\ marks \in Seq(WriteType) /\ Len(marks) = 2
  /\ marks[1].lba = 1 /\ marks[1].value.kind = "bitmap" /\ bitmap \subseteq marks[1].value.set
  /\ marks[2].lba = 1 /\ marks[2].value.kind = "bitmap" /\ bitmap \subseteq marks[2].value.set
  /\ got[1] \in marks[2].value.set /\ got[2] \in marks[2].value.set
  /\ marks[2].value.set = bitmap \cup {got[1], got[2]}
  /\ x \in InodeType /\ x.size = BlockSize /\ x.ptrs[0] = got[2] /\ x.type = "dir"
  /\ y \in DirType /\ \A s \in Slots : y.entries[s] = NULL
  /\ blocks \in Seq(WriteType) /\ Len(blocks) = 2
  /\ blocks[1].lba = got[2] /\ blocks[1].lba # 1 /\ blocks[1].value = y
  /\ blocks[2].lba = got[1] /\ blocks[2].lba # 1 /\ blocks[2].value = x

(* It marks two blocks that are not taken.                                  *)
LEMMA MkdirPartsAre ==
  ASSUME NEW S, Ready(S), Len(Allocated(2)) = 2
  PROVE  LET got == Allocated(2)
             y == DirBlock(EmptyDir)
             x == Inode("dir", BlockSize, [NoPtrs EXCEPT ![0] = got[2]])
         IN  MkdirParts(S, got, y, x, <<Put(got[2], y), Put(got[1], x)>>, MarkUsed(got))
<1> DEFINE got == Allocated(2)
           y == DirBlock(EmptyDir)
           x == Inode("dir", BlockSize, [NoPtrs EXCEPT ![0] = got[2]])
           blocks == <<Put(got[2], y), Put(got[1], x)>>
           marks == MarkUsed(got)
<1>g. /\ bitmap \in SUBSET Blocks
      /\ got \in Seq(Blocks) /\ Len(got) \in Nat /\ Len(got) <= 2
      /\ \A k \in 1..Len(got) : got[k] \in Space /\ got[k] \in Blocks /\ got[k] \notin Taken(disk, S)
      /\ \A j, k \in 1..Len(got) : got[j] = got[k] => j = k
  BY GotIs DEF Ready
<1>l. Len(got) = 2
  OBVIOUS
<1> HIDE DEF got
<1>1. 1 \in 1..Len(got) /\ 2 \in 1..Len(got) /\ 1 \in 1..2 /\ 2 \in 1..2 /\ 1 \in 1..1
  BY <1>l
<1>2. /\ got[1] \in Space /\ got[1] \in Blocks /\ got[1] \notin Taken(disk, S)
      /\ got[2] \in Space /\ got[2] \in Blocks /\ got[2] \notin Taken(disk, S) /\ got[1] # got[2]
  BY <1>g, <1>1
<1>3. /\ marks \in Seq(WriteType) /\ Len(marks) = Len(got)
      /\ \A k \in 1..Len(got) : /\ marks[k].lba = 1 /\ marks[k].value.kind = "bitmap"
                                /\ bitmap \subseteq marks[k].value.set
                                /\ \A j \in 1..k : got[j] \in marks[k].value.set
                                /\ marks[k].value.set = bitmap \cup FirstOf(got, k)
  BY <1>g, MarkUsedIs
<1> HIDE DEF marks
<1>4. /\ Len(marks) = 2
      /\ marks[1].lba = 1 /\ marks[1].value.kind = "bitmap" /\ bitmap \subseteq marks[1].value.set
      /\ marks[2].lba = 1 /\ marks[2].value.kind = "bitmap" /\ bitmap \subseteq marks[2].value.set
      /\ got[1] \in marks[2].value.set /\ got[2] \in marks[2].value.set
      /\ marks[2].value.set = bitmap \cup FirstOf(got, 2)
  BY <1>l, <1>1, <1>3
<1>5. BlockSize \in 0..MaxFile
  <2>1. MaxPtrs \in Nat \ {0} /\ BlockSize \in Nat \ {0}
    BY ConstantFacts
  <2>2. BlockSize <= MaxPtrs * BlockSize /\ MaxPtrs * BlockSize \in Nat
    BY <2>1
  <2> QED BY <2>1, <2>2 DEF MaxFile
<1>6. x \in InodeType /\ x.size = BlockSize /\ x.ptrs[0] = got[2] /\ x.type = "dir"
  <2>1. NoPtrs \in [Ptrs -> Blocks] /\ 0 \in Ptrs
    BY ConstantFacts, Sizes DEF NoPtrs
  <2> DEFINE p == [NoPtrs EXCEPT ![0] = got[2]]
  <2>2. p \in [Ptrs -> Blocks] /\ p[0] = got[2]
    BY <1>2, <2>1
  <2> HIDE DEF p
  <2>3. Inode("dir", BlockSize, p) \in InodeType
    BY <1>5, <2>2 DEF Inode, InodeType
  <2> QED BY <2>2, <2>3 DEF Inode, p
<1>7. y \in DirType /\ \A s \in Slots : y.entries[s] = NULL
  BY DEF DirBlock, EmptyDir, DirType
<1> HIDE DEF x, y
<1>8. /\ Put(got[2], y) \in WriteType /\ Put(got[2], y).lba = got[2]
      /\ Put(got[2], y).lba # 1 /\ Put(got[2], y).value = y
  BY <1>2, <1>7, Contents, PutIs
<1>9. /\ Put(got[1], x) \in WriteType /\ Put(got[1], x).lba = got[1]
      /\ Put(got[1], x).lba # 1 /\ Put(got[1], x).value = x
  BY <1>2, <1>6, Contents, PutIs
<1>10. blocks \in Seq(WriteType) /\ Len(blocks) = 2 /\ blocks[1] = Put(got[2], y) /\ blocks[2] = Put(got[1], x)
  BY <1>8, <1>9
<1> HIDE DEF blocks
<1>11. FirstOf(got, 2) = {got[1], got[2]}
  <2>1. \A j \in 1..2 : j = 1 \/ j = 2
    OBVIOUS
  <2> QED BY <1>1, <2>1 DEF FirstOf
<1>12. MkdirParts(S, got, y, x, blocks, marks)
  BY <1>2, <1>3, <1>4, <1>6, <1>7, <1>8, <1>9, <1>10, <1>11 DEF MkdirParts
<1> QED BY <1>12 DEF got, y, x, blocks, marks

(* It may end there.                                                        *)
LEMMA MkdirTakes ==
  ASSUME NEW S, Ready(S), Len(Allocated(2)) = 2
  PROVE  LET got == Allocated(2)
         IN  Takes(S, MarkUsed(got) \o <<Put(got[2], DirBlock(EmptyDir)),
                                         Put(got[1], Inode("dir", BlockSize, [NoPtrs EXCEPT ![0] = got[2]]))>>)
<1> DEFINE got == Allocated(2)
           y == DirBlock(EmptyDir)
           x == Inode("dir", BlockSize, [NoPtrs EXCEPT ![0] = got[2]])
           blocks == <<Put(got[2], y), Put(got[1], x)>>
           marks == MarkUsed(got)
<1>p. MkdirParts(S, got, y, x, blocks, marks)
  BY MkdirPartsAre
<1> HIDE DEF got, x, y, blocks, marks
<1> DEFINE ws == marks \o blocks
<1>1. /\ ws \in Seq(WriteType) /\ Len(ws) = 4 /\ ws[1] = marks[1] /\ ws[2] = marks[2]
      /\ ws[3] = blocks[1] /\ ws[4] = blocks[2]
  <2>1. marks \in Seq(WriteType) /\ blocks \in Seq(WriteType) /\ Len(marks) = 2 /\ Len(blocks) = 2
    BY <1>p DEF MkdirParts
  <2>2. /\ ws \in Seq(WriteType) /\ Len(ws) = Len(marks) + Len(blocks)
        /\ \A j \in 1..Len(marks) : ws[j] = marks[j]
        /\ \A j \in 1..Len(blocks) : ws[Len(marks) + j] = blocks[j]
    BY <2>1, TwoParts
  <2>3. 1 \in 1..2 /\ 2 \in 1..2 /\ 2 + 1 = 3 /\ 2 + 2 = 4
    OBVIOUS
  <2> QED BY <2>1, <2>2, <2>3
<1> HIDE DEF ws
<1>2. \A j \in 1..Len(ws) : j = 1 \/ j = 2 \/ j = 3 \/ j = 4
  BY <1>1
<1>3. \A j \in 1..Len(ws) :
         \/ ws[j].lba = 1 /\ ws[j].value.kind = "bitmap" /\ bitmap \subseteq ws[j].value.set
         \/ ws[j].lba # 1 /\ ws[j].lba \notin Taken(disk, S)
  BY <1>p, <1>1, <1>2 DEF MkdirParts
<1>4. ws # <<>>
  <2>1. Len(<<>>) = 0
    BY EmptySeq
  <2> QED BY <1>1, <2>1
<1> QED BY <1>1, <1>3, <1>4 DEF Takes, ws, got, y, x, blocks, marks

(* Or go on with the entry.                                                 *)
LEMMA MkdirLinks ==
  ASSUME NEW S, Ready(S), call.op = "mkdir", AddError(call.path) = 0, Len(Allocated(2)) = 2,
         FreeSlots(LookupParent(call.path)) # {}
  PROVE  LET d == LookupParent(call.path)
             got == Allocated(2)
             n == Leaf(call.path)
             blocks == <<Put(got[2], DirBlock(EmptyDir)),
                         Put(got[1], Inode("dir", BlockSize, [NoPtrs EXCEPT ![0] = got[2]]))>>
         IN  Links(S, d, n, got[1], "dir", LinkLast(MarkUsed(got), blocks, PutEntry(d, n, got[1])))
<1> DEFINE got == Allocated(2)
           y == DirBlock(EmptyDir)
           x == Inode("dir", BlockSize, [NoPtrs EXCEPT ![0] = got[2]])
           blocks == <<Put(got[2], y), Put(got[1], x)>>
           marks == MarkUsed(got)
           d == LookupParent(call.path)
           n == Leaf(call.path)
<1>p. MkdirParts(S, got, y, x, blocks, marks)
  BY MkdirPartsAre
<1>q. d \in Dirs(disk, S) /\ n \in Names
  BY AddOk
<1>r. Taken(disk, S) \subseteq bitmap
  BY DEF Ready, Marked
<1> DEFINE v == got[1]
           b == got[2]
           w == PutEntry(d, n, v)
           ws == marks \o blocks \o <<w>>
           op == call.op
<1>0. op \notin Freeing
  BY DEF Freeing
<1>a. /\ Image /\ Sound(disk, S) /\ Marked(disk, bitmap, S) /\ d \in Dirs(disk, S) /\ n \in Names
      /\ FreeSlots(d) # {} /\ v \in Space /\ v \in Blocks /\ v \notin Taken(disk, S)
      /\ b \in Space /\ b \notin Taken(disk, S) /\ v # b
  BY <1>p, <1>q DEF MkdirParts, Ready
<1> HIDE DEF got, x, y, blocks, marks, n, d
<1>1. /\ w \in WriteType /\ w.lba = Head0(disk, d) /\ w.lba # 1 /\ w.value \in DirType
      /\ \E s \in Slots : /\ At(disk, d, s) = NULL /\ w.value.entries[s] = Entry(n, v)
                          /\ \A t \in Slots : t # s => w.value.entries[t] = At(disk, d, t)
      /\ Entry(n, v) # NULL /\ Entry(n, v).inode = v /\ Entry(n, v).name = n
  BY <1>a, PutEntryIs
<1> HIDE DEF w, v, b
<1>2. PICK s \in Slots : /\ At(disk, d, s) = NULL
                         /\ w.value.entries[s] # NULL /\ w.value.entries[s].inode = v
                         /\ w.value.entries[s].name = n
                         /\ \A t \in Slots : t # s => w.value.entries[t] = At(disk, d, t)
  BY <1>1
<1>3. /\ ws \in Seq(WriteType) /\ Len(ws) = 5 /\ ws[1] = marks[1] /\ ws[2] = marks[2]
      /\ ws[3] = blocks[1] /\ ws[4] = blocks[2] /\ ws[5] = w
  <2>1. marks \in Seq(WriteType) /\ blocks \in Seq(WriteType) /\ Len(marks) = 2 /\ Len(blocks) = 2
    BY <1>p DEF MkdirParts
  <2>w. w \in WriteType
    BY <1>1
  <2>2. /\ ws \in Seq(WriteType) /\ Len(ws) = Len(marks) + Len(blocks) + 1 /\ ws[Len(ws)] = w
        /\ \A j \in 1..Len(marks) : ws[j] = marks[j]
        /\ \A j \in 1..Len(blocks) : ws[Len(marks) + j] = blocks[j]
    <3>1. Joined(ws, marks, blocks, w)
      BY <2>1, <2>w, ThreeParts
    <3> QED BY <3>1 DEF Joined
  <2>3. 1 \in 1..2 /\ 2 \in 1..2 /\ 2 + 1 = 3 /\ 2 + 2 = 4 /\ 2 + 2 + 1 = 5
    OBVIOUS
  <2> QED BY <2>1, <2>2, <2>3
<1> HIDE DEF ws
<1>4. /\ \A j \in 1..Len(ws) : j = 1 \/ j = 2 \/ j = 3 \/ j = 4 \/ j = 5
      /\ \A j \in 1..(Len(ws) - 1) : j = 1 \/ j = 2 \/ j = 3 \/ j = 4
      /\ \A j \in 1..2 : j = 1 \/ j = 2
      /\ 2 \in 1..(Len(ws) - 1) /\ Len(ws) \in Nat
  BY <1>3
<1>5. /\ ws[1].lba = 1 /\ ws[1].value.kind = "bitmap" /\ Taken(disk, S) \subseteq ws[1].value.set
      /\ ws[2].lba = 1 /\ ws[2].value.kind = "bitmap" /\ Taken(disk, S) \subseteq ws[2].value.set
      /\ v \in ws[2].value.set /\ b \in ws[2].value.set /\ ws[2].value.set = bitmap \cup {v, b}
      /\ ws[3].lba = b /\ ws[3].lba # 1 /\ ws[3].lba \notin Taken(disk, S) /\ ws[3].value = y
      /\ ws[4].lba = v /\ ws[4].lba # 1 /\ ws[4].lba \notin Taken(disk, S) /\ ws[4].value = x
      /\ ws[5].lba = Head0(disk, d) /\ ws[5].lba # 1 /\ ws[5].value = w.value
      /\ x \in InodeType /\ x.size = BlockSize /\ x.ptrs[0] = b /\ x.type = "dir"
      /\ y \in DirType /\ \A q \in Slots : y.entries[q] = NULL
  BY <1>p, <1>r, <1>1, <1>3 DEF v, b, MkdirParts
<1>6. Typed(ws)
  BY <1>3, <1>4, <1>5 DEF Typed
<1>7. \A j \in 1..Len(ws) : ws[j].lba = 1 <=> j <= 2
  BY <1>4, <1>5
<1>8. v # Head0(disk, d) /\ b # Head0(disk, d)
  <2>1. Head0(disk, d) \in Taken(disk, S)
    BY <1>a, TakenAre
  <2> QED BY <1>a, <2>1
<1>9. ASSUME NEW e, DiskAfter(disk, ws, op, Len(ws), e) PROVE e[v] = x /\ e[b] = y
  <2>1. Latest(ws, Len(ws), v, 4)
    <3>1. \A j \in (4 + 1)..Len(ws) : j = 5
      BY <1>3
    <3> QED BY <1>5, <1>8, <3>1 DEF Latest
  <2>2. Latest(ws, Len(ws), b, 3)
    <3>1. \A j \in (3 + 1)..Len(ws) : j = 4 \/ j = 5
      BY <1>3
    <3> QED BY <1>a, <1>5, <1>8, <3>1 DEF Latest
  <2>3. /\ v \in 1..(DiskSize - 1) /\ v # 1 /\ 4 \in 1..Len(ws)
        /\ b \in 1..(DiskSize - 1) /\ b # 1 /\ 3 \in 1..Len(ws)
    BY <1>a, <1>3, Sizes
  <2>4. e[v] = x
    BY <1>5, <1>9, <2>1, <2>3, BlockAfter
  <2>5. e[b] = y
    BY <1>5, <1>9, <2>2, <2>3, BlockAfter
  <2> QED BY <2>4, <2>5
<1>10. ASSUME NEW e, DiskAfter(disk, ws, op, Len(ws), e)
       PROVE  Fresh(e, v) /\ Owns(e, v) = {0} /\ e[v].ptrs[0] = b /\ Owned(e, v) = {b} /\ e[v].type = "dir"
  <2>1. e[v] = x /\ e[b] = y
    BY <1>9, <1>10
  <2>2. Owns(e, v) = {0}
    BY <1>5, <2>1, BlocksOfDir DEF Owns
  <2>3. Head0(e, v) = b
    BY <1>5, <2>1 DEF Head0
  <2>4. \A q \in Slots : At(e, v, q) = NULL
    BY <1>5, <2>1, <2>3 DEF At
  <2> QED BY <1>5, <2>1, <2>2, <2>3, <2>4 DEF Fresh, Head0, Owned
<1>11. \A e : DiskAfter(disk, ws, op, Len(ws), e)
         => /\ Fresh(e, v) /\ Apart(disk, e, S, v) /\ e[v].type = "dir"
            /\ {v} \cup Owned(e, v) \subseteq ws[2].value.set
            /\ ws[2].value.set \subseteq bitmap \cup {v} \cup Owned(e, v)
  BY <1>a, <1>5, <1>10 DEF Apart
<1> DEFINE c == 2
<1>12. NewNode(S, op, v, "dir", ws, c)
  <2>1. \A j \in 1..2 : Taken(disk, S) \subseteq ws[j].value.set
    BY <1>4, <1>5
  <2> QED BY <1>4, <1>7, <1>11, <2>1 DEF Begins, NewNode
<1> HIDE DEF c
<1>13. /\ \A j \in 1..(Len(ws) - 1) : ws[j].lba = 1 \/ ws[j].lba \notin Taken(disk, S)
       /\ ws[Len(ws)].lba = Head0(disk, d) /\ ws[Len(ws)].value \in DirType
       /\ NewEntry(d, n, v, ws[Len(ws)], s)
  BY <1>1, <1>2, <1>3, <1>4, <1>5 DEF NewEntry
<1>14. Links(S, d, n, v, "dir", ws)
  BY <1>0, <1>a, <1>6, <1>12, <1>13 DEF Links, op
<1> QED BY <1>14 DEF LinkLast, ws, w, v, b, blocks, x, y, marks, got, d, n

(* No blocks, no marks.                                                     *)
LEMMA MarkNone == MarkUsed(<<>>) = <<>>
<1>1. DOMAIN <<>> = {}
  OBVIOUS
<1>2. MarkUsed(<<>>) = [k \in DOMAIN <<>> |-> Put(1, Bits(bitmap \cup FirstOf(<<>>, k)))]
  BY DEF MarkUsed
<1>3. \A f, D : f = [k \in D |-> Put(1, Bits(bitmap \cup FirstOf(<<>>, k)))] /\ D = {} => f = <<>>
  OBVIOUS
<1> QED BY <1>1, <1>2, <1>3

(* Finding one block, it marks that and ends.                               *)
LEMMA MarksTake ==
  ASSUME NEW S, Ready(S), NEW k \in Nat, Allocated(k) # <<>>
  PROVE  Takes(S, MarkUsed(Allocated(k)))
<1> DEFINE got == Allocated(k)
           ws == MarkUsed(got)
<1>1. got \in Seq(Blocks) /\ bitmap \in SUBSET Blocks /\ got # <<>>
  BY GotIs DEF Ready
<1> HIDE DEF got
<1>2. /\ ws \in Seq(WriteType) /\ Len(ws) = Len(got)
      /\ \A j \in 1..Len(got) : /\ ws[j].lba = 1 /\ ws[j].value.kind = "bitmap"
                                /\ bitmap \subseteq ws[j].value.set
  BY <1>1, MarkUsedIs
<1> HIDE DEF ws
<1>3. ws # <<>>
  <2>1. Len(got) \in Nat \ {0} /\ Len(<<>>) = 0
    BY <1>1, EmptySeq
  <2> QED BY <1>2, <2>1
<1>4. Takes(S, ws)
  BY <1>2, <1>3 DEF Takes
<1> QED BY <1>4 DEF ws, got

(* fs_mkdir marks two blocks, writes the entries, the inode and then the    *)
(* entry.                                                                   *)
LEMMA MkdirGoes == ASSUME NEW S, Ready(S), Mkdir PROVE Goes(S, writes')
<1> DEFINE d == LookupParent(call.path)
           got == Allocated(2)
           blocks == <<Put(got[2], DirBlock(EmptyDir)),
                       Put(got[1], Inode("dir", BlockSize, [NoPtrs EXCEPT ![0] = got[2]]))>>
           n == Leaf(call.path)
           ws == LinkLast(MarkUsed(got), blocks, PutEntry(d, n, got[1]))
<1>1. CASE AddError(call.path) # 0 /\ Refuse(AddError(call.path))
  BY <1>1, RefuseGoes DEF Refuse
<1>2. CASE Len(got) < 2 /\ Finish(MarkUsed(got), Error(ENOSPC))
  <2>1. CASE got = <<>>
    <3>1. MarkUsed(got) = <<>>
      BY <2>1, MarkNone
    <3> QED BY <1>2, <3>1, RefuseGoes
  <2>2. CASE got # <<>>
    <3>1. Takes(S, MarkUsed(got))
      BY <2>2, MarksTake
    <3> QED BY <1>2, <3>1, TakesGo
  <2> QED BY <2>1, <2>2
<1>3. CASE Len(got) = 2 /\ Finish(MarkUsed(got) \o blocks, Error(ENOSPC))
  <2>1. Takes(S, MarkUsed(got) \o blocks)
    BY <1>3, MkdirTakes
  <2> QED BY <1>3, <2>1, TakesGo
<1>4. CASE AddError(call.path) = 0 /\ Len(got) = 2 /\ FreeSlots(d) # {} /\ Finish(ws, Success(NULL))
  <2>1. call.op = "mkdir"
    BY DEF Mkdir, Handling
  <2>2. Links(S, d, n, got[1], "dir", ws)
    BY <1>4, <2>1, MkdirLinks
  <2>3. writes' = ws
    BY <1>4 DEF Finish
  <2> QED BY <2>2, <2>3, LinksGo
<1> QED BY <1>1, <1>2, <1>3, <1>4 DEF Mkdir

(* The blocks of a file, or of a directory, are the ones it owns.           *)
LEMMA DataBlocksAre ==
  ASSUME NEW S, Ready(S), NEW i \in S
  PROVE  LET bs == DataBlocks(i) IN
         /\ bs \in Seq(Blocks) /\ Len(bs) = BlocksFor(disk[i].size) /\ Len(bs) \in Nat
         /\ \A k \in 1..Len(bs) : bs[k] = disk[i].ptrs[k - 1] /\ k - 1 \in Owns(disk, i) /\ bs[k] \in Owned(disk, i)
         /\ \A b \in Owned(disk, i) : \E k \in 1..Len(bs) : b = bs[k]
<1> DEFINE m == BlocksFor(disk[i].size)
           bs == DataBlocks(i)
<1>1. Image /\ Sound(disk, S)
  BY DEF Ready
<1>2. ReadInode(i) = disk[i] /\ disk[i] \in InodeType
  BY <1>1, InodeRead
<1>3. m \in Nat
  BY <1>2, BlocksFit DEF InodeType
<1>4. bs = [k \in 1..m |-> disk[i].ptrs[k - 1]]
  BY <1>2 DEF DataBlocks
<1>5. Owns(disk, i) = 0..(m - 1) /\ \A k \in Owns(disk, i) : disk[i].ptrs[k] \in Owned(disk, i) /\ disk[i].ptrs[k] \in Space
  BY <1>1, TakenAre DEF Owns
<1>6. \A b \in Owned(disk, i) : \E k \in Owns(disk, i) : b = disk[i].ptrs[k]
  BY DEF Owned
<1> DEFINE D == Owns(disk, i)
           p == disk[i].ptrs
           O == Owned(disk, i)
<1> HIDE DEF m, bs, D, p, O
<1>7. ASSUME NEW k \in 1..m PROVE k - 1 \in D /\ p[k - 1] \in O /\ p[k - 1] \in Blocks
  <2>1. k - 1 \in D
    BY <1>3, <1>5 DEF D
  <2> QED BY <1>5, <2>1, Sizes DEF D, p, O
<1>8. bs = [k \in 1..m |-> p[k - 1]]
  BY <1>4 DEF p
<1>9. bs \in Seq(Blocks) /\ Len(bs) = m /\ \A k \in 1..m : bs[k] = p[k - 1]
  BY <1>3, <1>7, <1>8
<1>10. ASSUME NEW b \in O PROVE \E k \in 1..m : b = bs[k]
  <2>1. PICK k \in D : b = p[k]
    BY <1>6 DEF D, p, O
  <2>2. k + 1 \in 1..m /\ (k + 1) - 1 = k
    BY <1>3, <1>5, <2>1 DEF D
  <2> QED BY <1>9, <2>1, <2>2
<1> QED BY <1>3, <1>7, <1>9, <1>10 DEF m, bs, D, p, O

(* Dropping an entry and giving back what it led to. *)
LEMMA RemovalIs ==
  ASSUME NEW S, Ready(S), NEW d \in S, NEW n, Named(d, n) # {}, NEW bs \in Seq(Blocks),
         \A k \in 1..Len(bs) : bs[k] = Found(d, n) \/ bs[k] \in Owned(disk, Found(d, n)),
         \A b \in {Found(d, n)} \cup Owned(disk, Found(d, n)) : \E k \in 1..Len(bs) : bs[k] = b,
         Found(d, n) \in Dirs(disk, S) => \A t \in Slots : At(disk, Found(d, n), t) = NULL
  PROVE  Goes(S, DropThenFree(d, n, bs))
<1> DEFINE w == DropEntry(d, n)
           frees == MarkFree(bs)
           o == <<w>>
           ws == o \o frees
           v == Found(d, n)
<1>0. /\ Image /\ Sound(disk, S) /\ Marked(disk, bitmap, S) /\ bitmap \in SUBSET Blocks
      /\ Taken(disk, S) \subseteq bitmap
  BY DEF Ready, Marked
<1>1. /\ d \in Dirs(disk, S)
      /\ w \in WriteType /\ w.lba = Head0(disk, d) /\ w.lba # 1 /\ w.value \in DirType
      /\ \E s \in Slots : /\ At(disk, d, s) # NULL /\ At(disk, d, s).inode = v
                          /\ w.value.entries[s] = NULL
                          /\ \A t \in Slots : t # s => w.value.entries[t] = At(disk, d, t)
  BY <1>0, DropEntryIs
<1>2. /\ frees \in Seq(WriteType) /\ Len(frees) = Len(bs) /\ Len(bs) \in Nat
      /\ \A k \in 1..Len(bs) : /\ frees[k].lba = 1 /\ frees[k].value.kind = "bitmap"
                               /\ \A b \in bitmap : b \in frees[k].value.set \/ \E j \in 1..Len(bs) : b = bs[j]
                               /\ frees[k].value.set = bitmap \ FirstOf(bs, k)
  BY <1>0, MarkFreeIs
<1> HIDE DEF w, frees, v
<1>3. o \in Seq(WriteType) /\ Len(o) = 1 /\ o[1] = w
  BY <1>1
<1> HIDE DEF o
<1>4. /\ ws \in Seq(WriteType) /\ Len(ws) = Len(o) + Len(frees)
      /\ \A j \in 1..Len(o) : ws[j] = o[j]
      /\ \A j \in 1..Len(frees) : ws[Len(o) + j] = frees[j]
      /\ \A j \in 1..Len(ws) : j \in 1..Len(o) \/ \E k \in 1..Len(frees) : j = Len(o) + k
  BY <1>2, <1>3, TwoParts
<1> HIDE DEF ws
<1>5. ws[1] = w /\ Len(ws) \in Nat \ {0} /\ \A j \in 2..Len(ws) : \E k \in 1..Len(bs) : ws[j] = frees[k]
  <2>1. ws[1] = w /\ Len(ws) \in Nat \ {0} /\ 1 \in 1..1
    BY <1>2, <1>3, <1>4
  <2>2. ASSUME NEW j \in 2..Len(ws) PROVE \E k \in 1..Len(bs) : ws[j] = frees[k]
    <3>1. j \in 1..Len(ws) /\ j \notin 1..Len(o)
      BY <1>3
    <3>2. PICK k \in 1..Len(frees) : j = Len(o) + k
      BY <1>4, <3>1
    <3>3. ws[j] = frees[k]
      BY <1>4, <3>2
    <3> QED BY <1>2, <3>3
  <2> QED BY <2>1, <2>2
<1>6. \A j \in 1..Len(ws) : j = 1 \/ j \in 2..Len(ws)
  BY <1>5
<1>7. \A j \in 2..Len(ws) : /\ ws[j].lba = 1 /\ ws[j].value.kind = "bitmap"
                            /\ \A b \in Taken(disk, S) : b \in ws[j].value.set \/ b = v \/ b \in Owned(disk, v)
  <2>1. \A b : (\E j \in 1..Len(bs) : b = bs[j]) => b = v \/ b \in Owned(disk, v)
    BY DEF v
  <2> QED BY <1>0, <1>2, <1>5, <2>1
<1>8. Typed(ws)
  BY <1>1, <1>4, <1>5, <1>6, <1>7 DEF Typed
<1>9. PICK s \in Slots : /\ At(disk, d, s) # NULL /\ At(disk, d, s).inode = v
                         /\ w.value.entries[s] = NULL
                         /\ \A t \in Slots : t # s => w.value.entries[t] = At(disk, d, t)
  BY <1>1
<1>11. Len(ws) \in 2..Len(ws) /\ ws[Len(ws)].value.set \subseteq bitmap \ ({v} \cup Owned(disk, v))
  <2>0. \A b \in {v} \cup Owned(disk, v) : \E k \in 1..Len(bs) : bs[k] = b
    BY DEF v
  <2>1. PICK k \in 1..Len(bs) : bs[k] = v
    BY <2>0
  <2> DEFINE l == Len(bs)
  <2>2. l \in 1..l /\ Len(ws) = 1 + l /\ Len(o) + l = Len(ws) /\ Len(ws) \in 2..Len(ws)
    BY <1>2, <1>3, <1>4, <2>1
  <2>3. ws[Len(ws)] = frees[l]
    BY <1>2, <1>4, <2>2
  <2>4. \A b \in {v} \cup Owned(disk, v) : b \in FirstOf(bs, l)
    BY <2>0 DEF FirstOf
  <2>5. ws[Len(ws)].value.set = bitmap \ FirstOf(bs, l)
    BY <1>2, <2>2, <2>3
  <2> QED BY <2>2, <2>4, <2>5
<1>12. v \in Dirs(disk, S) => \A t \in Slots : At(disk, v, t) = NULL
  BY DEF v
<1>10. /\ Planned(disk, bitmap, ws, call.op)
       /\ Exact(disk, bitmap, S) => Settles(disk, bitmap, ws, call.op)
  <2>1. Removes(disk, bitmap, S, d, s, v, ws)
    <3>1. /\ ws[1].lba = Head0(disk, d) /\ ws[1].value \in DirType /\ ws[1].value.entries[s] = NULL
          /\ \A t \in Slots : t # s => ws[1].value.entries[t] = At(disk, d, t)
      BY <1>1, <1>5, <1>9
    <3> QED BY <1>7, <1>11, <3>1 DEF Removes
  <2>2. Len(ws) \in Nat \ {0}
    BY <1>5
  <2> QED BY <1>0, <1>1, <1>9, <1>12, <2>1, <2>2, RemovalPlan
<1> QED BY <1>8, <1>10 DEF Goes, DropThenFree, ws, o, w, frees

(* A node of the tree is a block.                                           *)
LEMMA NodeIs == ASSUME NEW S, Ready(S), NEW i \in S PROVE i \in Space /\ i \in Blocks
<1>1. Sound(disk, S)
  BY DEF Ready
<1>2. i \in Space
  BY <1>1, TakenAre
<1> QED BY <1>2, Sizes

\* Sequence c holds x and what a holds, and nothing else.
Joins(c, x, a) == /\ \A k \in 1..Len(c) : c[k] = x \/ \E j \in 1..Len(a) : c[k] = a[j]
                  /\ \E k \in 1..Len(c) : c[k] = x
                  /\ \A j \in 1..Len(a) : \E k \in 1..Len(c) : c[k] = a[j]

(* A sequence with one more element in front.                               *)
LEMMA Prefixed ==
  ASSUME NEW T, NEW x \in T, NEW a \in Seq(T)
  PROVE  <<x>> \o a \in Seq(T) /\ Joins(<<x>> \o a, x, a)
<1> DEFINE o == <<x>>
           c == o \o a
<1>1. o \in Seq(T) /\ Len(o) = 1 /\ o[1] = x
  OBVIOUS
<1> HIDE DEF o
<1>2. /\ c \in Seq(T) /\ Len(c) = 1 + Len(a) /\ Len(a) \in Nat
      /\ \A k \in 1..Len(c) : c[k] = IF k <= 1 THEN o[k] ELSE a[k - 1]
  <2>1. /\ o \o a \in Seq(T) /\ Len(o \o a) = Len(o) + Len(a)
        /\ \A k \in 1..Len(o) + Len(a) : (o \o a)[k] = IF k <= Len(o) THEN o[k] ELSE a[k - Len(o)]
    BY <1>1, ConcatProperties
  <2>2. Len(a) \in Nat
    OBVIOUS
  <2> QED BY <1>1, <2>1, <2>2
<1> HIDE DEF c
<1>3. ASSUME NEW k \in 1..Len(c) PROVE c[k] = x \/ \E j \in 1..Len(a) : c[k] = a[j]
  <2>1. CASE k <= 1
    BY <1>1, <1>2, <2>1
  <2>2. CASE ~(k <= 1)
    <3>1. k - 1 \in 1..Len(a)
      BY <1>2, <2>2
    <3> QED BY <1>2, <2>2, <3>1
  <2> QED BY <2>1, <2>2
<1>4. \E k \in 1..Len(c) : c[k] = x
  <2>1. 1 \in 1..Len(c) /\ c[1] = o[1]
    BY <1>2
  <2> QED BY <1>1, <2>1
<1>5. ASSUME NEW j \in 1..Len(a) PROVE \E k \in 1..Len(c) : c[k] = a[j]
  <2>1. j + 1 \in 1..Len(c) /\ ~(j + 1 <= 1) /\ (j + 1) - 1 = j
    BY <1>2
  <2>2. c[j + 1] = a[j]
    BY <1>2, <2>1
  <2> QED BY <2>1, <2>2
<1>6. Joins(c, x, a)
  BY <1>3, <1>4, <1>5 DEF Joins
<1> QED BY <1>2, <1>6 DEF c, o

(* fs_unlink and fs_rmdir go on only with an entry of a directory.          *)
LEMMA RemoveOk ==
  ASSUME NEW S, Ready(S), RemoveError(call.path) = 0
  PROVE  LET d == LookupParent(call.path) IN
         /\ d \in S /\ Named(d, Leaf(call.path)) # {}
         /\ Found(d, Leaf(call.path)) \in S \ {Root}
<1> DEFINE d == LookupParent(call.path)
           n == Leaf(call.path)
<1>1. call.path \in Seq(Names) /\ Image /\ Sound(disk, S)
  BY ConstantFacts DEF Ready
<1>2. d \in Int /\ (~(d < 0) => d \in S)
  BY <1>1, ParentReaches
<1>3. 0 = IF d < 0 THEN d ELSE IF Named(d, n) = {} THEN ENOENT ELSE 0
  BY DEF RemoveError
<1> HIDE DEF d, n
<1>4. d \in S /\ Named(d, n) # {}
  BY <1>2, <1>3 DEF ENOENT
<1>5. Found(d, n) \in S \ {Root}
  BY <1>1, <1>4, NameFound
<1> QED BY <1>4, <1>5 DEF d, n

(* fs_unlink drops the entry and frees the inode and its blocks.            *)
LEMMA UnlinkGoes == ASSUME NEW S, Ready(S), Unlink PROVE Goes(S, writes')
<1> DEFINE e == RemoveError(call.path)
           d == LookupParent(call.path)
           n == Leaf(call.path)
           i == Found(d, n)
           o == <<i>>
           bs == o \o DataBlocks(i)
<1>1. CASE e # 0 /\ Refuse(e)
  BY <1>1, RefuseGoes DEF Refuse
<1>2. CASE e = 0 /\ IsDir(i) /\ Refuse(EISDIR)
  BY <1>2, RefuseGoes DEF Refuse
<1>3. CASE e = 0 /\ ~IsDir(i) /\ Finish(DropThenFree(d, n, bs), Success(NULL))
  <2>1. d \in S /\ Named(d, n) # {} /\ i \in S
    BY <1>3, RemoveOk
  <2>2. i \in Blocks /\ Image /\ Sound(disk, S)
    BY <2>1, NodeIs DEF Ready
  <2>d. i \notin Dirs(disk, S)
    BY <1>3, <2>1, <2>2, InodeRead
  <2> HIDE DEF i, d, n
  <2>3. /\ DataBlocks(i) \in Seq(Blocks) /\ Len(DataBlocks(i)) \in Nat
        /\ \A k \in 1..Len(DataBlocks(i)) : DataBlocks(i)[k] \in Owned(disk, i)
        /\ \A b \in Owned(disk, i) : \E k \in 1..Len(DataBlocks(i)) : b = DataBlocks(i)[k]
    BY <2>1, DataBlocksAre
  <2> DEFINE a == DataBlocks(i)
  <2> HIDE DEF a
  <2>4. /\ a \in Seq(Blocks) /\ \A k \in 1..Len(a) : a[k] \in Owned(disk, i)
        /\ \A b \in Owned(disk, i) : \E k \in 1..Len(a) : b = a[k]
    BY <2>3 DEF a
  <2>5. o \o a \in Seq(Blocks) /\ Joins(o \o a, i, a)
    BY <2>2, <2>4, Prefixed
  <2>6. /\ bs \in Seq(Blocks) /\ \A k \in 1..Len(bs) : bs[k] = i \/ bs[k] \in Owned(disk, i)
        /\ \A b \in {i} \cup Owned(disk, i) : \E k \in 1..Len(bs) : bs[k] = b
    <3>1. bs = o \o a
      BY DEF a
    <3> HIDE DEF o, bs
    <3>2. ASSUME NEW b \in {i} \cup Owned(disk, i) PROVE \E k \in 1..Len(bs) : bs[k] = b
      <4>1. \E k \in 1..Len(bs) : bs[k] = i
        BY <2>5, <3>1 DEF Joins
      <4>2. ASSUME NEW j \in 1..Len(a), b = a[j] PROVE \E k \in 1..Len(bs) : bs[k] = b
        BY <2>5, <3>1, <4>2 DEF Joins
      <4>3. b = i \/ \E j \in 1..Len(a) : b = a[j]
        BY <2>4
      <4> QED BY <4>1, <4>2, <4>3
    <3> QED BY <2>4, <2>5, <3>1, <3>2 DEF Joins
  <2> HIDE DEF bs
  <2>7. Goes(S, DropThenFree(d, n, bs))
    BY <2>1, <2>6, <2>d, RemovalIs DEF i
  <2>8. writes' = DropThenFree(d, n, bs)
    BY <1>3 DEF Finish
  <2> QED BY <2>7, <2>8
<1> QED BY <1>1, <1>2, <1>3 DEF Unlink

(* fs_rmdir drops the entry and frees the inode and the block of entries.   *)
LEMMA RmdirGoes == ASSUME NEW S, Ready(S), Rmdir PROVE Goes(S, writes')
<1> DEFINE e == RemoveError(call.path)
           d == LookupParent(call.path)
           n == Leaf(call.path)
           i == Found(d, n)
           bs == <<i, DirPtr(i)>>
<1>1. CASE e # 0 /\ Refuse(e)
  BY <1>1, RefuseGoes DEF Refuse
<1>2. CASE e = 0 /\ ~IsDir(i) /\ Refuse(ENOTDIR)
  BY <1>2, RefuseGoes DEF Refuse
<1>3. CASE e = 0 /\ IsDir(i) /\ Used(i) # {} /\ Refuse(ENOTEMPTY)
  BY <1>3, RefuseGoes DEF Refuse
<1>4. CASE e = 0 /\ IsDir(i) /\ Used(i) = {} /\ Finish(DropThenFree(d, n, bs), Success(NULL))
  <2>1. d \in S /\ Named(d, n) # {} /\ i \in S
    BY <1>4, RemoveOk
  <2>2. i \in Blocks /\ Image /\ Sound(disk, S)
    BY <2>1, NodeIs DEF Ready
  <2>3. i \in Dirs(disk, S)
    BY <1>4, <2>1, <2>2, InodeRead
  <2>d. Used(i) = {}
    BY <1>4
  <2> HIDE DEF i, d, n
  <2>4. /\ DirPtr(i) \in Blocks /\ DirPtr(i) \in Owned(disk, i)
        /\ DirPtr(i) = Head0(disk, i) /\ \A t \in Slots : Entries(i)[t] = At(disk, i, t)
    <3>1. DirPtr(i) = Head0(disk, i) /\ \A t \in Slots : Entries(i)[t] = At(disk, i, t)
      BY <2>2, <2>3, DirRead
    <3>2. Head0(disk, i) \in Owned(disk, i) /\ Head0(disk, i) \in Space
      BY <2>2, <2>3, TakenAre
    <3> QED BY <3>1, <3>2, Sizes
  <2>a. \A t \in Slots : At(disk, i, t) = NULL
    BY <2>d, <2>4 DEF Used
  <2>o. Owned(disk, i) = {DirPtr(i)}
    <3>1. disk[i].size = BlockSize
      BY <2>2, <2>3 DEF Sound, Heads
    <3>2. Owns(disk, i) = {0}
      BY <3>1, BlocksOfDir DEF Owns
    <3> QED BY <2>4, <3>2 DEF Owned, Head0
  <2>5. /\ bs \in Seq(Blocks) /\ \A k \in 1..Len(bs) : bs[k] = i \/ bs[k] \in Owned(disk, i)
        /\ \A b \in {i} \cup Owned(disk, i) : \E k \in 1..Len(bs) : bs[k] = b
    <3>1. bs \in Seq(Blocks) /\ Len(bs) = 2 /\ bs[1] = i /\ bs[2] = DirPtr(i)
      BY <2>2, <2>4
    <3>2. (\A k \in 1..2 : k = 1 \/ k = 2) /\ 1 \in 1..2 /\ 2 \in 1..2
      OBVIOUS
    <3> HIDE DEF bs
    <3> QED BY <2>4, <2>o, <3>1, <3>2
  <2> HIDE DEF bs
  <2>6. Goes(S, DropThenFree(d, n, bs))
    BY <2>1, <2>5, <2>a, RemovalIs DEF i
  <2>7. writes' = DropThenFree(d, n, bs)
    BY <1>4 DEF Finish
  <2> QED BY <2>6, <2>7
<1> QED BY <1>1, <1>2, <1>3, <1>4 DEF Rmdir

(* fs_rename writes a directory with one name changed.                      *)
LEMMA RenameGoes == ASSUME NEW S, Ready(S), Rename PROVE Goes(S, writes')
<1> DEFINE e == RenameError(call.path, call.to)
           d == LookupParent(call.path)
           n == Leaf(call.path)
           new == Leaf(call.to)
           t == LookupParent(call.to)
           w == Relabelled(d, n, new)
           ws == <<w>>
<1>1. CASE e # 0 /\ Refuse(e)
  BY <1>1, RefuseGoes DEF Refuse
<1>2. CASE e = 0 /\ Finish(ws, Success(NULL))
  <2>1. call.path \in Seq(Names) /\ call.to \in Seq(Names) /\ Image /\ Sound(disk, S) /\ Marked(disk, bitmap, S)
    BY ConstantFacts DEF Ready
  <2>2. d \in Int /\ (~(d < 0) => d \in S) /\ t \in Int /\ (~(t < 0) => new \in Names)
    BY <2>1, ParentReaches
  <2>3. 0 = CASE d < 0 -> d
              [] d >= 0 /\ t < 0 -> t
              [] d >= 0 /\ t >= 0 /\ d # t -> EINVAL
              [] d >= 0 /\ d = t -> IF Named(d, new) # {} THEN EEXIST
                                   ELSE IF Named(d, n) = {} THEN ENOENT ELSE 0
    BY <1>2 DEF RenameError
  <2> HIDE DEF d, n, new, t
  <2>4. d \in S /\ new \in Names /\ Named(d, n) # {}
    BY <2>2, <2>3 DEF EINVAL, EEXIST, ENOENT
  <2>5. /\ d \in Dirs(disk, S)
        /\ w \in WriteType /\ w.lba = Head0(disk, d) /\ w.lba # 1 /\ w.value \in DirType
        /\ \A s \in Slots : w.value.entries[s] # NULL
             => At(disk, d, s) # NULL /\ w.value.entries[s].inode = At(disk, d, s).inode
        /\ \A s \in Slots : At(disk, d, s) # NULL => w.value.entries[s] # NULL
    BY <2>1, <2>4, RelabelIs
  <2> HIDE DEF w
  <2>6. ws \in Seq(WriteType) /\ Len(ws) = 1 /\ ws[1] = w
    BY <2>5
  <2>7. writes' = ws
    BY <1>2 DEF Finish
  <2> HIDE DEF ws
  <2>8. Typed(ws)
    BY <2>5, <2>6 DEF Typed
  <2>9. /\ Planned(disk, bitmap, ws, call.op)
        /\ Exact(disk, bitmap, S) => Settles(disk, bitmap, ws, call.op)
    <3>1. /\ ws[1].lba = Head0(disk, d) /\ ws[1].value \in DirType
          /\ \A s \in Slots : ws[1].value.entries[s] # NULL
               => At(disk, d, s) # NULL /\ ws[1].value.entries[s].inode = At(disk, d, s).inode
          /\ \A s \in Slots : At(disk, d, s) # NULL => ws[1].value.entries[s] # NULL
      BY <2>5, <2>6
    <3> QED BY <2>1, <2>5, <2>6, <3>1, RenamePlan
  <2> QED BY <2>7, <2>8, <2>9 DEF Goes
<1> QED BY <1>1, <1>2 DEF Rename, Relabelled

(* fs_chmod and fs_utime write an inode back.                               *)
LEMMA TouchGoes == ASSUME NEW S, Ready(S), NEW op, Touch(op) PROVE Goes(S, writes')
<1> DEFINE i == Translate(call.path)
           w == Put(i, ReadInode(i))
           ws == <<w>>
<1>1. CASE i < 0 /\ Refuse(i)
  BY <1>1, RefuseGoes DEF Refuse
<1>2. CASE i >= 0 /\ Finish(ws, Success(NULL))
  <2>1. call.path \in Seq(Names) /\ Image /\ Sound(disk, S) /\ Marked(disk, bitmap, S)
    BY ConstantFacts DEF Ready
  <2>2. i \in S
    <3>1. i \in Reached(S)
      BY <2>1, TranslateReaches
    <3> QED BY <1>2, <2>1, <3>1, NodesPositive
  <2> HIDE DEF i
  <2>3. i \in Space /\ ReadInode(i) = disk[i] /\ disk[i] \in BlockContents
    BY <2>1, <2>2, InodeRead, Contents
  <2>4. w \in WriteType /\ w.lba = i /\ w.lba # 1 /\ w.value = disk[i]
    BY <2>3, PutIs
  <2> HIDE DEF w
  <2>5. ws \in Seq(WriteType) /\ Len(ws) = 1 /\ ws[1] = w
    BY <2>4
  <2>6. writes' = ws
    BY <1>2 DEF Finish
  <2> HIDE DEF ws
  <2>7. Typed(ws)
    BY <2>4, <2>5 DEF Typed
  <2>8. /\ Planned(disk, bitmap, ws, call.op)
        /\ Exact(disk, bitmap, S) => Settles(disk, bitmap, ws, call.op)
    BY <2>1, <2>2, <2>4, <2>5, TouchPlan
  <2> QED BY <2>6, <2>7, <2>8 DEF Goes
<1> QED BY <1>1, <1>2 DEF Touch

(* What a call reads of a file. *)
LEMMA FileOk ==
  ASSUME NEW S, Ready(S), FileError(Translate(call.path)) = 0
  PROVE  LET i == Translate(call.path) IN
         /\ i \in S \ Dirs(disk, S) /\ ReadInode(i) = disk[i] /\ disk[i] \in InodeType
         /\ disk[i].size \in 0..MaxFile /\ disk[i].size \in Nat
         /\ disk[i].ptrs \in [Ptrs -> Blocks]
         /\ disk[i].size = 0 => disk[i].ptrs[0] = 0
         /\ disk[i].size # 0 => disk[disk[i].ptrs[0]].kind = "data"
<1> DEFINE i == Translate(call.path)
<1>1. call.path \in Seq(Names) /\ Image /\ Sound(disk, S)
  BY ConstantFacts DEF Ready
<1>2. i \in Reached(S)
  BY <1>1, TranslateReaches
<1> HIDE DEF i
<1>3. i \in Int /\ (i < 0 <=> i \notin S)
  BY <1>1, <1>2, NodesPositive
<1>4. i \in S /\ IsFile(i)
  BY <1>3 DEF FileError, EISDIR, i
<1>5. i \in S \ Dirs(disk, S) /\ ReadInode(i) = disk[i] /\ disk[i] \in InodeType
  BY <1>1, <1>4, InodeRead
<1>6. disk[i].size \in 0..MaxFile /\ disk[i].ptrs \in [Ptrs -> Blocks]
  BY <1>5 DEF InodeType
<1>7. disk[i].size \in Nat
  BY <1>6, BlocksFit
<1>8. IF disk[i].size = 0 THEN Head0(disk, i) = 0 ELSE disk[Head0(disk, i)].kind = "data"
  BY <1>1, <1>5 DEF Sound, Heads
<1> QED BY <1>5, <1>6, <1>7, <1>8 DEF i, Head0

(* fs_truncate frees the blocks and then writes an inode without them.      *)
(* Between the two the tree names blocks that are not marked, so it must    *)
(* not fail or die there.                                                   *)
LEMMA TruncateGoes ==
  ASSUME NEW S, Ready(S), "truncate" \notin Faulty, Truncate
  PROVE  Goes(S, writes')
<1> DEFINE i == Translate(call.path)
           used == DataBlocks(i)
           ptrs == [k \in Ptrs |-> IF k < Len(used) THEN 0 ELSE ReadInode(i).ptrs[k]]
           x == Inode("file", 0, ptrs)
           w == Put(i, x)
           frees == MarkFree(used)
           ws == Append(frees, w)
           op == call.op
<1>1. CASE Refuse(EINVAL)
  BY <1>1, RefuseGoes DEF Refuse
<1>2. CASE Refuse(FileError(i))
  BY <1>2, RefuseGoes DEF Refuse
<1>3. CASE FileError(i) = 0 /\ Finish(ws, Success(NULL))
  <2>0. op \notin Faulty
    BY DEF Truncate, Handling
  <2>1. /\ i \in S \ Dirs(disk, S) /\ ReadInode(i) = disk[i]
        /\ disk[i].size \in Nat /\ disk[i].ptrs \in [Ptrs -> Blocks]
        /\ disk[i].size = 0 => disk[i].ptrs[0] = 0
    BY <1>3, FileOk
  <2>2. /\ Image /\ Sound(disk, S) /\ Marked(disk, bitmap, S) /\ bitmap \in SUBSET Blocks
        /\ Taken(disk, S) \subseteq bitmap /\ Taken(disk, S) \subseteq disk[1].set
        /\ i \in S /\ i \in Space
    BY <2>1, NodeIs DEF Ready, Marked
  <2> HIDE DEF i
  <2>3. /\ used \in Seq(Blocks) /\ Len(used) = BlocksFor(disk[i].size) /\ Len(used) \in Nat
        /\ \A k \in 1..Len(used) : used[k] \in Owned(disk, i)
        /\ \A b \in Owned(disk, i) : \E k \in 1..Len(used) : b = used[k]
    BY <2>2, DataBlocksAre
  <2> HIDE DEF used
  <2>4. ptrs \in [Ptrs -> Blocks] /\ ptrs[0] = 0
    <3>1. ptrs \in [Ptrs -> Blocks]
      <4>1. 0 \in Blocks
        BY ConstantFacts, Sizes
      <4>2. \A k \in Ptrs : ReadInode(i).ptrs[k] \in Blocks
        BY <2>1
      <4> QED BY <4>1, <4>2
    <3>2. 0 < Len(used) \/ disk[i].size = 0
      BY <2>1, <2>3, BlocksPositive
    <3>3. ptrs[0] = IF 0 < Len(used) THEN 0 ELSE disk[i].ptrs[0]
      BY <2>1, Sizes
    <3> QED BY <2>1, <3>1, <3>2, <3>3
  <2> HIDE DEF ptrs
  <2>5. x \in InodeType /\ x.type = "file" /\ x.size = 0 /\ x.ptrs[0] = 0
    <3>1. 0 \in 0..MaxFile
      BY ConstantFacts DEF MaxFile
    <3> QED BY <2>4, <3>1 DEF Inode, InodeType
  <2> HIDE DEF x
  <2>6. w \in WriteType /\ w.lba = i /\ w.lba # 1 /\ w.value = x
    BY <2>2, <2>5, Contents, PutIs
  <2>7. /\ frees \in Seq(WriteType) /\ Len(frees) = Len(used)
        /\ \A k \in 1..Len(used) : /\ frees[k].lba = 1 /\ frees[k].value.kind = "bitmap"
                                   /\ \A b \in bitmap : b \in frees[k].value.set \/ \E j \in 1..Len(used) : b = used[j]
                                   /\ frees[k].value.set = bitmap \ FirstOf(used, k)
    BY <2>2, <2>3, MarkFreeIs
  <2> HIDE DEF w, frees
  <2>8. /\ ws \in Seq(WriteType) /\ Len(ws) = Len(frees) + 1 /\ Len(frees) \in Nat
        /\ ws[Len(frees) + 1] = w /\ \A j \in 1..Len(frees) : ws[j] = frees[j]
    BY <2>6, <2>7
  <2> HIDE DEF ws
  <2>9. /\ Len(ws) \in Nat \ {0} /\ ws[Len(ws)] = w /\ Len(ws) \in 1..Len(ws)
        /\ \A j \in 1..Len(ws) : j = Len(ws) \/ j \in 1..(Len(ws) - 1)
        /\ \A j \in 1..(Len(ws) - 1) : j \in 1..Len(used) /\ ws[j] = frees[j]
    BY <2>7, <2>8
  <2>10. /\ \A j \in 1..(Len(ws) - 1) :
              /\ ws[j].lba = 1 /\ ws[j].value.kind = "bitmap"
              /\ \A b \in Taken(disk, S) : b \in ws[j].value.set \/ b \in Owned(disk, i)
         /\ ws[Len(ws)].lba = i /\ ws[Len(ws)].lba # 1 /\ ws[Len(ws)].value = x
    <3>1. \A b : (\E j \in 1..Len(used) : b = used[j]) => b \in Owned(disk, i)
      BY <2>3
    <3>2. ws[Len(ws)].lba = i /\ ws[Len(ws)].lba # 1 /\ ws[Len(ws)].value = x
      BY <2>6, <2>9
    <3> SUFFICES ASSUME NEW j \in 1..(Len(ws) - 1)
                 PROVE  /\ ws[j].lba = 1 /\ ws[j].value.kind = "bitmap"
                        /\ \A b \in Taken(disk, S) : b \in ws[j].value.set \/ b \in Owned(disk, i)
      BY <3>2
    <3>3. j \in 1..Len(used) /\ ws[j] = frees[j]
      BY <2>9
    <3> QED BY <2>2, <2>7, <3>1, <3>3
  <2>11. Typed(ws)
    BY <2>8, <2>9, <2>10 DEF Typed
  <2>12. \A j \in 1..Len(ws) : ws[j].lba = 1 => j \in 1..(Len(ws) - 1)
    BY <2>9, <2>10
  <2> DEFINE A == Taken(disk, S) \ Owned(disk, i)
  <2>13. /\ A \subseteq bitmap /\ A \subseteq disk[1].set
         /\ \A j \in 1..Len(ws) : ws[j].lba = 1 => A \subseteq ws[j].value.set
    BY <2>2, <2>10, <2>12
  <2>19. Leads(ws, Len(used))
    <3> DEFINE l == Len(used)
               c == Len(ws)
    <3>1. l \in Nat /\ c = l + 1
      BY <2>3, <2>7, <2>8
    <3> HIDE DEF l, c
    <3>2. c \in Nat /\ l \in 0..c /\ ~(c <= l) /\ \A j \in 1..(c - 1) : j <= l
      BY <3>1
    <3>3. c \in Nat /\ l \in 0..c /\ \A j \in 1..c : ws[j].lba = 1 <=> j <= l
      BY <2>9, <2>10, <3>2 DEF c
    <3> QED BY <3>3 DEF l, c, Leads
  <2>14. 0..(BlocksFor(x.size) - 1) = {}
    BY <2>5, BlocksOfNothing
  <2>15. ASSUME NEW e, NEW n, DiskAfter(disk, ws, op, Len(ws), e), BitmapAfter(bitmap, ws, Len(ws), n), e[i] = x
         PROVE  /\ \A b \in Taken(disk, S) \cup Owned(e, i) :
                     b \in Owned(e, i) \/ b \notin Owned(disk, i) => b \in n /\ b \in e[1].set
                /\ \A b \in n : b \in bitmap /\ b \notin Owned(disk, i)
    <3>1. Owned(e, i) = {}
      BY <2>14, <2>15 DEF Owned, Owns
    <3> HIDE DEF A
    <3>2. (\A j \in 1..Len(ws) : j \in 1..Len(ws)) /\ (Len(ws) < Len(ws) => Len(ws) + 1 \in 1..Len(ws))
      BY <2>9
    <3>3. A \subseteq n /\ A \subseteq e[1].set
      BY <2>13, <2>15, <3>2, BitsKept
    <3>4. \A b \in n : b \in bitmap /\ b \notin Owned(disk, i)
      <4> DEFINE l == Len(used)
      <4>1. (l = 0 => n = bitmap) /\ (l # 0 => n = ws[l].value.set)
        BY <2>15, <2>19, LastBitmap
      <4>2. CASE l = 0
        BY <2>3, <4>1, <4>2
      <4>3. CASE l # 0
        <5>1. l \in 1..l
          BY <2>3, <4>3
        <5>2. n = bitmap \ FirstOf(used, l)
          BY <2>7, <2>8, <4>1, <4>3, <5>1
        <5>3. \A b \in Owned(disk, i) : b \in FirstOf(used, l)
          BY <2>3 DEF FirstOf
        <5> QED BY <5>2, <5>3
      <4> QED BY <4>2, <4>3
    <3> QED BY <3>1, <3>3, <3>4 DEF A
  <2> HIDE DEF A
  <2>16. FillsBlocks(disk, S, i, ws) /\ Replaces(disk, S, i, ws, x) /\ MarksFile(disk, bitmap, S, i, ws, op, x)
    BY <2>5, <2>10, <2>14, <2>15 DEF FillsBlocks, Replaces, MarksFile
  <2> HIDE DEF op
  <2>17. Planned(disk, bitmap, ws, op) /\ (Exact(disk, bitmap, S) => Settles(disk, bitmap, ws, op))
    BY <2>0, <2>1, <2>2, <2>9, <2>10, <2>16, FilePlan
  <2>18. writes' = ws
    BY <1>3 DEF Finish, ws, w, x, ptrs, used, frees, i
  <2> QED BY <2>11, <2>17, <2>18 DEF Goes, op
<1> QED BY <1>1, <1>2, <1>3 DEF Truncate

(* fs_getattr, fs_readdir and fs_read write nothing.                        *)
LEMMA ReadersGo == ASSUME NEW S, Ready(S), Getattr \/ Readdir \/ Read PROVE Goes(S, writes')
<1>1. \E r : Finish(<<>>, r)
  BY DEF Getattr, Readdir, Read, Refuse
<1> QED BY <1>1, RefuseGoes

(* Division by a block's size. *)
LEMMA DivGrows == ASSUME NEW s \in Nat, NEW t \in Nat, s <= t
                  PROVE  /\ s \div BlockSize \in Nat /\ t \div BlockSize \in Nat
                         /\ s \div BlockSize <= t \div BlockSize
<1> DEFINE p == BlockSize
           a == s \div p
           b == t \div p
<1>1. p \in Nat \ {0}
  BY ConstantFacts
<1> HIDE DEF p
<1>2. /\ a \in Nat /\ a * p <= s /\ s < (a + 1) * p
      /\ b \in Nat /\ b * p <= t /\ t < (b + 1) * p
  BY <1>1
<1> HIDE DEF a, b
<1>3. ASSUME b + 1 <= a PROVE FALSE
  <2>1. (b + 1) * p <= a * p
    BY <1>1, <1>2, <1>3
  <2>2. (b + 1) * p \in Nat /\ a * p \in Nat
    BY <1>1, <1>2
  <2> QED BY <1>2, <2>1, <2>2
<1>4. a <= b
  BY <1>2, <1>3
<1> QED BY <1>2, <1>4 DEF a, b, p

\* The pointers of fs_write: those of the file, then the blocks it got.
Grown(p, cur, got) == [k \in Ptrs |-> IF k \in cur..(cur + Len(got) - 1) THEN got[k - cur + 1] ELSE p[k]]

(* They are different blocks, the old ones owned by the file, the new ones  *)
\* The pointers p are those of inode i and behind them the blocks it takes.
GrownBy(S, i, cur, need, p) ==
  /\ p \in [Ptrs -> Blocks]
  /\ \A k \in 0..(cur + need - 1) :
       /\ k \in Ptrs /\ p[k] \in Space
       /\ k < cur => p[k] = disk[i].ptrs[k] /\ p[k] \in Owned(disk, i)
       /\ ~(k < cur) => /\ p[k] \notin Taken(disk, S)
                        /\ k - cur + 1 \in 1..need /\ p[k] = Allocated(need)[k - cur + 1]
  /\ \A k, l \in 0..(cur + need - 1) : p[k] = p[l] => k = l

(* not taken.                                                               *)
LEMMA GrownIs ==
  ASSUME NEW S, Ready(S), NEW i \in S, disk[i].ptrs \in [Ptrs -> Blocks],
         NEW need \in Nat, Len(Allocated(need)) = need,
         NEW cur, cur = BlocksFor(disk[i].size), cur \in Nat, cur + need <= MaxPtrs
  PROVE  GrownBy(S, i, cur, need, Grown(disk[i].ptrs, cur, Allocated(need)))
<1> DEFINE old == disk[i].ptrs
           got == Allocated(need)
           p == Grown(old, cur, got)
           top == cur + need - 1
           O == Owned(disk, i)
           T == Taken(disk, S)
<1>1. /\ got \in Seq(Blocks) /\ Len(got) = need
      /\ \A k \in 1..need : got[k] \in Space /\ got[k] \in Blocks /\ got[k] \notin T
      /\ \A j, k \in 1..need : got[j] = got[k] => j = k
  BY GotIs
<1>2. Ptrs = 0..(MaxPtrs - 1) /\ MaxPtrs \in Nat /\ Space \subseteq Blocks
  BY ConstantFacts, Sizes
<1>3. Image /\ Sound(disk, S)
  BY DEF Ready
<1>4. Owns(disk, i) = 0..(cur - 1)
  BY DEF Owns
<1>5. \A k \in 0..(cur - 1) : old[k] \in O /\ old[k] \in Space /\ old[k] \in T
  BY <1>3, <1>4, TakenAre
<1>6. \A k, l \in 0..(cur - 1) : old[k] = old[l] => k = l
  BY <1>3, <1>4 DEF Sound, OwnBlocks
<1>7. old \in [Ptrs -> Blocks]
  OBVIOUS
<1> HIDE DEF old, got, O, T
<1>8. p = [k \in Ptrs |-> IF k \in cur..(cur + need - 1) THEN got[k - cur + 1] ELSE old[k]]
  BY <1>1 DEF Grown
<1> HIDE DEF p
<1>9. ASSUME NEW k \in cur..(cur + need - 1) PROVE k - cur + 1 \in 1..need
  OBVIOUS
<1>10. p \in [Ptrs -> Blocks]
  BY <1>1, <1>7, <1>8, <1>9
<1>11. ASSUME NEW k \in 0..top
       PROVE  /\ k \in Ptrs
              /\ k < cur => p[k] = old[k] /\ k \in 0..(cur - 1)
              /\ ~(k < cur) => p[k] = got[k - cur + 1] /\ k - cur + 1 \in 1..need
  <2>1. k \in Ptrs
    BY <1>2
  <2>2. CASE k < cur
    <3>1. k \notin cur..(cur + need - 1) /\ k \in 0..(cur - 1)
      BY <2>2
    <3> QED BY <1>8, <2>1, <2>2, <3>1
  <2>3. CASE ~(k < cur)
    <3>1. k \in cur..(cur + need - 1)
      BY <2>3
    <3>2. k - cur + 1 \in 1..need
      BY <3>1
    <3> QED BY <1>8, <2>1, <2>3, <3>1, <3>2
  <2> QED BY <2>1, <2>2, <2>3
<1>12. \A k, l \in 0..top : p[k] = p[l] => k = l
  <2> SUFFICES ASSUME NEW k \in 0..top, NEW l \in 0..top, p[k] = p[l] PROVE k = l
    OBVIOUS
  <2>1. CASE k < cur /\ l < cur
    BY <1>6, <1>11, <2>1
  <2>a. \A j \in 0..top : IF j < cur THEN p[j] \in T ELSE p[j] \notin T
    <3> SUFFICES ASSUME NEW j \in 0..top PROVE IF j < cur THEN p[j] \in T ELSE p[j] \notin T
      OBVIOUS
    <3>1. CASE j < cur
      BY <1>5, <1>11, <3>1
    <3>2. CASE ~(j < cur)
      BY <1>1, <1>11, <3>2
    <3> QED BY <3>1, <3>2
  <2>2. CASE k < cur /\ ~(l < cur)
    BY <2>a, <2>2
  <2>3. CASE ~(k < cur) /\ l < cur
    BY <2>a, <2>3
  <2>4. CASE ~(k < cur) /\ ~(l < cur)
    <3> DEFINE a == k - cur + 1
               b == l - cur + 1
    <3>1. a \in 1..need /\ b \in 1..need /\ p[k] = got[a] /\ p[l] = got[b]
      BY <1>11, <2>4
    <3> HIDE DEF a, b
    <3>2. got[a] = got[b]
      BY <3>1
    <3>3. a = b
      BY <1>1, <3>1, <3>2
    <3> QED BY <3>3 DEF a, b
  <2> QED BY <2>1, <2>2, <2>3, <2>4
<1>13. ASSUME NEW k \in 0..top
       PROVE  /\ k \in Ptrs /\ p[k] \in Space
              /\ k < cur => p[k] = old[k] /\ p[k] \in O
              /\ ~(k < cur) => /\ p[k] \notin T
                               /\ k - cur + 1 \in 1..need /\ p[k] = got[k - cur + 1]
  BY <1>1, <1>5, <1>11
<1> QED BY <1>10, <1>12, <1>13 DEF old, got, p, O, T, GrownBy

(* How many blocks a file needs for a write, and what it has then.          *)
LEMMA NeedIs ==
  ASSUME NEW size \in 0..MaxFile, NEW end \in 0..MaxFile
  PROVE  LET cur == BlocksFor(size)
             need == IF BlocksFor(end) > cur THEN BlocksFor(end) - cur ELSE 0
         IN  /\ size \in Nat /\ end \in Nat /\ cur \in Nat /\ need \in Nat
             /\ BlocksFor(end) \in Nat /\ BlocksFor(end) <= cur + need
             /\ cur + need <= MaxPtrs
             /\ NewSize(size, end) \in 0..MaxFile /\ BlocksFor(NewSize(size, end)) = cur + need
<1> DEFINE c == BlocksFor(size)
           b == BlocksFor(end)
           s == NewSize(size, end)
<1>1. size \in Nat /\ end \in Nat /\ c \in 0..MaxPtrs /\ b \in 0..MaxPtrs /\ MaxPtrs \in Nat
  BY BlocksFit, ConstantFacts
<1>2. s \in 0..MaxFile /\ (end > size => s = end /\ c <= b) /\ (~(end > size) => s = size /\ b <= c)
  BY <1>1, BlocksGrow DEF NewSize
<1>3. BlocksFor(s) = IF b > c THEN b ELSE c
  <2>1. CASE end > size
    <3>1. BlocksFor(s) = b /\ c <= b
      BY <1>2, <2>1
    <3> HIDE DEF b, c, s
    <3> QED BY <1>1, <3>1
  <2>2. CASE ~(end > size)
    <3>1. BlocksFor(s) = c /\ b <= c
      BY <1>2, <2>2
    <3> HIDE DEF b, c, s
    <3> QED BY <1>1, <3>1
  <2> QED BY <2>1, <2>2
<1> HIDE DEF b, c, s
<1>4. LET need == IF b > c THEN b - c ELSE 0
      IN  /\ size \in Nat /\ end \in Nat /\ c \in Nat /\ need \in Nat
          /\ b \in Nat /\ b <= c + need /\ c + need <= MaxPtrs
          /\ s \in 0..MaxFile /\ BlocksFor(s) = c + need
  BY <1>1, <1>2, <1>3
<1> QED BY <1>4 DEF b, c, s

(* A block of a file as fs_write writes it. *)
LEMMA NewBytesAre ==
  ASSUME NEW S, Ready(S), NEW p, NEW k \in Nat
  PROVE  NewBytes(p, k) \in BlockContents /\ NewBytes(p, k).kind = "data"
<1> DEFINE X(j) == LET at == k * BlockSize + j - call.off IN
                   IF at \in 0..(Len(call.buf) - 1) THEN call.buf[at + 1] ELSE ReadBytes(p[k])[j]
<1>1. call.buf \in Seq(Data) /\ Len(call.buf) \in Nat
  BY ConstantFacts DEF Ready
<1>2. ReadBytes(p[k]) \in [Offsets -> Data \cup {NULL}]
  <2>1. CASE Holds(p[k], "data")
    <3>1. disk[p[k]] \in BlockContents /\ disk[p[k]].kind = "data"
      BY <2>1 DEF Holds, Ready, Image
    <3> QED BY <2>1, <3>1, Contents DEF ReadBytes
  <2>2. CASE ~Holds(p[k], "data")
    BY <2>2 DEF ReadBytes
  <2> QED BY <2>1, <2>2
<1>3. ASSUME NEW j \in Offsets PROVE X(j) \in Data \cup {NULL}
  <2> DEFINE at == k * BlockSize + j - call.off
             buf == call.buf
  <2>1. buf \in Seq(Data) /\ Len(buf) \in Nat
    BY <1>1
  <2> HIDE DEF at, buf
  <2>2. at \in 0..(Len(buf) - 1) => buf[at + 1] \in Data
    <3>1. at \in 0..(Len(buf) - 1) => at + 1 \in 1..Len(buf)
      BY <2>1
    <3> QED BY <2>1, <3>1
  <2>3. X(j) = IF at \in 0..(Len(buf) - 1) THEN buf[at + 1] ELSE ReadBytes(p[k])[j]
    BY DEF at, buf
  <2> QED BY <1>2, <2>2, <2>3
<1> HIDE DEF X
<1>4. [j \in Offsets |-> X(j)] \in [Offsets -> Data \cup {NULL}]
  BY <1>3
<1>5. NewBytes(p, k) = Bytes([j \in Offsets |-> X(j)])
  BY DEF NewBytes, X
<1> QED BY <1>4, <1>5, Contents

\* Where the bytes of fs_write end, and its writes of data.
WriteEnd == call.off + Len(call.buf)
DataWrites(p) ==
  [k \in 1..(IF call.buf = <<>> THEN 0 ELSE (WriteEnd - 1) \div BlockSize - call.off \div BlockSize + 1) |->
     Put(p[call.off \div BlockSize + k - 1], NewBytes(p, call.off \div BlockSize + k - 1))]

(* fs_write puts data into blocks of the file, into its first one if it     *)
(* writes to the beginning.                                                 *)
LEMMA DataAre ==
  ASSUME NEW S, Ready(S), NEW p, WriteEnd \in Nat,
         \A k \in 0..(BlocksFor(WriteEnd) - 1) : p[k] \in Space
  PROVE  LET data == DataWrites(p) IN
         /\ data \in Seq(WriteType) /\ Len(data) \in Nat
         /\ \A j \in 1..Len(data) : /\ data[j].lba # 1 /\ data[j].value.kind = "data"
                                    /\ \E k \in 0..(BlocksFor(WriteEnd) - 1) : data[j].lba = p[k]
         /\ call.off = 0 /\ WriteEnd # 0 => 1 \in 1..Len(data) /\ data[1].lba = p[0]
<1> DEFINE buf == call.buf
           off == call.off
           end == WriteEnd
           first == off \div BlockSize
           last == (end - 1) \div BlockSize
           b == BlocksFor(end)
           m == IF buf = <<>> THEN 0 ELSE last - first + 1
           X(k) == Put(p[k], NewBytes(p, k))
           data == DataWrites(p)
<1>1. off \in Nat /\ buf \in Seq(Data) /\ Len(buf) \in Nat /\ end = off + Len(buf) /\ end \in Nat
  BY ConstantFacts DEF Ready, WriteEnd
<1>2. buf # <<>> => Len(buf) > 0
  BY <1>1
<1>3. data = [k \in 1..m |-> X(first + k - 1)]
  BY DEF DataWrites
<1> HIDE DEF buf, off, end, data
<1>4. first \in Nat
  <2>1. off \in Nat /\ off <= off
    BY <1>1
  <2> QED BY <2>1, DivGrows
<1>5. b \in Nat
  BY <1>1, BlocksAre
<1>6. ASSUME buf # <<>> PROVE last = b - 1 /\ last \in Nat /\ first <= last
  <2>1. end - 1 \in Nat /\ off <= end - 1 /\ end \in Nat \ {0}
    BY <1>1, <1>2, <1>6
  <2>2. last = b - 1
    BY <2>1, LastBlock
  <2>3. last \in Nat /\ first <= last
    BY <1>1, <2>1, DivGrows
  <2> QED BY <2>2, <2>3
<1> HIDE DEF first, last, b
<1>7. m \in Nat /\ (buf # <<>> => m = last - first + 1)
  BY <1>4, <1>6
<1> HIDE DEF m
<1>8. ASSUME NEW k \in 1..m PROVE first + k - 1 \in 0..(b - 1) /\ first + k - 1 \in Nat
  <2>1. buf # <<>>
    BY <1>8 DEF m
  <2> QED BY <1>4, <1>5, <1>6, <1>7, <2>1
<1>9. ASSUME NEW k \in 0..(b - 1)
      PROVE  X(k) \in WriteType /\ X(k).lba = p[k] /\ X(k).lba # 1 /\ X(k).value.kind = "data"
  <2>1. k \in Nat /\ p[k] \in Space
    BY <1>9 DEF b, end
  <2>2. NewBytes(p, k) \in BlockContents /\ NewBytes(p, k).kind = "data"
    BY <2>1, NewBytesAre
  <2> QED BY <2>1, <2>2, PutIs
<1> HIDE DEF X
<1>10. data \in Seq(WriteType) /\ Len(data) = m /\ \A j \in 1..m : data[j] = X(first + j - 1)
  <2>1. \A k \in 1..m : X(first + k - 1) \in WriteType
    BY <1>8, <1>9
  <2> QED BY <1>3, <1>7, <2>1
<1>11. ASSUME NEW j \in 1..m
       PROVE  /\ data[j].lba # 1 /\ data[j].value.kind = "data"
              /\ \E k \in 0..(b - 1) : data[j].lba = p[k]
  <2>1. first + j - 1 \in 0..(b - 1) /\ data[j] = X(first + j - 1)
    BY <1>8, <1>10
  <2> QED BY <1>9, <2>1
<1>12. ASSUME off = 0, end # 0 PROVE 1 \in 1..m /\ data[1].lba = p[0]
  <2>1. first = 0
    BY <1>12, ConstantFacts DEF first
  <2>2. buf # <<>>
    BY <1>1, <1>12
  <2>3. 1 \in 1..m /\ first + 1 - 1 = 0
    BY <1>6, <1>7, <2>1, <2>2
  <2>4. data[1] = X(0) /\ 0 \in 0..(b - 1)
    BY <1>8, <1>10, <2>3
  <2> QED BY <1>9, <2>3, <2>4
<1> QED BY <1>7, <1>10, <1>11, <1>12 DEF b, data, off, end

(* fs_write marks blocks, writes the data and then the inode.               *)
LEMMA WriteGoes == ASSUME NEW S, Ready(S), Write PROVE Goes(S, writes')
<1> DEFINE i == Translate(call.path)
           f == ReadInode(i)
           size == f.size
           old == f.ptrs
           end == WriteEnd
           cur == BlocksFor(size)
           need == IF BlocksFor(end) > cur THEN BlocksFor(end) - cur ELSE 0
           got == Allocated(need)
           ptrs == Grown(old, cur, got)
           marks == MarkUsed(got)
           data == DataWrites(ptrs)
           x == Inode("file", NewSize(size, end), ptrs)
           w == Put(i, x)
           ws == marks \o data \o <<w>>
           op == call.op
<1>1. CASE Refuse(EINVAL)
  BY <1>1, RefuseGoes DEF Refuse
<1>2. CASE Refuse(FileError(i))
  BY <1>2, RefuseGoes DEF Refuse
<1>3. ASSUME FileError(i) = 0
      PROVE  /\ i \in S \ Dirs(disk, S) /\ f = disk[i] /\ i \in Space
             /\ size \in Nat /\ end \in Nat /\ cur \in Nat /\ need \in Nat
             /\ old \in [Ptrs -> Blocks] /\ (size = 0 => old[0] = 0)
             /\ (size # 0 => disk[old[0]].kind = "data")
             /\ BlocksFor(end) \in Nat /\ BlocksFor(end) <= cur + need /\ cur + need <= MaxPtrs
             /\ NewSize(size, end) \in 0..MaxFile /\ BlocksFor(NewSize(size, end)) = cur + need
             /\ got \in Seq(Blocks) /\ Len(got) \in Nat /\ Len(got) <= need
             /\ \A k \in 1..Len(got) : got[k] \in Space /\ got[k] \notin Taken(disk, S)
             /\ marks \in Seq(WriteType) /\ Len(marks) = Len(got)
             /\ \A k \in 1..Len(got) :
                  /\ marks[k].lba = 1 /\ marks[k].value.kind = "bitmap" /\ bitmap \subseteq marks[k].value.set
                  /\ \A j \in 1..k : got[j] \in marks[k].value.set
                  /\ marks[k].value.set = bitmap \cup FirstOf(got, k)
  <2>1. /\ i \in S \ Dirs(disk, S) /\ f = disk[i]
        /\ size \in 0..MaxFile
        /\ old \in [Ptrs -> Blocks] /\ (size = 0 => old[0] = 0)
        /\ (size # 0 => disk[old[0]].kind = "data")
    BY <1>3, FileOk
  <2> HIDE DEF i, f
  <2>2. i \in Space
    BY <2>1, NodeIs
  <2>3. end \in 0..MaxFile
    <3>1. call \in Calls /\ call.op = "write"
      BY DEF Ready, Write, Handling
    <3>2. call.off \in Nat /\ call.buf \in Seq(Data) /\ call.off + Len(call.buf) <= MaxFile
      BY <3>1, ConstantFacts
    <3>3. Len(call.buf) \in Nat /\ MaxFile \in Nat
      BY <3>2, ConstantFacts DEF MaxFile
    <3> QED BY <3>2, <3>3 DEF WriteEnd
  <2> HIDE DEF size, old, end
  <2>4. /\ size \in Nat /\ end \in Nat /\ cur \in Nat /\ need \in Nat
        /\ BlocksFor(end) \in Nat /\ BlocksFor(end) <= cur + need /\ cur + need <= MaxPtrs
        /\ NewSize(size, end) \in 0..MaxFile /\ BlocksFor(NewSize(size, end)) = cur + need
    BY <2>1, <2>3, NeedIs
  <2> HIDE DEF need, cur
  <2>5. /\ got \in Seq(Blocks) /\ Len(got) \in Nat /\ Len(got) <= need
        /\ \A k \in 1..Len(got) : got[k] \in Space /\ got[k] \notin Taken(disk, S)
    BY <2>4, GotIs
  <2> HIDE DEF got
  <2>6. /\ marks \in Seq(WriteType) /\ Len(marks) = Len(got)
        /\ \A k \in 1..Len(got) :
             /\ marks[k].lba = 1 /\ marks[k].value.kind = "bitmap" /\ bitmap \subseteq marks[k].value.set
             /\ \A j \in 1..k : got[j] \in marks[k].value.set
             /\ marks[k].value.set = bitmap \cup FirstOf(got, k)
    BY <2>5, MarkUsedIs DEF Ready
  <2> HIDE DEF marks
  <2> QED BY <2>1, <2>2, <2>4, <2>5, <2>6
<1>4. CASE FileError(i) = 0 /\ Finish(marks, Error(ENOSPC))
  <2>1. /\ marks \in Seq(WriteType)
        /\ \A k \in 1..Len(marks) :
             marks[k].lba = 1 /\ marks[k].value.kind = "bitmap" /\ bitmap \subseteq marks[k].value.set
    BY <1>3, <1>4
  <2>2. writes' = marks
    BY <1>4 DEF Finish
  <2> HIDE DEF marks
  <2>3. failed'
    BY <1>4 DEF Finish, Error
  <2> QED BY <2>1, <2>2, <2>3, TakeIs DEF Goes
<1>5. CASE FileError(i) = 0 /\ ~(call.off > size) /\ Len(got) = need /\ Finish(ws, Success(NULL))
  <2>0. op \notin Freeing
    BY DEF Write, Handling, Freeing
  <2>a. /\ Image /\ Sound(disk, S) /\ Marked(disk, bitmap, S) /\ Taken(disk, S) \subseteq bitmap
    BY DEF Ready, Marked
  <2>1. /\ i \in S \ Dirs(disk, S) /\ i \in S /\ i \in Space /\ f = disk[i]
        /\ size \in Nat /\ end \in Nat /\ cur \in Nat /\ need \in Nat
        /\ old \in [Ptrs -> Blocks] /\ (size = 0 => old[0] = 0)
        /\ (size # 0 => disk[old[0]].kind = "data")
        /\ BlocksFor(end) \in Nat /\ BlocksFor(end) <= cur + need /\ cur + need <= MaxPtrs
        /\ NewSize(size, end) \in 0..MaxFile /\ BlocksFor(NewSize(size, end)) = cur + need
        /\ \A k \in 1..need : got[k] \in Space /\ got[k] \notin Taken(disk, S)
        /\ marks \in Seq(WriteType) /\ Len(marks) = need /\ Len(got) = need
        /\ \A k \in 1..need :
             /\ marks[k].lba = 1 /\ marks[k].value.kind = "bitmap" /\ bitmap \subseteq marks[k].value.set
             /\ \A j \in 1..k : got[j] \in marks[k].value.set
             /\ marks[k].value.set = bitmap \cup FirstOf(got, k)
    BY <1>3, <1>5
  <2> DEFINE top == cur + need - 1
  <2>2. /\ ptrs \in [Ptrs -> Blocks]
        /\ \A k \in 0..top :
             /\ k \in Ptrs /\ ptrs[k] \in Space
             /\ k < cur => ptrs[k] = old[k] /\ ptrs[k] \in Owned(disk, i)
             /\ ~(k < cur) => /\ ptrs[k] \notin Taken(disk, S)
                              /\ k - cur + 1 \in 1..need /\ ptrs[k] = got[k - cur + 1]
        /\ \A k, l \in 0..top : ptrs[k] = ptrs[l] => k = l
    <3> HIDE DEF f, i, need, got
    <3>1. cur = BlocksFor(disk[i].size) /\ old = disk[i].ptrs /\ got = Allocated(need)
      BY <2>1 DEF got
    <3> HIDE DEF cur, old
    <3>2. GrownBy(S, i, cur, need, Grown(disk[i].ptrs, cur, Allocated(need)))
      BY <2>1, <3>1, GrownIs
    <3>3. GrownBy(S, i, cur, need, ptrs)
      BY <3>1, <3>2, Zenon
    <3> HIDE DEF ptrs
    <3> QED BY <3>1, <3>3 DEF GrownBy
  <2>3. ptrs[0] = IF 0 < cur \/ need = 0 THEN old[0] ELSE got[1]
    <3> HIDE DEF f, i, need, cur, old, got
    <3>1. ptrs[0] = IF 0 \in cur..(cur + Len(got) - 1) THEN got[0 - cur + 1] ELSE old[0]
      BY Sizes DEF Grown
    <3>2. CASE 0 < cur \/ need = 0
      BY <2>1, <3>1, <3>2
    <3>3. CASE ~(0 < cur \/ need = 0)
      <4>1. cur = 0 /\ 0 \in cur..(cur + Len(got) - 1) /\ 0 - cur + 1 = 1
        BY <2>1, <3>3
      <4> QED BY <3>1, <3>3, <4>1
    <3> QED BY <3>2, <3>3
  <2>s. (0 < cur => 0 \in 0..top) /\ (cur = 0 => cur + need = BlocksFor(NewSize(size, end)))
    <3> HIDE DEF f, i, need, cur
    <3> QED BY <2>1
  <2> HIDE DEF f, i, got, ptrs, marks, need
  <2>4. size # 0 => cur # 0
    BY <2>1, BlocksPositive
  <2> HIDE DEF cur, size, old
  <2>5. /\ data \in Seq(WriteType) /\ Len(data) \in Nat
        /\ \A j \in 1..Len(data) : /\ data[j].lba # 1 /\ data[j].value.kind = "data"
                                   /\ \E k \in 0..top : data[j].lba = ptrs[k]
        /\ call.off = 0 /\ end # 0 => 1 \in 1..Len(data) /\ data[1].lba = ptrs[0]
    <3>1. \A k \in 0..(BlocksFor(end) - 1) : k \in 0..top
      BY <2>1
    <3>2. \A k \in 0..(BlocksFor(WriteEnd) - 1) : ptrs[k] \in Space
      BY <2>2, <3>1
    <3>3. /\ data \in Seq(WriteType) /\ Len(data) \in Nat
          /\ \A j \in 1..Len(data) : /\ data[j].lba # 1 /\ data[j].value.kind = "data"
                                     /\ \E k \in 0..(BlocksFor(end) - 1) : data[j].lba = ptrs[k]
          /\ call.off = 0 /\ end # 0 => 1 \in 1..Len(data) /\ data[1].lba = ptrs[0]
      BY <2>1, <3>2, DataAre
    <3> QED BY <3>1, <3>3
  <2> HIDE DEF data, top, end
  <2> DEFINE ns == NewSize(size, end)
  <2>6. /\ ns \in Nat /\ BlocksFor(ns) = cur + need /\ (ns = 0 => cur + need = 0)
        /\ x \in InodeType /\ x.type = "file" /\ x.size = ns /\ x.ptrs = ptrs
        /\ Owns(disk, i) = 0..(cur - 1)
    <3>1. ns \in Nat /\ ns \in 0..MaxFile /\ BlocksFor(ns) = cur + need
      BY <2>1, ConstantFacts DEF MaxFile
    <3> HIDE DEF ns
    <3>2. ns = 0 => cur + need = 0
      BY <3>1, BlocksOfNothing
    <3>3. x \in InodeType /\ x.type = "file" /\ x.size = ns /\ x.ptrs = ptrs
      BY <2>2, <3>1 DEF Inode, InodeType, ns
    <3>4. Owns(disk, i) = 0..(cur - 1)
      BY <2>1 DEF Owns, cur, size
    <3> QED BY <3>1, <3>2, <3>3, <3>4
  <2> HIDE DEF x
  <2>7. w \in WriteType /\ w.lba = i /\ w.lba # 1 /\ w.value = x
    BY <2>1, <2>6, Contents, PutIs
  <2> HIDE DEF w
  <2>8. /\ ws \in Seq(WriteType) /\ Len(ws) = need + Len(data) + 1 /\ ws[Len(ws)] = w
        /\ \A j \in 1..need : ws[j] = marks[j]
        /\ \A j \in 1..Len(data) : ws[need + j] = data[j]
        /\ \A j \in 1..(Len(ws) - 1) : j \in 1..need \/ \E k \in 1..Len(data) : j = need + k
    <3>0. marks \in Seq(WriteType) /\ data \in Seq(WriteType) /\ w \in WriteType
      BY <2>1, <2>5, <2>7
    <3>1. /\ ws \in Seq(WriteType) /\ Len(ws) = Len(marks) + Len(data) + 1 /\ ws[Len(ws)] = w
          /\ \A j \in 1..Len(marks) : ws[j] = marks[j]
          /\ \A j \in 1..Len(data) : ws[Len(marks) + j] = data[j]
          /\ \A j \in 1..(Len(ws) - 1) : j \in 1..Len(marks) \/ \E k \in 1..Len(data) : j = Len(marks) + k
      <4>1. Joined(ws, marks, data, w)
        BY <3>0, ThreeParts
      <4> QED BY <4>1 DEF Joined
    <3>2. Len(marks) = need
      BY <2>1
    <3> QED BY <3>1, <3>2
  <2> HIDE DEF ws, ns
  <2>9. /\ Len(ws) \in Nat \ {0} /\ need \in 0..Len(ws)
        /\ \A j \in 1..Len(ws) : j = Len(ws) \/ j \in 1..(Len(ws) - 1)
        /\ \A j \in 1..need : j \in 1..(Len(ws) - 1) /\ j \in 1..Len(ws) /\ j # Len(ws)
        /\ ~(Len(ws) <= need)
        /\ \A k \in 1..Len(data) : need + k \in 1..(Len(ws) - 1) /\ ~(need + k <= need)
    <3> DEFINE n == Len(data)
               l == Len(ws)
    <3>1. need \in Nat /\ n \in Nat /\ l = need + n + 1
      BY <2>1, <2>5, <2>8
    <3> HIDE DEF n, l
    <3>2. /\ l \in Nat \ {0} /\ need \in 0..l
          /\ \A j \in 1..l : j = l \/ j \in 1..(l - 1)
          /\ \A j \in 1..need : j \in 1..(l - 1) /\ j \in 1..l /\ j # l
          /\ ~(l <= need)
          /\ \A k \in 1..n : need + k \in 1..(l - 1) /\ ~(need + k <= need)
      BY <3>1
    <3> QED BY <3>2 DEF n, l
  <2>10. \A j \in 1..need : /\ ws[j].lba = 1 /\ ws[j].value.kind = "bitmap"
                             /\ Taken(disk, S) \subseteq ws[j].value.set
    BY <2>a, <2>1, <2>8
  <2>11. \A k \in 1..Len(data) : /\ ws[need + k].lba # 1 /\ ws[need + k].value.kind = "data"
                                  /\ \E l \in 0..top : ws[need + k].lba = ptrs[l]
    BY <2>5, <2>8
  <2>12. \A j \in 1..Len(ws) : ws[j].lba = 1 <=> j <= need
    <3>1. \A j \in 1..need : j <= need
      BY <2>1
    <3> SUFFICES ASSUME NEW j \in 1..Len(ws) PROVE ws[j].lba = 1 <=> j <= need
      OBVIOUS
    <3>2. j = Len(ws) \/ j \in 1..need \/ \E k \in 1..Len(data) : j = need + k
      BY <2>8, <2>9
    <3> QED BY <2>7, <2>8, <2>9, <2>10, <2>11, <3>1, <3>2
  <2>13. \A j \in 1..Len(ws) : ws[j].lba = 1 => j \in 1..need
    <3>1. \A j \in 1..Len(ws) : j <= need => j \in 1..need
      BY <2>1
    <3> QED BY <2>12, <3>1
  <2>14. Typed(ws) /\ KeepsBits(disk, S, ws)
    BY <2>8, <2>10, <2>13 DEF Typed, KeepsBits
  <2>15. \A k \in 0..top : ptrs[k] \in Owned(disk, i) \/ ptrs[k] \notin Taken(disk, S)
    BY <2>2
  <2>16. FillsBlocks(disk, S, i, ws)
    <3> SUFFICES ASSUME NEW j \in 1..(Len(ws) - 1)
                 PROVE  \/ ws[j].lba = 1
                        \/ /\ ws[j].lba \in Space /\ ws[j].value.kind = "data"
                           /\ ws[j].lba \in Owned(disk, i) \/ ws[j].lba \notin Taken(disk, S)
      BY DEF FillsBlocks
    <3>1. CASE j \in 1..need
      BY <2>10, <3>1
    <3>2. CASE \E k \in 1..Len(data) : j = need + k
      BY <2>2, <2>11, <2>15, <3>2
    <3> QED BY <2>8, <3>1, <3>2
  <2>17. Replaces(disk, S, i, ws, x)
    <3>1. \A k \in 0..(BlocksFor(x.size) - 1) : k \in 0..top
      <4>1. BlocksFor(x.size) - 1 = top
        <5>1. BlocksFor(x.size) = cur + need /\ cur \in Nat /\ need \in Nat
          BY <2>1, <2>6
        <5> QED BY <5>1 DEF top
      <4> QED BY <4>1
    <3>2. /\ \A k \in 0..(BlocksFor(x.size) - 1) :
              /\ x.ptrs[k] \in Space
              /\ x.ptrs[k] \in Owned(disk, i) \/ x.ptrs[k] \notin Taken(disk, S)
          /\ \A k, l \in 0..(BlocksFor(x.size) - 1) : x.ptrs[k] = x.ptrs[l] => k = l
      BY <2>2, <2>6, <2>15, <3>1
    <3>3. CASE x.size = 0
      <4>1. need = 0 /\ size = 0
        BY <2>1, <2>4, <2>6, <3>3
      <4>2. x.ptrs[0] = 0
        BY <2>1, <2>3, <2>6, <4>1
      <4> QED BY <2>6, <3>2, <3>3, <4>2 DEF Replaces
    <3>4. CASE x.size # 0 /\ size # 0
      <4>1. x.ptrs[0] = old[0] /\ disk[old[0]].kind = "data"
        BY <2>1, <2>3, <2>4, <2>6, <3>4
      <4> QED BY <2>6, <3>2, <3>4, <4>1 DEF Replaces
    <3>5. CASE x.size # 0 /\ size = 0
      <4>1. end # 0
        BY <2>6, <3>5 DEF ns, NewSize
      <4>2. call.off = 0
        <5>1. call.off \in Nat
          BY ConstantFacts DEF Ready
        <5> QED BY <1>5, <3>5, <5>1
      <4>3. 1 \in 1..Len(data) /\ data[1].lba = x.ptrs[0]
        BY <2>5, <2>6, <4>1, <4>2
      <4>4. need + 1 \in 1..(Len(ws) - 1) /\ ws[need + 1].lba = x.ptrs[0]
        BY <2>8, <2>9, <4>3
      <4> QED BY <2>6, <3>2, <3>5, <4>4 DEF Replaces
    <3> QED BY <3>3, <3>4, <3>5
  <2>18. MarksFile(disk, bitmap, S, i, ws, op, x)
    <3> SUFFICES ASSUME NEW e, NEW n, DiskAfter(disk, ws, op, Len(ws), e), BitmapAfter(bitmap, ws, Len(ws), n),
                        e[i] = x
                 PROVE  /\ \A b \in Taken(disk, S) \cup Owned(e, i) : b \in n /\ b \in e[1].set
                        /\ \A b \in n : b \in Owned(e, i) \/ (b \in bitmap /\ b \notin Owned(disk, i))
      BY Zenon DEF MarksFile
    <3>o. /\ \A k \in 0..top : ptrs[k] \in Owned(e, i)
          /\ \A b \in Owned(e, i) : \E k \in 0..top : b = ptrs[k]
      <4>1. BlocksFor(e[i].size) - 1 = top /\ e[i].ptrs = ptrs
        <5>1. BlocksFor(x.size) = cur + need /\ x.ptrs = ptrs /\ cur \in Nat /\ need \in Nat
          BY <2>1, <2>6
        <5> QED BY <5>1 DEF top
      <4> QED BY <4>1 DEF Owned, Owns
    <3>1. /\ need = 0 => n = bitmap /\ e[1] = disk[1]
          /\ need # 0 => n = ws[need].value.set /\ e[1] = ws[need].value
      <4> HIDE DEF op
      <4>1. Leads(ws, need)
        BY <2>9, <2>12 DEF Leads
      <4> QED BY <2>0, <4>1, LastBits
    <3>2. Taken(disk, S) \subseteq n /\ Taken(disk, S) \subseteq e[1].set
      <4>1. CASE need = 0
        BY <2>a, <3>1, <4>1 DEF Marked
      <4>2. CASE need # 0
        <5>1. need \in 1..need
          BY <2>1, <4>2
        <5> QED BY <2>10, <3>1, <4>2, <5>1
      <4> QED BY <4>1, <4>2
    <3>3. ASSUME NEW b \in Owned(e, i) PROVE b \in n /\ b \in e[1].set
      <4>1. PICK k \in 0..top : b = ptrs[k]
        BY <3>3, <3>o
      <4>2. CASE k < cur
        <5>1. b \in Owned(disk, i)
          BY <2>2, <4>1, <4>2
        <5>2. b \in Taken(disk, S)
          BY <2>a, <2>1, <5>1, TakenAre
        <5> QED BY <3>2, <5>2
      <4>3. CASE ~(k < cur)
        <5> DEFINE l == k - cur + 1
        <5>1. l \in 1..need /\ b = got[l]
          BY <2>2, <4>1, <4>3
        <5> HIDE DEF l
        <5>2. need # 0 /\ need \in 1..need /\ l \in 1..need
          BY <2>1, <5>1
        <5>3. b \in marks[need].value.set /\ ws[need] = marks[need]
          BY <2>1, <2>8, <5>1, <5>2
        <5> QED BY <3>1, <5>2, <5>3
      <4> QED BY <4>2, <4>3
    <3>4. ASSUME NEW b \in n PROVE b \in Owned(e, i) \/ (b \in bitmap /\ b \notin Owned(disk, i))
      <4>1. ASSUME b \in Owned(disk, i) PROVE b \in Owned(e, i)
        <5>1. PICK k \in Owns(disk, i) : b = disk[i].ptrs[k]
          BY <4>1 DEF Owned
        <5>2. k \in 0..(cur - 1) /\ disk[i].ptrs[k] = old[k]
          BY <2>1, <2>6, <5>1 DEF old
        <5>3. k \in 0..top /\ k < cur
          BY <2>1, <5>2 DEF top
        <5> QED BY <2>2, <3>o, <5>1, <5>2, <5>3
      <4>2. ASSUME need # 0, NEW l \in 1..need PROVE got[l] \in Owned(e, i)
        <5> DEFINE k == cur + l - 1
        <5>1. k \in 0..top /\ ~(k < cur) /\ k - cur + 1 = l
          BY <2>1, <4>2 DEF top
        <5> HIDE DEF k
        <5> QED BY <2>2, <3>o, <5>1
      <4>3. b \in bitmap \/ (need # 0 /\ \E l \in 1..need : b = got[l])
        <5>1. CASE need = 0
          BY <3>1, <3>4, <5>1
        <5>2. CASE need # 0
          <6>1. need \in 1..need
            BY <2>1, <5>2
          <6>2. n = bitmap \cup FirstOf(got, need)
            BY <2>1, <2>8, <3>1, <5>2, <6>1
          <6> QED BY <3>4, <5>2, <6>2 DEF FirstOf
        <5> QED BY <5>1, <5>2
      <4> QED BY <4>1, <4>2, <4>3
    <3> QED BY <3>2, <3>3, <3>4
  <2>19. Planned(disk, bitmap, ws, op) /\ (Exact(disk, bitmap, S) => Settles(disk, bitmap, ws, op))
    <3> HIDE DEF op
    <3> QED BY <2>a, <2>1, <2>7, <2>8, <2>9, <2>14, <2>16, <2>17, <2>18, FilePlan
  <2>20. writes' = ws
    BY <1>5 DEF Finish, ws, w, x, ptrs, got, need, cur, size, old, f, i, data, marks, end
  <2> QED BY <2>14, <2>19, <2>20 DEF Goes
<1>6. \/ Refuse(FileError(i))
      \/ Refuse(EINVAL)
      \/ FileError(i) = 0 /\ Finish(marks, Error(ENOSPC))
      \/ FileError(i) = 0 /\ call.off <= size /\ Len(got) = need /\ Finish(ws, Success(NULL))
  BY Zenon DEF Write, InodeLast, Grown, DataWrites, WriteEnd
<1>7. call.off <= size /\ FileError(i) = 0 => ~(call.off > size)
  <2>1. call.off \in Nat
    BY ConstantFacts DEF Ready
  <2> HIDE DEF i, size
  <2> QED BY <1>3, <2>1
<1> HIDE DEF i, size, marks, ws, got, need
<1> QED BY <1>1, <1>2, <1>4, <1>5, <1>6, <1>7
----------------------------------------------------------------------------
(* The inductive invariant. *)

(* Nothing is pending where nothing was called; block 1 holds the bitmap,   *)
(* and nothing else will be written there.                                  *)
CallKept == /\ call = NULL => ret = NULL
            /\ ret = NULL => writes = <<>>
            /\ disk[1].kind = "bitmap"
            /\ Typed(writes)

Inv == TypeOK /\ CallKept /\ Planned(disk, bitmap, writes, call.op)

(* Unless something failed, both bitmaps are the same, and nothing but the  *)
(* tree is marked once the pending writes are made.                         *)
Balanced == ~failed => disk[1].set = bitmap /\ Settles(disk, bitmap, writes, call.op)

(* The new disk is a tree that consists of the root.                        *)
LEMMA NewDisk == Init => Inv /\ Balanced
<1> SUFFICES ASSUME Init PROVE Inv /\ Balanced
  OBVIOUS
<1> DEFINE m == {0, 1, Root, RootBlock}
           x == Inode("dir", BlockSize, [NoPtrs EXCEPT ![0] = RootBlock])
           y == DirBlock(EmptyDir)
           S == {Root}
<1>1. /\ Root \in Space /\ RootBlock \in Space /\ Root # RootBlock /\ Space \subseteq 1..(DiskSize - 1)
      /\ Root # 1 /\ RootBlock # 1 /\ 1 \in 1..(DiskSize - 1) /\ Space \subseteq Blocks
      /\ 0 \in Blocks /\ 1 \in Blocks /\ 0 \in Ptrs
  BY Sizes, ConstantFacts
<1>2. disk = [b \in 1..(DiskSize - 1) |->
                CASE b = 1 -> Bits(m)
                  [] b = Root -> x
                  [] b = RootBlock -> y
                  [] OTHER -> Zeroes]
      /\ bitmap = m /\ call = NULL /\ writes = <<>> /\ ret = NULL /\ failed = FALSE
  BY Zenon DEF Init
<1>3. m \in SUBSET Blocks /\ Bits(m) \in BlockContents /\ Bits(m).kind = "bitmap" /\ Bits(m).set = m
  <2>1. m \in SUBSET Blocks
    BY <1>1
  <2> QED BY <2>1, Contents
<1>4. x \in InodeType /\ x.type = "dir" /\ x.size = BlockSize /\ x.ptrs[0] = RootBlock
  <2>1. BlockSize \in 0..MaxFile
    <3> DEFINE p == BlockSize
               q == MaxPtrs
    <3>1. p \in Nat \ {0} /\ q \in Nat \ {0}
      BY ConstantFacts
    <3> HIDE DEF p, q
    <3>2. p <= q * p /\ q * p \in Nat
      BY <3>1
    <3> QED BY <3>1, <3>2 DEF p, q, MaxFile
  <2>2. [NoPtrs EXCEPT ![0] = RootBlock] \in [Ptrs -> Blocks] /\ [NoPtrs EXCEPT ![0] = RootBlock][0] = RootBlock
    BY <1>1 DEF NoPtrs
  <2> QED BY <2>1, <2>2 DEF Inode, InodeType
<1>5. y \in DirType /\ \A s \in Slots : y.entries[s] = NULL
  BY DEF DirBlock, DirType, EmptyDir
<1>6. x \in BlockContents /\ y \in BlockContents /\ Zeroes \in BlockContents
  BY <1>4, <1>5, Contents DEF BlockContents
<1> HIDE DEF m, x, y
<1>7. disk[1] = Bits(m) /\ disk[Root] = x /\ disk[RootBlock] = y
  BY <1>1, <1>2
<1>8. disk \in [1..(DiskSize - 1) -> BlockContents]
  BY <1>2, <1>3, <1>6
<1>9. TypeOK
  <2>1. writes \in Seq([lba : 1..(DiskSize - 1), value : BlockContents])
    BY <1>2
  <2>2. bitmap \in SUBSET Blocks /\ call \in Calls \cup {NULL} /\ failed \in BOOLEAN
    BY <1>2, <1>3
  <2> QED BY <1>8, <2>1, <2>2 DEF TypeOK
<1>10. CallKept
  BY <1>2, <1>3, <1>7 DEF CallKept, Typed
<1>11. Dirs(disk, S) = S /\ Owns(disk, Root) = {0} /\ Head0(disk, Root) = RootBlock
  BY <1>4, <1>7, BlocksOfDir DEF Dirs, Owns, Head0
<1>12. Sound(disk, S)
  <2>1. Inodes(disk, S)
    BY <1>1, <1>4, <1>7 DEF Inodes
  <2>2. OwnBlocks(disk, S)
    BY <1>1, <1>4, <1>7, <1>11 DEF OwnBlocks
  <2>3. Heads(disk, S)
    BY <1>4, <1>5, <1>7, <1>11 DEF Heads
  <2>4. \A s \in Slots : At(disk, Root, s) = NULL
    BY <1>5, <1>7, <1>11 DEF At
  <2>5. Linked(disk, S)
    BY <1>11, <2>4 DEF Linked
  <2> QED BY <2>1, <2>2, <2>3, <2>5 DEF Sound
<1>t. Taken(disk, S) = m
  <2>1. Owned(disk, Root) = {RootBlock}
    BY <1>4, <1>7, <1>11 DEF Owned
  <2> QED BY <2>1 DEF Taken, m
<1>13. Marked(disk, bitmap, S)
  BY <1>2, <1>3, <1>7, <1>t DEF Marked
<1>14. Planned(disk, bitmap, <<>>, call.op)
  BY <1>12, <1>13, QuietPlan DEF Quiet
<1>15. Inv
  BY <1>2, <1>9, <1>10, <1>14 DEF Inv
<1>16. Settles(disk, bitmap, <<>>, call.op)
  <2>1. Rooted(disk, S)
    BY DEF Rooted, Closed
  <2>2. Exact(disk, bitmap, S)
    BY <1>2, <1>t, <2>1 DEF Exact
  <2> QED BY <1>12, <2>2, SnugSettles DEF Snug
<1>17. disk[1].set = bitmap
  BY <1>2, <1>3, <1>7
<1> QED BY <1>2, <1>15, <1>16, <1>17 DEF Balanced

(* Where a call is and has no answer, the disk is a marked tree.            *)
LEMMA HandlerReady == ASSUME Inv, NEW op, Handling(op)
                      PROVE  writes = <<>> /\ \E S : Ready(S)
<1>1. call \in Calls /\ writes = <<>> /\ Typed(writes) /\ bitmap \in SUBSET Blocks /\ Image
  BY DEF Inv, TypeOK, CallKept, Handling, Image
<1>2. Quiet(disk, bitmap)
  BY <1>1, PlanQuiet DEF Inv, Typed
<1> QED BY <1>1, <1>2 DEF Quiet, Ready

(* What a handler leaves.                                                   *)
LEMMA HandlerDone ==
  ASSUME Inv, NEW op, Handling(op), NEW ws, NEW r, Finish(ws, r), NEW S, Goes(S, writes'), ws = <<>> \/ r # NULL
  PROVE  Inv'
<1>1. /\ writes' = ws /\ ret' = r /\ failed' \in BOOLEAN
      /\ disk' = disk /\ bitmap' = bitmap /\ call' = call
  BY DEF Finish, Inv, TypeOK
<1>2. call # NULL
  BY DEF Handling
<1>3. Typed(writes') /\ Planned(disk, bitmap, writes', call.op)
  BY DEF Goes
<1>4. TypeOK'
  BY <1>1, <1>3 DEF Inv, TypeOK, Typed, WriteType
<1>5. Planned(disk', bitmap', writes', call'.op)
  BY <1>1, <1>3
<1>6. CallKept'
  <2>1. call' # NULL /\ (ret' = NULL => writes' = <<>>) /\ disk'[1].kind = "bitmap"
    BY <1>1, <1>2 DEF Inv, CallKept
  <2> QED BY <1>3, <2>1 DEF CallKept, Typed
<1> QED BY <1>4, <1>5, <1>6 DEF Inv

(* A handler ends with its writes and an answer.                            *)
LEMMA HandlerEnds ==
  ASSUME Handler
  PROVE  \E op, ws, r : Handling(op) /\ Finish(ws, r) /\ (ws = <<>> \/ r # NULL)
<1>0. Success(NULL) # NULL /\ Error(ENOSPC) # NULL
  BY FsAssumption DEF Success, Error, Codes
<1> DEFINE Ends == \E op, ws, r : Handling(op) /\ Finish(ws, r) /\ (ws = <<>> \/ r # NULL)
<1>1. CASE Getattr
  BY <1>1, Zenon DEF Getattr, Refuse
<1>2. CASE Readdir
  BY <1>2, Zenon DEF Readdir, Refuse
<1>3. CASE Read
  BY <1>3, Zenon DEF Read, Refuse
<1>4. CASE Create
  BY <1>0, <1>4, Zenon DEF Create, Refuse
<1>5. CASE Mkdir
  BY <1>0, <1>5, Zenon DEF Mkdir, Refuse
<1>6. CASE Unlink
  BY <1>0, <1>6, Zenon DEF Unlink, Refuse
<1>7. CASE Rmdir
  BY <1>0, <1>7, Zenon DEF Rmdir, Refuse
<1>8. CASE Rename
  BY <1>0, <1>8, Zenon DEF Rename, Refuse
<1>9. CASE Chmod \/ Utime
  BY <1>0, <1>9, Zenon DEF Chmod, Utime, Touch, Refuse
<1>10. CASE Truncate
  BY <1>0, <1>10, Zenon DEF Truncate, Refuse
<1>11. CASE Write
  BY <1>0, <1>11, Zenon DEF Write, Refuse
<1> QED BY <1>1, <1>2, <1>3, <1>4, <1>5, <1>6, <1>7, <1>8, <1>9, <1>10, <1>11 DEF Handler

(* What a handler leaves to be written is a plan.                           *)
LEMMA HandlerGoes ==
  ASSUME NEW S, Ready(S), "truncate" \notin Faulty, Handler
  PROVE  Goes(S, writes')
BY CreateGoes, MkdirGoes, UnlinkGoes, RmdirGoes, RenameGoes, TouchGoes, TruncateGoes, WriteGoes,
   ReadersGo
   DEF Handler, Chmod, Utime

(* A handler keeps the invariant.                                           *)
LEMMA HandlerKeeps == ASSUME Inv, "truncate" \notin Faulty, Handler PROVE Inv'
<1>1. PICK op, ws, r : Handling(op) /\ Finish(ws, r) /\ (ws = <<>> \/ r # NULL)
  BY HandlerEnds
<1>2. PICK S : Ready(S)
  BY <1>1, HandlerReady
<1>3. Goes(S, writes')
  BY <1>2, HandlerGoes
<1> QED BY <1>1, <1>3, HandlerDone

(* A call begins.                                                           *)
LEMMA CallKeeps == ASSUME Inv, Call PROVE Inv'
<1>1. /\ call = NULL /\ call' \in Calls
      /\ disk' = disk /\ bitmap' = bitmap /\ writes' = writes /\ ret' = ret /\ failed' = failed
  BY DEF Call
<1>2. ret = NULL /\ writes = <<>> /\ Typed(writes)
  BY <1>1 DEF Inv, CallKept
<1>3. Quiet(disk, bitmap)
  BY <1>2, PlanQuiet DEF Inv, Typed
<1>4. Planned(disk', bitmap', writes', call'.op)
  <2>1. Planned(disk, bitmap, <<>>, call'.op)
    BY <1>3, QuietPlan
  <2> QED BY <1>1, <1>2, <2>1
<1>5. TypeOK'
  BY <1>1 DEF Inv, TypeOK
<1>6. CallKept'
  BY <1>1, <1>2 DEF Inv, CallKept, Typed
<1> QED BY <1>4, <1>5, <1>6 DEF Inv

(* A call returns.                                                          *)
LEMMA ReturnKeeps == ASSUME Inv, Return PROVE Inv'
<1>1. /\ writes = <<>> /\ call' = NULL /\ ret' = NULL
      /\ disk' = disk /\ bitmap' = bitmap /\ writes' = writes /\ failed' = failed
  BY DEF Return
<1>2. Typed(writes)
  BY DEF Inv, CallKept
<1>3. Quiet(disk, bitmap)
  BY <1>1, <1>2, PlanQuiet DEF Inv, Typed
<1>4. Planned(disk', bitmap', writes', call'.op)
  <2>1. Planned(disk, bitmap, <<>>, call'.op)
    BY <1>3, QuietPlan
  <2> QED BY <1>1, <2>1
<1>5. TypeOK'
  BY <1>1 DEF Inv, TypeOK
<1>6. CallKept'
  BY <1>1, <1>2 DEF Inv, CallKept, Typed
<1> QED BY <1>4, <1>5, <1>6 DEF Inv

(* The next write, and the bitmap in memory as it is then.                  *)
LEMMA NextWrite ==
  ASSUME Inv, writes # <<>>, Remember(Head(writes))
  PROVE  LET w == writes[1] IN
         /\ writes \in Seq(WriteType) /\ Head(writes) = w /\ w \in WriteType
         /\ Typed(Tail(writes)) /\ (w.lba = 1 => w.value.kind = "bitmap")
         /\ bitmap' = (IF w.lba = 1 THEN w.value.set ELSE bitmap) /\ bitmap' \in SUBSET Blocks
<1> DEFINE w == writes[1]
<1>1. writes \in Seq(WriteType) /\ \A j \in 1..Len(writes) : writes[j].lba = 1 => writes[j].value.kind = "bitmap"
  BY DEF Inv, CallKept, Typed
<1>2. /\ Head(writes) = w /\ w \in WriteType /\ 1 \in 1..Len(writes)
      /\ Tail(writes) \in Seq(WriteType) /\ Len(Tail(writes)) = Len(writes) - 1
      /\ \A j \in 1..(Len(writes) - 1) : j + 1 \in 1..Len(writes) /\ Tail(writes)[j] = writes[j + 1]
  BY <1>1, TailIs
<1>3. Typed(Tail(writes))
  BY <1>1, <1>2 DEF Typed
<1>4. bitmap' = IF w.lba = 1 THEN w.value.set ELSE bitmap
  BY <1>2 DEF Remember
<1>5. w.lba = 1 => w.value.kind = "bitmap"
  BY <1>1, <1>2
<1>6. bitmap' \in SUBSET Blocks
  <2>1. w.value \in BlockContents
    BY <1>2 DEF WriteType
  <2>2. bitmap \in SUBSET Blocks
    BY DEF Inv, TypeOK
  <2> QED BY <1>4, <1>5, <2>1, <2>2, Contents
<1> QED BY <1>1, <1>2, <1>3, <1>4, <1>5, <1>6

(* Making the next write.                                                   *)
LEMMA WriteKeeps == ASSUME Inv, DiskWrite PROVE Inv'
<1> DEFINE w == writes[1]
<1>1. /\ writes # <<>> /\ disk' = [disk EXCEPT ![Head(writes).lba] = Head(writes).value]
      /\ Remember(Head(writes)) /\ writes' = Tail(writes)
      /\ call' = call /\ ret' = ret /\ failed' = failed
  BY DEF DiskWrite
<1>2. /\ writes \in Seq(WriteType) /\ Head(writes) = w /\ w \in WriteType
      /\ Typed(Tail(writes)) /\ (w.lba = 1 => w.value.kind = "bitmap")
      /\ bitmap' = (IF w.lba = 1 THEN w.value.set ELSE bitmap) /\ bitmap' \in SUBSET Blocks
  BY <1>1, NextWrite
<1> HIDE DEF w
<1>3. /\ disk \in [1..(DiskSize - 1) -> BlockContents] /\ disk[1].kind = "bitmap"
      /\ w.lba \in 1..(DiskSize - 1) /\ w.value \in BlockContents /\ 1 \in 1..(DiskSize - 1)
  BY <1>2, Sizes DEF Inv, TypeOK, CallKept, WriteType
<1>4. /\ disk' \in [1..(DiskSize - 1) -> BlockContents]
      /\ \A b \in 1..(DiskSize - 1) : disk'[b] = IF b = w.lba THEN w.value ELSE disk[b]
  BY <1>1, <1>2, <1>3
<1>5. TypeOK'
  <2>1. writes' \in Seq([lba : 1..(DiskSize - 1), value : BlockContents])
    BY <1>1, <1>2 DEF Typed, WriteType
  <2> QED BY <1>1, <1>2, <1>4, <2>1 DEF Inv, TypeOK
<1>6. CallKept'
  <2>1. (call = NULL => ret = NULL) /\ ret # NULL
    BY <1>1 DEF Inv, CallKept
  <2>2. disk'[1].kind = "bitmap"
    BY <1>2, <1>3, <1>4
  <2> QED BY <1>1, <1>2, <2>1, <2>2 DEF CallKept, Typed
<1>7. Planned(disk', bitmap', writes', call'.op)
  <2>1. Planned(disk, bitmap, writes, call.op)
    BY DEF Inv
  <2>2. Planned(disk', bitmap', Tail(writes), call.op)
    <3>1. \A b \in 1..(DiskSize - 1) :
            \/ b # writes[1].lba /\ disk'[b] = disk[b]
            \/ b = writes[1].lba /\ disk'[b] = writes[1].value
            \/ b = 1 /\ b = writes[1].lba /\ call.op \in Freeing /\ disk'[b] = disk[b]
      BY <1>4 DEF w
    <3>2. bitmap' = IF writes[1].lba = 1 THEN writes[1].value.set ELSE bitmap
      BY <1>2 DEF w
    <3> QED BY <1>1, <1>2, <2>1, <3>1, <3>2, PlanGoesOn
  <2> QED BY <1>1, <2>2
<1> QED BY <1>5, <1>6, <1>7 DEF Inv

(* Failing to make it: free_block goes on, any other call ends.             *)
LEMMA FailKeeps == ASSUME Inv, DiskWriteFails PROVE Inv'
<1> DEFINE w == writes[1]
<1>1. /\ writes # <<>> /\ call.op \in Faulty /\ Remember(Head(writes))
      /\ disk' = disk /\ call' = call /\ failed' = TRUE
  BY DEF DiskWriteFails
<1>2. /\ writes \in Seq(WriteType) /\ Head(writes) = w /\ w \in WriteType
      /\ Typed(Tail(writes)) /\ (w.lba = 1 => w.value.kind = "bitmap")
      /\ bitmap' = (IF w.lba = 1 THEN w.value.set ELSE bitmap) /\ bitmap' \in SUBSET Blocks
  BY <1>1, NextWrite
<1>3. Planned(disk, bitmap, writes, call.op)
  BY DEF Inv
<1> HIDE DEF w
<1>4. (call = NULL => ret = NULL) /\ ret # NULL /\ disk[1].kind = "bitmap"
  BY <1>1 DEF Inv, CallKept
<1>5. CASE Head(writes).lba = 1 /\ call.op \in Freeing
  <2>1. writes' = Tail(writes) /\ ret' = ret
    BY <1>5 DEF DiskWriteFails
  <2>2. Planned(disk, bitmap', Tail(writes), call.op)
    <3>1. \A b \in 1..(DiskSize - 1) :
            \/ b # writes[1].lba /\ disk[b] = disk[b]
            \/ b = writes[1].lba /\ disk[b] = writes[1].value
            \/ b = 1 /\ b = writes[1].lba /\ call.op \in Freeing /\ disk[b] = disk[b]
      BY <1>2, <1>5 DEF w
    <3>2. bitmap' = IF writes[1].lba = 1 THEN writes[1].value.set ELSE bitmap
      BY <1>2 DEF w
    <3> QED BY <1>1, <1>2, <1>3, <3>1, <3>2, PlanGoesOn
  <2>3. Planned(disk', bitmap', writes', call'.op)
    BY <1>1, <2>1, <2>2
  <2>4. TypeOK'
    <3>1. writes' \in Seq([lba : 1..(DiskSize - 1), value : BlockContents])
      BY <1>2, <2>1 DEF Typed, WriteType
    <3> QED BY <1>1, <1>2, <3>1 DEF Inv, TypeOK
  <2>5. CallKept'
    BY <1>1, <1>2, <1>4, <2>1 DEF CallKept, Typed
  <2> QED BY <2>3, <2>4, <2>5 DEF Inv
<1>6. CASE ~(Head(writes).lba = 1 /\ call.op \in Freeing)
  <2>1. writes' = <<>> /\ ret' = Error(EIO)
    BY <1>6 DEF DiskWriteFails
  <2>2. Quiet(disk, bitmap')
    <3>1. bitmap' = IF writes[1].lba = 1 THEN writes[1].value.set ELSE bitmap
      BY <1>2 DEF w
    <3> QED BY <1>1, <1>2, <1>3, <3>1, PlanFails
  <2>3. Planned(disk', bitmap', writes', call'.op)
    <3>1. Planned(disk, bitmap', <<>>, call.op)
      BY <2>2, QuietPlan
    <3> QED BY <1>1, <2>1, <3>1
  <2>4. TypeOK'
    <3>1. writes' \in Seq([lba : 1..(DiskSize - 1), value : BlockContents])
      BY <2>1
    <3> QED BY <1>1, <1>2, <3>1 DEF Inv, TypeOK
  <2>5. CallKept'
    BY <1>1, <1>4, <2>1 DEF CallKept, Typed
  <2> QED BY <2>3, <2>4, <2>5 DEF Inv
<1> QED BY <1>5, <1>6

(* The process dies and reads back the bitmap.                              *)
LEMMA CrashKeeps == ASSUME Inv, Crash PROVE Inv'
<1>1. /\ call # NULL => call.op \in Faulty
      /\ call' = NULL /\ writes' = <<>> /\ ret' = NULL
      /\ bitmap' = disk[1].set /\ failed' \in BOOLEAN /\ disk' = disk
  BY DEF Crash, Inv, TypeOK
<1>2. /\ Typed(writes) /\ writes \in Seq(WriteType) /\ (writes = <<>> \/ call.op \in Faulty)
      /\ disk[1].kind = "bitmap" /\ disk[1] \in BlockContents
  BY <1>1, Sizes DEF Inv, TypeOK, CallKept, Typed
<1>3. Quiet(disk, bitmap)
  BY <1>2, PlanQuiet DEF Inv
<1>4. Quiet(disk, disk[1].set)
  BY <1>3 DEF Quiet, Marked
<1>5. Planned(disk', bitmap', writes', call'.op)
  <2>1. Planned(disk, disk[1].set, <<>>, call'.op)
    BY <1>4, QuietPlan
  <2> QED BY <1>1, <2>1
<1>6. TypeOK'
  <2>1. bitmap' \in SUBSET Blocks
    BY <1>1, <1>2, Contents
  <2>2. writes' \in Seq([lba : 1..(DiskSize - 1), value : BlockContents])
    BY <1>1
  <2> QED BY <1>1, <2>1, <2>2 DEF Inv, TypeOK
<1>7. CallKept'
  BY <1>1, <1>2 DEF CallKept, Typed
<1> QED BY <1>5, <1>6, <1>7 DEF Inv

(* Inv is inductive.                                                        *)
LEMMA InvHolds == ASSUME "truncate" \notin Faulty PROVE Spec => []Inv
<1>1. Init => Inv
  BY NewDisk
<1>2. Inv /\ [Next]_vars => Inv'
  <2> SUFFICES ASSUME Inv, [Next]_vars PROVE Inv'
    OBVIOUS
  <2>1. CASE Call
    BY <2>1, CallKeeps
  <2>2. CASE Handler
    BY <2>2, HandlerKeeps
  <2>3. CASE DiskWrite
    BY <2>3, WriteKeeps
  <2>4. CASE DiskWriteFails
    BY <2>4, FailKeeps
  <2>5. CASE Return
    BY <2>5, ReturnKeeps
  <2>6. CASE Crash
    BY <2>6, CrashKeeps
  <2>7. CASE UNCHANGED vars
    BY <2>7 DEF vars, Inv, TypeOK, CallKept
  <2> QED BY <2>1, <2>2, <2>3, <2>4, <2>5, <2>6, <2>7 DEF Next
<1> QED BY <1>1, <1>2, PTL DEF Spec
----------------------------------------------------------------------------
(* The bitmaps stay exact until something fails. *)

(* With nothing pending it is so now, and stays so under any call.          *)
LEMMA AtRest ==
  ASSUME Balanced, ~failed, writes = <<>>, NEW op
  PROVE  disk[1].set = bitmap /\ Snug(disk, bitmap) /\ Settles(disk, bitmap, <<>>, op)
<1>1. disk[1].set = bitmap /\ Settles(disk, bitmap, <<>>, call.op)
  BY DEF Balanced
<1>2. Snug(disk, bitmap)
  BY <1>1, SettledSnug
<1> QED BY <1>1, <1>2, SnugSettles

(* A handler leaves writes that settle the bitmap.                          *)
LEMMA HandlerBalances == ASSUME Inv, Balanced, "truncate" \notin Faulty, Handler PROVE Balanced'
<1>1. PICK op, ws, r : Handling(op) /\ Finish(ws, r) /\ (ws = <<>> \/ r # NULL)
  BY HandlerEnds
<1>2. writes = <<>> /\ \E S : Ready(S)
  BY <1>1, HandlerReady
<1>3. PICK T : Ready(T)
  BY <1>2
<1>4. disk' = disk /\ bitmap' = bitmap /\ call' = call /\ (failed => failed')
  BY <1>1 DEF Finish
<1>5. ASSUME ~failed' PROVE disk[1].set = bitmap /\ Settles(disk, bitmap, writes', call.op)
  <2>1. disk[1].set = bitmap /\ Snug(disk, bitmap)
    BY <1>2, <1>4, <1>5, AtRest
  <2>2. PICK S : Sound(disk, S) /\ Exact(disk, bitmap, S)
    BY <2>1 DEF Snug
  <2>3. Ready(S)
    <3>1. Taken(disk, S) \subseteq Taken(disk, T)
      BY <1>3, <2>2, RootedIn DEF Ready, Exact
    <3> QED BY <1>3, <2>2, <3>1 DEF Ready, Marked
  <2>4. Goes(S, writes')
    BY <2>3, HandlerGoes
  <2> QED BY <1>5, <2>1, <2>2, <2>4 DEF Goes
<1> QED BY <1>4, <1>5 DEF Balanced

(* A write made brings it nearer.                                           *)
LEMMA WriteBalances == ASSUME Inv, Balanced, DiskWrite PROVE Balanced'
<1> DEFINE w == writes[1]
<1>1. /\ writes # <<>> /\ disk' = [disk EXCEPT ![Head(writes).lba] = Head(writes).value]
      /\ Remember(Head(writes)) /\ writes' = Tail(writes)
      /\ call' = call /\ failed' = failed
  BY DEF DiskWrite
<1>2. /\ writes \in Seq(WriteType) /\ Head(writes) = w /\ w \in WriteType
      /\ bitmap' = (IF w.lba = 1 THEN w.value.set ELSE bitmap)
  BY <1>1, NextWrite
<1> HIDE DEF w
<1>3. \A b \in 1..(DiskSize - 1) : disk'[b] = IF b = w.lba THEN w.value ELSE disk[b]
  <2>1. disk \in [1..(DiskSize - 1) -> BlockContents]
    BY DEF Inv, TypeOK
  <2> QED BY <1>1, <1>2, <2>1 DEF WriteType
<1>4. ASSUME ~failed PROVE disk'[1].set = bitmap' /\ Settles(disk', bitmap', Tail(writes), call.op)
  <2>1. disk[1].set = bitmap /\ Settles(disk, bitmap, writes, call.op)
    BY <1>4 DEF Balanced
  <2>2. \A b \in 1..(DiskSize - 1) :
          \/ b # writes[1].lba /\ disk'[b] = disk[b]
          \/ b = writes[1].lba /\ disk'[b] = writes[1].value
          \/ b = 1 /\ b = writes[1].lba /\ call.op \in Freeing /\ disk'[b] = disk[b]
    BY <1>3 DEF w
  <2>3. bitmap' = IF writes[1].lba = 1 THEN writes[1].value.set ELSE bitmap
    BY <1>2 DEF w
  <2>4. Settles(disk', bitmap', Tail(writes), call.op)
    BY <1>1, <1>2, <2>1, <2>2, <2>3, SettlesOn
  <2>5. disk'[1].set = bitmap'
    BY <1>2, <1>3, <2>1, Sizes
  <2> QED BY <2>4, <2>5
<1> QED BY <1>1, <1>4 DEF Balanced

(* Balanced is an invariant.                                                *)
LEMMA BalancedHolds == ASSUME "truncate" \notin Faulty PROVE Spec => [](Inv /\ Balanced)
<1>1. Init => Inv /\ Balanced
  BY NewDisk
<1>2. Inv /\ Balanced /\ [Next]_vars => Balanced'
  <2> SUFFICES ASSUME Inv, Balanced, [Next]_vars PROVE Balanced'
    OBVIOUS
  <2>1. CASE Call
    <3>1. writes = <<>>
      BY <2>1 DEF Call, Inv, CallKept
    <3>2. /\ disk' = disk /\ bitmap' = bitmap /\ writes' = <<>> /\ failed' = failed
      BY <2>1, <3>1 DEF Call
    <3> QED BY <3>1, <3>2, AtRest DEF Balanced
  <2>2. CASE Handler
    BY <2>2, HandlerBalances
  <2>3. CASE DiskWrite
    BY <2>3, WriteBalances
  <2>4. CASE DiskWriteFails
    BY <2>4 DEF DiskWriteFails, Balanced
  <2>5. CASE Return
    <3>1. writes = <<>> /\ disk' = disk /\ bitmap' = bitmap /\ writes' = <<>> /\ failed' = failed
      BY <2>5 DEF Return
    <3> QED BY <3>1, AtRest DEF Balanced
  <2>6. CASE Crash
    <3>1. /\ disk' = disk /\ bitmap' = disk[1].set /\ writes' = <<>>
          /\ ~failed' => ~failed /\ writes = <<>>
      BY <2>6 DEF Crash
    <3> QED BY <3>1, AtRest DEF Balanced
  <2>7. CASE UNCHANGED vars
    BY <2>7 DEF vars, Balanced
  <2> QED BY <2>1, <2>2, <2>3, <2>4, <2>5, <2>6, <2>7 DEF Next
<1> QED BY <1>1, <1>2, InvHolds, PTL DEF Spec
----------------------------------------------------------------------------
(* What the properties say of the disk. *)

\* The inodes that the entries of inodes lead to, and the levels of the tree so.
Below1(inodes) == {Entries(e[1])[e[2]].inode : e \in DirEntries(inodes)}
Levels(l, m) == l = [n \in 0..m |-> IF n = 0 THEN {Root}
                                    ELSE {Entries(e[1])[e[2]].inode : e \in DirEntries(l[n - 1])}]

(* The recursion over the levels has a solution.                            *)
LEMMA LevelsExist == ASSUME NEW m \in Nat PROVE \E l : Levels(l, m)
<1> DEFINE Go(l, k) == IF k = 0 THEN {Root} ELSE Below1(l[k - 1])
           S == {n \in Nat : ~\E l : Levels(l, n)}
<1> SUFFICES ASSUME S # {} PROVE FALSE
  OBVIOUS
<1>0. \A l, n : Levels(l, n) <=> l = [k \in 0..n |-> Go(l, k)]
  BY DEF Levels, Below1
<1>1. PICK n \in S : \A j \in S : n <= j
  BY Smallest
<1>2. n # 0
  <2> DEFINE g == [k \in 0..0 |-> {Root}]
  <2>1. g = [k \in 0..0 |-> Go(g, k)]
    OBVIOUS
  <2>2. Levels(g, 0)
    BY <1>0, <2>1
  <2> QED BY <1>1, <2>2
<1>3. n - 1 \in Nat /\ n - 1 \notin S
  BY <1>1, <1>2
<1>4. PICK f : Levels(f, n - 1)
  BY <1>3
<1> DEFINE g == [k \in 0..n |-> IF k = n THEN Go(f, n) ELSE f[k]]
<1>5. \A k \in 0..(n - 1) : f[k] = Go(f, k)
  <2>1. f = [k \in 0..(n - 1) |-> Go(f, k)]
    BY <1>0, <1>4
  <2> HIDE DEF Go
  <2> QED BY <2>1, Zenon
<1>6. ASSUME NEW k \in 0..n PROVE g[k] = Go(g, k)
  <2>1. CASE k = n
    <3>1. n - 1 \in 0..n /\ n - 1 # n
      BY <1>3
    <3> QED BY <1>2, <2>1, <3>1
  <2>2. CASE k # n
    <3>1. k \in 0..(n - 1)
      BY <1>3, <2>2
    <3>2. k # 0 => k - 1 \in 0..n /\ k - 1 # n
      BY <3>1, <1>3
    <3> QED BY <2>2, <3>1, <3>2, <1>5
  <2> QED BY <2>1, <2>2
<1>7. g = [k \in 0..n |-> Go(g, k)]
  <2> HIDE DEF g, Go
  <2>1. g = [k \in 0..n |-> g[k]]
    BY DEF g
  <2> QED BY <2>1, <1>6, Zenon
<1>8. Levels(g, n)
  BY <1>0, <1>7
<1> QED BY <1>1, <1>8

(* Entries of nodes of the tree lead to nodes of the tree.                  *)
LEMMA EntriesInTree ==
  ASSUME Image, NEW S, Sound(disk, S), NEW inodes \in SUBSET S, NEW e \in DirEntries(inodes)
  PROVE  /\ e[1] \in Dirs(disk, S) /\ e[2] \in Slots
         /\ At(disk, e[1], e[2]) # NULL /\ Entries(e[1])[e[2]] = At(disk, e[1], e[2])
         /\ Entries(e[1])[e[2]].inode \in S \ {Root}
<1>1. e[1] \in S /\ e[2] \in Slots /\ IsDir(e[1]) /\ Entries(e[1])[e[2]] # NULL
  BY DEF DirEntries, Used
<1>2. e[1] \in Dirs(disk, S)
  BY <1>1, InodeRead
<1>3. Entries(e[1])[e[2]] = At(disk, e[1], e[2])
  BY <1>1, <1>2, DirRead
<1>4. At(disk, e[1], e[2]).inode \in S \ {Root}
  BY <1>1, <1>2, <1>3 DEF Sound, Linked
<1> QED BY <1>1, <1>2, <1>3, <1>4

\* The levels a walk from the root goes through.
Tiers(l) == /\ Live = UNION {l[n] : n \in 0..MaxDepth}
            /\ \A n \in 0..MaxDepth : l[n] = IF n = 0 THEN {Root} ELSE Below1(l[n - 1])

(* There are such levels.                                                   *)
LEMMA TiersExist == MaxDepth \in Nat /\ \E l : Tiers(l)
<1> DEFINE m == MaxDepth
<1>1. m \in Nat
  BY ConstantFacts DEF MaxDepth
<1>2. \E l : Levels(l, m)
  BY <1>1, LevelsExist
<1>3. Live = LET level == CHOOSE l : Levels(l, m) IN UNION {level[n] : n \in 0..m}
  BY Zenon DEF Live, Levels
<1>4. PICK l : Levels(l, m) /\ Live = UNION {l[n] : n \in 0..m}
  BY <1>2, <1>3, Zenon
<1>5. \A n \in 0..m : l[n] = IF n = 0 THEN {Root} ELSE Below1(l[n - 1])
  BY <1>4, Zenon DEF Levels, Below1
<1> QED BY <1>1, <1>4, <1>5 DEF Tiers

(* They hold nodes of the tree.                                             *)
LEMMA TiersInTree ==
  ASSUME Image, NEW S, Sound(disk, S), NEW l, Tiers(l), NEW k \in 0..MaxDepth
  PROVE  l[k] \in SUBSET S
<1> DEFINE m == MaxDepth
<1>1. m \in Nat
  BY TiersExist
<1>5. \A n \in 0..m : l[n] = IF n = 0 THEN {Root} ELSE Below1(l[n - 1])
  BY DEF Tiers
<1> HIDE DEF m
<1> DEFINE B == {n \in 0..m : ~(l[n] \subseteq S)}
<1>6. B = {}
  <2> SUFFICES ASSUME B # {} PROVE FALSE
    OBVIOUS
  <2>0. B \in SUBSET Nat
    BY <1>1
  <2>1. PICK n \in B : \A j \in B : n <= j
    BY <2>0, Smallest
  <2>2. n # 0
    BY <1>1, <1>5, <2>1 DEF Sound, Inodes
  <2>3. n - 1 \in 0..m /\ ~(n <= n - 1) /\ n \in 0..m
    BY <1>1, <2>1, <2>2
  <2>4. l[n - 1] \in SUBSET S
    BY <2>1, <2>3
  <2>5. l[n] = Below1(l[n - 1])
    BY <1>5, <2>2, <2>3
  <2>6. Below1(l[n - 1]) \subseteq S
    BY <2>4, EntriesInTree DEF Below1
  <2> QED BY <2>1, <2>5, <2>6
<1> QED BY <1>6 DEF m

(* What a walk from the root finds are nodes of the tree.                   *)
LEMMA LiveInTree == ASSUME Image, NEW S, Sound(disk, S) PROVE Live \in SUBSET S
<1>1. PICK l : Tiers(l)
  BY TiersExist
<1>2. \A k \in 0..MaxDepth : l[k] \in SUBSET S
  BY <1>1, TiersInTree
<1> QED BY <1>1, <1>2 DEF Tiers

(* Every reference is an entry of a directory or a pointer of an inode of   *)
(* the tree.                                                                *)
EntryRef(S, r) == \E i \in Dirs(disk, S), s \in Slots :
  At(disk, i, s) # NULL /\ r = <<i, "entry", s, At(disk, i, s).inode>>
PtrRef(S, r) == \E i \in S : \E k \in Owns(disk, i) : r = <<i, "ptr", k, disk[i].ptrs[k]>>

(* There are no other references.                                           *)
LEMMA ReferencesAre ==
  ASSUME Image, NEW S, Sound(disk, S), NEW r \in References
  PROVE  EntryRef(S, r) \/ PtrRef(S, r)
<1>1. Live \in SUBSET S
  BY LiveInTree
<1> DEFINE used == {u \in Live \X Ptrs : u[2] < BlocksFor(ReadInode(u[1]).size)}
<1>2. \/ \E e \in DirEntries(Live) : r = <<e[1], "entry", e[2], Entries(e[1])[e[2]].inode>>
      \/ \E u \in used : r = <<u[1], "ptr", u[2], ReadInode(u[1]).ptrs[u[2]]>>
  BY Zenon DEF References
<1>3. ASSUME NEW e \in DirEntries(Live), r = <<e[1], "entry", e[2], Entries(e[1])[e[2]].inode>>
      PROVE  EntryRef(S, r)
  <2>1. /\ e[1] \in Dirs(disk, S) /\ e[2] \in Slots
        /\ At(disk, e[1], e[2]) # NULL /\ Entries(e[1])[e[2]] = At(disk, e[1], e[2])
    BY <1>1, EntriesInTree
  <2> QED BY <1>3, <2>1 DEF EntryRef
<1>4. ASSUME NEW u \in used, r = <<u[1], "ptr", u[2], ReadInode(u[1]).ptrs[u[2]]>>
      PROVE  PtrRef(S, r)
  <2>1. u[1] \in S /\ u[2] \in Ptrs /\ u[2] < BlocksFor(ReadInode(u[1]).size)
    BY <1>1
  <2>2. ReadInode(u[1]) = disk[u[1]] /\ disk[u[1]] \in InodeType
    BY <2>1, InodeRead
  <2>3. BlocksFor(disk[u[1]].size) \in Nat /\ u[2] \in Nat
    BY <2>1, <2>2, BlocksFit, ConstantFacts, Sizes DEF InodeType
  <2>4. u[2] \in Owns(disk, u[1])
    BY <2>1, <2>2, <2>3 DEF Owns
  <2> QED BY <1>4, <2>1, <2>2, <2>4 DEF PtrRef
<1> QED BY <1>2, <1>3, <1>4

(* On a tree no block is referenced twice.                                  *)
LEMMA TreeOwnsOnce == ASSUME Image, NEW S, Sound(disk, S) PROVE BlocksOwnedOnce
<1> SUFFICES ASSUME NEW r \in References, NEW t \in References, r[4] = t[4] PROVE r = t
  BY DEF BlocksOwnedOnce
<1>1. (EntryRef(S, r) \/ PtrRef(S, r)) /\ (EntryRef(S, t) \/ PtrRef(S, t))
  BY ReferencesAre
<1>2. CASE EntryRef(S, r) /\ EntryRef(S, t)
  <2>1. PICK i \in Dirs(disk, S), s \in Slots :
          At(disk, i, s) # NULL /\ r = <<i, "entry", s, At(disk, i, s).inode>>
    BY <1>2 DEF EntryRef
  <2>2. PICK j \in Dirs(disk, S), u \in Slots :
          At(disk, j, u) # NULL /\ t = <<j, "entry", u, At(disk, j, u).inode>>
    BY <1>2 DEF EntryRef
  <2>3. At(disk, i, s).inode = At(disk, j, u).inode
    BY <2>1, <2>2
  <2>4. i = j /\ s = u
    BY <2>1, <2>2, <2>3 DEF Sound, Linked
  <2> QED BY <2>1, <2>2, <2>4
<1>3. CASE PtrRef(S, r) /\ PtrRef(S, t)
  <2>1. PICK i \in S : \E k \in Owns(disk, i) : r = <<i, "ptr", k, disk[i].ptrs[k]>>
    BY <1>3 DEF PtrRef
  <2>2. PICK k \in Owns(disk, i) : r = <<i, "ptr", k, disk[i].ptrs[k]>>
    BY <2>1
  <2>3. PICK j \in S : \E l \in Owns(disk, j) : t = <<j, "ptr", l, disk[j].ptrs[l]>>
    BY <1>3 DEF PtrRef
  <2>4. PICK l \in Owns(disk, j) : t = <<j, "ptr", l, disk[j].ptrs[l]>>
    BY <2>3
  <2>5. disk[i].ptrs[k] = disk[j].ptrs[l]
    BY <2>2, <2>4
  <2>6. i = j /\ k = l
    BY <2>5 DEF Sound, OwnBlocks
  <2> QED BY <2>2, <2>4, <2>6
<1>4. ASSUME NEW x, NEW y, EntryRef(S, x), PtrRef(S, y) PROVE x[4] # y[4]
  <2>1. x[4] \in S
    BY <1>4 DEF EntryRef, Sound, Linked
  <2>2. y[4] \notin S
    BY <1>4 DEF PtrRef, Sound, OwnBlocks
  <2> QED BY <2>1, <2>2
<1> QED BY <1>1, <1>2, <1>3, <1>4

(* What is in use is taken.                                                 *)
LEMMA InUseTaken == ASSUME Image, NEW S, Sound(disk, S) PROVE InUse \subseteq Taken(disk, S)
<1>1. Root \in S
  BY DEF Sound, Inodes
<1>2. ASSUME NEW r \in References PROVE r[4] \in Taken(disk, S)
  <2>1. EntryRef(S, r) => r[4] \in S
    BY DEF EntryRef, Sound, Linked
  <2>2. PtrRef(S, r) => \E i \in S : r[4] \in Owned(disk, i)
    BY DEF PtrRef, Owned
  <2> QED BY <2>1, <2>2, ReferencesAre DEF Taken
<1> QED BY <1>1, <1>2 DEF InUse, Taken
----------------------------------------------------------------------------
(* The walk from the root comes to an end within MaxDepth levels. *)

(* What is below a level hangs from a directory of it.                      *)
LEMMA BelowHangs ==
  ASSUME Image, NEW S, Sound(disk, S), NEW inodes \in SUBSET S, NEW v
  PROVE  v \in Below1(inodes) <=> \E i \in Dirs(disk, inodes), s \in Slots :
                                     At(disk, i, s) # NULL /\ At(disk, i, s).inode = v
<1>1. ASSUME v \in Below1(inodes)
      PROVE  \E i \in Dirs(disk, inodes), s \in Slots : At(disk, i, s) # NULL /\ At(disk, i, s).inode = v
  <2>1. PICK e \in DirEntries(inodes) : v = Entries(e[1])[e[2]].inode
    BY <1>1 DEF Below1
  <2>2. /\ e[1] \in Dirs(disk, S) /\ e[2] \in Slots
        /\ At(disk, e[1], e[2]) # NULL /\ Entries(e[1])[e[2]] = At(disk, e[1], e[2])
    BY EntriesInTree
  <2>3. e[1] \in inodes
    BY DEF DirEntries
  <2> QED BY <2>1, <2>2, <2>3 DEF Dirs
<1>2. ASSUME NEW i \in Dirs(disk, inodes), NEW s \in Slots, At(disk, i, s) # NULL, At(disk, i, s).inode = v
      PROVE  v \in Below1(inodes)
  <2>1. i \in inodes /\ i \in Dirs(disk, S)
    BY DEF Dirs
  <2>2. IsDir(i) /\ Entries(i)[s] = At(disk, i, s)
    BY <2>1, InodeRead, DirRead
  <2>3. <<i, s>> \in DirEntries(inodes)
    BY <1>2, <2>1, <2>2 DEF DirEntries, Used
  <2>4. v = Entries(<<i, s>>[1])[<<i, s>>[2]].inode
    BY <1>2, <2>2
  <2> QED BY <2>3, <2>4 DEF Below1
<1> QED BY <1>1, <1>2

(* No node is on two levels: the root hangs from nothing, and two entries   *)
(* that lead to the same node are one.                                      *)
LEMMA TiersDisjoint ==
  ASSUME Image, NEW S, Sound(disk, S), NEW l, Tiers(l),
         NEW j \in 0..MaxDepth, NEW k \in 0..MaxDepth, j < k
  PROVE  l[j] \cap l[k] = {}
<1> DEFINE m == MaxDepth
           B == {n \in 0..m : \E i \in (n + 1)..m : l[n] \cap l[i] # {}}
<1>1. m \in Nat
  BY TiersExist
<1>2. \A n \in 0..m : l[n] \in SUBSET S /\ l[n] = IF n = 0 THEN {Root} ELSE Below1(l[n - 1])
  BY TiersInTree DEF Tiers
<1> HIDE DEF m
<1>3. B = {}
  <2> SUFFICES ASSUME B # {} PROVE FALSE
    OBVIOUS
  <2>0. B \in SUBSET Nat
    BY <1>1
  <2>1. PICK n \in B : \A i \in B : n <= i
    BY <2>0, Smallest
  <2>2. PICK i \in (n + 1)..m : l[n] \cap l[i] # {}
    BY <2>1
  <2>3. PICK v : v \in l[n] /\ v \in l[i]
    BY <2>2
  <2>4. n \in 0..m /\ i \in 0..m /\ i # 0 /\ i - 1 \in 0..m
    BY <1>1, <2>1, <2>2
  <2> HIDE DEF B
  <2>5. PICK q \in Dirs(disk, l[i - 1]), t \in Slots : At(disk, q, t) # NULL /\ At(disk, q, t).inode = v
    BY <1>2, <2>3, <2>4, BelowHangs
  <2>6. q \in l[i - 1] /\ q \in Dirs(disk, S) /\ v # Root
    BY <1>2, <2>4, <2>5 DEF Dirs, Sound, Linked
  <2>7. n # 0
    BY <1>2, <2>3, <2>4, <2>6
  <2>8. n - 1 \in 0..m
    BY <1>1, <2>4, <2>7
  <2>9. PICK p \in Dirs(disk, l[n - 1]), s \in Slots : At(disk, p, s) # NULL /\ At(disk, p, s).inode = v
    BY <1>2, <2>3, <2>4, <2>7, <2>8, BelowHangs
  <2>10. p \in l[n - 1] /\ p \in Dirs(disk, S)
    BY <1>2, <2>8, <2>9 DEF Dirs
  <2>11. p = q
    BY <2>5, <2>6, <2>9, <2>10 DEF Sound, Linked
  <2>12. l[n - 1] \cap l[i - 1] # {}
    BY <2>6, <2>10, <2>11
  <2>13. i - 1 \in ((n - 1) + 1)..m
    BY <1>1, <2>2, <2>4, <2>7
  <2>14. n - 1 \in B
    BY <2>8, <2>12, <2>13 DEF B
  <2> QED BY <2>1, <2>4, <2>14
<1>4. j \in 0..m /\ k \in (j + 1)..m
  BY <1>1 DEF m
<1> QED BY <1>3, <1>4

(* A directory on the last level has one above it on every level.           *)
LEMMA TiersNonempty ==
  ASSUME Image, NEW S, Sound(disk, S), NEW l, Tiers(l), Dirs(disk, l[MaxDepth]) # {}, NEW j \in 0..MaxDepth
  PROVE  Dirs(disk, l[j]) # {}
<1> DEFINE m == MaxDepth
           B == {n \in 0..m : Dirs(disk, l[m - n]) = {}}
<1>1. m \in Nat
  BY TiersExist
<1>2. \A n \in 0..m : l[n] \in SUBSET S /\ l[n] = IF n = 0 THEN {Root} ELSE Below1(l[n - 1])
  BY TiersInTree DEF Tiers
<1>d. Dirs(disk, l[m]) # {}
  OBVIOUS
<1> HIDE DEF m
<1>3. B = {}
  <2> SUFFICES ASSUME B # {} PROVE FALSE
    OBVIOUS
  <2>0. B \in SUBSET Nat
    BY <1>1
  <2>1. PICK n \in B : \A i \in B : n <= i
    BY <2>0, Smallest
  <2>2. n \in 0..m /\ Dirs(disk, l[m - n]) = {}
    BY <2>1
  <2>3. n # 0
    <3>1. m - 0 = m
      BY <1>1
    <3> QED BY <1>d, <2>2, <3>1
  <2>4. n - 1 \in 0..m /\ ~(n <= n - 1)
    BY <1>1, <2>2, <2>3
  <2>5. n - 1 \notin B
    BY <2>1, <2>4
  <2> HIDE DEF B
  <2>6. Dirs(disk, l[m - (n - 1)]) # {}
    BY <2>4, <2>5 DEF B
  <2>7. m - (n - 1) \in 0..m /\ m - (n - 1) # 0 /\ (m - (n - 1)) - 1 = m - n /\ m - n \in 0..m
    BY <1>1, <2>2, <2>3
  <2>8. PICK v : v \in l[m - (n - 1)]
    BY <2>6 DEF Dirs
  <2>9. l[m - (n - 1)] = Below1(l[m - n]) /\ l[m - n] \in SUBSET S
    BY <1>2, <2>7
  <2>10. v \in Below1(l[m - n])
    BY <2>8, <2>9
  <2> QED BY <2>2, <2>9, <2>10, BelowHangs
<1>4. m - j \in 0..m /\ m - (m - j) = j
  BY <1>1 DEF m
<1> QED BY <1>3, <1>4

\* The blocks that the directories of the first n levels take.
Taking(l, n) == UNION {Dirs(disk, l[k]) \cup {Head0(disk, i) : i \in Dirs(disk, l[k])} : k \in 0..n}
\* There are two for every level.
TwoEach(l, n) == \E A \in SUBSET Taking(l, n) : IsFiniteSet(A) /\ Cardinality(A) = 2 * (n + 1)

(* A directory takes two blocks that no level above takes.                  *)
LEMMA TwoMore ==
  ASSUME Image, NEW S, Sound(disk, S), NEW l, Tiers(l), NEW n \in 0..MaxDepth, n # 0,
         NEW i \in Dirs(disk, l[n])
  PROVE  i # Head0(disk, i) /\ i \notin Taking(l, n - 1) /\ Head0(disk, i) \notin Taking(l, n - 1)
<1>1. MaxDepth \in Nat
  BY TiersExist
<1>2. l[n] \in SUBSET S
  BY TiersInTree
<1>3. i \in l[n] /\ i \in Dirs(disk, S)
  BY <1>2 DEF Dirs
<1>4. i \in S /\ Head0(disk, i) \notin S /\ Owns(disk, i) = {0}
  BY <1>3, HeadOfDir DEF Dirs
<1>5. ASSUME NEW k \in 0..(n - 1), NEW j \in Dirs(disk, l[k])
      PROVE  /\ i # j /\ i # Head0(disk, j)
             /\ Head0(disk, i) # j /\ Head0(disk, i) # Head0(disk, j)
  <2>1. k \in 0..MaxDepth /\ k < n
    BY <1>1
  <2>2. l[k] \cap l[n] = {}
    BY <2>1, TiersDisjoint
  <2>3. l[k] \in SUBSET S
    BY <2>1, TiersInTree
  <2>4. j \in l[k] /\ j \in Dirs(disk, S) /\ j \in S
    BY <2>3 DEF Dirs
  <2>5. i # j
    BY <1>3, <2>2, <2>4
  <2>6. Owns(disk, j) = {0} /\ Head0(disk, j) \notin S
    BY <2>4, HeadOfDir
  <2>7. Head0(disk, i) # Head0(disk, j)
    BY <1>4, <2>4, <2>5, <2>6 DEF Sound, OwnBlocks, Head0
  <2> QED BY <1>4, <2>4, <2>5, <2>6, <2>7
<1>6. i \notin Taking(l, n - 1)
  BY <1>5 DEF Taking
<1>7. Head0(disk, i) \notin Taking(l, n - 1)
  BY <1>5 DEF Taking
<1> QED BY <1>4, <1>6, <1>7

(* So if the last level has a directory, every level adds two blocks.       *)
LEMMA TwoForEach ==
  ASSUME Image, NEW S, Sound(disk, S), NEW l, Tiers(l), Dirs(disk, l[MaxDepth]) # {}, NEW j \in 0..MaxDepth
  PROVE  TwoEach(l, j)
<1> DEFINE m == MaxDepth
           B == {n \in 0..m : ~TwoEach(l, n)}
<1>1. m \in Nat
  BY TiersExist
<1>2. \A n \in 0..m : l[n] \in SUBSET S /\ Dirs(disk, l[n]) # {}
  BY TiersInTree, TiersNonempty
<1>3. ASSUME NEW n \in 0..m, NEW i \in Dirs(disk, l[n])
      PROVE  i \in Taking(l, n) /\ Head0(disk, i) \in Taking(l, n) /\ i # Head0(disk, i)
  <2>1. n \in 0..n
    BY <1>1
  <2>2. i \in Dirs(disk, S)
    BY <1>2 DEF Dirs
  <2>3. i \in S /\ Head0(disk, i) \notin S
    BY <2>2, HeadOfDir DEF Dirs
  <2> QED BY <2>1, <2>3 DEF Taking
<1>4. ASSUME NEW n \in 0..m, n # 0, TwoEach(l, n - 1) PROVE TwoEach(l, n)
  <2>1. PICK A \in SUBSET Taking(l, n - 1) : IsFiniteSet(A) /\ Cardinality(A) = 2 * ((n - 1) + 1)
    BY <1>4 DEF TwoEach
  <2>2. PICK i : i \in Dirs(disk, l[n])
    BY <1>2
  <2> DEFINE h == Head0(disk, i)
  <2>3. i # h /\ i \notin A /\ h \notin A
    BY <1>4, <2>1, <2>2, TwoMore
  <2>4. i \in Taking(l, n) /\ h \in Taking(l, n)
    BY <1>3, <2>2
  <2> HIDE DEF h
  <2>5. IsFiniteSet(A \cup {i}) /\ Cardinality(A \cup {i}) = Cardinality(A) + 1
    BY <2>1, <2>3, FS_AddElement
  <2>6. h \notin A \cup {i}
    BY <2>3
  <2>7. IsFiniteSet((A \cup {i}) \cup {h}) /\ Cardinality((A \cup {i}) \cup {h}) = Cardinality(A \cup {i}) + 1
    BY <2>5, <2>6, FS_AddElement
  <2>8. Taking(l, n - 1) \subseteq Taking(l, n)
    <3>1. \A k \in 0..(n - 1) : k \in 0..n
      BY <1>1
    <3> QED BY <3>1 DEF Taking
  <2>9. (A \cup {i}) \cup {h} \in SUBSET Taking(l, n)
    BY <2>1, <2>4, <2>8
  <2>10. Cardinality((A \cup {i}) \cup {h}) = 2 * (n + 1)
    BY <1>1, <2>1, <2>5, <2>7
  <2> QED BY <2>7, <2>9, <2>10 DEF TwoEach
<1>5. TwoEach(l, 0)
  <2>1. PICK i : i \in Dirs(disk, l[0])
    BY <1>1, <1>2
  <2> DEFINE h == Head0(disk, i)
  <2>2. i # h /\ i \in Taking(l, 0) /\ h \in Taking(l, 0)
    BY <1>1, <1>3, <2>1
  <2> HIDE DEF h
  <2>3. IsFiniteSet({i}) /\ Cardinality({i}) = 1
    BY FS_Singleton
  <2>4. h \notin {i}
    BY <2>2
  <2>5. IsFiniteSet({i} \cup {h}) /\ Cardinality({i} \cup {h}) = Cardinality({i}) + 1
    BY <2>3, <2>4, FS_AddElement
  <2>6. Cardinality({i} \cup {h}) = 2 * (0 + 1) /\ {i} \cup {h} \in SUBSET Taking(l, 0)
    BY <2>2, <2>3, <2>5
  <2> QED BY <2>5, <2>6 DEF TwoEach
<1> HIDE DEF m
<1>6. B = {}
  <2> SUFFICES ASSUME B # {} PROVE FALSE
    OBVIOUS
  <2>0. B \in SUBSET Nat
    BY <1>1
  <2>1. PICK n \in B : \A i \in B : n <= i
    BY <2>0, Smallest
  <2>2. n \in 0..m /\ n # 0
    BY <1>5, <2>1
  <2>3. n - 1 \in 0..m /\ ~(n <= n - 1)
    BY <1>1, <2>2
  <2>4. n - 1 \notin B
    BY <2>1, <2>3
  <2>5. TwoEach(l, n - 1)
    BY <2>3, <2>4
  <2> QED BY <1>4, <2>1, <2>2, <2>5
<1> QED BY <1>6 DEF m

(* The disk is too small for that.                                          *)
LEMMA TiersEnd ==
  ASSUME Image, NEW S, Sound(disk, S), NEW l, Tiers(l)
  PROVE  Dirs(disk, l[MaxDepth]) = {}
<1> SUFFICES ASSUME Dirs(disk, l[MaxDepth]) # {} PROVE FALSE
  OBVIOUS
<1> DEFINE m == MaxDepth
<1>1. m \in Nat /\ DiskSize \in Nat /\ DiskSize > 3 /\ 2 * (m + 1) > DiskSize
  <2>1. DiskSize \in Nat /\ DiskSize > 3
    BY FsAssumption
  <2>2. 2 * (DiskSize \div 2 + 1) > DiskSize
    BY <2>1
  <2> QED BY <2>1, <2>2, TiersExist DEF MaxDepth
<1>2. TwoEach(l, m)
  BY <1>1, TwoForEach
<1>3. PICK A \in SUBSET Taking(l, m) : IsFiniteSet(A) /\ Cardinality(A) = 2 * (m + 1)
  BY <1>2 DEF TwoEach
<1>4. Taking(l, m) \subseteq Space
  <2>1. ASSUME NEW k \in 0..m, NEW i \in Dirs(disk, l[k]) PROVE i \in Space /\ Head0(disk, i) \in Space
    <3>1. i \in Dirs(disk, S)
      BY TiersInTree DEF Dirs
    <3> QED BY <3>1, HeadOfDir DEF Dirs, Sound, Inodes
  <2> QED BY <2>1 DEF Taking
<1>5. IsFiniteSet(Space) /\ Cardinality(Space) = DiskSize - 2
  <2>1. 2 \in Int /\ DiskSize - 1 \in Int /\ ~(2 > DiskSize - 1) /\ (DiskSize - 1) - 2 + 1 = DiskSize - 2
    BY <1>1
  <2>2. IsFiniteSet(2..(DiskSize - 1)) /\ Cardinality(2..(DiskSize - 1)) = (DiskSize - 1) - 2 + 1
    BY <2>1, FS_Interval
  <2> QED BY <2>1, <2>2 DEF Space
<1>6. Cardinality(A) <= Cardinality(Space)
  BY <1>3, <1>4, <1>5, FS_Subset
<1> HIDE DEF m
<1> QED BY <1>1, <1>3, <1>5, <1>6

(* So the walk finds the whole tree.                                        *)
LEMMA LiveIsTree ==
  ASSUME Image, NEW S, Sound(disk, S), Rooted(disk, S)
  PROVE  /\ Live = S
         /\ \A v \in S \ {Root} : \E i \in Dirs(disk, S), s \in Slots :
              At(disk, i, s) # NULL /\ At(disk, i, s).inode = v
<1>1. PICK l : Tiers(l)
  BY TiersExist
<1>2. /\ MaxDepth \in Nat /\ Live = UNION {l[n] : n \in 0..MaxDepth}
      /\ \A n \in 0..MaxDepth : l[n] \in SUBSET S /\ l[n] = IF n = 0 THEN {Root} ELSE Below1(l[n - 1])
  BY <1>1, TiersExist, TiersInTree DEF Tiers
<1>3. ASSUME NEW i \in Dirs(disk, Live), NEW s \in Slots, At(disk, i, s) # NULL
      PROVE  At(disk, i, s).inode \in Live
  <2>1. PICK n \in 0..MaxDepth : i \in Dirs(disk, l[n])
    BY <1>2 DEF Dirs
  <2>2. n # MaxDepth
    BY <1>1, <2>1, TiersEnd
  <2>3. n + 1 \in 0..MaxDepth /\ n + 1 # 0 /\ (n + 1) - 1 = n
    BY <1>2, <2>2
  <2>4. At(disk, i, s).inode \in Below1(l[n])
    BY <1>2, <1>3, <2>1, BelowHangs
  <2>5. At(disk, i, s).inode \in l[n + 1]
    BY <1>2, <2>3, <2>4
  <2> QED BY <1>2, <2>3, <2>5
<1>4. Root \in Live /\ Live \in SUBSET S
  <2>1. 0 \in 0..MaxDepth /\ l[0] = {Root}
    BY <1>2
  <2> QED BY <1>2, <2>1
<1>5. Live = S
  BY <1>3, <1>4 DEF Rooted, Closed
<1>6. ASSUME NEW v \in S \ {Root}
      PROVE  \E i \in Dirs(disk, S), s \in Slots : At(disk, i, s) # NULL /\ At(disk, i, s).inode = v
  <2>1. PICK n \in 0..MaxDepth : v \in l[n]
    BY <1>2, <1>5
  <2>2. n # 0 /\ n - 1 \in 0..MaxDepth
    BY <1>2, <2>1
  <2>3. v \in Below1(l[n - 1]) /\ l[n - 1] \in SUBSET S
    BY <1>2, <2>1, <2>2
  <2>4. PICK i \in Dirs(disk, l[n - 1]), s \in Slots : At(disk, i, s) # NULL /\ At(disk, i, s).inode = v
    BY <2>3, BelowHangs
  <2> QED BY <2>3, <2>4 DEF Dirs
<1> QED BY <1>5, <1>6

(* What is taken is in use.                                                 *)
LEMMA TakenInUse ==
  ASSUME Image, NEW S, Sound(disk, S), Rooted(disk, S)
  PROVE  Taken(disk, S) \subseteq InUse
<1>1. Live = S
  BY LiveIsTree
<1>2. ASSUME NEW v \in S \ {Root} PROVE v \in InUse
  <2>1. PICK i \in Dirs(disk, S), s \in Slots : At(disk, i, s) # NULL /\ At(disk, i, s).inode = v
    BY LiveIsTree
  <2>2. i \in S /\ IsDir(i) /\ Entries(i)[s] = At(disk, i, s)
    BY InodeRead, DirRead DEF Dirs
  <2> DEFINE e == <<i, s>>
  <2>3. e \in DirEntries(S) /\ e[1] = i /\ e[2] = s
    BY <2>1, <2>2 DEF DirEntries, Used
  <2> HIDE DEF e
  <2>4. <<e[1], "entry", e[2], Entries(e[1])[e[2]].inode>> \in References
    BY <1>1, <2>3 DEF References
  <2>5. <<e[1], "entry", e[2], Entries(e[1])[e[2]].inode>>[4] = v
    BY <2>1, <2>2, <2>3
  <2> QED BY <2>4, <2>5 DEF InUse
<1>3. ASSUME NEW i \in S, NEW k \in Owns(disk, i) PROVE disk[i].ptrs[k] \in InUse
  <2>1. ReadInode(i) = disk[i] /\ disk[i] \in InodeType
    BY InodeRead
  <2>2. BlocksFor(disk[i].size) \in Nat /\ BlocksFor(disk[i].size) <= MaxPtrs
    BY <2>1, BlocksFit DEF InodeType
  <2>3. k \in Ptrs /\ k < BlocksFor(ReadInode(i).size)
    BY <2>1, <2>2, ConstantFacts DEF Owns, Ptrs
  <2> DEFINE u == <<i, k>>
  <2>4. u \in S \X Ptrs /\ u[1] = i /\ u[2] = k
    BY <2>3
  <2> HIDE DEF u
  <2>5. <<u[1], "ptr", u[2], ReadInode(u[1]).ptrs[u[2]]>> \in References
    BY <1>1, <2>3, <2>4 DEF References
  <2>6. <<u[1], "ptr", u[2], ReadInode(u[1]).ptrs[u[2]]>>[4] = disk[i].ptrs[k]
    BY <2>1, <2>4
  <2> QED BY <2>5, <2>6 DEF InUse
<1>4. {0, 1, Root} \subseteq InUse
  BY DEF InUse
<1>5. ASSUME NEW b \in Taken(disk, S) PROVE b \in InUse
  <2>1. b \in {0, 1} \/ b \in S \/ \E i \in S : b \in Owned(disk, i)
    BY DEF Taken
  <2>2. ASSUME NEW i \in S, b \in Owned(disk, i) PROVE b \in InUse
    BY <1>3, <2>2 DEF Owned
  <2> QED BY <1>2, <1>4, <2>1, <2>2
<1> QED BY <1>5
----------------------------------------------------------------------------
(* The theorems. *)

(* TypeOK is an invariant: no call ever writes to the superblock or beyond  *)
(* the end of the disk, nor a pointer or an entry that leads there.         *)
THEOREM TypeCorrect == ASSUME "truncate" \notin Faulty PROVE Spec => []TypeOK
<1>1. Inv => TypeOK
  BY DEF Inv
<1> QED BY <1>1, InvHolds, PTL

(* After any number of writes of any call, wherever it fails or the process *)
(* dies, no block is part of two files or directories.                      *)
THEOREM OwnedOnce == ASSUME "truncate" \notin Faulty PROVE Spec => []BlocksOwnedOnce
<1>1. Inv => BlocksOwnedOnce
  <2> SUFFICES ASSUME Inv PROVE BlocksOwnedOnce
    OBVIOUS
  <2>1. Image /\ writes \in Seq(WriteType)
    BY DEF Inv, TypeOK, Image, CallKept, Typed
  <2>2. PICK S : Sound(disk, S)
    BY <2>1, PlanSound DEF Inv
  <2> QED BY <2>1, <2>2, TreeOwnsOnce
<1> QED BY <1>1, InvHolds, PTL

(* Between calls, and wherever a call may fail or the process die, every    *)
(* block in use is marked on the disk.                                      *)
THEOREM UseMarked == ASSUME "truncate" \notin Faulty PROVE Spec => []InUseMarked
<1>1. Inv => InUseMarked
  <2> SUFFICES ASSUME Inv, call # NULL => call.op \in Faulty PROVE InUse \subseteq disk[1].set
    BY DEF InUseMarked
  <2>1. Image /\ writes \in Seq(WriteType) /\ (writes = <<>> \/ call.op \in Faulty)
    BY DEF Inv, TypeOK, Image, CallKept, Typed
  <2>2. PICK S : Sound(disk, S) /\ Marked(disk, bitmap, S)
    BY <2>1, PlanQuiet DEF Inv, Quiet
  <2> QED BY <2>1, <2>2, InUseTaken DEF Marked
<1> QED BY <1>1, InvHolds, PTL

(* As long as nothing failed, every block marked between calls is in use:   *)
(* what create, mkdir and write take is part of the tree when they return,  *)
(* and what unlink, rmdir and truncate take out of it is free.              *)
THEOREM NothingLeaks == ASSUME "truncate" \notin Faulty PROVE Spec => []MarkedInUse
<1>1. Inv /\ Balanced => MarkedInUse
  <2> SUFFICES ASSUME Inv, Balanced, call = NULL, ~failed
               PROVE  disk[1].set = InUse /\ bitmap = disk[1].set
    BY DEF MarkedInUse
  <2>1. Image /\ writes = <<>> /\ writes \in Seq(WriteType)
    BY DEF Inv, TypeOK, Image, CallKept, Typed
  <2>2. disk[1].set = bitmap /\ Snug(disk, bitmap)
    BY <2>1, AtRest
  <2>3. PICK S : Sound(disk, S) /\ Exact(disk, bitmap, S)
    BY <2>2 DEF Snug
  <2>4. PICK T : Sound(disk, T) /\ Marked(disk, bitmap, T)
    BY <2>1, PlanQuiet DEF Inv, Quiet
  <2>5. Taken(disk, S) \subseteq bitmap
    BY <2>3, <2>4, RootedIn DEF Exact, Marked
  <2>6. bitmap \subseteq Taken(disk, S)
    BY <2>3 DEF Exact
  <2>7. InUse \subseteq Taken(disk, S) /\ Taken(disk, S) \subseteq InUse
    BY <2>1, <2>3, InUseTaken, TakenInUse DEF Exact
  <2> QED BY <2>2, <2>5, <2>6, <2>7
<1> QED BY <1>1, BalancedHolds, PTL
=============================================================================
