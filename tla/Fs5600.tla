------------------------------- MODULE Fs5600 -------------------------------
(* The file system of project3/homework.c on the block device of misc.c.    *)
(* A call reads blocks, decides, and writes blocks one by one; nothing else *)
(* touches the disk meanwhile (hw3fuse -s, or the unit tests).  A handler   *)
(* is therefore an action that turns the disk it reads into the sequence of *)
(* writes it will make, and each write is an action of its own: it may      *)
(* fail, and the process may die before it.                                 *)
EXTENDS FsErrors, FiniteSets, Sequences, SequencesExt

CONSTANTS
  Names,          \* path components as the caller writes them
  Clip,           \* what a component becomes when cut to MAX_NAME_LEN characters
  Calls,          \* what the caller may ask for: see CallType
  MaxComponents,  \* MAX_PATH_COMPONENTS
  DirSlots,       \* entries of a directory block (128)
  MaxPtrs,        \* block pointers of an inode (1019)
  BlockSize,      \* FS_BLOCK_SIZE
  DiskSize,       \* disk_size of the superblock, in blocks
  Data,           \* values of a byte
  Faulty          \* operations in which a disk write may fail or the process die

Slots == 1..DirSlots
Ptrs == 0..(MaxPtrs - 1)
Offsets == 0..(BlockSize - 1)
Blocks == 0..(DiskSize - 1)
MaxFile == MaxPtrs * BlockSize

\* A call uses the fields its operation needs; fs_truncate's length is len.
CallType == [op : Ops, path : Seq(Names), to : Seq(Names), off : Nat, len : Nat, buf : Seq(Data)]

(* Clip is idempotent; DiskSize leaves room for the root.  No call writes   *)
(* beyond the last pointer of the inode: fs_write does not check it.  NULL  *)
(* is no call, nothing that a call returns and no entry of a directory.     *)
ASSUME FsAssumption ==
  /\ Calls \subseteq CallType
  /\ Clip \in [Names -> Names] /\ \A n \in Names : Clip[Clip[n]] = Clip[n]
  /\ {MaxComponents, DirSlots, MaxPtrs, BlockSize} \subseteq Nat \ {0}
  /\ DiskSize \in Nat /\ DiskSize > 3
  /\ Faulty \subseteq Ops
  /\ NULL \notin {Error(e) : e \in Codes} \cup [name : Names, inode : Blocks] \cup CallType
  /\ \A c \in Calls : c.op = "write" => c.off + Len(c.buf) <= MaxFile

VARIABLES
  disk,      \* the image: block 1 holds the bitmap
  bitmap,    \* the process's copy of it, as the set of blocks marked in use
  call,      \* the call in progress, or NULL
  writes,    \* the block writes it has still to make
  ret,       \* what it returns once they are made
  failed     \* history: has a call ever run out of space, failed to write, or died?

vars == <<disk, bitmap, call, writes, ret, failed>>

Root == 2
RootBlock == DiskSize - 1     \* as gen-disk.py lays out disk2.in

(* What a block holds.  A block read as something it does not hold is an    *)
(* inode of no type, a directory without entries or bytes that are no data. *)
Bits(s) == [kind |-> "bitmap", set |-> s]
Inode(t, size, ptrs) == [kind |-> "inode", type |-> t, size |-> size, ptrs |-> ptrs]
DirBlock(e) == [kind |-> "dir", entries |-> e]
Bytes(b) == [kind |-> "data", bytes |-> b]
Zeroes == [kind |-> "zero"]
Entry(n, i) == [name |-> n, inode |-> i]

EmptyDir == [s \in Slots |-> NULL]
NoPtrs == [k \in Ptrs |-> 0]

Init == /\ disk = [b \in 1..(DiskSize - 1) |->
                     CASE b = 1 -> Bits({0, 1, Root, RootBlock})
                       [] b = Root -> Inode("dir", BlockSize, [NoPtrs EXCEPT ![0] = RootBlock])
                       [] b = RootBlock -> DirBlock(EmptyDir)
                       [] OTHER -> Zeroes]
        /\ bitmap = {0, 1, Root, RootBlock}
        /\ call = NULL /\ writes = <<>> /\ ret = NULL
        /\ failed = FALSE
----------------------------------------------------------------------------
(* Reading the disk. *)

Holds(b, kind) == b \in DOMAIN disk /\ disk[b].kind = kind
ReadInode(i) == IF Holds(i, "inode") THEN disk[i] ELSE Inode("none", 0, NoPtrs)
Entries(i) == LET b == ReadInode(i).ptrs[0] IN IF Holds(b, "dir") THEN disk[b].entries ELSE EmptyDir
ReadBytes(b) == IF Holds(b, "data") THEN disk[b].bytes ELSE [j \in Offsets |-> NULL]

IsDir(i) == ReadInode(i).type = "dir"
IsFile(i) == ReadInode(i).type = "file"
Used(i) == {s \in Slots : Entries(i)[s] # NULL}
Lowest(S) == CHOOSE s \in S : \A t \in S : s <= t
\* The slots of directory i that hold name n, and those that are free.
Named(i, n) == {s \in Used(i) : Entries(i)[s].name = n}
\* Mutant: the search for a free slot does not look at the valid bit.
AnySlot(i) == Slots
FreeSlots(i) == Slots \ Used(i)

BlocksFor(size) == (size + BlockSize - 1) \div BlockSize
Content(i) == LET f == ReadInode(i) IN
  [j \in 1..f.size |-> ReadBytes(f.ptrs[(j - 1) \div BlockSize])[(j - 1) % BlockSize]]

ClipPath(p) == [k \in DOMAIN p |-> Clip[p[k]]]

\* One component of a path, from inode i: an inode or an error.
Step(i, n) == IF ~IsDir(i) THEN ENOTDIR
              ELSE IF Named(i, n) = {} THEN ENOENT
              ELSE Entries(i)[Lowest(Named(i, n))].inode
Walk(p) == LET w[k \in 0..Len(p)] ==
                 IF k = 0 THEN Root
                 ELSE LET i == w[k - 1] IN IF i < 0 THEN i ELSE Step(i, p[k])
           IN  w[Len(p)]
\* Components after the MaxComponents-th are dropped.
Translate(p) == Walk(ClipPath(SubSeq(p, 1, IF Len(p) > MaxComponents THEN MaxComponents ELSE Len(p))))
LookupParent(p) == IF p = <<>> THEN EINVAL ELSE Translate(Front(p))
\* Mutant: lookup_parent does not cut the last component.
LeafUncut(p) == Last(p)
Leaf(p) == Clip[Last(p)]
Found(i, n) == Entries(i)[Lowest(Named(i, n))].inode
----------------------------------------------------------------------------
(* The writes a call makes.  allocate_block takes the lowest free block and *)
(* writes the bitmap each time, free_block writes it for every block.       *)

Put(b, v) == [lba |-> b, value |-> v]
\* Mutant: allocate_block searches one block too far.
FreeAndNext == {b \in 2..DiskSize : b \notin bitmap}
Free == {b \in Blocks : b >= 2 /\ b \notin bitmap}
\* The first n blocks allocate_block returns, fewer if the disk is full.
Allocated(n) == LET Nth(k) == CHOOSE b \in Free : Cardinality({c \in Free : c < b}) = k - 1
                IN  [k \in 1..(IF n > Cardinality(Free) THEN Cardinality(Free) ELSE n) |-> Nth(k)]
FirstOf(bs, k) == {bs[j] : j \in 1..k}
\* Mutant: the bit is never set.
MarkNothing(bs) == [k \in DOMAIN bs |-> Put(1, Bits(bitmap))]
MarkUsed(bs) == [k \in DOMAIN bs |-> Put(1, Bits(bitmap \cup FirstOf(bs, k)))]
MarkFree(bs) == [k \in DOMAIN bs |-> Put(1, Bits(bitmap \ FirstOf(bs, k)))]

DirPtr(i) == ReadInode(i).ptrs[0]
PutDir(i, e) == Put(DirPtr(i), DirBlock(e))
PutEntry(i, n, new) == PutDir(i, [Entries(i) EXCEPT ![Lowest(FreeSlots(i))] = Entry(n, new)])
DropEntry(i, n) == PutDir(i, [Entries(i) EXCEPT ![Lowest(Named(i, n))] = NULL])

\* Mutant: a last block that is not full is forgotten.
FullBlocks(i) == [k \in 1..(ReadInode(i).size \div BlockSize) |-> ReadInode(i).ptrs[k - 1]]
\* The blocks fs_unlink and fs_truncate give back besides the inode.
DataBlocks(i) == [k \in 1..BlocksFor(ReadInode(i).size) |-> ReadInode(i).ptrs[k - 1]]

Handling(op) == call # NULL /\ ret = NULL /\ call.op = op
Finish(ws, r) == /\ writes' = ws /\ ret' = r
                 /\ failed' = (failed \/ r.code = ENOSPC)
                 /\ UNCHANGED <<disk, bitmap, call>>
Refuse(e) == Finish(<<>>, Error(e))
----------------------------------------------------------------------------
(* One action per operation of fs_ops. *)

\* fs_create and fs_mkdir look at the parent and the name first.
AddError(p) == LET d == LookupParent(p) IN
  CASE d < 0 -> d
    [] d >= 0 /\ ~IsDir(d) -> ENOTDIR
    [] d >= 0 /\ IsDir(d) -> IF Named(d, Leaf(p)) # {} THEN EEXIST ELSE 0

\* Mutant: the entry is written before the inode it names.
LinkFirst(bits, blocks, entry) == bits \o <<entry>> \o blocks
LinkLast(bits, blocks, entry) == bits \o blocks \o <<entry>>

Create ==
  /\ Handling("create")
  /\ LET e == AddError(call.path)  d == LookupParent(call.path)  got == Allocated(1)
         inode == <<Put(got[1], Inode("file", 0, NoPtrs))>>
     IN  \/ e # 0 /\ Refuse(e)
         \/ e = 0 /\ got = <<>> /\ Refuse(ENOSPC)
         \/ /\ e = 0 /\ got # <<>> /\ FreeSlots(d) = {}
            /\ Finish(MarkUsed(got) \o inode, Error(ENOSPC))
         \/ /\ e = 0 /\ got # <<>> /\ FreeSlots(d) # {}
            /\ Finish(LinkLast(MarkUsed(got), inode, PutEntry(d, Leaf(call.path), got[1])), Success(NULL))

Mkdir ==
  /\ Handling("mkdir")
  /\ LET e == AddError(call.path)  d == LookupParent(call.path)  got == Allocated(2)
         blocks == <<Put(got[2], DirBlock(EmptyDir)),
                     Put(got[1], Inode("dir", BlockSize, [NoPtrs EXCEPT ![0] = got[2]]))>>
     IN  \/ e # 0 /\ Refuse(e)
         \/ e = 0 /\ Len(got) < 2 /\ Finish(MarkUsed(got), Error(ENOSPC))
         \/ /\ e = 0 /\ Len(got) = 2 /\ FreeSlots(d) = {}
            /\ Finish(MarkUsed(got) \o blocks, Error(ENOSPC))
         \/ /\ e = 0 /\ Len(got) = 2 /\ FreeSlots(d) # {}
            /\ Finish(LinkLast(MarkUsed(got), blocks, PutEntry(d, Leaf(call.path), got[1])), Success(NULL))

\* fs_unlink and fs_rmdir never ask whether the parent is a directory.
RemoveError(p) == LET d == LookupParent(p) IN
  IF d < 0 THEN d ELSE IF Named(d, Leaf(p)) = {} THEN ENOENT ELSE 0

\* Mutant: the blocks are given back before the entry is gone.
FreeThenDrop(d, n, bs) == MarkFree(bs) \o <<DropEntry(d, n)>>
\* Mutant: only the inode is given back.
DropAndLeak(d, n, bs) == <<DropEntry(d, n)>> \o MarkFree(<<bs[1]>>)
DropThenFree(d, n, bs) == <<DropEntry(d, n)>> \o MarkFree(bs)

Unlink ==
  /\ Handling("unlink")
  /\ LET e == RemoveError(call.path)  d == LookupParent(call.path)
         i == Found(d, Leaf(call.path))
     IN  \/ e # 0 /\ Refuse(e)
         \/ e = 0 /\ IsDir(i) /\ Refuse(EISDIR)
         \/ /\ e = 0 /\ ~IsDir(i)
            /\ Finish(DropThenFree(d, Leaf(call.path), <<i>> \o DataBlocks(i)), Success(NULL))

Rmdir ==
  /\ Handling("rmdir")
  /\ LET e == RemoveError(call.path)  d == LookupParent(call.path)
         i == Found(d, Leaf(call.path))
     IN  \/ e # 0 /\ Refuse(e)
         \/ e = 0 /\ ~IsDir(i) /\ Refuse(ENOTDIR)
         \/ e = 0 /\ IsDir(i) /\ Used(i) # {} /\ Refuse(ENOTEMPTY)
         \/ /\ e = 0 /\ IsDir(i) /\ Used(i) = {}
            /\ Finish(DropThenFree(d, Leaf(call.path), <<i, DirPtr(i)>>), Success(NULL))

\* Mutant: the destination may exist.
RenameOver(p, to) == LET d == LookupParent(p) IN
  IF d < 0 THEN d ELSE IF LookupParent(to) # d THEN EINVAL
  ELSE IF Named(d, Leaf(p)) = {} THEN ENOENT ELSE 0
\* The destination is looked for before the source is missed.
RenameError(p, to) == LET d == LookupParent(p)  t == LookupParent(to) IN
  CASE d < 0 -> d
    [] d >= 0 /\ t < 0 -> t
    [] d >= 0 /\ t >= 0 /\ d # t -> EINVAL
    [] d >= 0 /\ d = t -> IF Named(d, Leaf(to)) # {} THEN EEXIST
                         ELSE IF Named(d, Leaf(p)) = {} THEN ENOENT ELSE 0

Rename ==
  /\ Handling("rename")
  /\ LET e == RenameError(call.path, call.to)  d == LookupParent(call.path)
         s == Lowest(Named(d, Leaf(call.path)))
     IN  \/ e # 0 /\ Refuse(e)
         \/ /\ e = 0
            /\ Finish(<<PutDir(d, [Entries(d) EXCEPT ![s].name = Leaf(call.to)])>>, Success(NULL))

\* Permission bits and times are left out: the inode is written back as it is.
Touch(op) ==
  /\ Handling(op)
  /\ LET i == Translate(call.path) IN
     \/ i < 0 /\ Refuse(i)
     \/ i >= 0 /\ Finish(<<Put(i, ReadInode(i))>>, Success(NULL))
Chmod == Touch("chmod")
Utime == Touch("utime")

FileError(i) == IF i < 0 THEN i ELSE IF ~IsFile(i) THEN EISDIR ELSE 0

Truncate ==
  /\ Handling("truncate")
  /\ LET i == Translate(call.path)
         used == DataBlocks(i)
         ptrs == [k \in Ptrs |-> IF k < Len(used) THEN 0 ELSE ReadInode(i).ptrs[k]]
     IN  \/ call.len # 0 /\ Refuse(EINVAL)
         \/ call.len = 0 /\ FileError(i) # 0 /\ Refuse(FileError(i))
         \/ /\ call.len = 0 /\ FileError(i) = 0
            /\ Finish(Append(MarkFree(used), Put(i, Inode("file", 0, ptrs))), Success(NULL))

Read ==
  /\ Handling("read")
  /\ LET i == Translate(call.path)
         end == IF call.off + call.len > ReadInode(i).size THEN ReadInode(i).size
                ELSE call.off + call.len
     IN  \/ FileError(i) # 0 /\ Refuse(FileError(i))
         \/ FileError(i) = 0 /\ Finish(<<>>, Success(SubSeq(Content(i), call.off + 1, end)))

\* Block k of a file after the write, its pointers being ptrs.
NewBytes(ptrs, k) ==
  Bytes([j \in Offsets |-> LET at == k * BlockSize + j - call.off IN
           IF at \in 0..(Len(call.buf) - 1) THEN call.buf[at + 1] ELSE ReadBytes(ptrs[k])[j]])
\* Mutant: the size becomes the end of the write even if the file was longer.
EndOnly(size, end) == end
NewSize(size, end) == IF end > size THEN end ELSE size

\* Mutant: the inode is written before what it refers to.
InodeFirst(bits, data, inode) == inode \o bits \o data
InodeLast(bits, data, inode) == bits \o data \o inode

Write ==
  /\ Handling("write")
  /\ LET i == Translate(call.path)
         f == ReadInode(i)
         end == call.off + Len(call.buf)
         cur == BlocksFor(f.size)
         need == IF BlocksFor(end) > cur THEN BlocksFor(end) - cur ELSE 0
         got == Allocated(need)
         ptrs == [k \in Ptrs |-> IF k \in cur..(cur + Len(got) - 1) THEN got[k - cur + 1] ELSE f.ptrs[k]]
         first == call.off \div BlockSize
         data == [k \in 1..(IF call.buf = <<>> THEN 0 ELSE (end - 1) \div BlockSize - first + 1) |->
                    Put(ptrs[first + k - 1], NewBytes(ptrs, first + k - 1))]
     IN  \/ FileError(i) # 0 /\ Refuse(FileError(i))
         \/ FileError(i) = 0 /\ call.off > f.size /\ Refuse(EINVAL)
         \/ /\ FileError(i) = 0 /\ call.off <= f.size /\ Len(got) < need
            /\ Finish(MarkUsed(got), Error(ENOSPC))
         \/ /\ FileError(i) = 0 /\ call.off <= f.size /\ Len(got) = need
            /\ Finish(InodeLast(MarkUsed(got), data, <<Put(i, Inode("file", NewSize(f.size, end), ptrs))>>),
                      Success(NULL))

Getattr ==
  /\ Handling("getattr")
  /\ LET i == Translate(call.path) IN
     \/ i < 0 /\ Refuse(i)
     \/ i >= 0 /\ Finish(<<>>, Success([type |-> ReadInode(i).type, size |-> ReadInode(i).size]))

Readdir ==
  /\ Handling("readdir")
  /\ LET i == Translate(call.path) IN
     \/ i < 0 /\ Refuse(i)
     \/ i >= 0 /\ ~IsDir(i) /\ Refuse(ENOTDIR)
     \/ i >= 0 /\ IsDir(i) /\ Finish(<<>>, Success({Entries(i)[s].name : s \in Used(i)}))
----------------------------------------------------------------------------
(* The caller, the disk and the process. *)

Call == /\ call = NULL
        /\ call' \in Calls
        /\ UNCHANGED <<disk, bitmap, writes, ret, failed>>

Return == /\ ret # NULL /\ writes = <<>>
          /\ call' = NULL /\ ret' = NULL
          /\ UNCHANGED <<disk, bitmap, writes, failed>>

\* The bitmap in memory changes before it is written, so also if that fails.
Remember(w) == bitmap' = IF w.lba = 1 THEN w.value.set ELSE bitmap

DiskWrite == /\ writes # <<>>
             /\ disk' = [disk EXCEPT ![Head(writes).lba] = Head(writes).value]
             /\ Remember(Head(writes))
             /\ writes' = Tail(writes)
             /\ UNCHANGED <<call, ret, failed>>

\* Nobody looks at what free_block returns; any other failure ends the call.
DiskWriteFails == /\ writes # <<>> /\ call.op \in Faulty
                  /\ Remember(Head(writes))
                  /\ IF Head(writes).lba = 1 /\ call.op \in Freeing
                       THEN writes' = Tail(writes) /\ UNCHANGED ret
                       ELSE writes' = <<>> /\ ret' = Error(EIO)
                  /\ failed' = TRUE
                  /\ UNCHANGED <<disk, call>>

\* The process dies and is started again: fs_init reads the bitmap back.
Crash == /\ (call # NULL => call.op \in Faulty)
         /\ call' = NULL /\ writes' = <<>> /\ ret' = NULL
         /\ bitmap' = disk[1].set
         /\ failed' = (failed \/ writes # <<>>)
         /\ UNCHANGED disk

Handler == \/ Getattr \/ Readdir \/ Create \/ Mkdir \/ Unlink \/ Rmdir \/ Rename
           \/ Chmod \/ Utime \/ Truncate \/ Read \/ Write
Next == Call \/ Handler \/ DiskWrite \/ DiskWriteFails \/ Return \/ Crash

Spec == Init /\ [][Next]_vars
----------------------------------------------------------------------------
(* Properties. *)

BlockContents == [kind : {"bitmap"}, set : SUBSET Blocks]
  \cup [kind : {"inode"}, type : {"dir", "file"}, size : 0..MaxFile, ptrs : [Ptrs -> Blocks]]
  \cup [kind : {"dir"}, entries : [Slots -> {NULL} \cup [name : Names, inode : Blocks]]]
  \cup [kind : {"data"}, bytes : [Offsets -> Data \cup {NULL}]]
  \cup {Zeroes}

\* Every block written lies on the disk, behind the superblock: the assertion
\* of block_write and the bound of allocate_block.
TypeOK == /\ disk \in [1..(DiskSize - 1) -> BlockContents]
          /\ bitmap \in SUBSET Blocks
          /\ call \in Calls \cup {NULL}
          /\ writes \in Seq([lba : 1..(DiskSize - 1), value : BlockContents])
          /\ failed \in BOOLEAN

\* The inodes a walk from the root reaches, as read-img.py finds them.  A
\* directory takes two blocks, which bounds the depth.
MaxDepth == DiskSize \div 2
DirEntries(inodes) == {e \in inodes \X Slots : IsDir(e[1]) /\ e[2] \in Used(e[1])}
Live == LET level[n \in 0..MaxDepth] ==
              IF n = 0 THEN {Root}
              ELSE {Entries(e[1])[e[2]].inode : e \in DirEntries(level[n - 1])}
        IN  UNION {level[n] : n \in 0..MaxDepth}
\* Every reference to a block: by the entry of a directory, by a pointer of an inode.
References ==
  LET inodes == Live
      used == {u \in inodes \X Ptrs : u[2] < BlocksFor(ReadInode(u[1]).size)}
  IN  {<<e[1], "entry", e[2], Entries(e[1])[e[2]].inode>> : e \in DirEntries(inodes)}
      \cup {<<u[1], "ptr", u[2], ReadInode(u[1]).ptrs[u[2]]>> : u \in used}
InUse == {r[4] : r \in References} \cup {0, 1, Root}

\* The disk is a tree in every state, so also in whatever state a crash leaves
\* it: no block is referenced twice, by a stale entry or by a stale pointer.
BlocksOwnedOnce == LET all == References IN \A r, t \in all : r # t => r[4] # t[4]

\* A block in use is marked in the bitmap on the disk, between calls and wherever
\* the process may die: what allocate_block takes is never part of a file or
\* directory.
InUseMarked == (call # NULL => call.op \in Faulty) => InUse \subseteq disk[1].set

\* As long as nothing failed, only blocks in use are marked when no call is
\* in progress: create, write, truncate, unlink and rmdir balance.
MarkedInUse == call = NULL /\ ~failed => disk[1].set = InUse /\ bitmap = disk[1].set

\* The paths on the disk with the inodes they lead to, and the tree they form.
Below(x) == {<<Append(x[1], Entries(x[2])[e].name), Entries(x[2])[e].inode>> :
               e \in IF IsDir(x[2]) THEN Used(x[2]) ELSE {}}
There == LET level[n \in 0..MaxDepth] ==
               IF n = 0 THEN {<<<<>>, Root>>} ELSE UNION {Below(x) : x \in level[n - 1]}
         IN  UNION {level[n] : n \in 0..MaxDepth}
Tree == {[path |-> x[1], type |-> ReadInode(x[2]).type,
          bytes |-> IF IsFile(x[2]) THEN Content(x[2]) ELSE <<>>] : x \in There}

\* f_bfree of fs_statfs.  Once every file is unlinked and every directory
\* removed, as many blocks are free as on the new disk.
FreeBlocks == DiskSize - Cardinality(bitmap)
RemovalFreesAll == call = NULL /\ Used(Root) = {} => FreeBlocks = DiskSize - 4

\* A call takes effect with its last write outside the bitmap; a failing call
\* has its answer when it has made all its writes.
Undecided == \E k \in DOMAIN writes : ret.code # 0 \/ writes[k].lba # 1
Clipped(c) == [c EXCEPT !.path = ClipPath(@), !.to = ClipPath(@)]
ClippedCalls == {Clipped(c) : c \in Calls}
Fs == INSTANCE FsTree WITH
  Calls <- ClippedCalls,
  DirSize <- BlockSize,
  tree <- Tree,
  call <- IF call = NULL THEN NULL ELSE Clipped(call),
  answer <- IF Undecided THEN NULL ELSE ret

\* Through crashes and failed writes the caller sees a tree that every call
\* changes at once or not at all, and answers that agree with it.
ImplementsFsTree == Fs!FsSpec
=============================================================================
