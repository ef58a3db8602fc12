---------------------------- MODULE FsTreeProofs ----------------------------
(* The file system implements FsTree: the proof, on the invariants of       *)
(* Fs5600Proofs.                                                            *)
EXTENDS Fs5600Proofs

(* Paths as sequences that grow at the end.                                 *)
LEMMA Appended ==
  ASSUME NEW T, NEW p \in Seq(T), NEW n \in T
  PROVE  /\ Append(p, n) \in Seq(T) /\ Append(p, n) # <<>> /\ Len(Append(p, n)) = Len(p) + 1
         /\ Front(Append(p, n)) = p /\ Last(Append(p, n)) = n
         /\ \A k \in 1..Len(p) : Append(p, n)[k] = p[k]
<1> DEFINE q == Append(p, n)
<1>1. /\ q \in Seq(T) /\ Len(q) = Len(p) + 1 /\ Len(p) \in Nat /\ q[Len(p) + 1] = n
      /\ \A k \in 1..Len(p) : q[k] = p[k]
  OBVIOUS
<1> HIDE DEF q
<1>2. q # <<>> /\ Last(q) = n
  BY <1>1 DEF Last
<1>3. Front(q) = p
  <2>1. /\ SubSeq(q, 1, Len(p)) \in Seq(T) /\ Len(SubSeq(q, 1, Len(p))) = Len(p)
        /\ \A i \in 1..Len(p) : SubSeq(q, 1, Len(p))[i] = q[i]
    BY <1>1
  <2>2. SubSeq(q, 1, Len(p)) = p
    BY <1>1, <2>1, SeqEqual
  <2>3. Len(q) - 1 = Len(p)
    BY <1>1
  <2> QED BY <2>2, <2>3 DEF Front
<1> QED BY <1>1, <1>2, <1>3 DEF q

(* A path that is not empty, as its directory and its last component.       *)
LEMMA Fronted ==
  ASSUME NEW T, NEW q \in Seq(T), q # <<>>
  PROVE  /\ Front(q) \in Seq(T) /\ Last(q) \in T /\ Append(Front(q), Last(q)) = q
         /\ Len(Front(q)) = Len(q) - 1 /\ Len(q) \in Nat \ {0}
         /\ \A k \in 1..(Len(q) - 1) : Front(q)[k] = q[k]
<1>1. Len(q) \in Nat \ {0}
  BY EmptySeq
<1> DEFINE f == SubSeq(q, 1, Len(q) - 1)
<1>2. f \in Seq(T) /\ Len(f) = Len(q) - 1 /\ \A k \in 1..(Len(q) - 1) : f[k] = q[k]
  <2> DEFINE m == Len(q) - 1
  <2>1. m \in Nat /\ 1 \in Int /\ \A k \in 1..m : q[k] \in T
    BY <1>1
  <2> HIDE DEF m
  <2>2. /\ SubSeq(q, 1, m) \in Seq(T) /\ Len(SubSeq(q, 1, m)) = IF 1 <= m THEN m - 1 + 1 ELSE 0
        /\ \A k \in 1..(m - 1 + 1) : SubSeq(q, 1, m)[k] = q[1 + k - 1]
    BY <2>1, SubSeqProperties
  <2>3. Len(SubSeq(q, 1, m)) = m /\ m - 1 + 1 = m /\ \A k \in 1..m : q[1 + k - 1] = q[k]
    BY <2>1, <2>2
  <2> QED BY <2>2, <2>3 DEF m
<1> HIDE DEF f
<1>3. q[Len(q)] \in T
  BY <1>1
<1> DEFINE g == Append(f, q[Len(q)])
<1>4. g \in Seq(T) /\ Len(g) = Len(q) /\ \A k \in 1..Len(q) : g[k] = q[k]
  BY <1>1, <1>2, <1>3
<1> HIDE DEF g
<1>5. g = q
  BY <1>4, SeqEqual
<1> QED BY <1>1, <1>2, <1>3, <1>5 DEF Front, Last, f, g

(* What holds of the empty sequence, and of a longer one if of the shorter, *)
(* holds of all.                                                            *)
LEMMA Growth ==
  ASSUME NEW T, NEW X, <<>> \in X,
         \A p \in Seq(T), n \in T : p \in X => Append(p, n) \in X
  PROVE  Seq(T) \subseteq X
<1> DEFINE B == {k \in Nat : \E q \in Seq(T) : Len(q) = k /\ q \notin X}
<1> SUFFICES ASSUME NEW r \in Seq(T), r \notin X PROVE FALSE
  OBVIOUS
<1>1. Len(r) \in B
  OBVIOUS
<1>2. PICK k \in B : \A j \in B : k <= j
  BY <1>1, Smallest
<1>3. PICK q \in Seq(T) : Len(q) = k /\ q \notin X
  BY <1>2
<1>4. q # <<>>
  BY <1>3
<1>5. /\ Front(q) \in Seq(T) /\ Last(q) \in T /\ Append(Front(q), Last(q)) = q
      /\ Len(Front(q)) = Len(q) - 1 /\ Len(q) \in Nat \ {0}
  BY <1>4, Fronted
<1>6. Len(Front(q)) \notin B
  BY <1>2, <1>3, <1>5
<1>7. Front(q) \in X
  BY <1>5, <1>6
<1> QED BY <1>3, <1>5, <1>7
----------------------------------------------------------------------------
(* The tree of paths on a disk. *)

\* Directory i on disk e has an entry with name n for inode j.
Hop(e, i, n, j) == /\ e[i].type = "dir"
                   /\ \E s \in Slots : At(e, i, s) # NULL /\ At(e, i, s).name = n /\ At(e, i, s).inode = j
\* Path p leads from the root by way of the inodes w.
Trail(e, p, w) == w[0] = Root /\ \A k \in 1..Len(p) : Hop(e, w[k - 1], p[k], w[k])
Reaches(e, p, i) == p \in Seq(Names) /\ \E w : Trail(e, p, w) /\ w[Len(p)] = i

\* The bytes of file i, and the node of the tree at path p.
BytesOf(e, b) == IF e[b].kind = "data" THEN e[b].bytes ELSE [j \in Offsets |-> NULL]
Byte(e, i, j) == BytesOf(e, e[i].ptrs[(j - 1) \div BlockSize])[(j - 1) % BlockSize]
Text(e, i) == [j \in 1..e[i].size |-> Byte(e, i, j)]
Shown(e, p, i) == [path |-> p, type |-> e[i].type, bytes |-> IF e[i].type = "file" THEN Text(e, i) ELSE <<>>]
TreeOn(e) == {Shown(e, x[1], x[2]) : x \in {y \in Seq(Names) \X Space : Reaches(e, y[1], y[2])}}

\* No directory a path leads to has two entries of the same name.
Distinct(e) ==
  \A p, i : Reaches(e, p, i) /\ e[i].type = "dir"
    => \A s, t \in Slots : At(e, i, s) # NULL /\ At(e, i, t) # NULL /\ At(e, i, s).name = At(e, i, t).name
         => s = t

(* The empty path leads to the root and nowhere else.                       *)
LEMMA ReachesRoot == ASSUME NEW e, NEW i PROVE Reaches(e, <<>>, i) <=> i = Root
<1>1. Len(<<>>) = 0 /\ 1..0 = {} /\ <<>> \in Seq(Names)
  OBVIOUS
<1>2. ASSUME i = Root PROVE Reaches(e, <<>>, i)
  <2> DEFINE w == [k \in 0..0 |-> Root]
  <2>1. w[0] = Root
    OBVIOUS
  <2>2. Trail(e, <<>>, w)
    BY <1>1, <2>1 DEF Trail
  <2> QED BY <1>1, <1>2, <2>1, <2>2 DEF Reaches
<1> QED BY <1>1, <1>2 DEF Reaches, Trail

(* A longer path leads where an entry of the directory leads to which all   *)
(* but the last name lead.                                                  *)
LEMMA ReachesOn ==
  ASSUME NEW e, NEW p \in Seq(Names), NEW n \in Names, NEW j
  PROVE  Reaches(e, Append(p, n), j) <=> \E i : Reaches(e, p, i) /\ Hop(e, i, n, j)
<1> DEFINE q == Append(p, n)
<1>1. /\ q \in Seq(Names) /\ Len(q) = Len(p) + 1 /\ Len(p) \in Nat /\ q[Len(p) + 1] = n
      /\ \A k \in 1..Len(p) : q[k] = p[k]
  OBVIOUS
<1> HIDE DEF q
<1>2. ASSUME Reaches(e, q, j) PROVE \E i : Reaches(e, p, i) /\ Hop(e, i, n, j)
  <2>1. PICK w : Trail(e, q, w) /\ w[Len(q)] = j
    BY <1>2 DEF Reaches
  <2>2. Trail(e, p, w)
    <3>1. \A k \in 1..Len(p) : k \in 1..Len(q) /\ q[k] = p[k]
      BY <1>1
    <3> QED BY <2>1, <3>1 DEF Trail
  <2>3. Hop(e, w[Len(p)], n, j)
    <3>1. Len(q) \in 1..Len(q) /\ Len(q) - 1 = Len(p)
      BY <1>1
    <3>2. Hop(e, w[Len(q) - 1], q[Len(q)], w[Len(q)])
      BY <2>1, <3>1 DEF Trail
    <3> QED BY <1>1, <2>1, <3>1, <3>2
  <2> QED BY <2>2, <2>3 DEF Reaches
<1>3. ASSUME NEW i, Reaches(e, p, i), Hop(e, i, n, j) PROVE Reaches(e, q, j)
  <2>1. PICK w : Trail(e, p, w) /\ w[Len(p)] = i
    BY <1>3 DEF Reaches
  <2> DEFINE v == [k \in 0..Len(q) |-> IF k = Len(q) THEN j ELSE w[k]]
  <2>2. /\ \A k \in 0..Len(p) : v[k] = w[k]
        /\ v[Len(q)] = j
    BY <1>1
  <2> HIDE DEF v
  <2>3. ASSUME NEW k \in 1..Len(q) PROVE Hop(e, v[k - 1], q[k], v[k])
    <3>1. CASE k = Len(q)
      <4>1. v[k - 1] = i /\ q[k] = n /\ v[k] = j
        BY <1>1, <2>1, <2>2, <3>1
      <4> QED BY <1>3, <4>1
    <3>2. CASE k # Len(q)
      <4>1. k \in 1..Len(p)
        BY <1>1, <3>2
      <4>2. v[k - 1] = w[k - 1] /\ v[k] = w[k] /\ q[k] = p[k]
        BY <1>1, <2>2, <4>1
      <4> QED BY <2>1, <4>1, <4>2 DEF Trail
    <3> QED BY <3>1, <3>2
  <2>4. v[0] = Root
    BY <1>1, <2>1, <2>2 DEF Trail
  <2> QED BY <1>1, <2>2, <2>3, <2>4 DEF Reaches, Trail
<1> QED BY <1>2, <1>3 DEF q

(* Paths lead to nodes of the tree.                                         *)
LEMMA ReachesIn ==
  ASSUME NEW e, NEW S, Sound(e, S), NEW p, NEW i, Reaches(e, p, i)
  PROVE  p \in Seq(Names) /\ i \in S
<1> DEFINE X == {q \in Seq(Names) : \A j : Reaches(e, q, j) => j \in S}
<1>1. <<>> \in X
  BY ReachesRoot DEF Sound, Inodes
<1>2. ASSUME NEW q \in Seq(Names), NEW n \in Names, q \in X PROVE Append(q, n) \in X
  <2>1. ASSUME NEW j, Reaches(e, Append(q, n), j) PROVE j \in S
    <3>1. PICK k : Reaches(e, q, k) /\ Hop(e, k, n, j)
      BY <2>1, ReachesOn
    <3>2. k \in Dirs(e, S)
      BY <1>2, <3>1 DEF Hop, Dirs
    <3> QED BY <3>1, <3>2 DEF Hop, Sound, Linked
  <2> QED BY <2>1, Appended
<1> HIDE DEF X
<1>3. Seq(Names) \subseteq X
  BY <1>1, <1>2, Growth
<1>4. p \in Seq(Names)
  BY DEF Reaches
<1> QED BY <1>3, <1>4 DEF X

(* No two paths lead to the same node: no two entries do.                   *)
LEMMA PathUnique ==
  ASSUME NEW e, NEW S, Sound(e, S), NEW p, NEW q, NEW i, Reaches(e, p, i), Reaches(e, q, i)
  PROVE  p = q
<1> DEFINE X == {r \in Seq(Names) : \A t, j : Reaches(e, r, j) /\ Reaches(e, t, j) => r = t}
\* The root is in no directory.
<1>0. ASSUME NEW k, NEW n, NEW t, Reaches(e, t, k), Hop(e, k, n, Root) PROVE FALSE
  <2>1. k \in Dirs(e, S)
    BY <1>0, ReachesIn DEF Hop, Dirs
  <2> QED BY <1>0, <2>1 DEF Hop, Sound, Linked
<1>1. <<>> \in X
  <2>1. ASSUME NEW t, NEW j, Reaches(e, <<>>, j), Reaches(e, t, j) PROVE <<>> = t
    <3>1. j = Root /\ t \in Seq(Names)
      BY <2>1, ReachesRoot DEF Reaches
    <3>2. ASSUME t # <<>> PROVE FALSE
      <4>1. Front(t) \in Seq(Names) /\ Last(t) \in Names /\ Append(Front(t), Last(t)) = t
        BY <3>1, <3>2, Fronted
      <4>2. PICK k : Reaches(e, Front(t), k) /\ Hop(e, k, Last(t), j)
        BY <2>1, <4>1, ReachesOn
      <4> QED BY <1>0, <3>1, <4>2
    <3> QED BY <3>2
  <2> QED BY <2>1
<1>2. ASSUME NEW r \in Seq(Names), NEW n \in Names, r \in X PROVE Append(r, n) \in X
  <2>1. ASSUME NEW t, NEW j, Reaches(e, Append(r, n), j), Reaches(e, t, j) PROVE Append(r, n) = t
    <3>1. PICK a : Reaches(e, r, a) /\ Hop(e, a, n, j)
      BY <2>1, ReachesOn
    <3>2. t \in Seq(Names)
      BY <2>1 DEF Reaches
    <3>3. t # <<>>
      <4> SUFFICES ASSUME t = <<>> PROVE FALSE
        OBVIOUS
      <4>1. j = Root
        BY <2>1, ReachesRoot
      <4> QED BY <1>0, <3>1, <4>1
    <3>4. Front(t) \in Seq(Names) /\ Last(t) \in Names /\ Append(Front(t), Last(t)) = t
      BY <3>2, <3>3, Fronted
    <3>5. PICK b : Reaches(e, Front(t), b) /\ Hop(e, b, Last(t), j)
      BY <2>1, <3>4, ReachesOn
    <3>6. a \in Dirs(e, S) /\ b \in Dirs(e, S)
      BY <3>1, <3>5, ReachesIn DEF Hop, Dirs
    <3>7. a = b /\ n = Last(t)
      BY <3>1, <3>5, <3>6 DEF Hop, Sound, Linked
    <3>8. r = Front(t)
      BY <1>2, <3>1, <3>5, <3>7
    <3> QED BY <3>4, <3>7, <3>8
  <2> QED BY <2>1, Appended
<1> HIDE DEF X
<1>3. Seq(Names) \subseteq X
  BY <1>1, <1>2, Growth
<1>4. p \in X
  BY <1>3 DEF Reaches
<1> QED BY <1>4 DEF X

(* With distinct names a path leads to one node.                            *)
LEMMA NodeUnique ==
  ASSUME NEW e, Distinct(e), NEW p, NEW i, NEW j, Reaches(e, p, i), Reaches(e, p, j)
  PROVE  i = j
<1> DEFINE X == {r \in Seq(Names) : \A a, b : Reaches(e, r, a) /\ Reaches(e, r, b) => a = b}
<1>1. <<>> \in X
  BY ReachesRoot
<1>2. ASSUME NEW r \in Seq(Names), NEW n \in Names, r \in X PROVE Append(r, n) \in X
  <2>1. ASSUME NEW a, NEW b, Reaches(e, Append(r, n), a), Reaches(e, Append(r, n), b) PROVE a = b
    <3>1. PICK k : Reaches(e, r, k) /\ Hop(e, k, n, a)
      BY <2>1, ReachesOn
    <3>2. PICK l : Reaches(e, r, l) /\ Hop(e, l, n, b)
      BY <2>1, ReachesOn
    <3>3. k = l
      BY <1>2, <3>1, <3>2
    <3> QED BY <3>1, <3>2, <3>3 DEF Hop, Distinct
  <2> QED BY <2>1, Appended
<1> HIDE DEF X
<1>3. Seq(Names) \subseteq X
  BY <1>1, <1>2, Growth
<1>4. p \in X
  BY <1>3 DEF Reaches
<1> QED BY <1>4 DEF X
----------------------------------------------------------------------------
(* The variable Tree is the tree on the disk. *)

(* What the program reads of a directory are its entries.                   *)
LEMMA HopRead ==
  ASSUME Image, NEW S, Sound(disk, S), NEW i \in S
  PROVE  /\ IsDir(i) <=> disk[i].type = "dir"
         /\ \A n, j : Hop(disk, i, n, j)
              <=> IsDir(i) /\ \E s \in Used(i) : Entries(i)[s].name = n /\ Entries(i)[s].inode = j
<1>1. IsDir(i) <=> i \in Dirs(disk, S)
  BY InodeRead
<1>2. i \in Dirs(disk, S) <=> disk[i].type = "dir"
  BY DEF Dirs
<1>3. ASSUME i \in Dirs(disk, S) PROVE \A s \in Slots : Entries(i)[s] = At(disk, i, s)
  BY <1>3, DirRead
<1> QED BY <1>1, <1>2, <1>3 DEF Hop, Used

(* An entry of the tree has a name and leads to a block.                    *)
LEMMA HopIs ==
  ASSUME NEW e, NEW S, Sound(e, S), NEW i \in S, NEW n, NEW j, Hop(e, i, n, j)
  PROVE  n \in Names /\ j \in S \ {Root} /\ i \in Dirs(e, S)
<1>1. i \in Dirs(e, S)
  BY DEF Hop, Dirs
<1>2. PICK s \in Slots : At(e, i, s) # NULL /\ At(e, i, s).name = n /\ At(e, i, s).inode = j
  BY DEF Hop
<1>3. At(e, i, s) \in [name : Names, inode : Blocks]
  BY <1>1, <1>2, HeadOfDir
<1>4. j \in S \ {Root}
  BY <1>1, <1>2 DEF Sound, Linked
<1> QED BY <1>1, <1>2, <1>3, <1>4

\* The levels of There.
Shelves(l, m) == l = [n \in 0..m |-> IF n = 0 THEN {<<<<>>, Root>>} ELSE UNION {Below(x) : x \in l[n - 1]}]

(* The recursion over the levels has a solution.                            *)
LEMMA ShelvesExist == ASSUME NEW m \in Nat PROVE \E l : Shelves(l, m)
<1> DEFINE Go(l, k) == IF k = 0 THEN {<<<<>>, Root>>} ELSE UNION {Below(x) : x \in l[k - 1]}
           S == {n \in Nat : ~\E l : Shelves(l, n)}
<1> SUFFICES ASSUME S # {} PROVE FALSE
  OBVIOUS
<1>0. \A l, n : Shelves(l, n) <=> l = [k \in 0..n |-> Go(l, k)]
  BY DEF Shelves
<1>1. PICK n \in S : \A j \in S : n <= j
  BY Smallest
<1>2. n # 0
  <2> DEFINE g == [k \in 0..0 |-> {<<<<>>, Root>>}]
  <2>1. g = [k \in 0..0 |-> Go(g, k)]
    OBVIOUS
  <2>2. Shelves(g, 0)
    BY <1>0, <2>1
  <2> QED BY <1>1, <2>2
<1>3. n - 1 \in Nat /\ n - 1 \notin S
  BY <1>1, <1>2
<1>4. PICK f : Shelves(f, n - 1)
  BY <1>3
<1> DEFINE g == [k \in 0..n |-> IF k = n THEN Go(f, n) ELSE f[k]]
<1>5. \A k \in 0..(n - 1) : f[k] = Go(f, k)
  <2>1. f = [k \in 0..(n - 1) |-> Go(f, k)]
    BY <1>0, <1>4
  <2> HIDE DEF Go
  <2> QED BY <2>1, Zenon
<1>6. ASSUME NEW k \in 0..n PROVE g[k] = Go(g, k)
  <2>1. CASE k = n
    <3>1. n - 1 \in 0..n /\ n - 1 # n
      BY <1>3
    <3> QED BY <1>2, <2>1, <3>1
  <2>2. CASE k # n
    <3>1. k \in 0..(n - 1)
      BY <1>3, <2>2
    <3>2. k # 0 => k - 1 \in 0..n /\ k - 1 # n
      BY <3>1, <1>3
    <3> QED BY <2>2, <3>1, <3>2, <1>5
  <2> QED BY <2>1, <2>2
<1>7. g = [k \in 0..n |-> Go(g, k)]
  <2> HIDE DEF g, Go
  <2>1. g = [k \in 0..n |-> g[k]]
    BY DEF g
  <2> QED BY <2>1, <1>6, Zenon
<1>8. Shelves(g, n)
  BY <1>0, <1>7
<1> QED BY <1>1, <1>8

\* Level n holds the paths of n names that lead somewhere.
Shelf(e, n) == {y \in Seq(Names) \X Space : Len(y[1]) = n /\ Reaches(e, y[1], y[2])}

(* One level below another.                                                 *)
LEMMA BelowShelf ==
  ASSUME Image, NEW S, Sound(disk, S), NEW n \in Nat
  PROVE  UNION {Below(x) : x \in Shelf(disk, n)} = Shelf(disk, n + 1)
<1>0. S \subseteq Space
  BY DEF Sound, Inodes
<1>1. ASSUME NEW x \in Shelf(disk, n), NEW y \in Below(x) PROVE y \in Shelf(disk, n + 1)
  <2> DEFINE p == x[1]  i == x[2]
  <2>1. p \in Seq(Names) /\ Len(p) = n /\ Reaches(disk, p, i) /\ i \in S
    BY ReachesIn DEF Shelf
  <2>2. PICK s \in (IF IsDir(i) THEN Used(i) ELSE {}) : y = <<Append(p, Entries(i)[s].name), Entries(i)[s].inode>>
    BY DEF Below
  <2> DEFINE m == Entries(i)[s].name  j == Entries(i)[s].inode
  <2>3. Hop(disk, i, m, j)
    BY <2>1, <2>2, HopRead
  <2> HIDE DEF m, j, p, i
  <2>4. m \in Names /\ j \in S
    BY <2>1, <2>3, HopIs
  <2>5. Reaches(disk, Append(p, m), j)
    BY <2>1, <2>3, <2>4, ReachesOn
  <2>6. Append(p, m) \in Seq(Names) /\ Len(Append(p, m)) = n + 1
    BY <2>1, <2>4, Appended
  <2>7. y = <<Append(p, m), j>>
    BY <2>2 DEF m, j, p, i
  <2> QED BY <1>0, <2>4, <2>5, <2>6, <2>7 DEF Shelf
<1>2. ASSUME NEW y \in Shelf(disk, n + 1) PROVE \E x \in Shelf(disk, n) : y \in Below(x)
  <2> DEFINE q == y[1]  j == y[2]
  <2>1. q \in Seq(Names) /\ Len(q) = n + 1 /\ Reaches(disk, q, j) /\ y = <<q, j>>
    BY DEF Shelf
  <2> HIDE DEF q, j
  <2>2. q # <<>>
    BY <2>1
  <2>3. /\ Front(q) \in Seq(Names) /\ Last(q) \in Names /\ Append(Front(q), Last(q)) = q
        /\ Len(Front(q)) = Len(q) - 1
    BY <2>1, <2>2, Fronted
  <2>4. PICK i : Reaches(disk, Front(q), i) /\ Hop(disk, i, Last(q), j)
    BY <2>1, <2>3, ReachesOn
  <2>5. i \in S /\ Len(Front(q)) = n
    BY <2>1, <2>3, <2>4, ReachesIn
  <2> DEFINE x == <<Front(q), i>>
  <2>6. x \in Shelf(disk, n)
    BY <1>0, <2>3, <2>4, <2>5 DEF Shelf
  <2>7. PICK s \in Used(i) : IsDir(i) /\ Entries(i)[s].name = Last(q) /\ Entries(i)[s].inode = j
    BY <2>4, <2>5, HopRead
  <2>8. x[1] = Front(q) /\ x[2] = i
    OBVIOUS
  <2> HIDE DEF x
  <2>9. y = <<Append(x[1], Entries(x[2])[s].name), Entries(x[2])[s].inode>>
    BY <2>1, <2>3, <2>7, <2>8
  <2>10. y \in Below(x)
    BY <2>7, <2>8, <2>9 DEF Below
  <2> QED BY <2>6, <2>10
<1>3. \A y : y \in UNION {Below(x) : x \in Shelf(disk, n)} <=> y \in Shelf(disk, n + 1)
  BY <1>1, <1>2
<1> QED BY <1>3

(* The first level holds the empty path.                                    *)
LEMMA FirstShelf == ASSUME NEW e PROVE Shelf(e, 0) = {<<<<>>, Root>>}
<1>1. <<>> \in Seq(Names) /\ Len(<<>>) = 0 /\ Root \in Space
  BY Sizes
<1>2. Reaches(e, <<>>, Root)
  BY ReachesRoot
<1>3. <<<<>>, Root>> \in Shelf(e, 0)
  <2> DEFINE y == <<<<>>, Root>>
  <2>1. y[1] = <<>> /\ y[2] = Root /\ y \in Seq(Names) \X Space
    BY <1>1
  <2> HIDE DEF y
  <2>2. y \in Shelf(e, 0)
    BY <1>1, <1>2, <2>1 DEF Shelf
  <2> QED BY <2>2 DEF y
<1>4. ASSUME NEW y \in Shelf(e, 0) PROVE y = <<<<>>, Root>>
  <2>1. y \in Seq(Names) \X Space /\ Len(y[1]) = 0 /\ Reaches(e, y[1], y[2])
    BY DEF Shelf
  <2>2. y[1] = <<>>
    <3>1. y[1] \in Seq(Names)
      BY <2>1
    <3> QED BY <2>1, <3>1, EmptySeq
  <2>3. y[2] = Root
    BY <2>1, <2>2, ReachesRoot
  <2> QED BY <2>1, <2>2, <2>3
<1> QED BY <1>3, <1>4

(* The paths of There.                                                      *)
LEMMA ThereIs ==
  ASSUME Image, NEW S, Sound(disk, S)
  PROVE  There = UNION {Shelf(disk, n) : n \in 0..MaxDepth}
<1> DEFINE m == MaxDepth
<1>1. m \in Nat
  BY TiersExist
<1>2. \E l : Shelves(l, m)
  BY <1>1, ShelvesExist
<1>3. There = LET level == CHOOSE l : Shelves(l, m) IN UNION {level[n] : n \in 0..m}
  BY Zenon DEF There, Shelves
<1>4. PICK l : Shelves(l, m) /\ There = UNION {l[n] : n \in 0..m}
  BY <1>2, <1>3, Zenon
<1>5. \A n \in 0..m : l[n] = IF n = 0 THEN {<<<<>>, Root>>} ELSE UNION {Below(x) : x \in l[n - 1]}
  BY <1>4, Zenon DEF Shelves
<1> HIDE DEF m
<1> DEFINE B == {n \in 0..m : l[n] # Shelf(disk, n)}
<1>6. B = {}
  <2> SUFFICES ASSUME B # {} PROVE FALSE
    OBVIOUS
  <2>0. B \in SUBSET Nat
    BY <1>1
  <2>1. PICK n \in B : \A j \in B : n <= j
    BY <2>0, Smallest
  <2>2. n # 0
    BY <1>1, <1>5, <2>1, FirstShelf
  <2>3. n - 1 \in 0..m /\ ~(n <= n - 1) /\ n \in 0..m /\ n - 1 \in Nat /\ n - 1 + 1 = n
    BY <1>1, <2>1, <2>2
  <2>4. l[n - 1] = Shelf(disk, n - 1)
    BY <2>1, <2>3
  <2>5. l[n] = UNION {Below(x) : x \in l[n - 1]}
    BY <1>5, <2>2, <2>3
  <2>6. UNION {Below(x) : x \in Shelf(disk, n - 1)} = Shelf(disk, n - 1 + 1)
    BY <2>3, BelowShelf
  <2> QED BY <2>1, <2>3, <2>4, <2>5, <2>6
<1>7. \A n \in 0..m : l[n] = Shelf(disk, n)
  BY <1>6
<1> QED BY <1>4, <1>7 DEF m

(* No path is longer than MaxDepth: the tree ends there.                    *)
LEMMA PathsEnd ==
  ASSUME Image, NEW S, Sound(disk, S), NEW p, NEW i, Reaches(disk, p, i)
  PROVE  Len(p) \in 0..MaxDepth
<1>1. PICK l : Tiers(l)
  BY TiersExist
<1> DEFINE m == MaxDepth
<1>2. m \in Nat /\ Dirs(disk, l[m]) = {}
  BY <1>1, TiersExist, TiersEnd
<1>3. \A n \in 0..m : l[n] \in SUBSET S /\ l[n] = IF n = 0 THEN {Root} ELSE Below1(l[n - 1])
  BY <1>1, TiersInTree DEF Tiers
<1> HIDE DEF m
<1> DEFINE X == {q \in Seq(Names) : \A j : Reaches(disk, q, j) => Len(q) \in 0..m /\ j \in l[Len(q)]}
<1>4. <<>> \in X
  <2>1. <<>> \in Seq(Names) /\ Len(<<>>) = 0 /\ 0 \in 0..m
    BY <1>2
  <2> QED BY <1>3, <2>1, ReachesRoot
<1>5. ASSUME NEW q \in Seq(Names), NEW n \in Names, q \in X PROVE Append(q, n) \in X
  <2>1. ASSUME NEW j, Reaches(disk, Append(q, n), j)
        PROVE  Len(Append(q, n)) \in 0..m /\ j \in l[Len(Append(q, n))]
    <3>1. PICK k : Reaches(disk, q, k) /\ Hop(disk, k, n, j)
      BY <2>1, ReachesOn
    <3> DEFINE c == Len(q)
    <3>2. c \in 0..m /\ k \in l[c] /\ k \in S
      BY <1>5, <3>1, ReachesIn
    <3>3. k \in Dirs(disk, l[c])
      BY <3>1, <3>2 DEF Hop, Dirs
    <3>4. Len(Append(q, n)) = c + 1
      BY Appended
    <3> HIDE DEF c
    <3>5. c # m
      BY <1>2, <3>3
    <3> DEFINE b == c + 1
    <3>6. b \in 0..m /\ b # 0 /\ b - 1 = c
      BY <1>2, <3>2, <3>5
    <3> HIDE DEF b
    <3>7. j \in Below1(l[c])
      BY <1>3, <3>1, <3>2, <3>3, BelowHangs DEF Hop
    <3>8. l[b] = IF b = 0 THEN {Root} ELSE Below1(l[b - 1])
      BY <1>3, <3>6, Zenon
    <3>9. j \in l[b]
      BY <3>6, <3>7, <3>8
    <3> QED BY <3>4, <3>6, <3>9 DEF b
  <2>2. Append(q, n) \in Seq(Names)
    BY Appended
  <2> QED BY <2>1, <2>2
<1> HIDE DEF X
<1>6. Seq(Names) \subseteq X
  BY <1>4, <1>5, Growth
<1>7. p \in X
  BY <1>6 DEF Reaches
<1> QED BY <1>7 DEF X, m

(* Every byte of a file is in a block it owns.                              *)
LEMMA PtrOwned ==
  ASSUME NEW z \in 0..MaxFile, NEW j \in 1..z
  PROVE  (j - 1) \div BlockSize \in 0..(BlocksFor(z) - 1)
<1>1. z \in Nat \ {0} /\ z \in Nat /\ j - 1 \in Nat /\ z - 1 \in Nat /\ j - 1 <= z - 1
  BY BlocksFit
<1>2. (z - 1) \div BlockSize = BlocksFor(z) - 1
  BY <1>1, LastBlock
<1> DEFINE k == (j - 1) \div BlockSize
<1>3. k \in Nat /\ k <= (z - 1) \div BlockSize
  BY <1>1, DivGrows
<1>4. BlocksFor(z) \in Nat
  BY <1>1, BlocksAre
<1> QED BY <1>2, <1>3, <1>4

(* The bytes of a file as the program reads them.                           *)
LEMMA TextRead ==
  ASSUME Image, NEW S, Sound(disk, S), NEW i \in S \ Dirs(disk, S)
  PROVE  Content(i) = Text(disk, i)
<1>1. ReadInode(i) = disk[i] /\ disk[i] \in InodeType
  BY InodeRead
<1>2. disk[i].size \in 0..MaxFile
  BY <1>1 DEF InodeType
<1> DEFINE z == disk[i].size
<1>3. ASSUME NEW j \in 1..z
      PROVE  ReadBytes(disk[i].ptrs[(j - 1) \div BlockSize]) = BytesOf(disk, disk[i].ptrs[(j - 1) \div BlockSize])
  <2> DEFINE k == (j - 1) \div BlockSize
  <2>1. k \in Owns(disk, i)
    BY <1>2, PtrOwned DEF Owns
  <2>2. disk[i].ptrs[k] \in Space
    BY <2>1 DEF Sound, OwnBlocks
  <2>3. disk[i].ptrs[k] \in DOMAIN disk
    BY <2>2, Sizes DEF Image
  <2> QED BY <2>3 DEF ReadBytes, BytesOf, Holds
<1> QED BY <1>1, <1>3 DEF Content, Text, Byte

(* Tree is the tree on the disk.                                            *)
LEMMA TreeIs == ASSUME Image, NEW S, Sound(disk, S) PROVE Tree = TreeOn(disk)
<1> DEFINE R == {y \in Seq(Names) \X Space : Reaches(disk, y[1], y[2])}
<1>1. There = R
  <2>1. ASSUME NEW y \in R PROVE y \in There
    <3>1. Len(y[1]) \in 0..MaxDepth
      BY PathsEnd
    <3>2. y \in Shelf(disk, Len(y[1]))
      BY DEF Shelf
    <3> QED BY <3>1, <3>2, ThereIs
  <2>2. ASSUME NEW y \in There PROVE y \in R
    <3>1. \E n \in 0..MaxDepth : y \in Shelf(disk, n)
      BY ThereIs
    <3> QED BY <3>1 DEF Shelf
  <2> QED BY <2>1, <2>2
<1> DEFINE Node(x) == [path |-> x[1], type |-> ReadInode(x[2]).type,
                       bytes |-> IF IsFile(x[2]) THEN Content(x[2]) ELSE <<>>]
<1>2. ASSUME NEW x \in R PROVE Node(x) = Shown(disk, x[1], x[2])
  <2>1. x[2] \in S
    BY ReachesIn
  <2>2. ReadInode(x[2]) = disk[x[2]] /\ disk[x[2]].type \in {"dir", "file"}
    BY <2>1, InodeRead DEF InodeType
  <2>3. IsFile(x[2]) <=> disk[x[2]].type = "file"
    BY <2>2 DEF IsFile
  <2>4. ASSUME disk[x[2]].type = "file" PROVE Content(x[2]) = Text(disk, x[2])
    <3>1. x[2] \notin Dirs(disk, S)
      BY <2>4 DEF Dirs
    <3> QED BY <2>1, <3>1, TextRead
  <2> QED BY <2>2, <2>3, <2>4 DEF Shown
<1>3. Tree = {Node(x) : x \in R}
  BY <1>1, Zenon DEF Tree
<1> HIDE DEF R, Node
<1>4. {Node(x) : x \in R} = {Shown(disk, x[1], x[2]) : x \in R}
  BY <1>2
<1> QED BY <1>3, <1>4 DEF R, TreeOn
----------------------------------------------------------------------------
(* What FsTree says of the tree on a disk. *)

(* The nodes of the tree are what the paths lead to.                        *)
LEMMA TreeNodes ==
  ASSUME NEW e, NEW S, Sound(e, S), NEW x
  PROVE  x \in TreeOn(e) <=> \E p, i : Reaches(e, p, i) /\ x = Shown(e, p, i)
<1> DEFINE R == {y \in Seq(Names) \X Space : Reaches(e, y[1], y[2])}
<1>0. S \subseteq Space
  BY DEF Sound, Inodes
<1>1. ASSUME NEW p, NEW i, Reaches(e, p, i) PROVE Shown(e, p, i) \in TreeOn(e)
  <2> DEFINE y == <<p, i>>
  <2>1. y \in Seq(Names) \X Space /\ y[1] = p /\ y[2] = i
    BY <1>0, <1>1, ReachesIn
  <2> HIDE DEF y
  <2>2. y \in R /\ Shown(e, p, i) = Shown(e, y[1], y[2])
    BY <1>1, <2>1
  <2> HIDE DEF R
  <2>3. Shown(e, y[1], y[2]) \in {Shown(e, z[1], z[2]) : z \in R}
    BY <2>2
  <2> QED BY <2>2, <2>3 DEF TreeOn, R
<1>2. ASSUME x \in TreeOn(e) PROVE \E p, i : Reaches(e, p, i) /\ x = Shown(e, p, i)
  <2>1. PICK y \in R : x = Shown(e, y[1], y[2])
    BY <1>2 DEF TreeOn
  <2> QED BY <2>1
<1> QED BY <1>1, <1>2

(* A path exists in the tree if it leads somewhere.                         *)
LEMMA ExistsIs ==
  ASSUME NEW e, NEW S, Sound(e, S), NEW p
  PROVE  Fs!Exists(TreeOn(e), p) <=> \E i : Reaches(e, p, i)
<1>1. ASSUME NEW n \in TreeOn(e), n.path = p PROVE \E i : Reaches(e, p, i)
  <2>1. PICK q, i : Reaches(e, q, i) /\ n = Shown(e, q, i)
    BY TreeNodes
  <2> QED BY <1>1, <2>1 DEF Shown
<1>2. ASSUME NEW i, Reaches(e, p, i) PROVE \E n \in TreeOn(e) : n.path = p
  <2>1. Shown(e, p, i) \in TreeOn(e)
    BY <1>2, TreeNodes
  <2>2. Shown(e, p, i).path = p
    BY DEF Shown
  <2> QED BY <2>1, <2>2
<1> QED BY <1>1, <1>2 DEF Fs!Exists

(* The node there is what it leads to.                                      *)
LEMMA NodeIs1 ==
  ASSUME NEW e, NEW S, Sound(e, S), Distinct(e), NEW p, NEW i, Reaches(e, p, i)
  PROVE  /\ Fs!Exists(TreeOn(e), p)
         /\ Fs!Node(TreeOn(e), p) = Shown(e, p, i)
         /\ Fs!IsDir(TreeOn(e), p) <=> e[i].type = "dir"
         /\ \A n \in TreeOn(e) : n.path = p => n = Shown(e, p, i)
<1>1. Shown(e, p, i) \in TreeOn(e) /\ Shown(e, p, i).path = p /\ Shown(e, p, i).type = e[i].type
  BY TreeNodes DEF Shown
<1>2. ASSUME NEW n \in TreeOn(e), n.path = p PROVE n = Shown(e, p, i)
  <2>1. PICK q, j : Reaches(e, q, j) /\ n = Shown(e, q, j)
    BY TreeNodes
  <2>2. q = p
    BY <1>2, <2>1 DEF Shown
  <2>3. j = i
    BY <2>1, <2>2, NodeUnique
  <2> QED BY <2>1, <2>2, <2>3
<1>3. Fs!Node(TreeOn(e), p) = Shown(e, p, i)
  BY <1>1, <1>2 DEF Fs!Node
<1>4. Fs!Exists(TreeOn(e), p)
  BY ExistsIs
<1> QED BY <1>1, <1>2, <1>3, <1>4 DEF Fs!IsDir

\* A file stands on the way along path q.
Blocked(e, q) == \E n \in 0..Len(q) : \E i : Reaches(e, SubSeq(q, 1, n), i) /\ e[i].type # "dir"

(* On a longer path, one more node may stand in the way.                    *)
LEMMA BlockedOn ==
  ASSUME NEW e, NEW q \in Seq(Names), NEW x \in Names
  PROVE  Blocked(e, Append(q, x))
           <=> Blocked(e, q) \/ \E i : Reaches(e, Append(q, x), i) /\ e[i].type # "dir"
<1> DEFINE r == Append(q, x)  m == Len(q)
<1>1. m \in Nat /\ r \in Seq(Names) /\ Len(r) = m + 1 /\ \A k \in 1..m : r[k] = q[k]
  BY Appended
<1>2. SubSeq(r, 1, Len(r)) = r
  BY <1>1, SubSeqFull
<1>3. ASSUME NEW n \in 0..m PROVE SubSeq(r, 1, n) = SubSeq(q, 1, n)
  <2>1. /\ \A k \in 1..n : r[k] \in Names /\ q[k] \in Names /\ r[k] = q[k]
        /\ n \in Nat
    BY <1>1
  <2> HIDE DEF m, r
  <2>2. /\ SubSeq(r, 1, n) \in Seq(Names) /\ Len(SubSeq(r, 1, n)) = n
        /\ SubSeq(q, 1, n) \in Seq(Names) /\ Len(SubSeq(q, 1, n)) = n
        /\ \A k \in 1..n : SubSeq(r, 1, n)[k] = r[k] /\ SubSeq(q, 1, n)[k] = q[k]
    BY <2>1, SubSeqProperties
  <2>3. \A k \in 1..n : SubSeq(r, 1, n)[k] = SubSeq(q, 1, n)[k]
    BY <2>1, <2>2
  <2> QED BY <2>2, <2>3, SeqEqual
<1> HIDE DEF r, m
<1>4. \A n \in 0..(m + 1) : n \in 0..m \/ n = m + 1
  BY <1>1
<1>5. (m + 1) \in 0..(m + 1) /\ \A n \in 0..m : n \in 0..(m + 1)
  BY <1>1
<1>6. Blocked(e, r) <=> \E n \in 0..(m + 1) : \E i : Reaches(e, SubSeq(r, 1, n), i) /\ e[i].type # "dir"
  BY <1>1 DEF Blocked
<1>7. Blocked(e, q) <=> \E n \in 0..m : \E i : Reaches(e, SubSeq(q, 1, n), i) /\ e[i].type # "dir"
  BY DEF Blocked, m
<1>8. SubSeq(r, 1, m + 1) = r
  BY <1>1, <1>2
<1> QED BY <1>3, <1>4, <1>5, <1>6, <1>7, <1>8 DEF r

\* What translate returns for path q.
Resolved(e, q, r) ==
  \/ Reaches(e, q, r) /\ (e[r].type = "dir" => ~Blocked(e, q))
  \/ (\A i : ~Reaches(e, q, i)) /\ r = IF Blocked(e, q) THEN ENOTDIR ELSE ENOENT

(* The walk along a path as the program takes it.                           *)
LEMMA WalkSolved ==
  ASSUME NEW p, Len(p) \in Nat
  PROVE  \E w : /\ Walk(p) = w[Len(p)]
                /\ \A k \in 0..Len(p) : w[k] = IF k = 0 THEN Root
                                               ELSE IF w[k - 1] < 0 THEN w[k - 1] ELSE Step(w[k - 1], p[k])
<1> DEFINE m == Len(p)
<1>1. \E w : Walks(p, w, m)
  BY WalksExist
<1>2. Walk(p) = (CHOOSE w : Walks(p, w, m))[m]
  BY DEF Walk, Walks
<1>3. PICK w : Walks(p, w, m) /\ Walk(p) = w[m]
  BY <1>1, <1>2
<1>4. \A k \in 0..m : w[k] = IF k = 0 THEN Root
                             ELSE IF w[k - 1] < 0 THEN w[k - 1] ELSE Step(w[k - 1], p[k])
  BY <1>3, Zenon DEF Walks
<1> QED BY <1>3, <1>4

(* One more component is one more step.                                     *)
LEMMA WalkOn ==
  /\ Walk(<<>>) = Root
  /\ \A q \in Seq(Names), n \in Names :
       Walk(Append(q, n)) = IF Walk(q) < 0 THEN Walk(q) ELSE Step(Walk(q), n)
<1>1. Walk(<<>>) = Root
  <2>1. Len(<<>>) = 0
    OBVIOUS
  <2>2. PICK w : /\ Walk(<<>>) = w[0]
                 /\ \A k \in 0..0 : w[k] = IF k = 0 THEN Root
                                           ELSE IF w[k - 1] < 0 THEN w[k - 1] ELSE Step(w[k - 1], <<>>[k])
    BY <2>1, WalkSolved
  <2> QED BY <2>2
<1>2. ASSUME NEW q \in Seq(Names), NEW n \in Names
      PROVE  Walk(Append(q, n)) = IF Walk(q) < 0 THEN Walk(q) ELSE Step(Walk(q), n)
  <2> DEFINE r == Append(q, n)  m == Len(q)
  <2>1. m \in Nat /\ Len(r) = m + 1 /\ r[m + 1] = n /\ \A k \in 1..m : r[k] = q[k]
    OBVIOUS
  <2> HIDE DEF r, m
  <2>2. PICK w : /\ Walk(q) = w[m]
                 /\ \A k \in 0..m : w[k] = IF k = 0 THEN Root
                                           ELSE IF w[k - 1] < 0 THEN w[k - 1] ELSE Step(w[k - 1], q[k])
    BY <2>1, WalkSolved DEF m
  <2>3. PICK v : /\ Walk(r) = v[m + 1]
                 /\ \A k \in 0..(m + 1) : v[k] = IF k = 0 THEN Root
                                                 ELSE IF v[k - 1] < 0 THEN v[k - 1] ELSE Step(v[k - 1], r[k])
    <3>1. Len(r) \in Nat
      BY <2>1
    <3>2. \E z : /\ Walk(r) = z[Len(r)]
                 /\ \A k \in 0..Len(r) : z[k] = IF k = 0 THEN Root
                                                ELSE IF z[k - 1] < 0 THEN z[k - 1] ELSE Step(z[k - 1], r[k])
      BY <3>1, WalkSolved
    <3> QED BY <2>1, <3>2
  <2> DEFINE B == {k \in 0..m : v[k] # w[k]}
  <2>4. B = {}
    <3> SUFFICES ASSUME B # {} PROVE FALSE
      OBVIOUS
    <3>0. B \in SUBSET Nat
      BY <2>1
    <3>1. PICK k \in B : \A j \in B : k <= j
      BY <3>0, Smallest
    <3>2. k \in 0..m /\ k \in 0..(m + 1)
      BY <2>1, <3>1
    <3>3. k # 0
      BY <2>2, <2>3, <3>1, <3>2
    <3>4. k - 1 \in 0..m /\ ~(k <= k - 1) /\ k \in 1..m
      BY <2>1, <3>2, <3>3
    <3>5. v[k - 1] = w[k - 1]
      BY <3>1, <3>4
    <3>6. v[k] = IF v[k - 1] < 0 THEN v[k - 1] ELSE Step(v[k - 1], q[k])
      BY <2>1, <2>3, <3>2, <3>3, <3>4
    <3>7. w[k] = IF w[k - 1] < 0 THEN w[k - 1] ELSE Step(w[k - 1], q[k])
      BY <2>2, <3>2, <3>3
    <3> QED BY <3>1, <3>5, <3>6, <3>7
  <2>5. v[m] = w[m]
    <3>1. m \in 0..m
      BY <2>1
    <3> QED BY <2>4, <3>1
  <2> DEFINE c == m + 1
  <2>6. c \in 0..c /\ c # 0 /\ c - 1 = m
    BY <2>1
  <2>7. r[c] = n
    BY <2>1
  <2>8. v[c] = IF c = 0 THEN Root ELSE IF v[c - 1] < 0 THEN v[c - 1] ELSE Step(v[c - 1], r[c])
    BY <2>3, <2>6, Zenon
  <2>9. Walk(r) = v[c]
    BY <2>3
  <2> HIDE DEF c
  <2>10. Walk(r) = IF v[m] < 0 THEN v[m] ELSE Step(v[m], n)
    BY <2>6, <2>7, <2>8, <2>9
  <2> QED BY <2>2, <2>5, <2>10 DEF r
<1> QED BY <1>1, <1>2

(* A name that is found is that of the entry the path goes on with; one     *)
(* that is not found is in no entry.                                        *)
LEMMA StepIs ==
  ASSUME Image, NEW S, Sound(disk, S), NEW i \in S, NEW n
  PROVE  /\ ~(disk[i].type = "dir") => Step(i, n) = ENOTDIR
         /\ disk[i].type = "dir" => \/ Hop(disk, i, n, Step(i, n)) /\ Named(i, n) # {} /\ Step(i, n) = Found(i, n)
                                    \/ Step(i, n) = ENOENT /\ Named(i, n) = {} /\ \A j : ~Hop(disk, i, n, j)
<1>1. IsDir(i) <=> disk[i].type = "dir"
  BY HopRead
<1>2. CASE Named(i, n) # {}
  <2> DEFINE s == Lowest(Named(i, n))
  <2>1. s \in Slots /\ At(disk, i, s) # NULL /\ At(disk, i, s).name = n /\ Found(i, n) = At(disk, i, s).inode
    BY <1>2, NameFound
  <2> HIDE DEF s
  <2>2. disk[i].type = "dir" => Hop(disk, i, n, Found(i, n))
    BY <2>1 DEF Hop
  <2>3. disk[i].type = "dir" => Step(i, n) = Found(i, n)
    BY <1>1, <1>2 DEF Step, Found
  <2> QED BY <1>1, <1>2, <2>2, <2>3 DEF Step
<1>3. CASE Named(i, n) = {}
  <2>1. \A j : ~Hop(disk, i, n, j)
    BY <1>3, HopRead DEF Named
  <2> QED BY <1>1, <1>3, <2>1 DEF Step
<1> QED BY <1>2, <1>3

(* A walk ends where the path leads, or with the error of the first         *)
(* component that is missing.                                               *)
LEMMA WalkResolves ==
  ASSUME Image, NEW S, Sound(disk, S), Distinct(disk), NEW q \in Seq(Names)
  PROVE  Resolved(disk, q, Walk(q))
<1> DEFINE X == {p \in Seq(Names) : Resolved(disk, p, Walk(p))}
<1>1. <<>> \in X
  <2>1. Len(<<>>) = 0 /\ <<>> \in Seq(Names)
    OBVIOUS
  <2>2. Reaches(disk, <<>>, Root)
    BY ReachesRoot
  <2>3. ASSUME disk[Root].type = "dir" PROVE ~Blocked(disk, <<>>)
    <3>1. \A n \in 0..0 : SubSeq(<<>>, 1, n) = <<>>
      <4>1. \A n \in 0..0 : n \in Int /\ 1 \in Int /\ n < 1
        OBVIOUS
      <4> QED BY <4>1, SubSeqEmpty
    <3>2. ASSUME NEW n \in 0..0, NEW i, Reaches(disk, SubSeq(<<>>, 1, n), i) PROVE i = Root
      <4>1. Reaches(disk, <<>>, i)
        BY <3>1, <3>2
      <4> QED BY <4>1, ReachesRoot
    <3> QED BY <2>1, <2>3, <3>2 DEF Blocked
  <2> QED BY <2>1, <2>2, <2>3, WalkOn DEF Resolved
<1>2. ASSUME NEW p \in Seq(Names), NEW n \in Names, p \in X PROVE Append(p, n) \in X
  <2> DEFINE r == Append(p, n)  i == Walk(p)
  <2>1. r \in Seq(Names)
    BY Appended
  <2>2. Resolved(disk, p, i)
    BY <1>2
  <2>3. Walk(r) = IF i < 0 THEN i ELSE Step(i, n)
    BY WalkOn
  <2>4. Blocked(disk, r) <=> Blocked(disk, p) \/ \E j : Reaches(disk, r, j) /\ disk[j].type # "dir"
    BY BlockedOn
  <2>5. \A j : Reaches(disk, r, j) <=> \E k : Reaches(disk, p, k) /\ Hop(disk, k, n, j)
    BY ReachesOn
  <2> HIDE DEF r, i
  <2>6. CASE Reaches(disk, p, i) /\ (disk[i].type = "dir" => ~Blocked(disk, p))
    <3>1. i \in S /\ ~(i < 0)
      <4>1. i \in S
        BY <2>6, ReachesIn
      <4> QED BY <4>1, NodesPositive
    <3>2. Walk(r) = Step(i, n)
      BY <2>3, <3>1
    <3>3. \A k : Reaches(disk, p, k) => k = i
      BY <2>6, NodeUnique
    <3>4. \A j : Reaches(disk, r, j) <=> Hop(disk, i, n, j)
      BY <2>5, <2>6, <3>3
    <3>5. CASE ~(disk[i].type = "dir")
      <4>1. Walk(r) = ENOTDIR
        BY <3>1, <3>2, <3>5, StepIs
      <4>2. \A j : ~Reaches(disk, r, j)
        BY <3>4, <3>5 DEF Hop
      <4>3. Blocked(disk, p)
        <5>1. p \in Seq(Names) /\ Len(p) \in 0..Len(p)
          OBVIOUS
        <5>2. SubSeq(p, 1, Len(p)) = p
          BY SubSeqFull
        <5> QED BY <2>6, <3>5, <5>1, <5>2 DEF Blocked
      <4> QED BY <2>1, <2>4, <4>1, <4>2, <4>3 DEF Resolved, r
    <3>6. CASE disk[i].type = "dir" /\ Named(i, n) # {}
      <4>1. Hop(disk, i, n, Walk(r))
        BY <3>1, <3>2, <3>6, StepIs
      <4>2. Reaches(disk, r, Walk(r))
        BY <3>4, <4>1
      <4>3. disk[Walk(r)].type = "dir" => ~Blocked(disk, r)
        BY <2>4, <2>6, <3>6, <4>2, NodeUnique
      <4> QED BY <2>1, <4>2, <4>3 DEF Resolved, r
    <3>7. CASE disk[i].type = "dir" /\ Named(i, n) = {}
      <4>1. Walk(r) = ENOENT /\ \A j : ~Hop(disk, i, n, j)
        BY <3>1, <3>2, <3>7, StepIs
      <4>2. \A j : ~Reaches(disk, r, j)
        BY <3>4, <4>1
      <4>3. ~Blocked(disk, r)
        BY <2>4, <2>6, <3>7, <4>2
      <4> QED BY <2>1, <4>1, <4>2, <4>3 DEF Resolved, r
    <3> QED BY <3>5, <3>6, <3>7
  <2>7. CASE (\A j : ~Reaches(disk, p, j)) /\ i = IF Blocked(disk, p) THEN ENOTDIR ELSE ENOENT
    <3>1. i < 0
      BY <2>7 DEF ENOTDIR, ENOENT
    <3>2. \A j : ~Reaches(disk, r, j)
      BY <2>5, <2>7
    <3>3. Blocked(disk, r) <=> Blocked(disk, p)
      BY <2>4, <3>2
    <3>4. Walk(r) = IF Blocked(disk, r) THEN ENOTDIR ELSE ENOENT
      BY <2>3, <2>7, <3>1, <3>3
    <3> QED BY <2>1, <3>2, <3>4 DEF Resolved, r
  <2> QED BY <2>2, <2>6, <2>7 DEF Resolved
<1> HIDE DEF X
<1>3. Seq(Names) \subseteq X
  BY <1>1, <1>2, Growth
<1> QED BY <1>3 DEF X

(* Cutting the components of a path leaves it as long as it was.            *)
LEMMA ClipIs ==
  ASSUME NEW p \in Seq(Names)
  PROVE  /\ ClipPath(p) \in Seq(Names) /\ Len(ClipPath(p)) = Len(p) /\ (ClipPath(p) = <<>> <=> p = <<>>)
         /\ \A k \in 1..Len(p) : ClipPath(p)[k] = Clip[p[k]]
<1>1. Len(p) \in Nat /\ DOMAIN p = 1..Len(p) /\ \A k \in 1..Len(p) : p[k] \in Names
  OBVIOUS
<1>2. \A k \in 1..Len(p) : Clip[p[k]] \in Names
  BY <1>1, ConstantFacts
<1>3. ClipPath(p) = [k \in 1..Len(p) |-> Clip[p[k]]]
  BY <1>1 DEF ClipPath
<1> DEFINE q == [k \in 1..Len(p) |-> Clip[p[k]]]
<1>4. q \in Seq(Names) /\ Len(q) = Len(p) /\ \A k \in 1..Len(p) : q[k] = Clip[p[k]]
  BY <1>1, <1>2
<1> HIDE DEF q
<1>5. q = <<>> <=> p = <<>>
  BY <1>1, <1>4, EmptySeq
<1> QED BY <1>3, <1>4, <1>5 DEF q

(* The last component and those before it.                                  *)
LEMMA ClipParts ==
  ASSUME NEW p \in Seq(Names), p # <<>>
  PROVE  LET q == ClipPath(p) IN
         /\ q \in Seq(Names) /\ q # <<>> /\ Front(p) \in Seq(Names) /\ Len(Front(p)) <= Len(p)
         /\ ClipPath(Front(p)) = Front(q) /\ Leaf(p) = Last(q)
         /\ Front(q) \in Seq(Names) /\ Last(q) \in Names /\ Append(Front(q), Last(q)) = q
<1> DEFINE q == ClipPath(p)
<1>1. q \in Seq(Names) /\ q # <<>> /\ Len(q) = Len(p) /\ \A k \in 1..Len(p) : q[k] = Clip[p[k]]
  BY ClipIs
<1>2. /\ Front(p) \in Seq(Names) /\ Len(Front(p)) = Len(p) - 1 /\ Len(p) \in Nat \ {0}
      /\ \A k \in 1..(Len(p) - 1) : Front(p)[k] = p[k]
  BY Fronted
<1> HIDE DEF q
<1>3. /\ Front(q) \in Seq(Names) /\ Last(q) \in Names /\ Append(Front(q), Last(q)) = q
      /\ Len(Front(q)) = Len(q) - 1 /\ \A k \in 1..(Len(q) - 1) : Front(q)[k] = q[k]
  BY <1>1, Fronted
<1> DEFINE f == Front(p)  g == ClipPath(f)  m == Len(p)
<1>4. g \in Seq(Names) /\ Len(g) = Len(f) /\ \A k \in 1..Len(f) : g[k] = Clip[f[k]]
  BY <1>2, ClipIs
<1>5. g = Front(q)
  <2>1. Len(g) = Len(Front(q)) /\ Len(g) = m - 1
    BY <1>1, <1>2, <1>3, <1>4
  <2>2. ASSUME NEW k \in 1..(m - 1) PROVE g[k] = Front(q)[k]
    <3>1. k \in 1..m /\ k \in 1..Len(f) /\ k \in 1..(Len(q) - 1)
      BY <1>1, <1>2
    <3>2. g[k] = Clip[f[k]] /\ f[k] = p[k] /\ q[k] = Clip[p[k]]
      BY <1>1, <1>2, <1>4, <3>1
    <3>3. Front(q)[k] = q[k]
      BY <1>3, <3>1
    <3> QED BY <3>2, <3>3
  <2> QED BY <1>3, <1>4, <2>1, <2>2, SeqEqual
<1>6. Leaf(p) = Last(q)
  <2>1. m \in 1..m
    BY <1>2
  <2> QED BY <1>1, <2>1 DEF Leaf, Last
<1>7. Len(f) <= m
  BY <1>2
<1> QED BY <1>1, <1>2, <1>3, <1>5, <1>6, <1>7 DEF q

(* FsTree resolves a path as the walk does.                                 *)
LEMMA ResolveIs ==
  ASSUME NEW e, NEW S, Sound(e, S), Distinct(e), NEW q
  PROVE  Fs!Resolve(TreeOn(e), q) = IF \E i : Reaches(e, q, i) THEN 0
                                    ELSE IF Blocked(e, q) THEN ENOTDIR ELSE ENOENT
<1>1. ASSUME NEW r, NEW i, Reaches(e, r, i)
      PROVE  Fs!Exists(TreeOn(e), r) /\ (Fs!IsDir(TreeOn(e), r) <=> e[i].type = "dir")
  BY <1>1, NodeIs1
<1>2. \A r : Fs!Exists(TreeOn(e), r) <=> \E i : Reaches(e, r, i)
  BY ExistsIs
<1>3. (\E n \in 0..Len(q) : Fs!Exists(TreeOn(e), SubSeq(q, 1, n)) /\ ~Fs!IsDir(TreeOn(e), SubSeq(q, 1, n)))
        <=> Blocked(e, q)
  BY <1>1, <1>2 DEF Blocked
<1> QED BY <1>2, <1>3 DEF Fs!Resolve, Fs!ENOTDIR, Fs!ENOENT, ENOTDIR, ENOENT

\* On the tree S of disk e, r is the node path q leads to, or FsTree's error for it.
Lookup(e, S, q, r) ==
  \/ r \in S /\ ~(r < 0) /\ Reaches(e, q, r) /\ Fs!Resolve(TreeOn(e), q) = 0
  \/ r < 0 /\ r # 0 /\ r = Fs!Resolve(TreeOn(e), q) /\ \A i : ~Reaches(e, q, i)

(* translate finds what a path leads to, if the path is not too long for it. *)
LEMMA TranslateIs ==
  ASSUME Image, NEW S, Sound(disk, S), Distinct(disk), NEW p \in Seq(Names), Len(p) <= MaxComponents
  PROVE  Lookup(disk, S, ClipPath(p), Translate(p))
<1> DEFINE q == ClipPath(p)  m == Len(p)
<1>1. q \in Seq(Names)
  BY ClipIs
<1>2. Translate(p) = Walk(q)
  <2>1. m \in Nat /\ MaxComponents \in Nat /\ ~(m > MaxComponents) /\ SubSeq(p, 1, m) = p
    BY ConstantFacts, SubSeqFull
  <2> QED BY <2>1 DEF Translate
<1>3. Resolved(disk, q, Walk(q))
  BY <1>1, WalkResolves
<1>4. Fs!Resolve(TreeOn(disk), q) = IF \E i : Reaches(disk, q, i) THEN 0
                                    ELSE IF Blocked(disk, q) THEN ENOTDIR ELSE ENOENT
  BY ResolveIs
<1> HIDE DEF q
<1>5. CASE Reaches(disk, q, Walk(q))
  <2>1. Walk(q) \in S
    BY <1>5, ReachesIn
  <2>2. ~(Walk(q) < 0)
    BY <2>1, NodesPositive
  <2> QED BY <1>2, <1>4, <1>5, <2>1, <2>2 DEF Lookup, q
<1>6. CASE (\A i : ~Reaches(disk, q, i)) /\ Walk(q) = IF Blocked(disk, q) THEN ENOTDIR ELSE ENOENT
  <2>1. ENOTDIR < 0 /\ ENOENT < 0 /\ ENOTDIR # 0 /\ ENOENT # 0
    BY DEF ENOTDIR, ENOENT
  <2> QED BY <1>2, <1>4, <1>6, <2>1 DEF Lookup, q
<1> QED BY <1>3, <1>5, <1>6 DEF Resolved

\* The same for the directory of the last component.
LookupFront(e, S, q, r) ==
  \/ /\ r \in S /\ ~(r < 0) /\ q # <<>> /\ Reaches(e, Front(q), r)
     /\ Fs!ResolveParent(TreeOn(e), q) = 0
  \/ r < 0 /\ r # 0 /\ r = Fs!ResolveParent(TreeOn(e), q)

(* Looking for the directory of the last component finds what the path      *)
(* without it leads to.                                                     *)
LEMMA ParentIs ==
  ASSUME Image, NEW S, Sound(disk, S), Distinct(disk), NEW p \in Seq(Names), Len(p) <= MaxComponents
  PROVE  LookupFront(disk, S, ClipPath(p), LookupParent(p))
<1>1. CASE p = <<>>
  <2>1. ClipPath(p) = <<>>
    BY <1>1, ClipIs
  <2>2. Fs!ResolveParent(TreeOn(disk), <<>>) = EINVAL
    BY DEF Fs!ResolveParent, Fs!EINVAL, EINVAL
  <2>3. LookupParent(p) = EINVAL /\ EINVAL < 0 /\ EINVAL # 0
    BY <1>1 DEF LookupParent, EINVAL
  <2> QED BY <2>1, <2>2, <2>3 DEF LookupFront
<1>2. CASE p # <<>>
  <2> DEFINE q == ClipPath(p)  f == Front(p)
  <2>1. /\ q # <<>> /\ f \in Seq(Names) /\ Len(f) <= Len(p) /\ ClipPath(f) = Front(q)
    BY <1>2, ClipParts
  <2>2. Len(f) <= MaxComponents
    <3>1. Len(f) \in Nat /\ Len(p) \in Nat /\ MaxComponents \in Nat
      BY <2>1, ConstantFacts
    <3> QED BY <2>1, <3>1
  <2> HIDE DEF q, f
  <2>3. Lookup(disk, S, Front(q), Translate(f))
    BY <2>1, <2>2, TranslateIs
  <2>4. LookupParent(p) = Translate(f)
    BY <1>2 DEF LookupParent, f
  <2>5. Fs!ResolveParent(TreeOn(disk), q) = Fs!Resolve(TreeOn(disk), Front(q))
    BY <2>1, Zenon DEF Fs!ResolveParent, Fs!Front, Front
  <2> QED BY <2>1, <2>3, <2>4, <2>5 DEF Lookup, LookupFront, q
<1> QED BY <1>1, <1>2
----------------------------------------------------------------------------
(* What a change of the disk does to the paths. *)

\* Inode i and the blocks it owns are on e what they are on d.
Intact(d, e, i) == e[i] = d[i] /\ \A b \in Owned(d, i) : e[b] = d[b]

(* What is intact owns the same, leads where it led and looks as it did;    *)
(* a directory looks so whatever entries it has.                            *)
LEMMA IntactSame ==
  ASSUME NEW d, NEW e, NEW S, Sound(d, S), NEW i \in S
  PROVE  /\ Intact(d, e, i) => \A n, j : Hop(e, i, n, j) <=> Hop(d, i, n, j)
         /\ Intact(d, e, i) => \A s \in Slots : i \in Dirs(d, S) => At(e, i, s) = At(d, i, s)
         /\ e[i] = d[i] /\ (i \in Dirs(d, S) \/ Intact(d, e, i)) => \A p : Shown(e, p, i) = Shown(d, p, i)
<1>0. d[i] \in InodeType
  BY DEF Sound, Inodes
<1>1. ASSUME i \in Dirs(d, S), Intact(d, e, i) PROVE \A s \in Slots : At(e, i, s) = At(d, i, s)
  <2>1. Head0(d, i) \in Owned(d, i) /\ Head0(e, i) = Head0(d, i)
    BY <1>1, HeadOfDir DEF Intact, Head0
  <2>2. e[Head0(e, i)] = d[Head0(d, i)]
    BY <1>1, <2>1 DEF Intact
  <2> QED BY <2>2 DEF At
<1>2. ASSUME Intact(d, e, i) PROVE \A n, j : Hop(e, i, n, j) <=> Hop(d, i, n, j)
  <2>1. CASE i \in Dirs(d, S)
    BY <1>1, <1>2, <2>1 DEF Hop, Intact
  <2>2. CASE i \notin Dirs(d, S)
    <3>1. d[i].type # "dir" /\ e[i].type # "dir"
      BY <1>2, <2>2 DEF Dirs, Intact
    <3> QED BY <3>1 DEF Hop
  <2> QED BY <2>1, <2>2
<1>3. ASSUME e[i] = d[i], i \in Dirs(d, S) \/ Intact(d, e, i), NEW p PROVE Shown(e, p, i) = Shown(d, p, i)
  <2>1. CASE d[i].type = "file"
    <3>1. Intact(d, e, i)
      BY <1>3, <2>1 DEF Dirs
    <3>2. d[i].size \in 0..MaxFile
      BY <1>0 DEF InodeType
    <3>3. ASSUME NEW j \in 1..d[i].size PROVE Byte(e, i, j) = Byte(d, i, j)
      <4>1. (j - 1) \div BlockSize \in Owns(d, i)
        BY <3>2, PtrOwned DEF Owns
      <4> DEFINE k == (j - 1) \div BlockSize
      <4> HIDE DEF k
      <4>2. d[i].ptrs[k] \in Owned(d, i)
        BY <4>1 DEF Owned, k
      <4>3. e[d[i].ptrs[k]] = d[d[i].ptrs[k]]
        BY <3>1, <4>2 DEF Intact
      <4>4. BytesOf(e, e[i].ptrs[k]) = BytesOf(d, d[i].ptrs[k])
        BY <1>3, <4>3 DEF BytesOf
      <4> QED BY <4>4 DEF Byte, k
    <3>4. Text(e, i) = Text(d, i)
      BY <1>3, <3>3 DEF Text
    <3> QED BY <1>3, <3>4 DEF Shown
  <2>2. CASE d[i].type # "file"
    BY <1>3, <2>2 DEF Shown
  <2> QED BY <2>1, <2>2
<1> QED BY <1>1, <1>2, <1>3

(* Where the nodes that are reached lead to the same, the same are reached. *)
LEMMA ReachesSame ==
  ASSUME NEW d, NEW e, \A q, k : Reaches(d, q, k) => \A n, j : Hop(e, k, n, j) <=> Hop(d, k, n, j)
  PROVE  \A q, j : Reaches(e, q, j) <=> Reaches(d, q, j)
<1> DEFINE X == {q \in Seq(Names) : \A j : Reaches(e, q, j) <=> Reaches(d, q, j)}
<1>1. <<>> \in X
  <2>1. <<>> \in Seq(Names)
    OBVIOUS
  <2> QED BY <2>1, ReachesRoot
<1>2. ASSUME NEW q \in Seq(Names), NEW n \in Names, q \in X PROVE Append(q, n) \in X
  <2>1. \A j : Reaches(e, Append(q, n), j) <=> \E i : Reaches(e, q, i) /\ Hop(e, i, n, j)
    BY ReachesOn
  <2>2. \A j : Reaches(d, Append(q, n), j) <=> \E i : Reaches(d, q, i) /\ Hop(d, i, n, j)
    BY ReachesOn
  <2>3. Append(q, n) \in Seq(Names)
    BY Appended
  <2> QED BY <1>2, <2>1, <2>2, <2>3
<1> HIDE DEF X
<1>3. Seq(Names) \subseteq X
  BY <1>1, <1>2, Growth
<1> QED BY <1>3 DEF X, Reaches

\* Disk e is disk d where its tree is.
Alike(d, e, S) == \A b \in Space : b \in Taken(d, S) => e[b] = d[b]

(* Two disks with the same nodes and entries have the same tree of paths.   *)
LEMMA AlikeTree ==
  ASSUME NEW d, NEW e, NEW S, Sound(d, S), Alike(d, e, S)
  PROVE  TreeOn(e) = TreeOn(d) /\ (Distinct(d) => Distinct(e))
<1>1. ASSUME NEW i \in S PROVE Intact(d, e, i)
  BY TakenAre DEF Alike, Intact
<1>2. \A q, k : Reaches(d, q, k) => \A n, j : Hop(e, k, n, j) <=> Hop(d, k, n, j)
  BY <1>1, ReachesIn, IntactSame
<1>3. \A q, j : Reaches(e, q, j) <=> Reaches(d, q, j)
  BY <1>2, ReachesSame
<1>4. ASSUME NEW q, NEW j, Reaches(d, q, j) PROVE Shown(e, q, j) = Shown(d, q, j)
  <2>1. j \in S
    BY <1>4, ReachesIn
  <2> QED BY <1>1, <2>1, IntactSame DEF Intact
<1>5. TreeOn(e) = TreeOn(d)
  <2> DEFINE R == {y \in Seq(Names) \X Space : Reaches(d, y[1], y[2])}
             Q == {y \in Seq(Names) \X Space : Reaches(e, y[1], y[2])}
  <2>1. Q = R
    BY <1>3
  <2>2. \A y \in R : Shown(e, y[1], y[2]) = Shown(d, y[1], y[2])
    BY <1>4
  <2>3. TreeOn(e) = {Shown(e, y[1], y[2]) : y \in Q} /\ TreeOn(d) = {Shown(d, y[1], y[2]) : y \in R}
    BY Zenon DEF TreeOn
  <2> HIDE DEF R, Q
  <2> QED BY <2>1, <2>2, <2>3
<1>6. ASSUME Distinct(d) PROVE Distinct(e)
  <2>1. ASSUME NEW p, NEW i, Reaches(e, p, i), e[i].type = "dir"
        PROVE  \A s, t \in Slots : At(e, i, s) # NULL /\ At(e, i, t) # NULL /\ At(e, i, s).name = At(e, i, t).name
                 => s = t
    <3>1. Reaches(d, p, i) /\ i \in S
      BY <1>3, <2>1, ReachesIn
    <3>2. Intact(d, e, i)
      BY <1>1, <3>1
    <3>3. d[i].type = "dir" /\ i \in Dirs(d, S)
      BY <2>1, <3>1, <3>2 DEF Intact, Dirs
    <3>4. \A s \in Slots : At(e, i, s) = At(d, i, s)
      BY <3>1, <3>2, <3>3, IntactSame
    <3> QED BY <1>6, <3>1, <3>3, <3>4 DEF Distinct
  <2> QED BY <2>1 DEF Distinct
<1> QED BY <1>5, <1>6

\* Disk e has an entry with name n in directory i to node v, which leads
\* nowhere and which nothing leads to on d.
OneMore(d, e, i, n, v) ==
  /\ \A q, k : Reaches(d, q, k)
       => k # v /\ \A m, j : Hop(e, k, m, j) <=> Hop(d, k, m, j) \/ (k = i /\ m = n /\ j = v)
  /\ \A m, j : ~Hop(e, v, m, j)
\* The path by way of that entry.
Through(d, i, n, v, q, j) == j = v /\ \E p \in Seq(Names) : n \in Names /\ q = Append(p, n) /\ Reaches(d, p, i)

(* A new entry to a node that leads nowhere adds one path.                  *)
LEMMA ReachesMore ==
  ASSUME NEW d, NEW e, NEW i, NEW n, NEW v, OneMore(d, e, i, n, v)
  PROVE  \A q, j : Reaches(e, q, j) <=> Reaches(d, q, j) \/ Through(d, i, n, v, q, j)
<1> DEFINE New(q, j) == j = v /\ \E p \in Seq(Names) : n \in Names /\ q = Append(p, n) /\ Reaches(d, p, i)
           X == {q \in Seq(Names) : \A j : Reaches(e, q, j) <=> Reaches(d, q, j) \/ New(q, j)}
<1>0. /\ \A q, k : Reaches(d, q, k)
           => k # v /\ \A m, j : Hop(e, k, m, j) <=> Hop(d, k, m, j) \/ (k = i /\ m = n /\ j = v)
      /\ \A m, j : ~Hop(e, v, m, j)
  BY DEF OneMore
<1>1. <<>> \in X
  <2>1. <<>> \in Seq(Names)
    OBVIOUS
  <2>2. \A j : ~New(<<>>, j)
    BY Appended
  <2> HIDE DEF New
  <2> QED BY <2>1, <2>2, ReachesRoot
<1>2. ASSUME NEW q \in Seq(Names), NEW m \in Names, q \in X PROVE Append(q, m) \in X
  <2> DEFINE r == Append(q, m)
  <2>1. \A j : Reaches(e, r, j) <=> \E k : Reaches(e, q, k) /\ Hop(e, k, m, j)
    BY ReachesOn
  <2>2. \A j : Reaches(d, r, j) <=> \E k : Reaches(d, q, k) /\ Hop(d, k, m, j)
    BY ReachesOn
  <2>3. \A j : New(r, j) <=> j = v /\ m = n /\ Reaches(d, q, i)
    <3>1. ASSUME NEW p \in Seq(Names), n \in Names, r = Append(p, n) PROVE p = q /\ n = m
      BY <3>1, Appended
    <3> QED BY <3>1
  <2>4. \A k : Reaches(e, q, k) <=> Reaches(d, q, k) \/ New(q, k)
    BY <1>2
  <2>5. \A k : New(q, k) => k = v
    OBVIOUS
  <2> HIDE DEF New
  <2>6. r \in Seq(Names)
    BY Appended
  <2> HIDE DEF r, X
  <2>7. ASSUME NEW j, Reaches(e, r, j) PROVE Reaches(d, r, j) \/ New(r, j)
    <3>1. PICK k : Reaches(e, q, k) /\ Hop(e, k, m, j)
      BY <2>1, <2>7
    <3>2. Reaches(d, q, k)
      BY <1>0, <2>4, <2>5, <3>1
    <3>3. Hop(d, k, m, j) \/ (k = i /\ m = n /\ j = v)
      BY <1>0, <3>1, <3>2
    <3> QED BY <2>2, <2>3, <3>2, <3>3
  <2>8. ASSUME NEW j, Reaches(d, r, j) PROVE Reaches(e, r, j)
    <3>1. PICK k : Reaches(d, q, k) /\ Hop(d, k, m, j)
      BY <2>2, <2>8
    <3>2. Reaches(e, q, k) /\ Hop(e, k, m, j)
      BY <1>0, <2>4, <3>1
    <3> QED BY <2>1, <3>2
  <2>9. ASSUME NEW j, New(r, j) PROVE Reaches(e, r, j)
    <3>1. Reaches(d, q, i) /\ j = v /\ m = n
      BY <2>3, <2>9
    <3>2. Reaches(e, q, i) /\ Hop(e, i, m, j)
      BY <1>0, <2>4, <3>1
    <3> QED BY <2>1, <3>2
  <2> QED BY <2>6, <2>7, <2>8, <2>9 DEF X, r
<1>3. ASSUME NEW q, NEW j, Reaches(e, q, j) \/ Reaches(d, q, j) \/ New(q, j) PROVE q \in Seq(Names)
  BY <1>3, Appended DEF Reaches
<1> HIDE DEF X, New
<1>4. Seq(Names) \subseteq X
  BY <1>1, <1>2, Growth
<1>5. \A q, j : Reaches(e, q, j) <=> Reaches(d, q, j) \/ New(q, j)
  BY <1>3, <1>4 DEF X
<1> QED BY <1>5 DEF New, Through

(* What is the same on a disk that differs in the entries of a directory.   *)
LEMMA BesidesIntact ==
  ASSUME NEW d, NEW e, NEW S, Sound(d, S), NEW i \in Dirs(d, S), Besides(d, e, S, i)
  PROVE  /\ \A j \in S : e[j] = d[j] /\ (j # i => Intact(d, e, j))
         /\ \A j \in S : \A p : Shown(e, p, j) = Shown(d, p, j)
         /\ \A j \in S : j # i => \A n, k : Hop(e, j, n, k) <=> Hop(d, j, n, k)
<1>1. \A j \in S : e[j] = d[j]
  BY BesidesSame
<1>2. ASSUME NEW j \in S, j # i PROVE Intact(d, e, j)
  <2>1. Head0(d, i) \in Owned(d, i) /\ i \in S
    BY TakenAre
  <2>2. Head0(d, i) \notin Owned(d, j)
    BY <1>2, <2>1, TakenAre
  <2>3. \A b \in Owned(d, j) : b \in Space /\ b \in Taken(d, S)
    BY TakenAre
  <2> QED BY <1>1, <2>2, <2>3 DEF Besides, Intact
<1>3. ASSUME NEW j \in S PROVE \A p : Shown(e, p, j) = Shown(d, p, j)
  BY <1>1, <1>2, IntactSame
<1> QED BY <1>1, <1>2, <1>3, IntactSame

(* A node and the entry that leads to it: one node more in the tree.        *)
LEMMA TreeAdded ==
  ASSUME NEW d, NEW e, NEW S, Sound(d, S), Distinct(d), NEW i \in Dirs(d, S), Besides(d, e, S, i),
         NEW v \in Space, v \notin Taken(d, S), Fresh(e, v), Apart(d, e, S, v),
         NEW s \in Slots, Enters(d, e, i, s, v), NEW n \in Names, At(e, i, s) # NULL, At(e, i, s).name = n,
         \A j : ~Hop(d, i, n, j), NEW p, Reaches(d, p, i)
  PROVE  /\ Distinct(e)
         /\ \A q, j : Reaches(e, q, j) <=> Reaches(d, q, j) \/ (q = Append(p, n) /\ j = v)
         /\ \A x : x \in TreeOn(e) <=> x \in TreeOn(d) \/ x = Shown(e, Append(p, n), v)
<1>a. /\ \A j \in S : e[j] = d[j] /\ (j # i => Intact(d, e, j))
      /\ \A j \in S : \A q : Shown(e, q, j) = Shown(d, q, j)
      /\ \A j \in S : j # i => \A m, k : Hop(e, j, m, k) <=> Hop(d, j, m, k)
  BY BesidesIntact
<1>b. /\ Dirs(e, S) = Dirs(d, S)
      /\ \A j \in Dirs(d, S) : j # i => \A t \in Slots : At(e, j, t) = At(d, j, t)
  BY BesidesSame
<1>0. p \in Seq(Names) /\ i \in S /\ v \notin S /\ e[i].type = "dir" /\ d[i].type = "dir"
  <2>1. i \in S /\ d[i].type = "dir" /\ e[i].type = "dir"
    BY <1>a DEF Dirs
  <2>2. v \notin S
    BY DEF Taken
  <2> QED BY <2>1, <2>2 DEF Reaches
<1>1. ASSUME NEW m, NEW j PROVE ~Hop(e, v, m, j)
  BY DEF Hop, Fresh
<1>2. ASSUME NEW m, NEW j PROVE Hop(e, i, m, j) <=> Hop(d, i, m, j) \/ (m = n /\ j = v)
  BY <1>0 DEF Hop, Enters
<1>3. ASSUME NEW q, NEW k, Reaches(d, q, k)
      PROVE  k # v /\ \A m, j : Hop(e, k, m, j) <=> Hop(d, k, m, j) \/ (k = i /\ m = n /\ j = v)
  <2>1. k \in S
    BY <1>3, ReachesIn
  <2>2. CASE k = i
    BY <1>0, <1>2, <2>1, <2>2
  <2>3. CASE k # i
    BY <1>0, <2>1, <2>3, BesidesIntact
  <2> QED BY <2>2, <2>3
<1>4. \A q, j : Reaches(e, q, j) <=> Reaches(d, q, j) \/ Through(d, i, n, v, q, j)
  <2>1. \A q, k : Reaches(d, q, k)
          => k # v /\ \A m, j : Hop(e, k, m, j) <=> Hop(d, k, m, j) \/ (k = i /\ m = n /\ j = v)
    BY <1>3
  <2>2. \A m, j : ~Hop(e, v, m, j)
    BY <1>1
  <2>3. OneMore(d, e, i, n, v)
    BY <2>1, <2>2 DEF OneMore
  <2> QED BY <2>3, ReachesMore
<1>5. \A r : Reaches(d, r, i) <=> r = p
  BY PathUnique
<1>6. \A q, j : Reaches(e, q, j) <=> Reaches(d, q, j) \/ (q = Append(p, n) /\ j = v)
  BY <1>0, <1>4, <1>5 DEF Through
<1>7. Sound(e, S \cup {v})
  BY NodeAdded
<1>8. ASSUME NEW x PROVE x \in TreeOn(e) <=> x \in TreeOn(d) \/ x = Shown(e, Append(p, n), v)
  <2>1. x \in TreeOn(e) <=> \E q, j : Reaches(e, q, j) /\ x = Shown(e, q, j)
    BY <1>7, TreeNodes
  <2>2. x \in TreeOn(d) <=> \E q, j : Reaches(d, q, j) /\ x = Shown(d, q, j)
    BY TreeNodes
  <2>3. \A q, j : Reaches(d, q, j) => Shown(e, q, j) = Shown(d, q, j)
    BY ReachesIn, <1>a
  <2>4. ASSUME x \in TreeOn(e) PROVE x \in TreeOn(d) \/ x = Shown(e, Append(p, n), v)
    <3>1. PICK q, j : Reaches(e, q, j) /\ x = Shown(e, q, j)
      BY <2>1, <2>4
    <3>2. CASE Reaches(d, q, j)
      BY <2>2, <2>3, <3>1, <3>2
    <3> QED BY <1>6, <3>1, <3>2
  <2>5. ASSUME x \in TreeOn(d) PROVE x \in TreeOn(e)
    <3>1. PICK q, j : Reaches(d, q, j) /\ x = Shown(d, q, j)
      BY <2>2, <2>5
    <3> QED BY <1>6, <2>1, <2>3, <3>1
  <2>6. ASSUME x = Shown(e, Append(p, n), v) PROVE x \in TreeOn(e)
    <3>1. Reaches(e, Append(p, n), v)
      BY <1>6
    <3> QED BY <2>1, <2>6, <3>1
  <2> QED BY <2>4, <2>5, <2>6
<1>9. Distinct(e)
  <2>1. ASSUME NEW q, NEW k, Reaches(e, q, k), e[k].type = "dir", NEW a \in Slots, NEW b \in Slots,
               At(e, k, a) # NULL, At(e, k, b) # NULL, At(e, k, a).name = At(e, k, b).name
        PROVE  a = b
    <3>1. CASE k = v
      BY <2>1, <3>1 DEF Fresh
    <3>2. CASE k # v /\ k # i
      <4>1. Reaches(d, q, k) /\ k \in S
        BY <1>6, <2>1, <3>2, ReachesIn
      <4>2. d[k].type = "dir" /\ k \in Dirs(d, S)
        BY <2>1, <4>1, BesidesIntact DEF Dirs
      <4>3. \A t \in Slots : At(e, k, t) = At(d, k, t)
        BY <3>2, <4>2, <1>b
      <4> QED BY <2>1, <4>1, <4>2, <4>3 DEF Distinct
    <3>3. CASE k = i
      <4>1. \A t \in Slots : t # s /\ At(d, i, t) # NULL => At(d, i, t).name # n
        BY <1>0 DEF Hop
      <4>2. \A t \in Slots : t # s => At(e, i, t) = At(d, i, t)
        BY DEF Enters
      <4>3. CASE a = s \/ b = s
        BY <2>1, <3>3, <4>1, <4>2, <4>3
      <4>4. CASE a # s /\ b # s
        BY <1>0, <2>1, <3>3, <4>2, <4>4 DEF Distinct
      <4> QED BY <4>3, <4>4
    <3> QED BY <3>1, <3>2, <3>3
  <2> QED BY <2>1 DEF Distinct
<1> QED BY <1>6, <1>8, <1>9

\* Without entry s of directory i, which leads to a file or an empty directory.
Drops(d, e, S, i, s, n, v) ==
  /\ At(d, i, s) # NULL /\ At(d, i, s).name = n /\ At(d, i, s).inode = v /\ At(e, i, s) = NULL
  /\ \A t \in Slots : t # s => At(e, i, t) = At(d, i, t)
  /\ v \in Dirs(d, S) => \A t \in Slots : At(d, v, t) = NULL
\* The tree on e is that on d without path q.
Lacks(d, e, q) == Distinct(e) /\ \A x : x \in TreeOn(e) <=> x \in TreeOn(d) /\ x.path # q

(* Without the entry to a node that leads nowhere: one node less.           *)
LEMMA TreeRemoved ==
  ASSUME NEW d, NEW e, NEW S, Sound(d, S), Distinct(d), NEW i \in Dirs(d, S), Besides(d, e, S, i),
         NEW s \in Slots, NEW n, NEW v, Drops(d, e, S, i, s, n, v), NEW p, Reaches(d, p, i)
  PROVE  Lacks(d, e, Append(p, n))
<1>d. /\ At(d, i, s) # NULL /\ At(d, i, s).name = n /\ At(d, i, s).inode = v /\ At(e, i, s) = NULL
      /\ \A t \in Slots : t # s => At(e, i, t) = At(d, i, t)
      /\ v \in Dirs(d, S) => \A t \in Slots : At(d, v, t) = NULL
  BY DEF Drops
<1>a. /\ \A j \in S : e[j] = d[j] /\ (j # i => Intact(d, e, j))
      /\ \A j \in S : \A q : Shown(e, q, j) = Shown(d, q, j)
      /\ \A j \in S : j # i => \A m, k : Hop(e, j, m, k) <=> Hop(d, j, m, k)
  BY BesidesIntact
<1>b. /\ Dirs(e, S) = Dirs(d, S)
      /\ \A j \in Dirs(d, S) : j # i => \A t \in Slots : At(e, j, t) = At(d, j, t)
  BY BesidesSame
<1>0. /\ p \in Seq(Names) /\ i \in S /\ e[i].type = "dir" /\ d[i].type = "dir"
      /\ n \in Names /\ v \in S \ {Root} /\ Hop(d, i, n, v)
  <2>1. i \in S /\ d[i].type = "dir" /\ e[i].type = "dir"
    BY <1>a DEF Dirs
  <2>2. Hop(d, i, n, v)
    BY <1>d, <2>1 DEF Hop
  <2> QED BY <2>1, <2>2, HopIs DEF Reaches
<1>1. \A t \in Slots : At(e, i, t) # NULL => At(d, i, t) # NULL /\ At(e, i, t).inode = At(d, i, t).inode
  BY <1>d
<1>2. Sound(e, S)
  BY <1>1, DirChanged
<1>3. \A j \in Dirs(e, S), t \in Slots : At(e, j, t) # NULL => At(e, j, t).inode # v
  <2>1. ASSUME NEW j \in Dirs(e, S), NEW t \in Slots, At(e, j, t) # NULL PROVE At(e, j, t).inode # v
    <3>1. j \in Dirs(d, S)
      BY BesidesSame
    <3>2. (j # i \/ t # s) /\ At(e, j, t) = At(d, j, t)
      BY <1>d, <2>1, <3>1, BesidesSame
    <3>3. At(d, j, t).inode = v => j = i /\ t = s
      BY <1>d, <2>1, <3>1, <3>2 DEF Sound, Linked
    <3> QED BY <3>2, <3>3
  <2> QED BY <2>1
<1>4. Sound(e, S \ {v})
  BY <1>0, <1>2, <1>3, Smaller
<1>5. ASSUME NEW m, NEW j PROVE ~Hop(d, v, m, j)
  BY <1>d, <1>0 DEF Hop, Dirs
<1>6. ASSUME NEW q, NEW k, Reaches(e, q, k)
      PROVE  k # v /\ \A m, j : Hop(d, k, m, j) <=> Hop(e, k, m, j) \/ (k = i /\ m = n /\ j = v)
  <2>1. k \in S \ {v}
    BY <1>4, <1>6, ReachesIn
  <2>2. CASE k = i
    BY <1>d, <1>0, <2>1, <2>2 DEF Hop
  <2>3. CASE k # i
    BY <2>1, <2>3, BesidesIntact
  <2> QED BY <2>1, <2>2, <2>3
<1>7. \A q, j : Reaches(d, q, j) <=> Reaches(e, q, j) \/ Through(e, i, n, v, q, j)
  <2>1. \A q, k : Reaches(e, q, k)
          => k # v /\ \A m, j : Hop(d, k, m, j) <=> Hop(e, k, m, j) \/ (k = i /\ m = n /\ j = v)
    BY <1>6
  <2>2. \A m, j : ~Hop(d, v, m, j)
    BY <1>5
  <2>3. OneMore(e, d, i, n, v)
    BY <2>1, <2>2 DEF OneMore
  <2> QED BY <2>3, ReachesMore
<1>8. \A r : Reaches(e, r, i) => r = p
  BY <1>7, PathUnique DEF Through
<1>9. Reaches(d, Append(p, n), v)
  BY <1>0, ReachesOn
<1>10. \A q, j : Reaches(e, q, j) <=> Reaches(d, q, j) /\ q # Append(p, n)
  <2>1. ASSUME NEW q, NEW j, Reaches(e, q, j) PROVE Reaches(d, q, j) /\ q # Append(p, n)
    <3>1. Reaches(d, q, j) /\ j # v
      BY <1>6, <1>7, <2>1
    <3> QED BY <1>9, <3>1, NodeUnique
  <2>2. ASSUME NEW q, NEW j, Reaches(d, q, j), q # Append(p, n) PROVE Reaches(e, q, j)
    BY <1>7, <1>8, <2>2 DEF Through
  <2> QED BY <2>1, <2>2
<1>11. ASSUME NEW x PROVE x \in TreeOn(e) <=> x \in TreeOn(d) /\ x.path # Append(p, n)
  <2>1. x \in TreeOn(e) <=> \E q, j : Reaches(e, q, j) /\ x = Shown(e, q, j)
    BY <1>2, TreeNodes
  <2>2. x \in TreeOn(d) <=> \E q, j : Reaches(d, q, j) /\ x = Shown(d, q, j)
    BY TreeNodes
  <2>3. \A q, j : Reaches(d, q, j) => Shown(e, q, j) = Shown(d, q, j)
    BY ReachesIn, <1>a
  <2>4. \A q, j : Shown(d, q, j).path = q
    BY DEF Shown
  <2> QED BY <1>10, <2>1, <2>2, <2>3, <2>4
<1>12. Distinct(e)
  <2>1. ASSUME NEW q, NEW k, Reaches(e, q, k), e[k].type = "dir"
        PROVE  /\ Reaches(d, q, k) /\ d[k].type = "dir"
               /\ \A t \in Slots : At(e, k, t) # NULL => At(e, k, t) = At(d, k, t)
    <3>1. Reaches(d, q, k) /\ k \in S
      BY <1>10, <2>1, ReachesIn
    <3>2. d[k].type = "dir" /\ k \in Dirs(d, S)
      BY <2>1, <3>1, BesidesIntact DEF Dirs
    <3>3. CASE k = i
      BY <1>d, <3>1, <3>2, <3>3
    <3>4. CASE k # i
      BY <3>1, <3>2, <3>4, <1>b
    <3> QED BY <3>3, <3>4
  <2>2. ASSUME NEW q, NEW k, Reaches(e, q, k), e[k].type = "dir", NEW a \in Slots, NEW c \in Slots,
               At(e, k, a) # NULL, At(e, k, c) # NULL, At(e, k, a).name = At(e, k, c).name
        PROVE  a = c
    <3>1. Reaches(d, q, k) /\ d[k].type = "dir" /\ At(e, k, a) = At(d, k, a) /\ At(e, k, c) = At(d, k, c)
      BY <2>1, <2>2
    <3> QED BY <2>2, <3>1 DEF Distinct
  <2> QED BY <2>2 DEF Distinct
<1> QED BY <1>11, <1>12 DEF Lacks

(* A file that is rewritten: its node changes and no other.                 *)
LEMMA TreeRefiled ==
  ASSUME NEW d, NEW e, NEW S, Sound(d, S), Distinct(d), NEW i \in S \ Dirs(d, S), Sound(e, S),
         e[i].type = "file",
         \A b \in Space : b \in Taken(d, S) /\ b # i /\ b \notin Owned(d, i) => e[b] = d[b],
         NEW p, Reaches(d, p, i)
  PROVE  /\ Distinct(e)
         /\ \A q, j : Reaches(e, q, j) <=> Reaches(d, q, j)
         /\ \A x : x \in TreeOn(e) <=> (x \in TreeOn(d) /\ x.path # p) \/ x = Shown(e, p, i)
<1>1. ASSUME NEW j \in S, j # i PROVE Intact(d, e, j)
  <2>1. /\ j \in Space /\ j \in Taken(d, S) /\ j \notin Owned(d, i)
        /\ \A b \in Owned(d, j) : b \in Space /\ b \in Taken(d, S) /\ b # i /\ b \notin Owned(d, i)
    BY <1>1, TakenAre
  <2> QED BY <1>1, <2>1 DEF Intact
<1>2. d[i].type # "dir" /\ e[i].type # "dir"
  BY DEF Dirs
<1>3. ASSUME NEW k \in S PROVE \A n, j : Hop(e, k, n, j) <=> Hop(d, k, n, j)
  <2>1. CASE k = i
    BY <1>2, <2>1 DEF Hop
  <2>2. CASE k # i
    BY <1>1, <2>2, IntactSame
  <2> QED BY <2>1, <2>2
<1>4. \A q, k : Reaches(d, q, k) => \A n, j : Hop(e, k, n, j) <=> Hop(d, k, n, j)
  BY <1>3, ReachesIn
<1>5. \A q, j : Reaches(e, q, j) <=> Reaches(d, q, j)
  BY <1>4, ReachesSame
<1>6. ASSUME NEW x PROVE x \in TreeOn(e) <=> (x \in TreeOn(d) /\ x.path # p) \/ x = Shown(e, p, i)
  <2>1. x \in TreeOn(e) <=> \E q, j : Reaches(e, q, j) /\ x = Shown(e, q, j)
    BY TreeNodes
  <2>2. x \in TreeOn(d) <=> \E q, j : Reaches(d, q, j) /\ x = Shown(d, q, j)
    BY TreeNodes
  <2>3. ASSUME NEW q, NEW j, Reaches(d, q, j), q # p PROVE Shown(e, q, j) = Shown(d, q, j)
    <3>1. j \in S /\ j # i
      BY <2>3, PathUnique, ReachesIn
    <3>2. Intact(d, e, j) /\ e[j] = d[j]
      BY <1>1, <3>1 DEF Intact
    <3> QED BY <3>1, <3>2, IntactSame
  <2>4. \A q, j : Shown(d, q, j).path = q /\ Shown(e, q, j).path = q
    BY DEF Shown
  <2>5. \A j : Reaches(d, p, j) => j = i
    BY NodeUnique
  <2> QED BY <1>5, <2>1, <2>2, <2>3, <2>4, <2>5
<1>7. Distinct(e)
  <2>1. ASSUME NEW q, NEW k, Reaches(e, q, k), e[k].type = "dir", NEW a \in Slots, NEW c \in Slots,
               At(e, k, a) # NULL, At(e, k, c) # NULL, At(e, k, a).name = At(e, k, c).name
        PROVE  a = c
    <3>1. Reaches(d, q, k) /\ k \in S /\ k # i
      BY <1>2, <1>5, <2>1, ReachesIn
    <3>2. Intact(d, e, k)
      BY <1>1, <3>1
    <3>3. d[k].type = "dir" /\ k \in Dirs(d, S)
      BY <2>1, <3>1, <3>2 DEF Intact, Dirs
    <3>4. At(e, k, a) = At(d, k, a) /\ At(e, k, c) = At(d, k, c)
      BY <3>1, <3>2, <3>3, IntactSame
    <3> QED BY <2>1, <3>1, <3>3, <3>4 DEF Distinct
  <2> QED BY <2>1 DEF Distinct
<1> QED BY <1>5, <1>6, <1>7

\* Where path q goes when "from" becomes "to".
Renamed(q, from, to) == IF IsPrefix(from, q) THEN to \o SubSeq(q, Len(from) + 1, Len(q)) ELSE q

(* It has as many components and changes where "from" was.                  *)
LEMMA RenamedIs ==
  ASSUME NEW T, NEW q \in Seq(T), NEW from \in Seq(T), NEW to \in Seq(T), Len(to) = Len(from)
  PROVE  /\ IsPrefix(from, q) <=> Len(from) <= Len(q) /\ \A k \in 1..Len(from) : from[k] = q[k]
         /\ Renamed(q, from, to) \in Seq(T) /\ Len(Renamed(q, from, to)) = Len(q)
         /\ \A k \in 1..Len(q) : Renamed(q, from, to)[k] = IF IsPrefix(from, q) /\ k <= Len(from) THEN to[k] ELSE q[k]
<1> DEFINE m == Len(from)  l == Len(q)
<1>1. m \in Nat /\ l \in Nat /\ Len(to) = m
  OBVIOUS
<1>2. /\ \A k \in 1..m : from[k] \in T /\ to[k] \in T
      /\ \A k \in 1..l : q[k] \in T
  OBVIOUS
<1> HIDE DEF m, l
<1>3. ASSUME m <= l PROVE SubSeq(from, 1, m) = SubSeq(q, 1, m) <=> \A k \in 1..m : from[k] = q[k]
  <2>1. \A k \in 1..m : from[k] \in T /\ q[k] \in T
    BY <1>1, <1>2, <1>3
  <2>2. /\ SubSeq(from, 1, m) \in Seq(T) /\ Len(SubSeq(from, 1, m)) = m
        /\ SubSeq(q, 1, m) \in Seq(T) /\ Len(SubSeq(q, 1, m)) = m
        /\ \A k \in 1..m : SubSeq(from, 1, m)[k] = from[k] /\ SubSeq(q, 1, m)[k] = q[k]
    BY <1>1, <2>1, SubSeqProperties
  <2>3. ASSUME \A k \in 1..m : from[k] = q[k] PROVE SubSeq(from, 1, m) = SubSeq(q, 1, m)
    <3>1. \A k \in 1..m : SubSeq(from, 1, m)[k] = SubSeq(q, 1, m)[k]
      BY <2>2, <2>3
    <3> QED BY <2>2, <3>1, SeqEqual
  <2> QED BY <2>2, <2>3
<1>4. IsPrefix(from, q) <=> m <= l /\ \A k \in 1..m : from[k] = q[k]
  BY <1>3 DEF IsPrefix, m, l
<1> DEFINE r == Renamed(q, from, to)
<1>5. r \in Seq(T) /\ Len(r) = l /\ \A k \in 1..l : r[k] = IF IsPrefix(from, q) /\ k <= m THEN to[k] ELSE q[k]
  <2>1. CASE IsPrefix(from, q)
    <3> DEFINE t == SubSeq(q, m + 1, l)
    <3>1. m <= l /\ m + 1 \in Int /\ l \in Int /\ \A k \in (m + 1)..l : q[k] \in T
      BY <1>1, <1>2, <1>4, <2>1
    <3>2. /\ t \in Seq(T) /\ Len(t) = IF m + 1 <= l THEN l - (m + 1) + 1 ELSE 0
          /\ \A k \in 1..(l - (m + 1) + 1) : t[k] = q[m + 1 + k - 1]
      BY <3>1, SubSeqProperties
    <3> HIDE DEF t
    <3>3. Len(t) = l - m
      BY <1>1, <3>1, <3>2
    <3>4. \A k \in 1..(l - m) : t[k] = q[m + k]
      <4> TAKE k \in 1..(l - m)
      <4>1. k \in 1..(l - (m + 1) + 1) /\ m + 1 + k - 1 = m + k
        BY <1>1, <3>1
      <4> QED BY <3>2, <4>1
    <3>5. r = to \o t
      BY <2>1 DEF Renamed, t, m, l
    <3>6. /\ to \o t \in Seq(T) /\ Len(to \o t) = Len(to) + Len(t)
          /\ \A k \in 1..(Len(to) + Len(t)) : (to \o t)[k] = IF k <= Len(to) THEN to[k] ELSE t[k - Len(to)]
      BY <3>2, ConcatProperties
    <3>7. Len(r) = l
      BY <1>1, <3>1, <3>3, <3>5, <3>6
    <3>8. ASSUME NEW k \in 1..l PROVE r[k] = IF k <= m THEN to[k] ELSE q[k]
      <4>1. k \in 1..(Len(to) + Len(t))
        BY <1>1, <3>1, <3>3
      <4>2. r[k] = IF k <= m THEN to[k] ELSE t[k - m]
        BY <1>1, <3>5, <3>6, <4>1
      <4>3. ASSUME ~(k <= m) PROVE t[k - m] = q[k]
        <5>1. k - m \in 1..(l - m) /\ m + (k - m) = k
          BY <1>1, <3>1, <4>3
        <5> QED BY <3>4, <5>1
      <4> QED BY <4>2, <4>3
    <3> QED BY <2>1, <3>5, <3>6, <3>7, <3>8
  <2>2. CASE ~IsPrefix(from, q)
    BY <1>1, <2>2 DEF Renamed, l
  <2> QED BY <2>1, <2>2
<1> QED BY <1>4, <1>5 DEF m, l

\* Renaming the last component of Append(p, n) to m changes nothing else.
RenamesOnly(p, n, m) ==
  LET New(q) == Renamed(q, Append(p, n), Append(p, m)) IN
  /\ New(<<>>) = <<>> /\ New(p) = p /\ New(Append(p, n)) = Append(p, m)
  /\ \A r \in Seq(Names), x \in Names :
       /\ New(r) \in Seq(Names)
       /\ Append(r, x) # Append(p, n) => New(Append(r, x)) = Append(New(r), x)

(* Renaming is done component by component: only the last one of the old    *)
(* path changes.                                                            *)
LEMMA RenamedOn ==
  ASSUME NEW p \in Seq(Names), NEW n \in Names, NEW m \in Names
  PROVE  RenamesOnly(p, n, m)
<1> DEFINE P == Append(p, n)  Q == Append(p, m)  c == Len(p) + 1  New(q) == Renamed(q, P, Q)
<1>1. /\ P \in Seq(Names) /\ Q \in Seq(Names) /\ Len(P) = c /\ Len(Q) = c /\ c \in Nat /\ c # 0 /\ c - 1 = Len(p)
      /\ Len(p) \in Nat
  BY Appended
<1> HIDE DEF P, Q, c
<1>2. ASSUME NEW q \in Seq(Names)
      PROVE  /\ IsPrefix(P, q) <=> c <= Len(q) /\ \A k \in 1..c : P[k] = q[k]
             /\ New(q) \in Seq(Names) /\ Len(New(q)) = Len(q)
             /\ \A k \in 1..Len(q) : New(q)[k] = IF IsPrefix(P, q) /\ k <= c THEN Q[k] ELSE q[k]
  BY <1>1, RenamedIs
<1>3. ASSUME NEW q \in Seq(Names), ~IsPrefix(P, q) PROVE New(q) = q
  BY <1>3 DEF Renamed
<1>4. New(<<>>) = <<>> /\ New(p) = p
  <2>1. <<>> \in Seq(Names) /\ Len(<<>>) = 0
    OBVIOUS
  <2>2. ~(c <= 0) /\ ~(c <= Len(p))
    BY <1>1
  <2> QED BY <1>2, <1>3, <2>1, <2>2
<1>5. New(P) = Q
  <2>1. IsPrefix(P, P)
    BY <1>1, <1>2
  <2>2. New(P) \in Seq(Names) /\ Len(New(P)) = c /\ \A k \in 1..c : New(P)[k] = Q[k]
    BY <1>1, <1>2, <2>1
  <2> QED BY <1>1, <2>2, SeqEqual
<1>6. ASSUME NEW r \in Seq(Names), NEW x \in Names, Append(r, x) # P
      PROVE  New(Append(r, x)) = Append(New(r), x)
  <2> DEFINE q == Append(r, x)  l == Len(r)
  <2>1. q \in Seq(Names) /\ Len(q) = l + 1 /\ l \in Nat /\ q[l + 1] = x /\ \A k \in 1..l : q[k] = r[k]
    OBVIOUS
  <2>2. q # P
    BY <1>6
  <2> HIDE DEF q, l
  <2>3. IsPrefix(P, q) <=> IsPrefix(P, r)
    <3>1. ASSUME IsPrefix(P, r) PROVE IsPrefix(P, q)
      <4>1. c <= l /\ \A k \in 1..c : P[k] = r[k]
        BY <1>2, <3>1 DEF l
      <4>2. c <= Len(q) /\ \A k \in 1..c : k \in 1..l
        BY <1>1, <2>1, <4>1
      <4>3. \A k \in 1..c : P[k] = q[k]
        BY <2>1, <4>1, <4>2
      <4> QED BY <1>2, <2>1, <4>2, <4>3
    <3>2. ASSUME IsPrefix(P, q) PROVE IsPrefix(P, r)
      <4>1. c <= l + 1 /\ \A k \in 1..c : P[k] = q[k]
        BY <1>2, <2>1, <3>2
      <4>2. c # l + 1
        <5> SUFFICES ASSUME c = l + 1 PROVE FALSE
          OBVIOUS
        <5>1. Len(P) = Len(q) /\ \A k \in 1..Len(P) : P[k] = q[k]
          BY <1>1, <2>1, <4>1
        <5> QED BY <1>1, <2>1, <2>2, <5>1, SeqEqual
      <4>3. c <= l /\ \A k \in 1..c : P[k] = r[k]
        BY <1>1, <2>1, <4>1, <4>2
      <4> QED BY <1>2, <4>3 DEF l
    <3> QED BY <3>1, <3>2
  <2>4. CASE ~IsPrefix(P, q)
    BY <1>3, <2>1, <2>3, <2>4 DEF q
  <2>5. CASE IsPrefix(P, q)
    <3> DEFINE a == New(q)  b == New(r)  g == Append(b, x)
    <3>1. a \in Seq(Names) /\ Len(a) = l + 1 /\ \A k \in 1..(l + 1) : a[k] = IF k <= c THEN Q[k] ELSE q[k]
      BY <1>2, <2>1, <2>5
    <3>2. b \in Seq(Names) /\ Len(b) = l /\ \A k \in 1..l : b[k] = IF k <= c THEN Q[k] ELSE r[k]
      BY <1>2, <2>3, <2>5 DEF l
    <3>3. c <= l
      BY <1>2, <2>3, <2>5 DEF l
    <3> HIDE DEF a, b
    <3>4. g \in Seq(Names) /\ Len(g) = l + 1 /\ g[l + 1] = x /\ \A k \in 1..l : g[k] = b[k]
      BY <3>2
    <3> HIDE DEF g
    <3>5. ASSUME NEW k \in 1..(l + 1) PROVE a[k] = g[k]
      <4>1. CASE k = l + 1
        <5>1. ~(k <= c)
          BY <1>1, <2>1, <3>3, <4>1
        <5> QED BY <2>1, <3>1, <3>4, <4>1, <5>1
      <4>2. CASE k # l + 1
        <5>1. k \in 1..l
          BY <2>1, <4>2
        <5> QED BY <2>1, <3>1, <3>2, <3>4, <5>1
      <4> QED BY <4>1, <4>2
    <3>6. a = g
      BY <3>1, <3>4, <3>5, SeqEqual
    <3> QED BY <3>6 DEF a, b, g, q
  <2> QED BY <2>4, <2>5
<1> QED BY <1>2, <1>4, <1>5, <1>6 DEF P, Q, RenamesOnly

\* Directory i has the entry s of d with name m instead of n, and the others.
Relabels(d, e, i, s, n, m, v) ==
  /\ At(d, i, s) # NULL /\ At(d, i, s).name = n /\ At(d, i, s).inode = v
  /\ At(e, i, s) # NULL /\ At(e, i, s).name = m /\ At(e, i, s).inode = v
  /\ \A t \in Slots : t # s => At(e, i, t) = At(d, i, t)

\* The tree on e is that on d with path "from", and those below it, moved to "to".
Retitled(d, e, from, to) ==
  /\ Distinct(e)
  /\ \A x : x \in TreeOn(e) <=> \E y \in TreeOn(d) : x = [y EXCEPT !.path = Renamed(y.path, from, to)]

(* An entry with another name: the paths below it are renamed.              *)
LEMMA TreeRenamed ==
  ASSUME NEW d, NEW e, NEW S, Sound(d, S), Distinct(d), NEW i \in Dirs(d, S), Besides(d, e, S, i),
         NEW s \in Slots, NEW n, NEW m \in Names, NEW v, Relabels(d, e, i, s, n, m, v),
         \A j : ~Hop(d, i, m, j), NEW p, Reaches(d, p, i)
  PROVE  Retitled(d, e, Append(p, n), Append(p, m))
<1>a. /\ \A j \in S : e[j] = d[j] /\ (j # i => Intact(d, e, j))
      /\ \A j \in S : \A q : Shown(e, q, j) = Shown(d, q, j)
      /\ \A j \in S : j # i => \A x, k : Hop(e, j, x, k) <=> Hop(d, j, x, k)
  BY BesidesIntact
<1>b. /\ Dirs(e, S) = Dirs(d, S)
      /\ \A j \in Dirs(d, S) : j # i => \A t \in Slots : At(e, j, t) = At(d, j, t)
  BY BesidesSame
<1>0. /\ p \in Seq(Names) /\ i \in S /\ e[i].type = "dir" /\ d[i].type = "dir"
      /\ n \in Names /\ v \in S \ {Root} /\ Hop(d, i, n, v) /\ Hop(e, i, m, v) /\ m # n
  <2>1. i \in S /\ d[i].type = "dir" /\ e[i].type = "dir"
    BY <1>a DEF Dirs
  <2>2. Hop(d, i, n, v) /\ Hop(e, i, m, v)
    BY <2>1 DEF Hop, Relabels
  <2>3. m # n
    BY <2>2
  <2> QED BY <2>1, <2>2, <2>3, HopIs DEF Reaches
<1> DEFINE P == Append(p, n)  Q == Append(p, m)  New(q) == Renamed(q, P, Q)
<1>1. /\ New(<<>>) = <<>> /\ New(p) = p /\ New(P) = Q
      /\ \A r \in Seq(Names), x \in Names :
           New(r) \in Seq(Names) /\ (Append(r, x) # P => New(Append(r, x)) = Append(New(r), x))
  <2>1. RenamesOnly(p, n, m)
    BY <1>0, RenamedOn
  <2> QED BY <2>1 DEF RenamesOnly
<1>2. Reaches(d, P, v)
  BY <1>0, ReachesOn
<1>3. P \in Seq(Names) /\ \A r \in Seq(Names), x \in Names : Append(r, x) = P => r = p /\ x = n
  BY <1>0, Appended
<1> HIDE DEF P, New
\* The entries of i.
<1>4. ASSUME NEW x, NEW j PROVE Hop(e, i, x, j) <=> (Hop(d, i, x, j) /\ x # n) \/ (x = m /\ j = v)
  <2>1. ASSUME Hop(d, i, x, j), x # n PROVE Hop(e, i, x, j)
    <3>1. PICK t \in Slots : At(d, i, t) # NULL /\ At(d, i, t).name = x /\ At(d, i, t).inode = j
      BY <2>1 DEF Hop
    <3>2. t # s
      BY <2>1, <3>1 DEF Relabels
    <3> QED BY <1>0, <3>1, <3>2 DEF Hop, Relabels
  <2>2. ASSUME Hop(e, i, x, j) PROVE (Hop(d, i, x, j) /\ x # n) \/ (x = m /\ j = v)
    <3>1. PICK t \in Slots : At(e, i, t) # NULL /\ At(e, i, t).name = x /\ At(e, i, t).inode = j
      BY <2>2 DEF Hop
    <3>2. CASE t = s
      BY <3>1, <3>2 DEF Relabels
    <3>3. CASE t # s
      <4>1. At(d, i, t) # NULL /\ At(d, i, t).name = x /\ At(d, i, t).inode = j
        BY <3>1, <3>3 DEF Relabels
      <4>2. x # n
        BY <1>0, <3>3, <4>1 DEF Distinct, Relabels
      <4> QED BY <1>0, <4>1, <4>2 DEF Hop
    <3> QED BY <3>2, <3>3
  <2> QED BY <1>0, <2>1, <2>2
\* Every path moves to a path.
<1> DEFINE X == {q \in Seq(Names) : \A j : Reaches(d, q, j) => Reaches(e, New(q), j)}
<1>5. Seq(Names) \subseteq X
  <2>1. <<>> \in X
    <3>1. <<>> \in Seq(Names)
      OBVIOUS
    <3> QED BY <1>1, <3>1, ReachesRoot
  <2>2. ASSUME NEW r \in Seq(Names), NEW x \in Names, r \in X PROVE Append(r, x) \in X
    <3>1. ASSUME NEW j, Reaches(d, Append(r, x), j) PROVE Reaches(e, New(Append(r, x)), j)
      <4>1. PICK k : Reaches(d, r, k) /\ Hop(d, k, x, j)
        BY <3>1, ReachesOn
      <4>2. Reaches(e, New(r), k) /\ New(r) \in Seq(Names) /\ k \in S
        BY <1>1, <2>2, <4>1, ReachesIn
      <4>3. CASE Append(r, x) = P
        <5>1. r = p /\ x = n /\ j = v
          BY <1>2, <1>3, <3>1, <4>3, NodeUnique
        <5>2. k = i
          BY <4>1, <5>1, NodeUnique
        <5>3. Reaches(e, p, i)
          BY <1>1, <4>2, <5>1, <5>2
        <5>4. Reaches(e, Q, v)
          BY <1>0, <5>3, ReachesOn
        <5> QED BY <1>1, <4>3, <5>1, <5>4
      <4>4. CASE Append(r, x) # P
        <5>1. k # i \/ x # n
          BY <1>3, <4>1, <4>4, PathUnique DEF P
        <5>2. Hop(e, k, x, j)
          BY <1>4, <1>a, <4>1, <4>2, <5>1
        <5>3. Reaches(e, Append(New(r), x), j)
          BY <4>2, <5>2, ReachesOn
        <5> QED BY <1>1, <4>4, <5>3
      <4> QED BY <4>3, <4>4
    <3>2. Append(r, x) \in Seq(Names)
      BY Appended
    <3> QED BY <3>1, <3>2
  <2> HIDE DEF X
  <2> QED BY <2>1, <2>2, Growth
\* Every path is one that moved.
<1> DEFINE Y == {q \in Seq(Names) : \A j : Reaches(e, q, j) => \E r : Reaches(d, r, j) /\ q = New(r)}
<1>6. Seq(Names) \subseteq Y
  <2>1. <<>> \in Y
    <3>1. <<>> \in Seq(Names)
      OBVIOUS
    <3> QED BY <1>1, <3>1, ReachesRoot
  <2>2. ASSUME NEW r \in Seq(Names), NEW x \in Names, r \in Y PROVE Append(r, x) \in Y
    <3>1. ASSUME NEW j, Reaches(e, Append(r, x), j) PROVE \E q : Reaches(d, q, j) /\ Append(r, x) = New(q)
      <4>1. PICK k : Reaches(e, r, k) /\ Hop(e, k, x, j)
        BY <3>1, ReachesOn
      <4>2. PICK q : Reaches(d, q, k) /\ r = New(q)
        BY <2>2, <4>1
      <4>3. q \in Seq(Names) /\ k \in S
        BY <4>2, ReachesIn
      <4>4. CASE k = i /\ x = m /\ j = v
        <5>1. q = p
          BY <4>2, <4>4, PathUnique
        <5>2. Append(r, x) = Q
          BY <1>1, <4>2, <4>4, <5>1
        <5> QED BY <1>1, <1>2, <4>4, <5>2
      <4>5. CASE ~(k = i /\ x = m /\ j = v)
        <5>1. Hop(d, k, x, j) /\ (k # i \/ x # n)
          BY <1>4, <1>a, <4>1, <4>3, <4>5
        <5>2. Reaches(d, Append(q, x), j)
          BY <4>2, <4>3, <5>1, ReachesOn
        <5>3. Append(q, x) # P
          <6> SUFFICES ASSUME Append(q, x) = P PROVE FALSE
            OBVIOUS
          <6>1. q = p /\ x = n
            BY <1>3, <4>3
          <6>2. k = i
            BY <4>2, <6>1, NodeUnique
          <6> QED BY <5>1, <6>1, <6>2
        <5>4. New(Append(q, x)) = Append(r, x)
          BY <1>1, <4>2, <4>3, <5>3
        <5> QED BY <5>2, <5>4
      <4> QED BY <4>4, <4>5
    <3>2. Append(r, x) \in Seq(Names)
      BY Appended
    <3> QED BY <3>1, <3>2
  <2> HIDE DEF Y
  <2> QED BY <2>1, <2>2, Growth
<1>7. ASSUME NEW q, NEW j PROVE Reaches(e, q, j) <=> \E r : Reaches(d, r, j) /\ q = New(r)
  <2>1. \A r, l : Reaches(d, r, l) \/ Reaches(e, r, l) => r \in Seq(Names)
    BY DEF Reaches
  <2> QED BY <1>5, <1>6, <2>1
<1>8. Sound(e, S)
  <2>1. \A t \in Slots : At(e, i, t) # NULL => At(d, i, t) # NULL /\ At(e, i, t).inode = At(d, i, t).inode
    BY DEF Relabels
  <2> QED BY <2>1, DirChanged
<1>9. ASSUME NEW x PROVE x \in TreeOn(e) <=> \E y \in TreeOn(d) : x = [y EXCEPT !.path = New(y.path)]
  <2>1. x \in TreeOn(e) <=> \E q, j : Reaches(e, q, j) /\ x = Shown(e, q, j)
    BY <1>8, TreeNodes
  <2>2. \A y : y \in TreeOn(d) <=> \E q, j : Reaches(d, q, j) /\ y = Shown(d, q, j)
    BY TreeNodes
  <2>3. ASSUME NEW q, NEW j, Reaches(d, q, j)
        PROVE  Shown(e, New(q), j) = [Shown(d, q, j) EXCEPT !.path = New(Shown(d, q, j).path)]
    <3>1. Shown(e, New(q), j) = Shown(d, New(q), j)
      BY <1>a, <2>3, ReachesIn
    <3>2. Shown(d, New(q), j) = [Shown(d, q, j) EXCEPT !.path = New(Shown(d, q, j).path)]
      BY DEF Shown
    <3> QED BY <3>1, <3>2
  <2> QED BY <1>7, <2>1, <2>2, <2>3
<1>10. Distinct(e)
  <2>1. ASSUME NEW q, NEW k, Reaches(e, q, k), e[k].type = "dir", NEW a \in Slots, NEW c \in Slots,
               At(e, k, a) # NULL, At(e, k, c) # NULL, At(e, k, a).name = At(e, k, c).name
        PROVE  a = c
    <3>1. PICK r : Reaches(d, r, k)
      BY <1>7, <2>1
    <3>2. k \in S /\ d[k].type = "dir" /\ k \in Dirs(d, S)
      BY <1>a, <2>1, <3>1, ReachesIn DEF Dirs
    <3>3. CASE k # i
      <4>1. At(e, k, a) = At(d, k, a) /\ At(e, k, c) = At(d, k, c)
        BY <1>b, <3>2, <3>3
      <4> QED BY <2>1, <3>1, <3>2, <4>1 DEF Distinct
    <3>4. CASE k = i
      <4>1. \A t \in Slots : t # s /\ At(e, i, t) # NULL => At(e, i, t).name # m
        BY <1>0 DEF Hop, Relabels
      <4>2. \A t \in Slots : t # s => At(e, i, t) = At(d, i, t)
        BY DEF Relabels
      <4>3. At(e, i, s).name = m
        BY DEF Relabels
      <4>4. CASE a = s \/ c = s
        BY <2>1, <3>4, <4>1, <4>3, <4>4
      <4>5. CASE a # s /\ c # s
        BY <1>0, <2>1, <3>4, <4>2, <4>5 DEF Distinct
      <4> QED BY <4>4, <4>5
    <3> QED BY <3>3, <3>4
  <2> QED BY <2>1 DEF Distinct
<1> QED BY <1>9, <1>10 DEF New, P, Retitled
----------------------------------------------------------------------------
(* What the pending writes of a call do to the tree. *)

\* The first k of the writes ws make disk d one with the tree t.
Becomes(d, ws, op, k, t) == \A e : DiskAfter(d, ws, op, k, e) => Distinct(e) /\ TreeOn(e) = t
\* After k of them the call has still to take effect: see Undecided.
Open(ws, r, k) == \E j \in (k + 1)..Len(ws) : r.code # 0 \/ ws[j].lba # 1
\* fs_write has replaced n bytes.
Partly(t, u, c, n) == /\ c.op = "write" /\ n \in 1..Len(c.buf)
                      /\ c.off + n <= Len(Fs!Node(t, c.path).bytes)
                      /\ u = Fs!With(t, Fs!File(c.path, Fs!Splice(Fs!Node(t, c.path).bytes, c.off, SubSeq(c.buf, 1, n))))
\* What FsTree allows call c, answered with r, when one of its writes turns tree
\* t into u; it had still to take effect if o, and has if p.
Effect(t, u, r, c) == \/ u = t /\ r = Error(ENOSPC) /\ c.op \in Growing
                      \/ u = Fs!After(t, c) /\ r = Success(Fs!Value(t, c))
Moves(t, o, u, p, r, c) ==
  \/ ~o /\ ~p /\ u = t /\ c.op \in Freeing
  \/ /\ o /\ Fs!Errors(t, c) = {} /\ c.op \in Writing
     /\ \/ p /\ (u = t \/ \E n : Partly(t, u, c, n))
        \/ ~p /\ Effect(t, u, r, c)
\* So do the writes ws, by way of the trees u.
Plot(d, ws, r, c, u) ==
  /\ \A k \in 0..Len(ws) : Becomes(d, ws, c.op, k, u[k])
  /\ \A k \in 1..Len(ws) : Moves(u[k - 1], Open(ws, r, k - 1), u[k], Open(ws, r, k), r, c)
Told == \E u : Plot(disk, writes, ret, Clipped(call), u)

(* Before the first write the disk is what it is.                           *)
LEMMA PlotNow ==
  ASSUME NEW d, NEW ws \in Seq(WriteType), NEW r, NEW c, NEW u, Plot(d, ws, r, c, u)
  PROVE  Distinct(d) /\ TreeOn(d) = u[0]
<1>1. 0 \in 0..Len(ws)
  OBVIOUS
<1>2. Becomes(d, ws, c.op, 0, u[0])
  BY <1>1 DEF Plot
<1>3. DiskAfter(d, ws, c.op, 0, d)
  BY DEF DiskAfter, None
<1> QED BY <1>2, <1>3 DEF Becomes

(* With nothing pending nothing moves.                                      *)
LEMMA PlotRests ==
  ASSUME NEW d, NEW S, Sound(d, S), Distinct(d), NEW r, NEW c
  PROVE  \E u : Plot(d, <<>>, r, c, u)
<1> DEFINE u == [k \in 0..0 |-> TreeOn(d)]
<1>1. ASSUME NEW k \in 0..0, NEW e, DiskAfter(d, <<>>, c.op, k, e) PROVE Distinct(e) /\ TreeOn(e) = u[k]
  <2>1. \A b \in Space : b \in 1..(DiskSize - 1)
    BY Sizes
  <2>2. \A j \in 1..k : FALSE
    BY <1>1
  <2>3. Alike(d, e, S)
    BY <1>1, <2>1, <2>2 DEF Alike, DiskAfter
  <2> QED BY <2>3, AlikeTree
<1>2. 0..Len(<<>>) = 0..0 /\ 1..Len(<<>>) = {}
  OBVIOUS
<1> HIDE DEF u
<1>3. Plot(d, <<>>, r, c, u)
  BY <1>1, <1>2 DEF Plot, Becomes
<1> QED BY <1>3

(* When the first write has been made, or was one to free blocks and has    *)
(* failed, the others go on as before.                                      *)
LEMMA PlotGoesOn ==
  ASSUME NEW ws \in Seq(WriteType), ws # <<>>, NEW d, NEW r, NEW c, NEW u, Plot(d, ws, r, c, u), NEW x,
         \A b \in 1..(DiskSize - 1) :
            \/ b # ws[1].lba /\ x[b] = d[b]
            \/ b = ws[1].lba /\ x[b] = ws[1].value
            \/ b = 1 /\ b = ws[1].lba /\ c.op \in Freeing /\ x[b] = d[b]
  PROVE  \E v : Plot(x, Tail(ws), r, c, v) /\ v[0] = u[1]
<1> DEFINE l == Len(ws) - 1
           v == [k \in 0..l |-> u[k + 1]]
<1>1. /\ Tail(ws) \in Seq(WriteType) /\ Len(Tail(ws)) = l /\ l \in Nat /\ 1 \in 1..Len(ws)
      /\ \A j \in 1..l : j + 1 \in 1..Len(ws) /\ Tail(ws)[j] = ws[j + 1]
  BY TailIs
<1>2. ASSUME NEW k \in 0..l PROVE Open(Tail(ws), r, k) <=> Open(ws, r, k + 1)
  <2>1. ASSUME NEW j \in (k + 1)..l PROVE j + 1 \in (k + 1 + 1)..Len(ws) /\ Tail(ws)[j] = ws[j + 1]
    BY <1>1, <1>2, <2>1
  <2>2. ASSUME NEW j \in (k + 1 + 1)..Len(ws) PROVE j - 1 \in (k + 1)..l /\ Tail(ws)[j - 1] = ws[j]
    <3>1. j - 1 \in 1..l /\ (j - 1) + 1 = j /\ j - 1 \in (k + 1)..l
      BY <1>1, <1>2, <2>2
    <3> QED BY <1>1, <3>1
  <2> QED BY <1>1, <2>1, <2>2 DEF Open
<1>3. ASSUME NEW k \in 0..l PROVE Becomes(x, Tail(ws), c.op, k, v[k])
  <2>1. k + 1 \in 0..Len(ws) /\ v[k] = u[k + 1] /\ k \in 0..(Len(ws) - 1)
    BY <1>1, <1>3
  <2>2. Becomes(d, ws, c.op, k + 1, u[k + 1])
    BY <2>1 DEF Plot
  <2>3. ASSUME NEW e, DiskAfter(x, Tail(ws), c.op, k, e) PROVE DiskAfter(d, ws, c.op, k + 1, e)
    BY <2>1, <2>3, DiskLater
  <2> QED BY <2>1, <2>2, <2>3 DEF Becomes
<1>4. ASSUME NEW k \in 1..l
      PROVE  Moves(v[k - 1], Open(Tail(ws), r, k - 1), v[k], Open(Tail(ws), r, k), r, c)
  <2>1. /\ k + 1 \in 1..Len(ws) /\ (k + 1) - 1 = k /\ k - 1 \in 0..l /\ k \in 0..l /\ (k - 1) + 1 = k
        /\ v[k - 1] = u[k] /\ v[k] = u[k + 1]
    BY <1>1, <1>4
  <2>2. Moves(u[k], Open(ws, r, k), u[k + 1], Open(ws, r, k + 1), r, c)
    BY <2>1 DEF Plot
  <2>3. (Open(Tail(ws), r, k - 1) <=> Open(ws, r, k)) /\ (Open(Tail(ws), r, k) <=> Open(ws, r, k + 1))
    BY <1>2, <2>1
  <2> QED BY <2>1, <2>2, <2>3 DEF Moves
<1>5. v[0] = u[1] /\ 0 \in 0..l
  BY <1>1
<1> HIDE DEF v
<1>6. Plot(x, Tail(ws), r, c, v)
  BY <1>1, <1>3, <1>4 DEF Plot
<1> QED BY <1>5, <1>6
(* A call whose last write takes effect, or ends it without one.            *)
LEMMA LastPlot ==
  ASSUME NEW d, NEW ws \in Seq(WriteType), ws # <<>>, NEW r, NEW c, NEW t, NEW u,
         Fs!Errors(t, c) = {}, c.op \in Writing, Effect(t, u, r, c),
         r.code # 0 \/ ws[Len(ws)].lba # 1,
         \A k \in 0..(Len(ws) - 1) : Becomes(d, ws, c.op, k, t),
         Becomes(d, ws, c.op, Len(ws), u)
  PROVE  Open(ws, r, 0) /\ \E v : Plot(d, ws, r, c, v)
<1> DEFINE l == Len(ws)
           v == [k \in 0..l |-> IF k = l THEN u ELSE t]
<1>1. l \in Nat \ {0}
  BY EmptySeq
<1>2. \A k \in 0..l : Open(ws, r, k) <=> k # l
  <2>1. \A k \in 0..l : k # l => l \in (k + 1)..l
    BY <1>1
  <2>2. (l + 1)..l = {}
    BY <1>1
  <2> QED BY <2>1, <2>2 DEF Open
<1>3. \A k \in 0..l : k = l \/ k \in 0..(l - 1)
  BY <1>1
<1>4. \A k \in 0..l : Becomes(d, ws, c.op, k, v[k])
  BY <1>3
<1>5. ASSUME NEW k \in 1..l
      PROVE  Moves(v[k - 1], Open(ws, r, k - 1), v[k], Open(ws, r, k), r, c)
  <2>1. k - 1 \in 0..l /\ k \in 0..l /\ k - 1 # l
    BY <1>1, <1>5
  <2>2. v[k - 1] = t /\ Open(ws, r, k - 1) /\ v[k] = (IF k = l THEN u ELSE t) /\ (Open(ws, r, k) <=> k # l)
    BY <1>2, <2>1
  <2> HIDE DEF v, l
  <2> QED BY <2>2 DEF Moves
<1>6. 0 \in 0..l /\ 0 # l
  BY <1>1
<1> HIDE DEF v
<1>7. Plot(d, ws, r, c, v)
  BY <1>4, <1>5 DEF Plot
<1> QED BY <1>2, <1>6, <1>7

(* A removal: its first write takes effect, those to free blocks do nothing. *)
LEMMA FirstPlot ==
  ASSUME NEW d, NEW ws \in Seq(WriteType), ws # <<>>, NEW r, NEW c, NEW t, NEW u,
         Fs!Errors(t, c) = {}, c.op \in Freeing, Effect(t, u, r, c), r.code = 0,
         ws[1].lba # 1, \A j \in 2..Len(ws) : ws[j].lba = 1,
         Becomes(d, ws, c.op, 0, t),
         \A k \in 1..Len(ws) : Becomes(d, ws, c.op, k, u)
  PROVE  Open(ws, r, 0) /\ \E v : Plot(d, ws, r, c, v)
<1> DEFINE l == Len(ws)
           v == [k \in 0..l |-> IF k = 0 THEN t ELSE u]
<1>1. l \in Nat \ {0} /\ c.op \in Writing
  BY EmptySeq DEF Writing
<1>2. \A k \in 0..l : Open(ws, r, k) <=> k = 0
  <2>1. 1 \in (0 + 1)..l
    BY <1>1
  <2>2. \A k \in 0..l : k # 0 => \A j \in (k + 1)..l : j \in 2..l
    BY <1>1
  <2> QED BY <2>1, <2>2 DEF Open
<1>3. \A k \in 0..l : k = 0 \/ k \in 1..l
  BY <1>1
<1>4. \A k \in 0..l : Becomes(d, ws, c.op, k, v[k])
  BY <1>3
<1>5. ASSUME NEW k \in 1..l
      PROVE  Moves(v[k - 1], Open(ws, r, k - 1), v[k], Open(ws, r, k), r, c)
  <2>1. k - 1 \in 0..l /\ k \in 0..l /\ k # 0 /\ (k - 1 = 0 <=> k = 1)
    BY <1>1, <1>5
  <2>2. v[k - 1] = (IF k - 1 = 0 THEN t ELSE u) /\ (Open(ws, r, k - 1) <=> k - 1 = 0)
        /\ v[k] = u /\ ~Open(ws, r, k)
    BY <1>2, <2>1
  <2> HIDE DEF v, l
  <2> QED BY <1>1, <2>2 DEF Moves
<1>6. 0 \in 0..l
  BY <1>1
<1> HIDE DEF v
<1>7. Plot(d, ws, r, c, v)
  BY <1>4, <1>5 DEF Plot
<1> QED BY <1>2, <1>6, <1>7

(* Writes of the bitmap, and to blocks that are not taken, leave the tree.   *)
LEMMA OutsideBecomes ==
  ASSUME NEW d, NEW S, Sound(d, S), Distinct(d), NEW ws, NEW k \in Nat, NEW op,
         \A j \in 1..k : ws[j].lba = 1 \/ ws[j].lba \notin Taken(d, S)
  PROVE  Becomes(d, ws, op, k, TreeOn(d))
<1>1. \A b \in Space : b \in 1..(DiskSize - 1) /\ b # 1
  BY Sizes
<1>2. ASSUME NEW e, DiskAfter(d, ws, op, k, e) PROVE Alike(d, e, S)
  <2>1. ASSUME NEW b \in Space, b \in Taken(d, S) PROVE e[b] = d[b]
    <3>1. None(ws, k, b)
      BY <1>1, <2>1 DEF None
    <3> QED BY <1>1, <1>2, <2>1, <3>1, BlockAfter
  <2> QED BY <2>1 DEF Alike
<1> QED BY <1>2, AlikeTree DEF Becomes

\* The answer r of a call that changes nothing.
Answers(t, r, c) == \/ Fs!Errors(t, c) = {} /\ Fs!After(t, c) = t /\ r = Success(Fs!Value(t, c))
                    \/ \E e \in Fs!Errors(t, c) : r = Error(e)
                    \/ Fs!Errors(t, c) = {} /\ c.op \in Growing /\ r = Error(ENOSPC)
\* What a handler leaves: the answer, or writes that lead to it.
Outcome(ws, r, c) == IF ws = <<>> THEN Answers(TreeOn(disk), r, c)
                     ELSE Open(ws, r, 0) /\ \E u : Plot(disk, ws, r, c, u)
\* No path has more components than the program reads.
ShortPaths == \A c \in Calls : Len(c.path) <= MaxComponents /\ Len(c.to) <= MaxComponents
\* A state in which a handler runs.
Asked(S) == Ready(S) /\ Distinct(disk) /\ ShortPaths
Request == Clipped(call)

(* What FsTree is asked.                                                    *)
LEMMA RequestIs ==
  ASSUME NEW S, Asked(S)
  PROVE  /\ Request.op = call.op /\ Request.off = call.off /\ Request.len = call.len /\ Request.buf = call.buf
         /\ Request.path = ClipPath(call.path) /\ Request.to = ClipPath(call.to)
         /\ call.path \in Seq(Names) /\ call.to \in Seq(Names)
         /\ Len(call.path) <= MaxComponents /\ Len(call.to) <= MaxComponents
         /\ call.off \in Nat /\ call.len \in Nat /\ call.buf \in Seq(Data)
         /\ Request # NULL
<1>1. call \in Calls /\ call \in CallType
  BY FsAssumption DEF Asked, Ready
<1>2. /\ Request.op = call.op /\ Request.off = call.off /\ Request.len = call.len /\ Request.buf = call.buf
      /\ Request.path = ClipPath(call.path) /\ Request.to = ClipPath(call.to)
  BY <1>1 DEF Request, Clipped, CallType
<1>3. /\ call.path \in Seq(Names) /\ call.to \in Seq(Names)
      /\ call.off \in Nat /\ call.len \in Nat /\ call.buf \in Seq(Data)
  BY <1>1 DEF CallType
<1>4. Request \in CallType
  <2>1. ClipPath(call.path) \in Seq(Names) /\ ClipPath(call.to) \in Seq(Names)
    BY <1>3, ClipIs
  <2> QED BY <1>1, <2>1 DEF Request, Clipped, CallType
<1>5. Request # NULL
  BY <1>4, FsAssumption
<1>6. Len(call.path) <= MaxComponents /\ Len(call.to) <= MaxComponents
  BY <1>1 DEF Asked, ShortPaths
<1> QED BY <1>2, <1>3, <1>5, <1>6
----------------------------------------------------------------------------
(* The calls that look, and those that leave the tree as it is. *)

(* The errors FsTree gives for each call.                                   *)
LEMMA ErrorsAre ==
  ASSUME NEW t, NEW c
  PROVE  LET p == c.path
             E == Fs!Errors(t, c)
             parent == Fs!ResolveParent(t, p)
         IN
    /\ c.op \in {"getattr", "chmod", "utime"} => E = {Fs!Resolve(t, p)} \ {0}
    /\ c.op = "readdir" => E = (IF Fs!Exists(t, p) /\ ~Fs!IsDir(t, p) THEN {Fs!ENOTDIR} ELSE {Fs!Resolve(t, p)}) \ {0}
    /\ c.op = "read" => E = {Fs!ResolveFile(t, p)} \ {0}
    /\ c.op = "write" => E = IF Fs!ResolveFile(t, p) # 0 THEN {Fs!ResolveFile(t, p)}
                             ELSE IF c.off > Len(Fs!Node(t, p).bytes) THEN {Fs!EINVAL} ELSE {}
    /\ c.op = "truncate" => E = IF c.len # 0 THEN {Fs!EINVAL} ELSE {Fs!ResolveFile(t, p)} \ {0}
    /\ c.op \in {"create", "mkdir", "rename", "unlink", "rmdir"} /\ parent # 0 => E = {parent}
    /\ c.op \in {"create", "mkdir"} /\ parent = 0
         => E = IF ~Fs!IsDir(t, Front(p)) THEN {Fs!ENOTDIR} ELSE IF Fs!Exists(t, p) THEN {Fs!EEXIST} ELSE {}
    /\ c.op = "rename" /\ parent = 0
         => E = IF Fs!ResolveParent(t, c.to) # 0 THEN {Fs!ResolveParent(t, c.to)}
                ELSE IF Front(p) # Front(c.to) THEN {Fs!EINVAL}
                ELSE IF Fs!Exists(t, c.to) THEN {Fs!EEXIST} ELSE IF Fs!Exists(t, p) THEN {} ELSE {Fs!ENOENT}
    /\ c.op \in {"unlink", "rmdir"} /\ parent = 0 /\ ~Fs!Exists(t, p) => E = {Fs!ENOENT}
    /\ c.op = "unlink" /\ parent = 0 /\ Fs!Exists(t, p) => E = IF Fs!IsDir(t, p) THEN {Fs!EISDIR} ELSE {}
    /\ c.op = "rmdir" /\ parent = 0 /\ Fs!Exists(t, p)
         => E = IF ~Fs!IsDir(t, p) THEN {Fs!ENOTDIR} ELSE IF Fs!Children(t, p) # {} THEN {Fs!ENOTEMPTY} ELSE {}
<1> DEFINE p == c.path
           E == Fs!Errors(t, c)
           parent == Fs!ResolveParent(t, p)
<1>1. c.op \in {"getattr", "chmod", "utime"} => E = {Fs!Resolve(t, p)} \ {0}
  BY DEF Fs!Errors
<1>2. c.op = "readdir" => E = (IF Fs!Exists(t, p) /\ ~Fs!IsDir(t, p) THEN {Fs!ENOTDIR} ELSE {Fs!Resolve(t, p)}) \ {0}
  BY DEF Fs!Errors
<1>3. c.op = "read" => E = {Fs!ResolveFile(t, p)} \ {0}
  BY DEF Fs!Errors
<1>4. c.op = "write" => E = IF Fs!ResolveFile(t, p) # 0 THEN {Fs!ResolveFile(t, p)}
                            ELSE IF c.off > Len(Fs!Node(t, p).bytes) THEN {Fs!EINVAL} ELSE {}
  BY DEF Fs!Errors
<1>5. c.op = "truncate" => E = IF c.len # 0 THEN {Fs!EINVAL} ELSE {Fs!ResolveFile(t, p)} \ {0}
  BY DEF Fs!Errors
<1>6. c.op \in {"create", "mkdir", "rename", "unlink", "rmdir"}
        => E = IF parent # 0 THEN {parent} ELSE Fs!EntryErrors(t, c)
  BY DEF Fs!Errors
<1> HIDE DEF E
<1>7. c.op \in {"create", "mkdir"}
        => Fs!EntryErrors(t, c)
             = IF ~Fs!IsDir(t, Front(p)) THEN {Fs!ENOTDIR} ELSE IF Fs!Exists(t, p) THEN {Fs!EEXIST} ELSE {}
  BY DEF Fs!EntryErrors, Fs!Front, Front
<1>8. c.op = "rename"
        => Fs!EntryErrors(t, c)
             = IF Fs!ResolveParent(t, c.to) # 0 THEN {Fs!ResolveParent(t, c.to)}
               ELSE IF Front(p) # Front(c.to) THEN {Fs!EINVAL}
               ELSE IF Fs!Exists(t, c.to) THEN {Fs!EEXIST} ELSE IF Fs!Exists(t, p) THEN {} ELSE {Fs!ENOENT}
  BY DEF Fs!EntryErrors, Fs!Front, Front
<1>9. c.op = "unlink"
        => Fs!EntryErrors(t, c) = IF ~Fs!Exists(t, p) THEN {Fs!ENOENT}
                                  ELSE IF Fs!IsDir(t, p) THEN {Fs!EISDIR} ELSE {}
  BY DEF Fs!EntryErrors, Fs!Front, Front
<1>10. c.op = "rmdir"
         => Fs!EntryErrors(t, c) = IF ~Fs!Exists(t, p) THEN {Fs!ENOENT}
                                   ELSE IF ~Fs!IsDir(t, p) THEN {Fs!ENOTDIR}
                                   ELSE IF Fs!Children(t, p) # {} THEN {Fs!ENOTEMPTY} ELSE {}
  BY DEF Fs!EntryErrors
<1> QED BY <1>1, <1>2, <1>3, <1>4, <1>5, <1>6, <1>7, <1>8, <1>9, <1>10 DEF E

(* The error codes are the same, none is 0.                                 *)
LEMMA ErrorCodes ==
  /\ Fs!ENOENT = ENOENT /\ Fs!ENOTDIR = ENOTDIR /\ Fs!EISDIR = EISDIR /\ Fs!EINVAL = EINVAL
  /\ Fs!EEXIST = EEXIST /\ Fs!ENOTEMPTY = ENOTEMPTY
  /\ \A e \in {ENOENT, ENOTDIR, EISDIR, EINVAL, EEXIST, ENOTEMPTY, ENOSPC} : e < 0 /\ e # 0
  /\ \A r : Success(r).code = 0
  /\ \A e : Error(e).code = e
BY DEF Fs!ENOENT, Fs!ENOTDIR, Fs!EISDIR, Fs!EINVAL, Fs!EEXIST, Fs!ENOTEMPTY,
       ENOENT, ENOTDIR, EISDIR, EINVAL, EEXIST, ENOTEMPTY, ENOSPC, Success, Error

(* A call that is refused for one of its errors.                            *)
LEMMA Denied ==
  ASSUME NEW e, Refuse(e), e \in Fs!Errors(TreeOn(disk), Request)
  PROVE  Outcome(writes', ret', Request)
<1>1. writes' = <<>> /\ ret' = Error(e)
  BY DEF Refuse, Finish
<1> QED BY <1>1 DEF Outcome, Answers

(* One that finds no space.                                                 *)
LEMMA NoSpace ==
  ASSUME NEW S, Asked(S), call.op \in Growing, Refuse(ENOSPC), Fs!Errors(TreeOn(disk), Request) = {}
  PROVE  Outcome(writes', ret', Request)
<1>1. writes' = <<>> /\ ret' = Error(ENOSPC) /\ Request.op = call.op
  BY RequestIs DEF Refuse, Finish
<1> QED BY <1>1 DEF Outcome, Answers

(* Most calls return no value, and many change nothing.                     *)
LEMMA Unchanging ==
  ASSUME NEW t, NEW c
  PROVE  /\ c.op \in {"getattr", "readdir", "read", "chmod", "utime"} => Fs!After(t, c) = t
         /\ c.op \in Writing => Fs!Value(t, c) = NULL
BY DEF Fs!After, Fs!Value, Writing, Growing, Freeing

(* What the path of a call leads to.                                        *)
LEMMA Looked ==
  ASSUME NEW S, Asked(S)
  PROVE  LET t == TreeOn(disk)
             q == Request.path
             i == Translate(call.path)
         IN  /\ q \in Seq(Names)
             /\ \/ i < 0 /\ ~(i >= 0) /\ i # 0 /\ Fs!Resolve(t, q) = i /\ ~Fs!Exists(t, q)
                \/ /\ ~(i < 0) /\ i >= 0 /\ i \in S /\ Reaches(disk, q, i) /\ Fs!Resolve(t, q) = 0
                   /\ Fs!Exists(t, q) /\ Fs!Node(t, q) = Shown(disk, q, i)
                   /\ (Fs!IsDir(t, q) <=> disk[i].type = "dir")
<1> DEFINE t == TreeOn(disk)
           q == Request.path
           i == Translate(call.path)
<1>1. /\ Image /\ Sound(disk, S) /\ Distinct(disk) /\ call.path \in Seq(Names) /\ Len(call.path) <= MaxComponents
      /\ q = ClipPath(call.path)
  BY RequestIs DEF Asked, Ready
<1>2. Lookup(disk, S, q, i) /\ q \in Seq(Names)
  BY <1>1, TranslateIs, ClipIs
<1>3. CASE i < 0
  <2>1. i # 0 /\ i = Fs!Resolve(t, q) /\ \A j : ~Reaches(disk, q, j)
    BY <1>2, <1>3 DEF Lookup
  <2>2. ~(i >= 0)
    <3>1. i \in Int
      BY <1>1, TranslateReaches, NodesPositive
    <3> QED BY <1>3, <3>1
  <2> QED BY <1>1, <1>2, <1>3, <2>1, <2>2, ExistsIs
<1>4. CASE ~(i < 0)
  <2>1. i \in S /\ Reaches(disk, q, i) /\ Fs!Resolve(t, q) = 0
    BY <1>2, <1>4 DEF Lookup
  <2>2. i >= 0
    BY <1>1, <2>1, NodesPositive
  <2> QED BY <1>1, <1>2, <1>4, <2>1, <2>2, NodeIs1
<1> QED BY <1>3, <1>4

(* fs_chmod and fs_utime.                                                   *)
LEMMA TouchOutcome ==
  ASSUME NEW S, Asked(S), NEW op, op \in {"chmod", "utime"}, Touch(op)
  PROVE  Outcome(writes', ret', Request)
<1> DEFINE t == TreeOn(disk)
           i == Translate(call.path)
           c == Request
<1>1. c.op = op /\ c.op \in Writing
  BY RequestIs DEF Touch, Handling, Writing
<1>2. Fs!Errors(t, c) = {Fs!Resolve(t, c.path)} \ {0}
  BY <1>1, ErrorsAre
<1>3. CASE i < 0 /\ Refuse(i)
  <2>1. Fs!Resolve(t, c.path) = i /\ i # 0
    BY <1>3, Looked
  <2> QED BY <1>2, <1>3, <2>1, Denied
<1>4. CASE i >= 0 /\ Finish(<<Put(i, ReadInode(i))>>, Success(NULL))
  <2>0. Image /\ Sound(disk, S) /\ Distinct(disk)
    BY DEF Asked, Ready
  <2>1. i \in S /\ Fs!Resolve(t, c.path) = 0
    BY <1>4, Looked
  <2>2. i \in Space /\ ReadInode(i) = disk[i] /\ disk[i] \in InodeType
    BY <2>0, <2>1, InodeRead
  <2> DEFINE w == Put(i, ReadInode(i))
             ws == <<w>>
  <2>3. w \in WriteType /\ w.lba = i /\ w.lba # 1 /\ w.value = disk[i]
    BY <2>2, Contents, PutIs
  <2> HIDE DEF w
  <2>4. ws \in Seq(WriteType) /\ ws # <<>> /\ Len(ws) = 1 /\ ws[1] = w
    BY <2>3
  <2> HIDE DEF ws
  <2>5. ASSUME NEW k \in 0..1 PROVE Becomes(disk, ws, c.op, k, t)
    <3>1. \A b \in Space : b \in 1..(DiskSize - 1) /\ b # 1
      BY Sizes
    <3>2. ASSUME NEW e, DiskAfter(disk, ws, c.op, k, e) PROVE Alike(disk, e, S)
      <4>1. \A j \in 1..k : j = 1
        BY <2>5
      <4>2. ASSUME NEW b \in Space PROVE e[b] = disk[b]
        BY <2>3, <2>4, <3>1, <3>2, <4>1 DEF DiskAfter
      <4> QED BY <4>2 DEF Alike
    <3> QED BY <2>0, <3>2, AlikeTree DEF Becomes
  <2>6. Effect(t, t, Success(NULL), c)
    BY <1>1, Unchanging DEF Effect
  <2>7. /\ \A k \in 0..(Len(ws) - 1) : Becomes(disk, ws, c.op, k, t)
        /\ Becomes(disk, ws, c.op, Len(ws), t)
    BY <2>4, <2>5
  <2>8. ws[Len(ws)].lba # 1
    BY <2>3, <2>4
  <2>9. Fs!Errors(t, c) = {}
    BY <1>2, <2>1
  <2>10. Open(ws, Success(NULL), 0) /\ \E u : Plot(disk, ws, Success(NULL), c, u)
    BY <1>1, <2>4, <2>6, <2>7, <2>8, <2>9, LastPlot
  <2>11. writes' = ws /\ ret' = Success(NULL)
    BY <1>4 DEF Finish, ws, w
  <2> QED BY <2>4, <2>10, <2>11 DEF Outcome
<1> QED BY <1>3, <1>4 DEF Touch

(* A call that answers with what FsTree does.                               *)
LEMMA Told1 ==
  ASSUME NEW S, Asked(S), NEW v, Finish(<<>>, Success(v)), call.op \in {"getattr", "readdir", "read"},
         Fs!Errors(TreeOn(disk), Request) = {}, Fs!Value(TreeOn(disk), Request) = v
  PROVE  Outcome(writes', ret', Request)
<1>1. writes' = <<>> /\ ret' = Success(v) /\ Request.op = call.op
  BY RequestIs DEF Finish
<1>2. Fs!After(TreeOn(disk), Request) = TreeOn(disk)
  BY <1>1, Unchanging
<1> QED BY <1>1, <1>2 DEF Outcome, Answers

(* The bytes of a file are as many as its size says.                        *)
LEMMA TextLength ==
  ASSUME NEW e, NEW i, e[i].size \in Nat
  PROVE  Len(Text(e, i)) = e[i].size
<1> DEFINE s == e[i].size
           b == Text(e, i)
           V == {b[j] : j \in 1..s}
<1>1. b = [j \in 1..s |-> b[j]]
  BY DEF Text
<1> HIDE DEF s, b
<1>2. s \in Nat /\ \A j \in 1..s : b[j] \in V
  BY DEF s
<1> HIDE DEF V
<1>3. b \in Seq(V) /\ Len(b) = s
  BY <1>1, <1>2
<1> QED BY <1>3 DEF b, s

(* fs_getattr.                                                              *)
LEMMA GetattrOutcome ==
  ASSUME NEW S, Asked(S), Getattr
  PROVE  Outcome(writes', ret', Request)
<1> DEFINE t == TreeOn(disk)
           i == Translate(call.path)
           c == Request
           v == [type |-> ReadInode(i).type, size |-> ReadInode(i).size]
<1>1. c.op = "getattr" /\ call.op = "getattr"
  BY RequestIs DEF Getattr, Handling
<1>2. Fs!Errors(t, c) = {Fs!Resolve(t, c.path)} \ {0}
  BY <1>1, ErrorsAre
<1>3. CASE i < 0 /\ Refuse(i)
  <2>1. Fs!Resolve(t, c.path) = i /\ i # 0
    BY <1>3, Looked
  <2> QED BY <1>2, <1>3, <2>1, Denied
<1>4. CASE i >= 0 /\ Finish(<<>>, Success(v))
  <2>0. Image /\ Sound(disk, S)
    BY DEF Asked, Ready
  <2>1. i \in S /\ Fs!Resolve(t, c.path) = 0 /\ Fs!Node(t, c.path) = Shown(disk, c.path, i)
    BY <1>4, Looked
  <2>2. ReadInode(i) = disk[i] /\ disk[i] \in InodeType
    BY <2>0, <2>1, InodeRead
  <2>3. disk[i].size \in Nat /\ disk[i].type \in {"dir", "file"}
    <3>1. disk[i].size \in 0..MaxFile /\ disk[i].type \in {"dir", "file"}
      BY <2>2 DEF InodeType
    <3> QED BY <3>1
  <2>4. disk[i].type = "dir" => disk[i].size = BlockSize
    BY <2>0, <2>1 DEF Sound, Heads, Dirs
  <2>5. Fs!Value(t, c) = Fs!Stat(Shown(disk, c.path, i))
    BY <1>1, <2>1 DEF Fs!Value
  <2>6. Fs!Stat(Shown(disk, c.path, i)) = v
    <3>1. Shown(disk, c.path, i).type = disk[i].type
      BY DEF Shown
    <3>2. disk[i].type # "dir" => Len(Shown(disk, c.path, i).bytes) = disk[i].size
      BY <2>3, TextLength DEF Shown
    <3>3. v = [type |-> disk[i].type, size |-> disk[i].size]
      BY <2>2
    <3> HIDE DEF v
    <3> QED BY <2>4, <3>1, <3>2, <3>3 DEF Fs!Stat
  <2> QED BY <1>1, <1>2, <1>4, <2>1, <2>5, <2>6, Told1
<1> QED BY <1>3, <1>4 DEF Getattr

(* The children of a directory are its entries.                             *)
LEMMA ChildrenAre ==
  ASSUME NEW e, NEW S, Sound(e, S), Distinct(e), NEW p, NEW i, Reaches(e, p, i), NEW q
  PROVE  q \in Fs!Children(TreeOn(e), p) <=> \E n \in Names : \E j : Hop(e, i, n, j) /\ q = Append(p, n)
<1>0. p \in Seq(Names) /\ i \in S
  BY ReachesIn
<1>1. q \in Fs!Children(TreeOn(e), p) <=> q # <<>> /\ Front(q) = p /\ \E j : Reaches(e, q, j)
  <2>1. q \in {x.path : x \in TreeOn(e)} <=> Fs!Exists(TreeOn(e), q)
    BY DEF Fs!Exists
  <2>2. q \in {x.path : x \in TreeOn(e)} <=> \E j : Reaches(e, q, j)
    BY <2>1, ExistsIs
  <2> QED BY <2>2 DEF Fs!Children, Fs!Front, Front
<1>2. ASSUME q # <<>>, Front(q) = p, NEW j, Reaches(e, q, j)
      PROVE  \E n \in Names : \E k : Hop(e, i, n, k) /\ q = Append(p, n)
  <2>1. q \in Seq(Names)
    BY <1>2, ReachesIn
  <2>2. Last(q) \in Names /\ q = Append(p, Last(q))
    BY <1>2, <2>1, Fronted
  <2>3. PICK k : Reaches(e, p, k) /\ Hop(e, k, Last(q), j)
    BY <1>0, <1>2, <2>2, ReachesOn
  <2>4. k = i
    BY <2>3, NodeUnique
  <2> QED BY <2>2, <2>3, <2>4
<1>3. ASSUME NEW n \in Names, NEW j, Hop(e, i, n, j), q = Append(p, n)
      PROVE  q # <<>> /\ Front(q) = p /\ \E k : Reaches(e, q, k)
  <2>1. Reaches(e, q, j)
    BY <1>0, <1>3, ReachesOn
  <2> QED BY <1>0, <1>3, <2>1, Appended
<1> QED BY <1>1, <1>2, <1>3

(* fs_readdir.                                                              *)
LEMMA ReaddirOutcome ==
  ASSUME NEW S, Asked(S), Readdir
  PROVE  Outcome(writes', ret', Request)
<1> DEFINE t == TreeOn(disk)
           i == Translate(call.path)
           c == Request
           v == {Entries(i)[s].name : s \in Used(i)}
<1>0. Image /\ Sound(disk, S) /\ Distinct(disk)
  BY DEF Asked, Ready
<1>1. c.op = "readdir" /\ call.op = "readdir"
  BY RequestIs DEF Readdir, Handling
<1>2. Fs!Errors(t, c)
        = (IF Fs!Exists(t, c.path) /\ ~Fs!IsDir(t, c.path) THEN {Fs!ENOTDIR} ELSE {Fs!Resolve(t, c.path)}) \ {0}
  BY <1>1, ErrorsAre
<1>3. CASE i < 0 /\ Refuse(i)
  <2>1. Fs!Resolve(t, c.path) = i /\ i # 0 /\ ~Fs!Exists(t, c.path)
    BY <1>3, Looked
  <2> QED BY <1>2, <1>3, <2>1, Denied
<1>4. CASE i >= 0 /\ ~IsDir(i) /\ Refuse(ENOTDIR)
  <2>1. i \in S /\ Fs!Exists(t, c.path) /\ (Fs!IsDir(t, c.path) <=> disk[i].type = "dir")
    BY <1>4, Looked
  <2>2. ~Fs!IsDir(t, c.path)
    BY <1>0, <1>4, <2>1, HopRead
  <2> QED BY <1>2, <1>4, <2>1, <2>2, ErrorCodes, Denied
<1>5. CASE i >= 0 /\ IsDir(i) /\ Finish(<<>>, Success(v))
  <2>1. i \in S /\ Fs!Resolve(t, c.path) = 0 /\ (Fs!IsDir(t, c.path) <=> disk[i].type = "dir")
        /\ Reaches(disk, c.path, i)
    BY <1>5, Looked
  <2>2. Fs!IsDir(t, c.path)
    BY <1>0, <1>5, <2>1, HopRead
  <2>3. Fs!Value(t, c) = {Last(q) : q \in Fs!Children(t, c.path)}
    BY <1>1 DEF Fs!Value, Fs!Last, Last
  <2>p. c.path \in Seq(Names)
    BY <2>1, ReachesIn, <1>0
  <2>4. ASSUME NEW q \in Fs!Children(t, c.path) PROVE Last(q) \in v
    <3>0. PICK n \in Names : \E j : Hop(disk, i, n, j) /\ q = Append(c.path, n)
      BY <1>0, <2>1, <2>4, ChildrenAre
    <3>1. PICK j : Hop(disk, i, n, j) /\ q = Append(c.path, n)
      BY <3>0
    <3>2. Last(q) = n
      BY <2>p, <3>1, Appended
    <3>3. PICK s \in Used(i) : Entries(i)[s].name = n /\ Entries(i)[s].inode = j
      BY <1>0, <2>1, <3>1, HopRead
    <3> QED BY <3>2, <3>3
  <2>5. ASSUME NEW s \in Used(i) PROVE \E q \in Fs!Children(t, c.path) : Last(q) = Entries(i)[s].name
    <3> DEFINE n == Entries(i)[s].name
               j == Entries(i)[s].inode
    <3>1. Hop(disk, i, n, j)
      BY <1>0, <1>5, <2>1, HopRead
    <3>2. n \in Names
      BY <1>0, <2>1, <3>1, HopIs
    <3> HIDE DEF n, j
    <3>3. Append(c.path, n) \in Fs!Children(t, c.path)
      BY <1>0, <2>1, <3>1, <3>2, ChildrenAre
    <3>4. Last(Append(c.path, n)) = n
      BY <2>p, <3>2, Appended
    <3> QED BY <3>3, <3>4 DEF n
  <2>6. Fs!Value(t, c) = v
    <3> HIDE DEF t, c, i
    <3> QED BY <2>3, <2>4, <2>5
  <2>7. Fs!Errors(t, c) = {}
    BY <1>2, <2>1, <2>2
  <2> QED BY <1>1, <1>5, <2>6, <2>7, Told1
<1> QED BY <1>3, <1>4, <1>5 DEF Readdir

(* What the calls on files look at first.                                   *)
LEMMA LookedFile ==
  ASSUME NEW S, Asked(S)
  PROVE  LET t == TreeOn(disk)
             q == Request.path
             i == Translate(call.path)
         IN  /\ FileError(i) = Fs!ResolveFile(t, q)
             /\ FileError(i) = 0
                  => /\ i \in S \ Dirs(disk, S) /\ Reaches(disk, q, i) /\ disk[i] \in InodeType
                     /\ ReadInode(i) = disk[i] /\ disk[i].type = "file" /\ disk[i].size \in Nat
                     /\ Fs!Node(t, q).bytes = Text(disk, i) /\ Len(Text(disk, i)) = disk[i].size
<1> DEFINE t == TreeOn(disk)
           q == Request.path
           i == Translate(call.path)
<1>0. Image /\ Sound(disk, S) /\ Ready(S)
  BY DEF Asked, Ready
<1>1. CASE i < 0
  <2>1. ~(i >= 0) /\ i # 0 /\ Fs!Resolve(t, q) = i
    BY <1>1, Looked
  <2>2. FileError(i) = i
    BY <1>1 DEF FileError
  <2> QED BY <2>1, <2>2 DEF Fs!ResolveFile
<1>2. CASE ~(i < 0)
  <2>1. /\ i \in S /\ Reaches(disk, q, i) /\ Fs!Resolve(t, q) = 0
        /\ Fs!Node(t, q) = Shown(disk, q, i)
        /\ (Fs!IsDir(t, q) <=> disk[i].type = "dir")
    BY <1>2, Looked
  <2>2. ReadInode(i) = disk[i] /\ disk[i] \in InodeType /\ (IsFile(i) <=> i \notin Dirs(disk, S))
        /\ (i \in Dirs(disk, S) <=> disk[i].type = "dir")
    BY <1>0, <2>1, InodeRead DEF Dirs
  <2>3. FileError(i) = (IF disk[i].type = "dir" THEN EISDIR ELSE 0)
    BY <1>2, <2>2 DEF FileError
  <2>4. Fs!ResolveFile(t, q) = (IF disk[i].type = "dir" THEN EISDIR ELSE 0)
    BY <2>1, ErrorCodes DEF Fs!ResolveFile
  <2>5. disk[i].type # "dir" => disk[i].type = "file" /\ disk[i].size \in Nat
    <3>1. disk[i].type \in {"dir", "file"} /\ disk[i].size \in 0..MaxFile
      BY <2>2 DEF InodeType
    <3> QED BY <3>1
  <2>6. disk[i].type # "dir" => Len(Text(disk, i)) = disk[i].size /\ Fs!Node(t, q).bytes = Text(disk, i)
    BY <2>1, <2>5, TextLength DEF Shown
  <2>7. EISDIR # 0
    BY ErrorCodes
  <2> QED BY <2>1, <2>2, <2>3, <2>4, <2>5, <2>6, <2>7
<1> QED BY <1>1, <1>2

(* fs_read.                                                                 *)
LEMMA ReadOutcome ==
  ASSUME NEW S, Asked(S), Read
  PROVE  Outcome(writes', ret', Request)
<1> DEFINE t == TreeOn(disk)
           i == Translate(call.path)
           c == Request
           end == IF call.off + call.len > ReadInode(i).size THEN ReadInode(i).size
                  ELSE call.off + call.len
           v == SubSeq(Content(i), call.off + 1, end)
<1>0. Image /\ Sound(disk, S)
  BY DEF Asked, Ready
<1>1. c.op = "read" /\ call.op = "read" /\ c.off = call.off /\ c.len = call.len
  BY RequestIs DEF Read, Handling
<1>2. Fs!Errors(t, c) = {Fs!ResolveFile(t, c.path)} \ {0} /\ Fs!ResolveFile(t, c.path) = FileError(i)
  BY <1>1, ErrorsAre, LookedFile
<1>3. CASE FileError(i) # 0 /\ Refuse(FileError(i))
  BY <1>2, <1>3, Denied
<1>4. CASE FileError(i) = 0 /\ Finish(<<>>, Success(v))
  <2>1. /\ i \in S \ Dirs(disk, S) /\ ReadInode(i) = disk[i]
        /\ Fs!Node(t, c.path).bytes = Text(disk, i) /\ Len(Text(disk, i)) = disk[i].size
    BY <1>4, LookedFile
  <2>2. Content(i) = Text(disk, i)
    BY <1>0, <2>1, TextRead
  <2>3. Fs!Value(t, c) = Fs!Slice(Text(disk, i), call.off, call.len)
    BY <1>1, <2>1 DEF Fs!Value
  <2>4. Fs!Slice(Text(disk, i), call.off, call.len) = v
    BY <2>1, <2>2 DEF Fs!Slice
  <2> QED BY <1>1, <1>2, <1>4, <2>3, <2>4, Told1
<1> QED BY <1>3, <1>4 DEF Read
----------------------------------------------------------------------------
(* The calls that change an entry of a directory. *)

\* Directory d of path q is there, with entries for its last component n or without.
Parent(S, q, n, d) ==
  /\ d \in S /\ ~(d < 0) /\ d >= 0 /\ Fs!ResolveParent(TreeOn(disk), q) = 0
  /\ q \in Seq(Names) /\ q # <<>> /\ Front(q) \in Seq(Names) /\ n \in Names /\ q = Append(Front(q), n)
  /\ Reaches(disk, Front(q), d)
  /\ (Fs!IsDir(TreeOn(disk), Front(q)) <=> disk[d].type = "dir") /\ (IsDir(d) <=> disk[d].type = "dir")
\* The node that last component leads to, if there is one.
LeafLeads(S, q, n, d) ==
  /\ Fs!Exists(TreeOn(disk), q) <=> Named(d, n) # {}
  /\ Named(d, n) # {} => /\ d \in Dirs(disk, S) /\ Found(d, n) \in S \ {Root}
                         /\ Hop(disk, d, n, Found(d, n)) /\ Reaches(disk, q, Found(d, n))
  /\ Named(d, n) = {} => \A j : ~Hop(disk, d, n, j)

(* What the directory of a path leads to, and its last component.           *)
LEMMA LookedParent ==
  ASSUME NEW S, Asked(S), NEW p \in Seq(Names), Len(p) <= MaxComponents
  PROVE  LET q == ClipPath(p)
             d == LookupParent(p)
         IN  \/ d < 0 /\ ~(d >= 0) /\ d # 0 /\ Fs!ResolveParent(TreeOn(disk), q) = d
             \/ Parent(S, q, Leaf(p), d) /\ LeafLeads(S, q, Leaf(p), d)
<1> DEFINE t == TreeOn(disk)
           q == ClipPath(p)
           d == LookupParent(p)
           n == Leaf(p)
<1>0. Image /\ Sound(disk, S) /\ Distinct(disk)
  BY DEF Asked, Ready
<1>1. LookupFront(disk, S, q, d) /\ d \in Int
  BY <1>0, ParentIs, ParentReaches
<1>2. q = <<>> <=> p = <<>>
  BY ClipIs
<1>3. CASE d < 0
  <2>1. d # 0 /\ d = Fs!ResolveParent(t, q)
    BY <1>1, <1>3 DEF LookupFront
  <2>2. ~(d >= 0)
    BY <1>1, <1>3
  <2> QED BY <1>3, <2>1, <2>2
<1>4. CASE ~(d < 0)
  <2>1. d \in S /\ q # <<>> /\ Reaches(disk, Front(q), d) /\ Fs!ResolveParent(t, q) = 0
    BY <1>1, <1>4 DEF LookupFront
  <2>2. d >= 0
    BY <1>1, <1>4
  <2>3. /\ q \in Seq(Names) /\ Front(q) \in Seq(Names) /\ n = Last(q) /\ n \in Names
        /\ q = Append(Front(q), n)
    BY <1>2, <2>1, ClipParts
  <2>4. Fs!IsDir(t, Front(q)) <=> disk[d].type = "dir"
    BY <1>0, <2>1, NodeIs1
  <2>5. IsDir(d) <=> disk[d].type = "dir"
    BY <1>0, <2>1, HopRead
  <2>6. Parent(S, q, n, d)
    BY <1>4, <2>1, <2>2, <2>3, <2>4, <2>5 DEF Parent
  <2> HIDE DEF t, q, d, n
  <2>7. \A j : Hop(disk, d, n, j) => Reaches(disk, q, j)
    BY <2>1, <2>3, ReachesOn
  <2>8. \A j : Reaches(disk, q, j) => Hop(disk, d, n, j)
    <3>1. ASSUME NEW j, Reaches(disk, q, j) PROVE Hop(disk, d, n, j)
      <4>1. PICK i : Reaches(disk, Front(q), i) /\ Hop(disk, i, n, j)
        BY <2>3, <3>1, ReachesOn
      <4>2. i = d
        BY <1>0, <2>1, <4>1, NodeUnique
      <4> QED BY <4>1, <4>2
    <3> QED BY <3>1
  <2>9. Fs!Exists(t, q) <=> \E j : Reaches(disk, q, j)
    BY <1>0, ExistsIs DEF t
  <2>10. CASE Named(d, n) # {}
    <3>1. /\ d \in Dirs(disk, S) /\ Found(d, n) \in S \ {Root}
          /\ Lowest(Named(d, n)) \in Slots
          /\ At(disk, d, Lowest(Named(d, n))) # NULL
          /\ At(disk, d, Lowest(Named(d, n))).name = n
          /\ Found(d, n) = At(disk, d, Lowest(Named(d, n))).inode
      BY <1>0, <2>1, <2>10, NameFound
    <3>2. Hop(disk, d, n, Found(d, n))
      BY <3>1 DEF Hop, Dirs
    <3> QED BY <2>6, <2>7, <2>9, <2>10, <3>1, <3>2 DEF LeafLeads, t, q, d, n
  <2>11. CASE Named(d, n) = {}
    <3>1. \A j : ~Hop(disk, d, n, j)
      BY <1>0, <2>1, <2>11, HopRead DEF Named
    <3> QED BY <2>6, <2>8, <2>9, <2>11, <3>1 DEF LeafLeads, t, q, d, n
  <2> QED BY <2>10, <2>11
<1> QED BY <1>3, <1>4

(* fs_create and fs_mkdir look at what FsTree does.                         *)
LEMMA AddLooked ==
  ASSUME NEW S, Asked(S), call.op \in {"create", "mkdir"}
  PROVE  LET p == call.path
             d == LookupParent(p)
             E == Fs!Errors(TreeOn(disk), Request)
         IN  /\ AddError(p) # 0 => AddError(p) \in E
             /\ AddError(p) = 0
                  => /\ E = {} /\ Parent(S, Request.path, Leaf(p), d) /\ LeafLeads(S, Request.path, Leaf(p), d)
                     /\ Named(d, Leaf(p)) = {} /\ d \in Dirs(disk, S)
<1> DEFINE t == TreeOn(disk)
           p == call.path
           q == Request.path
           d == LookupParent(p)
           n == Leaf(p)
           E == Fs!Errors(t, Request)
<1>1. p \in Seq(Names) /\ Len(p) <= MaxComponents /\ q = ClipPath(p) /\ Request.op = call.op
  BY RequestIs
<1>2. \/ d < 0 /\ ~(d >= 0) /\ d # 0 /\ Fs!ResolveParent(t, q) = d
      \/ Parent(S, q, n, d) /\ LeafLeads(S, q, n, d)
  BY <1>1, LookedParent
<1>3. /\ Fs!ResolveParent(t, q) # 0 => E = {Fs!ResolveParent(t, q)}
      /\ Fs!ResolveParent(t, q) = 0
           => E = IF ~Fs!IsDir(t, Front(q)) THEN {Fs!ENOTDIR} ELSE IF Fs!Exists(t, q) THEN {Fs!EEXIST} ELSE {}
  BY <1>1, ErrorsAre
<1>4. AddError(p) = CASE d < 0 -> d
                      [] d >= 0 /\ ~IsDir(d) -> ENOTDIR
                      [] d >= 0 /\ IsDir(d) -> IF Named(d, n) # {} THEN EEXIST ELSE 0
  BY DEF AddError
<1>5. Fs!ENOTDIR = ENOTDIR /\ Fs!EEXIST = EEXIST /\ ENOTDIR # 0 /\ EEXIST # 0
  BY ErrorCodes
<1> HIDE DEF t, q, d, n, E
<1>6. CASE d < 0 /\ ~(d >= 0) /\ d # 0 /\ Fs!ResolveParent(t, q) = d
  <2>1. AddError(p) = d
    BY <1>4, <1>6
  <2> QED BY <1>3, <1>6, <2>1 DEF t, q, d, n, E
<1>7. CASE Parent(S, q, n, d) /\ LeafLeads(S, q, n, d)
  <2>1. /\ ~(d < 0) /\ d >= 0 /\ d \in S /\ Fs!ResolveParent(t, q) = 0
        /\ (Fs!IsDir(t, Front(q)) <=> disk[d].type = "dir") /\ (IsDir(d) <=> disk[d].type = "dir")
        /\ (Fs!Exists(t, q) <=> Named(d, n) # {})
    BY <1>7 DEF Parent, LeafLeads, t
  <2>2. CASE ~IsDir(d)
    <3>1. AddError(p) = ENOTDIR /\ E = {ENOTDIR}
      BY <1>3, <1>4, <1>5, <2>1, <2>2
    <3> QED BY <1>5, <3>1 DEF t, q, d, n, E
  <2>3. CASE IsDir(d) /\ Named(d, n) # {}
    <3>1. AddError(p) = EEXIST /\ E = {EEXIST}
      BY <1>3, <1>4, <1>5, <2>1, <2>3
    <3> QED BY <1>5, <3>1 DEF t, q, d, n, E
  <2>4. CASE IsDir(d) /\ Named(d, n) = {}
    <3>1. AddError(p) = 0 /\ E = {} /\ d \in Dirs(disk, S)
      BY <1>3, <1>4, <2>1, <2>4 DEF Dirs
    <3> QED BY <1>7, <2>4, <3>1 DEF t, q, d, n, E
  <2> QED BY <2>2, <2>3, <2>4
<1> QED BY <1>2, <1>6, <1>7

(* Calls that take blocks and find no more.                                 *)
LEMMA TakesOutcome ==
  ASSUME NEW S, Asked(S), NEW ws, Takes(S, ws), call.op \in Growing,
         Finish(ws, Error(ENOSPC)), Fs!Errors(TreeOn(disk), Request) = {}
  PROVE  Outcome(writes', ret', Request)
<1> DEFINE t == TreeOn(disk)
           c == Request
           r == Error(ENOSPC)
<1>1. Sound(disk, S) /\ Distinct(disk)
  BY DEF Asked, Ready
<1>2. /\ ws \in Seq(WriteType) /\ ws # <<>> /\ Len(ws) \in Nat
      /\ \A j \in 1..Len(ws) : ws[j].lba = 1 \/ ws[j].lba \notin Taken(disk, S)
  BY DEF Takes
<1>3. c.op = call.op /\ c.op \in Growing /\ c.op \in Writing /\ Fs!Growing = Growing /\ Fs!Writing = Writing
  BY RequestIs DEF Growing, Writing, Fs!Growing, Fs!Writing, Freeing, Fs!Freeing
<1> HIDE DEF c
<1>4. ASSUME NEW k \in 0..Len(ws) PROVE Becomes(disk, ws, c.op, k, t)
  <2>1. k \in Nat /\ \A j \in 1..k : ws[j].lba = 1 \/ ws[j].lba \notin Taken(disk, S)
    BY <1>2
  <2> QED BY <1>1, <2>1, OutsideBecomes
<1>5. Effect(t, t, r, c)
  BY <1>3 DEF Effect
<1>6. r.code # 0
  BY ErrorCodes
<1>7. /\ \A k \in 0..(Len(ws) - 1) : Becomes(disk, ws, c.op, k, t)
      /\ Becomes(disk, ws, c.op, Len(ws), t)
  BY <1>2, <1>4
<1> HIDE DEF t, r
<1>8. Fs!Errors(t, c) = {}
  BY DEF t, c
<1>9. Open(ws, r, 0) /\ \E v : Plot(disk, ws, r, c, v)
  BY <1>2, <1>3, <1>5, <1>6, <1>7, <1>8, LastPlot
<1>10. writes' = ws /\ ret' = r
  BY DEF Finish, r
<1> QED BY <1>2, <1>9, <1>10 DEF Outcome, c

(* A file of no bytes.                                                      *)
LEMMA NoText == ASSUME NEW e, NEW i, e[i].size = 0 PROVE Text(e, i) = <<>>
<1>1. Text(e, i) = [j \in 1..0 |-> Byte(e, i, j)]
  BY DEF Text
<1>2. Text(e, i) \in Seq({}) /\ Len(Text(e, i)) = 0
  BY <1>1
<1> QED BY <1>2

(* Calls that make a node and an entry for it.                              *)
LEMMA LinksOutcome ==
  ASSUME NEW S, Asked(S), NEW d, NEW n, NEW v, NEW ty, NEW ws, Links(S, d, n, v, ty, ws),
         Parent(S, Request.path, n, d), LeafLeads(S, Request.path, n, d), Named(d, n) = {},
         call.op \in Growing, Finish(ws, Success(NULL)), Fs!Errors(TreeOn(disk), Request) = {},
         ty \in {"file", "dir"},
         Fs!After(TreeOn(disk), Request)
           = Fs!With(TreeOn(disk), [path |-> Request.path, type |-> ty, bytes |-> <<>>])
  PROVE  Outcome(writes', ret', Request)
<1> DEFINE t == TreeOn(disk)
           c == Request
           r == Success(NULL)
           q == c.path
           p == Front(q)
           w == Len(ws)
           h == Head0(disk, d)
           op == c.op
           node == [path |-> q, type |-> ty, bytes |-> <<>>]
           u == t \cup {node}
<1>1. Sound(disk, S) /\ Distinct(disk)
  BY DEF Asked, Ready
<1>2. /\ ws \in Seq(WriteType) /\ w \in Nat /\ call.op \notin Freeing
      /\ d \in Dirs(disk, S) /\ n \in Names /\ v \in Space /\ v \notin Taken(disk, S)
      /\ \A j \in 1..(w - 1) : ws[j].lba = 1 \/ ws[j].lba \notin Taken(disk, S)
      /\ ws[w].lba = h /\ ws[w].value \in DirType
  BY DEF Links, Typed
<1>3. PICK k : NewNode(S, call.op, v, ty, ws, k)
  BY DEF Links
<1>4. PICK s \in Slots : NewEntry(d, n, v, ws[w], s)
  BY DEF Links
<1>5. op = call.op /\ op \in Growing /\ op \in Writing
  BY RequestIs DEF Growing, Writing
<1>6. w \in 1..w /\ w # 0 /\ h # 1 /\ h \in Space /\ h \in 1..(DiskSize - 1)
  <2>1. k \in 1..(w - 1)
    BY <1>3 DEF NewNode, Begins
  <2>2. h \in Space
    BY <1>1, <1>2, TakenAre
  <2>3. h # 1 /\ h \in 1..(DiskSize - 1)
    BY <2>2, Sizes
  <2>4. w \in 1..w /\ w # 0
    BY <1>2, <2>1
  <2> QED BY <2>2, <2>3, <2>4
<1>7. ASSUME NEW l \in 0..(w - 1) PROVE Becomes(disk, ws, op, l, t)
  <2>1. l \in Nat /\ \A j \in 1..l : ws[j].lba = 1 \/ ws[j].lba \notin Taken(disk, S)
    BY <1>2
  <2> QED BY <1>1, <2>1, OutsideBecomes
<1>8. ASSUME NEW e, DiskAfter(disk, ws, op, w, e) PROVE Distinct(e) /\ TreeOn(e) = u
  <2>1. Fresh(e, v) /\ Apart(disk, e, S, v) /\ e[v].type = ty
    BY <1>3, <1>5, <1>8 DEF NewNode
  <2>2. e[h] = ws[w].value
    <3>1. Latest(ws, w, h, w)
      <4>1. (w + 1)..w = {}
        BY <1>2
      <4> QED BY <1>2, <4>1 DEF Latest
    <3> HIDE DEF h, w, op
    <3> QED BY <1>2, <1>6, <1>8, <3>1, BlockAfter
  <2>3. ASSUME NEW b \in Space, b \in Taken(disk, S), b # h PROVE e[b] = disk[b]
    <3>1. b \in 1..(DiskSize - 1) /\ b # 1
      BY Sizes
    <3>2. \A j \in 1..w : ws[j].lba # b
      <4>1. \A j \in 1..w : j = w \/ j \in 1..(w - 1)
        BY <1>2
      <4> QED BY <1>2, <2>3, <3>1, <4>1
    <3>3. None(ws, w, b)
      BY <3>2 DEF None
    <3> QED BY <1>8, <3>1, <3>3, BlockAfter
  <2>4. Besides(disk, e, S, d)
    BY <1>2, <2>2, <2>3 DEF Besides
  <2>5. Head0(e, d) = h
    BY <1>1, <1>2, <2>4, HeadStays
  <2>6. Enters(disk, e, d, s, v) /\ At(e, d, s) # NULL /\ At(e, d, s).name = n
    BY <1>4, <2>2, <2>5 DEF NewEntry, Enters, At
  <2>7. /\ \A j : ~Hop(disk, d, n, j)
        /\ Reaches(disk, p, d) /\ q = Append(p, n)
    BY DEF Parent, LeafLeads
  <2>8. Distinct(e) /\ \A x : x \in TreeOn(e) <=> x \in t \/ x = Shown(e, q, v)
    <3> HIDE DEF p, q
    <3> QED BY <1>1, <1>2, <2>1, <2>4, <2>6, <2>7, TreeAdded
  <2>9. Shown(e, q, v) = node
    <3>1. ty = "file" => Text(e, v) = <<>>
      BY <2>1, NoText DEF Fresh
    <3> QED BY <2>1, <3>1 DEF Shown
  <2> QED BY <2>8, <2>9
<1>9. Becomes(disk, ws, op, w, u)
  BY <1>8 DEF Becomes
<1>10. u = Fs!After(t, c)
  <2>1. Fs!After(t, c) = Fs!With(t, node)
    OBVIOUS
  <2>2. \A x \in t : x.path # q
    BY DEF LeafLeads, Fs!Exists
  <2> HIDE DEF t
  <2> QED BY <2>1, <2>2 DEF Fs!With, Fs!Without
<1>11. Effect(t, u, r, c)
  <2>1. Fs!Value(t, c) = NULL
    BY <1>5, Unchanging
  <2>2. Fs!Success(NULL) = Success(NULL)
    BY DEF Fs!Success, Success
  <2> QED BY <1>10, <2>1, <2>2 DEF Effect
<1>12. ws[w].lba # 1
  BY <1>2, <1>6
<1>13. ws # <<>>
  BY <1>2, <1>6, EmptySeq
<1>14. \A l \in 0..(w - 1) : Becomes(disk, ws, op, l, t)
  BY <1>7
<1>15. Fs!Errors(t, c) = {}
  OBVIOUS
<1> HIDE DEF t, c, r, u
<1>16. Open(ws, r, 0) /\ \E z : Plot(disk, ws, r, c, z)
  BY <1>2, <1>5, <1>9, <1>11, <1>12, <1>13, <1>14, <1>15, LastPlot
<1>17. writes' = ws /\ ret' = r
  BY DEF Finish, r
<1> QED BY <1>13, <1>16, <1>17 DEF Outcome, c

(* fs_create. *)
LEMMA CreateOutcome ==
  ASSUME NEW S, Asked(S), Create
  PROVE  Outcome(writes', ret', Request)
<1> DEFINE t == TreeOn(disk)
           c == Request
           d == LookupParent(call.path)
           got == Allocated(1)
           inode == <<Put(got[1], Inode("file", 0, NoPtrs))>>
           n == Leaf(call.path)
           ws == LinkLast(MarkUsed(got), inode, PutEntry(d, n, got[1]))
<1>0. Ready(S)
  BY DEF Asked
<1>1. call.op = "create" /\ c.op = "create" /\ call.op \in Growing
  BY RequestIs DEF Create, Handling, Growing
<1>2. /\ AddError(call.path) # 0 => AddError(call.path) \in Fs!Errors(t, c)
      /\ AddError(call.path) = 0
           => /\ Fs!Errors(t, c) = {} /\ Parent(S, c.path, n, d) /\ LeafLeads(S, c.path, n, d)
              /\ Named(d, n) = {}
  BY <1>1, AddLooked
<1>3. CASE AddError(call.path) # 0 /\ Refuse(AddError(call.path))
  BY <1>2, <1>3, Denied
<1>4. CASE AddError(call.path) = 0 /\ got = <<>> /\ Refuse(ENOSPC)
  BY <1>1, <1>2, <1>4, NoSpace
<1>5. CASE AddError(call.path) = 0 /\ got # <<>> /\ Finish(MarkUsed(got) \o inode, Error(ENOSPC))
  <2>1. Takes(S, MarkUsed(got) \o inode)
    BY <1>0, <1>5, CreateTakes
  <2> QED BY <1>1, <1>2, <1>5, <2>1, TakesOutcome
<1>6. CASE AddError(call.path) = 0 /\ got # <<>> /\ FreeSlots(d) # {} /\ Finish(ws, Success(NULL))
  <2>1. Links(S, d, n, got[1], "file", ws)
    BY <1>0, <1>1, <1>6, CreateLinks
  <2>2. Fs!After(t, c) = Fs!With(t, [path |-> c.path, type |-> "file", bytes |-> <<>>])
    BY <1>1 DEF Fs!After, Fs!File
  <2> DEFINE v == got[1]
             ty == "file"
  <2>3. Links(S, d, n, v, ty, ws) /\ ty \in {"file", "dir"}
        /\ Fs!After(t, c) = Fs!With(t, [path |-> c.path, type |-> ty, bytes |-> <<>>])
    BY <2>1, <2>2
  <2> HIDE DEF d, n, v, ty, ws
  <2> QED BY <1>1, <1>2, <1>6, <2>3, LinksOutcome
<1> QED BY <1>3, <1>4, <1>5, <1>6 DEF Create

(* fs_mkdir. *)
LEMMA MkdirOutcome ==
  ASSUME NEW S, Asked(S), Mkdir
  PROVE  Outcome(writes', ret', Request)
<1> DEFINE t == TreeOn(disk)
           c == Request
           d == LookupParent(call.path)
           got == Allocated(2)
           blocks == <<Put(got[2], DirBlock(EmptyDir)),
                       Put(got[1], Inode("dir", BlockSize, [NoPtrs EXCEPT ![0] = got[2]]))>>
           n == Leaf(call.path)
           ws == LinkLast(MarkUsed(got), blocks, PutEntry(d, n, got[1]))
<1>0. Ready(S)
  BY DEF Asked
<1>1. call.op = "mkdir" /\ c.op = "mkdir" /\ call.op \in Growing
  BY RequestIs DEF Mkdir, Handling, Growing
<1>2. /\ AddError(call.path) # 0 => AddError(call.path) \in Fs!Errors(t, c)
      /\ AddError(call.path) = 0
           => /\ Fs!Errors(t, c) = {} /\ Parent(S, c.path, n, d) /\ LeafLeads(S, c.path, n, d)
              /\ Named(d, n) = {}
  BY <1>1, AddLooked
<1>3. CASE AddError(call.path) # 0 /\ Refuse(AddError(call.path))
  BY <1>2, <1>3, Denied
<1>4. CASE AddError(call.path) = 0 /\ Len(got) < 2 /\ Finish(MarkUsed(got), Error(ENOSPC))
  <2>1. CASE got = <<>>
    <3>1. Refuse(ENOSPC)
      BY <1>4, <2>1, MarkNone DEF Refuse
    <3> QED BY <1>1, <1>2, <1>4, <3>1, NoSpace
  <2>2. CASE got # <<>>
    <3>1. Takes(S, MarkUsed(got))
      BY <1>0, <2>2, MarksTake
    <3> QED BY <1>1, <1>2, <1>4, <3>1, TakesOutcome
  <2> QED BY <2>1, <2>2
<1>5. CASE AddError(call.path) = 0 /\ Len(got) = 2 /\ Finish(MarkUsed(got) \o blocks, Error(ENOSPC))
  <2>1. Takes(S, MarkUsed(got) \o blocks)
    BY <1>0, <1>5, MkdirTakes
  <2> QED BY <1>1, <1>2, <1>5, <2>1, TakesOutcome
<1>6. CASE AddError(call.path) = 0 /\ Len(got) = 2 /\ FreeSlots(d) # {} /\ Finish(ws, Success(NULL))
  <2>1. Links(S, d, n, got[1], "dir", ws)
    BY <1>0, <1>1, <1>6, MkdirLinks
  <2>2. Fs!After(t, c) = Fs!With(t, [path |-> c.path, type |-> "dir", bytes |-> <<>>])
    BY <1>1 DEF Fs!After, Fs!Dir
  <2> DEFINE v == got[1]
             ty == "dir"
  <2>3. Links(S, d, n, v, ty, ws) /\ ty \in {"file", "dir"}
        /\ Fs!After(t, c) = Fs!With(t, [path |-> c.path, type |-> ty, bytes |-> <<>>])
    BY <2>1, <2>2
  <2> HIDE DEF d, n, v, ty, ws
  <2> QED BY <1>1, <1>2, <1>6, <2>3, LinksOutcome
<1> QED BY <1>3, <1>4, <1>5, <1>6 DEF Mkdir

\* The first write is of the entries of directory i, the others are of the bitmap.
HeadFirst(d, i, ws, k) == /\ ws[1].lba = Head0(d, i) /\ ws[1].value \in DirType
                          /\ \A j \in 2..k : ws[j].lba = 1
\* Besides the bitmap only these entries are others.
HeadIs(d, e, S, i, w) == Besides(d, e, S, i) /\ \A t \in Slots : At(e, i, t) = w.value.entries[t]

(* The writes of a removal or a rename change one directory.                *)
LEMMA HeadWritten ==
  ASSUME NEW d, NEW S, Sound(d, S), NEW i \in Dirs(d, S), NEW ws, NEW op, NEW k \in Nat, k # 0,
         HeadFirst(d, i, ws, k), NEW e, DiskAfter(d, ws, op, k, e)
  PROVE  HeadIs(d, e, S, i, ws[1])
<1>0. /\ ws[1].lba = Head0(d, i) /\ ws[1].value \in DirType
      /\ \A j \in 2..k : ws[j].lba = 1
  BY DEF HeadFirst
<1> DEFINE h == Head0(d, i)
<1>1. h \in Space /\ h # 1 /\ h \in 1..(DiskSize - 1)
  <2>1. h \in Space
    BY TakenAre
  <2> HIDE DEF h
  <2> QED BY <2>1, Sizes
<1>2. \A j \in 1..k : j = 1 \/ j \in 2..k
  OBVIOUS
<1>3. 1 \in 1..k /\ 1 + 1 = 2
  OBVIOUS
<1> HIDE DEF h
<1>4. e[h] = ws[1].value
  <2>1. Latest(ws, k, h, 1)
    BY <1>0, <1>1, <1>3 DEF Latest, h
  <2> QED BY <1>1, <1>3, <2>1, BlockAfter
<1>5. ASSUME NEW b \in Space, b # h PROVE e[b] = d[b]
  <2>1. b \in 1..(DiskSize - 1) /\ b # 1
    BY Sizes
  <2>2. None(ws, k, b)
    BY <1>0, <1>2, <1>5, <2>1 DEF None, h
  <2> QED BY <2>1, <2>2, BlockAfter
<1>6. Besides(d, e, S, i)
  BY <1>0, <1>4, <1>5 DEF Besides, h
<1>7. Head0(e, i) = h
  BY <1>6, HeadStays DEF h
<1> QED BY <1>4, <1>6, <1>7 DEF At, HeadIs

(* fs_unlink and fs_rmdir look at what FsTree does.                         *)
LEMMA RemoveLooked ==
  ASSUME NEW S, Asked(S), call.op \in {"unlink", "rmdir"}
  PROVE  LET p == call.path
             d == LookupParent(p)
             t == TreeOn(disk)
         IN  /\ RemoveError(p) # 0 => RemoveError(p) \in Fs!Errors(t, Request)
             /\ RemoveError(p) = 0
                  => /\ Parent(S, Request.path, Leaf(p), d) /\ LeafLeads(S, Request.path, Leaf(p), d)
                     /\ Named(d, Leaf(p)) # {}
                     /\ Fs!ResolveParent(t, Request.path) = 0 /\ Fs!Exists(t, Request.path)
                     /\ (Fs!IsDir(t, Request.path) <=> IsDir(Found(d, Leaf(p))))
<1> DEFINE t == TreeOn(disk)
           p == call.path
           q == Request.path
           d == LookupParent(p)
           n == Leaf(p)
           E == Fs!Errors(t, Request)
<1>0. Image /\ Sound(disk, S) /\ Distinct(disk)
  BY DEF Asked, Ready
<1>1. p \in Seq(Names) /\ Len(p) <= MaxComponents /\ q = ClipPath(p) /\ Request.op = call.op
  BY RequestIs
<1>2. \/ d < 0 /\ ~(d >= 0) /\ d # 0 /\ Fs!ResolveParent(t, q) = d
      \/ Parent(S, q, n, d) /\ LeafLeads(S, q, n, d)
  BY <1>1, LookedParent
<1>3. /\ Fs!ResolveParent(t, q) # 0 => E = {Fs!ResolveParent(t, q)}
      /\ Fs!ResolveParent(t, q) = 0 /\ ~Fs!Exists(t, q) => E = {Fs!ENOENT}
  BY <1>1, ErrorsAre
<1>4. RemoveError(p) = IF d < 0 THEN d ELSE IF Named(d, n) = {} THEN ENOENT ELSE 0
  BY DEF RemoveError
<1>5. Fs!ENOENT = ENOENT /\ ENOENT # 0
  BY ErrorCodes
<1> HIDE DEF t, q, d, n, E
<1>6. CASE d < 0 /\ ~(d >= 0) /\ d # 0 /\ Fs!ResolveParent(t, q) = d
  BY <1>3, <1>4, <1>6 DEF t, q, d, n, E
<1>7. CASE Parent(S, q, n, d) /\ LeafLeads(S, q, n, d)
  <2>1. ~(d < 0) /\ d \in S /\ Fs!ResolveParent(t, q) = 0 /\ (Fs!Exists(t, q) <=> Named(d, n) # {})
    BY <1>7 DEF Parent, LeafLeads, t
  <2>2. CASE Named(d, n) = {}
    <3>1. RemoveError(p) = ENOENT /\ ENOENT \in E
      BY <1>3, <1>4, <1>5, <2>1, <2>2
    <3> QED BY <1>5, <3>1 DEF t, q, d, n, E
  <2>3. CASE Named(d, n) # {}
    <3>1. Found(d, n) \in S /\ Reaches(disk, q, Found(d, n))
      BY <1>7, <2>3 DEF LeafLeads
    <3>2. Fs!IsDir(t, q) <=> disk[Found(d, n)].type = "dir"
      BY <1>0, <3>1, NodeIs1 DEF t
    <3>3. IsDir(Found(d, n)) <=> disk[Found(d, n)].type = "dir"
      BY <1>0, <3>1, HopRead
    <3>4. RemoveError(p) = 0
      BY <1>4, <2>1, <2>3
    <3> QED BY <1>7, <2>1, <2>3, <3>2, <3>3, <3>4 DEF t, q, d, n, E
  <2> QED BY <2>2, <2>3
<1> QED BY <1>2, <1>6, <1>7

(* A removal that goes on.                                                  *)
LEMMA DropOutcome ==
  ASSUME NEW S, Asked(S), call.op \in {"unlink", "rmdir"}, NEW d, NEW n,
         Parent(S, Request.path, n, d), LeafLeads(S, Request.path, n, d), Named(d, n) # {},
         NEW bs \in Seq(Blocks), Fs!Errors(TreeOn(disk), Request) = {},
         Found(d, n) \in Dirs(disk, S) => \A s \in Slots : At(disk, Found(d, n), s) = NULL,
         Finish(DropThenFree(d, n, bs), Success(NULL))
  PROVE  Outcome(writes', ret', Request)
<1> DEFINE t == TreeOn(disk)
           c == Request
           r == Success(NULL)
           q == c.path
           p == Front(q)
           x == DropEntry(d, n)
           o == <<x>>
           frees == MarkFree(bs)
           ws == o \o frees
           v == Found(d, n)
           op == c.op
           u == Fs!After(t, c)
<1>0. Image /\ Sound(disk, S) /\ Distinct(disk) /\ bitmap \in SUBSET Blocks
  BY DEF Asked, Ready
<1>1. op = call.op /\ op \in Freeing /\ op \in Writing
  BY RequestIs DEF Freeing, Writing
<1>2. d \in S /\ Reaches(disk, p, d) /\ q = Append(p, n) /\ q \in Seq(Names)
  BY DEF Parent
<1>3. /\ d \in Dirs(disk, S)
      /\ x \in WriteType /\ x.lba = Head0(disk, d) /\ x.lba # 1 /\ x.value \in DirType
      /\ \E s \in Slots : /\ At(disk, d, s) # NULL /\ At(disk, d, s).inode = v
                          /\ At(disk, d, s).name = n
                          /\ x.value.entries[s] = NULL
                          /\ \A a \in Slots : a # s => x.value.entries[a] = At(disk, d, a)
  BY <1>0, <1>2, DropEntryIs
<1>4. /\ frees \in Seq(WriteType) /\ Len(frees) = Len(bs) /\ Len(bs) \in Nat
      /\ \A k \in 1..Len(bs) : frees[k].lba = 1
  BY <1>0, MarkFreeIs
<1>v. v \in Dirs(disk, S) => \A s \in Slots : At(disk, v, s) = NULL
  OBVIOUS
<1> HIDE DEF x, frees, v
<1>5. o \in Seq(WriteType) /\ Len(o) = 1 /\ o[1] = x
  BY <1>3
<1> HIDE DEF o
<1>6. /\ ws \in Seq(WriteType) /\ Len(ws) = Len(o) + Len(frees)
      /\ \A j \in 1..Len(o) : ws[j] = o[j]
      /\ \A j \in 1..Len(frees) : ws[Len(o) + j] = frees[j]
      /\ \A j \in 1..Len(ws) : j \in 1..Len(o) \/ \E k \in 1..Len(frees) : j = Len(o) + k
  BY <1>4, <1>5, TwoParts
<1> HIDE DEF ws
<1>7. ws[1] = x /\ Len(ws) \in Nat \ {0} /\ \A j \in 2..Len(ws) : ws[j].lba = 1
  <2>1. ws[1] = x /\ Len(ws) \in Nat \ {0} /\ 1 \in 1..1
    BY <1>4, <1>5, <1>6
  <2>2. ASSUME NEW j \in 2..Len(ws) PROVE ws[j].lba = 1
    <3>1. j \in 1..Len(ws) /\ j \notin 1..Len(o)
      BY <1>5
    <3>2. PICK k \in 1..Len(frees) : j = Len(o) + k
      BY <1>6, <3>1
    <3>3. ws[j] = frees[k]
      BY <1>6, <3>2
    <3> QED BY <1>4, <3>3
  <2> QED BY <2>1, <2>2
<1>8. PICK s \in Slots : /\ At(disk, d, s) # NULL /\ At(disk, d, s).inode = v /\ At(disk, d, s).name = n
                         /\ x.value.entries[s] = NULL
                         /\ \A a \in Slots : a # s => x.value.entries[a] = At(disk, d, a)
  BY <1>3
<1>9. u = {y \in t : y.path # q}
  BY <1>1 DEF Fs!After, Fs!Without
<1>10. ASSUME NEW k \in 1..Len(ws) PROVE Becomes(disk, ws, op, k, u)
  <2>1. ASSUME NEW e, DiskAfter(disk, ws, op, k, e) PROVE Distinct(e) /\ TreeOn(e) = u
    <3>1. k \in Nat /\ k # 0 /\ \A j \in 2..k : ws[j].lba = 1
      BY <1>7
    <3> HIDE DEF p, q, t, c, op, u
    <3>2. HeadFirst(disk, d, ws, k)
      BY <1>3, <1>7, <3>1 DEF HeadFirst
    <3>3. HeadIs(disk, e, S, d, ws[1])
      BY <1>0, <1>3, <2>1, <3>1, <3>2, HeadWritten
    <3>4. Drops(disk, e, S, d, s, n, v) /\ Besides(disk, e, S, d)
      BY <1>7, <1>8, <1>v, <3>3 DEF Drops, HeadIs
    <3>5. Lacks(disk, e, Append(p, n))
      BY <1>0, <1>2, <1>3, <3>4, TreeRemoved
    <3>6. TreeOn(e) = {y \in t : y.path # q}
      BY <1>2, <3>5 DEF Lacks, t
    <3> QED BY <1>9, <3>5, <3>6 DEF Lacks
  <2> QED BY <2>1 DEF Becomes
<1>11. Becomes(disk, ws, op, 0, t)
  <2>1. 0 \in Nat /\ 1..0 = {}
    OBVIOUS
  <2> DEFINE z == 0
  <2>2. z \in Nat /\ \A j \in 1..z : ws[j].lba = 1 \/ ws[j].lba \notin Taken(disk, S)
    BY <2>1
  <2> HIDE DEF z
  <2>3. Becomes(disk, ws, op, z, t)
    BY <1>0, <2>2, OutsideBecomes
  <2> QED BY <2>3 DEF z
<1>12. Effect(t, u, r, c)
  <2>1. Fs!Value(t, c) = NULL
    BY <1>1, Unchanging
  <2>2. Fs!Success(NULL) = Success(NULL)
    BY DEF Fs!Success, Success
  <2> QED BY <2>1, <2>2 DEF Effect
<1>13. ws # <<>>
  BY <1>7, EmptySeq
<1>14. Fs!Errors(t, c) = {} /\ r.code = 0
  BY ErrorCodes
<1>15. ws[1].lba # 1
  BY <1>3, <1>7
<1>16. \A k \in 1..Len(ws) : Becomes(disk, ws, op, k, u)
  BY <1>10
<1> HIDE DEF t, c, r, u
<1>17. Open(ws, r, 0) /\ \E z : Plot(disk, ws, r, c, z)
  BY <1>1, <1>6, <1>7, <1>11, <1>12, <1>13, <1>14, <1>15, <1>16, FirstPlot
<1>18. writes' = ws /\ ret' = r
  BY DEF Finish, DropThenFree, ws, o, x, frees, r
<1> QED BY <1>13, <1>17, <1>18 DEF Outcome, c

(* fs_unlink. *)
LEMMA UnlinkOutcome ==
  ASSUME NEW S, Asked(S), Unlink
  PROVE  Outcome(writes', ret', Request)
<1> DEFINE t == TreeOn(disk)
           c == Request
           d == LookupParent(call.path)
           n == Leaf(call.path)
           i == Found(d, n)
           bs == <<i>> \o DataBlocks(i)
<1>0. Image /\ Sound(disk, S) /\ Ready(S)
  BY DEF Asked, Ready
<1>1. call.op = "unlink" /\ c.op = "unlink"
  BY RequestIs DEF Unlink, Handling
<1>2. /\ RemoveError(call.path) # 0 => RemoveError(call.path) \in Fs!Errors(t, c)
      /\ RemoveError(call.path) = 0
           => /\ Parent(S, c.path, n, d) /\ LeafLeads(S, c.path, n, d) /\ Named(d, n) # {}
              /\ Fs!ResolveParent(t, c.path) = 0 /\ Fs!Exists(t, c.path)
              /\ (Fs!IsDir(t, c.path) <=> IsDir(i))
  BY <1>1, RemoveLooked
<1>3. Fs!ResolveParent(t, c.path) = 0 /\ Fs!Exists(t, c.path)
        => Fs!Errors(t, c) = IF Fs!IsDir(t, c.path) THEN {Fs!EISDIR} ELSE {}
  BY <1>1, ErrorsAre
<1>4. CASE RemoveError(call.path) # 0 /\ Refuse(RemoveError(call.path))
  BY <1>2, <1>4, Denied
<1>5. CASE RemoveError(call.path) = 0 /\ IsDir(i) /\ Refuse(EISDIR)
  BY <1>2, <1>3, <1>5, ErrorCodes, Denied
<1>6. CASE RemoveError(call.path) = 0 /\ ~IsDir(i) /\ Finish(DropThenFree(d, n, bs), Success(NULL))
  <2>1. i \in S
    BY <1>2, <1>6 DEF LeafLeads
  <2>2. i \notin Dirs(disk, S)
    BY <1>0, <1>6, <2>1, InodeRead
  <2>3. i \in Blocks /\ DataBlocks(i) \in Seq(Blocks)
    BY <1>0, <2>1, NodeIs, DataBlocksAre
  <2>4. bs \in Seq(Blocks)
    BY <2>3, Prefixed
  <2>5. Fs!Errors(t, c) = {}
    BY <1>2, <1>3, <1>6
  <2> HIDE DEF d, n, bs
  <2> QED BY <1>1, <1>2, <1>6, <2>2, <2>4, <2>5, DropOutcome
<1> QED BY <1>4, <1>5, <1>6 DEF Unlink

(* fs_rmdir. *)
LEMMA RmdirOutcome ==
  ASSUME NEW S, Asked(S), Rmdir
  PROVE  Outcome(writes', ret', Request)
<1> DEFINE t == TreeOn(disk)
           c == Request
           d == LookupParent(call.path)
           n == Leaf(call.path)
           i == Found(d, n)
           bs == <<i, DirPtr(i)>>
<1>0. Image /\ Sound(disk, S) /\ Ready(S) /\ Distinct(disk)
  BY DEF Asked, Ready
<1>1. call.op = "rmdir" /\ c.op = "rmdir"
  BY RequestIs DEF Rmdir, Handling
<1>2. /\ RemoveError(call.path) # 0 => RemoveError(call.path) \in Fs!Errors(t, c)
      /\ RemoveError(call.path) = 0
           => /\ Parent(S, c.path, n, d) /\ LeafLeads(S, c.path, n, d) /\ Named(d, n) # {}
              /\ Fs!ResolveParent(t, c.path) = 0 /\ Fs!Exists(t, c.path)
              /\ (Fs!IsDir(t, c.path) <=> IsDir(i))
  BY <1>1, RemoveLooked
<1>3. Fs!ResolveParent(t, c.path) = 0 /\ Fs!Exists(t, c.path)
        => Fs!Errors(t, c) = IF ~Fs!IsDir(t, c.path) THEN {Fs!ENOTDIR}
                             ELSE IF Fs!Children(t, c.path) # {} THEN {Fs!ENOTEMPTY} ELSE {}
  BY <1>1, ErrorsAre
<1>4. CASE RemoveError(call.path) # 0 /\ Refuse(RemoveError(call.path))
  BY <1>2, <1>4, Denied
<1>5. CASE RemoveError(call.path) = 0 /\ ~IsDir(i) /\ Refuse(ENOTDIR)
  BY <1>2, <1>3, <1>5, ErrorCodes, Denied
<1>6. ASSUME RemoveError(call.path) = 0, IsDir(i)
      PROVE  i \in Dirs(disk, S) /\ (Fs!Children(t, c.path) = {} <=> Used(i) = {})
  <2>1. i \in S /\ Reaches(disk, c.path, i)
    BY <1>2, <1>6 DEF LeafLeads
  <2>2. i \in Dirs(disk, S)
    BY <1>0, <1>6, <2>1, InodeRead
  <2> HIDE DEF i
  <2>3. \A m, j : Hop(disk, i, m, j) <=> \E s \in Used(i) : Entries(i)[s].name = m /\ Entries(i)[s].inode = j
    BY <1>0, <1>6, <2>1, HopRead
  <2>4. \A m, j : Hop(disk, i, m, j) => m \in Names
    BY <1>0, <2>1, HopIs
  <2>5. \A q : q \in Fs!Children(t, c.path) <=> \E m \in Names : \E j : Hop(disk, i, m, j) /\ q = Append(c.path, m)
    BY <1>0, <2>1, ChildrenAre
  <2>6. ASSUME NEW s \in Used(i) PROVE Fs!Children(t, c.path) # {}
    <3>1. Hop(disk, i, Entries(i)[s].name, Entries(i)[s].inode)
      BY <2>3
    <3> QED BY <2>4, <2>5, <3>1
  <2>7. ASSUME NEW q \in Fs!Children(t, c.path) PROVE Used(i) # {}
    BY <2>3, <2>5
  <2> QED BY <2>2, <2>6, <2>7
<1>7. CASE RemoveError(call.path) = 0 /\ IsDir(i) /\ Used(i) # {} /\ Refuse(ENOTEMPTY)
  BY <1>2, <1>3, <1>6, <1>7, ErrorCodes, Denied
<1>8. CASE RemoveError(call.path) = 0 /\ IsDir(i) /\ Used(i) = {} /\ Finish(DropThenFree(d, n, bs), Success(NULL))
  <2>1. i \in Dirs(disk, S) /\ i \in S
    BY <1>6, <1>8 DEF Dirs
  <2>2. /\ DirPtr(i) = Head0(disk, i) /\ Head0(disk, i) \in Space
        /\ \A s \in Slots : Entries(i)[s] = At(disk, i, s)
    <3> HIDE DEF i
    <3> QED BY <1>0, <2>1, DirRead, HeadOfDir
  <2>3. i \in Blocks /\ DirPtr(i) \in Blocks
    BY <1>0, <2>1, <2>2, NodeIs, Sizes
  <2>4. bs \in Seq(Blocks)
    BY <2>3
  <2>5. \A s \in Slots : At(disk, i, s) = NULL
    BY <1>8, <2>2 DEF Used
  <2>6. Fs!Errors(t, c) = {}
    BY <1>2, <1>3, <1>6, <1>8
  <2> HIDE DEF d, n, bs
  <2> QED BY <1>1, <1>2, <1>8, <2>4, <2>5, <2>6, DropOutcome
<1> QED BY <1>4, <1>5, <1>7, <1>8 DEF Rmdir

(* fs_rename looks at what FsTree does.                                     *)
LEMMA RenameLooked ==
  ASSUME NEW S, Asked(S), call.op = "rename"
  PROVE  LET d == LookupParent(call.path)
             n == Leaf(call.path)
             m == Leaf(call.to)
             e == RenameError(call.path, call.to)
             E == Fs!Errors(TreeOn(disk), Request)
         IN  /\ e # 0 => e \in E
             /\ e = 0 => /\ E = {} /\ Named(d, n) # {} /\ Named(d, m) = {}
                         /\ Parent(S, Request.path, n, d) /\ LeafLeads(S, Request.path, n, d)
                         /\ Parent(S, Request.to, m, d) /\ LeafLeads(S, Request.to, m, d)
                         /\ Front(Request.path) = Front(Request.to)
<1> DEFINE t == TreeOn(disk)
           q == Request.path
           z == Request.to
           d == LookupParent(call.path)
           b == LookupParent(call.to)
           n == Leaf(call.path)
           m == Leaf(call.to)
           e == RenameError(call.path, call.to)
           E == Fs!Errors(t, Request)
<1>0. Image /\ Sound(disk, S) /\ Distinct(disk)
  BY DEF Asked, Ready
<1>1. /\ call.path \in Seq(Names) /\ Len(call.path) <= MaxComponents /\ q = ClipPath(call.path)
      /\ call.to \in Seq(Names) /\ Len(call.to) <= MaxComponents /\ z = ClipPath(call.to)
      /\ Request.op = call.op
  BY RequestIs
<1>2. \/ d < 0 /\ ~(d >= 0) /\ d # 0 /\ Fs!ResolveParent(t, q) = d
      \/ Parent(S, q, n, d) /\ LeafLeads(S, q, n, d)
  BY <1>1, LookedParent
<1>3. \/ b < 0 /\ ~(b >= 0) /\ b # 0 /\ Fs!ResolveParent(t, z) = b
      \/ Parent(S, z, m, b) /\ LeafLeads(S, z, m, b)
  BY <1>1, LookedParent
<1>4. /\ Fs!ResolveParent(t, q) # 0 => E = {Fs!ResolveParent(t, q)}
      /\ Fs!ResolveParent(t, q) = 0
           => E = IF Fs!ResolveParent(t, z) # 0 THEN {Fs!ResolveParent(t, z)}
                  ELSE IF Front(q) # Front(z) THEN {Fs!EINVAL}
                  ELSE IF Fs!Exists(t, z) THEN {Fs!EEXIST} ELSE IF Fs!Exists(t, q) THEN {} ELSE {Fs!ENOENT}
  BY <1>1, ErrorsAre
<1>5. e = CASE d < 0 -> d
            [] d >= 0 /\ b < 0 -> b
            [] d >= 0 /\ b >= 0 /\ d # b -> EINVAL
            [] d >= 0 /\ d = b -> IF Named(d, m) # {} THEN EEXIST
                                 ELSE IF Named(d, n) = {} THEN ENOENT ELSE 0
  BY DEF RenameError
<1>6. /\ Fs!ENOENT = ENOENT /\ Fs!EINVAL = EINVAL /\ Fs!EEXIST = EEXIST
      /\ ENOENT # 0 /\ EINVAL # 0 /\ EEXIST # 0
  BY ErrorCodes
<1> HIDE DEF t, q, z, d, b, n, m, e, E
<1>7. CASE d < 0 /\ ~(d >= 0) /\ d # 0 /\ Fs!ResolveParent(t, q) = d
  <2>1. e = d
    BY <1>5, <1>7
  <2> QED BY <1>4, <1>7, <2>1 DEF t, q, z, d, b, n, m, e, E
<1>8. CASE Parent(S, q, n, d) /\ LeafLeads(S, q, n, d)
  <2>1. /\ ~(d < 0) /\ d >= 0 /\ d \in S /\ Fs!ResolveParent(t, q) = 0 /\ Reaches(disk, Front(q), d)
        /\ (Fs!Exists(t, q) <=> Named(d, n) # {})
    BY <1>8 DEF Parent, LeafLeads, t
  <2>2. CASE b < 0 /\ ~(b >= 0) /\ b # 0 /\ Fs!ResolveParent(t, z) = b
    <3>1. e = b
      BY <1>5, <2>1, <2>2
    <3> QED BY <1>4, <2>1, <2>2, <3>1 DEF t, q, z, d, b, n, m, e, E
  <2>3. CASE Parent(S, z, m, b) /\ LeafLeads(S, z, m, b)
    <3>1. /\ ~(b < 0) /\ b >= 0 /\ b \in S /\ Fs!ResolveParent(t, z) = 0 /\ Reaches(disk, Front(z), b)
          /\ (Fs!Exists(t, z) <=> Named(b, m) # {})
      BY <2>3 DEF Parent, LeafLeads, t
    <3>2. Front(q) = Front(z) <=> d = b
      BY <1>0, <2>1, <3>1, PathUnique, NodeUnique
    <3>3. CASE d # b
      <4>1. e = EINVAL /\ E = {EINVAL}
        BY <1>4, <1>5, <1>6, <2>1, <3>1, <3>2, <3>3
      <4> QED BY <1>6, <4>1 DEF t, q, z, d, b, n, m, e, E
    <3>4. CASE d = b /\ Named(d, m) # {}
      <4>1. e = EEXIST /\ E = {EEXIST}
        BY <1>4, <1>5, <1>6, <2>1, <3>1, <3>2, <3>4
      <4> QED BY <1>6, <4>1 DEF t, q, z, d, b, n, m, e, E
    <3>5. CASE d = b /\ Named(d, m) = {} /\ Named(d, n) = {}
      <4>1. e = ENOENT /\ E = {ENOENT}
        BY <1>4, <1>5, <1>6, <2>1, <3>1, <3>2, <3>5
      <4> QED BY <1>6, <4>1 DEF t, q, z, d, b, n, m, e, E
    <3>6. CASE d = b /\ Named(d, m) = {} /\ Named(d, n) # {}
      <4>1. e = 0 /\ E = {}
        BY <1>4, <1>5, <2>1, <3>1, <3>2, <3>6
      <4>2. Parent(S, z, m, d) /\ LeafLeads(S, z, m, d) /\ Front(q) = Front(z)
        BY <2>3, <3>2, <3>6
      <4> QED BY <1>8, <3>6, <4>1, <4>2 DEF t, q, z, d, b, n, m, e, E
    <3> QED BY <3>3, <3>4, <3>5, <3>6
  <2> QED BY <1>3, <2>2, <2>3
<1> QED BY <1>2, <1>7, <1>8

(* fs_rename. *)
LEMMA RenameOutcome ==
  ASSUME NEW S, Asked(S), Rename
  PROVE  Outcome(writes', ret', Request)
<1> DEFINE t == TreeOn(disk)
           c == Request
           r == Success(NULL)
           d == LookupParent(call.path)
           n == Leaf(call.path)
           m == Leaf(call.to)
           e == RenameError(call.path, call.to)
           q == c.path
           z == c.to
           p == Front(q)
           v == Found(d, n)
           x == Relabelled(d, n, m)
           ws == <<x>>
           op == c.op
           u == Fs!After(t, c)
<1>0. Image /\ Sound(disk, S) /\ Distinct(disk)
  BY DEF Asked, Ready
<1>1. call.op = "rename" /\ op = "rename" /\ op \in Writing
  BY RequestIs DEF Rename, Handling, Writing
<1>2. /\ e # 0 => e \in Fs!Errors(t, c)
      /\ e = 0 => /\ Fs!Errors(t, c) = {} /\ Named(d, n) # {} /\ Named(d, m) = {}
                  /\ Parent(S, q, n, d) /\ LeafLeads(S, q, n, d)
                  /\ Parent(S, z, m, d) /\ LeafLeads(S, z, m, d)
                  /\ Front(q) = Front(z)
  BY <1>1, RenameLooked
<1>3. CASE e # 0 /\ Refuse(e)
  BY <1>2, <1>3, Denied
<1>4. CASE e = 0 /\ Finish(ws, r)
  <2>1. /\ d \in S /\ Named(d, n) # {} /\ m \in Names /\ \A j : ~Hop(disk, d, m, j)
        /\ Reaches(disk, p, d) /\ q = Append(p, n) /\ z = Append(p, m)
    BY <1>2, <1>4 DEF Parent, LeafLeads
  <2>e. Fs!Errors(t, c) = {}
    BY <1>2, <1>4
  <2>f. writes' = ws /\ ret' = r
    BY <1>4 DEF Finish
  <2> HIDE DEF d, n, m, e, p
  <2>2. /\ d \in Dirs(disk, S)
        /\ x \in WriteType /\ x.lba = Head0(disk, d) /\ x.lba # 1 /\ x.value \in DirType
        /\ \E s \in Slots : /\ At(disk, d, s) # NULL /\ At(disk, d, s).name = n
                            /\ At(disk, d, s).inode = v
                            /\ x.value.entries[s] # NULL /\ x.value.entries[s].name = m
                            /\ x.value.entries[s].inode = v
                            /\ \A a \in Slots : a # s => x.value.entries[a] = At(disk, d, a)
    BY <1>0, <2>1, RelabelIs
  <2> HIDE DEF x, v
  <2>3. ws \in Seq(WriteType) /\ ws # <<>> /\ Len(ws) = 1 /\ ws[1] = x
    BY <2>2
  <2> HIDE DEF ws
  <2>4. PICK s \in Slots : /\ At(disk, d, s) # NULL /\ At(disk, d, s).name = n
                           /\ At(disk, d, s).inode = v
                           /\ x.value.entries[s] # NULL /\ x.value.entries[s].name = m
                           /\ x.value.entries[s].inode = v
                           /\ \A a \in Slots : a # s => x.value.entries[a] = At(disk, d, a)
    BY <2>2
  <2>5. u = {[y EXCEPT !.path = Renamed(y.path, q, z)] : y \in t}
    BY <1>1 DEF Fs!After, Fs!Moved, Renamed, Fs!IsPrefix, IsPrefix
  <2> HIDE DEF t, q, z, u
  <2>6. ASSUME NEW f, DiskAfter(disk, ws, op, 1, f) PROVE Distinct(f) /\ TreeOn(f) = u
    <3> DEFINE k == 1
    <3>1. k \in Nat /\ k # 0 /\ DiskAfter(disk, ws, op, k, f)
      BY <2>6
    <3>2. HeadFirst(disk, d, ws, k)
      BY <2>2, <2>3 DEF HeadFirst
    <3> HIDE DEF k, op, c
    <3>3. HeadIs(disk, f, S, d, ws[1])
      BY <1>0, <2>2, <3>1, <3>2, HeadWritten
    <3>4. Relabels(disk, f, d, s, n, m, v) /\ Besides(disk, f, S, d)
      BY <2>3, <2>4, <3>3 DEF Relabels, HeadIs
    <3>5. Retitled(disk, f, Append(p, n), Append(p, m))
      BY <1>0, <2>1, <2>2, <3>4, TreeRenamed
    <3>6. Retitled(disk, f, q, z)
      BY <2>1, <3>5
    <3> QED BY <2>5, <3>6 DEF Retitled, t
  <2>7. Becomes(disk, ws, op, 1, u)
    BY <2>6 DEF Becomes
  <2>8. Becomes(disk, ws, op, 0, t)
    <3> DEFINE k == 0
    <3>1. k \in Nat /\ \A j \in 1..k : ws[j].lba = 1 \/ ws[j].lba \notin Taken(disk, S)
      OBVIOUS
    <3> HIDE DEF k
    <3>2. Becomes(disk, ws, op, k, t)
      BY <1>0, <3>1, OutsideBecomes DEF t
    <3> QED BY <3>2 DEF k
  <2>9. Effect(t, u, r, c)
    <3>1. Fs!Value(t, c) = NULL
      BY <1>1, Unchanging
    <3>2. Fs!Success(NULL) = Success(NULL)
      BY DEF Fs!Success, Success
    <3> QED BY <3>1, <3>2 DEF Effect, u
  <2>10. /\ \A k \in 0..(Len(ws) - 1) : Becomes(disk, ws, op, k, t)
         /\ Becomes(disk, ws, op, Len(ws), u)
         /\ ws[Len(ws)].lba # 1
    BY <2>2, <2>3, <2>7, <2>8
  <2>11. Fs!Errors(t, c) = {}
    BY <2>e DEF t
  <2> HIDE DEF c, r
  <2>12. Open(ws, r, 0) /\ \E a : Plot(disk, ws, r, c, a)
    BY <1>1, <2>3, <2>9, <2>10, <2>11, LastPlot
  <2> QED BY <2>3, <2>12, <2>f DEF Outcome, c
<1> QED BY <1>3, <1>4 DEF Rename, Relabelled
----------------------------------------------------------------------------
(* The calls that change a file. *)

\* Disk e is disk d where the tree is, but for file i and what it owns.
Beyond(d, e, S, i) == \A b \in Space : b \in Taken(d, S) /\ b # i /\ b \notin Owned(d, i) => e[b] = d[b]
\* On disk e there is the tree of d with a file of these bytes at path p.
Refiled(d, e, p, b) == Distinct(e) /\ TreeOn(e) = Fs!With(TreeOn(d), Fs!File(p, b))

(* A disk on which only the bytes of one file changed has the tree with the *)
(* new bytes of the file.                                                   *)
LEMMA FileShown ==
  ASSUME NEW d, NEW e, NEW S, Sound(d, S), Distinct(d), NEW i \in S \ Dirs(d, S), Sound(e, S),
         e[i].type = "file", Beyond(d, e, S, i), NEW p, Reaches(d, p, i)
  PROVE  Refiled(d, e, p, Text(e, i))
<1>1. \A b \in Space : b \in Taken(d, S) /\ b # i /\ b \notin Owned(d, i) => e[b] = d[b]
  BY DEF Beyond
<1>2. /\ Distinct(e)
      /\ \A x : x \in TreeOn(e) <=> (x \in TreeOn(d) /\ x.path # p) \/ x = Shown(e, p, i)
  BY <1>1, TreeRefiled
<1>3. Shown(e, p, i) = Fs!File(p, Text(e, i)) /\ Shown(e, p, i).path = p
  BY DEF Shown, Fs!File
<1>4. Fs!With(TreeOn(d), Shown(e, p, i)) = {x \in TreeOn(d) : x.path # p} \cup {Shown(e, p, i)}
  BY <1>3 DEF Fs!With, Fs!Without
<1>5. TreeOn(e) = {x \in TreeOn(d) : x.path # p} \cup {Shown(e, p, i)}
  BY <1>2
<1> QED BY <1>2, <1>3, <1>4, <1>5 DEF Refiled

(* fs_truncate.                                                             *)
LEMMA TruncateOutcome ==
  ASSUME NEW S, Asked(S), Truncate
  PROVE  Outcome(writes', ret', Request)
<1> DEFINE t == TreeOn(disk)
           i == Translate(call.path)
           c == Request
           q == c.path
           r == Success(NULL)
           used == DataBlocks(i)
           ptrs == [k \in Ptrs |-> IF k < Len(used) THEN 0 ELSE ReadInode(i).ptrs[k]]
           x == Inode("file", 0, ptrs)
           w == Put(i, x)
           frees == MarkFree(used)
           ws == Append(frees, w)
           op == c.op
           u == Fs!After(t, c)
<1>0. Image /\ Sound(disk, S) /\ Distinct(disk) /\ bitmap \in SUBSET Blocks /\ Ready(S)
  BY DEF Asked, Ready
<1>1. op = "truncate" /\ call.op = "truncate" /\ c.len = call.len /\ call.op \in Freeing /\ op \in Writing
  BY RequestIs DEF Truncate, Handling, Freeing, Writing
<1>2. /\ Fs!Errors(t, c) = (IF call.len # 0 THEN {EINVAL} ELSE {FileError(i)} \ {0})
      /\ Fs!ResolveFile(t, q) = FileError(i)
  BY <1>1, ErrorsAre, LookedFile, ErrorCodes
<1>3. CASE call.len # 0 /\ Refuse(EINVAL)
  BY <1>2, <1>3, Denied
<1>4. CASE call.len = 0 /\ FileError(i) # 0 /\ Refuse(FileError(i))
  BY <1>2, <1>4, Denied
<1>5. CASE call.len = 0 /\ FileError(i) = 0 /\ Finish(ws, r)
  <2>e. Fs!Errors(t, c) = {}
    BY <1>2, <1>5
  <2>r. Reaches(disk, q, i)
    BY <1>5, LookedFile
  <2>1. /\ i \in S \ Dirs(disk, S) /\ ReadInode(i) = disk[i]
        /\ disk[i].size \in Nat /\ disk[i].ptrs \in [Ptrs -> Blocks]
        /\ disk[i].size = 0 => disk[i].ptrs[0] = 0
    BY <1>0, <1>5, FileOk
  <2>2. i \in S /\ i \in Space /\ i \in 1..(DiskSize - 1) /\ i # 1
    BY <1>0, <2>1, NodeIs, Sizes
  <2>i. FileError(i) = 0
    BY <1>5
  <2> HIDE DEF i
  <2>3. /\ used \in Seq(Blocks) /\ Len(used) = BlocksFor(disk[i].size) /\ Len(used) \in Nat
    BY <1>0, <2>2, DataBlocksAre
  <2> HIDE DEF used
  <2>4. ptrs \in [Ptrs -> Blocks] /\ ptrs[0] = 0
    <3>1. ptrs \in [Ptrs -> Blocks]
      <4>1. 0 \in Blocks
        BY ConstantFacts, Sizes
      <4>2. \A k \in Ptrs : ReadInode(i).ptrs[k] \in Blocks
        BY <2>1
      <4> QED BY <4>1, <4>2
    <3>2. 0 < Len(used) \/ disk[i].size = 0
      BY <2>1, <2>3, BlocksPositive
    <3>3. ptrs[0] = IF 0 < Len(used) THEN 0 ELSE disk[i].ptrs[0]
      BY <2>1, Sizes
    <3> QED BY <2>1, <3>1, <3>2, <3>3
  <2> HIDE DEF ptrs
  <2>5. x \in InodeType /\ x.type = "file" /\ x.size = 0 /\ x.ptrs[0] = 0
    <3>1. 0 \in 0..MaxFile
      BY ConstantFacts DEF MaxFile
    <3> QED BY <2>4, <3>1 DEF Inode, InodeType
  <2> HIDE DEF x
  <2>6. w \in WriteType /\ w.lba = i /\ w.value = x
    BY <2>2, <2>5, Contents, PutIs
  <2>7. frees \in Seq(WriteType) /\ Len(frees) = Len(used) /\ \A k \in 1..Len(used) : frees[k].lba = 1
    BY <1>0, <2>3, MarkFreeIs
  <2> HIDE DEF w, frees
  <2>8. /\ ws \in Seq(WriteType) /\ Len(ws) = Len(frees) + 1 /\ Len(frees) \in Nat
        /\ ws[Len(frees) + 1] = w /\ \A j \in 1..Len(frees) : ws[j] = frees[j]
    BY <2>6, <2>7
  <2> HIDE DEF ws
  <2> DEFINE l == Len(ws)
  <2>9. /\ l \in Nat \ {0} /\ ws[l] = w /\ l \in 1..l
        /\ \A j \in 1..(l - 1) : ws[j].lba = 1
        /\ \A k \in 0..(l - 1) : k \in Nat /\ \A j \in 1..k : j \in 1..(l - 1)
        /\ \A j \in 1..l : j = l \/ j \in 1..(l - 1)
        /\ (l + 1)..l = {}
    BY <2>7, <2>8
  <2> HIDE DEF l, op, t, u
  <2>10. ASSUME NEW k \in 0..(l - 1) PROVE Becomes(disk, ws, op, k, t)
    <3>1. k \in Nat /\ \A j \in 1..k : ws[j].lba = 1 \/ ws[j].lba \notin Taken(disk, S)
      BY <2>9
    <3> QED BY <1>0, <3>1, OutsideBecomes DEF t
  <2>11. u = Fs!With(t, Fs!File(q, <<>>))
    BY <1>1 DEF Fs!After, u, op
  <2>12. ASSUME NEW e, DiskAfter(disk, ws, op, l, e) PROVE Distinct(e) /\ TreeOn(e) = u
    <3>1. e[i] = x
      <4>1. Latest(ws, l, i, l)
        BY <2>6, <2>9 DEF Latest
      <4> QED BY <2>2, <2>6, <2>9, <2>12, <4>1, BlockAfter
    <3>2. ASSUME NEW b \in Space, b # i PROVE e[b] = disk[b]
      <4>1. b \in 1..(DiskSize - 1) /\ b # 1
        BY Sizes
      <4>2. None(ws, l, b)
        BY <2>6, <2>9, <3>2, <4>1 DEF None
      <4> QED BY <2>12, <4>1, <4>2, BlockAfter
    <3>3. Beyond(disk, e, S, i)
      BY <3>2 DEF Beyond
    <3>4. Owns(e, i) = {} /\ e[i] \in InodeType /\ e[i].type = "file" /\ e[i].size = 0 /\ Head0(e, i) = 0
      BY <2>5, <3>1, BlocksOfNothing DEF Owns, Head0
    <3>5. Sound(e, S)
      BY <1>0, <2>1, <3>2, <3>4, FileRewritten
    <3>6. Refiled(disk, e, q, Text(e, i))
      BY <1>0, <2>1, <2>r, <3>3, <3>4, <3>5, FileShown
    <3>7. Text(e, i) = <<>>
      BY <3>4, NoText
    <3> QED BY <2>11, <3>6, <3>7 DEF Refiled, t
  <2>13. Becomes(disk, ws, op, l, u)
    BY <2>12 DEF Becomes
  <2>14. Effect(t, u, r, c)
    <3>1. Fs!Value(t, c) = NULL
      BY <1>1, Unchanging DEF op
    <3>2. Fs!Success(NULL) = Success(NULL)
      BY DEF Fs!Success, Success
    <3> QED BY <3>1, <3>2 DEF Effect, u
  <2>15. ws # <<>>
    BY <2>9, EmptySeq DEF l
  <2>16. ws[l].lba # 1
    BY <2>2, <2>6, <2>9
  <2>17. Fs!Errors(t, c) = {}
    BY <2>e DEF t
  <2>18. \A k \in 0..(l - 1) : Becomes(disk, ws, op, k, t)
    BY <2>10
  <2>19. writes' = ws /\ ret' = r
    BY <1>5 DEF Finish, ws, w, x, ptrs, used, frees, i
  <2> HIDE DEF c, r
  <2>20. op = c.op
    BY DEF op
  <2>21. Open(ws, r, 0) /\ \E z : Plot(disk, ws, r, c, z)
    BY <1>1, <2>8, <2>13, <2>14, <2>15, <2>16, <2>17, <2>18, <2>20, LastPlot DEF l
  <2> QED BY <2>15, <2>19, <2>21 DEF Outcome, c
<1> QED BY <1>3, <1>4, <1>5 DEF Truncate

\* The bytes b with the first n of "new" over them from offset off on.
Patched(b, off, new, n) ==
  [x \in 1..(IF off + n > Len(b) THEN off + n ELSE Len(b)) |->
     IF off < x /\ x <= off + n THEN new[x - off] ELSE b[x]]

(* Patched bytes are as long as the longer of the two.                      *)
LEMMA PatchedIs ==
  ASSUME NEW V, NEW b \in Seq(V), NEW off \in Nat, off <= Len(b), NEW new \in Seq(V), NEW n \in 0..Len(new)
  PROVE  LET l == IF off + n > Len(b) THEN off + n ELSE Len(b)
             a == Patched(b, off, new, n)
         IN  /\ l \in Nat /\ a \in Seq(V) /\ Len(a) = l
             /\ \A x \in 1..l : a[x] = IF off < x /\ x <= off + n THEN new[x - off] ELSE b[x]
<1> DEFINE l == IF off + n > Len(b) THEN off + n ELSE Len(b)
           A(x) == IF off < x /\ x <= off + n THEN new[x - off] ELSE b[x]
           a == Patched(b, off, new, n)
<1>1. l \in Nat /\ Len(b) \in Nat /\ n \in Nat
  OBVIOUS
<1>2. ASSUME NEW x \in 1..l PROVE A(x) \in V
  <2>1. CASE off < x /\ x <= off + n
    <3> DEFINE y == x - off
    <3>1. y \in 1..Len(new)
      BY <1>1, <2>1
    <3> HIDE DEF y
    <3>2. new[y] \in V
      BY <3>1
    <3> QED BY <2>1, <3>2 DEF y
  <2>2. CASE ~(off < x /\ x <= off + n)
    <3>1. x \in 1..Len(b)
      BY <1>1, <2>2
    <3> QED BY <2>2, <3>1
  <2> QED BY <2>1, <2>2
<1>3. a = [x \in 1..l |-> A(x)]
  BY DEF Patched
<1> HIDE DEF l, A, a
<1>4. a \in Seq(V) /\ Len(a) = l /\ \A x \in 1..l : a[x] = A(x)
  BY <1>1, <1>2, <1>3
<1> QED BY <1>1, <1>4 DEF l, A, a

(* Splice of FsTree lays one sequence over another.                         *)
LEMMA SpliceIs ==
  ASSUME NEW V, NEW b \in Seq(V), NEW off \in Nat, off <= Len(b), NEW new \in Seq(V)
  PROVE  Fs!Splice(b, off, new) = Patched(b, off, new, Len(new))
<1> DEFINE n == Len(new)
           m == Len(b)
           from == off + n + 1
           A == SubSeq(b, 1, off)
           C == SubSeq(b, from, m)
           h == A \o new
           s == h \o C
           l == IF off + n > m THEN off + n ELSE m
           p == Patched(b, off, new, n)
<1>1. m \in Nat /\ n \in Nat /\ n \in 0..n /\ from \in Nat /\ from >= 1
  OBVIOUS
<1>2. /\ l \in Nat /\ p \in Seq(V) /\ Len(p) = l
      /\ \A x \in 1..l : p[x] = IF off < x /\ x <= off + n THEN new[x - off] ELSE b[x]
  BY <1>1, PatchedIs
<1> HIDE DEF p
<1>3. A \in Seq(V) /\ Len(A) = off /\ \A x \in 1..off : A[x] = b[x]
  <2>1. 1 \in Int /\ off \in Int /\ \A x \in 1..off : b[x] \in V
    <3>1. \A x \in 1..off : x \in 1..m
      BY <1>1
    <3> QED BY <3>1
  <2>2. /\ A \in Seq(V) /\ Len(A) = IF 1 <= off THEN off - 1 + 1 ELSE 0
        /\ \A x \in 1..(off - 1 + 1) : A[x] = b[1 + x - 1]
    BY <2>1, SubSeqProperties
  <2>3. off - 1 + 1 = off /\ \A x \in 1..off : 1 + x - 1 = x
    OBVIOUS
  <2> HIDE DEF A
  <2> QED BY <2>2, <2>3
<1>4. /\ C \in Seq(V) /\ Len(C) = IF from <= m THEN m - from + 1 ELSE 0
      /\ \A x \in 1..(m - from + 1) : C[x] = b[from + x - 1]
  <2>1. from \in Int /\ m \in Int /\ \A x \in from..m : b[x] \in V
    <3>1. \A x \in from..m : x \in 1..m
      BY <1>1
    <3> QED BY <3>1
  <2> HIDE DEF from, m
  <2> QED BY <2>1, SubSeqProperties
<1> HIDE DEF A, C
<1>5. /\ h \in Seq(V) /\ Len(h) = off + n
      /\ \A x \in 1..(off + n) : h[x] = IF x <= off THEN A[x] ELSE new[x - off]
  BY <1>3, ConcatProperties
<1> HIDE DEF h
<1>6. /\ s \in Seq(V) /\ Len(s) = off + n + Len(C)
      /\ \A x \in 1..(off + n + Len(C)) : s[x] = IF x <= off + n THEN h[x] ELSE C[x - (off + n)]
  <2>1. /\ s \in Seq(V) /\ Len(s) = Len(h) + Len(C)
        /\ \A x \in 1..Len(h) + Len(C) : s[x] = IF x <= Len(h) THEN h[x] ELSE C[x - Len(h)]
    BY <1>4, <1>5, ConcatProperties
  <2> HIDE DEF s
  <2> QED BY <1>5, <2>1
<1> HIDE DEF s, n, m
<1>7. off + n + Len(C) = l
  BY <1>1, <1>4
<1>8. ASSUME NEW x \in 1..l PROVE s[x] = p[x]
  <2>1. CASE x <= off
    <3>1. x \in 1..off /\ x \in 1..(off + n) /\ x <= off + n /\ ~(off < x)
      BY <1>1, <2>1
    <3>2. s[x] = b[x]
      BY <1>3, <1>5, <1>6, <1>7, <2>1, <3>1
    <3> QED BY <1>2, <3>1, <3>2
  <2>2. CASE off < x /\ x <= off + n
    <3>1. x \in 1..(off + n) /\ ~(x <= off)
      BY <1>1, <2>2
    <3>2. s[x] = new[x - off]
      BY <1>5, <1>6, <1>7, <2>2, <3>1
    <3> QED BY <1>2, <2>2, <3>2
  <2>3. CASE ~(x <= off + n)
    <3> DEFINE y == x - (off + n)
    <3>1. y \in 1..(m - from + 1) /\ from + y - 1 = x
      BY <1>1, <2>3
    <3> HIDE DEF y, from
    <3>2. C[y] = b[x]
      BY <1>4, <3>1
    <3>3. s[x] = C[y]
      BY <1>6, <1>7, <2>3 DEF y
    <3> QED BY <1>2, <2>3, <3>2, <3>3
  <2>4. x <= off \/ (off < x /\ x <= off + n) \/ ~(x <= off + n)
    BY <1>1
  <2> QED BY <2>1, <2>2, <2>3, <2>4
<1> HIDE DEF l
<1>9. Len(s) = Len(p) /\ \A x \in 1..Len(s) : s[x] = p[x]
  BY <1>2, <1>6, <1>7, <1>8
<1>10. s = p
  BY <1>2, <1>6, <1>9, SeqEqual
<1> QED BY <1>10 DEF s, h, A, C, p, n, m, Fs!Splice

(* A longer prefix over a shorter one is as if it had come first.           *)
LEMMA Patching ==
  ASSUME NEW V, NEW b \in Seq(V), NEW off \in Nat, off <= Len(b), NEW new \in Seq(V),
         NEW n \in 0..Len(new), NEW m \in 0..n, off + m <= Len(b)
  PROVE  Fs!Splice(Patched(b, off, new, m), off, SubSeq(new, 1, n)) = Patched(b, off, new, n)
<1> DEFINE a == Patched(b, off, new, m)
           z == SubSeq(new, 1, n)
           p == Patched(b, off, new, n)
           q == Patched(a, off, z, n)
           l == IF off + n > Len(b) THEN off + n ELSE Len(b)
<1>0. n \in Nat /\ m \in Nat /\ Len(b) \in Nat /\ Len(new) \in Nat /\ m \in 0..Len(new) /\ n <= Len(new)
  OBVIOUS
<1>1. /\ a \in Seq(V) /\ Len(a) = Len(b)
      /\ \A x \in 1..Len(b) : a[x] = IF off < x /\ x <= off + m THEN new[x - off] ELSE b[x]
  <2> DEFINE k == IF off + m > Len(b) THEN off + m ELSE Len(b)
  <2>1. k = Len(b)
    BY <1>0
  <2>2. /\ a \in Seq(V) /\ Len(a) = k
        /\ \A x \in 1..k : a[x] = IF off < x /\ x <= off + m THEN new[x - off] ELSE b[x]
    BY <1>0, PatchedIs
  <2> HIDE DEF k, a
  <2> QED BY <2>1, <2>2
<1>2. /\ l \in Nat /\ p \in Seq(V) /\ Len(p) = l
      /\ \A x \in 1..l : p[x] = IF off < x /\ x <= off + n THEN new[x - off] ELSE b[x]
  BY <1>0, PatchedIs
<1>3. z \in Seq(V) /\ Len(z) = n /\ \A x \in 1..n : z[x] = new[x]
  <2>1. 1 \in Int /\ n \in Int /\ \A x \in 1..n : new[x] \in V
    <3>1. \A x \in 1..n : x \in 1..Len(new)
      BY <1>0
    <3> QED BY <3>1
  <2>2. /\ z \in Seq(V) /\ Len(z) = IF 1 <= n THEN n - 1 + 1 ELSE 0
        /\ \A x \in 1..(n - 1 + 1) : z[x] = new[1 + x - 1]
    BY <2>1, SubSeqProperties
  <2>3. n - 1 + 1 = n /\ \A x \in 1..n : 1 + x - 1 = x
    BY <1>0
  <2> HIDE DEF z
  <2> QED BY <1>0, <2>2, <2>3
<1> HIDE DEF a, p, z
<1>4. n \in 0..Len(z)
  BY <1>0, <1>3
<1>5. /\ q \in Seq(V) /\ Len(q) = l
      /\ \A x \in 1..l : q[x] = IF off < x /\ x <= off + n THEN z[x - off] ELSE a[x]
  <2> DEFINE k == IF off + n > Len(a) THEN off + n ELSE Len(a)
  <2>1. k = l
    BY <1>1
  <2>2. /\ q \in Seq(V) /\ Len(q) = k
        /\ \A x \in 1..k : q[x] = IF off < x /\ x <= off + n THEN z[x - off] ELSE a[x]
    BY <1>1, <1>3, <1>4, PatchedIs
  <2> HIDE DEF k, q, l
  <2> QED BY <2>1, <2>2
<1> HIDE DEF q
<1>6. ASSUME NEW x \in 1..l PROVE q[x] = p[x]
  <2>1. CASE off < x /\ x <= off + n
    <3> DEFINE y == x - off
    <3>1. y \in 1..n
      BY <1>0, <2>1
    <3> HIDE DEF y
    <3>2. z[y] = new[y]
      BY <1>3, <3>1
    <3> QED BY <1>2, <1>5, <2>1, <3>2 DEF y
  <2>2. CASE ~(off < x /\ x <= off + n)
    <3>1. x \in 1..Len(b) /\ ~(off < x /\ x <= off + m)
      BY <1>0, <2>2
    <3>2. a[x] = b[x]
      BY <1>1, <3>1
    <3> QED BY <1>2, <1>5, <2>2, <3>2
  <2> QED BY <2>1, <2>2
<1> HIDE DEF l
<1>7. Len(q) = Len(p) /\ \A x \in 1..Len(q) : q[x] = p[x]
  BY <1>2, <1>5, <1>6
<1>8. q = p
  BY <1>2, <1>5, <1>7, SeqEqual
<1>9. Fs!Splice(a, off, z) = Patched(a, off, z, Len(z))
  <2>1. off <= Len(a)
    BY <1>1
  <2> QED BY <1>1, <1>3, <2>1, SpliceIs
<1> QED BY <1>3, <1>8, <1>9 DEF a, p, q, z

\* The block fs_write begins in, and how many of its bytes are in the first k
\* blocks it writes.
WriteFirst == call.off \div BlockSize
Covered(k) == LET n == (WriteFirst + k) * BlockSize - call.off
              IN  IF k = 0 THEN 0 ELSE IF n < Len(call.buf) THEN n ELSE Len(call.buf)
WriteBlocks(k) == WriteFirst..(WriteFirst + k - 1)
\* On disk e these blocks of the pointers p are written, and no other block is
\* another, unless inode i is.
Written(e, i, p, k) ==
  /\ \A j \in WriteBlocks(k) : e[p[j]] = NewBytes(p, j)
  /\ \A b \in Space : b # i /\ (\A j \in WriteBlocks(k) : b # p[j]) => e[b] = disk[b]
\* The first m of the pointers p, of inode i, are different blocks.
Laid(i, p, m) == /\ \A k \in 0..(m - 1) : p[k] \in Space /\ p[k] # i
                 /\ \A k, l \in 0..(m - 1) : p[k] = p[l] => k = l

(* Where the bytes of a write lie.                                          *)
LEMMA CoverIs ==
  ASSUME NEW off \in Nat, NEW len \in Nat, NEW P \in Nat \ {0}, NEW first \in Nat,
         first * P <= off, off < (first + 1) * P, NEW k \in Nat, NEW j \in Nat, NEW o \in 0..(P - 1),
         NEW c, c = IF k = 0 THEN 0 ELSE IF (first + k) * P - off < len THEN (first + k) * P - off ELSE len
  PROVE  /\ off <= j * P + o /\ j * P + o < off + c
              <=> j \in first..(first + k - 1) /\ j * P + o - off \in 0..(len - 1)
         /\ c \in 0..len
<1>1. ASSUME NEW a \in Nat, NEW b \in Nat, a <= b PROVE a * P <= b * P
  BY <1>1
<1>2. ASSUME NEW a \in Nat PROVE a * P \in Nat /\ (a + 1) * P = a * P + P
  OBVIOUS
<1> DEFINE A == first * P
           B == (first + k) * P
           J == j * P
<1>3. /\ A \in Nat /\ B \in Nat /\ J \in Nat /\ off < A + P
  BY <1>2
<1>4. j < first => J + P <= A
  <2>1. j < first => (j + 1) * P <= first * P
    BY <1>1
  <2> QED BY <1>2, <2>1
<1>5. ~(j < first + k) => B <= J
  <2>1. ~(j < first + k) => (first + k) * P <= j * P
    BY <1>1
  <2> QED BY <2>1
<1>6. j < first + k => J + P <= B
  <2>1. j < first + k => (j + 1) * P <= (first + k) * P
    BY <1>1
  <2> QED BY <1>2, <2>1
<1>7. k # 0 => A + P <= B
  <2>1. k # 0 => (first + 1) * P <= (first + k) * P
    BY <1>1
  <2> QED BY <1>2, <2>1
<1>8. c = IF k = 0 THEN 0 ELSE IF B - off < len THEN B - off ELSE len
  OBVIOUS
<1>9. A <= off
  OBVIOUS
<1> HIDE DEF A, B, J
<1>10. c \in 0..len
  BY <1>3, <1>7, <1>8, <1>9
<1>11. off <= J + o /\ J + o < off + c <=> j \in first..(first + k - 1) /\ J + o - off \in 0..(len - 1)
  <2>1. CASE k = 0
    BY <1>3, <1>8, <2>1
  <2>2. CASE k # 0
    <3>1. CASE j < first
      BY <1>3, <1>4, <1>9, <3>1
    <3>2. CASE ~(j < first) /\ j < first + k
      BY <1>3, <1>6, <1>8, <1>10, <2>2, <3>2
    <3>3. CASE ~(j < first + k)
      BY <1>3, <1>5, <1>7, <1>8, <1>9, <1>10, <2>2, <3>3
    <3> QED BY <3>1, <3>2, <3>3
  <2> QED BY <2>1, <2>2
<1> QED BY <1>10, <1>11 DEF J

(* A byte of the file then is one of the caller's, or what it was.          *)
LEMMA ByteIs ==
  ASSUME NEW S, Ready(S), NEW i, NEW p, NEW m \in Nat, Laid(i, p, m), NEW e, NEW k \in Nat, Written(e, i, p, k),
         WriteBlocks(k) \subseteq 0..(m - 1), NEW j \in 0..(m - 1), NEW o \in Offsets
  PROVE  BytesOf(e, p[j])[o]
           = IF call.off <= j * BlockSize + o /\ j * BlockSize + o < call.off + Covered(k)
             THEN call.buf[(j * BlockSize + o) - call.off + 1] ELSE BytesOf(disk, p[j])[o]
<1>1. /\ call.off \in Nat /\ call.buf \in Seq(Data) /\ Len(call.buf) \in Nat
      /\ BlockSize \in Nat \ {0} /\ Offsets = 0..(BlockSize - 1) /\ Image
  BY ConstantFacts DEF Ready, Offsets
<1> DEFINE off == call.off
           len == Len(call.buf)
           P == BlockSize
           first == WriteFirst
           c == Covered(k)
           at == j * P + o - off
           In == off <= j * P + o /\ j * P + o < off + c
<1>2. first \in Nat /\ first * P <= off /\ off < (first + 1) * P
  <2>1. first = off \div P /\ off \in Nat /\ P \in Nat \ {0}
    BY <1>1 DEF WriteFirst
  <2> HIDE DEF first, off, P
  <2> QED BY <2>1
<1>3. c = IF k = 0 THEN 0 ELSE IF (first + k) * P - off < len THEN (first + k) * P - off ELSE len
  BY DEF Covered
<1>4. In <=> j \in first..(first + k - 1) /\ at \in 0..(len - 1)
  <2>1. off \in Nat /\ len \in Nat /\ P \in Nat \ {0} /\ j \in Nat /\ o \in 0..(P - 1)
    BY <1>1
  <2> HIDE DEF first, c, off, len, P
  <2> QED BY <1>2, <1>3, <2>1, CoverIs
<1>5. p[j] \in Space /\ p[j] # i /\ p[j] \in DOMAIN disk
  BY <1>1, Sizes DEF Laid, Image
<1>6. ReadBytes(p[j]) = BytesOf(disk, p[j])
  BY <1>5 DEF ReadBytes, BytesOf, Holds
<1>7. CASE j \in WriteBlocks(k)
  <2>1. e[p[j]] = NewBytes(p, j)
    BY <1>7 DEF Written
  <2>2. BytesOf(e, p[j])[o] = IF at \in 0..(len - 1) THEN call.buf[at + 1] ELSE ReadBytes(p[j])[o]
    BY <2>1 DEF BytesOf, NewBytes, Bytes
  <2>3. In <=> at \in 0..(len - 1)
    BY <1>4, <1>7 DEF WriteBlocks
  <2>4. at + 1 = (j * P + o) - off + 1
    <3>1. j * P \in Int /\ o \in Int /\ off \in Int
      BY <1>1
    <3> QED BY <3>1
  <2> QED BY <1>6, <2>2, <2>3, <2>4
<1>8. CASE j \notin WriteBlocks(k)
  <2>1. \A l \in WriteBlocks(k) : p[j] # p[l]
    BY <1>8 DEF Laid
  <2>2. e[p[j]] = disk[p[j]]
    BY <1>5, <2>1 DEF Written
  <2>3. ~In
    BY <1>4, <1>8 DEF WriteBlocks
  <2> QED BY <2>2, <2>3 DEF BytesOf
<1> QED BY <1>7, <1>8

\* File i of disk e has the size and the pointers p that fs_write gives it when
\* n of its bytes are counted.
Sized(e, i, p, m, n) ==
  LET size == disk[i].size
      s == IF call.off + n > size THEN call.off + n ELSE size
  IN  /\ e[i].size = s /\ BlocksFor(s) <= m
      /\ \A l \in 0..(BlocksFor(s) - 1) : e[i].ptrs[l] = p[l]
\* The pointers p begin with those of file i.
Extends(i, p, m) == /\ BlocksFor(disk[i].size) <= m
                    /\ \A l \in 0..(BlocksFor(disk[i].size) - 1) : p[l] = disk[i].ptrs[l]
\* The bytes in the first k blocks that lie in the file, or all of them.
Counted(i, k, n) == n \in 0..Covered(k) /\ (n = Covered(k) \/ call.off + n = disk[i].size)

(* The block and the offset of a byte.                                      *)
LEMMA Position ==
  ASSUME NEW s \in Nat, NEW x \in 1..s
  PROVE  LET l == (x - 1) \div BlockSize
             o == (x - 1) % BlockSize
         IN  l \in Nat /\ l \in 0..(BlocksFor(s) - 1) /\ o \in Offsets /\ l * BlockSize + o = x - 1
<1> DEFINE P == BlockSize
           l == (x - 1) \div P
           o == (x - 1) % P
<1>1. P \in Nat \ {0} /\ Offsets = 0..(P - 1) /\ x - 1 \in Nat /\ s - 1 \in Nat /\ x - 1 <= s - 1 /\ s # 0
  BY ConstantFacts DEF Offsets
<1>2. l \in Nat /\ l <= (s - 1) \div P
  BY <1>1, DivGrows
<1>3. (s - 1) \div P = BlocksFor(s) - 1
  BY <1>1, LastBlock
<1>4. o \in 0..(P - 1) /\ l * P + o = x - 1
  BY <1>1
<1> QED BY <1>1, <1>2, <1>3, <1>4

(* After the write the file has its old bytes with the caller's over them.  *)
LEMMA TextIs ==
  ASSUME NEW S, Ready(S), NEW i, disk[i].size \in Nat, call.off <= disk[i].size,
         NEW p, NEW m \in Nat, Laid(i, p, m), Extends(i, p, m),
         NEW e, NEW k \in Nat, Written(e, i, p, k), WriteBlocks(k) \subseteq 0..(m - 1),
         NEW n \in Nat, Counted(i, k, n), Sized(e, i, p, m, n), Covered(k) \in 0..Len(call.buf)
  PROVE  Text(e, i) = Patched(Text(disk, i), call.off, call.buf, n)
<1> DEFINE size == disk[i].size
           off == call.off
           buf == call.buf
           c == Covered(k)
           s == IF off + n > size THEN off + n ELSE size
           A(x) == IF off < x /\ x <= off + n THEN buf[x - off] ELSE Text(disk, i)[x]
<1>1. off \in Nat /\ c \in Nat /\ n <= c /\ (n = c \/ off + n = size) /\ BlocksFor(size) <= m
  BY ConstantFacts DEF Ready, Counted, Extends
<1>2. Len(Text(disk, i)) = size
  BY TextLength
<1>3. Patched(Text(disk, i), off, buf, n) = [x \in 1..s |-> A(x)]
  BY <1>2 DEF Patched
<1>4. Text(e, i) = [x \in 1..s |-> Byte(e, i, x)]
  BY DEF Text, Sized
<1>5. s \in Nat /\ BlocksFor(s) <= m /\ BlocksFor(s) \in Nat /\ BlocksFor(size) \in Nat
      /\ \A l \in 0..(BlocksFor(s) - 1) : e[i].ptrs[l] = p[l]
  <2>1. s \in Nat
    BY <1>1
  <2> HIDE DEF s
  <2>2. BlocksFor(s) \in Nat /\ BlocksFor(size) \in Nat
    BY <2>1, BlocksAre
  <2> QED BY <2>1, <2>2 DEF Sized, s
<1> HIDE DEF A
<1>6. ASSUME NEW x \in 1..s PROVE Byte(e, i, x) = A(x)
  <2> DEFINE P == BlockSize
             l == (x - 1) \div P
             o == (x - 1) % P
  <2>1. l \in Nat /\ l \in 0..(BlocksFor(s) - 1) /\ o \in Offsets /\ l * P + o = x - 1
    BY <1>5, Position
  <2>2. l \in 0..(m - 1) /\ e[i].ptrs[l] = p[l]
    BY <1>5, <2>1
  <2>3. Byte(e, i, x) = BytesOf(e, p[l])[o]
    BY <2>2 DEF Byte
  <2> DEFINE pos == l * P + o
  <2> HIDE DEF l, o
  <2>4. BytesOf(e, p[l])[o] = IF off <= pos /\ pos < off + c THEN buf[pos - off + 1] ELSE BytesOf(disk, p[l])[o]
    <3>1. Ready(S) /\ Laid(i, p, m) /\ Written(e, i, p, k) /\ WriteBlocks(k) \subseteq 0..(m - 1)
      OBVIOUS
    <3>2. BytesOf(e, p[l])[o]
            = IF call.off <= l * BlockSize + o /\ l * BlockSize + o < call.off + Covered(k)
              THEN call.buf[(l * BlockSize + o) - call.off + 1] ELSE BytesOf(disk, p[l])[o]
      BY <2>1, <2>2, <3>1, ByteIs
    <3> QED BY <3>2
  <2>5. pos = x - 1
    BY <2>1
  <2> HIDE DEF pos, c, off, buf
  <2>6. off <= pos /\ pos < off + c <=> off < x /\ x <= off + n
    BY <1>1, <1>5, <2>5
  <2>7. CASE off < x /\ x <= off + n
    <3>1. pos - off + 1 = x - off
      BY <1>1, <2>5
    <3>2. Byte(e, i, x) = buf[x - off]
      BY <2>3, <2>4, <2>6, <2>7, <3>1
    <3> QED BY <2>7, <3>2 DEF A
  <2>8. CASE ~(off < x /\ x <= off + n)
    <3>1. x \in 1..size
      BY <1>1, <2>8 DEF off
    <3>2. l \in 0..(BlocksFor(size) - 1)
      BY <3>1, Position DEF l
    <3>3. p[l] = disk[i].ptrs[l]
      BY <3>2 DEF Extends
    <3>4. Text(disk, i)[x] = BytesOf(disk, p[l])[o]
      BY <3>1, <3>3 DEF Text, Byte, l, o
    <3> QED BY <2>3, <2>4, <2>6, <2>8, <3>4 DEF A
  <2> QED BY <2>7, <2>8
<1> HIDE DEF s
<1> QED BY <1>3, <1>4, <1>6 DEF off, buf

(* More blocks hold more of the bytes.                                      *)
LEMMA CoveredGrows ==
  ASSUME NEW S, Ready(S)
  PROVE  /\ Covered(0) = 0
         /\ \A k \in Nat : Covered(k) \in 0..Len(call.buf)
         /\ \A j, k \in Nat : j <= k => Covered(j) <= Covered(k)
<1> DEFINE off == call.off
           len == Len(call.buf)
           P == BlockSize
           first == WriteFirst
           N(k) == (first + k) * P - off
<1>1. off \in Nat /\ call.buf \in Seq(Data) /\ len \in Nat /\ P \in Nat \ {0}
  BY ConstantFacts DEF Ready
<1>2. first \in Nat /\ first * P <= off /\ off < (first + 1) * P
  BY <1>1 DEF WriteFirst
<1>3. \A k : Covered(k) = IF k = 0 THEN 0 ELSE IF N(k) < len THEN N(k) ELSE len
  BY DEF Covered
<1> HIDE DEF off, len, P, first
<1>4. ASSUME NEW j \in Nat, NEW k \in Nat, j <= k PROVE N(j) <= N(k)
  <2>1. first + j \in Nat /\ first + k \in Nat /\ first + j <= first + k
    BY <1>2, <1>4
  <2>2. \A a, b \in Nat : a <= b => a * P <= b * P
    BY <1>1
  <2>3. (first + j) * P <= (first + k) * P
    BY <2>1, <2>2
  <2> QED BY <1>1, <1>2, <2>1, <2>3
<1>5. ASSUME NEW k \in Nat PROVE N(k) \in Int
  BY <1>1, <1>2
<1>6. N(1) \in Nat
  BY <1>1, <1>2
<1> HIDE DEF N
<1>7. ASSUME NEW k \in Nat, k # 0 PROVE N(k) \in Nat
  <2>1. 1 \in Nat /\ 1 <= k
    BY <1>7
  <2>2. N(1) <= N(k)
    BY <1>4, <2>1
  <2> QED BY <1>5, <1>6, <2>2
<1>8. \A k \in Nat : Covered(k) \in 0..len
  BY <1>1, <1>3, <1>7
<1>9. ASSUME NEW j \in Nat, NEW k \in Nat, j <= k PROVE Covered(j) <= Covered(k)
  <2>1. CASE j = 0
    BY <1>3, <1>8, <1>9, <2>1, <1>1
  <2>2. CASE j # 0
    <3>1. k # 0 /\ N(j) <= N(k) /\ N(j) \in Nat /\ N(k) \in Nat
      BY <1>4, <1>7, <1>9, <2>2
    <3> QED BY <1>1, <1>3, <2>2, <3>1
  <2> QED BY <2>1, <2>2
<1>10. Covered(0) = 0
  BY <1>3
<1> QED BY <1>8, <1>9, <1>10 DEF len

\* The writes of data put the blocks of the pointers p, and all the bytes.
DataPut(p, m, data) ==
  /\ data \in Seq(WriteType) /\ Len(data) \in Nat
  /\ \A j \in 1..Len(data) : /\ data[j].lba = p[WriteFirst + j - 1]
                             /\ data[j].value = NewBytes(p, WriteFirst + j - 1)
  /\ WriteBlocks(Len(data)) \subseteq 0..(m - 1)
  /\ Covered(Len(data)) = Len(call.buf)

(* The data writes of fs_write put the new bytes into the file's blocks.    *)
LEMMA DataPutIs ==
  ASSUME NEW S, Ready(S), NEW p, WriteEnd \in Nat, NEW m \in Nat, BlocksFor(WriteEnd) <= m,
         \A k \in 0..(m - 1) : p[k] \in Space
  PROVE  DataPut(p, m, DataWrites(p)) /\ WriteFirst \in Nat
<1> DEFINE buf == call.buf
           off == call.off
           end == WriteEnd
           P == BlockSize
           first == WriteFirst
           last == (end - 1) \div P
           b == BlocksFor(end)
           l == IF buf = <<>> THEN 0 ELSE last - first + 1
           X(k) == Put(p[k], NewBytes(p, k))
           data == DataWrites(p)
<1>1. off \in Nat /\ buf \in Seq(Data) /\ Len(buf) \in Nat /\ end = off + Len(buf) /\ P \in Nat \ {0}
  BY ConstantFacts DEF Ready, WriteEnd
<1>2. IF buf = <<>> THEN Len(buf) = 0 ELSE Len(buf) > 0
  BY <1>1
<1>3. data = [k \in 1..l |-> X(first + k - 1)]
  BY DEF DataWrites, WriteFirst
<1> HIDE DEF buf, off, end, data
<1>4. first \in Nat
  <2>1. off \in Nat /\ off <= off
    BY <1>1
  <2> QED BY <2>1, DivGrows DEF WriteFirst, off
<1>5. b \in Nat /\ end \in Nat
  BY BlocksAre DEF end
<1>6. ASSUME buf # <<>> PROVE last = b - 1 /\ last \in Nat /\ first <= last /\ end - 1 < (last + 1) * P
  <2>1. end - 1 \in Nat /\ off <= end - 1 /\ end \in Nat \ {0}
    BY <1>1, <1>2, <1>6
  <2>2. last = b - 1
    BY <2>1, LastBlock
  <2>3. last \in Nat /\ first <= last
    BY <1>1, <2>1, DivGrows DEF WriteFirst, off
  <2>4. end - 1 < (last + 1) * P
    BY <1>1, <2>1
  <2> QED BY <2>2, <2>3, <2>4
<1>m. b <= m
  BY DEF b, end
<1> HIDE DEF first, last, b
<1>7. l \in Nat /\ (buf # <<>> => l = last - first + 1) /\ (buf = <<>> => l = 0)
  BY <1>4, <1>6
<1> HIDE DEF l
<1>8. ASSUME NEW k \in 1..l PROVE first + k - 1 \in 0..(m - 1) /\ first + k - 1 \in Nat
  <2>1. buf # <<>>
    BY <1>7, <1>8
  <2> QED BY <1>4, <1>5, <1>6, <1>7, <1>m, <2>1
<1>9. ASSUME NEW k \in 0..(m - 1)
      PROVE  X(k) \in WriteType /\ X(k).lba = p[k] /\ X(k).value = NewBytes(p, k)
  <2>1. k \in Nat /\ p[k] \in Space
    BY <1>9
  <2>2. NewBytes(p, k) \in BlockContents
    BY <2>1, NewBytesAre
  <2> QED BY <2>1, <2>2, PutIs
<1> HIDE DEF X
<1>10. data \in Seq(WriteType) /\ Len(data) = l /\ \A j \in 1..l : data[j] = X(first + j - 1)
  <2>1. \A k \in 1..l : X(first + k - 1) \in WriteType
    BY <1>8, <1>9
  <2> QED BY <1>3, <1>7, <2>1
<1>11. ASSUME NEW j \in 1..l
       PROVE  data[j].lba = p[first + j - 1] /\ data[j].value = NewBytes(p, first + j - 1)
  <2>1. first + j - 1 \in 0..(m - 1) /\ data[j] = X(first + j - 1)
    BY <1>8, <1>10
  <2> QED BY <1>9, <2>1
<1>12. WriteBlocks(l) \subseteq 0..(m - 1)
  <2>1. ASSUME NEW k \in first..(first + l - 1) PROVE k \in 0..(m - 1)
    <3> DEFINE j == k - first + 1
    <3>1. j \in 1..l /\ first + j - 1 = k
      BY <1>4, <1>7, <2>1
    <3> HIDE DEF j
    <3> QED BY <1>8, <3>1
  <2> QED BY <2>1 DEF WriteBlocks, first
<1>13. Covered(l) = Len(buf)
  <2>1. Covered(l) = IF l = 0 THEN 0 ELSE IF (first + l) * P - off < Len(buf) THEN (first + l) * P - off ELSE Len(buf)
    BY DEF Covered, first, off, buf
  <2>2. CASE buf = <<>>
    BY <1>2, <1>7, <2>1, <2>2
  <2>3. CASE buf # <<>>
    <3>1. l # 0 /\ first + l = last + 1
      BY <1>4, <1>6, <1>7, <2>3
    <3> DEFINE B == (last + 1) * P
    <3>2. B \in Nat /\ end - 1 < B
      BY <1>1, <1>6, <2>3
    <3>3. (first + l) * P = B
      BY <3>1
    <3> HIDE DEF B
    <3>4. ~(B - off < Len(buf))
      BY <1>1, <3>2
    <3> QED BY <2>1, <3>1, <3>3, <3>4
  <2> QED BY <2>2, <2>3
<1> QED BY <1>4, <1>7, <1>10, <1>11, <1>12, <1>13 DEF DataPut, first, data, buf

\* fs_write's writes: a of the bitmap, n of data at the pointers p, inode i.
Puts(ws, a, n, p, i, x) ==
  /\ a \in Nat /\ n \in Nat /\ Len(ws) = a + n + 1
  /\ \A j \in 1..a : ws[j].lba = 1
  /\ \A j \in 1..n : /\ ws[a + j].lba = p[WriteFirst + j - 1]
                     /\ ws[a + j].value = NewBytes(p, WriteFirst + j - 1)
  /\ ws[a + n + 1].lba = i /\ ws[a + n + 1].value = x
\* How many of data are among the first k.
Done(a, n, k) == IF k <= a THEN 0 ELSE IF k < a + n THEN k - a ELSE n

\* The pointers are laid out for them.
Suits(ws, a, n, p, i, x, m) ==
  /\ Puts(ws, a, n, p, i, x) /\ i \in Space /\ m \in Nat /\ Laid(i, p, m)
  /\ WriteBlocks(n) \subseteq 0..(m - 1) /\ WriteFirst \in Nat
\* On disk e k of the writes are made.
Stored(e, ws, a, n, p, i, x, k) ==
  /\ Done(a, n, k) \in 0..n
  /\ Written(e, i, p, Done(a, n, k)) /\ e[i] = IF k = Len(ws) THEN x ELSE disk[i]

(* What they make of the disk.                                              *)
LEMMA WrittenAfter ==
  ASSUME NEW ws, NEW a, NEW n, NEW p, NEW i, NEW x, NEW m, Suits(ws, a, n, p, i, x, m),
         NEW op, op \notin Freeing, NEW k \in 0..Len(ws), NEW e, DiskAfter(disk, ws, op, k, e)
  PROVE  Stored(e, ws, a, n, p, i, x, k)
<1> DEFINE K == Done(a, n, k)
           first == WriteFirst
           top == a + n + 1
<1>0. /\ i \in Space /\ m \in Nat /\ Laid(i, p, m) /\ WriteBlocks(n) \subseteq 0..(m - 1)
      /\ first \in Nat /\ Puts(ws, a, n, p, i, x)
  BY DEF Suits
<1>1. /\ a \in Nat /\ n \in Nat /\ Len(ws) = top /\ top \in Nat /\ k \in 0..top
      /\ \A j \in 1..a : ws[j].lba = 1
      /\ \A j \in 1..n : ws[a + j].lba = p[first + j - 1] /\ ws[a + j].value = NewBytes(p, first + j - 1)
      /\ ws[top].lba = i /\ ws[top].value = x
  BY <1>0 DEF Puts
<1>2. K \in 0..n /\ (\A l \in 1..K : a + l <= k) /\ (\A l \in 1..n : a + l <= k => l \in 1..K)
  BY <1>1 DEF Done
<1>3. ASSUME NEW h \in 1..k PROVE h \in 1..a \/ (\E l \in 1..K : h = a + l) \/ (h = top /\ k = top)
  <2>1. CASE h <= a
    BY <2>1
  <2>2. CASE ~(h <= a) /\ h < top
    <3> DEFINE l == h - a
    <3>1. l \in 1..n /\ a + l = h /\ a + l <= k
      BY <1>1, <2>2
    <3> HIDE DEF l
    <3> QED BY <1>0, <1>2, <3>1
  <2>3. CASE ~(h < top)
    BY <1>1, <2>3
  <2> QED BY <2>1, <2>2, <2>3
<1>4. \A b \in Space : b \in 1..(DiskSize - 1) /\ b # 1
  BY Sizes
<1>5. ASSUME NEW l \in 1..K
      PROVE  /\ l \in 1..n /\ first + l - 1 \in WriteBlocks(n) /\ first + l - 1 \in 0..(m - 1)
             /\ first + l - 1 \in WriteBlocks(K) /\ a + l \in 1..k
  <2>1. l \in 1..n /\ a + l \in 1..k
    BY <1>1, <1>2
  <2>2. first + l - 1 \in first..(first + n - 1) /\ first + l - 1 \in first..(first + K - 1)
    <3>1. first \in Nat /\ n \in Nat /\ K \in 0..n /\ l \in 1..n /\ l \in 1..K
      BY <1>0, <1>1, <1>2, <2>1
    <3> HIDE DEF first
    <3> QED BY <3>1
  <2>3. first + l - 1 \in WriteBlocks(n) /\ first + l - 1 \in WriteBlocks(K)
    BY <2>2 DEF WriteBlocks
  <2> QED BY <1>0, <2>1, <2>3
<1> HIDE DEF K, top
<1>6. ASSUME NEW j \in WriteBlocks(K) PROVE e[p[j]] = NewBytes(p, j)
  <2> DEFINE l == j - first + 1
  <2>1. l \in 1..K /\ first + l - 1 = j
    <3>1. j \in first..(first + K - 1)
      BY <1>6 DEF WriteBlocks
    <3> QED BY <1>0, <1>2, <3>1
  <2> HIDE DEF l, first
  <2>2. /\ l \in 1..n /\ j \in 0..(m - 1) /\ a + l \in 1..k /\ ws[a + l].lba = p[j]
        /\ ws[a + l].value = NewBytes(p, j) /\ p[j] \in Space /\ p[j] # i
    BY <1>0, <1>1, <1>5, <2>1 DEF Laid
  <2>3. ASSUME NEW h \in (a + l + 1)..k PROVE ws[h].lba # p[j]
    <3>1. h \in 1..k /\ h \notin 1..a /\ h # a + l
      BY <1>1, <2>1
    <3>2. CASE h = top
      BY <1>1, <2>2, <3>2
    <3>3. CASE \E g \in 1..K : h = a + g
      <4>1. PICK g \in 1..K : h = a + g
        BY <3>3
      <4> DEFINE y == first + g - 1
      <4>2. g \in 1..n /\ y \in 0..(m - 1) /\ ws[h].lba = p[y] /\ g # l
        BY <1>1, <1>5, <3>1, <4>1
      <4>3. y # j
        BY <1>0, <2>1, <4>2 DEF first
      <4> HIDE DEF y
      <4> QED BY <1>0, <2>2, <4>2, <4>3 DEF Laid
    <3> QED BY <1>3, <3>1, <3>2, <3>3
  <2>4. Latest(ws, k, p[j], a + l)
    BY <2>2, <2>3 DEF Latest
  <2>5. e[p[j]] = ws[a + l].value
    BY <1>0, <1>4, <2>2, <2>4, BlockAfter
  <2> QED BY <2>2, <2>5
<1>7. ASSUME NEW b \in Space, b # i, \A j \in WriteBlocks(K) : b # p[j] PROVE e[b] = disk[b]
  <2>1. ASSUME NEW h \in 1..k PROVE ws[h].lba # b
    <3>1. CASE h \in 1..a
      BY <1>0, <1>1, <1>4, <3>1
    <3>2. CASE \E l \in 1..K : h = a + l
      <4>1. PICK l \in 1..K : h = a + l
        BY <3>2
      <4>2. l \in 1..n /\ ws[h].lba = p[first + l - 1] /\ first + l - 1 \in WriteBlocks(K)
        BY <1>1, <1>5, <4>1
      <4> QED BY <1>7, <4>2
    <3>3. CASE h = top
      BY <1>1, <1>7, <3>3
    <3> QED BY <1>3, <3>1, <3>2, <3>3
  <2>2. None(ws, k, b)
    BY <2>1 DEF None
  <2> QED BY <1>0, <1>4, <2>2, BlockAfter
<1>8. e[i] = IF k = top THEN x ELSE disk[i]
  <2>1. ASSUME NEW h \in 1..k, h # top PROVE ws[h].lba # i
    <3>1. CASE h \in 1..a
      BY <1>0, <1>1, <1>4, <3>1
    <3>2. CASE \E l \in 1..K : h = a + l
      <4>1. PICK l \in 1..K : h = a + l
        BY <3>2
      <4>2. ws[h].lba = p[first + l - 1] /\ first + l - 1 \in 0..(m - 1)
        BY <1>1, <1>5, <4>1
      <4> QED BY <1>0, <4>2 DEF Laid
    <3> QED BY <1>3, <2>1, <3>1, <3>2
  <2>2. CASE k = top
    <3>1. top \in 1..k /\ (top + 1)..k = {}
      BY <1>1, <2>2 DEF top
    <3>2. Latest(ws, k, i, top)
      BY <1>1, <3>1 DEF Latest
    <3> QED BY <1>0, <1>1, <1>4, <2>2, <3>1, <3>2, BlockAfter
  <2>3. CASE k # top
    <3>1. \A h \in 1..k : h # top
      BY <1>1, <2>3
    <3>2. None(ws, k, i)
      BY <2>1, <3>1 DEF None
    <3> QED BY <1>0, <1>4, <2>3, <3>2, BlockAfter
  <2> QED BY <2>2, <2>3
<1> QED BY <1>1, <1>2, <1>6, <1>7, <1>8 DEF Written, Stored, K, top

\* The first m of the pointers p are the file's, or blocks that are not taken.
Spare(S, i, p, m) == \A k \in 0..(m - 1) : p[k] \in Owned(disk, i) \/ p[k] \notin Taken(disk, S)
\* On disk e file i has its pointers among them, its first block one with data.
Fitted(e, i, p, m) ==
  /\ e[i] \in InodeType /\ e[i].type = "file"
  /\ \A l \in Owns(e, i) : l \in 0..(m - 1) /\ e[i].ptrs[l] = p[l]
  /\ IF e[i].size = 0 THEN Head0(e, i) = 0 ELSE e[Head0(e, i)].kind = "data"

(* After k of the writes the disk is a sound tree.                          *)
LEMMA WrittenSound ==
  ASSUME NEW S, Ready(S), NEW i \in S \ Dirs(disk, S), NEW p, NEW m \in Nat, Laid(i, p, m), Spare(S, i, p, m),
         NEW e, NEW k \in Nat, Written(e, i, p, k), WriteBlocks(k) \subseteq 0..(m - 1), Fitted(e, i, p, m)
  PROVE  Sound(e, S) /\ Beyond(disk, e, S, i)
<1>1. Sound(disk, S)
  BY DEF Ready
<1>2. ASSUME NEW b \in Space, b \in Taken(disk, S), b # i, b \notin Owned(disk, i) PROVE e[b] = disk[b]
  <2>1. \A j \in WriteBlocks(k) : b # p[j]
    BY <1>2 DEF Spare
  <2> QED BY <1>2, <2>1 DEF Written
<1>3. /\ e[i] \in InodeType /\ e[i].type = "file"
      /\ IF e[i].size = 0 THEN Head0(e, i) = 0 ELSE e[Head0(e, i)].kind = "data"
  BY DEF Fitted
<1>4. \A l \in Owns(e, i) : /\ e[i].ptrs[l] \in Space
                            /\ e[i].ptrs[l] \in Owned(disk, i) \/ e[i].ptrs[l] \notin Taken(disk, S)
  BY DEF Fitted, Laid, Spare
<1>5. \A j, l \in Owns(e, i) : e[i].ptrs[j] = e[i].ptrs[l] => j = l
  BY DEF Fitted, Laid
<1>6. Sound(e, S)
  BY <1>1, <1>2, <1>3, <1>4, <1>5, FileRewritten
<1> QED BY <1>2, <1>6 DEF Beyond

(* A first block with data keeps some, and one that is written has some.    *)
LEMMA HeadData ==
  ASSUME NEW S, Ready(S), NEW i, NEW p, NEW m \in Nat \ {0}, Laid(i, p, m),
         NEW e, NEW k \in Nat, Written(e, i, p, k), WriteBlocks(k) \subseteq 0..(m - 1),
         disk[p[0]].kind = "data" \/ 0 \in WriteBlocks(k)
  PROVE  e[p[0]].kind = "data"
<1>1. 0 \in 0..(m - 1) /\ p[0] \in Space /\ p[0] # i
  BY DEF Laid
<1>2. CASE 0 \in WriteBlocks(k)
  <2>1. e[p[0]] = NewBytes(p, 0)
    BY <1>2 DEF Written
  <2> QED BY <2>1 DEF NewBytes, Bytes
<1>3. CASE 0 \notin WriteBlocks(k)
  <2>1. \A j \in WriteBlocks(k) : p[0] # p[j]
    BY <1>1, <1>3 DEF Laid
  <2>2. e[p[0]] = disk[p[0]]
    BY <1>1, <2>1 DEF Written
  <2> QED BY <1>3, <2>2
<1> QED BY <1>2, <1>3

\* What fs_write has decided: to write the inode x of file i with m pointers p
\* by way of the writes ws.
Writes(S, i, p, m, a, n, x, ws) ==
  /\ i \in S \ Dirs(disk, S) /\ disk[i] \in InodeType /\ disk[i].type = "file" /\ disk[i].size \in Nat
  /\ call.off <= disk[i].size
  /\ m \in Nat /\ Laid(i, p, m) /\ Extends(i, p, m) /\ Spare(S, i, p, m)
  /\ Puts(ws, a, n, p, i, x) /\ WriteBlocks(n) \subseteq 0..(m - 1) /\ Covered(n) = Len(call.buf)
  /\ WriteFirst \in Nat
  /\ x \in InodeType /\ x.type = "file" /\ x.ptrs = p /\ x.size = NewSize(disk[i].size, WriteEnd)
  /\ x.size \in Nat /\ BlocksFor(x.size) = m /\ (x.size = 0 => p[0] = 0)
\* How many of the caller's bytes the file has after k of the writes.
Count(i, a, n, k) ==
  LET c == Covered(Done(a, n, k))
      left == disk[i].size - call.off
  IN  IF k = a + n + 1 THEN Len(call.buf) ELSE IF c < left THEN c ELSE left

(* After k of the writes file i has pointers as it should.                  *)
LEMMA WriteFits ==
  ASSUME NEW S, Ready(S), NEW i, NEW p, NEW m, NEW a, NEW n, NEW x, NEW ws, Writes(S, i, p, m, a, n, x, ws),
         NEW e, NEW k \in Nat, Written(e, i, p, k), WriteBlocks(k) \subseteq 0..(m - 1),
         e[i] = disk[i] \/ (e[i] = x /\ k = n)
  PROVE  Fitted(e, i, p, m)
<1> DEFINE size == disk[i].size
           cur == BlocksFor(size)
<1>1. /\ i \in S \ Dirs(disk, S) /\ disk[i] \in InodeType /\ disk[i].type = "file" /\ size \in Nat
      /\ m \in Nat /\ Laid(i, p, m) /\ cur <= m /\ \A l \in 0..(cur - 1) : p[l] = disk[i].ptrs[l]
      /\ Covered(n) = Len(call.buf) /\ WriteFirst \in Nat /\ n \in Nat /\ call.off <= size
      /\ x \in InodeType /\ x.type = "file" /\ x.ptrs = p /\ x.size = NewSize(disk[i].size, WriteEnd)
      /\ x.size \in Nat /\ BlocksFor(x.size) = m /\ (x.size = 0 => p[0] = 0)
  BY DEF Writes, Extends, Puts
<1>2. Sound(disk, S) /\ call.off \in Nat /\ Len(call.buf) \in Nat
  BY ConstantFacts DEF Ready
<1>3. cur \in Nat /\ (size # 0 => cur \in Nat \ {0})
  BY <1>1, BlocksAre, BlocksPositive
<1>4. IF size = 0 THEN Head0(disk, i) = 0 ELSE disk[Head0(disk, i)].kind = "data"
  BY <1>1, <1>2 DEF Sound, Heads
<1>5. ASSUME size # 0 PROVE /\ Head0(disk, i) = p[0] /\ disk[p[0]].kind = "data" /\ m \in Nat \ {0}
                            /\ e[p[0]].kind = "data"
  <2>1. 0 \in 0..(cur - 1) /\ m \in Nat \ {0}
    BY <1>1, <1>3, <1>5
  <2>2. p[0] = disk[i].ptrs[0]
    BY <1>1, <2>1
  <2>3. Head0(disk, i) = p[0] /\ disk[p[0]].kind = "data"
    BY <1>4, <1>5, <2>2 DEF Head0
  <2> QED BY <1>1, <2>1, <2>3, HeadData
<1> HIDE DEF cur
<1>6. CASE e[i] = disk[i]
  <2>1. Owns(e, i) = 0..(cur - 1) /\ Head0(e, i) = Head0(disk, i)
    BY <1>6 DEF Owns, Head0, cur
  <2>2. \A l \in Owns(e, i) : l \in 0..(m - 1) /\ e[i].ptrs[l] = p[l]
    BY <1>1, <1>3, <1>6, <2>1
  <2>3. IF e[i].size = 0 THEN Head0(e, i) = 0 ELSE e[Head0(e, i)].kind = "data"
    BY <1>4, <1>5, <1>6, <2>1
  <2> QED BY <1>1, <1>6, <2>2, <2>3 DEF Fitted
<1>7. CASE e[i] = x /\ k = n
  <2>1. Owns(e, i) = 0..(m - 1) /\ Head0(e, i) = p[0]
    BY <1>1, <1>7 DEF Owns, Head0
  <2>2. \A l \in Owns(e, i) : l \in 0..(m - 1) /\ e[i].ptrs[l] = p[l]
    BY <1>1, <1>7, <2>1
  <2>3. ASSUME x.size # 0, size = 0 PROVE e[p[0]].kind = "data"
    <3>1. m \in Nat \ {0}
      BY <1>1, <2>3, BlocksPositive
    <3>2. call.off = 0 /\ Len(call.buf) # 0
      BY <1>1, <1>2, <2>3 DEF NewSize, WriteEnd
    <3>3. n # 0
      BY <1>1, <1>2, <3>2, CoveredGrows
    <3>4. WriteFirst = 0
      BY <3>2, ConstantFacts DEF WriteFirst
    <3>5. 0 \in WriteBlocks(n)
      BY <1>1, <3>3, <3>4 DEF WriteBlocks
    <3> QED BY <1>1, <1>7, <3>1, <3>5, HeadData
  <2>4. IF e[i].size = 0 THEN Head0(e, i) = 0 ELSE e[Head0(e, i)].kind = "data"
    BY <1>1, <1>5, <1>7, <2>1, <2>3
  <2> QED BY <1>1, <1>7, <2>2, <2>4 DEF Fitted
<1> QED BY <1>6, <1>7

(* After k of the writes the tree has the bytes that are counted.           *)
LEMMA WriteShown ==
  ASSUME NEW S, Ready(S), Distinct(disk), NEW i, NEW p, NEW m, NEW a, NEW n, NEW x, NEW ws,
         Writes(S, i, p, m, a, n, x, ws), NEW q, Reaches(disk, q, i),
         NEW op, op \notin Freeing, NEW k \in 0..Len(ws), NEW e, DiskAfter(disk, ws, op, k, e)
  PROVE  Refiled(disk, e, q, Patched(Text(disk, i), call.off, call.buf, Count(i, a, n, k)))
<1> DEFINE K == Done(a, n, k)
           z == Count(i, a, n, k)
           size == disk[i].size
           off == call.off
           buf == call.buf
           last == k = a + n + 1
<1>1. /\ i \in S \ Dirs(disk, S) /\ disk[i].size \in Nat
      /\ m \in Nat /\ Laid(i, p, m) /\ Extends(i, p, m) /\ Spare(S, i, p, m)
      /\ Puts(ws, a, n, p, i, x) /\ WriteBlocks(n) \subseteq 0..(m - 1) /\ Covered(n) = Len(buf)
      /\ WriteFirst \in Nat /\ call.off <= size
      /\ x.ptrs = p /\ x.size = NewSize(size, WriteEnd) /\ BlocksFor(x.size) = m
  BY DEF Writes
<1>2. /\ a \in Nat /\ n \in Nat /\ Len(ws) = a + n + 1
  BY <1>1 DEF Puts
<1>3. Sound(disk, S) /\ off \in Nat /\ Len(buf) \in Nat /\ i \in Space
  BY <1>1, ConstantFacts, TakenAre DEF Ready
<1>4. K \in 0..n /\ Written(e, i, p, K) /\ e[i] = IF last THEN x ELSE disk[i]
  <2>1. Suits(ws, a, n, p, i, x, m)
    BY <1>1, <1>3 DEF Suits
  <2>2. Stored(e, ws, a, n, p, i, x, k)
    BY <2>1, WrittenAfter
  <2> QED BY <1>2, <2>2 DEF Stored
<1>5. last => K = n
  BY <1>2 DEF Done
<1>6. K \in Nat /\ WriteBlocks(K) \subseteq 0..(m - 1)
  <2>1. WriteBlocks(K) \subseteq WriteBlocks(n)
    BY <1>1, <1>2, <1>4 DEF WriteBlocks
  <2> QED BY <1>1, <1>2, <1>4, <2>1
<1> DEFINE c == Covered(K)
<1>7. c \in 0..Len(buf) /\ Covered(n) = Len(buf)
  BY <1>1, <1>6, CoveredGrows
<1>z. z = IF last THEN Len(buf) ELSE IF c < size - off THEN c ELSE size - off
  BY DEF Count
<1> HIDE DEF K, z
<1>8. Fitted(e, i, p, m)
  BY <1>4, <1>5, <1>6, WriteFits
<1>9. Sound(e, S) /\ Beyond(disk, e, S, i)
  BY <1>1, <1>4, <1>6, <1>8, WrittenSound
<1>10. z \in Nat /\ Counted(i, K, z)
  <2>1. last => c = Len(buf)
    BY <1>5, <1>7
  <2> HIDE DEF last, c, buf, off, size
  <2>2. z \in 0..c /\ z \in Nat /\ (z = c \/ off + z = size)
    BY <1>1, <1>3, <1>7, <1>z, <2>1 DEF size, off
  <2> QED BY <2>2 DEF Counted, c, off, size
<1>11. Sized(e, i, p, m, z)
  <2> DEFINE s == IF off + z > size THEN off + z ELSE size
  <2>1. CASE last
    <3>1. s = x.size
      BY <1>1, <1>z, <2>1 DEF NewSize, WriteEnd
    <3> QED BY <1>1, <1>4, <2>1, <3>1 DEF Sized
  <2>2. CASE ~last
    <3>1. s = size
      BY <1>1, <1>3, <1>7, <1>z, <2>2
    <3> QED BY <1>1, <1>4, <2>2, <3>1 DEF Sized, Extends
  <2> QED BY <2>1, <2>2
<1>12. Text(e, i) = Patched(Text(disk, i), off, buf, z)
  BY <1>1, <1>4, <1>6, <1>7, <1>10, <1>11, TextIs
<1>13. Refiled(disk, e, q, Text(e, i))
  BY <1>1, <1>3, <1>8, <1>9, FileShown DEF Fitted
<1> QED BY <1>12, <1>13 DEF z

\* fs_write has found the file i and the blocks it needs.
Decides(i, cur, need, got, p, x) ==
  /\ call.op = "write" /\ i = Translate(call.path) /\ FileError(i) = 0
  /\ call.off <= disk[i].size /\ cur = BlocksFor(disk[i].size)
  /\ need = IF BlocksFor(WriteEnd) > cur THEN BlocksFor(WriteEnd) - cur ELSE 0
  /\ got = Allocated(need) /\ Len(got) = need
  /\ p = Grown(disk[i].ptrs, cur, got)
  /\ x = Inode("file", NewSize(disk[i].size, WriteEnd), p)

\* It makes the writes ws.
Makes(i, got, p, x, ws) == ws = MarkUsed(got) \o DataWrites(p) \o <<Put(i, x)>>

(* An fs_write that goes on has decided what to write, as WriteGoes says.   *)
LEMMA WriteDecides ==
  ASSUME NEW S, Ready(S), NEW i, NEW cur, NEW need, NEW got, NEW p, NEW x, Decides(i, cur, need, got, p, x),
         NEW ws, Makes(i, got, p, x, ws)
  PROVE  ws \in Seq(WriteType) /\ \E m, n : Writes(S, i, p, m, need, n, x, ws)
<1> DEFINE size == disk[i].size
           old == disk[i].ptrs
           end == WriteEnd
           m == cur + need
           marks == MarkUsed(got)
           data == DataWrites(p)
           n == Len(data)
           w == Put(i, x)
<1>0. call.off <= size /\ cur = BlocksFor(size)
  BY DEF Decides
<1>1. /\ i \in S \ Dirs(disk, S) /\ i \in S /\ disk[i] \in InodeType /\ size \in 0..MaxFile /\ size \in Nat
      /\ old \in [Ptrs -> Blocks] /\ (size = 0 => old[0] = 0)
  BY FileOk DEF Decides
<1>2. i \in Space /\ disk[i].type = "file" /\ Sound(disk, S) /\ bitmap \in SUBSET Blocks
  <2>1. Sound(disk, S) /\ Image /\ bitmap \in SUBSET Blocks
    BY DEF Ready
  <2>2. i \in Space
    BY <1>1, NodeIs
  <2>3. disk[i].type \in {"dir", "file"}
    BY <1>1 DEF InodeType
  <2> QED BY <1>1, <2>1, <2>2, <2>3 DEF Dirs
<1>3. end \in 0..MaxFile /\ end \in Nat
  <2>1. call \in Calls /\ call.op = "write"
    BY DEF Ready, Decides
  <2>2. call.off \in Nat /\ call.buf \in Seq(Data) /\ call.off + Len(call.buf) <= MaxFile
    BY <2>1, ConstantFacts
  <2>3. Len(call.buf) \in Nat /\ MaxFile \in Nat
    BY <2>2, ConstantFacts DEF MaxFile
  <2> QED BY <2>2, <2>3 DEF WriteEnd
<1> HIDE DEF end
<1>4. /\ cur \in Nat /\ need \in Nat /\ BlocksFor(end) <= cur + need /\ cur + need <= MaxPtrs
      /\ NewSize(size, end) \in 0..MaxFile /\ BlocksFor(NewSize(size, end)) = cur + need
  <2>1. cur = BlocksFor(size) /\ need = IF BlocksFor(end) > cur THEN BlocksFor(end) - cur ELSE 0
    BY DEF end, Decides
  <2> HIDE DEF size
  <2> QED BY <1>1, <1>3, <2>1, NeedIs
<1>5. GrownBy(S, i, cur, need, p)
  <2>1. /\ Len(Allocated(need)) = need /\ cur = BlocksFor(disk[i].size)
        /\ p = Grown(disk[i].ptrs, cur, Allocated(need))
    BY DEF Decides
  <2>2. GrownBy(S, i, cur, need, Grown(disk[i].ptrs, cur, Allocated(need)))
    BY <1>1, <1>4, <2>1, GrownIs
  <2> QED BY <2>1, <2>2
<1>6. /\ p \in [Ptrs -> Blocks]
      /\ \A k \in 0..(m - 1) : /\ k \in Ptrs /\ p[k] \in Space
                               /\ k < cur => p[k] = old[k] /\ p[k] \in Owned(disk, i)
                               /\ ~(k < cur) => p[k] \notin Taken(disk, S)
      /\ \A k, l \in 0..(m - 1) : p[k] = p[l] => k = l
      /\ m \in Nat /\ m = BlocksFor(NewSize(size, end)) /\ cur <= m
  BY <1>4, <1>5 DEF GrownBy
<1>7. i \in Taken(disk, S) /\ i \notin Owned(disk, i)
  BY <1>1, <1>2, TakenAre DEF Owned
<1>8. Laid(i, p, m) /\ Spare(S, i, p, m)
  BY <1>6, <1>7 DEF Laid, Spare
<1>9. Extends(i, p, m)
  <2>1. \A l \in 0..(cur - 1) : l \in 0..(m - 1) /\ l < cur
    BY <1>4, <1>6
  <2> QED BY <1>0, <1>6, <2>1 DEF Extends
<1>10. DataPut(p, m, data) /\ WriteFirst \in Nat
  <2>1. BlocksFor(WriteEnd) <= m /\ WriteEnd \in Nat
    BY <1>3, <1>4 DEF end
  <2> HIDE DEF m
  <2> QED BY <1>6, <2>1, DataPutIs
<1>11. x \in InodeType /\ x.type = "file" /\ x.ptrs = p /\ x.size = NewSize(size, end) /\ x.size \in Nat
  <2>1. NewSize(size, end) \in Nat
    BY <1>4, ConstantFacts DEF MaxFile
  <2>2. x = Inode("file", NewSize(size, end), p)
    BY DEF Decides, end
  <2> QED BY <1>4, <1>6, <2>1, <2>2 DEF Inode, InodeType
<1>12. x.size = 0 => p[0] = 0
  <2>1. ASSUME x.size = 0 PROVE size = 0 /\ cur + need = 0
    <3>1. NewSize(size, end) = 0
      BY <1>11, <2>1
    <3>2. cur + need = 0
      BY <1>4, <3>1, BlocksOfNothing
    <3>3. size = 0
      BY <1>1, <1>3, <3>1 DEF NewSize
    <3> QED BY <3>2, <3>3
  <2>2. cur + need = 0 => p[0] = old[0]
    <3>1. ASSUME cur + need = 0 PROVE p[0] = old[0]
      <4>1. cur = 0 /\ Len(got) = 0 /\ p = Grown(old, cur, got)
        <5>1. Len(got) = need /\ p = Grown(old, cur, got)
          BY DEF Decides
        <5>2. cur = 0 /\ need = 0
          BY <1>4, <3>1
        <5> QED BY <5>1, <5>2
      <4>2. 0 \notin cur..(cur + Len(got) - 1) /\ 0 \in Ptrs
        BY <4>1, Sizes
      <4> QED BY <4>1, <4>2 DEF Grown
    <3> QED BY <3>1
  <2> QED BY <1>1, <2>1, <2>2
<1>13. /\ marks \in Seq(WriteType) /\ Len(marks) = need /\ \A k \in 1..need : marks[k].lba = 1
  <2>1. got \in Seq(Blocks) /\ Len(got) = need
    BY <1>4, GotIs DEF Decides
  <2> QED BY <1>2, <2>1, MarkUsedIs
<1>14. w \in WriteType /\ w.lba = i /\ w.value = x
  BY <1>2, <1>11, Contents, PutIs
<1>15. Joined(ws, marks, data, w)
  <2>1. data \in Seq(WriteType)
    BY <1>10 DEF DataPut
  <2>2. ws = marks \o data \o <<w>>
    BY DEF Makes
  <2> HIDE DEF marks, data, w
  <2>3. Joined(marks \o data \o <<w>>, marks, data, w)
    BY <1>13, <1>14, <2>1, ThreeParts
  <2> QED BY <2>2, <2>3
<1>16. Puts(ws, need, n, p, i, x)
  <2> HIDE DEF data, marks, w, m
  <2>1. /\ n \in Nat /\ Len(ws) = need + n + 1 /\ ws[Len(ws)] = w
        /\ \A j \in 1..need : ws[j] = marks[j]
        /\ \A j \in 1..n : ws[need + j] = data[j]
    BY <1>13, <1>15 DEF Joined
  <2>2. \A j \in 1..n : data[j].lba = p[WriteFirst + j - 1] /\ data[j].value = NewBytes(p, WriteFirst + j - 1)
    BY <1>10 DEF DataPut
  <2> HIDE DEF n
  <2> QED BY <1>4, <1>13, <1>14, <2>1, <2>2 DEF Puts
<1>17. ws \in Seq(WriteType)
  BY <1>15 DEF Joined
<1>18. WriteBlocks(n) \subseteq 0..(m - 1) /\ Covered(n) = Len(call.buf)
  BY <1>10 DEF DataPut
<1> HIDE DEF data, n, m
<1>19. Writes(S, i, p, m, need, n, x, ws)
  BY <1>0, <1>1, <1>2, <1>6, <1>8, <1>9, <1>10, <1>11, <1>12, <1>16, <1>18 DEF Writes, end
<1> QED BY <1>17, <1>19

\* The count begins with no byte, never falls, stays in the file until the inode
\* is written and ends with all of them.
Tally(i, a, n) ==
  /\ a + n \in Nat /\ Count(i, a, n, 0) = 0 /\ Count(i, a, n, a + n + 1) = Len(call.buf)
  /\ \A k \in 0..(a + n) : /\ Count(i, a, n, k) \in 0..Len(call.buf)
                           /\ call.off + Count(i, a, n, k) <= disk[i].size
  /\ \A k \in 1..(a + n) : Count(i, a, n, k - 1) \in 0..Count(i, a, n, k)

(* The tally of fs_write counts the bytes its first writes have put.        *)
LEMMA TallyIs ==
  ASSUME NEW S, Ready(S), NEW i, disk[i].size \in Nat, call.off <= disk[i].size, NEW a \in Nat, NEW n \in Nat
  PROVE  Tally(i, a, n)
<1> DEFINE left == disk[i].size - call.off
           C(k) == Covered(Done(a, n, k))
           l == Len(call.buf)
           top == a + n
<1>1. left \in Nat /\ call.off \in Nat /\ l \in Nat /\ top \in Nat
  BY ConstantFacts DEF Ready
<1>2. \A k \in Nat : Done(a, n, k) \in Nat
  BY DEF Done
<1>3. \A k \in Nat : C(k) \in 0..l
  BY <1>2, CoveredGrows
<1>4. ASSUME NEW k \in 1..top PROVE C(k - 1) <= C(k)
  <2>1. Done(a, n, k - 1) <= Done(a, n, k) /\ Done(a, n, k - 1) \in Nat /\ Done(a, n, k) \in Nat
    BY <1>4 DEF Done
  <2> QED BY <2>1, CoveredGrows
<1>5. C(0) = 0
  <2>1. Done(a, n, 0) = 0
    BY DEF Done
  <2> QED BY <2>1, CoveredGrows
<1>6. /\ \A k \in 0..top : Count(i, a, n, k) = IF C(k) < left THEN C(k) ELSE left
      /\ Count(i, a, n, top + 1) = l
  <2>1. \A k \in 0..top : k # top + 1
    BY <1>1
  <2> QED BY <2>1 DEF Count
<1> HIDE DEF C, l, top
<1>7. Count(i, a, n, 0) = 0
  BY <1>1, <1>5, <1>6
<1>8. ASSUME NEW k \in 0..top PROVE Count(i, a, n, k) \in 0..l /\ Count(i, a, n, k) <= left
  <2>1. C(k) \in 0..l
    BY <1>1, <1>3, <1>8
  <2> HIDE DEF left
  <2> QED BY <1>1, <1>6, <1>8, <2>1
<1>9. ASSUME NEW k \in 1..top PROVE Count(i, a, n, k - 1) \in 0..Count(i, a, n, k)
  <2>1. /\ k - 1 \in 0..top /\ k \in 0..top /\ k - 1 \in Nat /\ C(k - 1) <= C(k)
        /\ C(k - 1) \in 0..l /\ C(k) \in 0..l
    BY <1>1, <1>3, <1>4, <1>9
  <2> HIDE DEF left
  <2> QED BY <1>1, <1>6, <2>1
<1>10. ASSUME NEW k \in 0..top PROVE call.off + Count(i, a, n, k) <= disk[i].size
  BY <1>1, <1>8, <1>10
<1> QED BY <1>1, <1>6, <1>7, <1>8, <1>9, <1>10 DEF Tally, top, l

(* The tree with another file in place of node q.                           *)
LEMMA WithFile ==
  ASSUME NEW t, NEW q, NEW x
  PROVE  LET u == Fs!With(t, Fs!File(q, x)) IN
         /\ Fs!Exists(u, q) /\ Fs!Node(u, q) = Fs!File(q, x) /\ ~Fs!IsDir(u, q)
         /\ \A y : Fs!With(u, Fs!File(q, y)) = Fs!With(t, Fs!File(q, y))
<1> DEFINE f(y) == Fs!File(q, y)
           u == Fs!With(t, f(x))
<1>1. \A y : f(y).path = q /\ f(y).type = "file"
  BY DEF Fs!File
<1>2. \A s, y, n : n \in Fs!With(s, f(y)) <=> (n \in s /\ n.path # q) \/ n = f(y)
  BY <1>1 DEF Fs!With, Fs!Without
<1>3. f(x) \in u /\ \A n \in u : n.path = q => n = f(x)
  BY <1>2
<1>4. Fs!Exists(u, q) /\ Fs!Node(u, q) = f(x)
  BY <1>1, <1>3 DEF Fs!Exists, Fs!Node
<1>5. ~Fs!IsDir(u, q)
  BY <1>1, <1>4 DEF Fs!IsDir
<1> HIDE DEF f
<1>6. ASSUME NEW y PROVE Fs!With(u, f(y)) = Fs!With(t, f(y))
  <2>1. \A n : n \in Fs!With(u, f(y)) <=> n \in Fs!With(t, f(y))
    BY <1>1, <1>2
  <2> DEFINE A == Fs!With(u, f(y))
             B == Fs!With(t, f(y))
  <2>2. A \subseteq B /\ B \subseteq A
    BY <2>1
  <2> HIDE DEF A, B
  <2>3. A = B
    BY <2>2
  <2> QED BY <2>3 DEF A, B
<1> QED BY <1>4, <1>5, <1>6 DEF f

\* Tree t with the first n of the caller's bytes in file q, of bytes b.
Over(t, q, b, n) == Fs!With(t, Fs!File(q, Patched(b, call.off, call.buf, n)))

\* A write leads from m of its bytes to n, and to its end with the last.
Advances(t, c, b, m, n) ==
  LET u == Over(t, c.path, b, m)
      v == Over(t, c.path, b, n)
  IN  /\ Fs!Errors(u, c) = {}
      /\ call.off + n <= Len(b) => v = u \/ Partly(u, v, c, n)
      /\ n = Len(call.buf) => v = Fs!After(u, c)

(* From one write of data to the next the tree changes as one more fs_write *)
(* of FsTree would change it, byte by byte.                                 *)
LEMMA OverGoes ==
  ASSUME NEW V, NEW b \in Seq(V), call.buf \in Seq(V), call.off \in Nat, call.off <= Len(b),
         NEW c, c.op = "write", c.off = call.off, c.buf = call.buf, NEW t,
         NEW n \in 0..Len(call.buf), NEW m \in 0..n, call.off + m <= Len(b)
  PROVE  Advances(t, c, b, m, n)
<1> DEFINE q == c.path
           off == call.off
           buf == call.buf
           x == Patched(b, off, buf, m)
           y == Patched(b, off, buf, n)
           u == Over(t, q, b, m)
           v == Over(t, q, b, n)
           new == SubSeq(buf, 1, n)
<1>1. m \in 0..Len(buf) /\ n \in Nat /\ m \in Nat /\ Len(b) \in Nat /\ Len(buf) \in Nat
  OBVIOUS
<1>2. Len(x) = Len(b) /\ x \in Seq(V)
  <2>1. Len(b) = IF off + m > Len(b) THEN off + m ELSE Len(b)
    BY <1>1
  <2>2. LET l == IF off + m > Len(b) THEN off + m ELSE Len(b) IN Len(x) = l /\ x \in Seq(V)
    BY <1>1, PatchedIs
  <2> QED BY <2>1, <2>2
<1>3. Fs!Splice(x, off, new) = y
  BY Patching
<1> HIDE DEF x, y, new, q
<1>4. /\ Fs!Exists(u, q) /\ Fs!Node(u, q) = Fs!File(q, x) /\ ~Fs!IsDir(u, q)
      /\ v = Fs!With(u, Fs!File(q, y))
  BY WithFile DEF Over, x, y
<1>5. Fs!Node(u, q).bytes = x
  BY <1>4 DEF Fs!File
<1> HIDE DEF u, v
<1>6. Fs!Errors(u, c) = {}
  <2>1. Fs!ResolveFile(u, q) = 0
    BY <1>4 DEF Fs!ResolveFile, Fs!Resolve
  <2>2. ~(c.off > Len(Fs!Node(u, q).bytes))
    BY <1>1, <1>2, <1>5
  <2>3. Fs!Errors(u, c) = IF Fs!ResolveFile(u, c.path) # 0 THEN {Fs!ResolveFile(u, c.path)}
                          ELSE IF c.off > Len(Fs!Node(u, c.path).bytes) THEN {Fs!EINVAL} ELSE {}
    BY ErrorsAre
  <2> QED BY <2>1, <2>2, <2>3 DEF q
<1>7. ASSUME off + n <= Len(b), v # u PROVE Partly(u, v, c, n)
  <2>1. n # 0
    <3>1. ASSUME n = 0 PROVE v = u
      <4>1. m = n
        BY <3>1
      <4> QED BY <4>1 DEF u, v
    <3> QED BY <1>7, <3>1
  <2>2. n \in 1..Len(buf)
    BY <1>1, <2>1
  <2>3. v = Fs!With(u, Fs!File(q, Fs!Splice(x, off, new)))
    BY <1>3, <1>4
  <2> QED BY <1>2, <1>5, <1>7, <2>2, <2>3 DEF Partly, new, q
<1>8. ASSUME n = Len(buf) PROVE v = Fs!After(u, c)
  <2>1. new = buf
    <3>1. SubSeq(buf, 1, Len(buf)) = buf
      OBVIOUS
    <3> QED BY <1>8, <3>1 DEF new
  <2>2. Fs!After(u, c) = Fs!With(u, Fs!File(q, Fs!Splice(Fs!Node(u, q).bytes, c.off, c.buf)))
    BY DEF Fs!After, q
  <2> QED BY <1>3, <1>4, <1>5, <2>1, <2>2
<1> QED BY <1>6, <1>7, <1>8 DEF u, v, q, Advances

(* The writes of fs_write take the tree there, a part of the bytes at a time. *)
LEMMA WritePlots ==
  ASSUME NEW S, Asked(S), call.op = "write", NEW ws, NEW i, NEW p, NEW m, NEW a, NEW n, NEW x,
         Writes(S, i, p, m, a, n, x, ws), Reaches(disk, Request.path, i)
  PROVE  Open(ws, Success(NULL), 0) /\ \E u : Plot(disk, ws, Success(NULL), Request, u)
<1> DEFINE t == TreeOn(disk)
           c == Request
           q == c.path
           r == Success(NULL)
           b == Text(disk, i)
           size == disk[i].size
           C(k) == Count(i, a, n, k)
           top == a + n
           O(k) == Over(t, q, b, C(k))
           u == [k \in 0..(top + 1) |-> O(k)]
           V == Data \cup {b[j] : j \in 1..size}
<1>1. /\ Ready(S) /\ Distinct(disk) /\ c.op = "write" /\ c.off = call.off /\ c.buf = call.buf
      /\ call.off \in Nat /\ call.buf \in Seq(Data)
  BY RequestIs DEF Asked
<1>2. /\ i \in S /\ size \in Nat /\ call.off <= size /\ a \in Nat /\ n \in Nat /\ Len(ws) = top + 1
      /\ ws[top + 1].lba = i
  BY DEF Writes, Puts
<1>3. i # 1 /\ r.code = 0 /\ c.op \in Writing /\ c.op \notin Freeing
  <2>1. i \in Space
    BY <1>1, <1>2, NodeIs
  <2> QED BY <1>1, <2>1, Sizes, ErrorCodes DEF Writing, Growing, Freeing
<1>4. Tally(i, a, n)
  BY <1>1, <1>2, TallyIs
<1>5. b \in Seq(V) /\ call.buf \in Seq(V) /\ Len(b) = size
  <2>1. Len(b) = size
    BY <1>2, TextLength
  <2>2. b = [j \in 1..size |-> b[j]]
    BY DEF Text
  <2> HIDE DEF b, size
  <2>3. b \in Seq(V)
    <3>1. \A j \in 1..size : b[j] \in V
      OBVIOUS
    <3> HIDE DEF V
    <3> QED BY <1>2, <2>2, <3>1
  <2>4. call.buf \in Seq(V)
    BY <1>1
  <2> QED BY <2>1, <2>3, <2>4
<1>6. ASSUME NEW k \in 0..(top + 1) PROVE Becomes(disk, ws, c.op, k, O(k))
  <2>1. ASSUME NEW e, DiskAfter(disk, ws, c.op, k, e) PROVE Distinct(e) /\ TreeOn(e) = O(k)
    <3>1. Refiled(disk, e, q, Patched(Text(disk, i), call.off, call.buf, Count(i, a, n, k)))
      <4>1. k \in 0..Len(ws)
        BY <1>2
      <4> HIDE DEF c, q
      <4>2. Reaches(disk, q, i)
        BY DEF q, c
      <4> QED BY <1>1, <1>3, <2>1, <4>1, <4>2, WriteShown
    <3> QED BY <3>1 DEF Refiled, Over
  <2> QED BY <2>1 DEF Becomes
<1>7. \A k \in 0..(top + 1) : Open(ws, r, k) <=> k # top + 1
  <2>1. \A k \in 0..(top + 1) : k # top + 1 => top + 1 \in (k + 1)..(top + 1)
    BY <1>2
  <2>2. (top + 1 + 1)..(top + 1) = {}
    BY <1>2
  <2> HIDE DEF top, r
  <2> QED BY <1>2, <1>3, <2>1, <2>2 DEF Open
<1>8. /\ top \in Nat /\ \A k \in 1..(top + 1) : /\ k - 1 \in 0..top /\ k \in 0..(top + 1) /\ k - 1 \in 0..(top + 1)
                                                /\ k - 1 # top + 1 /\ (k # top + 1 => k \in 0..top /\ k \in 1..top)
  <2>1. top \in Nat
    BY <1>2
  <2> HIDE DEF top
  <2> QED BY <2>1
<1>9. /\ \A k \in 0..top : C(k) \in 0..Len(call.buf) /\ call.off + C(k) <= size
      /\ \A k \in 1..top : C(k - 1) \in 0..C(k)
      /\ C(top + 1) = Len(call.buf)
  BY <1>4 DEF Tally
<1> HIDE DEF t, c, q, r, b, C, top, V, size
<1>10. ASSUME NEW k \in 1..(top + 1)
       PROVE  Moves(O(k - 1), Open(ws, r, k - 1), O(k), Open(ws, r, k), r, c)
  <2> DEFINE g == C(k - 1)
             h == C(k)
             z == Over(t, q, b, g)
             y == Over(t, q, b, h)
  <2>1. call.buf \in Seq(V) /\ call.off <= Len(b) /\ Len(call.buf) \in Nat
    BY <1>2, <1>5 DEF size
  <2>2. k - 1 \in 0..top /\ k \in 0..(top + 1) /\ k - 1 \in 0..(top + 1)
    BY <1>8
  <2>3. g \in 0..Len(call.buf) /\ call.off + g <= Len(b)
    BY <1>5, <1>9, <2>2
  <2>4. /\ h \in 0..Len(call.buf) /\ g \in 0..h /\ (k # top + 1 => call.off + h <= Len(b))
        /\ (k = top + 1 => h = Len(call.buf))
    <3>1. CASE k = top + 1
      <4>1. h = Len(call.buf)
        BY <1>9, <3>1
      <4> HIDE DEF g, h
      <4> QED BY <2>1, <2>3, <3>1, <4>1
    <3>2. CASE k # top + 1
      <4>1. k \in 1..top /\ k \in 0..top
        BY <1>8, <3>2
      <4> QED BY <1>5, <1>9, <3>2, <4>1
    <3> QED BY <3>1, <3>2
  <2> HIDE DEF g, h
  <2>5. /\ Fs!Errors(z, c) = {}
        /\ call.off + h <= Len(b) => y = z \/ Partly(z, y, c, h)
        /\ h = Len(call.buf) => y = Fs!After(z, c)
    <3>1. /\ b \in Seq(V) /\ call.buf \in Seq(V) /\ call.off \in Nat /\ call.off <= Len(b)
          /\ c.op = "write" /\ c.off = call.off /\ c.buf = call.buf
          /\ h \in 0..Len(call.buf) /\ g \in 0..h /\ call.off + g <= Len(b)
      BY <1>1, <1>5, <2>1, <2>3, <2>4
    <3>2. Advances(t, c, b, g, h)
      BY <3>1, OverGoes
    <3> QED BY <3>2 DEF q, Advances
  <2> HIDE DEF z, y
  <2>6. Open(ws, r, k - 1) /\ (Open(ws, r, k) <=> k # top + 1)
    BY <1>7, <1>8, <2>2
  <2>7. Moves(z, Open(ws, r, k - 1), y, Open(ws, r, k), r, c)
    <3>1. CASE k # top + 1
      <4>1. y = z \/ \E f : Partly(z, y, c, f)
        BY <2>4, <2>5, <3>1
      <4> QED BY <1>3, <2>5, <2>6, <3>1, <4>1 DEF Moves
    <3>2. CASE k = top + 1
      <4>1. y = Fs!After(z, c)
        BY <2>4, <2>5, <3>2
      <4>2. r = Success(Fs!Value(z, c))
        BY <1>3, Unchanging DEF r
      <4>3. Effect(z, y, r, c)
        BY <4>1, <4>2 DEF Effect
      <4> QED BY <1>3, <2>5, <2>6, <3>2, <4>3 DEF Moves
    <3> QED BY <3>1, <3>2
  <2> QED BY <2>7 DEF z, y, g, h
<1> HIDE DEF O
<1>11. /\ \A k \in 0..(top + 1) : u[k] = O(k)
       /\ \A k \in 0..(top + 1) : Becomes(disk, ws, c.op, k, u[k])
  BY <1>6
<1> HIDE DEF u
<1>12. \A k \in 1..(top + 1) : Moves(u[k - 1], Open(ws, r, k - 1), u[k], Open(ws, r, k), r, c)
  BY <1>8, <1>10, <1>11
<1>13. Plot(disk, ws, r, c, u)
  BY <1>2, <1>11, <1>12 DEF Plot
<1>14. Open(ws, r, 0)
  <2>1. 0 \in 0..(top + 1) /\ 0 # top + 1
    BY <1>8
  <2> QED BY <1>7, <2>1
<1> QED BY <1>13, <1>14 DEF r, c

(* fs_write.                                                                *)
LEMMA WriteOutcome ==
  ASSUME NEW S, Asked(S), Write
  PROVE  Outcome(writes', ret', Request)
<1> DEFINE t == TreeOn(disk)
           c == Request
           i == Translate(call.path)
           f == ReadInode(i)
           size == f.size
           end == WriteEnd
           cur == BlocksFor(size)
           need == IF BlocksFor(end) > cur THEN BlocksFor(end) - cur ELSE 0
           got == Allocated(need)
           p == Grown(f.ptrs, cur, got)
           marks == MarkUsed(got)
           data == DataWrites(p)
           x == Inode("file", NewSize(size, end), p)
           w == Put(i, x)
           ws == marks \o data \o <<w>>
<1>0. Ready(S) /\ call.op = "write" /\ c.op = "write" /\ call.op \in Growing /\ c.off = call.off /\ call.off \in Nat
  BY RequestIs DEF Write, Handling, Asked, Growing
<1>1. /\ FileError(i) = Fs!ResolveFile(t, c.path)
      /\ FileError(i) = 0
           => /\ i \in S \ Dirs(disk, S) /\ Reaches(disk, c.path, i) /\ disk[i] \in InodeType
              /\ f = disk[i] /\ disk[i].type = "file" /\ disk[i].size \in Nat
              /\ Fs!Node(t, c.path).bytes = Text(disk, i) /\ Len(Text(disk, i)) = disk[i].size
  BY LookedFile
<1>2. Fs!Errors(t, c) = IF FileError(i) # 0 THEN {FileError(i)}
                        ELSE IF c.off > Len(Fs!Node(t, c.path).bytes) THEN {Fs!EINVAL} ELSE {}
  BY <1>0, <1>1, ErrorsAre
<1>3. FileError(i) = 0 => Len(Fs!Node(t, c.path).bytes) = size /\ size \in Nat
  BY <1>1
<1>4. \/ FileError(i) # 0 /\ Refuse(FileError(i))
      \/ FileError(i) = 0 /\ call.off > size /\ Refuse(EINVAL)
      \/ FileError(i) = 0 /\ call.off <= size /\ Len(got) < need /\ Finish(marks, Error(ENOSPC))
      \/ FileError(i) = 0 /\ call.off <= size /\ Len(got) = need /\ Finish(ws, Success(NULL))
  BY Zenon DEF Write, InodeLast, Grown, DataWrites, WriteEnd
<1>5. FileError(i) = 0 /\ call.off <= size => Fs!Errors(t, c) = {}
  <2> HIDE DEF i, size, t, c
  <2> QED BY <1>0, <1>2, <1>3
<1>6. CASE FileError(i) # 0 /\ Refuse(FileError(i))
  BY <1>2, <1>6, Denied
<1>7. CASE FileError(i) = 0 /\ call.off > size /\ Refuse(EINVAL)
  <2>1. EINVAL \in Fs!Errors(t, c)
    BY <1>0, <1>2, <1>3, <1>7, ErrorCodes
  <2> QED BY <1>7, <2>1, Denied
<1>8. CASE FileError(i) = 0 /\ call.off <= size /\ Len(got) < need /\ Finish(marks, Error(ENOSPC))
  <2>1. Fs!Errors(TreeOn(disk), Request) = {}
    BY <1>5, <1>8
  <2>2. CASE got = <<>>
    <3>1. Refuse(ENOSPC)
      BY <1>8, <2>2, MarkNone DEF Refuse
    <3> QED BY <1>0, <2>1, <3>1, NoSpace
  <2>3. CASE got # <<>>
    <3>1. need \in Nat
      <4>1. cur \in Nat /\ BlocksFor(end) \in Nat
        <5>1. end \in Nat /\ size \in Nat
          BY <1>0, <1>3, <1>8, RequestIs DEF WriteEnd
        <5> HIDE DEF end, size
        <5> QED BY <5>1, BlocksAre
      <4> HIDE DEF cur, end
      <4> QED BY <4>1
    <3> HIDE DEF need
    <3>2. Takes(S, marks)
      BY <1>0, <2>3, <3>1, MarksTake
    <3> HIDE DEF marks
    <3> QED BY <1>0, <1>8, <2>1, <3>2, TakesOutcome
  <2> QED BY <2>2, <2>3
<1>9. CASE FileError(i) = 0 /\ call.off <= size /\ Len(got) = need /\ Finish(ws, Success(NULL))
  <2>1. Decides(i, cur, need, got, p, x) /\ i \in S \ Dirs(disk, S) /\ Reaches(disk, Request.path, i)
    <3>1. /\ f = disk[i] /\ i \in S \ Dirs(disk, S) /\ Reaches(disk, Request.path, i)
          /\ call.op = "write" /\ FileError(i) = 0 /\ call.off <= size /\ Len(got) = need
      BY <1>0, <1>1, <1>9
    <3> HIDE DEF f
    <3> QED BY <3>1, Zenon DEF Decides
  <2>2. writes' = ws /\ ret' = Success(NULL)
    BY <1>9 DEF Finish
  <2> HIDE DEF i, cur, need, got, p, x, f, end, size
  <2> HIDE DEF marks, data, w
  <2>a. Makes(i, got, p, x, ws)
    BY DEF Makes, marks, data, w
  <2> HIDE DEF ws
  <2>3. ws \in Seq(WriteType) /\ \E m, n : Writes(S, i, p, m, need, n, x, ws)
    BY <1>0, <2>1, <2>a, WriteDecides
  <2>4. PICK m, n : Writes(S, i, p, m, need, n, x, ws)
    BY <2>3
  <2>5. Open(ws, Success(NULL), 0) /\ \E u : Plot(disk, ws, Success(NULL), Request, u)
    BY <1>0, <2>1, <2>4, WritePlots
  <2>6. ws # <<>>
    <3>1. ws \in Seq(WriteType) /\ Len(ws) = need + n + 1 /\ need \in Nat /\ n \in Nat
      BY <2>3, <2>4 DEF Writes, Puts
    <3> QED BY <3>1
  <2> QED BY <2>2, <2>5, <2>6 DEF Outcome
<1> HIDE DEF i, size, marks, ws, got, need, t, c
<1> QED BY <1>4, <1>6, <1>7, <1>8, <1>9 DEF c
----------------------------------------------------------------------------
(* The steps of the file system, seen in the tree. *)

\* What the caller has asked, and what the call will return once it has effect.
Asking(c) == IF c = NULL THEN NULL ELSE Clipped(c)
Given(ws, r) == IF Open(ws, r, 0) THEN NULL ELSE r
\* A step of FsTree, or none, from tree t, call c and answer a to u, d and b.
FsStep(t, c, a, u, d, b) ==
  \/ u = t /\ d = c /\ b = a
  \/ c = NULL /\ d \in ClippedCalls /\ u = t /\ b = a
  \/ c # NULL /\ a = NULL /\ Fs!Errors(t, c) = {} /\ u = Fs!After(t, c) /\ b = Success(Fs!Value(t, c)) /\ d = c
  \/ /\ c # NULL /\ a = NULL /\ u = t /\ d = c
     /\ \/ \E e \in Fs!Errors(t, c) : b = Error(e)
        \/ Fs!Errors(t, c) = {} /\ c.op \in Growing /\ b = Error(ENOSPC)
        \/ Fs!Errors(t, c) = {} /\ c.op \in Writing /\ b = Error(EIO)
  \/ c # NULL /\ a = NULL /\ Fs!Errors(t, c) = {} /\ (\E n : Partly(t, u, c, n)) /\ d = c /\ b = a
  \/ a # NULL /\ d = NULL /\ b = NULL /\ u = t
  \/ d = NULL /\ b = NULL /\ u = t
Follows == FsStep(TreeOn(disk), Asking(call), Given(writes, ret), TreeOn(disk'), Asking(call'), Given(writes', ret'))

(* A write that moves the tree is a step of FsTree.                         *)
LEMMA MoveStep ==
  ASSUME NEW t, NEW o \in BOOLEAN, NEW u, NEW p \in BOOLEAN, NEW r, NEW c, Moves(t, o, u, p, r, c), c # NULL
  PROVE  FsStep(t, c, IF o THEN NULL ELSE r, u, c, IF p THEN NULL ELSE r)
BY Zenon DEF Moves, Effect, FsStep

(* The first of the pending writes moves.                                   *)
LEMMA FirstMoves ==
  ASSUME NEW d, NEW ws \in Seq(WriteType), ws # <<>>, NEW r, NEW c, NEW u, Plot(d, ws, r, c, u)
  PROVE  Moves(u[0], Open(ws, r, 0), u[1], Open(Tail(ws), r, 0), r, c)
<1>1. 1 \in 1..Len(ws) /\ 1 - 1 = 0 /\ Len(ws) \in Nat
  BY TailIs
<1>2. Moves(u[0], Open(ws, r, 0), u[1], Open(ws, r, 1), r, c)
  BY <1>1 DEF Plot
<1>3. Open(Tail(ws), r, 0) <=> Open(ws, r, 1)
  <2>1. Len(Tail(ws)) = Len(ws) - 1 /\ \A j \in 1..(Len(ws) - 1) : Tail(ws)[j] = ws[j + 1]
    BY TailIs
  <2>2. ASSUME NEW j \in (0 + 1)..Len(Tail(ws)) PROVE j + 1 \in (1 + 1)..Len(ws) /\ Tail(ws)[j] = ws[j + 1]
    BY <1>1, <2>1
  <2>3. ASSUME NEW j \in (1 + 1)..Len(ws) PROVE j - 1 \in (0 + 1)..Len(Tail(ws)) /\ Tail(ws)[j - 1] = ws[j]
    <3>1. j - 1 \in 1..(Len(ws) - 1) /\ (j - 1) + 1 = j
      BY <1>1, <2>3
    <3> QED BY <2>1, <3>1
  <2> QED BY <2>2, <2>3 DEF Open
<1> QED BY <1>2, <1>3 DEF Moves

(* Without pending writes, and with the disk as it was, there is nothing to tell. *)
LEMMA TreeRests ==
  ASSUME Inv', Distinct(disk'), writes' = <<>>
  PROVE  Told'
<1>1. Quiet(disk', bitmap')
  <2>1. (Planned(disk, bitmap, writes, call.op) /\ Typed(writes))'
    BY DEF Inv, CallKept
  <2> QED BY <2>1, PlanQuiet DEF Typed
<1>2. PICK S : Sound(disk', S)
  BY <1>1 DEF Quiet
<1>3. \E u : Plot(disk', <<>>, ret', Clipped(call'), u)
  BY <1>2, PlotRests
<1> QED BY <1>3 DEF Told

(* The tree is that of the disk.                                            *)
LEMMA TreeTold == ASSUME Inv, Told PROVE Tree = TreeOn(disk) /\ Distinct(disk) /\ \E S : Sound(disk, S)
<1>1. writes \in Seq(WriteType) /\ Image
  BY DEF Inv, CallKept, Typed, TypeOK, Image
<1>2. Distinct(disk)
  BY <1>1, PlotNow DEF Told
<1>3. PICK S : Sound(disk, S)
  <2>1. Planned(disk, bitmap, writes, call.op)
    BY DEF Inv
  <2> QED BY <1>1, <2>1, PlanSound
<1> QED BY <1>1, <1>2, <1>3, TreeIs

(* A call asks what the caller asked, and is no call no more.               *)
LEMMA AskingIs ==
  /\ Asking(NULL) = NULL
  /\ \A c \in Calls : c # NULL /\ Asking(c) = Clipped(c) /\ Clipped(c) \in ClippedCalls
                      /\ Clipped(c) # NULL /\ Clipped(c).op = c.op
<1>1. ASSUME NEW c \in Calls PROVE c # NULL /\ Clipped(c) # NULL /\ Clipped(c).op = c.op
  <2>1. c \in CallType /\ c # NULL
    BY FsAssumption
  <2>2. ClipPath(c.path) \in Seq(Names) /\ ClipPath(c.to) \in Seq(Names)
    BY <2>1, ClipIs DEF CallType
  <2>3. Clipped(c) \in CallType /\ Clipped(c).op = c.op
    BY <2>1, <2>2 DEF Clipped, CallType
  <2> QED BY <2>1, <2>3, FsAssumption
<1> QED BY <1>1 DEF Asking, ClippedCalls

(* Nothing pending, the answer is the one to give.                          *)
LEMMA GivenIs == ASSUME NEW r PROVE Given(<<>>, r) = r /\ ~Open(<<>>, r, 0)
<1>1. (0 + 1)..Len(<<>>) = {}
  OBVIOUS
<1> QED BY <1>1 DEF Open, Given

(* The caller calls.                                                        *)
LEMMA CallFollows == ASSUME Inv, Told, Inv', Call PROVE Told' /\ Follows
<1>1. /\ call = NULL /\ call' \in Calls /\ disk' = disk /\ writes' = writes /\ ret' = ret
  BY DEF Call
<1>2. writes = <<>>
  BY <1>1 DEF Inv, CallKept
<1>3. Told'
  BY <1>1, <1>2, TreeTold, TreeRests
<1>4. Asking(call) = NULL /\ Asking(call') \in ClippedCalls
  BY <1>1, AskingIs
<1> QED BY <1>1, <1>3, <1>4 DEF Follows, FsStep

(* A handler decides; it answers at once or leaves its writes.              *)
LEMMA HandlerFollows ==
  ASSUME Inv, Told, Inv', "truncate" \notin Faulty, ShortPaths, Handler
  PROVE  Told' /\ Follows
<1>1. PICK op, ws, r : Handling(op) /\ Finish(ws, r) /\ (ws = <<>> \/ r # NULL)
  BY HandlerEnds
<1>2. disk' = disk /\ call' = call /\ call # NULL /\ ret = NULL
  BY <1>1 DEF Handling, Finish
<1>3. writes = <<>> /\ \E S : Ready(S)
  BY <1>1, HandlerReady
<1>4. PICK S : Ready(S)
  BY <1>3
<1>5. Distinct(disk)
  BY TreeTold
<1>6. Asked(S)
  BY <1>4, <1>5 DEF Asked
<1>7. Outcome(writes', ret', Request)
  <2>1. Getattr \/ Readdir \/ Read => Outcome(writes', ret', Request)
    BY <1>6, GetattrOutcome, ReaddirOutcome, ReadOutcome
  <2>2. Create \/ Mkdir \/ Unlink \/ Rmdir \/ Rename => Outcome(writes', ret', Request)
    BY <1>6, CreateOutcome, MkdirOutcome, UnlinkOutcome, RmdirOutcome, RenameOutcome
  <2>3. Truncate \/ Write => Outcome(writes', ret', Request)
    BY <1>6, TruncateOutcome, WriteOutcome
  <2>4. Chmod \/ Utime => Outcome(writes', ret', Request)
    BY <1>6, TouchOutcome DEF Chmod, Utime
  <2> QED BY <2>1, <2>2, <2>3, <2>4 DEF Handler
<1>8. Asking(call) = Request /\ Asking(call') = Request /\ Request # NULL /\ Clipped(call') = Request
  BY <1>2, <1>6, RequestIs DEF Asking, Request
<1>9. Given(writes, ret) = NULL
  BY <1>2, <1>3, GivenIs
<1>10. CASE writes' = <<>>
  <2>1. Told'
    BY <1>2, <1>5, <1>10, TreeRests
  <2>2. Given(writes', ret') = ret'
    BY <1>10, GivenIs
  <2>3. Answers(TreeOn(disk), ret', Request)
    BY <1>7, <1>10 DEF Outcome
  <2>4. Follows
    BY <1>2, <1>8, <1>9, <2>2, <2>3 DEF Follows, FsStep, Answers
  <2> QED BY <2>1, <2>4
<1>11. CASE writes' # <<>>
  <2>1. Open(writes', ret', 0) /\ \E u : Plot(disk, writes', ret', Request, u)
    BY <1>7, <1>11 DEF Outcome
  <2>2. Told'
    BY <1>2, <1>8, <2>1 DEF Told
  <2>3. Given(writes', ret') = NULL
    BY <2>1 DEF Given
  <2>4. Follows
    BY <1>2, <1>8, <1>9, <2>3 DEF Follows, FsStep
  <2> QED BY <2>2, <2>4
<1> QED BY <1>10, <1>11

(* What there is to tell once the first write is made, or has failed where  *)
(* nobody looks.                                                            *)
LEMMA WriteFollows ==
  ASSUME Inv, Told, Inv', writes # <<>>, writes' = Tail(writes), ret' = ret, call' = call,
         \A b \in 1..(DiskSize - 1) :
            \/ b # writes[1].lba /\ disk'[b] = disk[b]
            \/ b = writes[1].lba /\ disk'[b] = writes[1].value
            \/ b = 1 /\ b = writes[1].lba /\ call.op \in Freeing /\ disk'[b] = disk[b]
  PROVE  Told' /\ Follows
<1> DEFINE c == Clipped(call)
<1>1. writes \in Seq(WriteType) /\ call # NULL /\ call \in Calls
  BY DEF Inv, CallKept, Typed, TypeOK
<1>2. Asking(call) = c /\ Asking(call') = c /\ c # NULL /\ c.op = call.op /\ Clipped(call') = c
  BY <1>1, AskingIs
<1>3. PICK u : Plot(disk, writes, ret, c, u)
  BY DEF Told
<1> HIDE DEF c
<1>4. PICK v : Plot(disk', Tail(writes), ret, c, v) /\ v[0] = u[1]
  BY <1>1, <1>2, <1>3, PlotGoesOn
<1>5. Told'
  BY <1>2, <1>4 DEF Told
<1>6. TreeOn(disk) = u[0] /\ TreeOn(disk') = u[1]
  <2>1. Tail(writes) \in Seq(WriteType)
    BY <1>1, TailIs
  <2> QED BY <1>1, <1>3, <1>4, <2>1, PlotNow
<1>7. Moves(u[0], Open(writes, ret, 0), u[1], Open(Tail(writes), ret, 0), ret, c)
  BY <1>1, <1>3, FirstMoves
<1>8. FsStep(u[0], c, Given(writes, ret), u[1], c, Given(Tail(writes), ret))
  <2>1. Open(writes, ret, 0) \in BOOLEAN /\ Open(Tail(writes), ret, 0) \in BOOLEAN
    BY DEF Open
  <2>2. FsStep(u[0], c, IF Open(writes, ret, 0) THEN NULL ELSE ret,
               u[1], c, IF Open(Tail(writes), ret, 0) THEN NULL ELSE ret)
    BY <1>2, <1>7, <2>1, MoveStep
  <2> QED BY <2>2 DEF Given
<1>9. Follows
  BY <1>2, <1>6, <1>8 DEF Follows
<1> QED BY <1>5, <1>9

(* A write is made.                                                         *)
LEMMA DiskWriteFollows == ASSUME Inv, Told, Inv', DiskWrite PROVE Told' /\ Follows
<1>1. /\ writes # <<>> /\ disk' = [disk EXCEPT ![Head(writes).lba] = Head(writes).value]
      /\ Remember(Head(writes)) /\ writes' = Tail(writes) /\ call' = call /\ ret' = ret
  BY DEF DiskWrite
<1> DEFINE w == writes[1]
<1>2. Head(writes) = w
  BY <1>1, NextWrite
<1>3. disk \in [1..(DiskSize - 1) -> BlockContents]
  BY DEF Inv, TypeOK
<1> HIDE DEF w
<1>4. \A b \in 1..(DiskSize - 1) : disk'[b] = IF b = w.lba THEN w.value ELSE disk[b]
  BY <1>1, <1>2, <1>3
<1>5. \A b \in 1..(DiskSize - 1) :
        \/ b # writes[1].lba /\ disk'[b] = disk[b]
        \/ b = writes[1].lba /\ disk'[b] = writes[1].value
        \/ b = 1 /\ b = writes[1].lba /\ call.op \in Freeing /\ disk'[b] = disk[b]
  BY <1>4 DEF w
<1> QED BY <1>1, <1>5, WriteFollows

(* A write fails: the call ends, unless it was one to free a block.         *)
LEMMA FailFollows == ASSUME Inv, Told, Inv', DiskWriteFails PROVE Told' /\ Follows
<1> DEFINE w == writes[1]
           c == Clipped(call)
<1>1. writes # <<>> /\ Remember(Head(writes)) /\ disk' = disk /\ call' = call
  BY DEF DiskWriteFails
<1>2. Head(writes) = w /\ writes \in Seq(WriteType) /\ call \in Calls
  BY <1>1, NextWrite DEF Inv, CallKept, TypeOK
<1> HIDE DEF w
<1>3. CASE Head(writes).lba = 1 /\ call.op \in Freeing
  <2>1. writes' = Tail(writes) /\ ret' = ret
    BY <1>3 DEF DiskWriteFails
  <2>2. \A b \in 1..(DiskSize - 1) :
          \/ b # writes[1].lba /\ disk'[b] = disk[b]
          \/ b = writes[1].lba /\ disk'[b] = writes[1].value
          \/ b = 1 /\ b = writes[1].lba /\ call.op \in Freeing /\ disk'[b] = disk[b]
    BY <1>1, <1>2, <1>3 DEF w
  <2> QED BY <1>1, <2>1, <2>2, WriteFollows
<1>4. CASE ~(Head(writes).lba = 1 /\ call.op \in Freeing)
  <2>1. writes' = <<>> /\ ret' = Error(EIO)
    BY <1>4 DEF DiskWriteFails
  <2>2. Asking(call) = c /\ Asking(call') = c /\ c # NULL /\ c.op = call.op
    BY <1>1, <1>2, AskingIs
  <2>3. PICK u : Plot(disk, writes, ret, c, u)
    BY DEF Told
  <2> HIDE DEF c
  <2>4. Moves(u[0], Open(writes, ret, 0), u[1], Open(Tail(writes), ret, 0), ret, c)
    BY <1>1, <1>2, <2>3, FirstMoves
  <2>5. Distinct(disk) /\ TreeOn(disk) = u[0]
    BY <1>2, <2>3, PlotNow
  <2>6. Open(writes, ret, 0)
    <3>1. ASSUME c.op \in Freeing PROVE Open(writes, ret, 0)
      <4>1. w.lba # 1
        BY <1>2, <1>4, <2>2, <3>1
      <4>2. 1 \in (0 + 1)..Len(writes)
        BY <1>1, <1>2
      <4> QED BY <4>1, <4>2 DEF Open, w
    <3> QED BY <2>4, <3>1 DEF Moves
  <2>7. Fs!Errors(u[0], c) = {} /\ c.op \in Writing
    BY <2>4, <2>6 DEF Moves
  <2>8. Told'
    BY <1>1, <2>1, <2>5, TreeRests
  <2>9. Given(writes, ret) = NULL /\ Given(writes', ret') = Error(EIO)
    BY <2>1, <2>6, GivenIs DEF Given
  <2>10. Follows
    BY <1>1, <2>2, <2>5, <2>7, <2>9 DEF Follows, FsStep
  <2> QED BY <2>8, <2>10
<1> QED BY <1>3, <1>4

(* The call returns, or the process dies.                                   *)
LEMMA EndFollows == ASSUME Inv, Told, Inv', Return \/ Crash PROVE Told' /\ Follows
<1>1. writes' = <<>> /\ ret' = NULL /\ call' = NULL /\ disk' = disk
  BY DEF Return, Crash
<1>2. Told'
  BY <1>1, TreeTold, TreeRests
<1>3. Asking(call') = NULL /\ Given(writes', ret') = NULL
  BY <1>1, AskingIs, GivenIs
<1> QED BY <1>1, <1>2, <1>3 DEF Follows, FsStep

(* Every step of the file system follows FsTree, or leaves the tree alone.  *)
LEMMA NextFollows ==
  ASSUME Inv, Told, Inv', "truncate" \notin Faulty, ShortPaths, [Next]_vars
  PROVE  Told' /\ Follows
<1>1. CASE UNCHANGED vars
  <2>1. disk' = disk /\ call' = call /\ writes' = writes /\ ret' = ret
    BY <1>1 DEF vars
  <2>2. Told'
    BY <2>1 DEF Told
  <2> QED BY <2>1, <2>2 DEF Follows, FsStep
<1> QED BY <1>1, CallFollows, HandlerFollows, DiskWriteFollows, FailFollows, EndFollows DEF Next

(* In the new disk's tree there is only the root.                           *)
LEMMA NewTree == ASSUME Init PROVE Told /\ Tree = {Fs!Dir(<<>>)} /\ call = NULL /\ writes = <<>> /\ ret = NULL
<1> DEFINE S == {Root}
<1>1. Inv /\ call = NULL /\ writes = <<>> /\ ret = NULL
  BY NewDisk DEF Init
<1>2. /\ disk = [b \in 1..(DiskSize - 1) |->
                   CASE b = 1 -> Bits({0, 1, Root, RootBlock})
                     [] b = Root -> Inode("dir", BlockSize, [NoPtrs EXCEPT ![0] = RootBlock])
                     [] b = RootBlock -> DirBlock(EmptyDir)
                     [] OTHER -> Zeroes]
  BY Zenon DEF Init
<1>3. /\ Root \in Space /\ RootBlock \in Space /\ Root # RootBlock /\ Space \subseteq 1..(DiskSize - 1)
      /\ Root # 1 /\ RootBlock # 1 /\ 0 \in Ptrs
  BY Sizes, ConstantFacts
<1>4. /\ disk[Root] = Inode("dir", BlockSize, [NoPtrs EXCEPT ![0] = RootBlock])
      /\ disk[RootBlock] = DirBlock(EmptyDir)
  BY <1>2, <1>3
<1>5. disk[Root].type = "dir" /\ Head0(disk, Root) = RootBlock /\ \A s \in Slots : At(disk, Root, s) = NULL
  BY <1>3, <1>4 DEF Inode, NoPtrs, DirBlock, EmptyDir, Head0, At
<1>6. \A n, j : ~Hop(disk, Root, n, j)
  BY <1>5 DEF Hop
<1>7. ASSUME NEW p, NEW i, Reaches(disk, p, i) PROVE p = <<>> /\ i = Root
  <2>1. p \in Seq(Names)
    BY <1>7 DEF Reaches
  <2>2. PICK w : Trail(disk, p, w) /\ w[Len(p)] = i
    BY <1>7 DEF Reaches
  <2>3. Len(p) = 0
    <3>1. ASSUME Len(p) # 0 PROVE FALSE
      <4>1. 1 \in 1..Len(p) /\ 1 - 1 = 0
        BY <2>1, <3>1
      <4>2. Hop(disk, w[0], p[1], w[1]) /\ w[0] = Root
        BY <2>2, <4>1 DEF Trail
      <4> QED BY <1>6, <4>2
    <3> QED BY <3>1
  <2>4. p = <<>>
    BY <2>1, <2>3
  <2> QED BY <1>7, <2>4, ReachesRoot
<1>8. Distinct(disk)
  BY <1>5, <1>7 DEF Distinct
<1>9. PICK T : Sound(disk, T)
  <2>1. Planned(disk, bitmap, writes, call.op) /\ writes \in Seq(WriteType)
    BY <1>1 DEF Inv, CallKept, Typed
  <2> QED BY <2>1, PlanSound
<1>10. \A n : n \in TreeOn(disk) <=> n = Shown(disk, <<>>, Root)
  <2>1. Reaches(disk, <<>>, Root)
    BY ReachesRoot
  <2> QED BY <1>7, <1>9, <2>1, TreeNodes
<1>11. Shown(disk, <<>>, Root) = Fs!Dir(<<>>)
  BY <1>5 DEF Shown, Fs!Dir
<1>12. Told
  BY <1>1, <1>8, <1>9, PlotRests DEF Told
<1>13. Tree = TreeOn(disk)
  BY <1>1, <1>12, TreeTold
<1> QED BY <1>1, <1>10, <1>11, <1>12, <1>13

(* What FsTree sees is the tree of the disk.                                *)
LEMMA TreeSeen == (Inv /\ Told => Tree = TreeOn(disk)) /\ (Inv /\ Told => Tree = TreeOn(disk))'
<1>1. Inv /\ Told => Tree = TreeOn(disk)
  BY TreeTold
<1>2. (Inv /\ Told => Tree = TreeOn(disk))'
  BY <1>1, PTL
<1> QED BY <1>1, <1>2

(* The call has still to take effect.                                       *)
LEMMA OpenSeen == (Inv => (Undecided <=> Open(writes, ret, 0))) /\ (Inv => (Undecided <=> Open(writes, ret, 0)))'
<1>1. Inv => (Undecided <=> Open(writes, ret, 0))
  <2>1. Inv => DOMAIN writes = (0 + 1)..Len(writes)
    BY DEF Inv, CallKept, Typed
  <2> QED BY <2>1 DEF Undecided, Open
<1>2. (Inv => (Undecided <=> Open(writes, ret, 0)))'
  BY <1>1, PTL
<1> QED BY <1>1, <1>2

(* A step that follows FsTree is one of its steps, or a stutter.            *)
LEMMA FollowsIs == ASSUME Inv, Told, Inv', Told', Follows PROVE [Fs!FsNext]_(Fs!fsVars)
<1> DEFINE t == TreeOn(disk)
           u == TreeOn(disk')
           c == Asking(call)
           d == Asking(call')
           a == Given(writes, ret)
           b == Given(writes', ret')
<1>1. Tree = t /\ Tree' = u
  <2>1. Tree = TreeOn(disk)
    BY TreeSeen
  <2>2. (Inv /\ Told => Tree = TreeOn(disk))'
    BY TreeSeen
  <2> QED BY <2>1, <2>2
<1>2. (IF call = NULL THEN NULL ELSE Clipped(call)) = c /\ (IF call = NULL THEN NULL ELSE Clipped(call))' = d
  BY DEF Asking
<1>3. (IF Undecided THEN NULL ELSE ret) = a /\ (IF Undecided THEN NULL ELSE ret)' = b
  <2>1. Inv => (Undecided <=> Open(writes, ret, 0))
    BY OpenSeen
  <2>2. (Inv => (Undecided <=> Open(writes, ret, 0)))'
    BY OpenSeen
  <2> QED BY <2>1, <2>2 DEF Given
<1>4. /\ Fs!Growing = Growing /\ Fs!Writing = Writing /\ Fs!ENOSPC = ENOSPC /\ Fs!EIO = EIO
      /\ \A e : Fs!Error(e) = Error(e)
      /\ \A v : Fs!Success(v) = Success(v)
  BY DEF Fs!Growing, Growing, Fs!Writing, Writing, Fs!Freeing, Freeing, Fs!ENOSPC, ENOSPC, Fs!EIO, EIO,
         Fs!Error, Error, Fs!Success, Success
<1>5. FsStep(t, c, a, u, d, b)
  BY DEF Follows
<1> HIDE DEF t, u, c, d, a, b
<1>6. CASE u = t /\ d = c /\ b = a
  BY <1>1, <1>2, <1>3, <1>6 DEF Fs!fsVars
<1>7. CASE c = NULL /\ d \in ClippedCalls /\ u = t /\ b = a
  <2>1. Fs!Call
    BY <1>1, <1>2, <1>3, <1>7 DEF Fs!Call
  <2> QED BY <2>1 DEF Fs!FsNext
<1>8. CASE c # NULL /\ a = NULL /\ Fs!Errors(t, c) = {} /\ u = Fs!After(t, c) /\ b = Success(Fs!Value(t, c)) /\ d = c
  <2>1. Fs!Succeed
    BY <1>1, <1>2, <1>3, <1>4, <1>8 DEF Fs!Succeed
  <2> QED BY <2>1 DEF Fs!FsNext
<1>9. CASE /\ c # NULL /\ a = NULL /\ u = t /\ d = c
           /\ \/ \E e \in Fs!Errors(t, c) : b = Error(e)
              \/ Fs!Errors(t, c) = {} /\ c.op \in Growing /\ b = Error(ENOSPC)
              \/ Fs!Errors(t, c) = {} /\ c.op \in Writing /\ b = Error(EIO)
  <2>1. Fs!Fail
    BY <1>1, <1>2, <1>3, <1>4, <1>9 DEF Fs!Fail
  <2> QED BY <2>1 DEF Fs!FsNext
<1>10. CASE c # NULL /\ a = NULL /\ Fs!Errors(t, c) = {} /\ (\E n : Partly(t, u, c, n)) /\ d = c /\ b = a
  <2>1. Fs!PartialWrite
    BY <1>1, <1>2, <1>3, <1>10 DEF Fs!PartialWrite, Partly
  <2> QED BY <2>1 DEF Fs!FsNext
<1>11. CASE a # NULL /\ d = NULL /\ b = NULL /\ u = t
  <2>1. Fs!Return
    BY <1>1, <1>2, <1>3, <1>11 DEF Fs!Return
  <2> QED BY <2>1 DEF Fs!FsNext
<1>12. CASE d = NULL /\ b = NULL /\ u = t
  <2>1. Fs!Crash
    BY <1>1, <1>2, <1>3, <1>12 DEF Fs!Crash
  <2> QED BY <2>1 DEF Fs!FsNext
<1> QED BY <1>5, <1>6, <1>7, <1>8, <1>9, <1>10, <1>11, <1>12 DEF FsStep

(* Through crashes and failed writes the file system implements FsTree: a   *)
(* call changes the tree of paths at once or not at all (fs_write in steps  *)
(* that replace a prefix of its bytes), and what it answers agrees with it. *)
(* Paths are no longer than fs_translate reads; beyond that it answers for  *)
(* a prefix of the path.                                                    *)
THEOREM FilesRefineTree == ASSUME "truncate" \notin Faulty, ShortPaths PROVE Spec => ImplementsFsTree
<1>1. Init => Inv /\ Told /\ Fs!FsInit
  <2>1. Init => Inv
    BY NewDisk
  <2>2. ASSUME Init PROVE Told /\ Fs!FsInit
    <3>1. Told /\ Tree = {Fs!Dir(<<>>)} /\ call = NULL /\ writes = <<>> /\ ret = NULL
      BY <2>2, NewTree
    <3>2. (IF Undecided THEN NULL ELSE ret) = NULL
      BY <3>1
    <3> QED BY <3>1, <3>2 DEF Fs!FsInit
  <2> QED BY <2>1, <2>2
<1>2. Inv /\ Told /\ Inv' /\ [Next]_vars => Told' /\ [Fs!FsNext]_(Fs!fsVars)
  BY NextFollows, FollowsIs
<1>3. Spec => []Inv
  BY InvHolds
<1> QED BY <1>1, <1>2, <1>3, PTL DEF Spec, ImplementsFsTree, Fs!FsSpec
=============================================================================
