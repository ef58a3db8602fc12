------------------------------- MODULE FsTree -------------------------------
(* What the file system of project3 promises its caller: a tree of paths    *)
(* that every call changes in one indivisible step, at some moment between  *)
(* its start and its answer.  Only fs_write may be seen half done, and then *)
(* only in the bytes it overwrites.  The errors are those the code gives,   *)
(* which the comments of homework.c list with two exceptions: the root as   *)
(* the path of create, mkdir, unlink or rmdir is EINVAL, and a removal or a *)
(* rename below a file is ENOENT.                                           *)
EXTENDS FsErrors, Sequences, SequencesExt

CONSTANTS Calls,    \* records with fields op, path, to, off, len and buf
          DirSize   \* what getattr reports as the size of a directory

VARIABLES tree,     \* a set of nodes: a path, and a directory or a file with its bytes
          call,     \* the call in progress, or NULL
          answer    \* what it will return, or NULL while it has had no effect

fsVars == <<tree, call, answer>>

Dir(p) == [path |-> p, type |-> "dir", bytes |-> <<>>]
File(p, b) == [path |-> p, type |-> "file", bytes |-> b]

FsInit == tree = {Dir(<<>>)} /\ call = NULL /\ answer = NULL

Exists(t, p) == \E n \in t : n.path = p
Node(t, p) == CHOOSE n \in t : n.path = p
IsDir(t, p) == Exists(t, p) /\ Node(t, p).type = "dir"
Children(t, p) == {q \in {n.path : n \in t} : q # <<>> /\ Front(q) = p}

\* Errors of path resolution, 0 if p exists: the first missing component decides.
Resolve(t, p) ==
  IF Exists(t, p) THEN 0
  ELSE IF \E n \in 0..Len(p) : Exists(t, SubSeq(p, 1, n)) /\ ~IsDir(t, SubSeq(p, 1, n))
         THEN ENOTDIR ELSE ENOENT
\* The root has no parent: EINVAL, also from calls whose comment does not list it.
ResolveParent(t, p) == IF p = <<>> THEN EINVAL ELSE Resolve(t, Front(p))
\* The path of a file, for the calls that take no directory.
ResolveFile(t, p) == IF Resolve(t, p) # 0 THEN Resolve(t, p) ELSE IF IsDir(t, p) THEN EISDIR ELSE 0

(* The errors of the calls that change an entry of a directory that exists. *)
(* A removal or a rename below a file finds nothing there and says ENOENT,  *)
(* where homework.c:118-120 asks for ENOTDIR.                               *)
EntryErrors(t, c) ==
  LET p == c.path IN
  CASE c.op \in {"create", "mkdir"} -> IF ~IsDir(t, Front(p)) THEN {ENOTDIR}
                                       ELSE IF Exists(t, p) THEN {EEXIST} ELSE {}
    [] c.op = "rename" ->
         IF ResolveParent(t, c.to) # 0 THEN {ResolveParent(t, c.to)}
         ELSE IF Front(p) # Front(c.to) THEN {EINVAL}
         ELSE IF Exists(t, c.to) THEN {EEXIST} ELSE IF Exists(t, p) THEN {} ELSE {ENOENT}
    [] c.op = "unlink" -> IF ~Exists(t, p) THEN {ENOENT}
                          ELSE IF IsDir(t, p) THEN {EISDIR} ELSE {}
    [] c.op = "rmdir" -> IF ~Exists(t, p) THEN {ENOENT}
                         ELSE IF ~IsDir(t, p) THEN {ENOTDIR}
                         ELSE IF Children(t, p) # {} THEN {ENOTEMPTY} ELSE {}

\* The errors each call may answer with.
Errors(t, c) ==
  LET p == c.path IN
  CASE c.op \in {"getattr", "chmod", "utime"} -> {Resolve(t, p)} \ {0}
    [] c.op = "readdir" -> (IF Exists(t, p) /\ ~IsDir(t, p) THEN {ENOTDIR} ELSE {Resolve(t, p)}) \ {0}
    [] c.op = "read" -> {ResolveFile(t, p)} \ {0}
    [] c.op = "write" -> IF ResolveFile(t, p) # 0 THEN {ResolveFile(t, p)}
                         ELSE IF c.off > Len(Node(t, p).bytes) THEN {EINVAL} ELSE {}
    [] c.op = "truncate" -> IF c.len # 0 THEN {EINVAL} ELSE {ResolveFile(t, p)} \ {0}
    [] c.op \in {"create", "mkdir", "rename", "unlink", "rmdir"} ->
         IF ResolveParent(t, p) # 0 THEN {ResolveParent(t, p)} ELSE EntryErrors(t, c)

Slice(b, off, len) == SubSeq(b, off + 1, IF off + len > Len(b) THEN Len(b) ELSE off + len)
Splice(b, off, new) == SubSeq(b, 1, off) \o new \o SubSeq(b, off + Len(new) + 1, Len(b))

Without(t, p) == {n \in t : n.path # p}
With(t, node) == Without(t, node.path) \cup {node}
\* Everything below "from" moves along.
Moved(t, from, to) ==
  LET New(q) == IF IsPrefix(from, q) THEN to \o SubSeq(q, Len(from) + 1, Len(q)) ELSE q
  IN  {[n EXCEPT !.path = New(@)] : n \in t}

After(t, c) ==
  CASE c.op \in {"create", "truncate"} -> With(t, File(c.path, <<>>))
    [] c.op = "mkdir" -> With(t, Dir(c.path))
    [] c.op \in {"unlink", "rmdir"} -> Without(t, c.path)
    [] c.op = "rename" -> Moved(t, c.path, c.to)
    [] c.op = "write" -> With(t, File(c.path, Splice(Node(t, c.path).bytes, c.off, c.buf)))
    [] OTHER -> t

Stat(n) == [type |-> n.type, size |-> IF n.type = "dir" THEN DirSize ELSE Len(n.bytes)]

Value(t, c) ==
  CASE c.op = "getattr" -> Stat(Node(t, c.path))
    [] c.op = "readdir" -> {Last(q) : q \in Children(t, c.path)}
    [] c.op = "read" -> Slice(Node(t, c.path).bytes, c.off, c.len)
    [] OTHER -> NULL

----------------------------------------------------------------------------
Call == call = NULL /\ call' \in Calls /\ UNCHANGED <<tree, answer>>

Succeed == /\ call # NULL /\ answer = NULL
           /\ Errors(tree, call) = {}
           /\ tree' = After(tree, call)
           /\ answer' = Success(Value(tree, call))
           /\ UNCHANGED call

Fail == /\ call # NULL /\ answer = NULL
        /\ \/ \E e \in Errors(tree, call) : answer' = Error(e)
           \/ call.op \in Growing /\ Errors(tree, call) = {} /\ answer' = Error(ENOSPC)
           \/ call.op \in Writing /\ Errors(tree, call) = {} /\ answer' = Error(EIO)
        /\ UNCHANGED <<tree, call>>

\* A prefix of the bytes a write replaces has reached the disk.
PartialWrite == /\ call # NULL /\ answer = NULL
                /\ call.op = "write" /\ Errors(tree, call) = {}
                /\ LET old == Node(tree, call.path).bytes IN
                   \E n \in 1..Len(call.buf) :
                     /\ call.off + n <= Len(old)
                     /\ tree' = With(tree, File(call.path, Splice(old, call.off, SubSeq(call.buf, 1, n))))
                /\ UNCHANGED <<call, answer>>

Return == /\ answer # NULL
          /\ call' = NULL /\ answer' = NULL
          /\ UNCHANGED tree

\* The process dies: a call that had no effect yet never has one.
Crash == call' = NULL /\ answer' = NULL /\ UNCHANGED tree

FsNext == Call \/ Succeed \/ Fail \/ PartialWrite \/ Return \/ Crash

FsSpec == FsInit /\ [][FsNext]_fsVars
=============================================================================
