------------------------------ MODULE MCFs5600 ------------------------------
(* Instances of Fs5600 for TLC: what the caller asks for. *)
EXTENDS Fs5600

CONSTANTS n1, n2, n3, long, d1, d2, MaxPath

PathsUpTo(names, k) == UNION {[1..i -> names] : i \in 0..k}
Asks(op, paths) == [op : {op}, path : paths, to : {<<>>}, off : {0}, len : {0}, buf : {<<>>}]
Reads(paths, offs, lens) ==
  [op : {"read"}, path : paths, to : {<<>>}, off : offs, len : lens, buf : {<<>>}]
WritesTo(paths, offs, bufs) ==
  {c \in [op : {"write"}, path : paths, to : {<<>>}, off : offs, len : {0}, buf : bufs] :
     c.off + Len(c.buf) <= 4}
Renames(paths) == [op : {"rename"}, path : paths, to : paths, off : {0}, len : {0}, buf : {<<>>}]

\* A name of more than MAX_NAME_LEN characters that is cut to n1.
TwoNames == {n1, n2}
ThreeNames == {n1, n2, long}
CutClip == [n \in ThreeNames |-> IF n = long THEN n1 ELSE n]
\* One name more than a directory has entries, besides.
FourNames == {n1, n2, n3, long}
CutClip4 == [n \in FourNames |-> IF n = long THEN n1 ELSE n]
MCPaths == PathsUpTo(Names, MaxPath)

\* Directories and names: every operation that moves an entry, on paths of two
\* names, and in the root on a third one, for which there is no room, and on one
\* that is cut wherever an entry is made, looked for, renamed or dropped.
NamePaths == PathsUpTo(TwoNames, MaxPath)
RootNames == PathsUpTo(FourNames, 1) \ {<<>>}
NameCalls ==
  UNION {Asks(op, NamePaths) : op \in {"create", "mkdir", "unlink", "rmdir", "readdir", "getattr"}}
  \cup UNION {Asks(op, RootNames) : op \in {"create", "unlink"}} \cup Asks("mkdir", {<<n3>>})
  \cup Renames(NamePaths) \cup Renames(RootNames)
\* Files: every operation that moves a byte or a data block.  The long name and
\* its cut are the same file, so one is written and the other read.
FileCalls ==
  UNION {Asks(op, MCPaths) : op \in {"create", "unlink", "truncate"}}
  \cup Asks("getattr", {<<long>>}) \cup Asks("chmod", {<<n1>>}) \cup Asks("utime", {<<n2>>})
  \cup Reads({<<long>>}, {0, 1, 3}, {2, 4}) \cup Reads({<<n2>>}, {0}, {4}) \cup Reads({<<>>}, {0}, {2})
  \cup WritesTo({<<n1>>}, {0, 1, 2}, {<<>>, <<d1>>, <<d2, d2, d2>>})
  \cup WritesTo({<<n2>>}, {0}, {<<d2, d2, d2>>})
  \cup WritesTo({<<>>}, {0}, {<<d1>>})
  \cup {[c EXCEPT !.len = 1] : c \in Asks("truncate", {<<n1>>})}
=============================================================================
