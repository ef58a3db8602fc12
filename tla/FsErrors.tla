------------------------------ MODULE FsErrors ------------------------------
(* The error codes of project3/homework.c and what a call returns: a code   *)
(* (0 for success) and a value.                                             *)
EXTENDS Integers

CONSTANT NULL

ENOENT == -2
EIO == -5
EEXIST == -17
ENOTDIR == -20
EISDIR == -21
EINVAL == -22
ENOSPC == -28
ENOTEMPTY == -39

Codes == {ENOENT, EIO, EEXIST, ENOTDIR, EISDIR, EINVAL, ENOSPC, ENOTEMPTY, 0}

Success(v) == [code |-> 0, value |-> v]
Error(e) == [code |-> e, value |-> NULL]

\* Calls that take blocks, calls that write to the disk, calls that give blocks back.
Growing == {"create", "mkdir", "write"}
Freeing == {"unlink", "rmdir", "truncate"}
Writing == Growing \cup Freeing \cup {"rename", "chmod", "utime"}
Ops == Writing \cup {"getattr", "readdir", "read"}
=============================================================================
