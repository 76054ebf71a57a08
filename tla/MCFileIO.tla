------------------------------ MODULE MCFileIO ------------------------------
(***************************************************************************)
(* FileIO for TLC: two processes, of root and of a user, one of which has  *)
(* a file open, one file outside a volume and one on it.                   *)
(***************************************************************************)
EXTENDS FileIO
CONSTANTS sh, guest, mnt, doc, zero

\* The shell sh is root and guest is not; sh has the file doc open.
MCUid == [x \in Process |-> IF x = sh THEN 0 ELSE 1000]
MCVolume == <<mnt>>
MCPath == {<<>>, <<mnt>>, <<mnt, doc>>, <<doc>>}
OfUser(data) ==
  [kind |-> "file", uid |-> 1000, gid |-> 1000, mode |-> Mode644, data |-> data]
MCImage == [x \in {<<mnt, doc>>} |-> OfUser(<<zero>>)]
MCNodes == MCImage @@ (<<doc>> :> OfUser(<<zero>>)) @@ [x \in {<<>>, <<mnt>>} |-> NewDir(Mode777)]
MCEntry(path) == [path |-> path, position |-> 0, flags |-> {"w"}, open |-> TRUE]
MCFds == (sh :> (3 :> MCEntry(<<doc>>))) @@ (guest :> <<>>)
=============================================================================
