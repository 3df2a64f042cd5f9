---------------------------- MODULE Directories ----------------------------
(* The directory helpers of src/aw_simulation_obstacle_new/src/utils.cpp.    *)
(* A file system is a function from paths, sequences of names, to what is    *)
(* there; readdir returns names in any order, here that of a sequence that   *)
(* has every name once.                                                      *)
EXTENDS Integers, Sequences, FiniteSets, SequencesExt

\* "locked" is a directory that cannot be opened, "link" a link to a file,
\* "device" a socket or a block device.
Kinds == {"file", "dir", "locked", "link", "device"}
Hidden == {".c"}

Entries(fs, p) == {q \in DOMAIN fs : Len(q) = Len(p) + 1 /\ Front(q) = p}
Opens(fs, p) == p \in DOMAIN fs /\ fs[p] = "dir"
Without(fs, p) == [q \in DOMAIN fs \ {p} |-> fs[q]]

\* Mutant of Removed: a directory goes with what is left in it.
RemovedAnyway(r, p) == [r EXCEPT !.fs = Without(@, p)]
\* A directory that is empty goes; the caller's second rmdir of it fails.
Removed(r, p) ==
  IF Entries(r.fs, p) # {} THEN [r EXCEPT !.rc = -1] ELSE [r EXCEPT !.fs = Without(@, p)]

RECURSIVE rm_dir(_, _, _)
Visited(r, q, order) ==
  CASE r.rc = -1 \/ q \notin DOMAIN r.fs -> r
    [] q \in DOMAIN r.fs /\ r.fs[q] \in {"dir", "locked"} -> rm_dir(r.fs, q, order)
    [] q \in DOMAIN r.fs /\ r.fs[q] = "file" -> [r EXCEPT !.fs = Without(@, q)]
    [] OTHER -> r

rm_dir(fs, p, order) ==
  IF ~ Opens(fs, p) THEN [fs |-> fs, rc |-> -1]
  ELSE LET r == FoldLeft(LAMBDA s, name : Visited(s, Append(p, name), order), [fs |-> fs, rc |-> 0], order)
       IN IF r.rc = -1 THEN r ELSE Removed(r, p)

DeleteDirectory(fs, p, order) == IF Opens(fs, p) THEN rm_dir(fs, p, order).fs ELSE fs

\* mkdir needs the directory above, and nothing at the path itself.
CreateDirectory(fs, p) ==
  IF p \in DOMAIN fs \/ ~ Opens(fs, Front(p)) THEN fs
  ELSE [q \in DOMAIN fs \cup {p} |-> IF q = p THEN "dir" ELSE fs[q]]

\* st_mode & S_IFDIR, a bit that sockets and block devices have as well.
IsDirectory(kind) == kind \in {"dir", "locked", "device"}
GetFileList(fs, p, order) ==
  IF ~ Opens(fs, p) THEN <<>>
  ELSE SelectSeq(order, LAMBDA name : LET q == Append(p, name) IN
         name \notin Hidden /\ q \in DOMAIN fs /\ ~ IsDirectory(fs[q]))

-----------------------------------------------------------------------------
Below(fs, p) == {q \in DOMAIN fs : IsPrefix(p, q)}

\* A directory goes with all that is below it unless something there is
\* neither a file nor a directory that can be opened: then that stays with
\* the directories it is in, whatever the order, and none of them can be made
\* anew and empty.  Nothing else is touched.  (utils.cpp:403-457)
DeletedWhole(fs, p, order) ==
  LET left == DeleteDirectory(fs, p, order)
      stuck == {q \in Below(fs, p) : fs[q] \notin {"file", "dir"}}
      anew == CreateDirectory(left, p)
  IN Opens(fs, p) =>
       /\ stuck = {} <=> Below(left, p) = {}
       /\ \A q \in stuck : \A n \in Len(p)..Len(q) : SubSeq(q, 1, n) \in DOMAIN left
       /\ \A q \in DOMAIN fs \ Below(fs, p) : q \in DOMAIN left
       /\ \A q \in DOMAIN left : q \in DOMAIN fs /\ left[q] = fs[q]
       /\ Entries(anew, p) = {} /\ Opens(anew, p) <=> stuck = {}

\* The loader's list of a block has each visible file and link once, in the
\* order of readdir, and nothing for a block without a directory; a socket is
\* left out like a directory.  (utils.cpp:459-485)
ListedOnce(fs, p, order) ==
  LET files == GetFileList(fs, p, order) IN
  /\ IsInjective(files)
  /\ ToSet(files) = {Last(q) : q \in {e \in Entries(fs, p) : fs[e] \in {"file", "link"} /\ Opens(fs, p)}} \ Hidden
=============================================================================
