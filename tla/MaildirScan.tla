---------------------------- MODULE MaildirScan -----------------------------
(***************************************************************************)
(* findMessages: the walk from the Maildir root over new and cur folders,  *)
(* without the excluded subtrees.  A path is the sequence of its names; a  *)
(* file system has directories (dirs), symbolic links to some of them      *)
(* (links, a function), and mail, a function from the paths of message     *)
(* files, or of links to them, to messages.                                *)
(***************************************************************************)
EXTENDS Naturals, SequencesExt

CONSTANT Hidden       \* file names that begin with a dot

\* What the walk does not take for a directory.
Listed(fs) == DOMAIN fs.mail \cup DOMAIN fs.links

\* Directories, links to some of them, and files, each with its folders above it.
IsFileSystem(fs) ==
  /\ DOMAIN fs = {"dirs", "links", "mail"}
  /\ IsFiniteSet(fs.dirs)
  /\ fs.dirs \cup Listed(fs) \subseteq Seq(STRING)
  /\ fs.dirs \cap Listed(fs) = {} /\ DOMAIN fs.mail \cap DOMAIN fs.links = {}
  /\ \A f \in Listed(fs) : Prefixes(f) \ {f} \subseteq fs.dirs
  /\ \A l \in DOMAIN fs.links : fs.links[l] \in fs.dirs

Inside(dir, path) == Len(path) = Len(dir) + 1 /\ IsPrefix(dir, path)

\* Where a path leads to; a directory is below one link at most.
Real(fs, path) ==
  LET linked == Prefixes(path) \cap DOMAIN fs.links
      link == CHOOSE l \in linked : TRUE
  IN  IF linked = {} THEN path
      ELSE fs.links[link] \o SubSeq(path, Len(link) + 1, Len(path))

\* os.Stat follows links.
IsDir(fs, path) == Real(fs, path) \in fs.dirs

LooksLikeMaildir(fs, dir) ==
  \A name \in {"new", "cur"} : IsDir(fs, Append(dir, name))

\* A directory whose files are messages; the walk goes no deeper.
MessageDir(fs, dir) ==
  /\ dir # <<>>
  /\ Last(dir) \in {"new", "cur"}
  /\ LooksLikeMaildir(fs, Front(dir))

\* A link to a directory counts as a message, too.
MessagesIn(fs, dir) ==
  {f \in Listed(fs) : Inside(dir, f) /\ Last(f) \notin Hidden}

\* Mutant of Scanned: only the excluded folder itself is passed over.
ScannedBelow(fs, excluded, dir) ==
  LET scanned[d \in fs.dirs] ==
        IF MessageDir(fs, d)
        THEN IF d \in excluded THEN {} ELSE MessagesIn(fs, d)
        ELSE UNION {scanned[e] : e \in {e \in fs.dirs : Inside(d, e)}}
  IN  scanned[dir]

\* The walk at dir; links among its entries are not directories to it.
Scanned(fs, excluded, dir) ==
  LET scanned[d \in fs.dirs] ==
        IF d \in excluded THEN {}
        ELSE IF MessageDir(fs, d) THEN MessagesIn(fs, d)
        ELSE UNION {scanned[e] : e \in {e \in fs.dirs : Inside(d, e)}}
  IN  scanned[dir]

\* A root that is a link is not walked; one that is missing fails the scan.
FindMessages(fs, root, excluded) ==
  IF root \in fs.dirs THEN Scanned(fs, excluded, root) ELSE {}

\* ensureMaildir, also by way of a link.
Prepared(fs, dir) ==
  LET made == {dir} \cup {Append(dir, name) : name \in {"cur", "new", "tmp"}}
  IN  [fs EXCEPT !.dirs = @ \cup UNION {Prefixes(Real(fs, d)) : d \in made}]

-----------------------------------------------------------------------------
\* The folders from root down to the one f is in.
OnTheWay(root, f) == {d \in Prefixes(f) : IsPrefix(root, d) /\ d # f}

\* What is listed counts if it lies in a message folder at or below root that
\* is not inside another one, and no folder on the way is excluded; and mail in an
\* excluded folder stays out of the scan, unless the folder is reached by a link
\* or is one that itself contains the root.
FindsDue(fs, root, excluded) ==
  LET found == FindMessages(fs, root, excluded)
      due(f) == /\ \E d \in OnTheWay(root, f) : Inside(d, f) /\ MessageDir(fs, d)
                /\ \A d \in OnTheWay(root, f) : MessageDir(fs, d) => Inside(d, f)
                /\ OnTheWay(root, f) \cap excluded = {}
                /\ Last(f) \notin Hidden
  IN  /\ root \in fs.dirs => found = {f \in Listed(fs) : due(f)}
      /\ \A e \in excluded, f \in found :
           IsPrefix(Real(fs, e), f) => Real(fs, e) # e \/ IsStrictPrefix(e, root)
=============================================================================
