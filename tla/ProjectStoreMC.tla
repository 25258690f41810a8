--------------------------- MODULE ProjectStoreMC ---------------------------
(* A model of ProjectStore.  Names are given by their role: P and Q are    *)
(* packages, w a wrapping folder, V an ignored folder.                     *)
EXTENDS ProjectStore

CONSTANTS u1, u2, s1, s2

MCUploads == {u1, u2}
MCServers == {s1, s2}
MCSymmetry == Permutations(MCUploads) \cup Permutations(MCServers)

File(path, content, size, real) ==
  [path |-> path, kind |-> "file", size |-> size, packed |-> 1, real |-> real, content |-> content]
Other(path, kind) == [path |-> path, kind |-> kind, size |-> 0, packed |-> 0, real |-> 0, content |-> "none"]

MCEntries == {
  File(<<"P", Manifest>>, "package", 1, 1), File(<<"Q", Manifest>>, "package", 1, 1),
  File(<<"w", "P", Manifest>>, "package", 1, 1), File(<<"w", Manifest>>, "package", 1, 1),
  File(<<"P", Manifest>>, "anonymous", 1, 1),
  File(<<"P", Manifest>>, "junk", 1, 1),
  File(<<"P", "a">>, "red", 1, 1), File(<<"P", "a">>, "red", 3, 9), File(<<"P", "a">>, "red", 4, 4),
  File(<<"P">>, "junk", 1, 1), File(<<"V", "a">>, "red", 1, 1),
  Other(<<"P">>, "dir"), Other(<<"b">>, "link"), Other(<<"b">>, "locked"), Other(<<>>, "dir")}

MCArchives ==
  UNION {[1..n -> MCEntries] : n \in 0..3}
  \cup {[i \in 1..4 |-> e] : e \in {Other(<<"P">>, "dir"), File(<<"b">>, "junk", 1, 1)}}
=============================================================================
