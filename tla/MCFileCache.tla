---------------------------- MODULE MCFileCache ----------------------------
(***************************************************************************)
(* A small tree: /a, /b/ab and /b/a/b.                                     *)
(***************************************************************************)
EXTENDS FileCache, TLC

CONSTANTS f, g, h, root, sub, subsub, PathMax

MCFiles == {f, g, h}
MCFolders == {root, sub, subsub}
MCParent == f :> root @@ sub :> root @@ g :> sub @@ subsub :> sub @@ h :> subsub
MCNames == f :> <<"a">> @@ sub :> <<"b">> @@ g :> <<"a", "b">> @@ subsub :> <<"a">> @@ h :> <<"b">>

MCPaths == {<<"/", "b", "/", "a", "b">>, <<"/", "b", "/", "a", "/", "b">>}

\* Every target of a slash and up to PathMax characters, and the paths of g and h,
\* also with a slash too many anywhere.
MCTargets ==
  {<<"/">> \o path : path \in UNION {[1..n -> {"a", "b", "/"}] : n \in 0..PathMax}}
  \cup MCPaths \cup {InsertAt(path, i, "/") : path \in MCPaths, i \in 1..6}

=============================================================================
