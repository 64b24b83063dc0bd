-------------------------- MODULE MCCatalogMirror --------------------------
(* An instance of CatalogMirror: a folder in a folder, and a file in it.   *)
EXTENDS CatalogMirror, TLC

CONSTANTS g, f, c

MCItems == {g, f, c}
MCFolders == {g, f}
MCHomes == (g :> Root @@ f :> g @@ c :> f)

Times(i) == Cardinality({n \in DOMAIN feed : feed[n] = i})

(* Four events in all; a change of the file or of the root counts twice.   *)
FewEvents ==
  Len(feed) + interruptions + local.generation + (IF local.clear THEN 0 ELSE 1)
    + Times(c) + Times(Root) <= 4
============================================================================
