------------------------------- MODULE MCFile -------------------------------
(* One path: what is replaced, removed and opened again is the same name.  *)
EXTENDS H5File

CONSTANT path

MCPaths == {path}
=============================================================================
