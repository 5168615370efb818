--------------------------- MODULE MCTraefikFiles ---------------------------
(***************************************************************************)
(* Small instances of TraefikFiles.                                        *)
(***************************************************************************)
EXTENDS TraefikFiles
=============================================================================
