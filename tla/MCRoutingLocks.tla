--------------------------- MODULE MCRoutingLocks ---------------------------
(***************************************************************************)
(* Small instances of RoutingLocks.                                        *)
(***************************************************************************)
EXTENDS RoutingLocks

MCComposes == 1..2
=============================================================================
