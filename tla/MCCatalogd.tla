----------------------------- MODULE MCCatalogd -----------------------------
(* catalogd for TLC: the constants of Catalogd are given in the .cfg files. *)
EXTENDS Catalogd
=============================================================================
