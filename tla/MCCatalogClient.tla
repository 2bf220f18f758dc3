--------------------------- MODULE MCCatalogClient ---------------------------
(* The catalog client for TLC: its constants are given in the .cfg file. *)
EXTENDS CatalogClient
=============================================================================
