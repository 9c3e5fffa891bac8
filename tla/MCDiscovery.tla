---------------------------- MODULE MCDiscovery -----------------------------
(* Discovery.tla for TLC: a log, its rotated and excluded name, and a path     *)
(* that matches an exclude pattern only.                                       *)
EXTENDS Discovery

MCPath     == {"log", "log.1", "other"}
MCScanned  == {"log", "log.1"}
MCExcluded == {"log.1", "other"}
=============================================================================
