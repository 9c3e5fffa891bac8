----------------------------- MODULE MCLogline ------------------------------
(* Logline.tla for TLC.  Two segments may be alive at a time: the live one and *)
(* the one before it, draining; a coordinator that needs a third waits.  Four  *)
(* files are enough for the copies of up to three inodes.                      *)
EXTENDS Logline

MCSeg  == 1..2
MCFile == 1..4
=============================================================================
