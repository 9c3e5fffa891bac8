------------------------------ MODULE MCServer ------------------------------
(* Server.tla for TLC: two connections, three names, two files. *)
EXTENDS Server, TLC

MCByte    == {1}
MCPayload == {<<1>>}

\* Names and connections are interchangeable; files are not (CHOOSE).
Symmetry == Permutations(Name) \cup Permutations(Conn)
=============================================================================
