------------------------------- MODULE Mirror -------------------------------
(* What Logline promises of the mirror of one log, without connections,       *)
(* processes or failures: a directory of copies that only grow, each by the   *)
(* bytes of one inode, and are only moved onto free names; a copy that has    *)
(* its final name never changes again, whatever happens to the server.        *)
EXTENDS SequencesExt

CONSTANTS Name,     \* the names on the server
          Final,    \* those of finalized copies
          Copy,     \* what a copy may hold: the first bytes of an inode
          Absent

VARIABLE mirror     \* Name -> Copy, or Absent

Init == mirror = [n \in Name |-> Absent]

\* The first data frame for a name makes an empty copy.
Create(n) ==
  /\ n \notin Final
  /\ mirror[n] = Absent
  /\ mirror' = [mirror EXCEPT ![n] = <<>>]

\* A data frame is appended.
Lengthen(n) ==
  /\ n \notin Final
  /\ mirror[n] # Absent
  /\ \E c \in Copy : IsPrefix(mirror[n], c) /\ mirror' = [mirror EXCEPT ![n] = c]

\* A rename; nothing is ever renamed onto a copy, or away from a final name.
Move(from, to) ==
  /\ from \notin Final
  /\ mirror[from] # Absent
  /\ mirror[to] = Absent
  /\ mirror' = [mirror EXCEPT ![from] = Absent, ![to] = mirror[from]]

\* The server loses power: copies may lose their ends, or be gone, but for the
\* finalized ones.
PowerLoss ==
  /\ DOMAIN mirror' = Name
  /\ \A n \in Name :
       \/ mirror'[n] = mirror[n]
       \/ /\ n \notin Final
          /\ mirror'[n] \in Copy \cup {Absent}
          /\ mirror'[n] # Absent => mirror[n] # Absent /\ IsPrefix(mirror'[n], mirror[n])

Next ==
  \/ \E n \in Name : Create(n) \/ Lengthen(n)
  \/ \E from, to \in Name : Move(from, to)
  \/ PowerLoss

Spec == Init /\ [][Next]_mirror

=============================================================================
