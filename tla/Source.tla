------------------------------- MODULE Source -------------------------------
(* The machine the agent runs on, as far as one tailed path goes: the program *)
(* that writes the log, and the log rotation that moves the file aside, makes *)
(* a new one and leaves lh-logrotate's marker files.  None of this is in the  *)
(* repository: it is modelled from what the agent stats, opens, lists and     *)
(* reads.                                                                      *)
EXTENDS Integers, Sequences, Functions

CONSTANTS MaxInode,     \* bound: the path is given at most this many inodes
          MaxSize,      \* bound: no file grows longer
          MaxBytes,     \* bound: nor do all of them together
          Birth,        \* the sizes a new file may have when the agent can first see it
          Markers       \* when a rotation's waiting marker appears: "first" before the new
                        \* file is made, "mixed" then or never, "late" at any time or never

ASSUME SourceAssumption ==
  /\ MaxInode \in Nat
  /\ MaxSize \in Nat /\ MaxBytes \in Nat
  /\ Birth \subseteq 0..MaxSize
  /\ Markers \in {"first", "mixed", "late"}

Inode   == 1..MaxInode   \* in the order the path is given them
NoInode == 0

VARIABLES
  cur,      \* the inode behind the tailed path, or NoInode between a move and a creation
  size,     \* Inode -> its length; byte k of inode i is the pair <<i, k>>
  marker,   \* Inode -> "none", "waiting" or "done": the marker file of its rotation.
            \* The iso_dt in its name tells rotations apart, so the inode stands for it.
  made      \* the inodes made so far are 1..made

sourceVars == <<cur, size, marker, made>>

\* The first n bytes of an inode, and its bytes from one offset to another.
Bytes(i, from, to) == [k \in 1..(to - from) |-> <<i, from + k>>]
FirstBytes(i, n)   == Bytes(i, 0, n)

Total == FoldFunction(+, 0, size)

SourceInit ==
  /\ cur = NoInode
  /\ size = [i \in Inode |-> 0]
  /\ marker = [i \in Inode |-> "none"]
  /\ made = 0

\* The writer appends to the file it has open: the current one, or one moved
\* aside that is not complete yet.
Grow(i) ==
  /\ i <= made
  /\ marker[i] # "done"
  /\ size[i] < MaxSize
  /\ Total < MaxBytes
  /\ size' = [size EXCEPT ![i] = @ + 1]
  /\ UNCHANGED <<cur, marker, made>>

\* A rotation moves the file aside ...
MoveAside ==
  /\ cur # NoInode
  /\ cur' = NoInode
  /\ UNCHANGED <<size, marker, made>>

\* ... and a new file takes the path.
CreateNew ==
  /\ cur = NoInode
  /\ made < MaxInode
  /\ Markers = "first" /\ made > 0 => marker[made] # "none"
  /\ made' = made + 1
  /\ cur' = made'
  /\ \E b \in Birth : /\ Total + b <= MaxBytes
                      /\ size' = [size EXCEPT ![made'] = b]
  /\ UNCHANGED marker

\* lh-logrotate leaves foo.log.<iso_dt>.lh-logrotate-waiting; a rotation by
\* anything else leaves no marker.
WaitingMarker(i) ==
  /\ i <= made
  /\ i # cur
  /\ Markers = "late" \/ i = made
  /\ marker[i] = "none"
  /\ marker' = [marker EXCEPT ![i] = "waiting"]
  /\ UNCHANGED <<cur, size, made>>

\* The segment is complete: the waiting marker gives way to the one that
\* carries its sha13, and nobody writes to the file any more.
DoneMarker(i) ==
  /\ marker[i] = "waiting"
  /\ marker' = [marker EXCEPT ![i] = "done"]
  /\ UNCHANGED <<cur, size, made>>

SourceNext ==
  \/ MoveAside
  \/ CreateNew
  \/ \E i \in Inode : Grow(i) \/ WaitingMarker(i) \/ DoneMarker(i)

=============================================================================
