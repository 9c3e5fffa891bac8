---------------------------- MODULE LoglineMirror ----------------------------
(* Logline implements Mirror.tla: while it is orderly, each of its steps is    *)
(* one that Mirror.tla allows the mirror, or leaves the mirror as it is.       *)
EXTENDS LoglineCopies

-----------------------------------------------------------------------------
(* The mirror *)

\* The refinement mapping of Promise.
Mirrored == [n \in AgentName |-> IF Server!Exists(n) THEN content[dir[n]] ELSE None]

Finals == {FinalName(i) : i \in Inode}
Copies == {FirstBytes(i, n) : i \in Inode, n \in 0..MaxSize}

\* What it takes for a step of Mirror.tla.
LEMMA Promised ==
  /\ \A n \in AgentName :
       n \notin Finals /\ Mirrored[n] = None /\ Mirrored' = [Mirrored EXCEPT ![n] = <<>>]
       => Promise!Next
  /\ \A n \in AgentName : \A c \in Copies :
       n \notin Finals /\ Mirrored[n] # None /\ IsPrefix(Mirrored[n], c)
         /\ Mirrored' = [Mirrored EXCEPT ![n] = c]
       => Promise!Next
  /\ \A from, to \in AgentName :
       from \notin Finals /\ Mirrored[from] # None /\ Mirrored[to] = None
         /\ Mirrored' = [Mirrored EXCEPT ![from] = None, ![to] = Mirrored[from]]
       => Promise!Next
  /\ (\A n \in AgentName :
        \/ Mirrored'[n] = Mirrored[n]
        \/ /\ n \notin Finals
           /\ Mirrored'[n] \in Copies \cup {None}
           /\ Mirrored'[n] # None => Mirrored[n] # None /\ IsPrefix(Mirrored'[n], Mirrored[n]))
     => Promise!Next
<1>1. ASSUME NEW n \in AgentName, n \notin Finals, Mirrored[n] = None,
             Mirrored' = [Mirrored EXCEPT ![n] = <<>>]
      PROVE  Promise!Next
  <2>1. Promise!Create(n)
    BY <1>1 DEF Promise!Create, Mirrored, Finals
  <2> QED  BY <2>1 DEF Promise!Next
<1>2. ASSUME NEW n \in AgentName, NEW c \in Copies, n \notin Finals, Mirrored[n] # None,
             IsPrefix(Mirrored[n], c), Mirrored' = [Mirrored EXCEPT ![n] = c]
      PROVE  Promise!Next
  <2>1. Promise!IsPrefix(Mirrored[n], c) /\ Mirrored' = [Mirrored EXCEPT ![n] = c]
    BY <1>2 DEF Promise!IsPrefix, IsPrefix
  <2>2. Promise!Lengthen(n) <=>
          /\ n \notin Finals
          /\ Mirrored[n] # None
          /\ \E e \in Copies :
               Promise!IsPrefix(Mirrored[n], e) /\ Mirrored' = [Mirrored EXCEPT ![n] = e]
    BY DEF Promise!Lengthen, Mirrored, Copies, Finals
  <2>3. Promise!Lengthen(n)
    BY <1>2, <2>1, <2>2
  <2> QED  BY <2>3 DEF Promise!Next
<1>3. ASSUME NEW from \in AgentName, NEW to \in AgentName, from \notin Finals,
             Mirrored[from] # None, Mirrored[to] = None,
             Mirrored' = [Mirrored EXCEPT ![from] = None, ![to] = Mirrored[from]]
      PROVE  Promise!Next
  <2>1. Promise!Move(from, to)
    BY <1>3 DEF Promise!Move, Mirrored, Finals
  <2> QED  BY <2>1 DEF Promise!Next
<1>4. ASSUME \A n \in AgentName :
               \/ Mirrored'[n] = Mirrored[n]
               \/ /\ n \notin Finals
                  /\ Mirrored'[n] \in Copies \cup {None}
                  /\ Mirrored'[n] # None =>
                       Mirrored[n] # None /\ IsPrefix(Mirrored'[n], Mirrored[n])
      PROVE  Promise!Next
  <2>1. DOMAIN Mirrored' = AgentName
    BY DEF Mirrored
  <2>2. Promise!PowerLoss
    BY <1>4, <2>1 DEF Promise!PowerLoss, Promise!IsPrefix, IsPrefix, Mirrored, Finals, Copies
  <2> QED  BY <2>2 DEF Promise!Next
<1> QED  BY <1>1, <1>2, <1>3, <1>4

\* What the mirror holds.
LEMMA MirroredFacts ==
  ASSUME Typed, CopiesOnly, NEW n \in AgentName
  PROVE  /\ ~Server!Exists(n) => Mirrored[n] = None
         /\ Server!Exists(n) => /\ Mirrored[n] = content[dir[n]]
                                /\ Mirrored[n] \in Copies /\ Mirrored[n] # None
<1>1. ~Server!Exists(n) => Mirrored[n] = None
  BY DEF Mirrored
<1>2. Server!Exists(n) => Mirrored[n] = content[dir[n]]
  BY DEF Mirrored
<1>3. ASSUME Server!Exists(n) PROVE content[dir[n]] \in Copies
  <2>1. PICK i \in Inode : Copy(n, i)
    BY <1>3 DEF CopiesOnly
  <2>2. Len(content[dir[n]]) \in 0..MaxSize
    BY <1>3, FileFacts
  <2>3. content[dir[n]] = FirstBytes(i, Len(content[dir[n]]))
    BY <2>1 DEF Copy, IsHeadOf
  <2> QED  BY <2>2, <2>3 DEF Copies
<1>4. None \notin Copies
  BY LoglineAssumption DEF Copies
<1> QED  BY <1>1, <1>2, <1>3, <1>4

\* Names that stay as they are.
LEMMA MirrorStays ==
  ASSUME NEW n \in AgentName, Stays(n)
  PROVE  Mirrored'[n] = Mirrored[n]
<1>1. Mirrored[n] = IF dir[n] # None THEN content[dir[n]] ELSE None
  BY DEF Mirrored, Server!Exists
<1>2. Mirrored'[n] = IF dir'[n] # None THEN content'[dir'[n]] ELSE None
  BY DEF Mirrored, Server!Exists
<1> QED  BY <1>1, <1>2 DEF Stays, Server!Exists

\* The beginnings of an inode are beginnings of one another.
LEMMA HeadsPrefix ==
  ASSUME NEW i \in Inode, NEW n \in Nat, NEW m \in 0..n
  PROVE  IsPrefix(FirstBytes(i, m), FirstBytes(i, n))
<1>1. m \in Nat /\ m <= n /\ m \in 0..m
  OBVIOUS
<1>2. Len(FirstBytes(i, m)) = m /\ Len(FirstBytes(i, n)) = n
  BY <1>1, HeadFacts
<1>3. SubSeq(FirstBytes(i, n), 1, m) = FirstBytes(i, m)
  BY HeadOfHead
<1>4. SubSeq(FirstBytes(i, m), 1, m) = FirstBytes(i, m)
  BY <1>1, HeadOfHead
<1> QED  BY <1>1, <1>2, <1>3, <1>4 DEF IsPrefix

-----------------------------------------------------------------------------
(* The steps that change files *)

\* The first frame for a name.
LEMMA CreatePromised ==
  ASSUME Typed, Named, Copied, NEW s \in Seg, wire[s].kind = "data",
         Server!BeginCreate(s, wire[s].off, wire[s].data)
  PROVE  Promise!Next
<1> DEFINE t == seg[s].target
<1>1. /\ seg[s].io = "sending" /\ t \in AgentName
      /\ ~Server!Exists(t) /\ dir'[t] # None /\ content'[dir'[t]] = <<>>
      /\ \A n \in AgentName : n # t => Stays(n)
  BY CreateEffect
<1>2. t \notin Finals
  BY <1>1, SendTarget DEF Typed, Finals
<1>3. Mirrored[t] = None
  BY <1>1, MirroredFacts DEF Copied
<1>4. Mirrored'[t] = <<>>
  BY <1>1 DEF Mirrored, Server!Exists
<1>5. \A n \in AgentName : n # t => Mirrored'[n] = Mirrored[n]
  BY <1>1, MirrorStays
<1>6. Mirrored' = [n \in AgentName |-> Mirrored'[n]] /\ Mirrored = [n \in AgentName |-> Mirrored[n]]
  BY DEF Mirrored
<1> HIDE DEF t
<1>7. Mirrored' = [Mirrored EXCEPT ![t] = <<>>]
  BY <1>1, <1>4, <1>5, <1>6
<1> QED  BY <1>1, <1>2, <1>3, <1>7, Promised

\* A frame that is written.
LEMMA ApplyPromised ==
  ASSUME Typed, Named, Settled, Copied, NEW s \in Seg, Server!Apply(s), Reply(s, OkReply)
  PROVE  Promise!Next
<1> DEFINE t == seg[s].target
           i == seg[s].inode
           c == FirstBytes(i, seg[s].pos)
<1>1. /\ seg[s].io = "sending" /\ seg[s].phase \in Draining
      /\ t \in AgentName /\ Server!Exists(t)
      /\ \A n \in AgentName : n # t => Stays(n)
      /\ UNCHANGED dir
      /\ wire[s].off \in Nat /\ wire[s].off < seg[s].pos /\ seg[s].pos \in 0..MaxSize
      /\ content[dir[t]] = FirstBytes(i, wire[s].off)
      /\ content'[dir[t]] = c
  BY ApplyEffect DEF Copied
<1>2. Shape(seg[s], wire[s]) /\ i \in Inode
  BY <1>1 DEF Typed, Shape, Draining
<1>3. t \notin Finals
  BY <1>1, <1>2, SendTarget DEF Finals
<1>4. Mirrored[t] = FirstBytes(i, wire[s].off) /\ Mirrored[t] # None
  BY <1>1, MirroredFacts DEF Copied
<1>5. c \in Copies /\ IsPrefix(Mirrored[t], c)
  <2>1. seg[s].pos \in Nat /\ wire[s].off \in 0..seg[s].pos
    BY <1>1
  <2>2. IsPrefix(FirstBytes(i, wire[s].off), c)
    BY <1>2, <2>1, HeadsPrefix
  <2> QED  BY <1>1, <1>2, <1>4, <2>2 DEF Copies
<1>6. Mirrored'[t] = c
  BY <1>1 DEF Mirrored, Server!Exists
<1>7. \A n \in AgentName : n # t => Mirrored'[n] = Mirrored[n]
  BY <1>1, MirrorStays
<1>8. Mirrored' = [n \in AgentName |-> Mirrored'[n]] /\ Mirrored = [n \in AgentName |-> Mirrored[n]]
  BY DEF Mirrored
<1> HIDE DEF t, c
<1>9. Mirrored' = [Mirrored EXCEPT ![t] = c]
  BY <1>1, <1>6, <1>7, <1>8
<1> QED  BY <1>1, <1>3, <1>4, <1>5, <1>9, Promised

\* A rename.
LEMMA RenamePromised ==
  ASSUME Typed, Named, Copied, NEW s \in Seg, wire[s].kind = "rename",
         Server!Rename(s, wire[s].from, wire[s].to)
  PROVE  Promise!Next
<1> DEFINE from == wire[s].from
           to   == wire[s].to
<1>1. /\ from \in AgentName /\ to \in AgentName /\ from # to /\ from = seg[s].target
      /\ Server!Exists(from) /\ dir'[from] = None
      /\ ~Server!Exists(to) /\ dir'[to] = dir[from]
      /\ content' = content
      /\ \A n \in AgentName : n # from /\ n # to => Stays(n)
  BY RenameEffect
<1>2. Shape(seg[s], wire[s]) /\ seg[s].io # "assuming"
  BY DEF Typed, Shape, Kinds, Draining
<1>3. from \notin Finals
  BY <1>1, <1>2, SendTarget DEF Finals
<1> HIDE DEF from, to
<1>4. Mirrored[from] # None /\ Mirrored[from] = content[dir[from]] /\ Mirrored[to] = None
  BY <1>1, MirroredFacts DEF Copied
<1>5. Mirrored'[from] = None
  BY <1>1 DEF Mirrored, Server!Exists
<1>6. Mirrored'[to] = Mirrored[from]
  <2>1. Mirrored'[to] = IF dir'[to] # None THEN content'[dir'[to]] ELSE None
    BY <1>1 DEF Mirrored, Server!Exists
  <2> QED  BY <1>1, <1>4, <2>1 DEF Server!Exists
<1>7. \A n \in AgentName : n # from /\ n # to => Mirrored'[n] = Mirrored[n]
  BY <1>1, MirrorStays
<1>8. Mirrored' = [n \in AgentName |-> Mirrored'[n]] /\ Mirrored = [n \in AgentName |-> Mirrored[n]]
  BY DEF Mirrored
<1>9. Mirrored' = [Mirrored EXCEPT ![from] = None, ![to] = Mirrored[from]]
  BY <1>1, <1>5, <1>6, <1>7, <1>8
<1> QED  BY <1>1, <1>3, <1>4, <1>9, Promised

\* A power loss: finalized copies have been synced.
LEMMA LossPromised ==
  ASSUME Typed, Named, Copied, Server!PowerLoss
  PROVE  Promise!Next
<1> SUFFICES ASSUME NEW n \in AgentName
             PROVE  \/ Mirrored'[n] = Mirrored[n]
                    \/ /\ n \notin Finals
                       /\ Mirrored'[n] \in Copies \cup {None}
                       /\ Mirrored'[n] # None =>
                            Mirrored[n] # None /\ IsPrefix(Mirrored'[n], Mirrored[n])
  BY Promised
<1>1. Mirrored'[n] = IF dir'[n] # None THEN content'[dir'[n]] ELSE None
  BY DEF Mirrored, Server!Exists
<1>2. CASE dir'[n] # None
  <2>1. Server!Exists(n)
    BY <1>2, LossEffect DEF Server!Exists
  <2>2. PICK k \in synced[dir[n]]..Len(content[dir[n]]) :
          content'[dir'[n]] = SubSeq(content[dir[n]], 1, k)
    BY <1>2, LossEffect DEF Server!Exists
  <2>3. /\ Len(content[dir[n]]) \in 0..MaxSize /\ MaxSize \in Nat /\ synced[dir[n]] \in Nat
        /\ k \in 0..Len(content[dir[n]]) /\ k \in 0..MaxSize /\ Len(content[dir[n]]) \in Nat
    BY <2>1, <2>2, FileFacts
  <2>4. PICK i \in Inode : Copy(n, i)
    BY <2>1 DEF Copied, CopiesOnly
  <2>5. /\ content[dir[n]] = FirstBytes(i, Len(content[dir[n]]))
        /\ SubSeq(content[dir[n]], 1, k) = FirstBytes(i, k)
    BY <2>1, <2>3, <2>4, CopyFacts
  <2>6. Mirrored[n] = content[dir[n]] /\ Mirrored[n] # None
    BY <2>1, MirroredFacts DEF Copied
  <2>7. Mirrored'[n] = FirstBytes(i, k)
    BY <1>1, <1>2, <2>2, <2>5
  <2>8. CASE n \in Finals
    <3>1. synced[dir[n]] = Len(content[dir[n]])
      BY <2>1, <2>8 DEF Copied, Finished, Finals
    <3>2. k = Len(content[dir[n]])
      BY <2>2, <2>3, <3>1
    <3> QED  BY <2>5, <2>6, <2>7, <3>2
  <2>9. CASE n \notin Finals
    <3>1. IsPrefix(FirstBytes(i, k), FirstBytes(i, Len(content[dir[n]])))
      BY <2>3, HeadsPrefix
    <3>2. FirstBytes(i, k) \in Copies
      BY <2>3 DEF Copies
    <3> QED  BY <2>5, <2>6, <2>7, <2>9, <3>1, <3>2
  <2> QED  BY <2>8, <2>9
<1>3. CASE dir'[n] = None
  <2>1. CASE n \in Finals
    <3>1. n \notin fresh \/ ~Server!Exists(n)
      BY <2>1 DEF Copied, Finished, Finals
    <3>2. ~Server!Exists(n)
      BY <1>3, <3>1, LossEffect DEF Server!Exists
    <3> QED  BY <1>1, <1>3, <3>2, MirroredFacts DEF Copied
  <2> QED  BY <1>1, <1>3, <2>1
<1> QED  BY <1>2, <1>3

-----------------------------------------------------------------------------
(* The refinement *)

\* Each step is a step of the mirror, or none.
LEMMA MirrorStep ==
  ASSUME Typed, Named, Settled, Copied, [Next]_vars
  PROVE  UNCHANGED <<dir, content>> \/ Promise!Next
<1>1. CASE UNCHANGED vars \/ SourceStep \/ Drop
  BY <1>1 DEF vars, SourceStep, Drop, serverVars
<1>2. CASE (\E s \in Seg : Run(s)) \/ Coordinate \/ Agent(Scan) \/ Agent(Killed)
  BY <1>2 DEF Run, Coordinate, Agent
<1>3. CASE Outage
  BY <1>3, LossPromised DEF Outage
<1>4. ASSUME NEW s \in Seg, Serve(s) PROVE UNCHANGED <<dir, content>> \/ Promise!Next
  <2>1. CASE Accept(s)
    BY <2>1 DEF Accept, Server!Hello, Server!files
  <2>2. CASE TakeData(s)
    BY <2>2, CreatePromised
       DEF TakeData, Server!BeginOpen, Server!BeginReject, Server!Raise, Server!files
  <2>3. CASE FinishData(s)
    BY <2>3, ApplyPromised DEF FinishData, Server!ApplyReject, Server!Raise, Server!files
  <2>4. CASE TakeRename(s)
    BY <2>4, RenamePromised
       DEF TakeRename, Server!RenameNoop, Server!RenameReject, Server!Raise, Server!files
  <2> QED  BY <1>4, <2>1, <2>2, <2>3, <2>4 DEF Serve
<1> QED  BY <1>1, <1>2, <1>3, <1>4 DEF Next

\* Logline implements Mirror.tla while it is orderly: copies only grow, are never
\* renamed over one another, and once they have their final name, made durable by
\* handle_rename's fsyncs, never change, whatever happens to the server.
THEOREM MirrorSpecHolds == Spec /\ []Recognised => MirrorSpec
<1>1. Init => Promise!Init
  BY DEF Init, Server!Init, Promise!Init, Server!Exists
<1>2. Shipped /\ [Next]_vars =>
        [UNCHANGED <<dir, content>> \/ (Orderly => Promise!Next)]_<<dir, content>>
  BY MirrorStep DEF Shipped, Served, Ordered
<1> QED  BY <1>1, <1>2, CopiesHold, PTL DEF Spec, MirrorSpec

\* The same for logs that are not empty when the agent first sees them, whatever
\* the history.
THEOREM FilledMirrored == 0 \notin Birth /\ Spec => MirrorSpec
BY AllRecognised, MirrorSpecHolds, PTL DEF MirrorSpec

=============================================================================
