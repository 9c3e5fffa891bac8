---------------------------- MODULE LoglineCopies ----------------------------
(* What the files hold.  While the agent is orderly (see Logline.tla), and a   *)
(* segment that finds a live file there always has a prefix to recognise it    *)
(* by, every file is the beginning of one inode, the server keeps what it has  *)
(* acknowledged, and the mirror is as Mirror.tla promises.                     *)
EXTENDS LoglineNames

-----------------------------------------------------------------------------
(* The invariant *)

\* A segment that reads no prefix, from a log still empty, meets no live file.
Recognised ==
  \A s \in Seg : seg[s].phase = "greet" => seg[s].pos > 0 \/ ~Server!Exists(LiveName)

\* The file under name n is the beginning of inode i.
Copy(n, i) == IsHeadOf(content[dir[n]], i)

CopiesOnly == \A n \in AgentName : Server!Exists(n) => \E i \in Inode : Copy(n, i)

\* A segment ships to copies of its own inode.
OwnCopies(s) ==
  seg[s].phase \in Streaming =>
    \A n \in Names(s) : Server!Exists(n) => Copy(n, seg[s].inode)

\* A greeting on its way is still true.
GreetingTrue(s) ==
  wire[s].kind = "greeting" =>
    /\ wire[s].length = Server!ReportedLength(seg[s].target)
    /\ wire[s].prefix = Server!ReportedPrefix(seg[s].target, seg[s].pos)

\* Once a stale file has been moved aside there is no live file.
MovedAway(s) ==
  seg[s].phase = "regreet" \/ (seg[s].phase = "aside" /\ wire[s].kind = "ok")
    => ~Server!Exists(LiveName)

\* What has been acknowledged to segment s is there.
Delivered(s) ==
  seg[s].io = "sending" /\ wire[s].kind = "ok" =>
    Server!Exists(seg[s].target) /\ Len(content[dir[seg[s].target]]) >= seg[s].pos

\* A file that has its final name is safe from power losses.
Finished ==
  \A i \in Inode : Server!Exists(FinalName(i)) =>
    /\ FinalName(i) \notin fresh
    /\ synced[dir[FinalName(i)]] = Len(content[dir[FinalName(i)]])

\* What has been acknowledged is kept, until a power loss.
Kept ==
  /\ outages \in Nat
  /\ outages = 0 =>
       \A i \in Inode : acked[i] > 0 =>
         \E n \in AgentName : Server!Exists(n) /\ Copy(n, i) /\ Len(content[dir[n]]) >= acked[i]

Copied ==
  /\ CopiesOnly
  /\ Finished
  /\ Kept
  /\ \A s \in Seg : OwnCopies(s) /\ GreetingTrue(s) /\ MovedAway(s) /\ Delivered(s)

-----------------------------------------------------------------------------
(* Copies *)

\* What the first bytes of an inode are.
LEMMA HeadFacts ==
  ASSUME NEW i \in Inode, NEW n \in Nat
  PROVE  /\ FirstBytes(i, n) \in Seq({i} \X Nat)
         /\ Len(FirstBytes(i, n)) = n
         /\ \A k \in 1..n : FirstBytes(i, n)[k] = <<i, k>>
         /\ IsHeadOf(FirstBytes(i, n), i)
<1>1. n - 0 = n /\ \A k \in 1..n : 0 + k = k /\ k \in Nat
  OBVIOUS
<1>2. FirstBytes(i, n) = [k \in 1..n |-> <<i, k>>]
  BY <1>1 DEF FirstBytes, Bytes
<1>3. FirstBytes(i, n) \in [1..n -> {i} \X Nat]
  BY <1>1, <1>2
<1>4. FirstBytes(i, n) \in Seq({i} \X Nat)
  BY <1>3
<1>5. Len(FirstBytes(i, n)) = n
  BY <1>2
<1> QED  BY <1>2, <1>4, <1>5 DEF IsHeadOf

\* The beginning of a beginning is one.
LEMMA HeadOfHead ==
  ASSUME NEW i \in Inode, NEW n \in Nat, NEW m \in 0..n
  PROVE  SubSeq(FirstBytes(i, n), 1, m) = FirstBytes(i, m)
<1>1. /\ FirstBytes(i, n) \in Seq({i} \X Nat) /\ Len(FirstBytes(i, n)) = n
      /\ \A k \in 1..n : FirstBytes(i, n)[k] = <<i, k>>
  BY HeadFacts
<1>2. /\ FirstBytes(i, m) \in Seq({i} \X Nat) /\ Len(FirstBytes(i, m)) = m
      /\ \A k \in 1..m : FirstBytes(i, m)[k] = <<i, k>>
  <2>1. m \in Nat
    OBVIOUS
  <2> QED  BY <2>1, HeadFacts
<1> DEFINE c == FirstBytes(i, n)
           d == FirstBytes(i, m)
           b == SubSeq(c, 1, m)
<1> HIDE DEF c, d
<1>3. b \in Seq({i} \X Nat) /\ Len(b) = m /\ \A k \in 1..m : b[k] = <<i, k>>
  BY <1>1 DEF c
<1>4. d \in Seq({i} \X Nat) /\ Len(d) = m /\ \A k \in 1..m : d[k] = <<i, k>>
  BY <1>2 DEF d
<1> HIDE DEF b
<1>5. b = d
  BY <1>3, <1>4
<1> QED  BY <1>5 DEF b, c, d

\* Files that exist are sequences of bounded length.
LEMMA FileFacts ==
  ASSUME Typed, NEW n \in AgentName, Server!Exists(n)
  PROVE  /\ dir[n] \in File
         /\ content[dir[n]] \in Seq(Byte \cup {Hole})
         /\ Len(content[dir[n]]) \in 0..MaxSize /\ MaxSize \in Nat
         /\ synced[dir[n]] \in Nat
<1>1. dir[n] \in File
  BY DEF Typed, DiskOK, Server!TypeOK, Server!Exists
<1>2. content[dir[n]] \in Seq(Byte \cup {Hole}) /\ synced[dir[n]] \in Nat
  BY <1>1 DEF Typed, DiskOK, Server!TypeOK
<1>3. Len(content[dir[n]]) \in Nat /\ Len(content[dir[n]]) <= MaxSize /\ MaxSize \in Nat
  BY <1>1, <1>2, SourceAssumption DEF Typed, DiskOK
<1> QED  BY <1>1, <1>2, <1>3

\* What a copy holds, and what is left of it when it loses its end.
LEMMA CopyFacts ==
  ASSUME Typed, NEW n \in AgentName, Server!Exists(n), NEW i \in Inode, Copy(n, i)
  PROVE  /\ content[dir[n]] = FirstBytes(i, Len(content[dir[n]]))
         /\ \A m \in 0..Len(content[dir[n]]) :
              SubSeq(content[dir[n]], 1, m) = FirstBytes(i, m)
<1>1. Len(content[dir[n]]) \in Nat
  BY FileFacts
<1>2. content[dir[n]] = FirstBytes(i, Len(content[dir[n]]))
  BY DEF Copy, IsHeadOf
<1> QED  BY <1>1, <1>2, HeadOfHead

-----------------------------------------------------------------------------
(* Names *)

\* A segment holds the name of its target.
LEMMA TargetHeld ==
  ASSUME NEW s \in Seg, Shape(seg[s], wire[s]), seg[s].phase \notin {"off", "done"}
  PROVE  seg[s].target \in Names(s) /\ seg[s].target \in AgentName
<1>1. seg[s].target \in AgentName /\ seg[s].target = Target(seg[s])
  BY SegmentFields DEF Shape
<1> QED  BY <1>1 DEF Shape, Target, Names, Sealed, Closing

\* Nothing is sent to a final name.
LEMMA SendTarget ==
  ASSUME NEW s \in Seg, Shape(seg[s], wire[s]), seg[s].io # "assuming",
         NEW i \in Inode
  PROVE  seg[s].target # FinalName(i)
BY NameFacts DEF Shape, Target, Plan, Sealed, Closing

\* But for one that moves a stale file aside, the names of a segment are its own
\* affair.
LEMMA NamesSame ==
  ASSUME NEW s \in Seg, seg'[s] = seg[s], seg[s].phase # "aside"
  PROVE  Names(s)' = Names(s)
BY DEF Names

-----------------------------------------------------------------------------
(* What each step does to the files *)

\* The file under name n stays as it is.
Stays(n) ==
  /\ Server!Exists(n)' <=> Server!Exists(n)
  /\ Server!Exists(n) => content'[dir'[n]] = content[dir[n]]

\* Names that are not touched by another segment's step.
LEMMA OthersStay ==
  ASSUME Typed, Named, NEW s \in Seg, NEW t \in Seg, t # s,
         \A n \in AgentName \ Names(s) : Stays(n),
         UNCHANGED seg, wire'[t] = wire[t],
         OwnCopies(t), GreetingTrue(t), MovedAway(t), Delivered(t)
  PROVE  OwnCopies(t)' /\ GreetingTrue(t)' /\ MovedAway(t)' /\ Delivered(t)'
<1>1. Shape(seg[t], wire[t]) /\ Names(t) \subseteq AgentName
  BY DEF Typed, Names
<1>2. \A n \in Names(t) : Stays(n)
  BY <1>1 DEF Named, NamesApart
<1>3. OwnCopies(t)'
  <2> SUFFICES ASSUME seg[t].phase \in Streaming, NEW n \in Names(t)', Server!Exists(n)'
               PROVE  Copy(n, seg[t].inode)'
    BY DEF OwnCopies
  <2>1. n \in Names(t)
    BY NamesSame DEF Streaming, Draining
  <2> QED  BY <1>2, <2>1 DEF OwnCopies, Stays, Copy
<1>4. ASSUME seg[t].phase \notin {"off", "done"} PROVE Stays(seg[t].target)
  BY <1>1, <1>2, <1>4, TargetHeld
<1>5. GreetingTrue(t)'
  <2>1. wire[t].kind = "greeting" => seg[t].phase \notin {"off", "done"}
    BY <1>1 DEF Shape, Kinds, Draining
  <2> QED  BY <1>4, <2>1 DEF GreetingTrue, Stays, Server!Exists, Server!ReportedLength,
                             Server!ReportedPrefix
<1>6. MovedAway(t)'
  <2>1. seg[t].phase \in {"regreet", "aside"} => LiveName \in Names(t)
    BY NamesType DEF Names, Sealed, Closing
  <2> QED  BY <1>2, <2>1 DEF MovedAway, Stays, Server!Exists
<1>7. Delivered(t)'
  <2>1. seg[t].io = "sending" /\ wire[t].kind = "ok" => seg[t].phase \notin {"off", "done"}
    BY <1>1 DEF Shape
  <2> QED  BY <1>4, <2>1 DEF Delivered, Stays, Server!Exists
<1> QED  BY <1>3, <1>5, <1>6, <1>7

\* A frame written at the end of a copy makes a longer copy.
LEMMA WriteCopy ==
  ASSUME NEW i \in Inode, NEW to \in Nat, NEW off \in 0..to
  PROVE  Server!WriteAt(FirstBytes(i, off), off, Bytes(i, off, to)) = FirstBytes(i, to)
<1>1. off \in Nat /\ to - off \in Nat /\ off + (to - off) = to /\ to >= off
  OBVIOUS
<1>2. /\ Len(FirstBytes(i, off)) = off
      /\ \A k \in 1..off : FirstBytes(i, off)[k] = <<i, k>>
  BY <1>1, HeadFacts
<1>3. /\ Len(Bytes(i, off, to)) = to - off
      /\ \A k \in 1..(to - off) : Bytes(i, off, to)[k] = <<i, off + k>>
  BY <1>1 DEF Bytes
<1>4. \A k \in 1..to : k > off => k - off \in 1..(to - off) /\ off + (k - off) = k
  BY <1>1
<1>5. \A k \in 1..to : ~(k > off) => k \in 1..off
  BY <1>1
<1>6. FirstBytes(i, to) = [k \in 1..to |-> <<i, k>>]
  BY DEF FirstBytes, Bytes
<1> DEFINE c == FirstBytes(i, off)
           d == Bytes(i, off, to)
<1> HIDE DEF c, d
<1>7. /\ Len(c) = off /\ \A k \in 1..off : c[k] = <<i, k>>
      /\ Len(d) = to - off /\ \A k \in 1..(to - off) : d[k] = <<i, off + k>>
  BY <1>2, <1>3 DEF c, d
<1>8. Server!WriteAt(c, off, d) = [k \in 1..to |-> IF k > off /\ k <= to THEN d[k - off]
                                                   ELSE IF k <= off THEN c[k] ELSE Hole]
  BY <1>1, <1>7 DEF Server!WriteAt
<1>9. \A k \in 1..to : (IF k > off /\ k <= to THEN d[k - off]
                        ELSE IF k <= off THEN c[k] ELSE Hole) = <<i, k>>
  BY <1>1, <1>4, <1>5, <1>7
<1>10. Server!WriteAt(c, off, d) = FirstBytes(i, to)
  BY <1>6, <1>8, <1>9
<1> QED  BY <1>10 DEF c, d

\* A data frame that is written lengthens the copy the segment ships to.
LEMMA ApplyEffect ==
  ASSUME Typed, Named, Settled, NEW s \in Seg, OwnCopies(s), Server!Apply(s), Reply(s, OkReply)
  PROVE  /\ seg[s].io = "sending" /\ seg[s].phase \in Draining /\ wire[s].kind = "data"
         /\ wire'[s] = OkReply /\ \A t \in Seg \ {s} : wire'[t] = wire[t]
         /\ seg[s].target \in Names(s) /\ seg[s].target \in AgentName
         /\ Server!Exists(seg[s].target)
         /\ \A n \in AgentName : n # seg[s].target => Stays(n)
         /\ UNCHANGED <<dir, synced, fresh>>
         /\ wire[s].off \in Nat /\ wire[s].off < seg[s].pos /\ seg[s].pos \in 0..MaxSize
         /\ content[dir[seg[s].target]] = FirstBytes(seg[s].inode, wire[s].off)
         /\ content'[dir[seg[s].target]] = FirstBytes(seg[s].inode, seg[s].pos)
<1> DEFINE h == handler[s]
           t == seg[s].target
           i == seg[s].inode
           d == dir[t]
<1>1. /\ Shape(seg[s], wire[s]) /\ Session(wire[s], h) /\ h.st = "inflating"
      /\ Server!WellFormed(h) /\ h \in Server!Handler /\ wire \in [Seg -> Message]
  BY DEF Typed, AgentOK, DiskOK, Server!TypeOK, Server!Apply
<1>2. /\ wire[s].kind = "data" /\ h.frame = [off |-> wire[s].off, data |-> wire[s].data] /\ ~h.gone
  BY <1>1 DEF Session
<1>3. seg[s].io = "sending" /\ seg[s].phase \in Draining /\ i \in Inode
  BY <1>1, <1>2 DEF Shape, Kinds, Draining, Sealed, Closing
<1>4. t \in Names(s) /\ t \in AgentName
  BY <1>1, <1>3, TargetHeld DEF Draining
<1>5. h.path = t /\ h.fd = d /\ d # None
  BY <1>1, <1>2, <1>3 DEF Named, PathOK, ServedPath, Draining, Server!WellFormed
<1>6. Server!Exists(t) /\ d \in File
  BY <1>4, <1>5, FileFacts DEF Server!Exists
<1>7. Copy(t, i)
  BY <1>3, <1>4, <1>6 DEF OwnCopies, Streaming
<1>8. h.pos = Len(content[d])
  <2>1. s \in S!Attended
    BY <1>1, <1>2 DEF S!Attended, S!Open
  <2> QED  BY <1>5, <2>1 DEF Settled, S!Prompt, S!AtEnd
<1>9. wire[s].off = h.pos
  BY <1>2 DEF Server!Apply, Server!Acceptable
<1>10. /\ wire[s].off \in 0..MaxSize /\ wire[s].off < seg[s].pos /\ seg[s].pos \in 0..MaxSize
       /\ wire[s].data = Bytes(i, wire[s].off, seg[s].pos)
  BY <1>1, <1>2, ByKind, SegmentFields DEF Shape, DataReqs
<1>11. content[d] = FirstBytes(i, wire[s].off)
  BY <1>7, <1>8, <1>9 DEF Copy, IsHeadOf
<1>12. wire[s].off \in 0..seg[s].pos /\ seg[s].pos \in Nat
  BY <1>10
<1>13. content' = [content EXCEPT ![h.fd] = Server!WriteAt(content[h.fd], h.pos, h.frame.data)]
  BY DEF Server!Apply
<1>14. content' = [content EXCEPT ![d] = FirstBytes(i, seg[s].pos)]
  <2>1. h.frame.data = Bytes(i, wire[s].off, seg[s].pos)
    BY <1>2, <1>10
  <2>2. Server!WriteAt(FirstBytes(i, wire[s].off), wire[s].off, Bytes(i, wire[s].off, seg[s].pos))
          = FirstBytes(i, seg[s].pos)
    BY <1>3, <1>12, WriteCopy
  <2>3. Server!WriteAt(content[h.fd], h.pos, h.frame.data) = FirstBytes(i, seg[s].pos)
    BY <1>5, <1>9, <1>11, <2>1, <2>2
  <2> QED  BY <1>5, <1>13, <2>3
<1>15. content'[d] = FirstBytes(i, seg[s].pos) /\ \A f \in File : f # d => content'[f] = content[f]
  BY <1>6, <1>14 DEF Typed, DiskOK, Server!TypeOK
<1>16. UNCHANGED <<dir, synced, fresh>>
  BY DEF Server!Apply
<1>17. \A n \in AgentName : n # t => Stays(n)
  <2> SUFFICES ASSUME NEW n \in AgentName, n # t, Server!Exists(n) PROVE content'[dir[n]] = content[dir[n]]
    BY <1>16 DEF Stays, Server!Exists
  <2>1. dir[n] # d
    BY <1>4 DEF Named, OneName
  <2> QED  BY <1>15, <2>1, FileFacts
<1>18. wire'[s] = OkReply /\ \A u \in Seg \ {s} : wire'[u] = wire[u]
  BY <1>1 DEF Reply
<1> QED  BY <1>2, <1>3, <1>4, <1>6, <1>10, <1>11, <1>12, <1>15, <1>16, <1>17, <1>18

\* The first data frame makes an empty file where there was none.
LEMMA CreateEffect ==
  ASSUME Typed, Named, NEW s \in Seg, wire[s].kind = "data",
         Server!BeginCreate(s, wire[s].off, wire[s].data)
  PROVE  /\ seg[s].io = "sending" /\ seg[s].phase \in Draining
         /\ seg[s].target \in Names(s) /\ seg[s].target \in AgentName
         /\ ~Server!Exists(seg[s].target) /\ dir'[seg[s].target] # None
         /\ content'[dir'[seg[s].target]] = <<>>
         /\ \A n \in AgentName : n # seg[s].target =>
              Stays(n) /\ dir'[n] = dir[n] /\ (Server!Exists(n) => synced'[dir[n]] = synced[dir[n]])
         /\ fresh' = fresh \cup {seg[s].target}
<1> DEFINE t == seg[s].target
<1>1. /\ Shape(seg[s], wire[s]) /\ Session(wire[s], handler[s]) /\ handler[s].st # "closed"
      /\ handler[s].fd = None /\ dir \in [AgentName -> File \cup {None}]
      /\ content \in [File -> Seq(Byte \cup {Hole})] /\ synced \in [File -> Nat]
  BY ClosedType DEF Typed, Session, Server!BeginCreate, DiskOK, Server!TypeOK
<1>2. seg[s].io = "sending" /\ seg[s].phase \in Draining
  BY <1>1 DEF Shape, Kinds, Draining, Sealed, Closing
<1>3. t \in Names(s) /\ t \in AgentName
  BY <1>1, <1>2, TargetHeld DEF Draining
<1>4. handler[s].path = t /\ dir[t] = None
  BY <1>1, <1>2 DEF Named, PathOK, ServedPath, Draining
<1>5. PICK f \in File :
        /\ \A n \in AgentName : dir[n] # f
        /\ dir' = [dir EXCEPT ![t] = f]
        /\ content' = [content EXCEPT ![f] = <<>>]
        /\ synced' = [synced EXCEPT ![f] = 0]
        /\ fresh' = fresh \cup {t}
  <2> DEFINE g == CHOOSE x \in Server!Unused : TRUE
  <2>1. ~Server!Exists(t)
    BY <1>4 DEF Server!Exists
  <2>2. /\ Server!Unused # {} /\ dir' = [dir EXCEPT ![t] = g]
        /\ content' = [content EXCEPT ![g] = <<>>] /\ synced' = [synced EXCEPT ![g] = 0]
        /\ fresh' = fresh \cup {t}
    BY <1>4, <2>1 DEF Server!BeginCreate
  <2>3. g \in Server!Unused
    BY <2>2
  <2> HIDE DEF g
  <2>4. g \in File /\ \A n \in AgentName : dir[n] # g
    BY <2>3 DEF Server!Unused, Server!InUse, Server!Linked
  <2> QED  BY <2>2, <2>4
<1>6. dir'[t] = f /\ f # None /\ content'[f] = <<>>
  BY <1>1, <1>3, <1>5, LoglineAssumption
<1>7. \A n \in AgentName : n # t => dir'[n] = dir[n]
  BY <1>1, <1>5
<1>8. \A n \in AgentName : n # t /\ Server!Exists(n) =>
        content'[dir[n]] = content[dir[n]] /\ synced'[dir[n]] = synced[dir[n]]
  BY <1>1, <1>5, FileFacts
<1>9. \A n \in AgentName : n # t => Stays(n)
  BY <1>7, <1>8 DEF Stays, Server!Exists
<1>10. ~Server!Exists(t) /\ dir'[t] # None
  BY <1>4, <1>6 DEF Server!Exists
<1>11. fresh' = fresh \cup {t} /\ content'[dir'[t]] = <<>>
  BY <1>5, <1>6
<1> QED  BY <1>2, <1>3, <1>7, <1>8, <1>9, <1>10, <1>11

\* A rename moves a copy to a name that was free, and makes it durable.
LEMMA RenameEffect ==
  ASSUME Typed, Named, NEW s \in Seg, wire[s].kind = "rename",
         Server!Rename(s, wire[s].from, wire[s].to)
  PROVE  /\ wire[s].from \in Names(s) /\ wire[s].to \in Names(s)
         /\ wire[s].from \in AgentName /\ wire[s].to \in AgentName /\ wire[s].from # wire[s].to
         /\ wire[s].from = seg[s].target
         /\ Server!Exists(wire[s].from) /\ dir'[wire[s].from] = None
         /\ ~Server!Exists(wire[s].to) /\ dir'[wire[s].to] = dir[wire[s].from]
         /\ content' = content /\ fresh' = {}
         /\ synced'[dir[wire[s].from]] = Len(content[dir[wire[s].from]])
         /\ \A n \in AgentName : n # wire[s].from /\ n # wire[s].to =>
              Stays(n) /\ dir'[n] = dir[n] /\ (Server!Exists(n) => synced'[dir[n]] = synced[dir[n]])
<1> DEFINE from == wire[s].from
           to   == wire[s].to
           d    == dir[from]
<1>1. /\ dir \in [AgentName -> File \cup {None}] /\ synced \in [File -> Nat]
      /\ Server!Exists(from) /\ handler[s].st # "closed"
      /\ dir' = [dir EXCEPT ![from] = None, ![to] = d]
      /\ content' = content /\ fresh' = {}
  BY ClosedType DEF Typed, DiskOK, Server!TypeOK, Server!Rename
<1>2. /\ from = handler[s].path /\ from \in Names(s) /\ to \in Names(s) /\ from = seg[s].target
      /\ from \in AgentName /\ to \in AgentName /\ from # to /\ handler[s].fd = d
      /\ ~Server!Exists(to)
  BY <1>1, RenameRequest
<1>3. d \in File /\ d # None
  BY <1>1, <1>2, FileFacts DEF Server!Exists
<1>4. synced' = [synced EXCEPT ![d] = Len(content[d])]
  BY <1>2, <1>3 DEF Server!Rename, Server!FdFollows
<1> HIDE DEF from, to
<1>5. /\ dir'[from] = None /\ dir'[to] = d /\ synced'[d] = Len(content[d])
      /\ \A n \in AgentName : n # from /\ n # to => dir'[n] = dir[n]
      /\ \A f \in File : f # d => synced'[f] = synced[f]
  BY <1>1, <1>2, <1>3, <1>4
<1>6. \A n \in AgentName : n # from /\ Server!Exists(n) => dir[n] # d /\ dir[n] \in File
  BY <1>2, <1>3, FileFacts DEF Named, OneName
<1>7. \A n \in AgentName : n # from /\ n # to =>
        Stays(n) /\ dir'[n] = dir[n] /\ (Server!Exists(n) => synced'[dir[n]] = synced[dir[n]])
  BY <1>1, <1>5, <1>6 DEF Stays, Server!Exists
<1>8. dir'[from] = None
  BY <1>5
<1>9. /\ from = seg[s].target /\ from \in Names(s) /\ to \in Names(s)
      /\ from \in AgentName /\ to \in AgentName /\ from # to
      /\ Server!Exists(from) /\ ~Server!Exists(to)
  BY <1>1, <1>2
<1>10. dir'[to] = dir[from] /\ synced'[dir[from]] = Len(content[dir[from]])
  BY <1>5
<1> QED  BY <1>1, <1>7, <1>8, <1>9, <1>10 DEF from, to

\* A power loss shortens files, to no less than what has been synced, or loses
\* entries never synced.
LEMMA LossEffect ==
  ASSUME Typed, Named, Server!PowerLoss, NEW n \in AgentName
  PROVE  /\ n \notin fresh => (Server!Exists(n)' <=> Server!Exists(n))
         /\ Server!Exists(n)' =>
              /\ Server!Exists(n)
              /\ \E k \in synced[dir[n]]..Len(content[dir[n]]) :
                   /\ content'[dir'[n]] = SubSeq(content[dir[n]], 1, k)
                   /\ synced'[dir'[n]] = k
         /\ fresh' = {}
<1>1. PICK lost \in SUBSET fresh : dir' = [m \in AgentName |-> IF m \in lost THEN None ELSE dir[m]]
  BY DEF Server!PowerLoss
<1>2. PICK kept \in [{f \in File : \E m \in AgentName : dir'[m] = f} -> 0..MaxSize] :
        /\ \A f \in DOMAIN kept : kept[f] \in synced[f]..Len(content[f])
        /\ content' = [f \in File |-> IF f \in DOMAIN kept THEN SubSeq(content[f], 1, kept[f])
                                      ELSE <<>>]
        /\ synced'  = [f \in File |-> IF f \in DOMAIN kept THEN kept[f] ELSE 0]
  BY DEF Server!PowerLoss
<1>3. fresh' = {}
  BY DEF Server!PowerLoss
<1>4. n \notin fresh => dir'[n] = dir[n]
  BY <1>1
<1>5. ASSUME Server!Exists(n)' PROVE dir'[n] = dir[n] /\ Server!Exists(n)
  BY <1>1, <1>5 DEF Server!Exists
<1>6. ASSUME Server!Exists(n)'
      PROVE  \E k \in synced[dir[n]]..Len(content[dir[n]]) :
               /\ content'[dir'[n]] = SubSeq(content[dir[n]], 1, k)
               /\ synced'[dir'[n]] = k
  <2>1. dir'[n] = dir[n] /\ dir[n] \in File
    BY <1>5, <1>6, FileFacts
  <2>2. dir[n] \in DOMAIN kept
    BY <2>1
  <2> QED  BY <1>2, <2>1, <2>2
<1> QED  BY <1>3, <1>4, <1>5, <1>6 DEF Server!Exists

-----------------------------------------------------------------------------
(* The steps of the server *)

\* Steps of a handler that touch no file.
LEMMA QuietServeCopied ==
  ASSUME Typed, Copied, NEW s \in Seg, NEW w, wire' = [wire EXCEPT ![s] = w],
         UNCHANGED <<seg, dir, content, synced, fresh, acked, outages>>,
         w = wire[s] \/ w.kind # "ok",
         GreetingTrue(s)'
  PROVE  Copied'
<1>1. wire'[s] = w /\ \A t \in Seg \ {s} : wire'[t] = wire[t]
  BY DEF Typed, AgentOK
<1>2. CopiesOnly' /\ Finished' /\ Kept'
  BY DEF Copied, CopiesOnly, Finished, Kept, Copy, Server!Exists
<1>3. ASSUME NEW t \in Seg
      PROVE  OwnCopies(t)' /\ GreetingTrue(t)' /\ MovedAway(t)' /\ Delivered(t)'
  <2>1. OwnCopies(t) /\ GreetingTrue(t) /\ MovedAway(t) /\ Delivered(t)
    BY DEF Copied
  <2>2. OwnCopies(t)'
    <3>1. seg[t].phase \in Streaming => Names(t)' = Names(t)
      BY NamesSame DEF Streaming, Draining
    <3> QED  BY <2>1, <3>1 DEF OwnCopies, Copy, Server!Exists
  <2>3. GreetingTrue(t)'
    <3>1. CASE t # s
      BY <1>1, <2>1, <3>1 DEF GreetingTrue, Server!ReportedLength, Server!ReportedPrefix,
                              Server!Exists
    <3> QED  BY <3>1
  <2>4. MovedAway(t)' /\ Delivered(t)'
    BY <1>1, <2>1 DEF MovedAway, Delivered, Server!Exists
  <2> QED  BY <2>2, <2>3, <2>4
<1> QED  BY <1>2, <1>3 DEF Copied

\* A connection that breaks.
LEMMA CutCopied ==
  ASSUME Typed, Copied, NEW s \in Seg, Reply(s, Broken),
         UNCHANGED <<seg, dir, content, synced, fresh, acked, outages>>
  PROVE  Copied'
<1>1. wire'[s] = Broken
  BY DEF Reply, Typed, AgentOK
<1> QED  BY <1>1, QuietServeCopied, Built DEF Reply, GreetingTrue

\* The greeting tells the length and the prefix of the target.
LEMMA AcceptCopied ==
  ASSUME Typed, Copied, NEW s \in Seg, Accept(s), Serve(s)
  PROVE  Copied'
<1> DEFINE t == wire[s].target
           g == Greeting(Server!ReportedLength(t), Server!ReportedPrefix(t, wire[s].n))
<1>1. /\ Shape(seg[s], wire[s]) /\ wire[s].kind = "hello" /\ wire' = [wire EXCEPT ![s] = g]
      /\ UNCHANGED <<seg, dir, content, synced, fresh, acked, outages>>
  BY DEF Accept, Reply, Typed, Serve, failureVars, Server!Hello, Server!files
<1>2. t = seg[s].target /\ wire[s].n = seg[s].pos
  BY <1>1 DEF Shape
<1>3. /\ g.kind = "greeting" /\ g.length = Server!ReportedLength(seg[s].target)
      /\ g.prefix = Server!ReportedPrefix(seg[s].target, seg[s].pos)
  BY <1>2 DEF Greeting
<1> HIDE DEF g, t
<1>4. wire'[s] = g
  BY <1>1 DEF Typed, AgentOK
<1>5. GreetingTrue(s)'
  BY <1>1, <1>3, <1>4 DEF GreetingTrue, Server!ReportedLength, Server!ReportedPrefix, Server!Exists
<1> QED  BY <1>1, <1>3, <1>5, QuietServeCopied

\* A first frame creates a file that is the beginning of the segment's inode.
LEMMA CreateCopied ==
  ASSUME Typed, Named, Copied, NEW s \in Seg, wire[s].kind = "data",
         Server!BeginCreate(s, wire[s].off, wire[s].data), UNCHANGED <<seg, wire, acked, outages>>
  PROVE  Copied'
<1> DEFINE t == seg[s].target
<1>1. /\ seg[s].io = "sending" /\ seg[s].phase \in Draining
      /\ t \in Names(s) /\ t \in AgentName
      /\ ~Server!Exists(t) /\ dir'[t] # None /\ content'[dir'[t]] = <<>>
      /\ \A n \in AgentName : n # t =>
           Stays(n) /\ dir'[n] = dir[n] /\ (Server!Exists(n) => synced'[dir[n]] = synced[dir[n]])
      /\ fresh' = fresh \cup {t}
  BY CreateEffect
<1>2. Shape(seg[s], wire[s]) /\ seg[s].inode \in Inode
  BY <1>1 DEF Typed, Shape, Draining
<1>3. \A i \in Inode : IsHeadOf(<<>>, i)
  <2> SUFFICES ASSUME NEW i \in Inode PROVE IsHeadOf(<<>>, i)
    OBVIOUS
  <2>1. FirstBytes(i, 0) = <<>>
    BY DEF FirstBytes, Bytes
  <2> QED  BY <2>1 DEF IsHeadOf
<1>4. CopiesOnly'
  <2> SUFFICES ASSUME NEW n \in AgentName, dir'[n] # None
               PROVE  \E i \in Inode : IsHeadOf(content'[dir'[n]], i)
    BY DEF CopiesOnly, Copy, Server!Exists
  <2>1. CASE n = t
    BY <1>1, <1>2, <1>3, <2>1
  <2>2. CASE n # t
    BY <1>1, <2>2 DEF Copied, CopiesOnly, Stays, Copy, Server!Exists
  <2> QED  BY <2>1, <2>2
<1>5. Finished'
  <2> SUFFICES ASSUME NEW i \in Inode, dir'[FinalName(i)] # None
               PROVE  /\ FinalName(i) \notin fresh'
                      /\ synced'[dir'[FinalName(i)]] = Len(content'[dir'[FinalName(i)]])
    BY DEF Finished, Server!Exists
  <2>1. FinalName(i) # t /\ FinalName(i) \in AgentName
    BY <1>1, <1>2, SendTarget, NamesType
  <2> QED  BY <1>1, <2>1 DEF Copied, Finished, Stays, Server!Exists
<1>6. Kept'
  <2> SUFFICES ASSUME outages = 0, NEW i \in Inode, acked[i] > 0
               PROVE  \E n \in AgentName : /\ dir'[n] # None /\ IsHeadOf(content'[dir'[n]], i)
                                           /\ Len(content'[dir'[n]]) >= acked[i]
    BY DEF Copied, Kept, Copy, Server!Exists
  <2>1. PICK n \in AgentName : /\ Server!Exists(n) /\ Copy(n, i) /\ Len(content[dir[n]]) >= acked[i]
    BY DEF Copied, Kept
  <2> QED  BY <1>1, <2>1 DEF Stays, Copy, Server!Exists
<1>7. OwnCopies(s)'
  <2> SUFFICES ASSUME NEW n \in Names(s)', dir'[n] # None
               PROVE  IsHeadOf(content'[dir'[n]], seg[s].inode)
    BY DEF OwnCopies, Copy, Server!Exists
  <2>1. n \in Names(s) /\ n \in AgentName
    BY <1>1, NamesSame DEF Draining, Names
  <2>2. CASE n = t
    BY <1>1, <1>2, <1>3, <2>2
  <2>3. CASE n # t
    BY <1>1, <2>1, <2>3 DEF Copied, OwnCopies, Streaming, Stays, Copy, Server!Exists
  <2> QED  BY <2>2, <2>3
<1>8. GreetingTrue(s)' /\ MovedAway(s)' /\ Delivered(s)'
  BY <1>1 DEF GreetingTrue, MovedAway, Delivered, Draining
<1>9. \A u \in Seg \ {s} : OwnCopies(u)' /\ GreetingTrue(u)' /\ MovedAway(u)' /\ Delivered(u)'
  BY <1>1, OthersStay DEF Copied
<1> QED  BY <1>4, <1>5, <1>6, <1>7, <1>8, <1>9 DEF Copied

\* A frame is appended where the copy of the segment's inode ends.
LEMMA ApplyCopied ==
  ASSUME Typed, Named, Settled, Copied, NEW s \in Seg, Server!Apply(s), Reply(s, OkReply),
         UNCHANGED <<seg, acked, outages>>
  PROVE  Copied'
<1> DEFINE t == seg[s].target
           i == seg[s].inode
<1>1. /\ seg[s].io = "sending" /\ seg[s].phase \in Draining /\ wire[s].kind = "data"
      /\ wire'[s] = OkReply /\ \A u \in Seg \ {s} : wire'[u] = wire[u]
      /\ t \in Names(s) /\ t \in AgentName /\ Server!Exists(t)
      /\ \A n \in AgentName : n # t => Stays(n)
      /\ UNCHANGED <<dir, synced, fresh>>
      /\ wire[s].off \in Nat /\ wire[s].off < seg[s].pos /\ seg[s].pos \in 0..MaxSize
      /\ content[dir[t]] = FirstBytes(i, wire[s].off)
      /\ content'[dir[t]] = FirstBytes(i, seg[s].pos)
  BY ApplyEffect DEF Copied
<1>2. Shape(seg[s], wire[s]) /\ i \in Inode
  BY <1>1 DEF Typed, Shape, Draining
<1>3. /\ IsHeadOf(content'[dir[t]], i) /\ Len(content'[dir[t]]) = seg[s].pos
      /\ Len(content[dir[t]]) = wire[s].off
  <2>1. seg[s].pos \in Nat
    BY <1>1
  <2>2. /\ IsHeadOf(FirstBytes(i, seg[s].pos), i) /\ Len(FirstBytes(i, seg[s].pos)) = seg[s].pos
        /\ Len(FirstBytes(i, wire[s].off)) = wire[s].off
    BY <1>1, <1>2, <2>1, HeadFacts
  <2> QED  BY <1>1, <2>2
<1>4. CopiesOnly'
  <2> SUFFICES ASSUME NEW n \in AgentName, dir[n] # None
               PROVE  \E j \in Inode : IsHeadOf(content'[dir[n]], j)
    BY <1>1 DEF CopiesOnly, Copy, Server!Exists
  <2>1. CASE n = t
    BY <1>2, <1>3, <2>1
  <2>2. CASE n # t
    BY <1>1, <2>2 DEF Copied, CopiesOnly, Stays, Copy, Server!Exists
  <2> QED  BY <2>1, <2>2
<1>5. Finished'
  <2> SUFFICES ASSUME NEW j \in Inode, dir[FinalName(j)] # None
               PROVE  /\ FinalName(j) \notin fresh
                      /\ synced[dir[FinalName(j)]] = Len(content'[dir[FinalName(j)]])
    BY <1>1 DEF Finished, Server!Exists
  <2>1. FinalName(j) # t /\ FinalName(j) \in AgentName
    BY <1>1, <1>2, SendTarget, NamesType
  <2> QED  BY <1>1, <2>1 DEF Copied, Finished, Stays, Server!Exists
<1>6. Kept'
  <2> SUFFICES ASSUME outages = 0, NEW j \in Inode, acked[j] > 0
               PROVE  \E n \in AgentName : /\ dir[n] # None /\ IsHeadOf(content'[dir[n]], j)
                                           /\ Len(content'[dir[n]]) >= acked[j]
    BY <1>1 DEF Copied, Kept, Copy, Server!Exists
  <2>1. PICK n \in AgentName : /\ Server!Exists(n) /\ Copy(n, j) /\ Len(content[dir[n]]) >= acked[j]
    BY DEF Copied, Kept
  <2>2. CASE n # t
    BY <1>1, <2>1, <2>2 DEF Stays, Copy, Server!Exists
  <2>3. CASE n = t
    <3>1. wire[s].off \in Nat /\ acked[j] \in 1..MaxSize /\ wire[s].off >= acked[j]
      BY <1>1, <1>3, <2>1, <2>3, SourceAssumption DEF Typed, AgentOK
    <3>2. i = j
      <4>1. content[dir[t]] = FirstBytes(j, wire[s].off)
        BY <1>3, <2>1, <2>3 DEF Copy, IsHeadOf
      <4>2. 1 \in 1..wire[s].off
        BY <3>1
      <4>3. FirstBytes(i, wire[s].off)[1] = <<i, 1>> /\ FirstBytes(j, wire[s].off)[1] = <<j, 1>>
        BY <1>2, <3>1, <4>2, HeadFacts
      <4> QED  BY <1>1, <4>1, <4>3
    <3>3. seg[s].pos >= acked[j]
      BY <1>1, <3>1
    <3> QED  BY <1>1, <1>3, <3>2, <3>3 DEF Server!Exists
  <2> QED  BY <2>2, <2>3
<1>7. OwnCopies(s)'
  <2> SUFFICES ASSUME NEW n \in Names(s)', dir[n] # None
               PROVE  IsHeadOf(content'[dir[n]], seg[s].inode)
    BY <1>1 DEF OwnCopies, Copy, Server!Exists
  <2>1. n \in Names(s) /\ n \in AgentName
    BY <1>1, NamesSame DEF Draining, Names
  <2>2. CASE n = t
    BY <1>3, <2>2
  <2>3. CASE n # t
    BY <1>1, <2>1, <2>3 DEF Copied, OwnCopies, Streaming, Stays, Copy, Server!Exists
  <2> QED  BY <2>2, <2>3
<1>8. GreetingTrue(s)' /\ MovedAway(s)'
  BY <1>1, Built DEF GreetingTrue, MovedAway, Draining
<1>9. Delivered(s)'
  BY <1>1, <1>3 DEF Delivered, Server!Exists
<1>10. \A u \in Seg \ {s} : OwnCopies(u)' /\ GreetingTrue(u)' /\ MovedAway(u)' /\ Delivered(u)'
  BY <1>1, OthersStay DEF Copied
<1> QED  BY <1>4, <1>5, <1>6, <1>7, <1>8, <1>9, <1>10 DEF Copied

\* A rename moves a copy to a name of its own inode.
LEMMA RenameCopied ==
  ASSUME Typed, Named, Copied, NEW s \in Seg, wire[s].kind = "rename",
         Server!Rename(s, wire[s].from, wire[s].to), Reply(s, OkReply),
         UNCHANGED <<seg, acked, outages>>
  PROVE  Copied'
<1> DEFINE from == wire[s].from
           to   == wire[s].to
<1>1. /\ from \in Names(s) /\ to \in Names(s) /\ from \in AgentName /\ to \in AgentName
      /\ from # to /\ from = seg[s].target
      /\ Server!Exists(from) /\ dir'[from] = None
      /\ ~Server!Exists(to) /\ dir'[to] = dir[from]
      /\ content' = content /\ fresh' = {}
      /\ synced'[dir[from]] = Len(content[dir[from]])
      /\ \A n \in AgentName : n # from /\ n # to =>
           Stays(n) /\ dir'[n] = dir[n] /\ (Server!Exists(n) => synced'[dir[n]] = synced[dir[n]])
  BY RenameEffect
<1>2. /\ wire'[s] = OkReply /\ \A u \in Seg \ {s} : wire'[u] = wire[u]
      /\ Shape(seg[s], wire[s])
  BY DEF Reply, Typed, AgentOK
<1> HIDE DEF from, to
<1>3. CopiesOnly'
  <2> SUFFICES ASSUME NEW n \in AgentName, dir'[n] # None
               PROVE  \E i \in Inode : IsHeadOf(content[dir'[n]], i)
    BY <1>1 DEF CopiesOnly, Copy, Server!Exists
  <2>1. \A m \in AgentName : dir[m] # None => \E i \in Inode : IsHeadOf(content[dir[m]], i)
    BY DEF Copied, CopiesOnly, Copy, Server!Exists
  <2> QED  BY <1>1, <2>1 DEF Server!Exists
<1>4. Finished'
  <2> SUFFICES ASSUME NEW i \in Inode, dir'[FinalName(i)] # None
               PROVE  synced'[dir'[FinalName(i)]] = Len(content[dir'[FinalName(i)]])
    BY <1>1 DEF Finished, Server!Exists
  <2>1. FinalName(i) \in AgentName
    BY NamesType
  <2> QED  BY <1>1, <2>1 DEF Copied, Finished, Stays, Server!Exists
<1>5. Kept'
  <2> SUFFICES ASSUME outages = 0, NEW i \in Inode, acked[i] > 0
               PROVE  \E n \in AgentName : /\ dir'[n] # None /\ IsHeadOf(content[dir'[n]], i)
                                           /\ Len(content[dir'[n]]) >= acked[i]
    BY <1>1 DEF Copied, Kept, Copy, Server!Exists
  <2>1. PICK n \in AgentName : /\ dir[n] # None /\ IsHeadOf(content[dir[n]], i)
                               /\ Len(content[dir[n]]) >= acked[i]
    BY DEF Copied, Kept, Copy, Server!Exists
  <2>2. n # to
    BY <1>1, <2>1 DEF Server!Exists
  <2> QED  BY <1>1, <2>1, <2>2
<1>6. OwnCopies(s)'
  <2> SUFFICES ASSUME seg[s].phase \in Streaming, NEW n \in Names(s)', dir'[n] # None
               PROVE  IsHeadOf(content[dir'[n]], seg[s].inode)
    BY <1>1 DEF OwnCopies, Copy, Server!Exists
  <2>1. n \in Names(s) /\ n \in AgentName
    BY NamesSame DEF Streaming, Draining, Names
  <2>2. \A m \in Names(s) : dir[m] # None => IsHeadOf(content[dir[m]], seg[s].inode)
    BY DEF Copied, OwnCopies, Copy, Server!Exists
  <2> QED  BY <1>1, <2>1, <2>2 DEF Server!Exists
<1>7. GreetingTrue(s)' /\ Delivered(s)'
  <2>1. seg[s].io # "sending"
    BY <1>2 DEF Shape, Kinds, Draining
  <2> QED  BY <1>2, <2>1, Built DEF GreetingTrue, Delivered
<1>8. MovedAway(s)'
  <2>1. seg[s].phase # "regreet"
    BY <1>2 DEF Shape, Kinds
  <2>2. seg[s].phase = "aside" => from = LiveName
    BY <1>1, <1>2 DEF Shape, Target, Sealed, Closing
  <2> QED  BY <1>1, <2>1, <2>2 DEF MovedAway, Server!Exists
<1>9. \A u \in Seg \ {s} : OwnCopies(u)' /\ GreetingTrue(u)' /\ MovedAway(u)' /\ Delivered(u)'
  <2>1. \A n \in AgentName \ Names(s) : Stays(n)
    BY <1>1
  <2> QED  BY <1>2, <2>1, OthersStay DEF Copied
<1> QED  BY <1>3, <1>4, <1>5, <1>6, <1>7, <1>8, <1>9 DEF Copied

\* The steps of a handler.
LEMMA ServeCopied ==
  ASSUME Typed, Named, Settled, Copied, NEW s \in Seg, Serve(s)
  PROVE  Copied'
<1>1. UNCHANGED <<seg, acked, outages>> /\ Session(wire[s], handler[s])
  BY DEF Serve, failureVars, Typed
<1>2. CASE TakeData(s)
  <2>1. CASE Server!BeginOpen(s, wire[s].off, wire[s].data) /\ UNCHANGED wire
    <3>1. wire' = [wire EXCEPT ![s] = wire[s]] /\ UNCHANGED <<dir, content, synced, fresh>>
      BY <2>1 DEF Server!BeginOpen, Server!files, Typed, AgentOK
    <3>2. GreetingTrue(s)'
      BY <1>2, <2>1 DEF TakeData, GreetingTrue
    <3> QED  BY <1>1, <3>1, <3>2, QuietServeCopied
  <2>2. CASE Server!BeginCreate(s, wire[s].off, wire[s].data) /\ UNCHANGED wire
    BY <1>1, <1>2, <2>2, CreateCopied DEF TakeData
  <2>3. CASE Server!BeginReject(s, wire[s].off) /\ Reply(s, Broken)
    BY <1>1, <2>3, CutCopied DEF Server!BeginReject, Server!Raise, Server!files
  <2> QED  BY <1>2, <2>1, <2>2, <2>3 DEF TakeData
<1>3. CASE FinishData(s)
  <2>1. CASE Server!ApplyReject(s) /\ Reply(s, Broken)
    BY <1>1, <2>1, CutCopied DEF Server!ApplyReject, Server!Raise, Server!files
  <2> QED  BY <1>1, <1>3, <2>1, ApplyCopied DEF FinishData
<1>4. CASE TakeRename(s)
  <2>1. wire[s].kind = "rename" /\ handler[s].st # "closed"
    BY <1>4, ClosedType DEF TakeRename, Server!Rename, Server!RenameNoop, Server!RenameReject
  <2>2. CASE Server!RenameNoop(s, wire[s].from, wire[s].to)
    BY <2>1, <2>2, RenameRequest DEF Server!RenameNoop
  <2>3. CASE Server!RenameReject(s, wire[s].from, wire[s].to) /\ Reply(s, Broken)
    BY <1>1, <2>3, CutCopied DEF Server!RenameReject, Server!Raise, Server!files
  <2> QED  BY <1>1, <1>4, <2>1, <2>2, <2>3, RenameCopied DEF TakeRename
<1> QED  BY <1>2, <1>3, <1>4, AcceptCopied DEF Serve

-----------------------------------------------------------------------------
(* Failures, and the source *)

\* What a power loss leaves of a copy is one.
LEMMA OutageCopied ==
  ASSUME Typed, Named, Copied, Outage
  PROVE  Copied'
<1>1. /\ Server!PowerLoss /\ UNCHANGED <<seg, acked>> /\ outages' = outages + 1
      /\ \A s \in Seg : wire'[s].kind \in {"none", "broken"}
  BY Built DEF Outage
<1>2. ASSUME NEW n \in AgentName, dir'[n] # None, NEW i \in Inode, Copy(n, i)
      PROVE  IsHeadOf(content'[dir'[n]], i) /\ synced'[dir'[n]] = Len(content'[dir'[n]])
  <2>1. Server!Exists(n)
    BY <1>1, <1>2, LossEffect DEF Server!Exists
  <2>2. PICK k \in synced[dir[n]]..Len(content[dir[n]]) :
          /\ content'[dir'[n]] = SubSeq(content[dir[n]], 1, k)
          /\ synced'[dir'[n]] = k
    BY <1>1, <1>2, LossEffect DEF Server!Exists
  <2>3. k \in 0..Len(content[dir[n]]) /\ k \in Nat
    BY <2>1, <2>2, FileFacts
  <2>4. content'[dir'[n]] = FirstBytes(i, k)
    BY <1>2, <2>1, <2>2, <2>3, CopyFacts
  <2>5. IsHeadOf(FirstBytes(i, k), i) /\ Len(FirstBytes(i, k)) = k
    BY <1>2, <2>3, HeadFacts
  <2> QED  BY <2>2, <2>4, <2>5
<1>3. ASSUME NEW n \in AgentName, dir'[n] # None
      PROVE  dir[n] # None /\ \E i \in Inode : Copy(n, i)
  <2>1. Server!Exists(n)
    BY <1>1, <1>3, LossEffect DEF Server!Exists
  <2> QED  BY <2>1 DEF Copied, CopiesOnly, Server!Exists
<1>4. CopiesOnly'
  BY <1>2, <1>3 DEF CopiesOnly, Copy, Server!Exists
<1>5. Finished'
  <2>1. fresh' = {}
    BY <1>1 DEF Server!PowerLoss
  <2>2. \A i \in Inode : FinalName(i) \in AgentName
    BY NamesType
  <2> QED  BY <1>2, <1>3, <2>1, <2>2 DEF Finished, Server!Exists
<1>6. Kept'
  BY <1>1 DEF Copied, Kept
<1>7. ASSUME NEW s \in Seg
      PROVE  OwnCopies(s)' /\ GreetingTrue(s)' /\ MovedAway(s)' /\ Delivered(s)'
  <2>1. GreetingTrue(s)' /\ Delivered(s)'
    BY <1>1 DEF GreetingTrue, Delivered
  <2>2. MovedAway(s)'
    BY <1>1, <1>3, NamesType DEF Copied, MovedAway, Server!Exists
  <2>3. OwnCopies(s)'
    <3> SUFFICES ASSUME seg[s].phase \in Streaming, NEW n \in Names(s)', dir'[n] # None
                 PROVE  IsHeadOf(content'[dir'[n]], seg[s].inode)
      BY <1>1 DEF OwnCopies, Copy, Server!Exists
    <3>1. n \in Names(s) /\ n \in AgentName
      BY <1>1, NamesSame DEF Streaming, Draining, Names
    <3>2. seg[s].inode \in Inode
      BY DEF Typed, Shape, Streaming, Draining
    <3> QED  BY <1>2, <1>3, <3>1, <3>2 DEF Copied, OwnCopies, Server!Exists
  <2> QED  BY <2>1, <2>2, <2>3
<1> QED  BY <1>4, <1>5, <1>6, <1>7 DEF Copied

\* A lost connection leaves the files alone.
LEMMA DropCopied ==
  ASSUME Typed, Copied, Drop
  PROVE  Copied'
BY CutCopied DEF Drop

\* So does the source, which only ever adds to an inode.
LEMMA SourceCopied ==
  ASSUME Copied, SourceStep
  PROVE  Copied'
BY DEF SourceStep, agentVars, serverVars, failureVars, Copied, CopiesOnly, Finished, Kept, OwnCopies,
       GreetingTrue, MovedAway, Delivered, Names, Copy, Server!Exists, Server!ReportedLength,
       Server!ReportedPrefix

-----------------------------------------------------------------------------
(* The steps of the agent *)

\* A segment that resumes a live file has recognised it as its own inode's.
LEMMA GreetedCopies ==
  ASSUME Typed, Named, Copied, Recognised, NEW s \in Seg, Greeted(s),
         NEW n \in Names(s), Server!Exists(n)
  PROVE  Copy(n, seg[s].inode)
<1> DEFINE i == seg[s].inode
<1>1. /\ Shape(seg[s], wire[s]) /\ seg[s].phase \in {"greet", "regreet"}
      /\ wire[s].kind = "greeting" /\ i \in Inode /\ seg[s].pos \in 0..MaxSize
      /\ seg[s].phase = "greet" => ~Stale(s)
  BY SegmentFields DEF Greeted, Typed, Shape
<1>2. n = LiveName /\ n \in AgentName
  <2>1. seg[s].pending # None => Unsealed(seg[s], wire[s])
    BY <1>1 DEF Unsealed, Sealed, Closing
  <2>2. seg[s].pending # None /\ seg[s].pending.iso \in Inode => Unfinal(seg[s], wire[s])
    BY <1>1 DEF Unfinal
  <2> QED  BY <1>1, <2>1, <2>2 DEF Names, Named, NamesAwaited
<1>3. CASE seg[s].phase = "regreet"
  BY <1>2, <1>3 DEF Copied, MovedAway
<1>4. CASE seg[s].phase = "greet"
  <2> DEFINE c == content[dir[n]]
  <2>1. PICK j \in Inode : Copy(n, j)
    BY <1>2 DEF Copied, CopiesOnly
  <2>2. /\ c = FirstBytes(j, Len(c)) /\ Len(c) \in Nat
        /\ \A m \in 0..Len(c) : SubSeq(c, 1, m) = FirstBytes(j, m)
    BY <1>2, <2>1, CopyFacts, FileFacts
  <2>3. seg[s].target = n
    BY <1>1, <1>2, <1>4 DEF Shape, Target, Sealed, Closing
  <2>4. /\ wire[s].length = Len(c)
        /\ wire[s].prefix = SubSeq(c, 1, IF seg[s].pos < Len(c) THEN seg[s].pos ELSE Len(c))
    BY <1>1, <2>3 DEF Copied, GreetingTrue, Server!ReportedLength, Server!ReportedPrefix
  <2>5. seg[s].pos > 0
    BY <1>2, <1>4 DEF Recognised
  <2> HIDE DEF c
  <2>6. CASE Len(c) = 0
    <3>1. FirstBytes(j, 0) = FirstBytes(i, 0)
      BY DEF FirstBytes, Bytes
    <3> QED  BY <2>2, <2>6, <3>1 DEF Copy, IsHeadOf, c
  <2>7. CASE Len(c) > 0
    <3> DEFINE m == IF seg[s].pos < Len(c) THEN seg[s].pos ELSE Len(c)
    <3>1. m \in 0..Len(c) /\ 1 \in 1..m /\ m \in Nat
      BY <1>1, <2>2, <2>5, <2>7, SourceAssumption
    <3>2. wire[s].prefix = FirstBytes(j, m)
      BY <2>2, <2>4, <3>1
    <3> HIDE DEF m
    <3>3. Len(FirstBytes(j, m)) = m /\ FirstBytes(j, m)[1] = <<j, 1>>
      BY <3>1, HeadFacts
    <3>4. wire[s].prefix # <<>>
      BY <3>1, <3>2, <3>3
    <3>5. wire[s].prefix = FirstBytes(i, seg[s].pos)
      BY <1>1, <1>4, <2>4, <2>7, <3>4 DEF Stale
    <3>6. seg[s].pos \in Nat /\ 1 \in 1..seg[s].pos
      BY <1>1, <2>5, SourceAssumption
    <3>7. FirstBytes(i, seg[s].pos)[1] = <<i, 1>>
      BY <1>1, <3>6, HeadFacts
    <3>8. i = j
      BY <3>2, <3>3, <3>5, <3>7
    <3> QED  BY <2>1, <3>8
  <2> QED  BY <2>2, <2>6, <2>7
<1> QED  BY <1>1, <1>3, <1>4

\* What the agent counts as acknowledged, the server has said.
LEMMA AckedEffect ==
  ASSUME NEW s \in Seg, SegmentStep(s)
  PROVE  Sent(s) \/ UNCHANGED acked
BY DEF SegmentStep, Dial, Greeted, FoundStale, MovedStale, ConnectFailed, SealRequested, Read,
       Drained, SendFailed, Resumed, Retry, Looked, Renamed, RenameFailed, Assumed

\* What is counted as acknowledged is there.
LEMMA SentKept ==
  ASSUME Typed, Copied, NEW s \in Seg, Sent(s), UNCHANGED <<dir, content, outages>>
  PROVE  Kept'
<1> DEFINE i == seg[s].inode
           t == seg[s].target
<1>1. /\ seg[s].io = "sending" /\ wire[s].kind = "ok" /\ Shape(seg[s], wire[s])
      /\ acked' = [acked EXCEPT ![i] = IF @ > seg[s].pos THEN @ ELSE seg[s].pos]
  BY Built DEF Sent, Typed
<1>2. seg[s].phase \in Draining /\ i \in Inode
  BY <1>1 DEF Shape, Kinds, Draining, Sealed, Closing
<1>3. t \in Names(s) /\ t \in AgentName
  BY <1>1, <1>2, TargetHeld DEF Draining
<1>4. Server!Exists(t) /\ Copy(t, i) /\ Len(content[dir[t]]) >= seg[s].pos
  BY <1>1, <1>2, <1>3 DEF Copied, Delivered, OwnCopies, Streaming
<1>5. /\ \A j \in Inode : acked'[j] \in {acked[j], IF j = i THEN seg[s].pos ELSE acked[j]}
  BY <1>1 DEF Typed, AgentOK
<1> HIDE DEF i, t
<1>6. ASSUME outages = 0, NEW j \in Inode, acked'[j] > 0
      PROVE  \E n \in AgentName : Server!Exists(n) /\ Copy(n, j) /\ Len(content[dir[n]]) >= acked'[j]
  <2>1. CASE acked'[j] = acked[j]
    BY <1>6, <2>1 DEF Copied, Kept
  <2>2. CASE acked'[j] # acked[j]
    <3>1. j = i /\ acked'[j] = seg[s].pos
      BY <1>5, <2>2
    <3> QED  BY <1>3, <1>4, <3>1
  <2> QED  BY <2>1, <2>2
<1> QED  BY <1>6 DEF Copied, Kept, Copy, Server!Exists

\* The steps of a segment.
LEMMA SegmentCopied ==
  ASSUME Typed, Named, Copied, Recognised, ~ephemeral, NEW s \in Seg, SegmentStep(s), Handlers,
         UNCHANGED outages
  PROVE  Copied'
<1>1. PICK r, w : Put(s, r, w) /\ Becomes(s, r, w)
  BY SegmentEffect
<1>2. /\ seg'[s] = r /\ wire'[s] = w
      /\ \A t \in Seg \ {s} : seg'[t] = seg[t] /\ wire'[t] = wire[t] /\ Names(t)' = Names(t)
      /\ Names(s)' \subseteq Names(s) \/ r.phase = "aside"
      /\ UNCHANGED <<dir, content, synced, fresh>>
  <2>1. FoundStale(s) => seg'[s].phase = "aside"
    BY DEF FoundStale, Put, Typed, AgentOK, Segment
  <2> QED  BY <1>1, <2>1, SegmentNames DEF Put, Typed, AgentOK, Handlers
<1>3. CopiesOnly' /\ Finished'
  BY <1>2 DEF Copied, CopiesOnly, Finished, Copy, Server!Exists
<1>4. Kept'
  <2>1. CASE Sent(s)
    BY <1>2, <2>1, SentKept
  <2>2. CASE UNCHANGED acked
    BY <1>2, <2>2 DEF Copied, Kept, Copy, Server!Exists
  <2> QED  BY <2>1, <2>2, AckedEffect
<1>5. ASSUME NEW t \in Seg, t # s
      PROVE  OwnCopies(t)' /\ GreetingTrue(t)' /\ MovedAway(t)' /\ Delivered(t)'
  BY <1>2, <1>5 DEF Copied, OwnCopies, GreetingTrue, MovedAway, Delivered, Copy, Server!Exists,
                    Server!ReportedLength, Server!ReportedPrefix
<1>6. GreetingTrue(s)' /\ Delivered(s)'
  BY <1>1, <1>2 DEF Becomes, GreetingTrue, Delivered
<1>7. MovedAway(s)'
  <2>1. r.phase = "regreet" => ~Server!Exists(LiveName)
    BY <1>1, Built DEF Becomes, MovedStale, Copied, MovedAway
  <2> QED  BY <1>1, <1>2, <2>1 DEF Becomes, MovedAway, Server!Exists
<1>8. OwnCopies(s)'
  <2> SUFFICES ASSUME r.phase \in Streaming, NEW n \in Names(s)', Server!Exists(n)
               PROVE  Copy(n, r.inode)
    BY <1>2 DEF OwnCopies, Copy, Server!Exists
  <2>1. n \in Names(s) /\ r.inode = seg[s].inode
    BY <1>1, <1>2 DEF Becomes, Streaming, Draining
  <2>2. CASE seg[s].phase \in Streaming
    BY <2>1, <2>2 DEF Copied, OwnCopies
  <2>3. CASE Greeted(s)
    BY <2>1, <2>3, GreetedCopies
  <2> QED  BY <1>1, <2>2, <2>3 DEF Becomes
<1> QED  BY <1>3, <1>4, <1>5, <1>6, <1>7, <1>8 DEF Copied

\* What the coordinator does to a segment: nothing, or it has ended, or just
\* begun, or is asked to seal.
Handled(t) ==
  \/ seg'[t] = seg[t] /\ wire'[t] = wire[t]
  \/ seg'[t].phase \in {"off", "born"}
  \/ /\ wire'[t] = wire[t]
     /\ seg[t].pending = None
     /\ \E p : seg'[t] = [seg[t] EXCEPT !.pending = p]

\* It begins a segment in a free slot ...
LEMMA StartHandles ==
  ASSUME Typed, NEW i, Start(i, coord.consumed), UNCHANGED wire, NEW t \in Seg
  PROVE  Handled(t)
<1> DEFINE free == {f \in Seg : Reaped[f].phase = "off"}
           r    == [Off EXCEPT !.phase = "born", !.inode = i]
<1>1. PICK s \in Seg : s = (CHOOSE f \in free : TRUE)
  BY DEF Start
<1>2. seg' = [Reaped EXCEPT ![s] = r]
  BY <1>1 DEF Start
<1>3. r.phase = "born"
  BY OffFields DEF Segment
<1> HIDE DEF r
<1>4. seg'[t] = r \/ seg'[t] = Reaped[t]
  BY <1>2, ReapedType
<1>5. Reaped[t] = seg[t] \/ Reaped[t].phase = "off"
  BY ReapedType, OffFields
<1> QED  BY <1>3, <1>4, <1>5 DEF Handled

\* ... asks the live one to seal ...
LEMMA SealHandles ==
  ASSUME Typed, coord.pc \in {"learn", "grace"}, NEW n, NEW iso, RequestSeal(n, iso),
         UNCHANGED wire, NEW t \in Seg
  PROVE  Handled(t)
<1>1. PICK s \in Seg : s = coord.live
  BY DEF Typed, CoordOK
<1> DEFINE p == IF seg[s].phase = "done" THEN None ELSE [name |-> n, iso |-> iso]
<1>2. seg' = [seg EXCEPT ![s] = [seg[s] EXCEPT !.pending = p]]
  BY <1>1 DEF RequestSeal
<1>3. seg[s].pending = None
  BY <1>1, AgentAssumption DEF Typed, CoordOK
<1> HIDE DEF p
<1>4. CASE t = s
  BY <1>2, <1>3, <1>4 DEF Handled, Typed, AgentOK
<1>5. CASE t # s
  BY <1>2, <1>5 DEF Handled, Typed, AgentOK
<1> QED  BY <1>4, <1>5

\* ... and that is all; it acknowledges nothing.
LEMMA CoordHandles ==
  ASSUME Typed, CoordStep \/ Scan \/ Killed, NEW t \in Seg
  PROVE  Handled(t) /\ UNCHANGED acked
<1>1. UNCHANGED acked
  BY DEF CoordStep, Poll, OpenKnown, OpenFirst, OpenRotated, OpenFailed, LearnIso, NoMarkerYet,
         GraceExpired, SealWaited, Scan, Killed
<1>2. CASE Poll \/ OpenKnown \/ OpenRotated \/ NoMarkerYet \/ Scan
  <2>1. seg' \in {seg, Reaped} /\ UNCHANGED wire
    BY <1>2 DEF Poll, OpenKnown, OpenRotated, NoMarkerYet, Scan
  <2>2. wire'[t] = wire[t]
    BY <2>1
  <2>3. seg'[t] = seg[t] \/ seg'[t].phase = "off"
    BY <2>1, ReapedType, OffFields
  <2> QED  BY <1>1, <2>2, <2>3 DEF Handled
<1>3. CASE OpenFirst \/ SealWaited
  BY <1>1, <1>3, StartHandles DEF OpenFirst, SealWaited
<1>4. CASE LearnIso \/ GraceExpired
  BY <1>1, <1>4, SealHandles DEF LearnIso, GraceExpired
<1>5. CASE OpenFailed \/ Killed
  BY <1>1, <1>5, OffFields DEF OpenFailed, Killed, StartOver, Handled
<1> QED  BY <1>1, <1>2, <1>3, <1>4, <1>5 DEF CoordStep

\* A segment that is off, or just begun, has no connection.
LEMMA QuietKinds ==
  ASSUME NEW r, r.phase \in {"off", "born"}
  PROVE  Kinds(r) = {"none"}
<1>1. r.phase \in {"off", "done", "born"}
  OBVIOUS
<1> QED  BY <1>1 DEF Kinds, Draining, Sealed, Closing

\* The steps of the coordinator and the marker watcher, and a crash.
LEMMA CoordCopied ==
  ASSUME Typed, Typed', Named, Named', Copied, CoordStep \/ Scan \/ Killed, Handlers,
         UNCHANGED outages
  PROVE  Copied'
<1>1. UNCHANGED <<dir, content, synced, fresh>>
  BY DEF Handlers
<1>2. CopiesOnly' /\ Finished'
  BY <1>1 DEF Copied, CopiesOnly, Finished, Copy, Server!Exists
<1>3. Kept'
  <2>1. UNCHANGED acked
    BY DEF CoordStep, Poll, OpenKnown, OpenFirst, OpenRotated, OpenFailed, LearnIso, NoMarkerYet,
           GraceExpired, SealWaited, Scan, Killed
  <2> QED  BY <1>1, <2>1 DEF Copied, Kept, Copy, Server!Exists
<1>4. ASSUME NEW t \in Seg
      PROVE  OwnCopies(t)' /\ GreetingTrue(t)' /\ MovedAway(t)' /\ Delivered(t)'
  <2>1. OwnCopies(t) /\ GreetingTrue(t) /\ MovedAway(t) /\ Delivered(t)
    BY DEF Copied
  <2>2. /\ Shape(seg[t], wire[t]) /\ seg[t] \in Segment
        /\ Shape(seg'[t], wire'[t])
    BY DEF Typed, Shape
  <2>3. CASE seg'[t] = seg[t] /\ wire'[t] = wire[t]
    <3>1. seg[t].phase \in Streaming => Names(t)' = Names(t)
      BY <2>3, NamesSame DEF Streaming, Draining
    <3>2. OwnCopies(t)'
      BY <1>1, <2>1, <2>3, <3>1 DEF OwnCopies, Copy, Server!Exists
    <3>3. GreetingTrue(t)'
      BY <1>1, <2>1, <2>3 DEF GreetingTrue, Server!Exists, Server!ReportedLength,
                              Server!ReportedPrefix
    <3>4. MovedAway(t)' /\ Delivered(t)'
      BY <1>1, <2>1, <2>3 DEF MovedAway, Delivered, Server!Exists
    <3> QED  BY <3>2, <3>3, <3>4
  <2>4. CASE seg'[t].phase \in {"off", "born"}
    <3>1. wire'[t].kind = "none"
      <4>1. Kinds(seg'[t]) = {"none"}
        BY <2>4, QuietKinds
      <4>2. wire'[t].kind \in Kinds(seg'[t])
        BY <2>2, Zenon DEF Shape
      <4> QED  BY <4>1, <4>2
    <3> QED  BY <2>4, <3>1 DEF OwnCopies, GreetingTrue, MovedAway, Delivered, Streaming, Draining
  <2>5. ASSUME wire'[t] = wire[t], seg[t].pending = None,
               NEW p, seg'[t] = [seg[t] EXCEPT !.pending = p]
        PROVE  OwnCopies(t)' /\ GreetingTrue(t)' /\ MovedAway(t)' /\ Delivered(t)'
    <3>1. /\ seg'[t].phase = seg[t].phase /\ seg'[t].io = seg[t].io /\ seg'[t].pos = seg[t].pos
          /\ seg'[t].inode = seg[t].inode /\ seg'[t].target = seg[t].target
          /\ seg'[t].pending = p
      BY <2>2, <2>5 DEF Segment
    <3>2. GreetingTrue(t)' /\ MovedAway(t)' /\ Delivered(t)'
      BY <1>1, <2>1, <2>5, <3>1 DEF GreetingTrue, MovedAway, Delivered, Server!Exists,
                                    Server!ReportedLength, Server!ReportedPrefix
    <3>3. OwnCopies(t)'
      <4> SUFFICES ASSUME seg[t].phase \in Streaming, NEW n \in Names(t)', Server!Exists(n)
                   PROVE  Copy(n, seg[t].inode)
        BY <1>1, <3>1 DEF OwnCopies, Copy, Server!Exists
      <4>1. seg[t].phase = "live"
        BY <2>2, <2>5 DEF Shape, Streaming, Draining, Sealed, Closing
      <4>2. p # None => ~Server!Exists(p.name)
        <5>1. p # None => Unsealed(seg'[t], wire'[t])
          BY <3>1, <4>1 DEF Unsealed, Sealed, Closing
        <5> QED  BY <1>1, <3>1, <5>1 DEF Named, NamesAwaited, Server!Exists
      <4>3. p # None /\ p.iso \in Inode => ~Server!Exists(FinalName(p.iso))
        <5>1. p # None /\ p.iso \in Inode => Unfinal(seg'[t], wire'[t])
          BY <3>1, <4>1 DEF Unfinal
        <5> QED  BY <1>1, <3>1, <5>1 DEF Named, NamesAwaited, Server!Exists
      <4>4. n = LiveName /\ n \in AgentName
        BY <3>1, <4>1, <4>2, <4>3 DEF Names
      <4>5. n \in Names(t)
        BY <4>1, <4>4 DEF Names, Sealed, Closing
      <4> QED  BY <2>1, <4>5 DEF OwnCopies
    <3> QED  BY <3>2, <3>3
  <2> QED  BY <2>3, <2>4, <2>5, CoordHandles DEF Handled
<1> QED  BY <1>2, <1>3, <1>4 DEF Copied

-----------------------------------------------------------------------------
(* All steps *)

\* Every step, as long as names are used once.
LEMMA NextCopied ==
  ASSUME Typed, Typed', Named, Named', Settled, Copied, Recognised, [Next]_vars, Orderly
  PROVE  Copied'
<1>1. CASE UNCHANGED vars
  <2>1. UNCHANGED <<seg, wire, acked, dir, content, synced, fresh, handler, outages>>
    BY <1>1 DEF vars, agentVars, serverVars, failureVars
  <2> QED  BY <2>1 DEF Copied, CopiesOnly, Finished, Kept, OwnCopies, GreetingTrue, MovedAway, Delivered,
                       Names, Copy, Server!Exists, Server!ReportedLength, Server!ReportedPrefix
<1>2. CASE (\E s \in Seg : Run(s)) \/ Coordinate \/ Agent(Scan) \/ Agent(Killed)
  <2>1. Handlers /\ UNCHANGED outages
    BY <1>2 DEF Run, Coordinate, Agent, Handlers, failureVars
  <2>2. ASSUME NEW s \in Seg, Run(s) PROVE Copied'
    BY <2>1, <2>2, SegmentCopied DEF Run, Agent, Orderly
  <2>3. CASE Coordinate \/ Agent(Scan) \/ Agent(Killed)
    BY <2>1, <2>3, CoordCopied DEF Coordinate, Agent
  <2> QED  BY <1>2, <2>2, <2>3
<1> QED  BY <1>1, <1>2, SourceCopied, ServeCopied, DropCopied, OutageCopied DEF Next

\* Nothing is on the server.
LEMMA InitCopied == Init => Copied
<1> SUFFICES ASSUME Init PROVE Copied
  OBVIOUS
<1>1. /\ \A s \in Seg : seg[s] = Off /\ wire[s] = Unconnected
      /\ \A n \in AgentName : ~Server!Exists(n)
      /\ \A i \in Inode : ~(acked[i] > 0)
      /\ outages = 0
  BY DEF Init, AgentInit, Server!Init, Server!Exists
<1> QED  BY <1>1, OffFields, Built, NamesType
         DEF Copied, CopiesOnly, Finished, Kept, OwnCopies, GreetingTrue, MovedAway, Delivered,
             Streaming, Draining

Shipped == Served /\ (Orderly => Copied)

\* Segments ship to copies of their own inode, greetings stay true until they are
\* read, and finalized copies are durable.
THEOREM CopiesHold == Spec /\ []Recognised => []Shipped
<1>1. Init => Shipped
  BY InitCopied, InitServed DEF Shipped
<1>2. Shipped /\ Recognised /\ [Next]_vars /\ Served' => Shipped'
  <2> SUFFICES ASSUME Shipped, Recognised, [Next]_vars, Served', Orderly' PROVE Copied'
    BY DEF Shipped
  <2>1. Orderly
    BY OrderlyBefore DEF Shipped, Served, Ordered
  <2> QED  BY <2>1, NextCopied DEF Shipped, Served, Ordered
<1> QED  BY <1>1, <1>2, SettledHolds, PTL DEF Spec

\* Nothing is appended to another inode's file, and no byte is skipped, sent twice
\* or out of place (apply_data, _connect's prefix check, _reconnect).
THEOREM NothingMixed == Spec /\ []Recognised => [](Orderly => NoMixing)
<1>1. Shipped => (Orderly => NoMixing)
  BY DEF Shipped, Copied, CopiesOnly, NoMixing, Held, Copy
<1> QED  BY <1>1, CopiesHold, PTL

\* Without power losses, what the server has acknowledged stays there, whatever
\* connections break and however often the agent is killed.
THEOREM AckedStays == Spec /\ []Recognised => [](Orderly => AckedKept)
<1>1. Shipped => (Orderly => AckedKept)
  BY DEF Shipped, Copied, Kept, AckedKept, Held, Copy
<1> QED  BY <1>1, CopiesHold, PTL

-----------------------------------------------------------------------------
(* Logs that are never empty when the agent first meets them *)

\* The log that is being opened, and those whose segments have not read their
\* prefix yet, hold something.
Filled ==
  /\ cur # NoInode => size[cur] > 0
  /\ coord.pc \in {"learn", "grace", "wait"} => size[coord.opened] > 0
  /\ \A s \in Seg : /\ seg[s].phase = "born" => size[seg[s].inode] > 0
                    /\ seg[s].phase = "greet" => seg[s].pos > 0

\* A log that holds something goes on holding something.
LEMMA LogsGrow ==
  ASSUME Typed, 0 \notin Birth, SourceNext, cur # NoInode => size[cur] > 0
  PROVE  /\ \A i \in Inode : size[i] > 0 => size'[i] > 0
         /\ cur' # NoInode => size'[cur'] > 0
<1>1. /\ size \in [Inode -> 0..MaxSize] /\ cur \in Inode \cup {NoInode}
      /\ made \in 0..MaxInode /\ MaxSize \in Nat /\ MaxInode \in Nat /\ Birth \subseteq 0..MaxSize
  BY SourceAssumption DEF Typed, SourceOK
<1>2. ASSUME NEW i \in Inode, Grow(i) PROVE size' = [size EXCEPT ![i] = size[i] + 1] /\ cur' = cur
  BY <1>2 DEF Grow
<1>3. CASE \E i \in Inode : Grow(i)
  BY <1>1, <1>2, <1>3
<1>4. CASE CreateNew
  <2>1. PICK b \in Birth : size' = [size EXCEPT ![made'] = b]
    BY <1>4 DEF CreateNew
  <2>2. b > 0 /\ made' \in Inode /\ cur' = made'
    BY <1>1, <1>4, <2>1 DEF CreateNew, Inode
  <2> QED  BY <1>1, <2>1, <2>2
<1>5. CASE MoveAside \/ \E i \in Inode : WaitingMarker(i) \/ DoneMarker(i)
  BY <1>5 DEF MoveAside, WaitingMarker, DoneMarker
<1> QED  BY <1>3, <1>4, <1>5 DEF SourceNext

\* A segment reads its prefix from a log that holds something.
LEMMA SegmentFilled ==
  ASSUME Typed, Filled, NEW s \in Seg, SegmentStep(s), UNCHANGED sourceVars
  PROVE  Filled'
<1>1. PICK r, w : Put(s, r, w) /\ Becomes(s, r, w)
  BY SegmentEffect
<1>2. UNCHANGED <<coord, cur, size>>
  BY SegmentRest DEF sourceVars
<1>3. seg' = [seg EXCEPT ![s] = r] /\ seg \in [Seg -> Segment]
  BY <1>1 DEF Put, Typed, AgentOK
<1>4. r.phase # "born"
  BY <1>1 DEF Becomes
<1>5. r.phase = "greet" => r.pos > 0
  <2> SUFFICES ASSUME r.phase = "greet" PROVE r.pos > 0
    OBVIOUS
  <2>1. Dial(s)
    BY <1>1 DEF Becomes
  <2>2. seg[s].phase = "born" /\ seg[s] \in Segment /\ seg[s].inode \in Inode
    BY <1>3, <2>1 DEF Dial, Typed, Shape
  <2>3. size[seg[s].inode] > 0 /\ size[seg[s].inode] \in Nat
    BY <2>2, SourceAssumption DEF Filled, Typed, SourceOK
  <2> DEFINE n == PrefixEnd(seg[s].inode)
  <2>4. n > 0
    BY <2>3, AgentAssumption DEF PrefixEnd, Least
  <2>5. seg' = [seg EXCEPT ![s] = [seg[s] EXCEPT !.phase = "greet", !.pos = n]]
    BY <2>1 DEF Dial, Put
  <2> HIDE DEF n
  <2>6. seg'[s] = [seg[s] EXCEPT !.phase = "greet", !.pos = n]
    BY <1>3, <2>5
  <2>7. seg'[s].pos = n
    BY <2>2, <2>6 DEF Segment
  <2> QED  BY <1>3, <2>4, <2>7
<1>6. ASSUME NEW t \in Seg
      PROVE  /\ seg'[t].phase = "born" => size[seg'[t].inode] > 0
             /\ seg'[t].phase = "greet" => seg'[t].pos > 0
  <2>1. seg'[t] = IF t = s THEN r ELSE seg[t]
    BY <1>3
  <2> QED  BY <1>4, <1>5, <2>1 DEF Filled
<1> QED  BY <1>2, <1>6 DEF Filled

\* A new segment is given the log just opened.
LEMMA StartFilled ==
  ASSUME Typed, Filled, NEW i \in Inode, size[i] > 0, Start(i, coord.consumed),
         UNCHANGED <<cur, size>>
  PROVE  Filled'
<1> DEFINE free == {f \in Seg : Reaped[f].phase = "off"}
           r    == [Off EXCEPT !.phase = "born", !.inode = i]
<1>1. PICK s \in Seg : s = (CHOOSE f \in free : TRUE)
  BY DEF Start
<1>2. seg' = [Reaped EXCEPT ![s] = r] /\ coord'.pc = "loop"
  BY <1>1 DEF Start, Typed, CoordOK, Coordinator
<1>3. r.phase = "born" /\ r.inode = i
  BY OffFields DEF Segment
<1> HIDE DEF r
<1>4. ASSUME NEW t \in Seg PROVE seg'[t] = r \/ seg'[t] = seg[t] \/ seg'[t].phase = "off"
  BY <1>2, ReapedType, OffFields
<1> QED  BY <1>2, <1>3, <1>4 DEF Filled

\* The coordinator, the marker watcher, and a crash.
LEMMA CoordFilled ==
  ASSUME Typed, Filled, CoordStep \/ Scan \/ Killed, UNCHANGED sourceVars
  PROVE  Filled'
<1>1. UNCHANGED <<cur, size>> /\ cur \in Inode \cup {NoInode}
  BY DEF sourceVars, Typed, SourceOK
<1>2. CASE Poll \/ OpenKnown \/ OpenRotated \/ NoMarkerYet \/ Scan
  <2>1. seg' \in {seg, Reaped}
    BY <1>2 DEF Poll, OpenKnown, OpenRotated, NoMarkerYet, Scan
  <2>2. ASSUME NEW t \in Seg PROVE seg'[t] = seg[t] \/ seg'[t].phase = "off"
    BY <2>1, ReapedType, OffFields
  <2>3. coord'.pc \in {"learn", "grace", "wait"} => size[coord'.opened] > 0
    BY <1>2 DEF Poll, OpenKnown, OpenRotated, NoMarkerYet, Scan, Filled, Typed, CoordOK, Coordinator
  <2> QED  BY <1>1, <2>2, <2>3 DEF Filled
<1>3. CASE OpenFirst
  BY <1>1, <1>3, StartFilled DEF OpenFirst, Filled
<1>4. CASE SealWaited
  BY <1>1, <1>4, StartFilled DEF SealWaited, Filled, Typed, CoordOK
<1>5. CASE LearnIso \/ GraceExpired
  <2>1. PICK n, iso : RequestSeal(n, iso) /\ coord.pc \in {"learn", "grace"}
    BY <1>5 DEF LearnIso, GraceExpired
  <2>2. UNCHANGED wire
    BY <1>5 DEF LearnIso, GraceExpired
  <2>3. coord'.opened = coord.opened
    BY <2>1 DEF RequestSeal, Typed, CoordOK, Coordinator
  <2>4. ASSUME NEW t \in Seg
        PROVE  /\ seg'[t].phase = seg[t].phase /\ seg'[t].inode = seg[t].inode
               /\ seg'[t].pos = seg[t].pos
    <3>1. seg[t] \in Segment
      BY DEF Typed, AgentOK
    <3> DEFINE p == IF seg[coord.live].phase = "done" THEN None ELSE [name |-> n, iso |-> iso]
    <3>2. seg' = [seg EXCEPT ![coord.live].pending = p]
      BY <2>1 DEF RequestSeal
    <3> HIDE DEF p
    <3>3. seg'[t] = seg[t] \/ seg'[t] = [seg[t] EXCEPT !.pending = p]
      BY <3>2 DEF Typed, AgentOK
    <3> QED  BY <3>1, <3>3 DEF Segment
  <2> QED  BY <1>1, <2>1, <2>3, <2>4 DEF Filled
<1>6. CASE OpenFailed \/ Killed
  BY <1>1, <1>6, OffFields DEF OpenFailed, Killed, StartOver, NoCoord, Filled
<1> QED  BY <1>2, <1>3, <1>4, <1>5, <1>6 DEF CoordStep

\* A log is born with something in it: every segment reads a prefix.
THEOREM FilledHolds == 0 \notin Birth /\ Spec => []Filled
<1> SUFFICES ASSUME 0 \notin Birth PROVE Spec => []Filled
  OBVIOUS
<1>1. Init => Filled
  BY OffFields DEF Init, SourceInit, AgentInit, NoCoord, Filled
<1>2. Typed /\ Filled /\ [Next]_vars => Filled'
  <2> SUFFICES ASSUME Typed, Filled, [Next]_vars PROVE Filled'
    OBVIOUS
  <2>1. CASE UNCHANGED vars \/ (\E s \in Seg : Serve(s)) \/ Drop \/ Outage
    BY <2>1 DEF vars, agentVars, sourceVars, Serve, Drop, Outage, Filled
  <2>2. CASE SourceStep
    <3>1. UNCHANGED <<seg, coord>> /\ SourceNext
      BY <2>2 DEF SourceStep, agentVars
    <3>2. \A s \in Seg : seg[s].phase = "born" => seg[s].inode \in Inode
      BY DEF Typed, Shape
    <3>3. coord.pc \in {"learn", "grace", "wait"} => coord.opened \in Inode
      BY DEF Typed, CoordOK
    <3> QED  BY <3>1, <3>2, <3>3, LogsGrow DEF Filled
  <2>3. ASSUME NEW s \in Seg, Run(s) PROVE Filled'
    BY <2>3, SegmentFilled DEF Run, Agent
  <2>4. CASE Coordinate \/ Agent(Scan) \/ Agent(Killed)
    BY <2>4, CoordFilled DEF Coordinate, Agent
  <2> QED  BY <2>1, <2>2, <2>3, <2>4 DEF Next
<1> QED  BY <1>1, <1>2, TypedHolds, PTL DEF Spec

\* So a live file is never taken for a log of which nothing is known.
THEOREM AllRecognised == 0 \notin Birth /\ Spec => []Recognised
<1>1. Filled => Recognised
  BY DEF Filled, Recognised
<1> QED  BY <1>1, FilledHolds, PTL

\* The two theorems without their hypothesis on the history: for logs that are
\* not empty when the agent first sees them.
THEOREM FilledUnmixed ==
  0 \notin Birth /\ Spec => [](Orderly => NoMixing) /\ [](Orderly => AckedKept)
BY AllRecognised, NothingMixed, AckedStays, PTL

=============================================================================
