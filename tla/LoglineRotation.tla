-------------------------- MODULE LoglineRotation ----------------------------
(* Rotations that are followed.  As long as nothing fails and the path rotates *)
(* only once the agent is shipping the current inode, there is one segment for *)
(* each inode, each knows exactly where its file ends, and a rotation's iso_dt *)
(* is learnt for its own inode: names tell what the files are, and finalized   *)
(* files are complete.                                                          *)
EXTENDS LoglineCopies

-----------------------------------------------------------------------------
(* The invariant: who ships what *)

\* Nothing has failed yet, and the source is not ephemeral.
Calm == ~ephemeral /\ crashes = 0 /\ drops = 0

Active(s) == seg[s].phase \notin {"off", "done"}

\* The coordinator is at most one inode behind the path, and while it makes the
\* next segment the path stays as it is.
Following ==
  /\ cur \in {NoInode, made}
  /\ coord.live = None =>
       /\ coord.pc \in {"loop", "open"}
       /\ made <= 1 /\ cur = made
       /\ \A s \in Seg : seg[s].phase = "off"
  /\ coord.live # None /\ coord.pc = "loop" =>
       /\ seg[coord.live].phase \in {"born", "greet", "live"}
       /\ seg[coord.live].inode = coord.last
       /\ coord.last = made \/ (coord.last = made - 1 /\ cur = made)
       /\ cur # coord.last => seg[coord.live].phase = "live"
  /\ coord.live # None /\ coord.pc # "loop" =>
       /\ seg[coord.live].phase = "done" \/ seg[coord.live].inode = made - 1
       /\ coord.pc = "wait" \/ seg[coord.live].phase = "live"
       /\ seg[coord.live].phase \notin {"born", "greet", "aside", "regreet"}
  /\ coord.pc # "loop" => cur = made /\ cur # NoInode /\ coord.found = made /\ coord.last # made
  /\ coord.pc \in {"learn", "grace", "wait"} => coord.opened = made

\* No two segments ship the same inode.
Apart ==
  /\ \A s, t \in Seg : Active(s) /\ Active(t) /\ s # t => seg[s].inode # seg[t].inode
  /\ \A s \in Seg : Active(s) /\ s # coord.live => seg[s].inode < made

\* Nothing has been acknowledged of an inode no segment has begun to ship.
Counted ==
  \A i \in Inode : acked[i] > 0 =>
    \/ i < made
    \/ /\ coord.pc = "loop" /\ coord.live # None
       /\ seg[coord.live].inode = i /\ seg[coord.live].phase = "live"

Course == Following /\ Apart /\ Counted

-----------------------------------------------------------------------------
(* The invariant: how far the files are *)

\* Where segment s's file is now, and where a rename takes it.
Path(s) == ServedPath(seg[s], wire[s])
Dest(s) == IF seg[s].phase = "seal" THEN seg[s].pending.name ELSE FinalName(seg[s].pending.iso)

\* What the server is to hold of segment s's inode.
Reached(s) == IF wire[s].kind = "data" THEN wire[s].off ELSE seg[s].pos

\* A new segment meets no live file.
Greets(s) ==
  /\ seg[s].phase \notin {"aside", "regreet"}
  /\ seg[s].phase = "greet" => wire[s] # Broken
  /\ seg[s].phase \in {"born", "greet"} => ~Server!Exists(LiveName)

\* The live file is the file of a segment that is live, or about to be sealed.
LiveOwned ==
  Server!Exists(LiveName) =>
    \E s \in Seg : seg[s].phase \in {"live", "seal"} /\ Path(s) = LiveName

\* The stream of segment s is exactly where its file ends; requests are refused, and
\* connections made anew, only where there is no file.
InStep(s) ==
  seg[s].phase \in Streaming =>
    /\ seg[s].io = "ready" => wire[s] = Idle
    /\ seg[s].io = "renaming" /\ wire[s] = Broken => ~Server!Exists(Dest(s))
    /\ Server!Exists(Path(s)) =>
         /\ seg[s].io \in {"ready", "sending", "renaming"}
         /\ wire[s] # Broken
         /\ Len(content[dir[Path(s)]]) = Reached(s)

\* What has been acknowledged of segment s's inode is in its file.
AckedHere(s) ==
  seg[s].phase \in Streaming /\ acked[seg[s].inode] > 0 => Server!Exists(Path(s))

Files == LiveOwned /\ \A s \in Seg : Greets(s) /\ InStep(s) /\ AckedHere(s)

-----------------------------------------------------------------------------
(* The steps of a segment, as far as the invariant is concerned *)

\* The phases of a segment that ships, in their order.
Onward(q, r) ==
  \/ r.phase = q.phase
  \/ q.phase = "live" /\ q.pending # None /\ r.phase = "seal"
  \/ q.phase \in {"seal"} \cup Sealed /\ r.phase \in Sealed

\* Segment s goes on with its file where it is, tries again where there was none, or
\* takes the file to have been renamed.
Proceeds(s) ==
  /\ seg[s].io \in {"ready", "sending", "renaming"} /\ wire[s] # Broken
  /\ seg'[s].io \in {"ready", "sending", "renaming"} /\ wire'[s] # Broken
  /\ Path(s)' = Path(s)
  /\ Reached(s)' = Reached(s)

Retries(s) ==
  /\ seg[s].io \in {"resuming", "assuming"} \/ (seg[s].io = "sending" /\ wire[s] = Broken)
  /\ Path(s)' = Path(s)

Assumes(s) ==
  /\ seg[s].io = "renaming" /\ wire[s] = Broken
  /\ seg'[s].phase = seg[s].phase
  /\ Path(s)' = Dest(s)

\* What a step makes of segment s.
Turn(s) ==
  /\ seg'[s].phase \in Streaming => /\ seg'[s].io = "ready" => wire'[s] = Idle
                                    /\ seg'[s].io = "renaming" => wire'[s] # Broken
  /\ \/ seg[s].phase \in Sealed /\ seg'[s].phase \in {"off", "done"}
     \/ /\ seg'[s].inode = seg[s].inode
        /\ \/ seg[s].phase = "born" /\ seg'[s].phase = "greet" /\ wire'[s] # Broken
           \/ seg[s].phase = "greet" /\ seg'[s].phase = "live" /\ seg'[s].io = "ready"
           \/ /\ seg[s].phase \in Streaming /\ seg'[s].phase \in Streaming
              /\ Onward(seg[s], seg'[s])
              /\ Proceeds(s) \/ Retries(s) \/ Assumes(s)

\* A segment's step leaves the other slots alone.
LEMMA PutSlot ==
  ASSUME Typed, NEW s \in Seg, NEW r, NEW w, Put(s, r, w)
  PROVE  /\ seg'[s] = r /\ wire'[s] = w
         /\ \A t \in Seg \ {s} : seg'[t] = seg[t] /\ wire'[t] = wire[t]
BY DEF Put, Typed, AgentOK

\* The end of a segment that has been sealed.
LEMMA EndTurn ==
  ASSUME Typed, NEW s \in Seg, seg[s].phase \in Sealed, End(s)
  PROVE  Turn(s)
<1>1. seg'[s] = [Off EXCEPT !.phase = IF s = coord.live THEN "done" ELSE "off"]
  BY PutSlot DEF End
<1>2. seg'[s].phase \in {"off", "done"}
  BY <1>1, OffFields DEF Segment
<1> QED  BY <1>2 DEF Turn, Streaming, Draining

\* _connect: nothing has gone wrong, and there is no stale file.
LEMMA ConnectTurn ==
  ASSUME Typed, Copied, NEW s \in Seg, Greets(s),
         Dial(s) \/ Greeted(s) \/ FoundStale(s) \/ MovedStale(s) \/ ConnectFailed(s)
  PROVE  Turn(s)
<1>1. Shape(seg[s], wire[s]) /\ seg[s] \in Segment
  BY DEF Typed, Shape
<1>2. CASE Dial(s)
  <2> DEFINE n == PrefixEnd(seg[s].inode)
             w == HelloReq(seg[s].target, n)
  <2>1. seg[s].phase = "born" /\ Put(s, [seg[s] EXCEPT !.phase = "greet", !.pos = n], w)
    BY <1>2 DEF Dial
  <2>2. w # Broken
    BY DEF HelloReq, Broken
  <2> HIDE DEF n, w
  <2>3. seg'[s] = [seg[s] EXCEPT !.phase = "greet", !.pos = n] /\ wire'[s] = w
    BY <2>1, PutSlot
  <2>4. seg'[s].phase = "greet" /\ seg'[s].inode = seg[s].inode
    BY <1>1, <2>3 DEF Segment
  <2> QED  BY <2>1, <2>2, <2>3, <2>4 DEF Turn, Streaming, Draining
<1>3. CASE Greeted(s)
  <2>1. /\ seg[s].phase = "greet" /\ wire[s].kind = "greeting"
        /\ Put(s, [seg[s] EXCEPT !.phase = "live", !.pos = wire[s].length], Idle)
    BY <1>3 DEF Greeted, Greets
  <2> DEFINE l == wire[s].length
  <2>2. seg'[s] = [seg[s] EXCEPT !.phase = "live", !.pos = l] /\ wire'[s] = Idle
    BY <2>1, PutSlot
  <2> HIDE DEF l
  <2>3. /\ seg'[s].phase = "live" /\ seg'[s].inode = seg[s].inode /\ seg'[s].io = seg[s].io
    BY <1>1, <2>2 DEF Segment
  <2>4. seg[s].io = "ready"
    BY <1>1, <2>1 DEF Shape
  <2> QED  BY <2>1, <2>2, <2>3, <2>4, Built DEF Turn
<1>4. ~FoundStale(s)
  <2> SUFFICES ASSUME FoundStale(s) PROVE FALSE
    OBVIOUS
  <2>1. seg[s].phase = "greet" /\ wire[s].kind = "greeting" /\ wire[s].length > 0
    BY DEF FoundStale, Stale
  <2>2. seg[s].target = LiveName /\ ~Server!Exists(LiveName)
    BY <1>1, <2>1 DEF Shape, Target, Sealed, Closing, Greets
  <2>3. wire[s].length = 0
    BY <2>1, <2>2 DEF Copied, GreetingTrue, Server!ReportedLength, Server!Exists
  <2> QED  BY <2>1, <2>3
<1>5. ~MovedStale(s) /\ ~ConnectFailed(s)
  BY DEF MovedStale, ConnectFailed, Greets
<1> QED  BY <1>2, <1>3, <1>4, <1>5

\* A request sent on a connection that is open.
LEMMA SendIdle ==
  ASSUME NEW w \in Message, w.kind \in {"data", "rename"}
  PROVE  Send(Idle, w) = w /\ w # Broken /\ w # Idle
<1>1. Idle # Broken
  BY Built
<1> QED  BY <1>1, Built DEF Send

\* _drain_available returns, from a drain of segment s that left it as r, with its
\* connection open.
LEMMA ReturnedTurn ==
  ASSUME Typed, Typed', NEW s \in Seg, NEW r \in Segment,
         seg[s].phase \in Draining, wire[s].kind # "ok",
         r.phase = seg[s].phase, r.inode = seg[s].inode, r.target = seg[s].target,
         r.pending = seg[s].pending,
         \/ seg[s].io = "ready" /\ wire[s] = Idle /\ r.pos = seg[s].pos
         \/ seg[s].io = "resuming",
         Returned(s, r, Idle)
  PROVE  Turn(s)
<1>1. Shape(seg[s], wire[s]) /\ seg[s] \in Segment
  BY DEF Typed, Shape
<1>2. r.phase \in {"live", "seal", "orphan", "await", "final"}
  BY DEF Draining
<1>3. Path(s) = seg[s].target
  BY DEF Path, ServedPath
<1>4. Reached(s) = seg[s].pos \/ seg[s].io = "resuming"
  BY Built DEF Reached
<1>5. ASSUME NEW q \in Segment, NEW w \in Message, Put(s, q, w),
             q.inode = r.inode, q.pending = r.pending, q.pos = r.pos, q.target = r.target,
             Onward(r, q), q.phase \in Streaming,
             \/ q.io = "ready" /\ w = Idle
             \/ q.io = "renaming" /\ w.kind = "rename"
      PROVE  Turn(s)
  <2>1. seg'[s] = q /\ wire'[s] = w
    BY <1>5, PutSlot
  <2>2. w # Broken /\ w.kind \notin {"data", "ok"}
    BY <1>5, Built
  <2>3. Path(s)' = seg[s].target /\ Reached(s)' = r.pos
    BY <1>5, <2>1, <2>2 DEF Path, ServedPath, Reached
  <2>4. Proceeds(s) \/ Retries(s)
    BY <1>3, <1>4, <1>5, <2>1, <2>2, <2>3, Built DEF Proceeds, Retries
  <2>5. seg[s].phase \in Streaming /\ Onward(seg[s], q)
    BY <1>5 DEF Streaming, Onward
  <2> QED  BY <1>5, <2>1, <2>2, <2>4, <2>5 DEF Turn
<1>6. CASE r.phase = "live"
  <2> DEFINE p == IF r.pending = None THEN "live" ELSE "seal"
             q == [r EXCEPT !.io = "ready", !.phase = p]
  <2>1. Put(s, q, Idle)
    BY <1>6 DEF Returned
  <2>2. p = "live" \/ (p = "seal" /\ r.pending # None)
    OBVIOUS
  <2> HIDE DEF p
  <2>3. /\ q \in Segment /\ q.io = "ready" /\ q.inode = r.inode /\ q.target = r.target
        /\ q.pending = r.pending /\ q.phase = p /\ q.pos = r.pos
    BY <1>6, <2>2 DEF Segment, Draining
  <2> HIDE DEF q
  <2>4. Onward(r, q) /\ q.phase \in Streaming
    BY <1>6, <2>2, <2>3 DEF Onward, Streaming, Draining
  <2> QED  BY <1>5, <2>1, <2>3, <2>4, Built
<1>7. CASE r.phase \in {"seal", "final"}
  <2>1. PICK n \in AgentName :
          Put(s, [r EXCEPT !.io = "renaming"], Send(Idle, RenameReq(r.target, n)))
    <3>1. CASE r.phase = "seal"
      <4>1. Put(s, [r EXCEPT !.io = "renaming"], Send(Idle, RenameReq(r.target, r.pending.name)))
        BY <3>1 DEF Returned
      <4>2. r.pending.name \in AgentName
        BY <1>1, <3>1, SegmentFields DEF Shape
      <4> QED  BY <4>1, <4>2
    <3>2. CASE r.phase = "final"
      <4>1. Put(s, [r EXCEPT !.io = "renaming"],
                Send(Idle, RenameReq(r.pending.name, FinalName(r.pending.iso))))
        BY <3>2 DEF Returned
      <4>2. r.target = r.pending.name /\ FinalName(r.pending.iso) \in AgentName
        BY <1>1, <3>2, NamesType DEF Shape, Target, Sealed, Closing
      <4> QED  BY <4>1, <4>2
    <3> QED  BY <1>7, <3>1, <3>2
  <2> DEFINE q == [r EXCEPT !.io = "renaming"]
             w == RenameReq(r.target, n)
  <2>2. /\ q \in Segment /\ q.io = "renaming" /\ q.inode = r.inode /\ q.target = r.target
        /\ q.pending = r.pending /\ q.phase = r.phase /\ q.pos = r.pos
    BY DEF Segment
  <2>3. w \in Message /\ w.kind = "rename"
    BY Built, SegmentFields
  <2>4. Put(s, q, w)
    BY <2>1, <2>3, SendIdle
  <2> HIDE DEF q, w
  <2>5. Onward(r, q) /\ q.phase \in Streaming
    BY <1>7, <2>2 DEF Onward, Streaming, Draining
  <2> QED  BY <1>5, <2>2, <2>3, <2>4, <2>5
<1>8. CASE r.phase = "orphan"
  <2>1. CASE End(s)
    BY <1>8, <2>1, EndTurn DEF Sealed
  <2>2. CASE Put(s, [r EXCEPT !.io = "ready", !.sent = FALSE], Idle)
    <3> DEFINE q == [r EXCEPT !.io = "ready", !.sent = FALSE]
    <3>1. /\ q \in Segment /\ q.io = "ready" /\ q.inode = r.inode /\ q.target = r.target
          /\ q.pending = r.pending /\ q.phase = r.phase /\ q.pos = r.pos
      BY <1>8 DEF Segment
    <3>2. Put(s, q, Idle)
      BY <2>2
    <3> HIDE DEF q
    <3>3. Onward(r, q) /\ q.phase \in Streaming
      BY <1>8, <3>1 DEF Onward, Streaming, Draining
    <3> QED  BY <1>5, <3>1, <3>2, <3>3, Built
  <2> QED  BY <1>8, <2>1, <2>2 DEF Returned
<1>9. CASE r.phase = "await"
  <2> DEFINE q == [r EXCEPT !.io = "ready", !.phase = "look"]
  <2>1. Put(s, q, Idle)
    BY <1>9 DEF Returned
  <2>2. /\ q \in Segment /\ q.io = "ready" /\ q.inode = r.inode /\ q.target = r.target
        /\ q.pending = r.pending /\ q.phase = "look" /\ q.pos = r.pos
    BY <1>9 DEF Segment, Sealed, Closing
  <2> HIDE DEF q
  <2>3. Onward(r, q) /\ q.phase \in Streaming
    BY <1>9, <2>2 DEF Onward, Streaming, Sealed, Closing
  <2> QED  BY <1>5, <2>1, <2>2, <2>3, Built
<1> QED  BY <1>2, <1>6, <1>7, <1>8, <1>9

\* _drain_available and the phases it serves, on a connection that is open.
LEMMA DrainTurn ==
  ASSUME Typed, Typed', NEW s \in Seg, InStep(s),
         SealRequested(s) \/ Read(s) \/ Drained(s) \/ Sent(s) \/ Looked(s)
  PROVE  Turn(s)
<1>1. /\ Shape(seg[s], wire[s]) /\ seg[s] \in Segment
      /\ seg[s].phase \in Streaming
  <2>1. Shape(seg[s], wire[s])
    BY DEF Typed
  <2>2. Sent(s) => seg[s].phase \in Draining
    BY <2>1, Built DEF Sent, Shape, Kinds
  <2> QED
    BY <2>1, <2>2 DEF Shape, SealRequested, Read, Drained, Sent, Looked, Streaming, Draining
<1>2. seg[s].io = "ready" => wire[s] = Idle
  BY <1>1 DEF InStep
<1>3. seg[s].io = "ready" => Path(s) = seg[s].target /\ Reached(s) = seg[s].pos
  BY <1>2, Built DEF Path, ServedPath, Reached
<1>4. CASE Drained(s)
  <2>1. seg[s].io = "ready" /\ seg[s].phase \in Draining /\ Returned(s, seg[s], Idle)
    BY <1>2, <1>4 DEF Drained
  <2> QED  BY <1>1, <1>2, <2>1, ReturnedTurn, Built
<1>5. ASSUME NEW p \in {"seal", "await", "final"}, seg[s].io = "ready",
             Onward(seg[s], [seg[s] EXCEPT !.phase = p]),
             Put(s, [seg[s] EXCEPT !.phase = p], Idle)
      PROVE  Turn(s)
  <2> DEFINE q == [seg[s] EXCEPT !.phase = p]
  <2>1. /\ q.io = "ready" /\ q.inode = seg[s].inode /\ q.target = seg[s].target
        /\ q.phase = p /\ q.pos = seg[s].pos
    BY <1>1, <1>5 DEF Segment
  <2>2. seg'[s] = q /\ wire'[s] = Idle /\ Onward(seg[s], q)
    BY <1>5, PutSlot
  <2> HIDE DEF q
  <2>3. Proceeds(s)
    BY <1>2, <1>3, <1>5, <2>1, <2>2, Built DEF Proceeds, Path, ServedPath, Reached
  <2>4. q.phase \in Streaming
    BY <1>5, <2>1 DEF Streaming, Draining
  <2> QED  BY <1>1, <2>1, <2>2, <2>3, <2>4 DEF Turn
<1>6. CASE SealRequested(s)
  <2>1. /\ seg[s].io = "ready" /\ seg[s].phase = "live" /\ seg[s].pending # None
        /\ Put(s, [seg[s] EXCEPT !.phase = "seal"], Idle)
    BY <1>2, <1>6 DEF SealRequested
  <2>2. Onward(seg[s], [seg[s] EXCEPT !.phase = "seal"])
    BY <1>1, <2>1 DEF Onward, Segment
  <2> QED  BY <1>5, <2>1, <2>2
<1>7. CASE Looked(s)
  <2>1. seg[s].io = "ready" /\ seg[s].phase = "look"
    <3>1. seg[s].phase = "look"
      BY <1>7 DEF Looked
    <3> QED  BY <1>1, <3>1 DEF Shape, Kinds, Draining
  <2>2. PICK p \in {"await", "final"} : Put(s, [seg[s] EXCEPT !.phase = p], wire[s])
    BY <1>7 DEF Looked
  <2>3. Onward(seg[s], [seg[s] EXCEPT !.phase = p])
    BY <1>1, <2>1 DEF Onward, Segment, Sealed, Closing
  <2> QED  BY <1>2, <1>5, <2>1, <2>2, <2>3
<1>8. CASE Read(s)
  <2> DEFINE end == Least(seg[s].pos + Chunk, size[seg[s].inode])
             d == Bytes(seg[s].inode, seg[s].pos, end)
             q == [seg[s] EXCEPT !.io = "sending", !.pos = end]
             w == DataReq(seg[s].pos, d)
  <2>1. seg[s].io = "ready" /\ seg[s].phase \in Draining /\ Put(s, q, Send(Idle, w))
    BY <1>2, <1>8 DEF Read
  <2>2. Send(Idle, w) = w /\ w # Broken /\ w.kind = "data" /\ w.off = seg[s].pos
    BY Built DEF Send, DataReq, Broken, Idle
  <2>3. /\ q.io = "sending" /\ q.inode = seg[s].inode /\ q.target = seg[s].target
        /\ q.phase = seg[s].phase
    BY <1>1 DEF Segment
  <2>4. seg'[s] = q /\ wire'[s] = w
    BY <2>1, <2>2, PutSlot
  <2> HIDE DEF q, w
  <2>5. Proceeds(s)
    BY <1>2, <1>3, <2>1, <2>2, <2>3, <2>4, Built DEF Proceeds, Path, ServedPath, Reached
  <2> QED  BY <1>1, <2>3, <2>4, <2>5 DEF Turn, Onward
<1>9. CASE Sent(s)
  <2> DEFINE q == [seg[s] EXCEPT !.io = "ready", !.sent = seg[s].phase = "orphan"]
  <2>1. seg[s].io = "sending" /\ wire[s] = OkReply /\ Put(s, q, Idle)
    BY <1>9 DEF Sent
  <2>2. /\ q.io = "ready" /\ q.inode = seg[s].inode /\ q.target = seg[s].target
        /\ q.phase = seg[s].phase /\ q.pos = seg[s].pos
    BY <1>1 DEF Segment
  <2> HIDE DEF q
  <2>3. seg'[s] = q /\ wire'[s] = Idle
    BY <2>1, PutSlot
  <2>4. Proceeds(s)
    BY <2>1, <2>2, <2>3, Built DEF Proceeds, Path, ServedPath, Reached
  <2> QED  BY <1>1, <2>2, <2>3, <2>4 DEF Turn, Onward
<1> QED  BY <1>4, <1>6, <1>7, <1>8, <1>9

\* _reconnect, whatever for.
LEMMA RedialTurn ==
  ASSUME Typed, NEW s \in Seg, NEW r, Redial(s, r), seg[s].phase \in Streaming,
         r.phase = seg[s].phase, r.inode = seg[s].inode, r.io \in {"resuming", "assuming"},
         \/ r.target = Path(s)
            /\ (seg[s].io \in {"resuming", "assuming"} \/ (seg[s].io = "sending" /\ wire[s] = Broken))
         \/ r.target = Dest(s) /\ seg[s].io = "renaming" /\ wire[s] = Broken
  PROVE  Turn(s)
<1> DEFINE w == HelloReq(r.target, r.pos)
<1>1. seg'[s] = r /\ wire'[s] = w
  BY PutSlot DEF Redial
<1>2. w.kind = "hello"
  BY DEF HelloReq
<1> HIDE DEF w
<1>3. Path(s)' = r.target
  BY <1>1, <1>2 DEF Path, ServedPath
<1>4. Retries(s) \/ Assumes(s)
  BY <1>1, <1>3 DEF Retries, Assumes
<1> QED  BY <1>1, <1>4 DEF Turn, Onward

\* Segment._rename has returned.
LEMMA RenameDoneTurn ==
  ASSUME Typed, NEW s \in Seg, RenameDone(s),
         \/ seg[s].io = "renaming" /\ wire[s] = OkReply
         \/ seg[s].io = "assuming" /\ wire[s].kind = "greeting"
  PROVE  Turn(s)
<1>1. Shape(seg[s], wire[s]) /\ seg[s] \in Segment
  BY DEF Typed, Shape
<1>2. CASE seg[s].phase = "final" /\ End(s)
  BY <1>2, EndTurn DEF Sealed, Closing
<1>3. CASE seg[s].phase = "seal" /\ ~End(s)
  <2> DEFINE p == IF seg[s].pending.iso = NoInode THEN "orphan" ELSE "await"
             n == seg[s].pending.name
             q == [seg[s] EXCEPT !.io = "ready", !.target = n, !.phase = p]
  <2>1. Put(s, q, Idle)
    BY <1>3 DEF RenameDone
  <2>2. p \in Sealed /\ p \in Streaming
    BY DEF Sealed, Closing, Streaming, Draining
  <2> HIDE DEF p
  <2>3. /\ q.io = "ready" /\ q.inode = seg[s].inode /\ q.target = n
        /\ q.phase = p /\ q.pos = seg[s].pos
    BY <1>1 DEF Segment
  <2>4. seg'[s] = q /\ wire'[s] = Idle
    BY <2>1, PutSlot
  <2> HIDE DEF q
  <2>5. Path(s)' = n /\ Reached(s)' = seg[s].pos
    BY <2>3, <2>4, Built DEF Path, ServedPath, Reached
  <2>6. Proceeds(s) \/ Retries(s)
    <3>1. CASE seg[s].io = "renaming" /\ wire[s] = OkReply
      BY <1>3, <2>3, <2>4, <2>5, <3>1, Built DEF Proceeds, Path, ServedPath, Reached
    <3>2. CASE seg[s].io = "assuming" /\ wire[s].kind = "greeting"
      <4>1. Path(s) = n
        BY <1>1, <1>3, <3>2 DEF Path, ServedPath, Shape, Target, Sealed, Closing
      <4> QED  BY <2>5, <3>2, <4>1 DEF Retries
    <3> QED  BY <3>1, <3>2
  <2> QED  BY <1>3, <2>2, <2>3, <2>4, <2>6 DEF Turn, Onward, Streaming, Draining
<1>4. CASE seg[s].phase = "seal" /\ End(s)
  <2>1. seg'[s] = [Off EXCEPT !.phase = IF s = coord.live THEN "done" ELSE "off"]
    BY <1>4, PutSlot DEF End
  <2> DEFINE p == IF seg[s].pending.iso = NoInode THEN "orphan" ELSE "await"
             n == seg[s].pending.name
             q == [seg[s] EXCEPT !.io = "ready", !.target = n, !.phase = p]
  <2>2. seg'[s] = q
    BY <1>4, PutSlot DEF RenameDone
  <2>3. q.phase \in {"orphan", "await"}
    BY <1>1 DEF Segment
  <2> HIDE DEF q
  <2>4. seg'[s].phase \in {"off", "done"}
    BY <2>1, OffFields DEF Segment
  <2> QED  BY <2>2, <2>3, <2>4
<1> QED  BY <1>2, <1>3, <1>4 DEF RenameDone

\* Requests that are refused, and reconnections.
LEMMA RetryTurn ==
  ASSUME Typed, Typed', ~ephemeral, NEW s \in Seg, InStep(s),
         SendFailed(s) \/ Resumed(s) \/ Retry(s) \/ Renamed(s) \/ RenameFailed(s) \/ Assumed(s)
  PROVE  Turn(s)
<1>1. Shape(seg[s], wire[s]) /\ seg[s] \in Segment /\ wire[s] \in Message
  BY DEF Typed, Shape
<1>2. seg[s].io # "ready" => seg[s].phase \in Draining
  BY <1>1, SegmentFields DEF Shape, Kinds, Draining, Sealed, Closing
<1>3. CASE SendFailed(s)
  <2> DEFINE n == PrefixEnd(seg[s].inode)
             r == [seg[s] EXCEPT !.io = "resuming", !.pos = n]
  <2>1. seg[s].io = "sending" /\ wire[s] = Broken /\ Redial(s, r)
    BY <1>3 DEF SendFailed
  <2> HIDE DEF n
  <2>2. /\ r.phase = seg[s].phase /\ r.inode = seg[s].inode /\ r.io = "resuming"
        /\ r.target = seg[s].target
    BY <1>1 DEF Segment
  <2> HIDE DEF r
  <2>3. r.target = Path(s)
    BY <2>1, <2>2 DEF Path, ServedPath
  <2> QED  BY <1>2, <2>1, <2>2, <2>3, RedialTurn DEF Streaming
<1>4. CASE Resumed(s)
  <2> DEFINE l == wire[s].length
             r == [seg[s] EXCEPT !.pos = l]
  <2>1. seg[s].io = "resuming" /\ wire[s].kind = "greeting" /\ Returned(s, r, Idle)
    BY <1>4 DEF Resumed
  <2>2. l \in 0..MaxSize
    BY <1>1, <2>1, ByKind DEF Greetings
  <2> HIDE DEF l
  <2>3. /\ r \in Segment /\ r.phase = seg[s].phase /\ r.inode = seg[s].inode
        /\ r.target = seg[s].target /\ r.pending = seg[s].pending
    BY <1>1, <2>2 DEF Segment
  <2> HIDE DEF r
  <2> QED  BY <1>2, <2>1, <2>3, ReturnedTurn
<1>5. CASE Retry(s)
  <2>1. seg[s].io \in {"resuming", "assuming"} /\ Redial(s, seg[s])
    BY <1>5 DEF Retry
  <2>2. seg[s].target = Path(s)
    BY <2>1 DEF Path, ServedPath
  <2> QED  BY <1>2, <2>1, <2>2, RedialTurn DEF Streaming
<1>6. CASE Renamed(s)
  BY <1>6, RenameDoneTurn DEF Renamed
<1>7. CASE RenameFailed(s)
  <2> DEFINE n == PrefixEnd(seg[s].inode)
             d == Dest(s)
             r == [seg[s] EXCEPT !.io = "assuming", !.target = d, !.pos = n]
  <2>1. seg[s].io = "renaming" /\ wire[s] = Broken /\ Redial(s, r)
    BY <1>7 DEF RenameFailed, Dest
  <2> HIDE DEF n, d
  <2>2. /\ r.phase = seg[s].phase /\ r.inode = seg[s].inode /\ r.io = "assuming" /\ r.target = d
    BY <1>1 DEF Segment
  <2> HIDE DEF r
  <2> QED  BY <1>2, <2>1, <2>2, RedialTurn DEF Streaming, d
<1>8. CASE Assumed(s)
  BY <1>8, RenameDoneTurn DEF Assumed
<1> QED  BY <1>3, <1>4, <1>5, <1>6, <1>7, <1>8

\* Every step of a segment.
LEMMA SegmentTurn ==
  ASSUME Typed, Typed', Copied, ~ephemeral, NEW s \in Seg, Greets(s), InStep(s), SegmentStep(s)
  PROVE  Turn(s)
BY ConnectTurn, DrainTurn, RetryTurn DEF SegmentStep

-----------------------------------------------------------------------------
(* How far the files are: the steps of the agent *)

\* Of the inode of a segment that has not greeted, nothing has been acknowledged.
LEMMA FreshUncounted ==
  ASSUME Typed, Course, NEW s \in Seg, seg[s].phase \in {"born", "greet"}
  PROVE  ~(acked[seg[s].inode] > 0) /\ s = coord.live /\ coord.pc = "loop"
<1>1. s = coord.live /\ s # None
  BY LiveHolder, AgentAssumption DEF Sealed, Closing
<1>2. coord.pc = "loop"
  BY <1>1 DEF Course, Following
<1>3. seg[s].inode = coord.last /\ cur = coord.last
  BY <1>1, <1>2 DEF Course, Following
<1>4. seg[s].inode \in Inode /\ made \in Nat
  BY SourceAssumption DEF Typed, Shape, SourceOK
<1>5. seg[s].inode = made
  BY <1>1, <1>2, <1>3, <1>4 DEF Course, Following, Inode
<1> QED  BY <1>1, <1>2, <1>4, <1>5 DEF Course, Counted

\* A segment's step leaves it in step with its file.
LEMMA TurnInStep ==
  ASSUME Typed, Typed', NEW s \in Seg, Turn(s), Greets(s), InStep(s), UNCHANGED <<dir, content>>
  PROVE  Greets(s)' /\ InStep(s)'
<1>1. \A n : Server!Exists(n)' <=> Server!Exists(n)
  BY DEF Server!Exists
<1>2. Greets(s)'
  BY <1>1 DEF Turn, Greets, Streaming, Draining
<1>3. InStep(s)'
  <2> SUFFICES ASSUME seg'[s].phase \in Streaming PROVE InStep(s)'
    BY DEF InStep
  <2>1. /\ seg'[s].io = "ready" => wire'[s] = Idle
        /\ seg'[s].io = "renaming" => wire'[s] # Broken
    BY DEF Turn
  <2>2. CASE ~Server!Exists(Path(s)')
    BY <1>1, <2>1, <2>2 DEF InStep
  <2>3. CASE seg[s].phase = "greet"
    <3>1. seg'[s].phase = "live" /\ seg'[s].io = "ready" /\ wire'[s] = Idle
      BY <2>3 DEF Turn, Streaming, Draining, Sealed, Closing
    <3>2. seg'[s].target = LiveName
      BY <3>1 DEF Typed, Shape, Target, Sealed, Closing
    <3>3. Path(s)' = LiveName
      BY <3>1, <3>2, Built DEF Path, ServedPath
    <3> QED  BY <2>2, <2>3, <3>3 DEF Greets
  <2>4. CASE seg[s].phase \in Streaming
    <3>1. Proceeds(s) \/ Retries(s) \/ Assumes(s)
      BY <2>4 DEF Turn, Streaming, Draining
    <3>2. CASE Server!Exists(Path(s)') /\ Proceeds(s)
      BY <1>1, <2>1, <2>4, <3>2 DEF InStep, Proceeds
    <3>3. Retries(s) \/ Assumes(s) => ~Server!Exists(Path(s)')
      BY <2>4 DEF InStep, Retries, Assumes
    <3> QED  BY <2>2, <3>1, <3>2, <3>3
  <2> QED  BY <2>3, <2>4 DEF Turn, Streaming, Draining, Sealed, Closing
<1> QED  BY <1>2, <1>3

\* A live file stays its owner's.
LEMMA TurnOwned ==
  ASSUME Typed, Typed', NEW s \in Seg, Turn(s), InStep(s), LiveOwned, UNCHANGED <<dir, content>>,
         \A t \in Seg \ {s} : seg'[t] = seg[t] /\ wire'[t] = wire[t]
  PROVE  LiveOwned'
<1> SUFFICES ASSUME Server!Exists(LiveName)
             PROVE  \E t \in Seg : seg'[t].phase \in {"live", "seal"} /\ Path(t)' = LiveName
  BY DEF LiveOwned, Server!Exists
<1>1. PICK t \in Seg : seg[t].phase \in {"live", "seal"} /\ Path(t) = LiveName
  BY DEF LiveOwned
<1>2. CASE t # s
  <2>1. seg'[t] = seg[t] /\ wire'[t] = wire[t]
    BY <1>2
  <2> QED  BY <1>1, <2>1 DEF Path
<1>3. CASE t = s
  <2>1. seg[s].phase \in Streaming /\ seg[s].phase \notin Sealed
    BY <1>1, <1>3 DEF Streaming, Draining, Sealed, Closing
  <2>2. Proceeds(s) /\ seg'[s].phase \in Streaming
    BY <1>1, <1>3, <2>1 DEF Turn, InStep, Retries, Assumes, Streaming, Draining
  <2>3. Path(s)' = LiveName
    BY <1>1, <1>3, <2>2 DEF Proceeds
  <2>4. seg'[s].phase \notin Sealed
    <3> SUFFICES ASSUME seg'[s].phase \in Sealed PROVE FALSE
      OBVIOUS
    <3>1. Shape(seg'[s], wire'[s])
      BY DEF Typed
    <3>2. seg'[s].target \in {seg'[s].pending.name, FinalName(seg'[s].pending.iso)}
      BY <3>1 DEF Shape, Target, Sealed, Closing
    <3>3. seg'[s].pending # None /\ Plan(seg'[s].pending)
          /\ (seg'[s].phase \in Closing => seg'[s].pending.iso \in Inode)
          /\ (seg'[s].phase = "orphan" => seg'[s].pending.iso = NoInode)
      BY <3>1 DEF Shape
    <3>4. seg'[s].pending.name # LiveName
      BY <3>3, NameFacts DEF Plan, Sealed
    <3>5. \A i : FinalName(i) # LiveName
      BY DEF FinalName, LiveName
    <3>6. Path(s)' # LiveName
      BY <3>2, <3>4, <3>5 DEF Path, ServedPath
    <3> QED  BY <2>3, <3>6
  <2> QED  BY <1>3, <2>2, <2>3, <2>4 DEF Streaming, Draining, Sealed, Closing
<1> QED  BY <1>2, <1>3

\* What has been acknowledged is in the segment's file, wherever it takes that to be.
LEMMA TurnAcked ==
  ASSUME Typed, Copied, Course, NEW s \in Seg, Turn(s), InStep(s), AckedHere(s), SegmentStep(s),
         UNCHANGED <<dir, content>>
  PROVE  AckedHere(s)'
<1> SUFFICES ASSUME seg'[s].phase \in Streaming, acked'[seg'[s].inode] > 0
             PROVE  Server!Exists(Path(s)')
  BY DEF AckedHere, Server!Exists
<1>1. seg'[s].inode = seg[s].inode
  BY DEF Turn, Streaming, Draining
<1>2. CASE Sent(s)
  <2>1. seg[s].io = "sending" /\ wire[s] = OkReply
    BY <1>2 DEF Sent
  <2>2. Server!Exists(seg[s].target) /\ seg[s].target = Path(s)
    BY <2>1, Built DEF Copied, Delivered, Path, ServedPath
  <2>3. seg[s].phase \in Streaming
    <3>1. Shape(seg[s], wire[s])
      BY DEF Typed
    <3> QED  BY <2>1, <3>1, Built, SegmentFields DEF Shape, Kinds, Streaming, Draining, Sealed, Closing
  <2>4. Proceeds(s)
    BY <2>1, <2>3, Built DEF Turn, Retries, Assumes, Streaming, Draining
  <2> QED  BY <2>2, <2>4 DEF Proceeds
<1>3. CASE UNCHANGED acked
  <2>1. acked[seg[s].inode] > 0
    BY <1>1, <1>3
  <2>2. seg[s].phase # "greet"
    BY <2>1, FreshUncounted
  <2>3. seg[s].phase \in Streaming
    BY <2>2 DEF Turn, Streaming, Draining
  <2>4. Server!Exists(Path(s))
    BY <2>1, <2>3 DEF AckedHere
  <2>5. Path(s)' = Path(s)
    BY <2>3, <2>4 DEF Turn, InStep, Proceeds, Retries, Assumes, Streaming, Draining
  <2> QED  BY <2>4, <2>5
<1> QED  BY <1>2, <1>3, AckedEffect

\* The steps of a segment.
LEMMA SegmentFiles ==
  ASSUME Typed, Typed', Copied, ~ephemeral, Course, Files, NEW s \in Seg, SegmentStep(s),
         UNCHANGED <<dir, content>>
  PROVE  Files'
<1>1. Turn(s)
  BY SegmentTurn DEF Files
<1>2. \A t \in Seg \ {s} : seg'[t] = seg[t] /\ wire'[t] = wire[t]
  BY SegmentEffect, PutSlot
<1>3. LiveOwned' /\ Greets(s)' /\ InStep(s)' /\ AckedHere(s)'
  BY <1>1, <1>2, TurnInStep, TurnOwned, TurnAcked DEF Files
<1>4. ASSUME NEW t \in Seg, t # s PROVE Greets(t)' /\ InStep(t)' /\ AckedHere(t)'
  <2>1. seg'[t] = seg[t] /\ wire'[t] = wire[t]
    BY <1>2, <1>4
  <2>2. seg[t].phase \in Streaming => acked'[seg[t].inode] = acked[seg[t].inode]
    <3> SUFFICES ASSUME seg[t].phase \in Streaming, Sent(s)
                 PROVE  acked'[seg[t].inode] = acked[seg[t].inode]
      BY AckedEffect
    <3>1. seg[s].inode # seg[t].inode
      BY <1>4, Awake DEF Course, Apart, Active, Streaming, Draining
    <3>2. \E n : acked' = [acked EXCEPT ![seg[s].inode] = n]
      BY DEF Sent
    <3> QED  BY <3>1, <3>2 DEF Typed, AgentOK
  <2>3. Path(t)' = Path(t) /\ Dest(t)' = Dest(t) /\ Reached(t)' = Reached(t)
    BY <2>1 DEF Path, Dest, Reached
  <2> QED  BY <2>1, <2>2, <2>3 DEF Files, Greets, InStep, AckedHere, Server!Exists
<1> QED  BY <1>3, <1>4 DEF Files

\* What the coordinator may do to a slot: nothing, free it, fill it, or ask for a seal.
Managed(t) ==
  \/ seg'[t] = seg[t]
  \/ seg'[t].phase = "off"
  \/ seg'[t].phase = "born"
  \/ /\ seg[t].phase = "live"
     /\ \E p : seg'[t] = [seg[t] EXCEPT !.pending = p]

\* The path cannot be missing when the coordinator opens it.
LEMMA NeverMissing ==
  ASSUME Course
  PROVE  ~OpenFailed
BY DEF Course, Following, OpenFailed

\* A new segment takes a free slot, and an ended one leaves its own.
LEMMA StartManages ==
  ASSUME Typed, NEW i \in Inode, Start(i, coord.consumed)
  PROVE  \E s \in Seg :
           /\ coord'.live = s /\ coord'.pc = "loop" /\ coord'.last = coord.found
           /\ coord'.consumed = coord.consumed
           /\ seg'[s].phase = "born" /\ seg'[s].inode = i /\ seg'[s].pending = None
           /\ seg[s].phase = "off" \/ (s = coord.live /\ seg[s].phase = "done")
           /\ \A t \in Seg \ {s} :
                \/ seg'[t] = seg[t] /\ (t = coord.live => seg[t].phase # "done")
                \/ t = coord.live /\ seg[t].phase = "done" /\ seg'[t] = Off
<1> DEFINE free == {f \in Seg : Reaped[f].phase = "off"}
           r    == [Off EXCEPT !.phase = "born", !.inode = i]
<1>1. PICK s \in Seg : s = (CHOOSE f \in free : TRUE) /\ free # {}
  BY DEF Start
<1>2. seg' = [Reaped EXCEPT ![s] = r]
  BY <1>1 DEF Start
<1>3. r.phase = "born" /\ r.inode = i /\ r.pending = None
  BY OffFields DEF Segment
<1>4. Reaped[s].phase = "off"
  BY <1>1
<1>5. /\ coord'.live = s /\ coord'.pc = "loop" /\ coord'.last = coord.found
      /\ coord'.consumed = coord.consumed
  BY <1>1 DEF Start, Typed, CoordOK, Coordinator
<1> HIDE DEF r, free
<1>6. seg'[s] = r /\ \A t \in Seg \ {s} : seg'[t] = Reaped[t]
  BY <1>2, ReapedType
<1>7. seg[s].phase = "off" \/ (s = coord.live /\ seg[s].phase = "done")
  BY <1>4, ReapedType
<1>8. ASSUME NEW t \in Seg \ {s}
      PROVE  \/ seg'[t] = seg[t] /\ (t = coord.live => seg[t].phase # "done")
             \/ t = coord.live /\ seg[t].phase = "done" /\ seg'[t] = Off
  <2>1. seg'[t] = Reaped[t]
    BY <1>6
  <2>2. \/ Reaped[t] = seg[t] /\ (t = coord.live => seg[t].phase # "done")
        \/ t = coord.live /\ seg[t].phase = "done" /\ Reaped[t] = Off
    BY ReapedType
  <2> QED  BY <2>1, <2>2
<1>9. seg'[s].phase = "born" /\ seg'[s].inode = i /\ seg'[s].pending = None
  BY <1>3, <1>6
<1> QED  BY <1>5, <1>7, <1>8, <1>9

\* The request to seal reaches the live segment only.
LEMMA SealManages ==
  ASSUME Typed, Following, coord.pc \in {"learn", "grace"}, NEW n, NEW iso, RequestSeal(n, iso)
  PROVE  /\ coord.live \in Seg /\ seg[coord.live].phase = "live"
         /\ seg'[coord.live] = [seg[coord.live] EXCEPT !.pending = [name |-> n, iso |-> iso]]
         /\ \A t \in Seg : t # coord.live => seg'[t] = seg[t]
         /\ coord' = [coord EXCEPT !.pc = "wait",
                        !.consumed = IF iso = NoInode THEN @ ELSE @ \cup {iso}]
<1>1. PICK s \in Seg : s = coord.live
  BY DEF Typed, CoordOK
<1>2. seg[s].phase = "live"
  BY <1>1, AgentAssumption DEF Following
<1>3. seg' = [seg EXCEPT ![s] = [seg[s] EXCEPT !.pending = [name |-> n, iso |-> iso]]]
  BY <1>1, <1>2 DEF RequestSeal
<1>4. seg'[s] = [seg[s] EXCEPT !.pending = [name |-> n, iso |-> iso]]
      /\ \A t \in Seg : t # s => seg'[t] = seg[t]
  BY <1>3 DEF Typed, AgentOK
<1> QED  BY <1>1, <1>2, <1>4 DEF RequestSeal

\* The coordinator's steps, slot by slot.
LEMMA CoordManages ==
  ASSUME Typed, Course, CoordStep \/ Scan, NEW t \in Seg
  PROVE  Managed(t) /\ UNCHANGED <<wire, acked>>
<1>1. UNCHANGED acked
  BY CoordHandles
<1>2. CASE Poll \/ OpenKnown \/ OpenRotated \/ NoMarkerYet \/ Scan
  <2>1. seg' \in {seg, Reaped} /\ UNCHANGED wire
    BY <1>2 DEF Poll, OpenKnown, OpenRotated, NoMarkerYet, Scan
  <2>2. seg'[t] = seg[t] \/ seg'[t].phase = "off"
    BY <2>1, ReapedType, OffFields
  <2> QED  BY <1>1, <2>1, <2>2 DEF Managed
<1>3. CASE OpenFirst \/ SealWaited
  <2>1. PICK i \in Inode : Start(i, coord.consumed)
    BY <1>3 DEF OpenFirst, SealWaited, Typed, SourceOK, CoordOK
  <2>2. seg'[t] = seg[t] \/ seg'[t].phase \in {"off", "born"}
    BY <2>1, StartManages, OffFields
  <2> QED  BY <1>1, <1>3, <2>2 DEF Managed, OpenFirst, SealWaited
<1>4. CASE LearnIso \/ GraceExpired
  <2>1. PICK n, iso : RequestSeal(n, iso) /\ coord.pc \in {"learn", "grace"}
    BY <1>4 DEF LearnIso, GraceExpired
  <2>2. Managed(t)
    BY <2>1, SealManages DEF Managed, Course
  <2> QED  BY <1>1, <1>4, <2>2 DEF LearnIso, GraceExpired
<1> QED  BY <1>2, <1>3, <1>4, NeverMissing DEF CoordStep

\* When the coordinator begins a segment, the live file has been sealed.
LEMMA LiveSealed ==
  ASSUME Typed, LiveOwned, OpenFirst \/ SealWaited
  PROVE  ~Server!Exists(LiveName)
<1> SUFFICES ASSUME NEW s \in Seg, seg[s].phase \in {"live", "seal"} PROVE FALSE
  BY DEF LiveOwned
<1>1. s = coord.live
  BY LiveHolder DEF Sealed, Closing
<1>2. s # None
  BY AgentAssumption
<1> QED  BY <1>1, <1>2 DEF OpenFirst, SealWaited, Sealed, Closing

\* The steps of the coordinator and the marker watcher.
LEMMA CoordFiles ==
  ASSUME Typed, Typed', Course, Files, CoordStep \/ Scan, UNCHANGED <<dir, content>>
  PROVE  Files'
<1>1. \A t \in Seg : Managed(t) /\ wire'[t] = wire[t] /\ acked' = acked
  BY CoordManages
<1>2. ASSUME NEW t \in Seg, seg[t].phase = "live",
             NEW p, seg'[t] = [seg[t] EXCEPT !.pending = p]
      PROVE  /\ seg'[t].phase = "live" /\ seg'[t].io = seg[t].io /\ seg[t].io # "renaming"
             /\ seg'[t].inode = seg[t].inode
             /\ Path(t)' = Path(t) /\ Reached(t)' = Reached(t)
  <2>1. Shape(seg[t], wire[t]) /\ seg[t] \in Segment
    BY DEF Typed, Shape
  <2>2. seg[t].io # "renaming"
    BY <1>2, <2>1 DEF Shape, Kinds, Draining
  <2>3. /\ seg'[t].phase = "live" /\ seg'[t].io = seg[t].io /\ seg'[t].inode = seg[t].inode
        /\ seg'[t].target = seg[t].target /\ seg'[t].pos = seg[t].pos
    BY <1>2, <2>1 DEF Segment
  <2> QED  BY <1>1, <2>2, <2>3 DEF Path, ServedPath, Reached
<1>3. ASSUME NEW t \in Seg PROVE Greets(t)' /\ InStep(t)' /\ AckedHere(t)'
  <2>1. CASE seg'[t] = seg[t]
    <3>1. Path(t)' = Path(t) /\ Dest(t)' = Dest(t) /\ Reached(t)' = Reached(t)
      BY <1>1, <2>1 DEF Path, Dest, Reached
    <3> QED  BY <1>1, <2>1, <3>1 DEF Files, Greets, InStep, AckedHere, Server!Exists
  <2>2. CASE seg'[t].phase = "off"
    BY <2>2 DEF Greets, InStep, AckedHere, Streaming, Draining
  <2>3. CASE seg'[t].phase = "born" /\ seg'[t] # seg[t]
    <3>1. OpenFirst \/ SealWaited
      <4>1. CASE Poll \/ OpenKnown \/ OpenRotated \/ NoMarkerYet \/ Scan
        <5>1. seg' \in {seg, Reaped}
          BY <4>1 DEF Poll, OpenKnown, OpenRotated, NoMarkerYet, Scan
        <5> QED  BY <2>3, <5>1, ReapedType, OffFields
      <4>2. CASE LearnIso \/ GraceExpired
        <5>1. PICK n, iso : RequestSeal(n, iso) /\ coord.pc \in {"learn", "grace"}
          BY <4>2 DEF LearnIso, GraceExpired
        <5>2. t = coord.live
          BY <2>3, <5>1, SealManages DEF Course
        <5>3. PICK p : seg[t].phase = "live" /\ seg'[t] = [seg[t] EXCEPT !.pending = p]
          BY <5>1, <5>2, SealManages DEF Course
        <5>4. seg'[t].phase = "live"
          BY <1>2, <5>3
        <5> QED  BY <2>3, <5>4
      <4> QED  BY <4>1, <4>2, NeverMissing DEF CoordStep
    <3>2. ~Server!Exists(LiveName)
      BY <3>1, LiveSealed DEF Files
    <3> QED  BY <2>3, <3>2 DEF Greets, InStep, AckedHere, Streaming, Draining, Server!Exists
  <2>4. CASE seg[t].phase = "live" /\ \E p : seg'[t] = [seg[t] EXCEPT !.pending = p]
    BY <1>1, <1>2, <2>4 DEF Files, Greets, InStep, AckedHere, Server!Exists
  <2> QED  BY <1>1, <2>1, <2>2, <2>3, <2>4 DEF Managed
<1>4. LiveOwned'
  <2> SUFFICES ASSUME Server!Exists(LiveName)
               PROVE  \E t \in Seg : seg'[t].phase \in {"live", "seal"} /\ Path(t)' = LiveName
    BY DEF LiveOwned, Server!Exists
  <2>1. PICK t \in Seg : seg[t].phase \in {"live", "seal"} /\ Path(t) = LiveName
    BY DEF Files, LiveOwned
  <2>2. ~OpenFirst /\ ~SealWaited
    BY LiveSealed DEF Files
  <2>3. CASE Poll \/ OpenKnown \/ OpenRotated \/ NoMarkerYet \/ Scan
    <3>1. seg' \in {seg, Reaped}
      BY <2>3 DEF Poll, OpenKnown, OpenRotated, NoMarkerYet, Scan
    <3>2. seg'[t] = seg[t]
      BY <2>1, <3>1, ReapedType
    <3> QED  BY <1>1, <2>1, <3>2 DEF Path
  <2>4. CASE LearnIso \/ GraceExpired
    <3>1. PICK n, iso : RequestSeal(n, iso) /\ coord.pc \in {"learn", "grace"}
      BY <2>4 DEF LearnIso, GraceExpired
    <3>2. t = coord.live
      BY <2>1, LiveHolder DEF Sealed, Closing
    <3>3. PICK p : seg[t].phase = "live" /\ seg'[t] = [seg[t] EXCEPT !.pending = p]
      BY <3>1, <3>2, SealManages DEF Course
    <3>4. seg'[t].phase = "live" /\ Path(t)' = Path(t)
      BY <1>2, <3>3
    <3> QED  BY <2>1, <3>4
  <2> QED  BY <2>2, <2>3, <2>4, NeverMissing DEF CoordStep
<1> QED  BY <1>3, <1>4 DEF Files

-----------------------------------------------------------------------------
(* How far the files are: the steps of the server *)

\* A segment that ships holds the name its file has, and the one it is to have.
LEMMA PathOwned ==
  ASSUME NEW s \in Seg, Shape(seg[s], wire[s]), seg[s].phase \in Streaming
  PROVE  /\ Path(s) \in Names(s) /\ Path(s) \in AgentName
         /\ seg[s].io = "renaming" => Dest(s) \in Names(s) /\ Dest(s) \in AgentName
<1>1. seg[s].target \in Names(s) /\ seg[s].target \in AgentName
  BY TargetHeld DEF Streaming, Draining
<1>2. ASSUME seg[s].io = "renaming"
      PROVE  Dest(s) \in Names(s) /\ Dest(s) \in AgentName
  <2>1. seg[s].phase \in {"seal", "final"}
    BY <1>2 DEF Shape, Kinds, Streaming, Draining
  <2>2. /\ seg[s].pending # None /\ seg[s].pending.name \in AgentName
        /\ seg[s].phase = "final" => seg[s].pending.iso \in Inode
    BY <2>1, SegmentFields DEF Shape, Sealed, Closing
  <2> QED  BY <2>1, <2>2, NamesType DEF Dest, Names
<1>3. Path(s) = seg[s].target \/ (Path(s) = Dest(s) /\ seg[s].io = "renaming")
  BY DEF Path, ServedPath, Dest
<1> QED  BY <1>1, <1>2, <1>3

\* What a handler does is nothing to the other segments.
LEMMA OthersFiles ==
  ASSUME Typed, Named, NEW s \in Seg, NEW t \in Seg, t # s,
         \A n \in AgentName \ Names(s) : Stays(n),
         UNCHANGED <<seg, acked>>, wire'[t] = wire[t],
         Greets(t), InStep(t), AckedHere(t)
  PROVE  /\ Greets(t)' /\ InStep(t)' /\ AckedHere(t)'
         /\ Path(t)' = Path(t)
<1>1. Shape(seg[t], wire[t])
  BY DEF Typed
<1>2. \A n \in Names(t) : Stays(n)
  BY DEF Named, NamesApart, Names
<1>3. Path(t)' = Path(t) /\ Dest(t)' = Dest(t) /\ Reached(t)' = Reached(t)
  BY DEF Path, Dest, Reached
<1>4. Greets(t)'
  <2>1. seg[t].phase \in {"born", "greet"} => LiveName \in Names(t)
    BY NamesType DEF Names, Sealed, Closing
  <2> QED  BY <1>2, <2>1 DEF Greets, Stays
<1>5. CASE seg[t].phase \notin Streaming
  BY <1>3, <1>4, <1>5 DEF InStep, AckedHere
<1>6. CASE seg[t].phase \in Streaming
  <2>1. Stays(Path(t)) /\ (seg[t].io = "renaming" => Stays(Dest(t)))
    BY <1>1, <1>2, <1>6, PathOwned
  <2>2. InStep(t)'
    BY <1>3, <1>6, <2>1 DEF InStep, Stays, Server!Exists
  <2>3. AckedHere(t)'
    BY <1>3, <2>1 DEF AckedHere, Stays, Server!Exists
  <2> QED  BY <1>3, <1>4, <2>2, <2>3
<1> QED  BY <1>5, <1>6

\* A step of a handler that leaves the files alone, and the segment where it is.
LEMMA QuietFiles ==
  ASSUME Typed, Named, Files, NEW s \in Seg, NEW w, wire' = [wire EXCEPT ![s] = w],
         UNCHANGED <<seg, acked, dir, content>>,
         Path(s)' = Path(s), Greets(s)', InStep(s)'
  PROVE  Files'
<1>1. \A t \in Seg \ {s} : wire'[t] = wire[t]
  BY DEF Typed, AgentOK
<1>2. \A t \in Seg \ {s} : Greets(t)' /\ InStep(t)' /\ AckedHere(t)' /\ Path(t)' = Path(t)
  BY <1>1, OthersFiles DEF Files, Stays, Server!Exists
<1>3. AckedHere(s)'
  BY DEF Files, AckedHere, Server!Exists
<1>4. LiveOwned'
  BY <1>2 DEF Files, LiveOwned, Server!Exists
<1> QED  BY <1>2, <1>3, <1>4 DEF Files

\* A segment that reconnects, or connects, is greeted.
LEMMA AcceptFiles ==
  ASSUME Typed, Named, Files, NEW s \in Seg, Accept(s), UNCHANGED <<seg, acked>>
  PROVE  Files'
<1>1. Shape(seg[s], wire[s])
  BY DEF Typed
<1>2. PICK w : wire' = [wire EXCEPT ![s] = w] /\ w.kind = "greeting"
  <2>1. \A l, p : Greeting(l, p).kind = "greeting"
    BY DEF Greeting
  <2> QED  BY <2>1 DEF Accept, Reply
<1>3. wire'[s] = w /\ w # Broken
  BY <1>2, Built DEF Typed, AgentOK
<1>4. UNCHANGED <<dir, content>>
  BY DEF Accept, Server!Hello, Server!files
<1>5. seg[s].phase \in Streaming => seg[s].io \in {"resuming", "assuming"}
  BY <1>1 DEF Accept, Shape, Kinds, Streaming, Draining
<1>6. Path(s)' = Path(s)
  BY <1>2, <1>3 DEF Path, ServedPath, Accept
<1>7. Greets(s)'
  BY <1>3, <1>4 DEF Files, Greets, Server!Exists
<1>8. InStep(s)'
  BY <1>4, <1>5, <1>6 DEF Files, InStep, Server!Exists
<1> QED  BY <1>2, <1>4, <1>6, <1>7, <1>8, QuietFiles

\* A request is refused: there is no file to serve it on.
LEMMA RefusedFiles ==
  ASSUME Typed, Named, Files, NEW s \in Seg, Reply(s, Broken),
         UNCHANGED <<seg, acked, dir, content>>,
         wire[s].kind \in {"data", "rename"}, seg[s].phase \in Streaming,
         ~Server!Exists(seg[s].target),
         seg[s].io = "renaming" => ~Server!Exists(Dest(s))
  PROVE  Files'
<1>1. Shape(seg[s], wire[s])
  BY DEF Typed
<1>2. wire' = [wire EXCEPT ![s] = Broken] /\ wire'[s] = Broken
  BY DEF Reply, Typed, AgentOK
<1>3. Path(s) = seg[s].target /\ Path(s)' = seg[s].target /\ Dest(s)' = Dest(s)
  BY <1>2, Built DEF Path, ServedPath, Dest
<1>4. seg[s].io # "ready"
  BY <1>1 DEF Shape, Kinds, Streaming, Draining
<1>5. Greets(s)'
  BY DEF Files, Greets, Streaming, Draining, Server!Exists
<1>6. InStep(s)'
  BY <1>3, <1>4 DEF InStep, Server!Exists
<1> QED  BY <1>2, <1>3, <1>5, <1>6, QuietFiles

\* A file is created for the segment that sends the first frame.
LEMMA CreateFiles ==
  ASSUME Typed, Named, Files, NEW s \in Seg, wire[s].kind = "data",
         Server!BeginCreate(s, wire[s].off, wire[s].data), UNCHANGED <<seg, wire, acked>>
  PROVE  Files'
<1> DEFINE t == seg[s].target
<1>1. /\ seg[s].io = "sending" /\ seg[s].phase \in Draining
      /\ t \in Names(s) /\ t \in AgentName
      /\ ~Server!Exists(t) /\ dir'[t] # None /\ content'[dir'[t]] = <<>>
      /\ \A n \in AgentName : n # t => Stays(n)
      /\ wire[s].off = 0
  BY CreateEffect DEF Server!BeginCreate
<1>2. Path(s) = t /\ Path(s)' = t /\ Reached(s)' = 0
  BY <1>1 DEF Path, ServedPath, Reached
<1>3. \A u \in Seg \ {s} : Greets(u)' /\ InStep(u)' /\ AckedHere(u)' /\ Path(u)' = Path(u)
  BY <1>1, OthersFiles DEF Files
<1>4. InStep(s)' /\ AckedHere(s)' /\ Greets(s)'
  <2>1. wire[s] # Broken /\ Len(content'[dir'[t]]) = 0
    BY <1>1, Built
  <2> QED  BY <1>1, <1>2, <2>1 DEF InStep, AckedHere, Greets, Draining, Server!Exists
<1>5. LiveOwned'
  <2>1. CASE t = LiveName
    <3>1. seg[s].phase \in {"live", "seal"}
      <4>1. Shape(seg[s], wire[s])
        BY DEF Typed
      <4>2. seg[s].phase \in {"orphan", "await", "final"} => t = seg[s].pending.name
        BY <1>1, <4>1 DEF Shape, Target, Sealed, Closing
      <4>3. seg[s].phase \in {"orphan", "await", "final"} => seg[s].pending.name # LiveName
        BY <4>1, NameFacts DEF Shape, Plan, Sealed, Closing
      <4> QED  BY <1>1, <2>1, <4>2, <4>3 DEF Draining
    <3> QED  BY <1>2, <2>1, <3>1 DEF LiveOwned
  <2>2. CASE t # LiveName
    BY <1>1, <1>2, <1>3, <2>2, NamesType DEF Files, LiveOwned, Stays
  <2> QED  BY <2>1, <2>2
<1> QED  BY <1>3, <1>4, <1>5 DEF Files

\* A frame that is written brings the file to where the stream is.
LEMMA ApplyFiles ==
  ASSUME Typed, Named, Settled, Copied, Files, NEW s \in Seg, Server!Apply(s), Reply(s, OkReply),
         UNCHANGED <<seg, acked>>
  PROVE  Files'
<1> DEFINE t == seg[s].target
<1>1. /\ seg[s].io = "sending" /\ seg[s].phase \in Draining /\ wire[s].kind = "data"
      /\ wire'[s] = OkReply
      /\ t \in Names(s) /\ t \in AgentName /\ Server!Exists(t)
      /\ \A n \in AgentName : n # t => Stays(n)
      /\ dir' = dir
      /\ seg[s].inode \in Inode /\ seg[s].pos \in Nat
      /\ content'[dir[t]] = FirstBytes(seg[s].inode, seg[s].pos)
  <2>1. OwnCopies(s)
    BY DEF Copied
  <2>2. seg[s].phase \in Draining /\ seg[s].pos \in 0..MaxSize
    BY <2>1, ApplyEffect
  <2>3. seg[s].inode \in Inode
    BY <2>2 DEF Typed, Shape, Draining
  <2> QED  BY <2>1, <2>2, <2>3, ApplyEffect
<1>2. Len(content'[dir[t]]) = seg[s].pos
  <2>1. seg[s].inode \in Inode /\ seg[s].pos \in Nat
    BY <1>1
  <2>2. Len(FirstBytes(seg[s].inode, seg[s].pos)) = seg[s].pos
    BY <2>1, HeadFacts
  <2> QED  BY <1>1, <2>2
<1>3. Path(s) = t /\ Path(s)' = t /\ Reached(s)' = seg[s].pos
  BY <1>1, Built DEF Path, ServedPath, Reached
<1>4. \A u \in Seg \ {s} : Greets(u)' /\ InStep(u)' /\ AckedHere(u)' /\ Path(u)' = Path(u)
  BY <1>1, ApplyEffect, OthersFiles DEF Files, Copied
<1>5. InStep(s)' /\ AckedHere(s)' /\ Greets(s)'
  BY <1>1, <1>2, <1>3, Built DEF InStep, AckedHere, Greets, Draining, Server!Exists
<1>6. LiveOwned'
  BY <1>1, <1>3, <1>4 DEF Files, LiveOwned, Server!Exists
<1> QED  BY <1>4, <1>5, <1>6 DEF Files

\* No frame is refused for its offset, which is where the handler is, nor for its
\* payload.
LEMMA Acceptance ==
  ASSUME Typed, Named, Settled, Files, NEW s \in Seg
  PROVE  ~Server!ApplyReject(s)
<1> SUFFICES ASSUME Server!ApplyReject(s) PROVE FALSE
  OBVIOUS
<1> DEFINE h == handler[s]
<1>1. /\ Shape(seg[s], wire[s]) /\ Session(wire[s], h) /\ h.st = "inflating"
      /\ Server!WellFormed(h) /\ wire[s] \in Message
  BY DEF Typed, AgentOK, DiskOK, Server!TypeOK, Server!ApplyReject
<1>2. /\ wire[s].kind = "data" /\ h.frame = [off |-> wire[s].off, data |-> wire[s].data] /\ ~h.gone
  BY <1>1 DEF Session
<1>3. seg[s].io = "sending" /\ seg[s].phase \in Draining
  BY <1>1, <1>2 DEF Shape, Kinds, Draining, Sealed, Closing
<1>4. Path(s) = seg[s].target /\ Reached(s) = wire[s].off
  BY <1>2 DEF Path, ServedPath, Reached
<1>5. h.path = seg[s].target /\ h.fd = dir[seg[s].target] /\ h.fd # None
  BY <1>1, <1>2, <1>3 DEF Named, PathOK, ServedPath, Draining, Server!WellFormed
<1>6. Len(content[h.fd]) = wire[s].off
  BY <1>3, <1>4, <1>5 DEF Files, InStep, Streaming, Server!Exists
<1>7. h.pos = Len(content[h.fd])
  <2>1. s \in S!Attended
    BY <1>1, <1>2 DEF S!Attended, S!Open
  <2> QED  BY <1>5, <2>1 DEF Settled, S!Prompt, S!AtEnd
<1>8. wire[s].data # Garbled
  BY <1>1, <1>2, ByKind, LoglineAssumption DEF DataReqs
<1> QED  BY <1>2, <1>6, <1>7, <1>8 DEF Server!ApplyReject, Server!Acceptable

\* A rename takes the file where the segment takes it to be.
LEMMA RenameFiles ==
  ASSUME Typed, Named, Files, NEW s \in Seg, wire[s].kind = "rename",
         Server!Rename(s, wire[s].from, wire[s].to), Reply(s, OkReply),
         UNCHANGED <<seg, acked>>
  PROVE  Files'
<1> DEFINE from == wire[s].from
           to   == wire[s].to
<1>1. /\ from \in Names(s) /\ to \in Names(s) /\ from \in AgentName /\ to \in AgentName
      /\ from # to /\ from = seg[s].target
      /\ Server!Exists(from) /\ dir'[from] = None
      /\ dir'[to] = dir[from] /\ content' = content
      /\ \A n \in AgentName : n # from /\ n # to => Stays(n)
  BY RenameEffect
<1>2. Shape(seg[s], wire[s]) /\ wire \in [Seg -> Message]
  BY DEF Typed, AgentOK
<1>3. /\ seg[s].io = "renaming" /\ seg[s].phase \in {"seal", "final"} /\ to = Dest(s)
  BY <1>2 DEF Shape, Kinds, Files, Greets, Dest
<1>4. wire'[s] = OkReply /\ \A u \in Seg \ {s} : wire'[u] = wire[u]
  BY <1>2 DEF Reply
<1>5. /\ Path(s) = from /\ Path(s)' = to
      /\ Reached(s) = seg[s].pos /\ Reached(s)' = seg[s].pos
  BY <1>1, <1>3, <1>4, Built DEF Path, ServedPath, Dest, Reached
<1>6. \A u \in Seg \ {s} : Greets(u)' /\ InStep(u)' /\ AckedHere(u)' /\ Path(u)' = Path(u)
  BY <1>1, <1>4, OthersFiles DEF Files
<1>7. Len(content[dir[from]]) = seg[s].pos
  BY <1>1, <1>3, <1>5 DEF Files, InStep, Streaming, Draining, Server!Exists
<1>8. dir'[to] # None
  BY <1>1 DEF Server!Exists
<1>9. InStep(s)' /\ AckedHere(s)' /\ Greets(s)'
  BY <1>1, <1>3, <1>4, <1>5, <1>7, <1>8, Built DEF InStep, AckedHere, Greets, Server!Exists
<1>10. to # LiveName
  <2>1. /\ seg[s].pending # None /\ Plan(seg[s].pending)
        /\ seg[s].phase = "final" => seg[s].pending.iso \in Inode
    BY <1>2, <1>3 DEF Shape, Sealed, Closing
  <2> QED  BY <1>3, <2>1, NameFacts DEF Dest, Plan
<1>11. LiveOwned'
  <2> SUFFICES ASSUME dir'[LiveName] # None
               PROVE  \E u \in Seg : seg[u].phase \in {"live", "seal"} /\ Path(u)' = LiveName
    BY DEF LiveOwned, Server!Exists
  <2>1. from # LiveName /\ Server!Exists(LiveName)
    BY <1>1, <1>10, NamesType DEF Stays, Server!Exists
  <2>2. PICK u \in Seg : seg[u].phase \in {"live", "seal"} /\ Path(u) = LiveName
    BY <2>1 DEF Files, LiveOwned
  <2> QED  BY <1>5, <1>6, <2>1, <2>2
<1> QED  BY <1>6, <1>9, <1>11 DEF Files

\* The steps of a handler.
LEMMA ServeFiles ==
  ASSUME Typed, Named, Settled, Copied, Files, NEW s \in Seg, Serve(s)
  PROVE  Files'
<1>1. /\ Shape(seg[s], wire[s]) /\ Session(wire[s], handler[s]) /\ Server!WellFormed(handler[s])
      /\ wire \in [Seg -> Message] /\ UNCHANGED <<seg, acked>>
  BY DEF Typed, AgentOK, DiskOK, Server!TypeOK, Serve
<1>2. CASE Accept(s)
  BY <1>1, <1>2, AcceptFiles
<1>3. CASE TakeData(s)
  <2>1. wire[s].kind = "data" /\ seg[s].io = "sending" /\ seg[s].phase \in Draining
    BY <1>1, <1>3 DEF TakeData, Shape, Kinds, Draining, Sealed, Closing
  <2>2. CASE Server!BeginOpen(s, wire[s].off, wire[s].data) /\ UNCHANGED wire
    <3>1. UNCHANGED <<dir, content>> /\ wire' = [wire EXCEPT ![s] = wire[s]]
      BY <1>1, <2>2 DEF Server!BeginOpen, Server!files
    <3>2. Path(s)' = Path(s) /\ Dest(s)' = Dest(s) /\ Reached(s)' = Reached(s)
      BY <1>1, <2>2 DEF Path, Dest, Reached
    <3>3. Greets(s)' /\ InStep(s)'
      BY <1>1, <2>2, <3>1, <3>2 DEF Files, Greets, InStep, Server!Exists
    <3> QED  BY <1>1, <3>1, <3>2, <3>3, QuietFiles
  <2>3. CASE Server!BeginCreate(s, wire[s].off, wire[s].data) /\ UNCHANGED wire
    BY <1>1, <2>1, <2>3, CreateFiles
  <2>4. CASE Server!BeginReject(s, wire[s].off) /\ Reply(s, Broken)
    <3>1. handler[s].fd = None /\ handler[s].st = "serving" /\ UNCHANGED <<dir, content>>
      BY <2>4 DEF Server!BeginReject, Server!Raise, Server!files
    <3>2. dir[seg[s].target] = None
      BY <2>1, <3>1 DEF Named, PathOK, ServedPath, Draining
    <3> QED
      BY <1>1, <2>1, <2>4, <3>1, <3>2, RefusedFiles DEF Streaming, Server!Exists
  <2> QED  BY <1>3, <2>2, <2>3, <2>4 DEF TakeData
<1>4. CASE FinishData(s)
  BY <1>1, <1>4, ApplyFiles, Acceptance DEF FinishData
<1>5. CASE TakeRename(s)
  <2>1. wire[s].kind = "rename" /\ handler[s].st = "serving"
    BY <1>5 DEF TakeRename, Server!Rename, Server!RenameNoop, Server!RenameReject
  <2>2. ~Server!Exists(wire[s].to) /\ wire[s].from = seg[s].target
    BY <2>1, RenameRequest
  <2>3. /\ seg[s].io = "renaming" /\ seg[s].phase \in {"seal", "final"} /\ wire[s].to = Dest(s)
    BY <1>1, <2>1 DEF Shape, Kinds, Files, Greets, Dest
  <2>4. CASE Server!Rename(s, wire[s].from, wire[s].to) /\ Reply(s, OkReply)
    BY <1>1, <2>1, <2>4, RenameFiles
  <2>5. CASE Server!RenameReject(s, wire[s].from, wire[s].to) /\ Reply(s, Broken)
    <3>1. ~Server!Exists(wire[s].from) /\ UNCHANGED <<dir, content>>
      BY <2>5 DEF Server!RenameReject, Server!Raise, Server!files
    <3> QED
      BY <1>1, <2>1, <2>2, <2>3, <2>5, <3>1, RefusedFiles DEF Streaming, Draining
  <2>6. ~Server!RenameNoop(s, wire[s].from, wire[s].to)
    BY <2>2 DEF Server!RenameNoop
  <2> QED  BY <1>5, <2>4, <2>5, <2>6 DEF TakeRename
<1> QED  BY <1>2, <1>3, <1>4, <1>5 DEF Serve

-----------------------------------------------------------------------------
(* Who ships what *)

\* The path rotates only once the agent ships the current inode.
LEMMA SourceCourse ==
  ASSUME Typed, Pace = "followed", Course, SourceStep
  PROVE  Course'
<1>1. UNCHANGED <<seg, coord, acked>> /\ cur \in Nat /\ made \in Nat
  BY SourceAssumption DEF SourceStep, agentVars, Typed, SourceOK, Inode, NoInode
<1>2. coord.live # None => coord.live \in Seg
  BY DEF Typed, CoordOK, Coordinator
<1>3. CASE UNCHANGED <<cur, made>>
  BY <1>1, <1>3 DEF Course, Following, Apart, Counted, Active
<1>4. CASE MoveAside
  <2>1. UNCHANGED made /\ cur' = NoInode /\ cur # NoInode
    BY <1>4 DEF MoveAside
  <2>2. Followed
    BY <2>1 DEF SourceStep, MayRotate
  <2>3. Following'
    BY <1>1, <1>2, <2>1, <2>2 DEF Course, Following, Followed
  <2> QED  BY <1>1, <2>1, <2>3 DEF Course, Apart, Counted, Active
<1>5. CASE CreateNew
  <2>1. cur = 0 /\ made' = made + 1 /\ cur' = made + 1
    BY <1>5 DEF CreateNew, NoInode
  <2>2. coord.pc = "loop"
    BY <2>1 DEF Course, Following, NoInode
  <2>3. CASE coord.live = None
    <3>1. made = 0 /\ \A s \in Seg : seg[s].phase = "off"
      BY <2>1, <2>3 DEF Course, Following
    <3>2. Following'
      BY <1>1, <2>1, <2>2, <2>3, <3>1 DEF Following
    <3>3. Apart'
      BY <1>1, <3>1 DEF Apart, Active
    <3>4. Counted'
      BY <1>1, <2>3, <3>1, SourceAssumption DEF Course, Counted, Inode
    <3> QED  BY <3>2, <3>3, <3>4 DEF Course
  <2>4. CASE coord.live # None
    <3>1. seg[coord.live].inode \in Inode
      BY <1>2, <2>2, <2>4 DEF Typed, Shape, Course, Following
    <3>2. coord.last = made /\ seg[coord.live].inode = coord.last /\ seg[coord.live].phase = "live"
      BY <1>1, <2>1, <2>2, <2>4, <3>1, SourceAssumption DEF Course, Following, Inode
    <3>3. Following'
      BY <1>1, <2>1, <2>2, <2>4, <3>2 DEF Following
    <3>4. \A i \in Inode : i < made => i < made'
      BY <1>1, <2>1, SourceAssumption DEF Inode
    <3>5. \A s \in Seg : Active(s) => seg[s].inode \in Inode
      BY DEF Active, Typed, Shape
    <3> QED  BY <1>1, <3>3, <3>4, <3>5 DEF Course, Apart, Counted, Active
  <2> QED  BY <2>3, <2>4
<1> QED
  BY <1>3, <1>4, <1>5 DEF SourceStep, SourceNext, Grow, WaitingMarker, DoneMarker

\* A new segment is given the inode that is current, and the one before is complete.
LEMMA StartCourse ==
  ASSUME Typed, Typed', Course, OpenFirst \/ SealWaited, UNCHANGED sourceVars
  PROVE  Course'
<1>1. /\ cur = made /\ cur # NoInode /\ coord.found = made /\ made \in Inode
      /\ UNCHANGED <<cur, made, acked>> /\ coord.pc # "loop"
  BY DEF Course, Following, OpenFirst, SealWaited, sourceVars, Typed, SourceOK
<1>2. Start(made, coord.consumed)
  BY <1>1 DEF OpenFirst, SealWaited, Course, Following
<1>3. PICK s \in Seg :
        /\ coord'.live = s /\ coord'.pc = "loop" /\ coord'.last = coord.found
        /\ seg'[s].phase = "born" /\ seg'[s].inode = made
        /\ \A t \in Seg \ {s} :
             \/ seg'[t] = seg[t] /\ (t = coord.live => seg[t].phase # "done")
             \/ t = coord.live /\ seg[t].phase = "done" /\ seg'[t] = Off
  BY <1>1, <1>2, StartManages
<1>4. \A t \in Seg : Active(t) => seg[t].inode < made
  <2> SUFFICES ASSUME NEW t \in Seg, Active(t), t = coord.live PROVE seg[t].inode < made
    BY DEF Course, Apart
  <2>1. seg[t].inode = made - 1
    BY <1>1, AgentAssumption DEF Course, Following, Active
  <2> QED  BY <1>1, <2>1, SourceAssumption DEF Inode
<1>5. Following'
  <2>1. s # None
    BY AgentAssumption
  <2> QED  BY <1>1, <1>3, <2>1 DEF Following
<1>6. \A t \in Seg \ {s} : Active(t)' => Active(t) /\ seg'[t] = seg[t]
  BY <1>3, OffFields DEF Active
<1>7. Apart'
  <2>1. \A t \in Seg \ {s} : Active(t)' => seg'[t].inode < made /\ seg'[t].inode # made
    <3> SUFFICES ASSUME NEW t \in Seg, t # s, Active(t)'
                 PROVE  seg'[t].inode < made /\ seg'[t].inode # made
      OBVIOUS
    <3>1. Active(t) /\ seg'[t] = seg[t]
      BY <1>6
    <3>2. seg[t].inode < made /\ seg[t].inode \in Inode
      BY <1>4, <3>1 DEF Active, Typed, Shape
    <3> QED  BY <1>1, <3>1, <3>2, SourceAssumption DEF Inode
  <2> QED  BY <1>1, <1>3, <1>6, <2>1 DEF Course, Apart
<1>8. Counted'
  BY <1>1 DEF Course, Counted
<1> QED  BY <1>5, <1>7, <1>8 DEF Course

\* What the coordinator may do but to begin a segment.
LEMMA RoundCourse ==
  ASSUME Typed, Typed', Course,
         Poll \/ OpenKnown \/ OpenRotated \/ LearnIso \/ NoMarkerYet \/ GraceExpired \/ Scan,
         UNCHANGED sourceVars
  PROVE  Course'
<1>1. UNCHANGED <<cur, made, acked>> /\ cur \in Nat /\ made \in Nat
  <2>1. UNCHANGED acked
    BY DEF Poll, OpenKnown, OpenRotated, LearnIso, NoMarkerYet, GraceExpired, Scan
  <2> QED  BY <2>1, SourceAssumption DEF sourceVars, Typed, SourceOK, Inode, NoInode
<1>2. coord \in Coordinator /\ (coord.live # None => coord.live \in Seg)
  BY DEF Typed, CoordOK, Coordinator
<1>3. ~OpenKnown
  BY DEF OpenKnown, Course, Following
<1>4. ASSUME seg' = seg, coord'.live = coord.live, Following', coord'.pc = "loop" => coord.pc = "loop",
             coord.pc = "loop" /\ coord'.pc # "loop" /\ coord.live # None => coord.last = made - 1
      PROVE  Course'
  <2>1. Apart'
    BY <1>1, <1>4 DEF Course, Apart, Active
  <2>2. Counted'
    <3> SUFFICES ASSUME NEW i \in Inode, acked[i] > 0, ~(i < made)
                 PROVE  coord'.pc = "loop" /\ coord.live # None
                        /\ seg[coord.live].inode = i /\ seg[coord.live].phase = "live"
      BY <1>1, <1>4 DEF Counted
    <3>1. coord.pc = "loop" /\ coord.live # None
          /\ seg[coord.live].inode = i /\ seg[coord.live].phase = "live"
      BY DEF Course, Counted
    <3>2. coord.last = i
      BY <3>1 DEF Course, Following
    <3>3. i \in Nat
      BY SourceAssumption DEF Inode
    <3> QED  BY <1>1, <1>4, <3>1, <3>2, <3>3
  <2> QED  BY <1>4, <2>1, <2>2 DEF Course
<1>5. CASE Poll
  <2>1. coord.live # None => seg[coord.live].phase # "done"
    BY <1>5 DEF Poll, Course, Following
  <2>2. Reaped = seg /\ seg' = seg
    BY <1>5, <2>1 DEF Poll, Reaped
  <2>3. coord' = [coord EXCEPT !.live = coord.live, !.last = coord.last,
                    !.pc = IF cur \notin {NoInode, coord.last} THEN "open" ELSE "loop",
                    !.found = IF cur \notin {NoInode, coord.last} THEN cur ELSE NoInode]
        /\ coord.pc = "loop"
    BY <1>5, <2>2 DEF Poll
  <2>4. /\ coord'.live = coord.live /\ coord'.last = coord.last
        /\ \/ cur \in {NoInode, coord.last} /\ coord'.pc = "loop"
           \/ cur \notin {NoInode, coord.last} /\ coord'.pc = "open" /\ coord'.found = cur
    BY <1>2, <2>3 DEF Coordinator
  <2>5. coord'.pc # "loop" => cur = made /\ (coord.live # None => coord.last = made - 1)
    BY <2>3, <2>4 DEF Course, Following
  <2>6. Following'
    BY <1>1, <2>2, <2>3, <2>4, <2>5 DEF Course, Following
  <2> QED  BY <1>4, <2>2, <2>3, <2>4, <2>5, <2>6
<1>6. CASE OpenRotated
  <2>1. /\ coord'.live = coord.live /\ coord'.last = coord.last /\ coord'.found = coord.found
        /\ coord'.pc = "learn" /\ coord'.opened = cur /\ coord.pc = "open" /\ coord.live # None
        /\ seg' = seg
    BY <1>2, <1>6 DEF OpenRotated, Coordinator
  <2>2. Following'
    BY <1>1, <2>1 DEF Course, Following
  <2> QED  BY <1>4, <2>1, <2>2
<1>7. CASE NoMarkerYet
  <2>1. /\ coord'.live = coord.live /\ coord'.last = coord.last /\ coord'.found = coord.found
        /\ coord'.pc = "grace" /\ coord'.opened = coord.opened /\ coord.pc = "learn"
        /\ seg' = seg
    BY <1>2, <1>7 DEF NoMarkerYet, Coordinator
  <2>2. coord.live # None
    BY <2>1 DEF Course, Following
  <2>3. Following'
    BY <1>1, <2>1, <2>2 DEF Course, Following
  <2> QED  BY <1>4, <2>1, <2>3
<1>8. CASE Scan
  <2>1. seg' = seg /\ coord' = coord
    BY <1>8 DEF Scan
  <2>2. Following'
    BY <1>1, <2>1 DEF Course, Following
  <2>3. Apart' /\ Counted'
    BY <1>1, <2>1 DEF Course, Apart, Counted, Active
  <2> QED  BY <2>2, <2>3 DEF Course
<1>9. CASE LearnIso \/ GraceExpired
  <2>1. PICK n, iso : RequestSeal(n, iso) /\ coord.pc \in {"learn", "grace"}
    BY <1>9 DEF LearnIso, GraceExpired
  <2>2. /\ coord.live \in Seg /\ seg[coord.live].phase = "live"
        /\ seg'[coord.live] = [seg[coord.live] EXCEPT !.pending = [name |-> n, iso |-> iso]]
        /\ \A t \in Seg : t # coord.live => seg'[t] = seg[t]
    BY <2>1, SealManages DEF Course
  <2>3. seg'[coord.live].phase = "live" /\ seg'[coord.live].inode = seg[coord.live].inode
    BY <2>2 DEF Typed, Shape, Segment
  <2>4. /\ coord'.live = coord.live /\ coord'.last = coord.last /\ coord'.found = coord.found
        /\ coord'.pc = "wait" /\ coord'.opened = coord.opened
    BY <1>2, <2>1 DEF RequestSeal, Coordinator
  <2>5. coord.live # None
    BY <2>2, AgentAssumption
  <2>6. \A t \in Seg : seg'[t].phase = seg[t].phase /\ seg'[t].inode = seg[t].inode
    BY <2>2, <2>3
  <2>7. Following'
    BY <1>1, <2>1, <2>2, <2>3, <2>4, <2>5 DEF Course, Following
  <2>8. Apart'
    BY <1>1, <2>4, <2>6 DEF Course, Apart, Active
  <2>9. Counted'
    BY <1>1, <2>1 DEF Course, Counted
  <2> QED  BY <2>7, <2>8, <2>9 DEF Course
<1> QED  BY <1>3, <1>5, <1>6, <1>7, <1>8, <1>9

\* A segment ships one inode, and seals its file only when it is asked to.
LEMMA SegmentCourse ==
  ASSUME Typed, Typed', Course, NEW s \in Seg, SegmentStep(s), Turn(s), UNCHANGED sourceVars
  PROVE  Course'
<1>1. /\ UNCHANGED <<cur, made, coord>> /\ made \in Nat
      /\ seg[s].phase \notin {"off", "done"}
  BY SegmentRest, Awake, SourceAssumption DEF sourceVars, Typed, SourceOK
<1>2. PICK r, w : Put(s, r, w) /\ Becomes(s, r, w)
  BY SegmentEffect
<1>3. \A t \in Seg \ {s} : seg'[t] = seg[t]
  BY <1>2, PutSlot
<1>4. Active(s)' => seg'[s].inode = seg[s].inode
  BY DEF Turn, Active
<1>5. s = coord.live => seg'[s].phase # "off"
  BY <1>2, PutSlot DEF Becomes
<1>6. coord.live # None /\ Active(s)
  BY <1>1 DEF Course, Following, Active
<1>7. s = coord.live =>
        /\ seg[s].phase = "live" /\ coord.pc # "wait" => seg'[s].phase = "live"
        /\ coord.pc = "loop" => seg'[s].phase \in {"greet", "live"} /\ seg'[s].inode = seg[s].inode
        /\ coord.pc # "loop" => \/ seg'[s].phase = "done"
                                \/ seg'[s].phase \in Streaming /\ seg'[s].inode = seg[s].inode
  <2> SUFFICES ASSUME s = coord.live
               PROVE  /\ seg[s].phase = "live" /\ coord.pc # "wait" => seg'[s].phase = "live"
                      /\ coord.pc = "loop" =>
                           seg'[s].phase \in {"greet", "live"} /\ seg'[s].inode = seg[s].inode
                      /\ coord.pc # "loop" =>
                           \/ seg'[s].phase = "done"
                           \/ seg'[s].phase \in Streaming /\ seg'[s].inode = seg[s].inode
    OBVIOUS
  <2>1. coord.pc # "wait" => seg[s].pending = None
    BY <1>6 DEF Typed, CoordOK
  <2>2. coord.pc = "loop" => seg[s].phase \in {"born", "greet", "live"}
    BY <1>6 DEF Course, Following
  <2>3. coord.pc # "loop" => seg[s].phase \notin {"born", "greet", "aside", "regreet"}
    BY <1>6 DEF Course, Following
  <2>4. seg[s].phase = "live" /\ coord.pc # "wait" => seg'[s].phase = "live"
    BY <2>1 DEF Turn, Onward, Sealed, Closing
  <2>5. coord.pc = "loop" => seg'[s].phase \in {"greet", "live"} /\ seg'[s].inode = seg[s].inode
    BY <2>2, <2>4 DEF Turn, Streaming, Draining, Sealed, Closing
  <2>6. coord.pc # "loop" => \/ seg'[s].phase = "done"
                             \/ seg'[s].phase \in Streaming /\ seg'[s].inode = seg[s].inode
    BY <1>5, <2>3 DEF Turn
  <2> QED  BY <2>4, <2>5, <2>6
<1>8. Following'
  <2>1. CASE s # coord.live
    <3>1. coord.live \in Seg
      BY <1>6 DEF Typed, CoordOK, Coordinator
    <3> QED  BY <1>1, <1>3, <1>6, <2>1, <3>1 DEF Course, Following
  <2>2. CASE s = coord.live
    <3>1. coord.pc # "loop" => seg[s].inode = made - 1
      BY <1>1, <1>6, <2>2 DEF Course, Following
    <3>2. coord.pc # "loop" /\ coord.pc # "wait" => seg[s].phase = "live"
      BY <1>6, <2>2 DEF Course, Following
    <3>3. CASE coord.pc = "loop"
      BY <1>1, <1>6, <1>7, <2>2, <3>3 DEF Course, Following
    <3>4. CASE coord.pc # "loop"
      <4>1. /\ seg'[s].phase = "done" \/ seg'[s].inode = made - 1
            /\ coord.pc = "wait" \/ seg'[s].phase = "live"
            /\ seg'[s].phase \notin {"born", "greet", "aside", "regreet"}
        BY <1>7, <2>2, <3>1, <3>2, <3>4 DEF Streaming, Draining
      <4> QED  BY <1>1, <1>6, <2>2, <3>4, <4>1 DEF Course, Following
    <3> QED  BY <3>3, <3>4
  <2> QED  BY <2>1, <2>2
<1>9. Apart'
  <2>1. \A t \in Seg : Active(t)' => Active(t) /\ seg'[t].inode = seg[t].inode
    BY <1>3, <1>4, <1>6 DEF Active
  <2> QED  BY <1>1, <2>1 DEF Course, Apart
<1>10. Counted'
  <2> SUFFICES ASSUME NEW i \in Inode, acked'[i] > 0, ~(i < made)
               PROVE  /\ coord.pc = "loop" /\ seg'[coord.live].inode = i
                      /\ seg'[coord.live].phase = "live"
    BY <1>1, <1>6 DEF Counted
  <2>1. CASE acked[i] > 0
    <3>1. /\ coord.pc = "loop" /\ seg[coord.live].inode = i /\ seg[coord.live].phase = "live"
          /\ coord.live \in Seg
      BY <1>6, <2>1 DEF Course, Counted, Typed, CoordOK, Coordinator
    <3> QED  BY <1>3, <1>7, <3>1
  <2>2. CASE ~(acked[i] > 0)
    <3>1. Sent(s)
      BY <2>2, AckedEffect
    <3>2. i = seg[s].inode
      <4>1. \E n : acked' = [acked EXCEPT ![seg[s].inode] = n]
        BY <3>1 DEF Sent
      <4> QED  BY <2>2, <4>1 DEF Typed, AgentOK
    <3>3. s = coord.live
      BY <1>6, <3>2 DEF Course, Apart
    <3>4. coord.pc = "loop"
      <4>1. coord.pc # "loop" => seg[s].inode = made - 1
        BY <1>1, <1>6, <3>3 DEF Course, Following
      <4> QED  BY <1>1, <3>2, <4>1, SourceAssumption DEF Inode
    <3>5. seg[s].phase = "live"
      <4>1. seg[s].phase \notin {"born", "greet"}
        BY <3>1, Built DEF Typed, Shape, Kinds, Sent
      <4> QED  BY <1>6, <3>3, <3>4, <4>1 DEF Course, Following
    <3> QED  BY <1>7, <3>2, <3>3, <3>4, <3>5
  <2> QED  BY <2>1, <2>2
<1> QED  BY <1>8, <1>9, <1>10 DEF Course

-----------------------------------------------------------------------------
(* All steps, as long as nothing has failed *)

\* The invariant; the failures are counted.
Steady ==
  /\ Served
  /\ crashes \in Nat /\ drops \in Nat
  /\ Calm => ~lapsed /\ Copied /\ Course /\ Files

\* What has failed stays so.
LEMMA CalmBefore ==
  ASSUME Steady, [Next]_vars, Calm'
  PROVE  Calm /\ ~Agent(Killed) /\ ~Drop /\ ~Outage
<1>1. crashes \in Nat /\ drops \in Nat
  BY DEF Steady
<1>2. ~Agent(Killed) /\ ~Drop /\ ~Outage
  BY <1>1 DEF Calm, Agent, Killed, Drop, Outage
<1>3. UNCHANGED <<ephemeral, crashes, drops>>
  <2>1. CASE UNCHANGED vars \/ SourceStep \/ \E s \in Seg : Serve(s)
    BY <2>1 DEF vars, agentVars, failureVars, SourceStep, Serve
  <2>2. ASSUME NEW s \in Seg, Run(s) PROVE UNCHANGED <<ephemeral, crashes, drops>>
    BY <2>2, SegmentRest DEF Run, Agent, failureVars, Steady, Served, Ordered
  <2>3. CASE Coordinate \/ Agent(Scan)
    BY <2>3 DEF Coordinate, Agent, failureVars, CoordStep, Poll, OpenKnown, OpenFirst, OpenRotated,
                OpenFailed, LearnIso, NoMarkerYet, GraceExpired, SealWaited, Scan
  <2> QED  BY <1>2, <2>1, <2>2, <2>3 DEF Next
<1> QED  BY <1>2, <1>3 DEF Calm

\* Nothing that has been consumed is forgotten.
LEMMA NothingLapses ==
  ASSUME Typed, Course, ~lapsed, [Next]_vars, ~Agent(Killed), ~Drop, ~Outage
  PROVE  ~lapsed'
<1>1. CASE UNCHANGED vars \/ SourceStep \/ \E s \in Seg : Serve(s)
  BY <1>1 DEF vars, SourceStep, Serve
<1>2. ASSUME NEW s \in Seg, Run(s) PROVE ~lapsed'
  BY <1>2, SegmentRest DEF Run, Agent
<1>3. ASSUME Coordinate \/ Agent(Scan), coord.consumed \subseteq coord'.consumed PROVE ~lapsed'
  BY <1>3 DEF Coordinate, Agent
<1>4. ASSUME Coordinate \/ Agent(Scan) PROVE coord.consumed \subseteq coord'.consumed
  <2>1. coord \in Coordinator
    BY DEF Typed, CoordOK
  <2>2. CASE Poll \/ OpenKnown \/ OpenRotated \/ NoMarkerYet \/ Scan
    BY <2>1, <2>2 DEF Poll, OpenKnown, OpenRotated, NoMarkerYet, Scan, Coordinator
  <2>3. CASE OpenFirst \/ SealWaited
    <3>1. PICK i : Start(i, coord.consumed)
      BY <2>3 DEF OpenFirst, SealWaited
    <3>2. coord'.consumed = coord.consumed
      BY <2>1, <3>1 DEF Start, Coordinator
    <3> QED  BY <3>2
  <2>4. CASE LearnIso \/ GraceExpired
    <3>1. PICK n, iso : RequestSeal(n, iso)
      BY <2>4 DEF LearnIso, GraceExpired
    <3>2. coord'.consumed \in {coord.consumed, coord.consumed \cup {iso}}
      BY <2>1, <3>1 DEF RequestSeal, Coordinator
    <3> QED  BY <3>2
  <2> QED  BY <1>4, <2>2, <2>3, <2>4, NeverMissing DEF Coordinate, Agent, CoordStep
<1> QED  BY <1>1, <1>2, <1>3, <1>4 DEF Next

\* Every step keeps the agent in step with the path, and the files with the agent.
LEMMA NextSteady ==
  ASSUME Pace = "followed", Steady, [Next]_vars, Served'
  PROVE  Steady'
<1>1. crashes' \in Nat /\ drops' \in Nat
  <2>1. crashes \in Nat /\ drops \in Nat /\ Typed
    BY DEF Steady, Served, Ordered
  <2>2. CASE UNCHANGED vars \/ SourceStep \/ Drop \/ Outage \/ \E s \in Seg : Serve(s)
    BY <2>1, <2>2 DEF vars, agentVars, failureVars, SourceStep, Serve, Drop, Outage
  <2>3. ASSUME NEW s \in Seg, Run(s) PROVE crashes' \in Nat /\ drops' \in Nat
    BY <2>1, <2>3, SegmentRest DEF Run, Agent, failureVars
  <2>4. CASE Coordinate \/ Agent(Scan) \/ Agent(Killed)
    BY <2>1, <2>4 DEF Coordinate, Agent, failureVars, CoordStep, Poll, OpenKnown, OpenFirst,
                OpenRotated, OpenFailed, LearnIso, NoMarkerYet, GraceExpired, SealWaited, Scan, Killed
  <2> QED  BY <2>2, <2>3, <2>4 DEF Next
<1> SUFFICES ASSUME Calm' PROVE ~lapsed' /\ Copied' /\ Course' /\ Files'
  BY <1>1 DEF Steady
<1>2. Calm /\ ~Agent(Killed) /\ ~Drop /\ ~Outage
  BY CalmBefore
<1>3. ~lapsed /\ Copied /\ Course /\ Files /\ Typed /\ Typed' /\ Orderly /\ ~ephemeral
  BY <1>2 DEF Steady, Served, Ordered, Calm, Orderly
<1>4. Named /\ Settled
  BY <1>3 DEF Steady, Served, Ordered
<1>5. ~lapsed'
  BY <1>2, <1>3, NothingLapses
<1>6. Named'
  BY <1>5 DEF Served, Ordered, Orderly, Calm
<1>7. Recognised
  BY <1>3 DEF Files, Greets, Recognised
<1>8. Copied'
  BY <1>3, <1>4, <1>6, <1>7, NextCopied
<1>9. CASE UNCHANGED vars
  <2>1. UNCHANGED <<seg, coord, wire, acked, cur, made, dir, content>>
    BY <1>9 DEF vars, agentVars, sourceVars, serverVars
  <2>2. Course'
    BY <1>3, <2>1 DEF Course, Following, Apart, Counted, Active
  <2>3. \A s \in Seg : Path(s)' = Path(s) /\ Dest(s)' = Dest(s) /\ Reached(s)' = Reached(s)
    BY <2>1 DEF Path, Dest, Reached
  <2>4. Files'
    BY <1>3, <2>1, <2>3 DEF Files, LiveOwned, Greets, InStep, AckedHere, Server!Exists
  <2> QED  BY <1>5, <1>8, <2>2, <2>4
<1>10. CASE SourceStep
  <2>1. UNCHANGED <<seg, coord, wire, acked, dir, content>>
    BY <1>10 DEF SourceStep, agentVars, serverVars
  <2>2. Course'
    BY <1>3, <1>10, SourceCourse
  <2>3. \A s \in Seg : Path(s)' = Path(s) /\ Dest(s)' = Dest(s) /\ Reached(s)' = Reached(s)
    BY <2>1 DEF Path, Dest, Reached
  <2>4. Files'
    BY <1>3, <2>1, <2>3 DEF Files, LiveOwned, Greets, InStep, AckedHere, Server!Exists
  <2> QED  BY <1>5, <1>8, <2>2, <2>4
<1>11. ASSUME NEW s \in Seg, Serve(s) PROVE Course' /\ Files'
  <2>1. UNCHANGED <<seg, coord, acked, cur, made>>
    BY <1>11 DEF Serve, sourceVars
  <2>2. Course'
    BY <1>3, <2>1 DEF Course, Following, Apart, Counted, Active
  <2> QED  BY <1>3, <1>4, <1>11, <2>2, ServeFiles
<1>12. ASSUME NEW s \in Seg, Run(s) PROVE Course' /\ Files'
  <2>1. SegmentStep(s) /\ UNCHANGED <<sourceVars, dir, content>>
    BY <1>12 DEF Run, Agent
  <2>2. Turn(s)
    BY <1>3, <2>1, SegmentTurn DEF Files
  <2> QED  BY <1>3, <2>1, <2>2, SegmentCourse, SegmentFiles
<1>13. CASE Coordinate \/ Agent(Scan)
  <2>1. (CoordStep \/ Scan) /\ UNCHANGED <<sourceVars, dir, content>>
    BY <1>13 DEF Coordinate, Agent
  <2>2. Files'
    BY <1>3, <2>1, CoordFiles
  <2>3. Course'
    BY <1>3, <2>1, StartCourse, RoundCourse, NeverMissing DEF CoordStep
  <2> QED  BY <1>5, <1>8, <2>2, <2>3
<1> QED  BY <1>2, <1>5, <1>8, <1>9, <1>10, <1>11, <1>12, <1>13 DEF Next

\* There is nothing to follow yet.
LEMMA InitSteady == Init => Steady
<1> SUFFICES ASSUME Init PROVE Steady
  OBVIOUS
<1>1. /\ \A s \in Seg : seg[s] = Off /\ seg[s].phase = "off"
      /\ \A n \in AgentName : ~Server!Exists(n)
      /\ \A i \in Inode : ~(acked[i] > 0)
      /\ crashes = 0 /\ drops = 0 /\ ~lapsed /\ cur = NoInode /\ made = 0
      /\ coord.pc = "loop" /\ coord.live = None
  BY OffFields DEF Init, SourceInit, AgentInit, NoCoord, Server!Init, Server!Exists
<1>2. Course
  BY <1>1 DEF Course, Following, Apart, Counted, Active, NoInode
<1>3. Files
  BY <1>1, NamesType DEF Files, LiveOwned, Greets, InStep, AckedHere, Streaming, Draining
<1> QED  BY <1>1, <1>2, <1>3, InitServed, InitCopied DEF Steady

\* Where the path rotates only once the agent is shipping the current inode (Pace is
\* "followed"), and until something fails, there is one segment for an inode, and each
\* stands exactly where its file ends.
THEOREM SteadyHolds == Pace = "followed" /\ Spec => []Steady
<1> SUFFICES ASSUME Pace = "followed" PROVE Spec => []Steady
  OBVIOUS
<1>1. Steady /\ [Next]_vars /\ Served' => Steady'
  BY NextSteady
<1> QED  BY <1>1, InitSteady, SettledHolds, PTL DEF Spec

\* Then what has been acknowledged of a sealed segment is under the seal's name
\* (_do_seal: the rename is never taken for done in vain).
THEOREM SealedHold == Pace = "followed" /\ Spec => [](Calm => SealHolds)
<1>1. Steady => (Calm => SealHolds)
  <2> SUFFICES ASSUME Steady, Calm, NEW s \in Seg, seg[s].phase \in Sealed, seg[s].io = "ready",
                      acked[seg[s].inode] > 0
               PROVE  Server!Exists(seg[s].target)
    BY DEF SealHolds
  <2>1. Server!Exists(Path(s))
    BY DEF Steady, Files, AckedHere, Streaming, Draining, Sealed, Closing
  <2>2. Path(s) = seg[s].target
    BY DEF Path, ServedPath
  <2> QED  BY <2>1, <2>2
<1> QED  BY <1>1, SteadyHolds, PTL

\* Nor does it matter whether a log is empty when the agent first sees it (the
\* hypothesis of NothingMixed and AckedStays): no new segment meets a live file.
THEOREM FollowedUnmixed ==
  Pace = "followed" /\ Spec => [](Calm => NoMixing /\ AckedKept)
<1>1. Steady => (Calm => NoMixing /\ AckedKept)
  BY DEF Steady, Copied, CopiesOnly, Kept, NoMixing, AckedKept, Held, Copy
<1> QED  BY <1>1, SteadyHolds, PTL

-----------------------------------------------------------------------------
(* The invariant: which rotation is which *)

\* A rotation leaves its marker before the next file is made.
MarkersPast ==
  \A i \in Inode : marker[i] # "none" => i < made \/ (i = made /\ cur = NoInode)

\* The rotations the coordinator has dealt with.
Past(j) ==
  IF coord.pc \in {"grace", "wait"} THEN j < made
  ELSE coord.live # None /\ j < seg[coord.live].inode

\* Their iso_dts have been consumed, as far as there are any.
Consumed ==
  \A j \in Inode : Past(j) /\ (marker[j] = "waiting" \/ j \in ToSet(isos)) => j \in coord.consumed

\* A segment is sealed with the iso_dt of its own inode.
Own(s) ==
  seg[s].pending # None /\ seg[s].pending.iso \in Inode => seg[s].pending.iso = seg[s].inode

\* The stream is within the inode, and at its end when the file is to be finalized.
Within(s) == seg[s].phase \in Streaming => seg[s].pos <= size[seg[s].inode]

Finalized(s) ==
  seg[s].phase = "final" =>
    /\ marker[seg[s].inode] = "done"
    /\ seg[s].io = "renaming" /\ Server!Exists(Path(s)) => seg[s].pos = size[seg[s].inode]

\* The files of rotation i hold what their names say.
Archived(i) ==
  /\ Server!Exists(SealedName(i)) => Copy(SealedName(i), i)
  /\ Server!Exists(FinalName(i)) =>
       /\ Copy(FinalName(i), i)
       /\ marker[i] = "done"
       /\ Len(content[dir[FinalName(i)]]) = size[i]

Archive ==
  /\ MarkersPast
  /\ Consumed
  /\ \A s \in Seg : Own(s) /\ Within(s) /\ Finalized(s)
  /\ \A i \in Inode : Archived(i)

-----------------------------------------------------------------------------
(* Which rotation is which: the steps of the source *)

\* What a step of the source makes of the inodes: they grow until they are complete,
\* and only the latest gets a marker, once it has been moved aside.
LEMMA SourceEffect ==
  ASSUME Typed, Markers # "late", Following, MarkersPast, SourceStep
  PROVE  /\ \A i \in Inode : marker[i] = "done" => marker'[i] = "done" /\ size'[i] = size[i]
         /\ \A i \in Inode : i <= made => size[i] <= size'[i]
         /\ \A i \in Inode : marker'[i] = "waiting" =>
              marker[i] = "waiting" \/ (i = made /\ cur = NoInode)
         /\ MarkersPast'
         /\ made <= made'
         /\ made' # made => coord.pc = "loop"
<1>1. /\ cur \in Inode \cup {NoInode} /\ made \in 0..MaxInode /\ MaxInode \in Nat /\ MaxSize \in Nat
      /\ size \in [Inode -> 0..MaxSize] /\ marker \in [Inode -> {"none", "waiting", "done"}]
  BY SourceAssumption DEF Typed, SourceOK
<1>2. cur \in {NoInode, made}
  BY DEF Following
<1>3. CASE MoveAside
  BY <1>1, <1>2, <1>3 DEF MoveAside, MarkersPast, Inode
<1>4. CASE CreateNew
  <2>1. /\ cur = NoInode /\ made' = made + 1 /\ made' \in Inode /\ marker' = marker
        /\ \E b : size' = [size EXCEPT ![made'] = b]
    <3>1. PICK b \in Birth : size' = [size EXCEPT ![made'] = b]
      BY <1>4 DEF CreateNew
    <3>2. cur = NoInode /\ made < MaxInode /\ made' = made + 1 /\ marker' = marker
      BY <1>4 DEF CreateNew
    <3>3. made' \in Inode
      BY <1>1, <3>2 DEF Inode
    <3> QED  BY <3>1, <3>2, <3>3
  <2>2. \A i \in Inode : marker[i] # "none" => i <= made /\ i # made'
    BY <1>1, <2>1 DEF MarkersPast, Inode
  <2>3. \A i \in Inode : i # made' => size'[i] = size[i]
    BY <1>1, <2>1
  <2>4. MarkersPast'
    BY <1>1, <2>1, <2>2 DEF MarkersPast, Inode
  <2>5. coord.pc = "loop"
    BY <2>1 DEF Following
  <2>6. \A i \in Inode : i <= made => i # made' /\ size'[i] = size[i] /\ size[i] <= size'[i]
    BY <1>1, <2>1, <2>3 DEF Inode
  <2> QED  BY <1>1, <2>1, <2>2, <2>3, <2>4, <2>5, <2>6
<1>5. ASSUME NEW i \in Inode, Grow(i) PROVE
         /\ UNCHANGED <<cur, marker, made>> /\ marker[i] # "done"
         /\ size' = [size EXCEPT ![i] = size[i] + 1]
  BY <1>5 DEF Grow
<1>6. CASE \E i \in Inode : Grow(i)
  <2>1. PICK i \in Inode : Grow(i)
    BY <1>6
  <2>2. /\ UNCHANGED <<cur, marker, made>> /\ marker[i] # "done"
        /\ \A j \in Inode : size'[j] = IF j = i THEN size[i] + 1 ELSE size[j]
    BY <1>1, <1>5, <2>1
  <2> QED  BY <1>1, <2>2 DEF MarkersPast
<1>7. CASE \E i \in Inode : WaitingMarker(i)
  <2>1. PICK i \in Inode : WaitingMarker(i)
    BY <1>7
  <2>2. i = made /\ cur = NoInode
    BY <1>2, <2>1 DEF WaitingMarker
  <2>3. /\ UNCHANGED <<cur, size, made>> /\ marker[i] = "none"
        /\ \A j \in Inode : marker'[j] = IF j = i THEN "waiting" ELSE marker[j]
    BY <1>1, <2>1 DEF WaitingMarker
  <2> QED  BY <1>1, <2>2, <2>3 DEF MarkersPast
<1>8. CASE \E i \in Inode : DoneMarker(i)
  <2>1. PICK i \in Inode : DoneMarker(i)
    BY <1>8
  <2>2. /\ UNCHANGED <<cur, size, made>> /\ marker[i] = "waiting"
        /\ \A j \in Inode : marker'[j] = IF j = i THEN "done" ELSE marker[j]
    BY <1>1, <2>1 DEF DoneMarker
  <2> QED  BY <1>1, <2>2 DEF MarkersPast
<1> QED  BY <1>3, <1>4, <1>6, <1>7, <1>8 DEF SourceStep, SourceNext

\* The inode of a segment that ships has been made.
LEMMA ShippedMade ==
  ASSUME Typed, Course, NEW s \in Seg, Active(s)
  PROVE  seg[s].inode \in Inode /\ seg[s].inode <= made
<1>1. seg[s].inode \in Inode /\ made \in Nat
  BY SourceAssumption DEF Active, Typed, Shape, SourceOK
<1>2. CASE s # coord.live
  BY <1>1, <1>2, SourceAssumption DEF Course, Apart, Inode
<1>3. CASE s = coord.live
  <2>1. s # None
    BY AgentAssumption
  <2>2. seg[s].inode = made \/ seg[s].inode = made - 1
    BY <1>3, <2>1 DEF Course, Following, Active
  <2> QED  BY <1>1, <2>2
<1> QED  BY <1>2, <1>3

\* The source keeps what is known of its rotations true.
LEMMA SourceArchive ==
  ASSUME Typed, Markers # "late", Course, Archive, SourceStep
  PROVE  Archive'
<1>1. UNCHANGED <<seg, coord, isos, wire, dir, content>>
  BY DEF SourceStep, agentVars, serverVars
<1>2. /\ \A i \in Inode : marker[i] = "done" => marker'[i] = "done" /\ size'[i] = size[i]
      /\ \A i \in Inode : i <= made => size[i] <= size'[i]
      /\ \A i \in Inode : marker'[i] = "waiting" =>
           marker[i] = "waiting" \/ (i = made /\ cur = NoInode)
      /\ MarkersPast'
      /\ made' # made => coord.pc = "loop"
  BY SourceEffect DEF Course, Archive
<1>3. Consumed'
  <2> SUFFICES ASSUME NEW j \in Inode, Past(j)', marker'[j] = "waiting" \/ j \in ToSet(isos)
               PROVE  j \in coord.consumed
    BY <1>1 DEF Consumed
  <2>1. Past(j)
    BY <1>1, <1>2 DEF Past
  <2>2. CASE marker[j] = "waiting" \/ j \in ToSet(isos)
    BY <2>1, <2>2 DEF Archive, Consumed
  <2>3. CASE j = made /\ cur = NoInode
    <3>1. coord.pc = "loop" /\ coord.live # None /\ made < seg[coord.live].inode
      BY <2>1, <2>3 DEF Past, Course, Following
    <3>2. coord.live \in Seg /\ Active(coord.live)
      BY <3>1 DEF Typed, CoordOK, Coordinator, Course, Following, Active
    <3>3. seg[coord.live].inode <= made /\ seg[coord.live].inode \in Nat /\ made \in Nat
      BY <3>2, ShippedMade, SourceAssumption DEF Inode, Typed, SourceOK
    <3> QED  BY <3>1, <3>3
  <2> QED  BY <1>2, <2>2, <2>3
<1>4. ASSUME NEW s \in Seg PROVE Own(s)' /\ Within(s)' /\ Finalized(s)'
  <2>1. Path(s)' = Path(s)
    BY <1>1 DEF Path
  <2>2. seg[s].phase \in Streaming => seg[s].inode \in Inode /\ seg[s].inode <= made
    BY ShippedMade DEF Active, Streaming, Draining
  <2>3. Within(s)'
    <3> SUFFICES ASSUME seg[s].phase \in Streaming PROVE seg[s].pos <= size'[seg[s].inode]
      BY <1>1 DEF Within
    <3>1. seg[s].pos <= size[seg[s].inode] /\ size[seg[s].inode] <= size'[seg[s].inode]
      BY <1>2, <2>2 DEF Archive, Within
    <3>2. seg[s].pos \in Nat /\ size[seg[s].inode] \in Nat
      BY <2>2, SegmentFields, SourceAssumption DEF Typed, Shape, SourceOK
    <3>3. size'[seg[s].inode] \in Nat
      <4>1. Typed'
        BY SourceTyped
      <4> QED  BY <2>2, <4>1, SourceAssumption DEF Typed, SourceOK
    <3> QED  BY <3>1, <3>2, <3>3
  <2>4. Finalized(s)'
    BY <1>1, <1>2, <2>1, <2>2 DEF Archive, Finalized, Streaming, Draining, Server!Exists
  <2> QED  BY <1>1, <2>3, <2>4 DEF Archive, Own
<1>5. \A i \in Inode : Archived(i)'
  BY <1>1, <1>2 DEF Archive, Archived, Copy, Server!Exists
<1> QED  BY <1>2, <1>3, <1>4, <1>5 DEF Archive

-----------------------------------------------------------------------------
(* Which rotation is which: the steps of the agent *)

\* A slot whose task has ended.
LEMMA EndSound ==
  ASSUME Typed, NEW s \in Seg, End(s)
  PROVE  Within(s)' /\ Finalized(s)'
<1>1. seg'[s] = [Off EXCEPT !.phase = IF s = coord.live THEN "done" ELSE "off"]
  BY PutSlot DEF End
<1>2. seg'[s].phase \in {"off", "done"}
  BY <1>1, OffFields DEF Segment
<1> QED  BY <1>2 DEF Within, Finalized, Streaming, Draining

\* A slot that is left as q.
LEMMA PutSound ==
  ASSUME Typed, NEW s \in Seg, NEW q \in Segment, NEW w, Put(s, q, w), UNCHANGED <<size, marker>>,
         q.inode = seg[s].inode, q.pos <= size[q.inode],
         q.phase = "final" =>
           /\ marker[q.inode] = "done"
           /\ q.io = "renaming" /\ Server!Exists(Path(s))' => q.pos = size[q.inode]
  PROVE  Within(s)' /\ Finalized(s)'
<1>1. seg'[s] = q
  BY PutSlot
<1> QED  BY <1>1 DEF Within, Finalized, Server!Exists

\* _drain_available has returned, with the stream at the end of the inode, or with no
\* file to ship to.
LEMMA ReturnedSound ==
  ASSUME Typed, NEW s \in Seg, NEW r \in Segment, NEW w, Returned(s, r, w),
         seg[s].phase \in Draining, r.phase = seg[s].phase, r.inode = seg[s].inode,
         r.pos <= size[r.inode], Finalized(s), UNCHANGED <<size, marker>>,
         seg'[s].phase = "final" => r.pos = size[r.inode] \/ ~Server!Exists(Path(s))'
  PROVE  Within(s)' /\ Finalized(s)'
<1>1. r.phase = "final" => marker[r.inode] = "done"
  BY DEF Finalized
<1>2. CASE End(s)
  BY <1>2, EndSound
<1>3. ASSUME NEW q \in Segment, NEW v, Put(s, q, v), q.pos = r.pos, q.inode = r.inode,
             q.phase = "final" => r.phase = "final"
      PROVE  Within(s)' /\ Finalized(s)'
  <2>1. seg'[s] = q
    BY <1>3, PutSlot
  <2> QED  BY <1>1, <1>3, <2>1, PutSound
<1>4. CASE r.phase = "live"
  <2> DEFINE p == IF r.pending = None THEN "live" ELSE "seal"
             q == [r EXCEPT !.io = "ready", !.phase = p]
  <2>1. Put(s, q, w)
    BY <1>4 DEF Returned
  <2>2. p \in {"live", "seal"}
    OBVIOUS
  <2> HIDE DEF p
  <2>3. q \in Segment /\ q.pos = r.pos /\ q.inode = r.inode /\ q.phase # "final"
    BY <2>2 DEF Segment, Draining
  <2> HIDE DEF q
  <2> QED  BY <1>3, <2>1, <2>3
<1>5. CASE r.phase \in {"seal", "final"}
  <2> DEFINE q == [r EXCEPT !.io = "renaming"]
  <2>1. PICK v : Put(s, q, v)
    BY <1>5 DEF Returned
  <2>2. q \in Segment /\ q.pos = r.pos /\ q.inode = r.inode /\ q.phase = r.phase
    BY DEF Segment
  <2> HIDE DEF q
  <2> QED  BY <1>3, <2>1, <2>2
<1>6. CASE r.phase = "orphan" /\ ~End(s)
  <2> DEFINE q == [r EXCEPT !.io = "ready", !.sent = FALSE]
  <2>1. Put(s, q, w)
    BY <1>6 DEF Returned
  <2>2. q \in Segment /\ q.pos = r.pos /\ q.inode = r.inode /\ q.phase = r.phase
    BY DEF Segment
  <2> HIDE DEF q
  <2> QED  BY <1>3, <2>1, <2>2
<1>7. CASE r.phase = "await"
  <2> DEFINE q == [r EXCEPT !.io = "ready", !.phase = "look"]
  <2>1. Put(s, q, w)
    BY <1>7 DEF Returned
  <2>2. q \in Segment /\ q.pos = r.pos /\ q.inode = r.inode /\ q.phase # "final"
    BY DEF Segment, Sealed, Closing
  <2> HIDE DEF q
  <2> QED  BY <1>3, <2>1, <2>2
<1> QED  BY <1>2, <1>4, <1>5, <1>6, <1>7 DEF Draining

\* A drain of a file that is there.
LEMMA DrainSound ==
  ASSUME Typed, NEW s \in Seg, Own(s), Within(s), Finalized(s), UNCHANGED <<size, marker>>,
         SealRequested(s) \/ Read(s) \/ Drained(s) \/ Sent(s) \/ Looked(s)
  PROVE  Within(s)' /\ Finalized(s)'
<1>1. /\ Shape(seg[s], wire[s]) /\ seg[s] \in Segment
      /\ seg[s].phase \in Streaming /\ seg[s].inode \in Inode
  <2>1. Shape(seg[s], wire[s])
    BY DEF Typed
  <2>2. Sent(s) => seg[s].phase \in Draining
    BY <2>1, Built DEF Sent, Shape, Kinds
  <2>3. seg[s].phase \in Streaming
    BY <2>2 DEF SealRequested, Read, Drained, Sent, Looked, Streaming, Draining
  <2> QED  BY <2>1, <2>3 DEF Shape, Streaming, Draining
<1>2. /\ seg[s].pos \in 0..MaxSize /\ size[seg[s].inode] \in 0..MaxSize /\ MaxSize \in Nat
      /\ seg[s].pos <= size[seg[s].inode]
  BY <1>1, SegmentFields, SourceAssumption DEF Typed, SourceOK, Within
<1>3. CASE SealRequested(s)
  <2> DEFINE q == [seg[s] EXCEPT !.phase = "seal"]
  <2>1. Put(s, q, wire[s])
    BY <1>3 DEF SealRequested
  <2>2. q \in Segment /\ q.pos = seg[s].pos /\ q.inode = seg[s].inode /\ q.phase # "final"
    BY <1>1 DEF Segment, Draining
  <2> HIDE DEF q
  <2> QED  BY <1>2, <2>1, <2>2, PutSound
<1>4. CASE Read(s)
  <2> DEFINE e == Least(seg[s].pos + Chunk, size[seg[s].inode])
             q == [seg[s] EXCEPT !.io = "sending", !.pos = e]
  <2>1. PICK v : Put(s, q, v)
    BY <1>4 DEF Read
  <2>2. e \in 0..MaxSize /\ e <= size[seg[s].inode]
    BY <1>2, AgentAssumption DEF Least
  <2> HIDE DEF e
  <2>3. /\ q \in Segment /\ q.pos = e /\ q.inode = seg[s].inode
        /\ q.phase = seg[s].phase /\ q.io = "sending"
    BY <1>1, <2>2 DEF Segment
  <2> HIDE DEF q
  <2> QED  BY <2>1, <2>2, <2>3, PutSound DEF Finalized
<1>5. CASE Drained(s)
  <2>1. /\ seg[s].phase \in Draining /\ Returned(s, seg[s], wire[s])
        /\ seg[s].pos = size[seg[s].inode]
    BY <1>2, <1>5 DEF Drained
  <2> QED  BY <1>1, <1>2, <2>1, ReturnedSound
<1>6. CASE Sent(s)
  <2> DEFINE o == seg[s].phase = "orphan"
             q == [seg[s] EXCEPT !.io = "ready", !.sent = o]
  <2>1. Put(s, q, Idle)
    BY <1>6 DEF Sent
  <2>2. o \in BOOLEAN
    OBVIOUS
  <2> HIDE DEF o
  <2>3. /\ q \in Segment /\ q.pos = seg[s].pos /\ q.inode = seg[s].inode
        /\ q.phase = seg[s].phase /\ q.io = "ready"
    BY <1>1, <2>2 DEF Segment
  <2> HIDE DEF q
  <2> QED  BY <1>2, <2>1, <2>3, PutSound DEF Finalized
<1>7. CASE Looked(s)
  <2> DEFINE p == IF marker[seg[s].pending.iso] = "done" THEN "final" ELSE "await"
             q == [seg[s] EXCEPT !.phase = p]
  <2>1. Put(s, q, wire[s]) /\ seg[s].phase = "look"
    BY <1>7 DEF Looked
  <2>2. p \in {"final", "await"} /\ (p = "final" => marker[seg[s].pending.iso] = "done")
    OBVIOUS
  <2>3. seg[s].pending.iso = seg[s].inode /\ seg[s].io = "ready"
    BY <1>1, <2>1 DEF Own, Shape, Kinds, Sealed, Closing, Draining
  <2> HIDE DEF p
  <2>4. /\ q \in Segment /\ q.pos = seg[s].pos /\ q.inode = seg[s].inode
        /\ q.phase = p /\ q.io = "ready"
    BY <1>1, <2>2, <2>3 DEF Segment, Draining
  <2> HIDE DEF q
  <2> QED  BY <1>2, <2>1, <2>2, <2>3, <2>4, PutSound
<1> QED  BY <1>3, <1>4, <1>5, <1>6, <1>7

\* _reconnect starts from the prefix, or goes on trying.
LEMMA RedialSound ==
  ASSUME Typed, NEW s \in Seg, NEW r \in Segment, Redial(s, r), UNCHANGED <<size, marker>>,
         r.inode = seg[s].inode, r.phase = seg[s].phase, r.io # "renaming",
         r.pos <= size[r.inode], Finalized(s)
  PROVE  Within(s)' /\ Finalized(s)'
BY PutSound DEF Redial, Finalized

\* Segment._rename has returned.
LEMMA RenameDoneSound ==
  ASSUME Typed, NEW s \in Seg, RenameDone(s), Within(s), UNCHANGED <<size, marker>>
  PROVE  Within(s)' /\ Finalized(s)'
<1>1. seg[s] \in Segment /\ Shape(seg[s], wire[s])
  BY DEF Typed, Shape
<1>2. CASE End(s)
  BY <1>2, EndSound
<1>3. CASE seg[s].phase = "seal"
  <2> DEFINE p == IF seg[s].pending.iso = NoInode THEN "orphan" ELSE "await"
             n == seg[s].pending.name
             q == [seg[s] EXCEPT !.io = "ready", !.target = n, !.phase = p]
  <2>1. Put(s, q, Idle)
    BY <1>3 DEF RenameDone
  <2>2. p \in {"orphan", "await"} /\ n \in AgentName
    BY <1>1, <1>3, SegmentFields DEF Shape
  <2> HIDE DEF p, n
  <2>3. q \in Segment /\ q.pos = seg[s].pos /\ q.inode = seg[s].inode /\ q.phase # "final"
    BY <1>1, <2>2 DEF Segment, Draining
  <2> HIDE DEF q
  <2> QED  BY <1>3, <2>1, <2>3, PutSound DEF Within, Streaming, Draining
<1> QED  BY <1>2, <1>3 DEF RenameDone

\* A request that is refused, and what follows.
LEMMA RetrySound ==
  ASSUME Typed, NEW s \in Seg, Turn(s), Within(s), Finalized(s), InStep(s), GreetingTrue(s),
         ~ephemeral, UNCHANGED <<size, marker, dir, content>>,
         SendFailed(s) \/ Resumed(s) \/ Retry(s) \/ Renamed(s) \/ RenameFailed(s) \/ Assumed(s)
  PROVE  Within(s)' /\ Finalized(s)'
<1>1. /\ Shape(seg[s], wire[s]) /\ seg[s] \in Segment /\ wire[s] \in Message
      /\ seg[s].phase \in Draining /\ seg[s].inode \in Inode
  <2>1. Shape(seg[s], wire[s])
    BY DEF Typed
  <2>2. seg[s].io # "ready"
    BY DEF SendFailed, Resumed, Retry, Renamed, RenameFailed, Assumed
  <2>3. seg[s].phase \in Draining
    BY <2>1, <2>2 DEF Shape, Kinds, Sealed, Closing, Draining
  <2> QED  BY <2>1, <2>3 DEF Shape, Draining
<1>2. /\ size[seg[s].inode] \in 0..MaxSize /\ MaxSize \in Nat
      /\ PrefixEnd(seg[s].inode) \in 0..MaxSize
      /\ PrefixEnd(seg[s].inode) <= size[seg[s].inode]
  BY <1>1, PrefixEndType, SourceAssumption, AgentAssumption DEF Typed, SourceOK, PrefixEnd, Least
<1>3. seg[s].pos <= size[seg[s].inode]
  BY <1>1 DEF Within, Streaming
<1>4. CASE Renamed(s) \/ Assumed(s)
  BY <1>4, RenameDoneSound DEF Renamed, Assumed
<1>5. CASE Retry(s)
  BY <1>1, <1>3, <1>5, RedialSound DEF Retry
<1>6. CASE SendFailed(s)
  <2> DEFINE n == PrefixEnd(seg[s].inode)
             q == [seg[s] EXCEPT !.io = "resuming", !.pos = n]
  <2>1. Redial(s, q)
    BY <1>6 DEF SendFailed
  <2>2. n \in 0..MaxSize /\ n <= size[seg[s].inode]
    BY <1>2
  <2> HIDE DEF n
  <2>3. /\ q \in Segment /\ q.pos = n /\ q.inode = seg[s].inode /\ q.phase = seg[s].phase
        /\ q.io = "resuming"
    BY <1>1, <2>2 DEF Segment
  <2> HIDE DEF q
  <2> QED  BY <2>1, <2>2, <2>3, RedialSound
<1>7. CASE RenameFailed(s)
  <2> DEFINE n == PrefixEnd(seg[s].inode)
             d == Dest(s)
             q == [seg[s] EXCEPT !.io = "assuming", !.target = d, !.pos = n]
  <2>1. Redial(s, q)
    BY <1>7 DEF RenameFailed, Dest
  <2>2. n \in 0..MaxSize /\ n <= size[seg[s].inode]
    BY <1>2
  <2>3. d \in AgentName
    <3>1. seg[s].io = "renaming" /\ seg[s].phase \in Streaming
      BY <1>1, <1>7 DEF RenameFailed, Streaming
    <3> QED  BY <1>1, <3>1, PathOwned
  <2> HIDE DEF n, d
  <2>4. /\ q \in Segment /\ q.pos = n /\ q.inode = seg[s].inode /\ q.phase = seg[s].phase
        /\ q.io = "assuming"
    BY <1>1, <2>2, <2>3 DEF Segment
  <2> HIDE DEF q
  <2> QED  BY <2>1, <2>2, <2>4, RedialSound
<1>8. CASE Resumed(s)
  <2>1. seg[s].io = "resuming" /\ wire[s].kind = "greeting"
    BY <1>8 DEF Resumed
  <2>2. Path(s) = seg[s].target /\ ~Server!Exists(Path(s))
    BY <1>1, <2>1 DEF Path, ServedPath, InStep, Streaming
  <2>3. wire[s].length = 0
    BY <2>1, <2>2 DEF GreetingTrue, Server!ReportedLength
  <2> DEFINE q == [seg[s] EXCEPT !.pos = 0]
  <2>4. Returned(s, q, Idle)
    BY <1>8, <2>3 DEF Resumed
  <2>5. q \in Segment /\ q.pos = 0 /\ q.inode = seg[s].inode /\ q.phase = seg[s].phase
    BY <1>1, <1>2 DEF Segment
  <2>6. seg'[s].phase = "final" => ~Server!Exists(Path(s))'
    <3>1. seg'[s].phase = "final" => Path(s)' = Path(s)
      BY <1>1, <2>1 DEF Turn, Proceeds, Retries, Assumes, Draining
    <3> QED  BY <2>2, <3>1 DEF Server!Exists
  <2> HIDE DEF q
  <2> QED  BY <1>1, <1>2, <2>4, <2>5, <2>6, ReturnedSound
<1> QED  BY <1>4, <1>5, <1>6, <1>7, <1>8

\* A segment that begins to ship, where nothing has been shipped.
LEMMA GreetedSound ==
  ASSUME Typed, NEW s \in Seg, Greeted(s), Greets(s), GreetingTrue(s), UNCHANGED <<size, marker>>
  PROVE  Within(s)' /\ Finalized(s)'
<1>1. /\ Shape(seg[s], wire[s]) /\ seg[s] \in Segment
      /\ seg[s].phase = "greet" /\ wire[s].kind = "greeting"
  BY DEF Typed, Shape, Greeted, Greets
<1>2. seg[s].target = LiveName /\ ~Server!Exists(LiveName)
  BY <1>1 DEF Shape, Target, Sealed, Closing, Greets
<1>3. wire[s].length = 0
  BY <1>1, <1>2 DEF GreetingTrue, Server!ReportedLength
<1> DEFINE n == 0
           q == [seg[s] EXCEPT !.phase = "live", !.pos = n]
<1>4. Put(s, q, Idle)
  BY <1>3 DEF Greeted
<1>5. n \in 0..MaxSize /\ n <= size[seg[s].inode]
  BY <1>1, SourceAssumption DEF Shape, Typed, SourceOK
<1> HIDE DEF n
<1>6. q \in Segment /\ q.pos = n /\ q.inode = seg[s].inode /\ q.phase # "final"
  BY <1>1, <1>5 DEF Segment, Draining
<1> HIDE DEF q
<1> QED  BY <1>4, <1>5, <1>6, PutSound

\* A segment's step keeps to its rotation.
LEMMA SegmentArchive ==
  ASSUME Typed, Typed', Copied, ~ephemeral, Course, Files, Archive, NEW s \in Seg, SegmentStep(s),
         UNCHANGED <<sourceVars, dir, content>>
  PROVE  Archive'
<1>1. Turn(s)
  BY SegmentTurn DEF Files
<1>2. PICK r, w : Put(s, r, w) /\ Becomes(s, r, w)
  BY SegmentEffect
<1>3. /\ seg'[s] = r
      /\ \A t \in Seg \ {s} : seg'[t] = seg[t] /\ wire'[t] = wire[t]
  BY <1>2, PutSlot
<1>4. UNCHANGED <<coord, isos, cur, size, marker, made>>
  BY SegmentRest DEF sourceVars
<1>5. MarkersPast'
  BY <1>4 DEF Archive, MarkersPast
<1>6. Consumed'
  <2> SUFFICES ASSUME NEW j \in Inode, Past(j)' PROVE Past(j)
    BY <1>4 DEF Archive, Consumed
  <2>1. CASE coord.pc \in {"grace", "wait"}
    BY <1>4, <2>1 DEF Past
  <2>2. CASE coord.pc \notin {"grace", "wait"}
    <3>1. coord.live # None /\ coord.live \in Seg
      BY <1>4, <2>2 DEF Past, Typed, CoordOK, Coordinator
    <3>2. seg[coord.live].phase \in {"born", "greet", "live"}
      BY <2>2, <3>1 DEF Course, Following
    <3>3. seg'[coord.live].inode = seg[coord.live].inode
      BY <1>1, <1>3, <3>1, <3>2 DEF Turn, Sealed, Closing
    <3> QED  BY <1>4, <2>2, <3>3 DEF Past
  <2> QED  BY <2>1, <2>2
<1>7. Own(s)'
  <2> SUFFICES ASSUME r.pending # None, r.pending.iso \in Inode PROVE r.pending.iso = r.inode
    BY <1>3 DEF Own
  <2>1. r.pending = seg[s].pending
    BY <1>2 DEF Becomes
  <2>2. r.phase \notin {"off", "done"}
    BY <1>2 DEF Becomes, Shape
  <2>3. r.inode = seg[s].inode
    BY <1>1, <1>3, <2>2 DEF Turn
  <2> QED  BY <2>1, <2>3 DEF Archive, Own
<1>8. Within(s)' /\ Finalized(s)'
  <2>1. Greets(s) /\ InStep(s) /\ GreetingTrue(s) /\ Own(s) /\ Within(s) /\ Finalized(s)
    BY DEF Files, Copied, Archive
  <2>2. CASE Dial(s)
    <3>1. r.phase \notin Streaming
      BY <1>2, <2>2, Built DEF Becomes, Greeted, Dial, Streaming, Draining
    <3> QED  BY <1>3, <3>1 DEF Within, Finalized, Streaming, Draining
  <2>3. CASE Greeted(s)
    BY <1>4, <2>1, <2>3, GreetedSound
  <2>4. CASE FoundStale(s) \/ MovedStale(s) \/ ConnectFailed(s)
    <3>1. r.phase \notin Streaming
      <4>1. seg[s].phase \notin Streaming /\ ~Greeted(s)
        BY <2>1, <2>4, Built
           DEF FoundStale, MovedStale, ConnectFailed, Greeted, Streaming, Draining, Greets
      <4> QED  BY <1>2, <4>1 DEF Becomes
    <3> QED  BY <1>3, <3>1 DEF Within, Finalized, Streaming, Draining
  <2>5. CASE SealRequested(s) \/ Read(s) \/ Drained(s) \/ Sent(s) \/ Looked(s)
    BY <1>4, <2>1, <2>5, DrainSound
  <2>6. CASE SendFailed(s) \/ Resumed(s) \/ Retry(s) \/ Renamed(s) \/ RenameFailed(s) \/ Assumed(s)
    BY <1>1, <1>4, <2>1, <2>6, RetrySound
  <2> QED  BY <2>2, <2>3, <2>4, <2>5, <2>6 DEF SegmentStep
<1>9. ASSUME NEW t \in Seg, t # s PROVE Own(t)' /\ Within(t)' /\ Finalized(t)'
  <2>1. seg'[t] = seg[t] /\ Path(t)' = Path(t)
    BY <1>3, <1>9 DEF Path
  <2> QED  BY <1>4, <2>1 DEF Archive, Own, Within, Finalized, Server!Exists
<1>10. \A i \in Inode : Archived(i)'
  BY <1>4 DEF Archive, Archived, Copy, Server!Exists
<1> QED  BY <1>5, <1>6, <1>7, <1>8, <1>9, <1>10 DEF Archive

-----------------------------------------------------------------------------
(* Which rotation is which: the steps of the coordinator *)

\* scan misses no waiting marker.
LEMMA ScanAll ==
  ASSUME Typed, Scanned(isos, isos'), NEW j \in Inode, marker[j] = "waiting"
  PROVE  j \in ToSet(isos')
<1> DEFINE found == {i \in Inode : marker[i] = "waiting"} \ ToSet(isos)
<1>1. PICK f \in SetToSeqs(found) : isos' = isos \o f
  BY DEF Scanned
<1>2. j \in found \/ j \in ToSet(isos)
  OBVIOUS
<1>3. IsFiniteSet(found)
  <2>1. IsFiniteSet(Inode)
    BY SourceAssumption, FS_Interval DEF Inode
  <2>2. found \subseteq Inode
    OBVIOUS
  <2> QED  BY <2>1, <2>2, FS_Subset
<1>4. found \subseteq Inode
  OBVIOUS
<1> HIDE DEF found
<1> DEFINE n == Cardinality(found)
<1>5. n \in Nat
  BY <1>3, FS_CardinalityType
<1>6. f \in Injection(1..n, found)
  BY <1>1 DEF SetToSeqs, Injection, IsInjective
<1>7. Cardinality(1..n) = n
  BY <1>5, FS_Interval
<1>8. f \in Surjection(1..n, found)
  BY <1>3, <1>6, <1>7, FS_Injection
<1> HIDE DEF n
<1>9. \A i \in found : \E k \in 1..n : f[k] = i
  BY <1>8 DEF Surjection
<1>10. isos \in Seq(Inode) /\ f \in Seq(Inode) /\ Len(f) = n
  BY <1>4, <1>5, <1>6 DEF Typed, IsosOK, Injection
<1>11. ASSUME j \in found PROVE \E l \in DOMAIN isos' : isos'[l] = j
  <2>1. PICK k \in 1..n : f[k] = j
    BY <1>9, <1>11
  <2>2. Len(isos) + k \in DOMAIN isos' /\ isos'[Len(isos) + k] = j
    BY <1>1, <1>5, <1>10, <2>1
  <2> QED  BY <2>2
<1>12. j \in found => j \in ToSet(isos')
  BY <1>11 DEF ToSet
<1> QED  BY <1>2, <1>12, ScanType

\* What the coordinator does to a slot, but for asking for a seal, is sound.
LEMMA ManagedSound ==
  ASSUME Typed, NEW t \in Seg, Managed(t), Within(t), Finalized(t),
         UNCHANGED <<wire, size, marker, dir>>
  PROVE  Within(t)' /\ Finalized(t)'
<1>1. seg[t] \in Segment
  BY DEF Typed, AgentOK
<1>2. CASE seg'[t] = seg[t]
  <2>1. Path(t)' = Path(t)
    BY <1>2 DEF Path
  <2> QED  BY <1>2, <2>1 DEF Within, Finalized, Server!Exists
<1>3. CASE seg'[t].phase \in {"off", "born"}
  BY <1>3 DEF Within, Finalized, Streaming, Draining
<1>4. CASE seg[t].phase = "live" /\ \E p : seg'[t] = [seg[t] EXCEPT !.pending = p]
  <2>1. seg'[t].phase = "live" /\ seg'[t].pos = seg[t].pos /\ seg'[t].inode = seg[t].inode
    BY <1>1, <1>4 DEF Segment
  <2> QED  BY <1>4, <2>1 DEF Within, Finalized
<1> QED  BY <1>2, <1>3, <1>4 DEF Managed

\* A scan finds no marker of a rotation that has been dealt with but one consumed.
LEMMA ScanConsumed ==
  ASSUME Typed, Consumed, Scanned(isos, isos') \/ UNCHANGED isos,
         NEW j \in Inode, Past(j), marker[j] = "waiting" \/ j \in ToSet(isos')
  PROVE  j \in coord.consumed
BY ScanType DEF Consumed

\* The steps that ask for no seal and begin no segment.
LEMMA RoundArchive ==
  ASSUME Typed, Course, Archive, UNCHANGED <<sourceVars, dir, content>>,
         Poll \/ OpenKnown \/ OpenRotated \/ NoMarkerYet \/ Scan
  PROVE  Consumed' /\ \A s \in Seg : Own(s)'
<1>1. coord \in Coordinator /\ UNCHANGED <<marker, made>>
  BY DEF Typed, CoordOK, sourceVars
<1>2. coord.live # None /\ coord.pc = "loop" => seg[coord.live].phase # "done"
  BY DEF Course, Following
<1>3. seg' = seg
  BY <1>2 DEF Poll, OpenKnown, OpenRotated, NoMarkerYet, Scan, Reaped
<1>4. Scanned(isos, isos') \/ UNCHANGED isos
  BY DEF Poll, OpenKnown, OpenRotated, NoMarkerYet, Scan
<1>5. ~OpenKnown
  BY DEF OpenKnown, Course, Following
<1>6. CASE Poll \/ OpenRotated \/ Scan
  <2>1. /\ coord'.live = coord.live /\ coord'.consumed = coord.consumed
        /\ coord.pc \in {"grace", "wait"} <=> coord'.pc \in {"grace", "wait"}
    <3>1. CASE Poll
      <4>1. Reaped = seg
        BY <1>3, <3>1 DEF Poll
      <4> DEFINE p == IF cur \notin {NoInode, coord.last} THEN "open" ELSE "loop"
                 i == IF cur \notin {NoInode, coord.last} THEN cur ELSE NoInode
      <4>2. /\ coord' = [coord EXCEPT !.live = coord.live, !.last = coord.last,
                                       !.pc = p, !.found = i]
            /\ coord.pc = "loop"
        BY <3>1, <4>1 DEF Poll
      <4>3. p \in {"open", "loop"}
        OBVIOUS
      <4> HIDE DEF p, i
      <4> QED  BY <1>1, <4>2, <4>3 DEF Coordinator
    <3>2. CASE OpenRotated
      BY <1>1, <3>2 DEF OpenRotated, Coordinator
    <3>3. CASE Scan
      BY <3>3 DEF Scan
    <3> QED  BY <1>6, <3>1, <3>2, <3>3
  <2>2. \A j \in Inode : Past(j)' <=> Past(j)
    BY <1>1, <1>3, <2>1 DEF Past
  <2>3. Consumed'
    BY <1>1, <1>4, <2>1, <2>2, ScanConsumed DEF Consumed, Archive
  <2> QED  BY <1>3, <2>3 DEF Archive, Own
<1>7. CASE NoMarkerYet
  <2>1. coord'.consumed = coord.consumed /\ Unconsumed(isos') = {} /\ Scanned(isos, isos')
    BY <1>1, <1>7 DEF NoMarkerYet, Coordinator
  <2>2. \A j \in Inode : marker[j] = "waiting" => j \in ToSet(isos')
    BY <2>1, ScanAll
  <2>3. \A j \in ToSet(isos') : j \in coord.consumed
    BY <2>1 DEF Unconsumed, ToSet
  <2> QED  BY <1>1, <1>3, <2>1, <2>2, <2>3 DEF Consumed, Archive, Own
<1> QED  BY <1>5, <1>6, <1>7

\* A new segment is given the latest inode, all before it have been dealt with.
LEMMA StartArchive ==
  ASSUME Typed, Course, Archive, UNCHANGED <<sourceVars, dir, content>>, OpenFirst \/ SealWaited
  PROVE  Consumed' /\ \A s \in Seg : Own(s)'
<1>1. /\ cur = made /\ cur # NoInode /\ made \in Inode
      /\ UNCHANGED <<marker, made, isos>> /\ coord.pc # "loop"
  BY DEF Course, Following, OpenFirst, SealWaited, sourceVars, Typed, SourceOK
<1>2. Start(made, coord.consumed)
  BY <1>1 DEF OpenFirst, SealWaited, Course, Following
<1>3. PICK s \in Seg :
        /\ coord'.live = s /\ coord'.pc = "loop" /\ coord'.consumed = coord.consumed
        /\ seg'[s].inode = made /\ seg'[s].pending = None
        /\ \A t \in Seg \ {s} : seg'[t] = seg[t] \/ seg'[t] = Off
  BY <1>1, <1>2, StartManages
<1>4. \A j \in Inode : Past(j)' => j < made
  BY <1>1, <1>3 DEF Past
<1>5. \A j \in Inode : j < made => Past(j)
  <2>1. CASE OpenFirst
    <3>1. made <= 1
      BY <2>1 DEF OpenFirst, Course, Following
    <3> QED  BY <1>1, <3>1, SourceAssumption DEF Inode
  <2>2. CASE SealWaited
    BY <2>2 DEF SealWaited, Past
  <2> QED  BY <2>1, <2>2
<1>6. Consumed'
  BY <1>1, <1>3, <1>4, <1>5 DEF Consumed, Archive
<1>7. \A t \in Seg : Own(t)'
  BY <1>3, OffFields DEF Own, Archive
<1> QED  BY <1>6, <1>7

\* The iso_dt that is learnt is that of the segment's own inode.
LEMMA LearnArchive ==
  ASSUME Typed, Course, Archive, UNCHANGED <<sourceVars, dir, content>>, LearnIso \/ GraceExpired
  PROVE  Consumed' /\ \A s \in Seg : Own(s)'
<1>1. /\ coord \in Coordinator /\ UNCHANGED <<marker, made>>
      /\ coord.pc \in {"learn", "grace"}
      /\ made \in Nat /\ cur = made /\ cur # NoInode
  <2>1. coord.pc \in {"learn", "grace"}
    BY ZenonT(20) DEF LearnIso, GraceExpired
  <2>2. UNCHANGED <<marker, made>>
    BY DEF sourceVars
  <2> QED
    BY <2>1, <2>2, SourceAssumption DEF Typed, CoordOK, SourceOK, Course, Following
<1>2. ASSUME NEW n, NEW iso, RequestSeal(n, iso)
      PROVE  /\ coord.live \in Seg
             /\ seg[coord.live].inode = made - 1
             /\ seg'[coord.live].pending.iso = iso
             /\ seg'[coord.live].inode = seg[coord.live].inode
             /\ \A t \in Seg : t # coord.live => seg'[t] = seg[t]
             /\ coord'.pc = "wait"
             /\ coord'.consumed = IF iso = NoInode THEN coord.consumed
                                 ELSE coord.consumed \cup {iso}
  <2>1. /\ coord.live \in Seg /\ seg[coord.live].phase = "live"
        /\ seg'[coord.live] = [seg[coord.live] EXCEPT !.pending = [name |-> n, iso |-> iso]]
        /\ \A t \in Seg : t # coord.live => seg'[t] = seg[t]
        /\ coord' = [coord EXCEPT !.pc = "wait",
                       !.consumed = IF iso = NoInode THEN coord.consumed
                                    ELSE coord.consumed \cup {iso}]
    BY <1>1, <1>2, SealManages DEF Course
  <2>2. /\ seg'[coord.live].pending = [name |-> n, iso |-> iso]
        /\ seg'[coord.live].inode = seg[coord.live].inode
    BY <2>1 DEF Typed, AgentOK, Segment
  <2>3. seg[coord.live].inode = made - 1
    BY <1>1, <2>1, AgentAssumption DEF Course, Following
  <2> DEFINE c == IF iso = NoInode THEN coord.consumed ELSE coord.consumed \cup {iso}
  <2>4. coord' = [coord EXCEPT !.pc = "wait", !.consumed = c]
    BY <2>1
  <2> HIDE DEF c
  <2>5. coord'.pc = "wait" /\ coord'.consumed = c
    BY <1>1, <2>4 DEF Coordinator
  <2> QED  BY <2>1, <2>2, <2>3, <2>5 DEF c
<1>3. \A j \in Inode : Past(j)' => j < made
  <2>1. coord'.pc = "wait"
    BY <1>2 DEF LearnIso, GraceExpired
  <2> QED  BY <1>1, <2>1 DEF Past
<1>4. CASE GraceExpired
  <2>1. RequestSeal(OrphanNow, NoInode) /\ coord.pc = "grace" /\ UNCHANGED isos
    BY <1>4 DEF GraceExpired
  <2>2. Consumed'
    BY <1>1, <1>2, <1>3, <2>1 DEF Consumed, Past, Archive
  <2>3. NoInode \notin Inode
    BY SourceAssumption DEF NoInode, Inode
  <2>4. \A t \in Seg : Own(t)'
    BY <1>2, <2>1, <2>3 DEF Own, Archive
  <2> QED  BY <2>2, <2>4
<1>5. CASE LearnIso
  <2>1. PICK k \in Unconsumed(isos') : RequestSeal(SealedName(isos'[k]), isos'[k])
    BY <1>5 DEF LearnIso
  <2>2. Scanned(isos, isos')
    BY <1>5 DEF LearnIso
  <2> DEFINE iso == isos'[k]
  <2>3. coord.live \in Seg /\ seg[coord.live].inode = made - 1
    BY <1>2, <2>1
  <2>4. ASSUME NEW j \in ToSet(isos'), j \notin coord.consumed PROVE j = made - 1 /\ j \in Inode
    <3>1. j \in Inode /\ marker[j] # "none"
      BY <2>2, ScanType DEF ToSet
    <3>2. j < made
      BY <1>1, <3>1 DEF Archive, MarkersPast
    <3>3. ~Past(j)
      BY <2>2, <2>4, <3>1, ScanConsumed DEF Archive
    <3>4. coord.pc = "learn" /\ ~(j < made - 1)
      BY <1>1, <2>3, <3>2, <3>3, AgentAssumption DEF Past
    <3> QED  BY <1>1, <3>1, <3>2, <3>4, SourceAssumption DEF Inode
  <2>5. iso \in ToSet(isos') /\ iso \notin coord.consumed
    BY <2>1 DEF Unconsumed, ToSet
  <2>6. iso = made - 1 /\ iso \in Inode /\ iso # NoInode
    BY <2>4, <2>5, SourceAssumption DEF Inode, NoInode
  <2> HIDE DEF iso
  <2>7. /\ seg'[coord.live].pending.iso = iso
        /\ seg'[coord.live].inode = made - 1
        /\ \A t \in Seg : t # coord.live => seg'[t] = seg[t]
        /\ coord'.consumed = coord.consumed \cup {iso}
    BY <1>2, <2>1, <2>6 DEF iso
  <2>8. Consumed'
    <3> SUFFICES ASSUME NEW j \in Inode, marker[j] = "waiting" \/ j \in ToSet(isos')
                 PROVE  j \in coord.consumed \cup {iso}
      BY <1>1, <2>7 DEF Consumed
    <3>1. j \in ToSet(isos')
      BY <2>2, ScanAll
    <3> QED  BY <2>4, <2>6, <3>1
  <2>9. \A t \in Seg : Own(t)'
    BY <2>6, <2>7 DEF Own, Archive
  <2> QED  BY <2>8, <2>9
<1> QED  BY <1>4, <1>5

\* The steps of the coordinator and the marker watcher.
LEMMA CoordArchive ==
  ASSUME Typed, Course, Archive, CoordStep \/ Scan, UNCHANGED <<sourceVars, dir, content>>
  PROVE  Archive'
<1>1. UNCHANGED <<cur, size, marker, made, dir, content>>
  BY DEF sourceVars
<1>2. Consumed' /\ \A s \in Seg : Own(s)'
  BY RoundArchive, StartArchive, LearnArchive, NeverMissing DEF CoordStep
<1>3. \A t \in Seg : Within(t)' /\ Finalized(t)'
  BY <1>1, CoordManages, ManagedSound DEF Archive
<1>4. MarkersPast' /\ \A i \in Inode : Archived(i)'
  BY <1>1 DEF Archive, MarkersPast, Archived, Copy, Server!Exists
<1> QED  BY <1>2, <1>3, <1>4 DEF Archive

-----------------------------------------------------------------------------
(* Which rotation is which: the steps of the server *)

\* What a step of a handler makes of the files: nothing, or it writes the file that
\* segment s ships to, or gives it its next name.
LEMMA ServeEffect ==
  ASSUME Typed, Named, Settled, Copied, Files, NEW s \in Seg, Serve(s)
  PROVE  \/ UNCHANGED <<dir, content>> /\ (seg[s].io = "renaming" => Path(s)' = Path(s))
         \/ /\ seg[s].phase \in Streaming /\ seg[s].io = "sending"
            /\ seg[s].target \in Names(s)
            /\ \A n \in AgentName : n # seg[s].target => Stays(n)
         \/ /\ seg[s].phase \in {"seal", "final"} /\ seg[s].io = "renaming"
            /\ Path(s) = seg[s].target /\ Server!Exists(Path(s))
            /\ Path(s) \in Names(s) /\ Dest(s) \in Names(s)
            /\ dir'[Dest(s)] = dir[Path(s)] /\ content' = content
            /\ \A n \in AgentName : n # Path(s) /\ n # Dest(s) => Stays(n)
<1>1. /\ Shape(seg[s], wire[s]) /\ Session(wire[s], handler[s])
      /\ wire \in [Seg -> Message] /\ UNCHANGED seg
  BY DEF Typed, AgentOK, Serve
<1>2. CASE Accept(s)
  <2>1. wire[s].kind = "hello" /\ UNCHANGED <<dir, content>>
    BY <1>2 DEF Accept, Server!Hello, Server!files
  <2>2. seg[s].io # "renaming"
    BY <1>1, <2>1 DEF Shape, Kinds
  <2> QED  BY <2>1, <2>2
<1>3. CASE TakeData(s)
  <2>1. wire[s].kind = "data" /\ seg[s].io # "renaming"
    BY <1>1, <1>3 DEF TakeData, Shape, Kinds
  <2>2. CASE UNCHANGED <<dir, content>>
    BY <2>1, <2>2
  <2>3. CASE Server!BeginCreate(s, wire[s].off, wire[s].data)
    BY <2>1, <2>3, CreateEffect DEF Streaming
  <2> QED
    BY <1>3, <2>2, <2>3
    DEF TakeData, Server!BeginOpen, Server!BeginReject, Server!Raise, Server!files
<1>4. CASE FinishData(s)
  <2>1. Server!Apply(s) /\ Reply(s, OkReply)
    BY <1>4, Acceptance DEF FinishData
  <2> QED  BY <2>1, ApplyEffect DEF Copied, Streaming
<1>5. CASE TakeRename(s)
  <2>1. wire[s].kind = "rename" /\ handler[s].st = "serving"
    BY <1>5 DEF TakeRename, Server!Rename, Server!RenameNoop, Server!RenameReject
  <2>2. ~Server!Exists(wire[s].to) /\ wire[s].from = seg[s].target
    BY <2>1, RenameRequest
  <2>3. seg[s].io = "renaming" /\ seg[s].phase \in {"seal", "final"} /\ wire[s].to = Dest(s)
    BY <1>1, <2>1 DEF Shape, Kinds, Files, Greets, Dest
  <2>4. Path(s) = seg[s].target
    BY <2>1 DEF Path, ServedPath
  <2>5. CASE Server!Rename(s, wire[s].from, wire[s].to)
    BY <2>1, <2>2, <2>3, <2>4, <2>5, RenameEffect
  <2>6. CASE Server!RenameReject(s, wire[s].from, wire[s].to) /\ Reply(s, Broken)
    <3>1. wire'[s] = Broken /\ UNCHANGED <<dir, content>>
      BY <1>1, <2>6 DEF Reply, Server!RenameReject, Server!Raise, Server!files
    <3>2. Path(s)' = seg[s].target
      BY <1>1, <3>1, Built DEF Path, ServedPath
    <3> QED  BY <2>4, <3>1, <3>2
  <2>7. ~Server!RenameNoop(s, wire[s].from, wire[s].to)
    BY <2>2 DEF Server!RenameNoop
  <2> QED  BY <1>5, <2>5, <2>6, <2>7 DEF TakeRename
<1> QED  BY <1>2, <1>3, <1>4, <1>5 DEF Serve

\* The name of an archived rotation is held by the segment that ships it, if by any.
LEMMA ArchivedHeld ==
  ASSUME Typed, NEW s \in Seg, Own(s), Greets(s), NEW i \in Inode,
         NEW n \in {SealedName(i), FinalName(i)}, n \in Names(s)
  PROVE  /\ seg[s].inode = i /\ seg[s].pending # None /\ seg[s].pending.iso = i
         /\ seg[s].phase # "aside"
<1>1. Shape(seg[s], wire[s]) /\ seg[s].phase # "aside" /\ n # LiveName
  BY NameFacts DEF Typed, Greets
<1>2. /\ seg[s].pending # None
      /\ \/ n = seg[s].pending.name
         \/ seg[s].pending.iso \in Inode /\ n = FinalName(seg[s].pending.iso)
  BY <1>1 DEF Names
<1>3. Plan(seg[s].pending)
  BY <1>1, <1>2 DEF Shape
<1>4. seg[s].pending.iso = i
  <2>1. CASE seg[s].pending.iso = NoInode
    <3>1. n \in OrphanNames
      BY <1>2, <1>3, <2>1, SourceAssumption DEF Plan, NoInode, Inode
    <3> QED  BY <3>1, NameFacts
  <2>2. CASE seg[s].pending.iso \in Inode
    BY <1>2, <1>3, <2>2, NameFacts DEF Plan
  <2> QED  BY <1>3, <2>1, <2>2 DEF Plan
<1> QED  BY <1>1, <1>2, <1>4 DEF Own

\* A file that gets its final name is complete.
LEMMA FinalServed ==
  ASSUME Typed, Named, Settled, Copied, Files, Archive, NEW s \in Seg, Serve(s), NEW i \in Inode,
         Server!Exists(FinalName(i))'
  PROVE  \/ Stays(FinalName(i))
         \/ marker[i] = "done" /\ Len(content'[dir'[FinalName(i)]]) = size[i]
<1>1. Shape(seg[s], wire[s]) /\ FinalName(i) \in AgentName
  BY NamesType DEF Typed
<1>2. CASE UNCHANGED <<dir, content>>
  BY <1>2 DEF Stays, Server!Exists
<1>3. CASE /\ seg[s].io = "sending"
           /\ \A n \in AgentName : n # seg[s].target => Stays(n)
  BY <1>1, <1>3, SendTarget
<1>4. CASE /\ seg[s].phase \in {"seal", "final"} /\ seg[s].io = "renaming"
           /\ Path(s) = seg[s].target /\ Server!Exists(Path(s)) /\ Dest(s) \in Names(s)
           /\ dir'[Dest(s)] = dir[Path(s)] /\ content' = content
           /\ \A n \in AgentName : n # Path(s) /\ n # Dest(s) => Stays(n)
  <2>1. Path(s) # FinalName(i)
    BY <1>1, <1>4, SendTarget
  <2>2. CASE Dest(s) # FinalName(i)
    BY <1>1, <1>4, <2>1, <2>2
  <2>3. CASE Dest(s) = FinalName(i)
    <3>1. /\ seg[s].inode = i /\ seg[s].pending # None /\ seg[s].pending.iso = i
      BY <1>4, <2>3, ArchivedHeld DEF Files, Archive
    <3>2. seg[s].phase = "final"
      <4>1. seg[s].phase = "seal" => Dest(s) = SealedName(i)
        BY <1>1, <3>1 DEF Dest, Shape, Plan
      <4> QED  BY <1>4, <2>3, <4>1, NameFacts
    <3>3. marker[i] = "done" /\ seg[s].pos = size[i]
      BY <1>4, <3>1, <3>2 DEF Archive, Finalized
    <3>4. Len(content[dir[Path(s)]]) = Reached(s)
      BY <1>4 DEF Files, InStep, Streaming, Draining
    <3>5. Reached(s) = seg[s].pos
      BY <1>1, <1>4 DEF Reached, Shape, Kinds
    <3> QED  BY <1>4, <2>3, <3>3, <3>4, <3>5
  <2> QED  BY <2>2, <2>3
<1> QED  BY <1>2, <1>3, <1>4, ServeEffect

\* The steps of a handler.
LEMMA ServeArchive ==
  ASSUME Typed, Named, Settled, Copied, Copied', Files, Archive, NEW s \in Seg, Serve(s)
  PROVE  Archive'
<1>1. UNCHANGED <<seg, coord, isos, cur, size, marker, made>>
  BY DEF Serve, sourceVars
<1>2. \A t \in Seg \ {s} : wire'[t] = wire[t]
  BY DEF Serve, Accept, TakeData, FinishData, TakeRename, Reply, Typed, AgentOK
<1>3. MarkersPast' /\ Consumed' /\ \A t \in Seg : Own(t)' /\ Within(t)'
  BY <1>1 DEF Archive, MarkersPast, Consumed, Past, Own, Within
<1>4. \A n \in AgentName \ Names(s) : Stays(n)
  BY ServeEffect DEF Stays, Server!Exists
<1>5. ASSUME NEW t \in Seg PROVE Finalized(t)'
  <2> SUFFICES ASSUME seg[t].phase = "final", seg[t].io = "renaming", Server!Exists(Path(t))'
               PROVE  Server!Exists(Path(t))
    BY <1>1 DEF Archive, Finalized
  <2>1. CASE t = s
    BY <2>1, ServeEffect DEF Server!Exists
  <2>2. CASE t # s
    <3>1. Path(t)' = Path(t) /\ Path(t) \in Names(t) /\ Path(t) \in AgentName
      BY <1>1, <1>2, <2>2, PathOwned DEF Path, Typed, Streaming, Draining
    <3>2. Stays(Path(t))
      BY <1>4, <2>2, <3>1 DEF Named, NamesApart
    <3> QED  BY <3>1, <3>2 DEF Stays, Server!Exists
  <2> QED  BY <2>1, <2>2
<1>6. ASSUME NEW i \in Inode, NEW n \in {SealedName(i), FinalName(i)}, Server!Exists(n)'
      PROVE  Copy(n, i)'
  <2>1. n \in AgentName
    BY NamesType
  <2>2. CASE n \notin Names(s)
    BY <1>4, <1>6, <2>1, <2>2 DEF Stays, Archive, Archived, Copy
  <2>3. CASE n \in Names(s)
    <3>1. /\ seg[s].inode = i /\ seg[s].phase # "aside"
      BY <2>3, ArchivedHeld DEF Files, Archive
    <3>2. CASE seg[s].phase \in Streaming
      <4>1. n \in Names(s)'
        BY <1>1, <2>3, <3>1, NamesSame
      <4> QED  BY <1>1, <1>6, <3>1, <3>2, <4>1 DEF Copied, OwnCopies
    <3>3. CASE seg[s].phase \notin Streaming
      <4>1. UNCHANGED <<dir, content>>
        BY <3>3, ServeEffect DEF Streaming, Draining
      <4> QED  BY <1>6, <4>1 DEF Archive, Archived, Copy, Server!Exists
    <3> QED  BY <3>2, <3>3
  <2> QED  BY <2>2, <2>3
<1>7. ASSUME NEW i \in Inode PROVE Archived(i)'
  <2>1. Server!Exists(FinalName(i))' =>
          marker[i] = "done" /\ Len(content'[dir'[FinalName(i)]]) = size[i]
    BY FinalServed DEF Archive, Archived, Stays
  <2> QED  BY <1>1, <1>6, <2>1 DEF Archived
<1> QED  BY <1>3, <1>5, <1>7 DEF Archive

-----------------------------------------------------------------------------
(* All steps *)

\* The invariant of the rotations that are followed.
Filed == Steady /\ (Calm => Archive)

\* Every step keeps the files to what their names say.
LEMMA NextFiled ==
  ASSUME Pace = "followed", Markers # "late", Filed, [Next]_vars, Served'
  PROVE  Filed'
<1>1. Steady /\ Steady'
  BY NextSteady DEF Filed
<1> SUFFICES ASSUME Calm' PROVE Archive'
  BY <1>1 DEF Filed
<1>2. Calm /\ ~Agent(Killed) /\ ~Drop /\ ~Outage
  BY <1>1, CalmBefore
<1>3. /\ Copied /\ Course /\ Files /\ Typed /\ Orderly /\ ~ephemeral /\ Archive
      /\ Typed' /\ Copied'
  BY <1>1, <1>2 DEF Filed, Steady, Served, Ordered, Calm, Orderly
<1>4. Named /\ Settled
  BY <1>1, <1>3 DEF Steady, Served, Ordered
<1>5. CASE UNCHANGED vars
  <2>1. UNCHANGED <<seg, coord, isos, wire, cur, size, marker, made, dir, content>>
    BY <1>5 DEF vars, agentVars, sourceVars, serverVars
  <2>2. \A s \in Seg : Path(s)' = Path(s)
    BY <2>1 DEF Path
  <2> QED
    BY <1>3, <2>1, <2>2
    DEF Archive, MarkersPast, Consumed, Past, Own, Within, Finalized, Archived, Copy, Server!Exists
<1>6. CASE SourceStep
  BY <1>3, <1>6, SourceArchive
<1>7. ASSUME NEW s \in Seg, Serve(s) PROVE Archive'
  BY <1>3, <1>4, <1>7, ServeArchive
<1>8. ASSUME NEW s \in Seg, Run(s) PROVE Archive'
  BY <1>3, <1>8, SegmentArchive DEF Run, Agent
<1>9. CASE Coordinate \/ Agent(Scan)
  BY <1>3, <1>9, CoordArchive DEF Coordinate, Agent
<1> QED  BY <1>2, <1>5, <1>6, <1>7, <1>8, <1>9 DEF Next

\* There are no markers and no files yet.
LEMMA InitFiled == Init => Filed
<1> SUFFICES ASSUME Init PROVE Archive
  BY InitSteady DEF Filed
<1>1. /\ \A s \in Seg : seg[s] = Off
      /\ \A n \in AgentName : ~Server!Exists(n)
      /\ \A i \in Inode : marker[i] = "none"
      /\ coord.pc = "loop" /\ coord.live = None
  BY DEF Init, SourceInit, AgentInit, NoCoord, Server!Init, Server!Exists
<1>2. MarkersPast /\ Consumed
  BY <1>1 DEF MarkersPast, Consumed, Past
<1>3. \A s \in Seg : Own(s) /\ Within(s) /\ Finalized(s)
  BY <1>1, OffFields DEF Own, Within, Finalized, Streaming, Draining
<1> QED  BY <1>1, <1>2, <1>3, NamesType DEF Archive, Archived

\* Where the path rotates only once the agent is shipping the current inode, and each
\* rotation leaves its marker before the next file is made or never (Markers is not
\* "late"), an iso_dt is learnt for its own inode, and a file that is finalized is there
\* to the end.
THEOREM FiledHolds == Pace = "followed" /\ Markers # "late" /\ Spec => []Filed
<1> SUFFICES ASSUME Pace = "followed", Markers # "late" PROVE Spec => []Filed
  OBVIOUS
<1>1. Filed /\ [Next]_vars /\ Served' => Filed'
  BY NextFiled
<1> QED  BY <1>1, InitFiled, SettledHolds, PTL DEF Spec

\* Then a file under the name of an archived rotation is the copy of that very inode
\* (_learn_rotation_iso_dt takes the newest marker not yet consumed for the rotation).
THEOREM ArchiveNamed ==
  Pace = "followed" /\ Markers # "late" /\ Spec => [](Calm => NameMatchesArchive)
<1>1. Filed => (Calm => NameMatchesArchive)
  <2> SUFFICES ASSUME Archive, NEW i \in Inode, NEW n \in {SealedName(i), FinalName(i)}
               PROVE  IsHeadOf(Held(n), i)
    BY DEF Filed, NameMatchesArchive
  <2>1. CASE Server!Exists(n)
    BY <2>1 DEF Archive, Archived, Copy, Held
  <2>2. CASE ~Server!Exists(n)
    <3>1. Held(n) = <<>> /\ Len(<<>>) = 0
      BY <2>2 DEF Held
    <3>2. FirstBytes(i, 0) = <<>>
      <4>1. FirstBytes(i, 0) \in Seq({i} \X Nat) /\ Len(FirstBytes(i, 0)) = 0
        BY HeadFacts
      <4> QED  BY <4>1
    <3> QED  BY <3>1, <3>2 DEF IsHeadOf
  <2> QED  BY <2>1, <2>2
<1> QED  BY <1>1, FiledHolds, PTL

\* And a finalized file is complete: it holds the inode to its last byte
\* (_drain_until_sha13's final flush, and the rename that follows it).
THEOREM FinalComplete ==
  Pace = "followed" /\ Markers # "late" /\ Spec => [](Calm => FinalIsComplete)
<1>1. Filed => (Calm => FinalIsComplete)
  <2> SUFFICES ASSUME Archive, NEW i \in Inode, Server!Exists(FinalName(i))
               PROVE  Held(FinalName(i)) = FirstBytes(i, size[i])
    BY DEF Filed, FinalIsComplete
  <2> QED  BY DEF Archive, Archived, Copy, IsHeadOf, Held
<1> QED  BY <1>1, FiledHolds, PTL

=============================================================================
