---------------------------- MODULE LoglineNames -----------------------------
(* Who holds which name.  While the agent is orderly (see Logline.tla) every   *)
(* name it gives is new, so no two segments ever mean the same file, no rename *)
(* meets an existing one, and each handler works on the file its segment      *)
(* means.  It follows that the agent is the client Server.tla counts on.       *)
EXTENDS LoglineTypes

-----------------------------------------------------------------------------
(* The invariant *)

\* The names segment s holds: that of the live file until it is sealed, those it
\* has been asked to seal and finalize it under, and that of a stale file it is
\* moving aside.
Names(s) ==
  {n \in AgentName :
     \/ n = LiveName /\ seg[s].phase \notin Sealed \cup {"off", "done"}
     \/ /\ seg[s].pending # None
        /\ \/ n = seg[s].pending.name
           \/ seg[s].pending.iso \in Inode /\ n = FinalName(seg[s].pending.iso)
     \/ seg[s].phase = "aside" /\ wire[s].kind = "rename" /\ n = wire[s].to
     \/ seg[s].phase = "aside" /\ n = handler[s].path}

\* The names given so far.
Granted(n) ==
  \/ n = LiveName
  \/ \E i \in coord.consumed : n \in {SealedName(i), FinalName(i)}
  \/ \E k \in 1..stamp : n = OrphanAt(k)

NamesGranted == \A s \in Seg : \A n \in Names(s) : Granted(n)

NamesApart ==
  /\ \A s, t \in Seg : s # t => Names(s) \cap Names(t) = {}
  /\ \A s \in Seg : seg[s].phase = "aside" /\ wire[s].kind = "rename" /\ seg[s].pending # None
       => wire[s].to # seg[s].pending.name

\* Names that may yet be given are free.
NamesFree ==
  /\ \A i \in Inode \ coord.consumed :
       marker[i] # "done" \/ i \in ToSet(isos)
         => ~Server!Exists(SealedName(i)) /\ ~Server!Exists(FinalName(i))
  /\ \A k \in 1..MaxStamp : k > stamp => ~Server!Exists(OrphanAt(k))

\* So are those given for renames that have not been done.
NamesAwaited ==
  \A s \in Seg :
    /\ Unsealed(seg[s], wire[s]) => ~Server!Exists(seg[s].pending.name)
    /\ Unfinal(seg[s], wire[s]) => ~Server!Exists(FinalName(seg[s].pending.iso))
    /\ seg[s].phase = "aside" /\ wire[s].kind = "rename" => ~Server!Exists(wire[s].to)

\* A handler works on the file its segment means.
PathOK ==
  \A s \in Seg :
    handler[s].st # "closed" =>
      /\ \/ handler[s].path = ServedPath(seg[s], wire[s])
         \/ seg[s].phase = "aside" /\ wire[s].kind = "ok"
      /\ handler[s].fd = dir[handler[s].path]

\* No file has two names.
OneName == \A m, n \in AgentName : Server!Exists(m) /\ dir[m] = dir[n] => m = n

Named ==
  /\ NamesGranted
  /\ NamesApart
  /\ NamesFree
  /\ NamesAwaited
  /\ PathOK
  /\ OneName

-----------------------------------------------------------------------------
(* Names *)

\* The names the agent gives are all different.
LEMMA NameFacts ==
  /\ \A i, j \in Inode :
       /\ SealedName(i) = SealedName(j) => i = j
       /\ FinalName(i) = FinalName(j) => i = j
       /\ SealedName(i) # FinalName(j)
       /\ SealedName(i) # LiveName /\ FinalName(i) # LiveName
       /\ \A k \in Nat : OrphanAt(k) # SealedName(i) /\ OrphanAt(k) # FinalName(i)
  /\ \A k, l \in Nat : OrphanAt(k) = OrphanAt(l) => k = l
  /\ \A k \in Nat : OrphanAt(k) # LiveName
  /\ \A n \in OrphanNames : /\ n # LiveName
                            /\ \A i \in Inode : n # SealedName(i) /\ n # FinalName(i)
BY DEF SealedName, FinalName, LiveName, OrphanAt, OrphanName, OrphanNames

\* The live name is the live segment's.
LEMMA LiveHolder ==
  ASSUME Typed, NEW s \in Seg, seg[s].phase \notin Sealed \cup {"off"}
  PROVE  s = coord.live
BY DEF Typed, CoordOK

\* A segment that is not sealed has not got one of the closing targets.
LEMMA PathHeld ==
  ASSUME Typed, Named, NEW s \in Seg, handler[s].st # "closed"
  PROVE  handler[s].path \in Names(s) /\ handler[s].path \in AgentName
<1> DEFINE r == seg[s]
           w == wire[s]
           h == handler[s]
<1>1. /\ Shape(r, w) /\ Session(w, h) /\ r \in Segment /\ w \in Message
      /\ Server!WellFormed(h)
  BY DEF Typed, Shape, DiskOK, Server!TypeOK
<1>2. h.path \in AgentName
  BY <1>1 DEF Server!WellFormed
<1>3. w.kind \notin {"none", "hello", "broken"}
  BY <1>1, ClosedType DEF Session
<1>4. r.phase \notin {"off", "done", "born"}
  BY <1>1, <1>3 DEF Shape, Kinds, Draining
<1>5. h.path = ServedPath(r, w) \/ (r.phase = "aside" /\ w.kind = "ok")
  BY DEF Named, PathOK
<1>6. CASE r.phase = "aside"
  BY <1>2, <1>6 DEF Names
<1>7. CASE r.phase # "aside" /\ w.kind = "ok" /\ r.io = "renaming"
  <2>1. r.phase \in {"seal", "final"}
    BY <1>1, <1>3, <1>7 DEF Shape, Kinds, Draining
  <2> QED  BY <1>1, <1>2, <1>5, <1>7, <2>1 DEF ServedPath, Names, Shape, Sealed, Closing
<1>8. CASE r.phase # "aside" /\ ~(w.kind = "ok" /\ r.io = "renaming")
  <2>1. h.path = Target(r)
    BY <1>1, <1>5, <1>8 DEF ServedPath, Shape
  <2> QED  BY <1>1, <1>2, <1>4, <2>1 DEF Target, Names, Shape, Sealed, Closing
<1> QED  BY <1>2, <1>6, <1>7, <1>8

-----------------------------------------------------------------------------
(* The steps of a segment *)

\* A segment takes a new time stamp only when it moves a stale file aside.
LEMMA StampStep ==
  ASSUME NEW s \in Seg, SegmentStep(s)
  PROVE  FoundStale(s) \/ UNCHANGED stamp
BY DEF SegmentStep, Dial, Greeted, MovedStale, ConnectFailed, SealRequested, Read, Drained, Sent,
       SendFailed, Resumed, Retry, Looked, Renamed, RenameFailed, Assumed

\* A segment gives itself a name only when it moves a stale file aside.
LEMMA SegmentNames ==
  ASSUME Typed, Named, ~ephemeral, NEW s \in Seg, SegmentStep(s), Handlers
  PROVE  /\ \A t \in Seg \ {s} : /\ Names(t)' = Names(t)
                                 /\ seg'[t] = seg[t] /\ wire'[t] = wire[t]
                                 /\ handler'[t] = handler[t]
         /\ \/ UNCHANGED stamp /\ Names(s)' \subseteq Names(s) /\ seg'[s].phase # "aside"
            \/ /\ FoundStale(s) /\ stamp' = stamp + 1 /\ stamp + 1 \in 1..MaxStamp
               /\ Names(s)' \subseteq Names(s) \cup {OrphanAt(stamp + 1)}
               /\ wire'[s].to = OrphanAt(stamp + 1)
<1>1. PICK r, w : Put(s, r, w) /\ Becomes(s, r, w)
  BY SegmentEffect
<1>2. /\ seg'[s] = r /\ wire'[s] = w
      /\ \A t \in Seg \ {s} : seg'[t] = seg[t] /\ wire'[t] = wire[t]
  BY <1>1 DEF Put, Typed, AgentOK
<1>3. \A t \in Seg \ {s} : handler'[t] = handler[t]
  BY <1>2 DEF Handlers
<1>4. \A t \in Seg \ {s} : Names(t)' = Names(t)
  BY <1>2, <1>3 DEF Names
<1>5. /\ Shape(seg[s], wire[s]) /\ seg[s] \in Segment /\ seg[s].phase \notin {"off", "done"}
  BY Awake DEF Typed, Shape
<1>6. CASE r.phase # "aside"
  <2>1. Names(s)' \subseteq Names(s)
    <3> SUFFICES ASSUME NEW n \in Names(s)' PROVE n \in Names(s)
      OBVIOUS
    <3>1. n \in AgentName
      BY DEF Names
    <3>2. CASE n = LiveName /\ r.phase \notin Sealed \cup {"off", "done"}
      BY <1>1, <1>5, <3>1, <3>2 DEF Names, Becomes
    <3>3. CASE r.pending # None /\ (n = r.pending.name \/ (r.pending.iso \in Inode /\ n = FinalName(r.pending.iso)))
      <4>1. r.pending = seg[s].pending
        BY <1>1, <3>3 DEF Becomes
      <4> QED  BY <3>1, <3>3, <4>1 DEF Names
    <3> QED  BY <1>2, <1>6, <3>2, <3>3 DEF Names
  <2>2. UNCHANGED stamp
    <3>1. ~FoundStale(s)
      <4> SUFFICES ASSUME FoundStale(s) PROVE FALSE
        OBVIOUS
      <4>1. seg'[s] = [seg[s] EXCEPT !.phase = "aside"]
        BY DEF FoundStale, Put, Typed, AgentOK
      <4> QED  BY <1>2, <1>5, <1>6, <4>1 DEF Segment
    <3> QED  BY <3>1, StampStep
  <2> QED  BY <1>2, <1>3, <1>4, <1>6, <2>1, <2>2
<1>7. CASE r.phase = "aside"
  <2>1. FoundStale(s)
    BY <1>1, <1>7 DEF Becomes
  <2>2. /\ stamp < MaxStamp /\ stamp' = stamp + 1 /\ OrphanNow = OrphanAt(stamp + 1)
    BY <2>1 DEF FoundStale, StampOrphan, OrphanNow
  <2>3. /\ seg[s].phase = "greet" /\ wire[s].kind = "greeting"
        /\ wire'[s] = RenameReq(seg[s].target, OrphanNow)
        /\ seg'[s] = [seg[s] EXCEPT !.phase = "aside"]
    BY <2>1 DEF FoundStale, Put, Typed, AgentOK
  <2>4. /\ wire'[s].kind = "rename" /\ wire'[s].to = OrphanAt(stamp + 1)
        /\ wire'[s].from = seg[s].target /\ seg'[s].pending = seg[s].pending
    BY <1>5, <2>2, <2>3 DEF RenameReq, Segment
  <2>5. handler'[s] = handler[s]
    BY <2>4 DEF Handlers
  <2>6. handler[s].st # "closed"
    BY <2>3 DEF Typed, Session
  <2>7. handler[s].path \in Names(s)
    BY <2>6, PathHeld
  <2>8. Names(s)' \subseteq Names(s) \cup {OrphanAt(stamp + 1)}
    <3> SUFFICES ASSUME NEW n \in Names(s)', n # OrphanAt(stamp + 1) PROVE n \in Names(s)
      OBVIOUS
    <3>1. CASE n = LiveName
      BY <2>3, <3>1, NamesType DEF Names, Sealed, Closing
    <3>2. CASE n # LiveName
      BY <2>4, <2>5, <2>7, <3>2 DEF Names
    <3> QED  BY <3>1, <3>2
  <2>9. stamp + 1 \in 1..MaxStamp
    BY <2>2, AgentAssumption DEF Typed, AgentOK
  <2> QED  BY <1>2, <1>3, <1>4, <2>1, <2>2, <2>4, <2>8, <2>9
<1> QED  BY <1>6, <1>7

\* A step of a segment keeps the names apart ...
LEMMA SegmentNamed ==
  ASSUME Typed, Typed', Named, ~ephemeral, NEW s \in Seg, SegmentStep(s), Handlers,
         UNCHANGED sourceVars
  PROVE  Named'
<1> DEFINE o == OrphanAt(stamp + 1)
<1>1. PICK r, w : Put(s, r, w) /\ Becomes(s, r, w)
  BY SegmentEffect
<1>2. /\ seg'[s] = r /\ wire'[s] = w
  BY <1>1 DEF Put, Typed, AgentOK
<1>3. /\ UNCHANGED <<dir, coord, isos, marker>>
      /\ stamp \in 0..MaxStamp /\ stamp' \in 0..MaxStamp
  BY SegmentRest DEF Handlers, sourceVars, Typed, AgentOK
<1>4. /\ \A t \in Seg \ {s} : /\ Names(t)' = Names(t)
                              /\ seg'[t] = seg[t] /\ wire'[t] = wire[t]
                              /\ handler'[t] = handler[t]
      /\ \/ UNCHANGED stamp /\ Names(s)' \subseteq Names(s) /\ r.phase # "aside"
         \/ /\ FoundStale(s) /\ stamp' = stamp + 1 /\ stamp + 1 \in 1..MaxStamp
            /\ Names(s)' \subseteq Names(s) \cup {o}
            /\ w.to = o
  BY <1>2, SegmentNames
<1>5. \A t \in Seg : Names(t)' \subseteq Names(t) \cup {o}
  BY <1>4
<1>6. \A k \in 1..stamp : k \in Nat /\ k # stamp + 1
  BY <1>3
<1>7. \A t \in Seg : o \notin Names(t)
  <2> SUFFICES ASSUME NEW t \in Seg, o \in Names(t) PROVE FALSE
    OBVIOUS
  <2>1. Granted(o)
    BY DEF Named, NamesGranted
  <2>2. coord.consumed \subseteq Inode /\ stamp + 1 \in Nat
    BY <1>3 DEF Typed, CoordOK, Coordinator
  <2> QED  BY <1>6, <2>1, <2>2, NameFacts DEF Granted
<1>8. NamesGranted'
  <2> SUFFICES ASSUME NEW t \in Seg, NEW n \in Names(t)' PROVE Granted(n)'
    BY DEF NamesGranted
  <2>1. CASE n \in Names(t)
    <3>1. Granted(n)
      BY <2>1 DEF Named, NamesGranted
    <3>2. \A k \in 1..stamp : k \in 1..stamp'
      BY <1>3, <1>4
    <3> QED  BY <1>3, <3>1, <3>2 DEF Granted
  <2>2. CASE n = o /\ stamp' = stamp + 1 /\ stamp + 1 \in 1..MaxStamp
    <3>1. stamp + 1 \in 1..stamp'
      BY <1>3, <2>2
    <3> QED  BY <2>2, <3>1 DEF Granted
  <2> QED  BY <1>4, <2>1, <2>2
<1>9. NamesApart'
  <2>1. ASSUME NEW t \in Seg, NEW u \in Seg, t # u PROVE Names(t)' \cap Names(u)' = {}
    <3>1. Names(t) \cap Names(u) = {}
      BY <2>1 DEF Named, NamesApart
    <3> QED  BY <1>4, <1>7, <2>1, <3>1
  <2>2. ASSUME NEW t \in Seg, seg'[t].phase = "aside", wire'[t].kind = "rename",
               seg'[t].pending # None
        PROVE  wire'[t].to # seg'[t].pending.name
    <3>1. CASE t # s
      BY <1>4, <2>2, <3>1 DEF Named, NamesApart
    <3>2. CASE t = s
      <4>1. w.to = o /\ r.pending = seg[s].pending
        BY <1>1, <1>2, <1>4, <2>2, <3>2 DEF Becomes
      <4>2. seg[s].pending.name \in Names(s)
        BY <1>2, <2>2, <3>2, <4>1, SegmentFields DEF Names, Typed, AgentOK
      <4> QED  BY <1>2, <1>7, <3>2, <4>1, <4>2
    <3> QED  BY <3>1, <3>2
  <2> QED  BY <2>1, <2>2 DEF NamesApart
<1>10. NamesFree'
  BY <1>3, <1>4 DEF Named, NamesFree, Server!Exists
<1>11. NamesAwaited'
  <2> SUFFICES ASSUME NEW t \in Seg
               PROVE  /\ Unsealed(seg'[t], wire'[t]) => ~Server!Exists(seg'[t].pending.name)
                      /\ Unfinal(seg'[t], wire'[t]) => ~Server!Exists(FinalName(seg'[t].pending.iso))
                      /\ seg'[t].phase = "aside" /\ wire'[t].kind = "rename"
                           => ~Server!Exists(wire'[t].to)
    BY <1>3 DEF NamesAwaited, Server!Exists
  <2>1. CASE t # s
    BY <1>4, <2>1 DEF Named, NamesAwaited
  <2>2. CASE t = s
    <3>1. Unsealed(r, w) => ~Server!Exists(r.pending.name)
      BY <1>1 DEF Becomes, Unsealed, Named, NamesAwaited
    <3>2. Unfinal(r, w) => ~Server!Exists(FinalName(r.pending.iso))
      BY <1>1 DEF Becomes, Unfinal, Named, NamesAwaited
    <3>3. r.phase = "aside" => ~Server!Exists(w.to)
      <4>1. CASE w.to = o /\ stamp + 1 \in 1..MaxStamp
        BY <1>3, <4>1 DEF Named, NamesFree
      <4> QED  BY <1>4, <4>1
    <3> QED  BY <1>2, <2>2, <3>1, <3>2, <3>3
  <2> QED  BY <2>1, <2>2
<1>12. PathOK'
  <2> SUFFICES ASSUME NEW t \in Seg, handler'[t].st # "closed"
               PROVE  /\ \/ handler'[t].path = ServedPath(seg'[t], wire'[t])
                         \/ seg'[t].phase = "aside" /\ wire'[t].kind = "ok"
                      /\ handler'[t].fd = dir[handler'[t].path]
    BY <1>3 DEF PathOK
  <2>1. CASE t # s
    BY <1>4, <2>1 DEF Named, PathOK
  <2>2. CASE t = s
    <3>1. handler'[s] = handler[s]
      BY <2>2, ClosedType DEF Handlers
    <3>2. Session(w, handler'[s]) /\ w \in Message
      BY <1>2 DEF Typed, Shape
    <3>3. w.kind \in {"idle", "data", "rename"}
      BY <1>1, <2>2, <3>2, ClosedType, Built
         DEF Session, Message, Hellos, DataReqs, Renames, Greetings, Becomes
    <3>4. r.target = ServedPath(seg[s], wire[s]) /\ seg[s].phase # "aside"
      BY <1>1, <3>3 DEF Becomes
    <3>5. r.target = ServedPath(r, w)
      BY <3>3 DEF ServedPath
    <3> QED  BY <1>2, <2>2, <3>1, <3>4, <3>5 DEF Named, PathOK
  <2> QED  BY <2>1, <2>2
<1>13. OneName'
  BY <1>3 DEF Named, OneName, Server!Exists
<1> QED  BY <1>8, <1>9, <1>10, <1>11, <1>12, <1>13 DEF Named

-----------------------------------------------------------------------------
(* The steps of the coordinator and the marker watcher *)

\* What is found by a scan may yet be given a name.
LEMMA ScanFree ==
  ASSUME Typed, NamesFree, Scanned(isos, isos') \/ isos' = isos \/ isos' = <<>>, UNCHANGED marker,
         NEW i \in Inode \ coord.consumed, marker[i] # "done" \/ i \in ToSet(isos')
  PROVE  ~Server!Exists(SealedName(i)) /\ ~Server!Exists(FinalName(i))
<1>1. isos' = <<>> => ToSet(isos') = {}
  BY DEF ToSet
<1> QED  BY <1>1, ScanType DEF NamesFree

\* Steps that change nothing of the segments but to drop an ended one.
LEMMA RoundNamed ==
  ASSUME Typed, Named, Handlers, seg' \in {seg, Reaped}, coord'.consumed = coord.consumed,
         Scanned(isos, isos') \/ UNCHANGED isos, UNCHANGED <<sourceVars, stamp, wire>>
  PROVE  Named'
<1>1. handler' = handler /\ dir' = dir /\ marker' = marker /\ wire' = wire
  BY QuietSessions DEF Handlers, sourceVars
<1>2. \A t \in Seg : \/ seg'[t] = seg[t]
                    \/ /\ seg'[t] = Off /\ wire[t].kind = "none" /\ handler[t] = Server!Closed
                       /\ seg[t].phase = "done"
  <2> SUFFICES ASSUME NEW t \in Seg, seg'[t] # seg[t]
               PROVE  /\ seg'[t] = Off /\ wire[t].kind = "none" /\ handler[t] = Server!Closed
                      /\ seg[t].phase = "done"
    OBVIOUS
  <2>1. seg'[t] = Off /\ seg[t].phase = "done" /\ Shape(seg[t], wire[t]) /\ Session(wire[t], handler[t])
    BY ReapedType DEF Typed
  <2> QED  BY <2>1 DEF Shape, Kinds, Session, Draining
<1>3. \A t \in Seg : Names(t)' \subseteq Names(t)
  BY <1>1, <1>2, OffFields DEF Names
<1>4. NamesGranted' /\ OneName'
  BY <1>1, <1>3 DEF Named, NamesGranted, Granted, OneName, Server!Exists
<1>5. NamesApart'
  <2>1. \A s, t \in Seg : s # t => Names(s)' \cap Names(t)' = {}
    BY <1>3 DEF Named, NamesApart
  <2>2. \A t \in Seg : seg'[t].pending # None => seg'[t] = seg[t]
    BY <1>2, OffFields
  <2> QED  BY <1>1, <2>1, <2>2 DEF Named, NamesApart
<1>6. NamesFree'
  BY <1>1, ScanFree DEF Named, NamesFree, Server!Exists
<1>7. NamesAwaited'
  BY <1>1, <1>2, OffFields DEF Named, NamesAwaited, Unsealed, Unfinal, Server!Exists
<1>8. PathOK'
  BY <1>1, <1>2, ClosedType DEF Named, PathOK
<1> QED  BY <1>4, <1>5, <1>6, <1>7, <1>8 DEF Named

\* A new live segment: the one before it has been sealed, or has ended.
LEMMA StartNamed ==
  ASSUME Typed, Typed', Named, NEW i, Start(i, coord.consumed), Handlers,
         UNCHANGED <<sourceVars, isos, stamp, wire>>
  PROVE  Named'
<1> DEFINE free == {f \in Seg : Reaped[f].phase = "off"}
           r    == [Off EXCEPT !.phase = "born", !.inode = i]
<1>0. free # {}
  BY DEF Start
<1>s. PICK s \in Seg : s = (CHOOSE f \in free : TRUE) /\ Reaped[s].phase = "off"
  BY <1>0
<1>1. /\ seg' = [Reaped EXCEPT ![s] = r]
      /\ coord' = [coord EXCEPT !.pc = "loop", !.live = s, !.last = coord.found,
                                !.found = NoInode, !.opened = NoInode,
                                !.consumed = coord.consumed]
  BY <1>s DEF Start
<1>2. s \in Seg /\ Reaped[s].phase = "off"
  BY <1>s
<1>3. /\ handler' = handler /\ dir' = dir /\ marker' = marker /\ wire' = wire /\ isos' = isos
      /\ stamp' = stamp
  BY QuietSessions DEF Handlers, sourceVars
<1>4. coord'.consumed = coord.consumed /\ coord'.live = s
  BY <1>1, <1>2 DEF Typed, CoordOK, Coordinator
<1>5. r.phase = "born" /\ r.pending = None
  BY OffFields DEF Segment
<1> HIDE DEF r
<1>6. seg'[s] = r /\ \A t \in Seg \ {s} : seg'[t] = Reaped[t]
  BY <1>1, <1>2, ReapedType
<1>7. \A t \in Seg : \/ t # s /\ seg'[t] = seg[t]
                    \/ /\ seg'[t] = Off \/ (t = s /\ seg'[t] = r)
                       /\ wire[t].kind = "none" /\ handler[t] = Server!Closed
  <2> SUFFICES ASSUME NEW t \in Seg, ~(t # s /\ seg'[t] = seg[t])
               PROVE  /\ seg'[t] = Off \/ (t = s /\ seg'[t] = r)
                      /\ wire[t].kind = "none" /\ handler[t] = Server!Closed
    OBVIOUS
  <2>1. Shape(Reaped[t], wire[t]) /\ Session(wire[t], handler[t])
    BY ReapedType DEF Typed
  <2>2. CASE t = s
    BY <1>2, <1>6, <2>1, <2>2 DEF Shape, Kinds, Session, Draining
  <2>3. CASE t # s
    <3>1. Reaped[t] = Off
      BY <1>6, <2>3, ReapedType
    <3> QED  BY <1>6, <2>1, <2>3, <3>1, OffFields DEF Shape, Kinds, Session, Draining
  <2> QED  BY <2>2, <2>3
<1>8. \A t \in Seg \ {s} : Names(t)' \subseteq Names(t) /\ LiveName \notin Names(t)'
  <2> SUFFICES ASSUME NEW t \in Seg, t # s
               PROVE  Names(t)' \subseteq Names(t) /\ LiveName \notin Names(t)'
    OBVIOUS
  <2>1. seg'[t].phase \in Sealed \cup {"off"} /\ Shape(seg'[t], wire'[t])
    BY <1>4 DEF Typed, CoordOK
  <2>2. LiveName \notin Names(t)'
    BY <2>1, NameFacts DEF Names, Shape, Plan, Sealed, Closing
  <2>3. Names(t)' \subseteq Names(t)
    BY <1>3, <1>7, OffFields DEF Names
  <2> QED  BY <2>2, <2>3
<1>9. Names(s)' \subseteq {LiveName}
  BY <1>5, <1>6 DEF Names
<1>10. NamesGranted' /\ OneName'
  BY <1>3, <1>4, <1>8, <1>9 DEF Named, NamesGranted, Granted, OneName, Server!Exists
<1>11. NamesApart'
  <2>1. ASSUME NEW t \in Seg, NEW u \in Seg, t # u PROVE Names(t)' \cap Names(u)' = {}
    BY <1>8, <1>9, <2>1 DEF Named, NamesApart
  <2>2. \A t \in Seg : seg'[t].phase = "aside" => seg'[t] = seg[t]
    BY <1>5, <1>7, OffFields
  <2> QED  BY <1>3, <2>1, <2>2 DEF Named, NamesApart
<1>12. NamesFree'
  BY <1>3, <1>4 DEF Named, NamesFree, Server!Exists
<1>13. NamesAwaited'
  BY <1>3, <1>5, <1>7, OffFields DEF Named, NamesAwaited, Unsealed, Unfinal, Server!Exists
<1>14. PathOK'
  BY <1>3, <1>7, ClosedType DEF Named, PathOK
<1> QED  BY <1>10, <1>11, <1>12, <1>13, <1>14 DEF Named

\* A seal requested, under a name never given before.
LEMMA SealNamed ==
  ASSUME Typed, Named, Handlers, NEW n \in AgentName, NEW iso \in Inode \cup {NoInode},
         coord.pc \in {"learn", "grace"}, RequestSeal(n, iso),
         Scanned(isos, isos') \/ UNCHANGED isos,
         \/ /\ iso \in Inode /\ iso \notin coord.consumed /\ iso \in ToSet(isos')
            /\ n = SealedName(iso) /\ UNCHANGED stamp
         \/ /\ iso = NoInode /\ n = OrphanAt(stamp + 1)
            /\ stamp < MaxStamp /\ stamp' = stamp + 1,
         UNCHANGED <<sourceVars, wire>>
  PROVE  Named'
<1>s. PICK s \in Seg : s = coord.live
  BY DEF Typed, CoordOK
<1> DEFINE G == {n} \cup (IF iso \in Inode THEN {FinalName(iso)} ELSE {})
           plan == [name |-> n, iso |-> iso]
           p == IF seg[s].phase = "done" THEN None ELSE plan
           r == [seg[s] EXCEPT !.pending = p]
<1>1. /\ s \in Seg /\ Shape(seg[s], wire[s]) /\ seg[s] \in Segment
      /\ seg[s].pending = None /\ seg[s].phase # "off"
  BY <1>s, AgentAssumption DEF Typed, CoordOK, Coordinator, Shape
<1>2. seg' = [seg EXCEPT ![s] = r]
  BY <1>s, <1>1 DEF RequestSeal
<1>3. coord'.consumed = IF iso = NoInode THEN coord.consumed ELSE coord.consumed \cup {iso}
  BY DEF RequestSeal, Typed, CoordOK, Coordinator
<1>4. p \in {None, plan} /\ plan.name = n /\ plan.iso = iso
  OBVIOUS
<1> HIDE DEF p, plan
<1>5. /\ r.pending = p /\ r.phase = seg[s].phase /\ r.io = seg[s].io /\ r.target = seg[s].target
  BY <1>1 DEF Segment
<1> HIDE DEF r
<1>6. seg'[s] = r /\ \A t \in Seg \ {s} : seg'[t] = seg[t]
  BY <1>1, <1>2 DEF Typed, AgentOK
<1>7. /\ handler' = handler /\ dir' = dir /\ marker' = marker /\ wire' = wire
      /\ stamp \in 0..MaxStamp /\ MaxStamp \in Nat
      /\ coord.consumed \subseteq Inode /\ NoInode \notin Inode
  BY QuietSessions, AgentAssumption
     DEF Handlers, sourceVars, Typed, AgentOK, CoordOK, Coordinator, NoInode, Inode
<1>8. \A g \in G : ~Granted(g) /\ ~Server!Exists(g)
  <2>1. CASE iso \in Inode
    <3>1. ~Server!Exists(SealedName(iso)) /\ ~Server!Exists(FinalName(iso))
      BY <1>7, <2>1, ScanFree DEF Named
    <3>2. ~Granted(SealedName(iso)) /\ ~Granted(FinalName(iso))
      BY <1>7, <2>1, NameFacts DEF Granted
    <3> QED  BY <1>7, <2>1, <3>1, <3>2
  <2>2. CASE iso = NoInode
    <3>1. stamp + 1 \in 1..MaxStamp /\ stamp + 1 > stamp
      BY <1>7, <2>2
    <3>2. ~Server!Exists(OrphanAt(stamp + 1))
      BY <3>1 DEF Named, NamesFree
    <3>3. \A k \in 1..stamp : k \in Nat /\ k # stamp + 1
      BY <1>7
    <3>4. ~Granted(OrphanAt(stamp + 1))
      BY <1>7, <3>1, <3>3, NameFacts DEF Granted
    <3> QED  BY <1>7, <2>2, <3>2, <3>4
  <2> QED  BY <2>1, <2>2
<1>9. \A g \in G : Granted(g)'
  <2>1. CASE iso \in Inode
    BY <1>3, <1>7, <2>1 DEF Granted
  <2>2. CASE iso = NoInode
    <3>1. stamp' \in 1..stamp' /\ n = OrphanAt(stamp')
      BY <1>7, <2>2
    <3> QED  BY <1>7, <2>2, <3>1 DEF Granted
  <2> QED  BY <2>1, <2>2
<1>10. \A m : Granted(m) => Granted(m)'
  <2>1. \A k \in 1..stamp : k \in 1..stamp'
    BY <1>7
  <2> QED  BY <1>3, <2>1 DEF Granted
<1>11. /\ \A t \in Seg \ {s} : Names(t)' = Names(t)
       /\ Names(s)' \subseteq Names(s) \cup G
  BY <1>4, <1>5, <1>6, <1>7 DEF Names
<1>12. \A t \in Seg : Names(t) \cap G = {}
  BY <1>8 DEF Named, NamesGranted
<1> HIDE DEF G
<1>13. NamesGranted' /\ OneName'
  <2>1. \A t \in Seg : Names(t)' \subseteq Names(t) \cup G
    BY <1>11
  <2>2. NamesGranted'
    BY <1>9, <1>10, <2>1 DEF Named, NamesGranted
  <2> QED  BY <1>7, <2>2 DEF Named, OneName, Server!Exists
<1>14. NamesApart'
  <2>1. ASSUME NEW t \in Seg, NEW u \in Seg, t # u PROVE Names(t)' \cap Names(u)' = {}
    <3>1. Names(t) \cap Names(u) = {}
      BY <2>1 DEF Named, NamesApart
    <3> QED  BY <1>11, <1>12, <2>1, <3>1
  <2>2. ASSUME NEW t \in Seg, seg'[t].phase = "aside", wire'[t].kind = "rename",
               seg'[t].pending # None
        PROVE  wire'[t].to # seg'[t].pending.name
    <3>1. CASE t # s
      BY <1>6, <1>7, <2>2, <3>1 DEF Named, NamesApart
    <3>2. CASE t = s
      <4>1. wire[s].to \in Names(s)
        <5>1. wire[s] \in Message /\ seg[s].phase = "aside" /\ wire[s].kind = "rename"
          BY <1>1, <1>5, <1>6, <1>7, <2>2, <3>2 DEF Shape
        <5>2. wire[s].to \in AgentName
          BY <5>1, ByKind DEF Renames
        <5> QED  BY <5>1, <5>2 DEF Names
      <4>2. seg'[s].pending.name \in G
        BY <1>4, <1>5, <1>6, <2>2, <3>2 DEF G
      <4> QED  BY <1>7, <1>12, <3>2, <4>1, <4>2
    <3> QED  BY <3>1, <3>2
  <2> QED  BY <2>1, <2>2 DEF NamesApart
<1>15. NamesFree'
  <2>1. \A i \in Inode \ coord'.consumed :
          marker[i] # "done" \/ i \in ToSet(isos')
            => ~Server!Exists(SealedName(i)) /\ ~Server!Exists(FinalName(i))
    BY <1>3, <1>7, ScanFree DEF Named
  <2>2. \A k \in 1..MaxStamp : k > stamp' => ~Server!Exists(OrphanAt(k))
    BY <1>7 DEF Named, NamesFree
  <2> QED  BY <1>7, <2>1, <2>2 DEF NamesFree, Server!Exists
<1>16. NamesAwaited'
  <2> SUFFICES ASSUME NEW t \in Seg
               PROVE  /\ Unsealed(seg'[t], wire[t]) => ~Server!Exists(seg'[t].pending.name)
                      /\ Unfinal(seg'[t], wire[t]) => ~Server!Exists(FinalName(seg'[t].pending.iso))
                      /\ seg'[t].phase = "aside" /\ wire[t].kind = "rename"
                           => ~Server!Exists(wire[t].to)
    BY <1>7 DEF NamesAwaited, Server!Exists
  <2>1. CASE t # s
    BY <1>6, <2>1 DEF Named, NamesAwaited
  <2>2. CASE t = s
    <3>1. r.pending # None => r.pending.name \in G
      BY <1>4, <1>5 DEF G
    <3>2. r.pending # None /\ r.pending.iso \in Inode => FinalName(r.pending.iso) \in G
      BY <1>4, <1>5 DEF G
    <3>3. seg'[s].phase = "aside" /\ wire[s].kind = "rename" => ~Server!Exists(wire[s].to)
      BY <1>1, <1>5, <1>6 DEF Named, NamesAwaited
    <3> QED  BY <1>6, <1>8, <2>2, <3>1, <3>2, <3>3 DEF Unsealed, Unfinal
  <2> QED  BY <2>1, <2>2
<1>17. PathOK'
  <2>1. ServedPath(r, wire[s]) = ServedPath(seg[s], wire[s])
    <3>1. ~(wire[s].kind = "ok" /\ seg[s].io = "renaming")
      BY <1>1 DEF Shape, Kinds, Draining, Sealed, Closing
    <3> QED  BY <1>5, <3>1 DEF ServedPath
  <2> QED  BY <1>5, <1>6, <1>7, <2>1 DEF Named, PathOK
<1> QED  BY <1>13, <1>14, <1>15, <1>16, <1>17 DEF Named

\* All forgotten: what the agent had consumed is done with.
LEMMA StartOverNamed ==
  ASSUME Typed, Named, StartOver, Handlers, \A i \in coord.consumed : marker[i] # "waiting",
         UNCHANGED <<sourceVars, stamp>>
  PROVE  Named'
<1>1. /\ \A s \in Seg : seg'[s] = Off /\ wire'[s] = Unconnected
      /\ coord'.consumed = {} /\ isos' = <<>>
  BY DEF StartOver, NoCoord
<1>2. \A s \in Seg : Names(s)' = {}
  BY <1>1, OffFields DEF Names
<1>3. dir' = dir /\ marker' = marker /\ stamp' = stamp
  BY DEF Handlers, sourceVars
<1>4. \A s \in Seg : handler'[s].st = "closed"
  <2> SUFFICES ASSUME NEW s \in Seg PROVE handler'[s].st = "closed"
    OBVIOUS
  <2>1. Session(wire[s], handler[s])
    BY DEF Typed
  <2> QED  BY <1>1, <2>1, Built, ClosedType DEF Handlers, Session
<1>5. NamesFree'
  <2>1. \A i \in Inode : marker[i] # "done" => i \notin coord.consumed
    BY DEF Typed, IsosOK, SourceOK
  <2>2. ToSet(isos') = {}
    BY <1>1 DEF ToSet
  <2> QED  BY <1>1, <1>3, <2>1, <2>2 DEF Named, NamesFree, Server!Exists
<1>6. NamesAwaited'
  BY <1>1, OffFields DEF NamesAwaited, Unsealed, Unfinal
<1>7. NamesApart'
  BY <1>1, <1>2, OffFields DEF NamesApart
<1> QED  BY <1>2, <1>3, <1>4, <1>5, <1>6, <1>7
         DEF Named, NamesGranted, PathOK, OneName, Server!Exists

\* ... and so does a step of the coordinator, as long as it forgets no waiting iso_dt ...
LEMMA CoordNamed ==
  ASSUME Typed, Typed', Named, ~ephemeral, CoordStep, Handlers, UNCHANGED sourceVars,
         \A i \in coord.consumed \ coord'.consumed : marker[i] # "waiting"
  PROVE  Named'
<1>1. coord \in Coordinator
  BY DEF Typed, CoordOK
<1>2. CASE Poll \/ OpenKnown \/ OpenRotated \/ NoMarkerYet
  <2>1. coord'.consumed = coord.consumed
    BY <1>1, <1>2 DEF Poll, OpenKnown, OpenRotated, NoMarkerYet, Coordinator
  <2>2. /\ seg' \in {seg, Reaped} /\ UNCHANGED <<stamp, wire>>
        /\ Scanned(isos, isos') \/ UNCHANGED isos
    BY <1>2 DEF Poll, OpenKnown, OpenRotated, NoMarkerYet
  <2> QED  BY <2>1, <2>2, RoundNamed
<1>3. CASE OpenFirst
  BY <1>3, StartNamed DEF OpenFirst
<1>4. CASE SealWaited
  BY <1>4, StartNamed DEF SealWaited
<1>5. CASE OpenFailed
  <2>1. coord'.consumed = {}
    BY <1>5 DEF OpenFailed, StartOver, NoCoord
  <2> QED  BY <1>5, <2>1, StartOverNamed DEF OpenFailed
<1>6. CASE LearnIso
  <2>1. PICK k \in Unconsumed(isos') : RequestSeal(SealedName(isos'[k]), isos'[k])
    BY <1>6 DEF LearnIso
  <2>2. /\ Scanned(isos, isos') /\ coord.pc \in {"learn", "grace"}
        /\ UNCHANGED <<stamp, wire>>
    BY <1>6 DEF LearnIso
  <2>3. k \in DOMAIN isos' /\ isos'[k] \notin coord.consumed /\ isos'[k] \in ToSet(isos')
    BY <2>1 DEF Unconsumed, ToSet
  <2>4. isos'[k] \in Inode
    BY <2>2, <2>3, ScanType
  <2>5. SealedName(isos'[k]) \in AgentName
    BY <2>4, NamesType
  <2> QED  BY <2>1, <2>2, <2>3, <2>4, <2>5, SealNamed
<1>7. CASE GraceExpired
  <2>1. /\ OrphanNow = OrphanAt(stamp + 1) /\ stamp < MaxStamp /\ stamp' = stamp + 1
        /\ RequestSeal(OrphanNow, NoInode) /\ coord.pc = "grace" /\ UNCHANGED <<isos, wire>>
    BY <1>7 DEF GraceExpired, StampOrphan, OrphanNow
  <2>2. OrphanNow \in AgentName
    BY <1>7, OrphanType, NamesType DEF GraceExpired, Typed
  <2> QED  BY <2>1, <2>2, SealNamed
<1> QED  BY <1>2, <1>3, <1>4, <1>5, <1>6, <1>7 DEF CoordStep

\* ... hence any step of the agent.
LEMMA AgentNamed ==
  ASSUME Typed, Typed', Named, Orderly',
         (\E s \in Seg : Run(s)) \/ Coordinate \/ Agent(Scan) \/ Agent(Killed)
  PROVE  Named'
<1>1. /\ Handlers /\ UNCHANGED sourceVars
      /\ \A i \in coord.consumed \ coord'.consumed : marker[i] # "waiting"
  BY DEF Run, Coordinate, Agent, Handlers, Orderly
<1>2. ASSUME NEW s \in Seg, Run(s) PROVE Named'
  <2>1. SegmentStep(s)
    BY <1>2 DEF Run, Agent
  <2>2. ~ephemeral
    BY <2>1, SegmentRest DEF Orderly
  <2> QED  BY <1>1, <2>1, <2>2, SegmentNamed
<1>3. CASE Coordinate
  <2>1. CoordStep
    BY <1>3 DEF Coordinate, Agent
  <2>2. UNCHANGED ephemeral
    BY <2>1 DEF CoordStep, Poll, OpenKnown, OpenFirst, OpenRotated, OpenFailed, LearnIso,
                NoMarkerYet, GraceExpired, SealWaited
  <2> QED  BY <1>1, <2>1, <2>2, CoordNamed DEF Orderly
<1>4. CASE Agent(Scan)
  BY <1>1, <1>4, RoundNamed DEF Agent, Scan
<1>5. CASE Agent(Killed)
  <2>1. coord'.consumed = {}
    BY <1>5 DEF Agent, Killed, StartOver, NoCoord
  <2> QED  BY <1>1, <1>5, <2>1, StartOverNamed DEF Agent, Killed
<1> QED  BY <1>2, <1>3, <1>4, <1>5

-----------------------------------------------------------------------------
(* The steps of the server *)

\* What is left of a segment's names when its handler is left with h and its
\* connection with w.
LEMMA ServeNames ==
  ASSUME Typed, NEW s \in Seg, NEW w, NEW h, wire' = [wire EXCEPT ![s] = w],
         handler' = [handler EXCEPT ![s] = h], UNCHANGED seg,
         seg[s].phase = "aside" =>
           /\ h.path \in {None, handler[s].path} \/ (wire[s].kind = "rename" /\ h.path = wire[s].to)
           /\ w = wire[s] \/ w.kind # "rename"
  PROVE  /\ wire'[s] = w /\ handler'[s] = h
         /\ \A t \in Seg \ {s} : wire'[t] = wire[t] /\ handler'[t] = handler[t]
         /\ \A t \in Seg : Names(t)' \subseteq Names(t)
<1>1. /\ wire'[s] = w /\ handler'[s] = h
      /\ \A t \in Seg \ {s} : wire'[t] = wire[t] /\ handler'[t] = handler[t]
  BY DEF Typed, AgentOK, DiskOK, Server!TypeOK
<1>2. None \notin AgentName
  BY LoglineAssumption
<1> QED  BY <1>1, <1>2 DEF Names

\* Steps of a handler that change no name.
LEMMA QuietServeNamed ==
  ASSUME Typed, Named, NEW s \in Seg, NEW w, NEW h, wire' = [wire EXCEPT ![s] = w],
         handler' = [handler EXCEPT ![s] = h], UNCHANGED <<seg, coord, isos, stamp, marker, dir>>,
         \/ w = wire[s] \/ w = Broken
         \/ w.kind # "rename" /\ seg[s].phase # "aside" /\ seg[s].io # "renaming",
         \/ h.st = "closed" /\ h.path = None
         \/ h.st # "closed" /\ h.path = ServedPath(seg[s], w) /\ h.fd = dir[h.path]
              /\ (seg[s].phase = "aside" => h.path = handler[s].path)
  PROVE  Named'
<1>1. /\ wire'[s] = w /\ handler'[s] = h
      /\ \A t \in Seg \ {s} : wire'[t] = wire[t] /\ handler'[t] = handler[t]
      /\ \A t \in Seg : Names(t)' \subseteq Names(t)
  BY ServeNames, Built
<1>2. NamesGranted' /\ NamesFree' /\ OneName'
  BY <1>1 DEF Named, NamesGranted, Granted, NamesFree, OneName, Server!Exists
<1>3. NamesApart'
  BY <1>1, Built DEF Named, NamesApart
<1>4. NamesAwaited'
  <2>1. Unsealed(seg[s], w) => Unsealed(seg[s], wire[s])
    BY Built DEF Unsealed
  <2>2. Unfinal(seg[s], w) => Unfinal(seg[s], wire[s])
    BY Built DEF Unfinal
  <2>3. ASSUME NEW t \in Seg
        PROVE  /\ Unsealed(seg[t], wire'[t]) => ~Server!Exists(seg[t].pending.name)
               /\ Unfinal(seg[t], wire'[t]) => ~Server!Exists(FinalName(seg[t].pending.iso))
               /\ seg[t].phase = "aside" /\ wire'[t].kind = "rename"
                    => ~Server!Exists(wire'[t].to)
    BY <1>1, <2>1, <2>2, Built DEF Named, NamesAwaited
  <2> QED  BY <2>3 DEF NamesAwaited, Server!Exists
<1>5. PathOK'
  BY <1>1 DEF Named, PathOK
<1> QED  BY <1>2, <1>3, <1>4, <1>5 DEF Named

\* A handler that raises, or that the network cuts off.
LEMMA CutNamed ==
  ASSUME Typed, Named, NEW s \in Seg, Reply(s, Broken),
         handler' = [handler EXCEPT ![s] = Server!Closed],
         UNCHANGED <<seg, coord, isos, stamp, marker, dir>>
  PROVE  Named'
BY QuietServeNamed, ClosedType DEF Reply

\* A handler that greets is bound to the name its segment streams to ...
LEMMA AcceptNamed ==
  ASSUME Typed, Named, NEW s \in Seg, Accept(s), Serve(s)
  PROVE  Named'
<1> DEFINE t == wire[s].target
           g == Greeting(Server!ReportedLength(t), Server!ReportedPrefix(t, wire[s].n))
           c == Server!Closed
           h == [c EXCEPT !.st = "serving", !.path = t, !.fd = dir[t],
                          !.pos = Server!ReportedLength(t)]
<1>1. /\ Shape(seg[s], wire[s]) /\ wire[s].kind = "hello"
      /\ UNCHANGED <<seg, coord, isos, stamp, marker, dir>>
  BY DEF Accept, Typed, Serve, sourceVars, Server!Hello, Server!files
<1>2. /\ seg[s].io # "renaming" /\ seg[s].phase # "aside" /\ t = seg[s].target
  BY <1>1 DEF Shape, Kinds, Draining, Sealed, Closing
<1>3. wire' = [wire EXCEPT ![s] = g] /\ handler' = [handler EXCEPT ![s] = h]
  BY DEF Accept, Reply, Server!Hello
<1>4. g.kind = "greeting"
  BY DEF Greeting
<1>5. h.st = "serving" /\ h.path = t /\ h.fd = dir[t]
  BY DEF Server!Closed
<1>6. ServedPath(seg[s], g) = t
  BY <1>2 DEF ServedPath
<1> HIDE DEF g, h
<1> QED  BY <1>1, <1>2, <1>3, <1>4, <1>5, <1>6, QuietServeNamed

\* The first frame creates a file under the name the segment means.
LEMMA CreateNamed ==
  ASSUME Typed, Named, NEW s \in Seg, wire[s].kind = "data",
         Server!BeginCreate(s, wire[s].off, wire[s].data),
         UNCHANGED <<seg, coord, isos, stamp, marker, wire>>
  PROVE  Named'
<1> DEFINE path == handler[s].path
<1>1. /\ Shape(seg[s], wire[s]) /\ Session(wire[s], handler[s]) /\ handler[s].st # "closed"
      /\ handler[s].fd = None /\ handler[s] \in Server!Handler
      /\ handler \in [Seg -> Server!Handler] /\ dir \in [AgentName -> File \cup {None}]
  BY ClosedType DEF Typed, Session, Server!BeginCreate, DiskOK, Server!TypeOK
<1>2. /\ seg[s].io = "sending" /\ seg[s].phase \in Draining
  BY <1>1 DEF Shape, Kinds, Draining, Sealed, Closing
<1>3. /\ path \in Names(s) /\ path \in AgentName /\ path = seg[s].target
      /\ dir[path] = None
  <2>1. path \in Names(s) /\ path \in AgentName
    BY <1>1, PathHeld
  <2>2. path = seg[s].target /\ dir[path] = None
    BY <1>1, <1>2 DEF Named, PathOK, ServedPath
  <2> QED  BY <2>1, <2>2
<1>4. PICK f \in File :
        /\ dir' = [dir EXCEPT ![path] = f]
        /\ \A n \in AgentName : dir[n] # f
        /\ handler' = [handler EXCEPT ![s].st = "inflating", ![s].fd = f, ![s].pos = 0,
                         ![s].frame = [off |-> wire[s].off, data |-> wire[s].data]]
  <2> DEFINE g == CHOOSE x \in Server!Unused : TRUE
  <2>1. ~Server!Exists(path)
    BY <1>3 DEF Server!Exists
  <2>2. Server!Unused # {} /\ dir' = [dir EXCEPT ![path] = g]
        /\ handler' = [handler EXCEPT ![s].st = "inflating", ![s].fd = g, ![s].pos = 0,
                         ![s].frame = [off |-> wire[s].off, data |-> wire[s].data]]
    BY <2>1 DEF Server!BeginCreate
  <2>3. g \in Server!Unused
    BY <2>2
  <2> HIDE DEF g
  <2>4. g \in File /\ \A n \in AgentName : dir[n] # g
    BY <2>3 DEF Server!Unused, Server!InUse, Server!Linked
  <2> QED  BY <2>2, <2>4
<1> HIDE DEF path
<1>5. /\ handler'[s].path = path /\ handler'[s].fd = f
      /\ \A t \in Seg \ {s} : handler'[t] = handler[t]
  BY <1>1, <1>4 DEF Server!Handler, path
<1>6. \A t \in Seg : Names(t)' = Names(t)
  BY <1>5 DEF Names, path
<1>7. \A n \in AgentName : n # path => dir'[n] = dir[n]
  BY <1>1, <1>4
<1>8. dir'[path] = f /\ f # None
  BY <1>1, <1>3, <1>4, LoglineAssumption
<1>9. NamesGranted' /\ NamesApart'
  BY <1>6 DEF Named, NamesGranted, Granted, NamesApart
<1>10. NamesFree'
  <2>1. Granted(path)
    BY <1>3 DEF Named, NamesGranted
  <2>2. coord.consumed \subseteq Inode /\ stamp \in Nat /\ MaxStamp \in Nat
    BY AgentAssumption DEF Typed, CoordOK, Coordinator, AgentOK
  <2>3. \A i \in Inode \ coord.consumed : path # SealedName(i) /\ path # FinalName(i)
    BY <2>1, <2>2, NameFacts DEF Granted
  <2>4. \A k \in 1..MaxStamp : k > stamp => path # OrphanAt(k)
    BY <2>1, <2>2, NameFacts DEF Granted
  <2>5. \A i \in Inode : SealedName(i) \in AgentName /\ FinalName(i) \in AgentName
    BY NamesType
  <2>6. \A k \in 1..MaxStamp : OrphanAt(k) \in AgentName
    BY DEF AgentName
  <2> QED  BY <1>7, <2>3, <2>4, <2>5, <2>6 DEF Named, NamesFree, Server!Exists
<1>11. NamesAwaited'
  <2> SUFFICES ASSUME NEW t \in Seg
               PROVE  /\ Unsealed(seg[t], wire[t]) => dir'[seg[t].pending.name] = None
                      /\ Unfinal(seg[t], wire[t]) => dir'[FinalName(seg[t].pending.iso)] = None
                      /\ seg[t].phase = "aside" /\ wire[t].kind = "rename"
                           => dir'[wire[t].to] = None
    BY DEF NamesAwaited, Server!Exists
  <2>0. /\ Shape(seg[t], wire[t]) /\ wire[t] \in Message
        /\ seg[t].pending # None => seg[t].pending.name \in AgentName
    BY SegmentFields DEF Typed, Shape
  <2>1. /\ Unsealed(seg[t], wire[t]) => dir[seg[t].pending.name] = None
        /\ Unfinal(seg[t], wire[t]) => dir[FinalName(seg[t].pending.iso)] = None
        /\ seg[t].phase = "aside" /\ wire[t].kind = "rename" => dir[wire[t].to] = None
    BY DEF Named, NamesAwaited, Server!Exists
  <2>2. CASE t # s
    <3>1. path \notin Names(t)
      BY <1>3, <2>2 DEF Named, NamesApart
    <3>2. seg[t].pending # None => seg[t].pending.name # path
      BY <1>3, <3>1 DEF Names
    <3>3. seg[t].pending # None /\ seg[t].pending.iso \in Inode => FinalName(seg[t].pending.iso) # path
      BY <1>3, <3>1 DEF Names
    <3>4. seg[t].phase = "aside" /\ wire[t].kind = "rename" => wire[t].to # path
      BY <1>3, <3>1 DEF Names
    <3>5. wire[t].kind = "rename" => wire[t].to \in AgentName
      BY <2>0, ByKind DEF Renames
    <3> QED  BY <1>7, <2>0, <2>1, <3>2, <3>3, <3>4, <3>5, NamesType DEF Unsealed, Unfinal
  <2>3. CASE t = s
    <3>1. Unsealed(seg[s], wire[s]) => seg[s].pending.name # path
      BY <1>2, <1>3, <2>0, <2>3, NameFacts DEF Unsealed, Shape, Plan, Target
    <3>2. Unfinal(seg[s], wire[s]) => FinalName(seg[s].pending.iso) # path
      BY <1>2, <1>3, <2>0, <2>3, NameFacts DEF Unfinal, Shape, Plan, Target
    <3>3. seg[s].phase # "aside"
      BY <1>2 DEF Draining
    <3> QED  BY <1>7, <2>0, <2>1, <2>3, <3>1, <3>2, <3>3, NamesType DEF Unsealed, Unfinal
  <2> QED  BY <2>2, <2>3
<1>12. PathOK'
  <2> SUFFICES ASSUME NEW t \in Seg, handler'[t].st # "closed"
               PROVE  /\ \/ handler'[t].path = ServedPath(seg[t], wire[t])
                         \/ seg[t].phase = "aside" /\ wire[t].kind = "ok"
                      /\ handler'[t].fd = dir'[handler'[t].path]
    BY DEF PathOK
  <2>1. CASE t # s
    <3>1. handler[t].path \in Names(t) /\ handler[t].path \in AgentName
      BY <1>5, <2>1, PathHeld
    <3>2. handler[t].path # path
      BY <1>3, <2>1, <3>1 DEF Named, NamesApart
    <3> QED  BY <1>5, <1>7, <2>1, <3>1, <3>2 DEF Named, PathOK
  <2>2. CASE t = s
    BY <1>1, <1>5, <1>8, <2>2 DEF Named, PathOK, path
  <2> QED  BY <2>1, <2>2
<1>13. OneName'
  BY <1>4, <1>7, <1>8 DEF Named, OneName, Server!Exists
<1> QED  BY <1>9, <1>10, <1>11, <1>12, <1>13 DEF Named

\* ... writes under no other ...
LEMMA TakeDataNamed ==
  ASSUME Typed, Named, NEW s \in Seg, TakeData(s), Serve(s)
  PROVE  Named'
<1>1. /\ Shape(seg[s], wire[s]) /\ wire[s].kind = "data" /\ handler[s] \in Server!Handler
      /\ UNCHANGED <<seg, coord, isos, stamp, marker>>
  BY DEF TakeData, Typed, Serve, sourceVars, DiskOK, Server!TypeOK
<1>2. CASE Server!BeginOpen(s, wire[s].off, wire[s].data) /\ UNCHANGED wire
  <2> DEFINE h == [handler[s] EXCEPT !.st = "inflating",
                                     !.frame = [off |-> wire[s].off, data |-> wire[s].data]]
  <2>1. /\ handler' = [handler EXCEPT ![s] = h] /\ dir' = dir
        /\ wire' = [wire EXCEPT ![s] = wire[s]]
    BY <1>2 DEF Server!BeginOpen, Server!files, Typed, AgentOK, DiskOK, Server!TypeOK
  <2>2. h.st = "inflating" /\ h.path = handler[s].path /\ h.fd = handler[s].fd
    BY <1>1 DEF Server!Handler
  <2>3. handler[s].path = ServedPath(seg[s], wire[s]) /\ handler[s].fd = dir[handler[s].path]
    BY <1>1, <1>2 DEF Server!BeginOpen, Named, PathOK
  <2> HIDE DEF h
  <2> QED  BY <1>1, <2>1, <2>2, <2>3, QuietServeNamed
<1>3. CASE Server!BeginCreate(s, wire[s].off, wire[s].data) /\ UNCHANGED wire
  BY <1>1, <1>3, CreateNamed
<1>4. CASE Server!BeginReject(s, wire[s].off) /\ Reply(s, Broken)
  BY <1>1, <1>4, CutNamed DEF Server!BeginReject, Server!Raise, Server!files
<1> QED  BY <1>2, <1>3, <1>4 DEF TakeData

\* ... neither when it creates the file nor when it appends to it ...
LEMMA FinishDataNamed ==
  ASSUME Typed, Named, NEW s \in Seg, FinishData(s), Serve(s)
  PROVE  Named'
<1>1. /\ Shape(seg[s], wire[s]) /\ Session(wire[s], handler[s])
      /\ handler[s] \in Server!Handler /\ handler[s].st = "inflating"
      /\ UNCHANGED <<seg, coord, isos, stamp, marker>>
  BY DEF FinishData, Typed, Serve, sourceVars, DiskOK, Server!TypeOK, Server!Apply, Server!ApplyReject
<1>2. wire[s].kind = "data" /\ ~handler[s].gone
  BY <1>1 DEF Session
<1>3. seg[s].io = "sending" /\ seg[s].phase \in Draining
  BY <1>1, <1>2 DEF Shape, Kinds, Draining, Sealed, Closing
<1>4. CASE Server!ApplyReject(s) /\ Reply(s, Broken)
  BY <1>1, <1>4, CutNamed DEF Server!ApplyReject, Server!Raise, Server!files
<1>5. CASE Server!Apply(s) /\ Reply(s, OkReply)
  <2> DEFINE p == handler[s].pos + Len(handler[s].frame.data)
             h == [handler[s] EXCEPT !.st = "serving", !.frame = Server!NoFrame,
                                     !.pos = @ + Len(handler[s].frame.data)]
  <2>1. handler' = [handler EXCEPT ![s] = h] /\ dir' = dir /\ wire' = [wire EXCEPT ![s] = OkReply]
    BY <1>2, <1>5 DEF Server!Apply, Reply
  <2>2. h.st = "serving" /\ h.path = handler[s].path /\ h.fd = handler[s].fd
    BY <1>1 DEF Server!Handler
  <2>3. /\ handler[s].path = ServedPath(seg[s], wire[s])
        /\ handler[s].fd = dir[handler[s].path]
    BY <1>1, <1>2 DEF Named, PathOK
  <2>4. ServedPath(seg[s], wire[s]) = ServedPath(seg[s], OkReply)
    BY <1>3 DEF ServedPath
  <2>5. seg[s].phase # "aside" /\ OkReply.kind = "ok"
    BY <1>3, Built DEF Draining
  <2> HIDE DEF h
  <2> QED  BY <1>1, <1>3, <2>1, <2>2, <2>3, <2>4, <2>5, QuietServeNamed
<1> QED  BY <1>4, <1>5 DEF FinishData

\* What a rename request asks of the server: to move the segment's file to a name
\* the segment holds and nothing has.
LEMMA RenameRequest ==
  ASSUME Typed, Named, NEW s \in Seg, wire[s].kind = "rename", handler[s].st # "closed"
  PROVE  /\ wire[s].from = seg[s].target /\ wire[s].from = handler[s].path
         /\ wire[s].from \in Names(s) /\ wire[s].to \in Names(s)
         /\ wire[s].from \in AgentName /\ wire[s].to \in AgentName
         /\ wire[s].from # wire[s].to
         /\ handler[s].fd = dir[wire[s].from]
         /\ ~Server!Exists(wire[s].to)
         /\ \/ seg[s].phase = "aside"
            \/ seg[s].phase = "seal" /\ seg[s].io = "renaming" /\ wire[s].to = seg[s].pending.name
            \/ /\ seg[s].phase = "final" /\ seg[s].io = "renaming"
               /\ wire[s].to = FinalName(seg[s].pending.iso)
<1>1. /\ Shape(seg[s], wire[s]) /\ wire[s] \in Renames /\ seg[s] \in Segment
  BY ByKind DEF Typed, Shape
<1>2. /\ wire[s].from = seg[s].target /\ wire[s].from \in AgentName /\ wire[s].to \in AgentName
  BY <1>1 DEF Shape, Renames
<1>3. \/ seg[s].phase = "aside" /\ wire[s].to \in OrphanNames
      \/ seg[s].phase = "seal" /\ seg[s].io = "renaming" /\ wire[s].to = seg[s].pending.name
      \/ /\ seg[s].phase = "final" /\ seg[s].io = "renaming"
         /\ wire[s].to = FinalName(seg[s].pending.iso)
  BY <1>1 DEF Shape, Kinds, Draining
<1>4. handler[s].path = ServedPath(seg[s], wire[s]) /\ handler[s].fd = dir[handler[s].path]
  BY DEF Named, PathOK
<1>5. handler[s].path = wire[s].from
  BY <1>2, <1>4 DEF ServedPath
<1>6. wire[s].from \in Names(s)
  BY <1>5, PathHeld
<1>7. seg[s].phase \in {"seal", "final"} => seg[s].pending # None /\ Plan(seg[s].pending)
  BY <1>1 DEF Shape, Sealed, Closing
<1>8. seg[s].phase = "final" => seg[s].pending.iso \in Inode
  BY <1>1 DEF Shape, Sealed, Closing
<1>9. wire[s].to \in Names(s)
  BY <1>2, <1>3, <1>7, <1>8 DEF Names
<1>10. ~Server!Exists(wire[s].to)
  BY <1>3, <1>7, <1>8 DEF Named, NamesAwaited, Unsealed, Unfinal, Sealed, Closing
<1>11. wire[s].from # wire[s].to
  <2>1. CASE seg[s].phase = "aside"
    BY <1>1, <1>2, <1>3, <2>1, NameFacts DEF Shape, Target, Sealed, Closing
  <2>2. CASE seg[s].phase = "seal"
    BY <1>1, <1>2, <1>3, <1>7, <2>2, NameFacts DEF Shape, Target, Plan, Sealed, Closing
  <2>3. CASE seg[s].phase = "final"
    BY <1>1, <1>2, <1>3, <1>7, <1>8, <2>3, NameFacts DEF Shape, Target, Plan, Sealed, Closing
  <2> QED  BY <1>3, <2>1, <2>2, <2>3
<1> QED  BY <1>2, <1>3, <1>4, <1>5, <1>6, <1>9, <1>10, <1>11

\* ... follows its file to the name the segment has asked for ...
LEMMA RenameNamed ==
  ASSUME Typed, Named, NEW s \in Seg, wire[s].kind = "rename",
         Server!Rename(s, wire[s].from, wire[s].to), Reply(s, OkReply),
         UNCHANGED <<seg, coord, isos, stamp, marker>>
  PROVE  Named'
<1> DEFINE from == wire[s].from
           to   == wire[s].to
           h    == [handler[s] EXCEPT !.path = to]
<1>1. /\ Shape(seg[s], wire[s]) /\ Session(wire[s], handler[s]) /\ handler[s] \in Server!Handler
      /\ handler[s].st = "serving" /\ ~handler[s].gone
      /\ dir \in [AgentName -> File \cup {None}] /\ dir[from] # None
      /\ dir' = [dir EXCEPT ![from] = None, ![to] = dir[from]]
  BY DEF Typed, DiskOK, Server!TypeOK, Server!Rename, Session, Server!Exists
<1>2. /\ from = handler[s].path /\ from \in Names(s) /\ to \in Names(s)
      /\ from \in AgentName /\ to \in AgentName /\ from # to /\ handler[s].fd = dir[from]
      /\ dir[to] = None
      /\ \/ seg[s].phase = "aside"
         \/ seg[s].phase = "seal" /\ seg[s].io = "renaming" /\ to = seg[s].pending.name
         \/ seg[s].phase = "final" /\ seg[s].io = "renaming" /\ to = FinalName(seg[s].pending.iso)
  BY <1>1, RenameRequest DEF Server!Exists
<1>3. handler' = [handler EXCEPT ![s] = h]
  BY <1>1, <1>2 DEF Server!Rename, Server!AfterRename, Server!FdFollows
<1>4. h.path = to /\ h.fd = dir[from] /\ h.st = "serving"
  BY <1>1, <1>2 DEF Server!Handler
<1> HIDE DEF h, from, to
<1>5. OkReply.kind = "ok" /\ OkReply # wire[s]
  BY Built
<1>6. /\ wire'[s] = OkReply /\ handler'[s] = h
      /\ \A t \in Seg \ {s} : wire'[t] = wire[t] /\ handler'[t] = handler[t]
      /\ \A t \in Seg : Names(t)' \subseteq Names(t)
  BY <1>3, <1>4, <1>5, ServeNames DEF Reply, to
<1>7. /\ dir'[from] = None /\ dir'[to] = dir[from]
      /\ \A n \in AgentName : n # from /\ n # to => dir'[n] = dir[n]
  BY <1>1, <1>2
<1>8. NamesGranted'
  BY <1>6 DEF Named, NamesGranted, Granted
<1>9. NamesApart'
  BY <1>5, <1>6 DEF Named, NamesApart
<1>10. NamesFree'
  <2>1. Granted(to)
    BY <1>2 DEF Named, NamesGranted
  <2>2. coord.consumed \subseteq Inode /\ stamp \in Nat /\ MaxStamp \in Nat
    BY AgentAssumption DEF Typed, CoordOK, Coordinator, AgentOK
  <2>3. \A i \in Inode \ coord.consumed : to # SealedName(i) /\ to # FinalName(i)
    BY <2>1, <2>2, NameFacts DEF Granted
  <2>4. \A k \in 1..MaxStamp : k > stamp => to # OrphanAt(k)
    BY <2>1, <2>2, NameFacts DEF Granted
  <2>5. \A i \in Inode : SealedName(i) \in AgentName /\ FinalName(i) \in AgentName
    BY NamesType
  <2>6. \A k \in 1..MaxStamp : OrphanAt(k) \in AgentName
    BY DEF AgentName
  <2>7. \A n \in AgentName : n # to /\ dir[n] = None => dir'[n] = None
    BY <1>7
  <2> QED  BY <2>3, <2>4, <2>5, <2>6, <2>7 DEF Named, NamesFree, Server!Exists
<1>11. NamesAwaited'
  <2> SUFFICES ASSUME NEW t \in Seg
               PROVE  /\ Unsealed(seg[t], wire'[t]) => dir'[seg[t].pending.name] = None
                      /\ Unfinal(seg[t], wire'[t]) => dir'[FinalName(seg[t].pending.iso)] = None
                      /\ seg[t].phase = "aside" /\ wire'[t].kind = "rename"
                           => dir'[wire'[t].to] = None
    BY DEF NamesAwaited, Server!Exists
  <2>0. /\ Shape(seg[t], wire[t]) /\ wire[t] \in Message
        /\ seg[t].pending # None => seg[t].pending.name \in AgentName
    BY SegmentFields DEF Typed, Shape
  <2>1. /\ Unsealed(seg[t], wire[t]) => dir[seg[t].pending.name] = None
        /\ Unfinal(seg[t], wire[t]) => dir[FinalName(seg[t].pending.iso)] = None
        /\ seg[t].phase = "aside" /\ wire[t].kind = "rename" => dir[wire[t].to] = None
    BY DEF Named, NamesAwaited, Server!Exists
  <2>2. \A n \in AgentName : n # to /\ dir[n] = None => dir'[n] = None
    BY <1>7
  <2>3. CASE t # s
    <3>1. to \notin Names(t)
      BY <1>2, <2>3 DEF Named, NamesApart
    <3>2. seg[t].pending # None => seg[t].pending.name # to
      BY <1>2, <3>1 DEF Names
    <3>3. seg[t].pending # None /\ seg[t].pending.iso \in Inode => FinalName(seg[t].pending.iso) # to
      BY <1>2, <3>1 DEF Names
    <3>4. seg[t].phase = "aside" /\ wire[t].kind = "rename" => wire[t].to # to
      BY <1>2, <3>1 DEF Names
    <3>5. wire[t].kind = "rename" => wire[t].to \in AgentName
      BY <2>0, ByKind DEF Renames
    <3> QED  BY <1>6, <2>0, <2>1, <2>2, <2>3, <3>2, <3>3, <3>4, <3>5, NamesType DEF Unsealed, Unfinal
  <2>4. CASE t = s
    <3>1. CASE seg[s].phase = "aside"
      <4>1. to \in OrphanNames
        BY <1>1, <3>1 DEF Shape, to
      <4>2. seg[s].pending # None => seg[s].pending.name # to
        BY <3>1 DEF Named, NamesApart, to
      <4>3. \A i \in Inode : FinalName(i) # to
        BY <4>1, NameFacts
      <4>4. /\ Unsealed(seg[s], OkReply) => Unsealed(seg[s], wire[s])
            /\ Unfinal(seg[s], OkReply) => Unfinal(seg[s], wire[s])
        BY <3>1 DEF Unsealed, Unfinal
      <4> QED  BY <1>5, <1>6, <2>0, <2>1, <2>2, <2>4, <4>2, <4>3, <4>4, NamesType
               DEF Unsealed, Unfinal
    <3>2. CASE seg[s].phase = "seal"
      <4>1. ~Unsealed(seg[s], OkReply) /\ seg[s].pending # None /\ Plan(seg[s].pending)
        BY <1>1, <1>2, <1>5, <3>2 DEF Unsealed, Shape
      <4>2. Unfinal(seg[s], OkReply) => Unfinal(seg[s], wire[s])
        BY <3>2 DEF Unfinal
      <4>3. \A i \in Inode : FinalName(i) # to
        BY <1>2, <3>2, <4>1, NameFacts DEF Plan
      <4> QED  BY <1>6, <2>1, <2>2, <2>4, <3>2, <4>1, <4>2, <4>3, NamesType DEF Unfinal
    <3>3. CASE seg[s].phase = "final"
      BY <1>2, <1>5, <1>6, <2>4, <3>3 DEF Unsealed, Unfinal, Sealed, Closing
    <3> QED  BY <1>2, <3>1, <3>2, <3>3
  <2> QED  BY <2>3, <2>4
<1>12. PathOK'
  <2> SUFFICES ASSUME NEW t \in Seg, handler'[t].st # "closed"
               PROVE  /\ \/ handler'[t].path = ServedPath(seg[t], wire'[t])
                         \/ seg[t].phase = "aside" /\ wire'[t].kind = "ok"
                      /\ handler'[t].fd = dir'[handler'[t].path]
    BY DEF PathOK
  <2>1. CASE t # s
    <3>1. handler[t].path \in Names(t) /\ handler[t].path \in AgentName
      BY <1>6, <2>1, PathHeld
    <3>2. handler[t].path # from /\ handler[t].path # to
      BY <1>2, <2>1, <3>1 DEF Named, NamesApart
    <3> QED  BY <1>6, <1>7, <2>1, <3>1, <3>2 DEF Named, PathOK
  <2>2. CASE t = s
    <3>1. handler'[s].fd = dir'[handler'[s].path]
      BY <1>4, <1>6, <1>7
    <3>2. handler'[s].path = ServedPath(seg[s], OkReply) \/ seg[s].phase = "aside"
      BY <1>2, <1>4, <1>5, <1>6 DEF ServedPath
    <3> QED  BY <1>5, <1>6, <2>2, <3>1, <3>2
  <2> QED  BY <2>1, <2>2
<1>13. OneName'
  <2> SUFFICES ASSUME NEW m \in AgentName, NEW n \in AgentName, dir'[m] # None, dir'[m] = dir'[n]
               PROVE  m = n
    BY DEF OneName, Server!Exists
  <2>1. \A a, b \in AgentName : dir[a] # None /\ dir[a] = dir[b] => a = b
    BY DEF Named, OneName, Server!Exists
  <2> QED  BY <1>1, <1>2, <1>7, <2>1 DEF from
<1> QED  BY <1>8, <1>9, <1>10, <1>11, <1>12, <1>13 DEF Named

\* ... or is left where it is.
LEMMA TakeRenameNamed ==
  ASSUME Typed, Named, NEW s \in Seg, TakeRename(s), Serve(s)
  PROVE  Named'
<1>1. /\ wire[s].kind = "rename" /\ UNCHANGED <<seg, coord, isos, stamp, marker>>
      /\ handler[s].st # "closed"
  BY ClosedType DEF TakeRename, Serve, sourceVars, Server!Rename, Server!RenameNoop, Server!RenameReject
<1>2. CASE Server!Rename(s, wire[s].from, wire[s].to) /\ Reply(s, OkReply)
  BY <1>1, <1>2, RenameNamed
<1>3. CASE Server!RenameNoop(s, wire[s].from, wire[s].to)
  BY <1>1, <1>3, RenameRequest DEF Server!RenameNoop
<1>4. CASE Server!RenameReject(s, wire[s].from, wire[s].to) /\ Reply(s, Broken)
  BY <1>1, <1>4, CutNamed DEF Server!RenameReject, Server!Raise, Server!files
<1> QED  BY <1>2, <1>3, <1>4 DEF TakeRename

-----------------------------------------------------------------------------
(* All steps *)

\* A connection that is lost takes its handler's name with it.
LEMMA DropNamed ==
  ASSUME Typed, Named, Drop
  PROVE  Named'
BY CutNamed DEF Drop, sourceVars

\* A power loss makes names free, and closes all handlers.
LEMMA OutageNamed ==
  ASSUME Typed, Named, Outage
  PROVE  Named'
<1>1. /\ Server!PowerLoss
      /\ \A s \in Seg : wire'[s] = IF wire[s] = Unconnected THEN Unconnected ELSE Broken
      /\ UNCHANGED <<seg, coord, isos, stamp, marker>>
  BY DEF Outage, sourceVars
<1>2. /\ \A s \in Seg : handler'[s] = Server!Closed
      /\ \A n \in AgentName : dir'[n] = dir[n] \/ dir'[n] = None
  BY <1>1 DEF Server!PowerLoss
<1>3. \A s \in Seg : Names(s)' \subseteq Names(s)
  BY <1>1, <1>2, ClosedType, Built, LoglineAssumption DEF Names
<1>4. NamesGranted' /\ NamesApart'
  BY <1>1, <1>3, Built DEF Named, NamesGranted, Granted, NamesApart
<1>5. NamesFree'
  <2>1. \A i \in Inode : SealedName(i) \in AgentName /\ FinalName(i) \in AgentName
    BY NamesType
  <2>2. \A k \in 1..MaxStamp : OrphanAt(k) \in AgentName
    BY DEF AgentName
  <2> QED  BY <1>1, <1>2, <2>1, <2>2 DEF Named, NamesFree, Server!Exists
<1>6. NamesAwaited'
  <2> SUFFICES ASSUME NEW s \in Seg
               PROVE  /\ Unsealed(seg[s], wire'[s]) => dir'[seg[s].pending.name] = None
                      /\ Unfinal(seg[s], wire'[s]) => dir'[FinalName(seg[s].pending.iso)] = None
                      /\ seg[s].phase = "aside" /\ wire'[s].kind = "rename"
                           => dir'[wire'[s].to] = None
    BY <1>1 DEF NamesAwaited, Server!Exists
  <2>1. /\ Unsealed(seg[s], wire'[s]) => Unsealed(seg[s], wire[s])
        /\ Unfinal(seg[s], wire'[s]) => Unfinal(seg[s], wire[s])
        /\ wire'[s].kind # "rename"
    BY <1>1, Built DEF Unsealed, Unfinal
  <2>2. Unsealed(seg[s], wire[s]) => seg[s].pending.name \in AgentName
    BY SegmentFields DEF Unsealed, Typed, AgentOK
  <2> QED  BY <1>2, <2>1, <2>2, NamesType DEF Named, NamesAwaited, Unfinal, Server!Exists
<1>7. PathOK' /\ OneName'
  BY <1>2, ClosedType DEF Named, PathOK, OneName, Server!Exists
<1> QED  BY <1>4, <1>5, <1>6, <1>7 DEF Named

\* A marker only ever keeps a name from being given.
LEMMA SourceNamed ==
  ASSUME Typed, Named, SourceStep
  PROVE  Named'
<1>1. UNCHANGED <<seg, coord, isos, stamp, wire, dir, handler>>
  BY DEF SourceStep, agentVars, serverVars
<1>2. \A i \in Inode : marker[i] = "done" => marker'[i] = "done"
  BY DEF SourceStep, SourceNext, MoveAside, CreateNew, Grow, WaitingMarker, DoneMarker,
         Typed, SourceOK
<1>3. NamesFree'
  BY <1>1, <1>2 DEF Named, NamesFree, Server!Exists
<1> QED  BY <1>1, <1>3
         DEF Named, NamesGranted, Granted, NamesApart, Names, NamesAwaited, PathOK, OneName,
             Server!Exists

\* Once disorderly, for ever.
LEMMA OrderlyBefore ==
  ASSUME Typed, [Next]_vars, Orderly'
  PROVE  Orderly
<1>1. UNCHANGED ephemeral
  <2>1. ASSUME NEW s \in Seg, Run(s) PROVE UNCHANGED ephemeral
    BY <2>1, SegmentRest DEF Run, Agent
  <2>2. CASE Coordinate
    BY <2>2 DEF Coordinate, Agent, CoordStep, Poll, OpenKnown, OpenFirst, OpenRotated, OpenFailed,
                LearnIso, NoMarkerYet, GraceExpired, SealWaited
  <2>3. CASE Agent(Scan) \/ Agent(Killed)
    BY <2>3 DEF Agent, Scan, Killed
  <2>4. CASE SourceStep \/ Drop \/ Outage \/ UNCHANGED vars
    BY <2>4 DEF SourceStep, Drop, Outage, vars, agentVars
  <2>5. ASSUME NEW s \in Seg, Serve(s) PROVE UNCHANGED ephemeral
    BY <2>5 DEF Serve
  <2> QED  BY <2>1, <2>2, <2>3, <2>4, <2>5 DEF Next
<1>2. lapsed => lapsed'
  <2>1. CASE (\E s \in Seg : Run(s)) \/ Coordinate \/ Agent(Scan) \/ Agent(Killed)
    <3>1. lapsed' = (lapsed \/ \E i \in coord.consumed \ coord'.consumed : marker[i] = "waiting")
      BY <2>1 DEF Run, Coordinate, Agent
    <3> QED  BY <3>1
  <2>2. CASE SourceStep \/ Drop \/ Outage \/ UNCHANGED vars
    BY <2>2 DEF SourceStep, Drop, Outage, vars
  <2>3. ASSUME NEW s \in Seg, Serve(s) PROVE lapsed => lapsed'
    BY <2>3 DEF Serve
  <2> QED  BY <2>1, <2>2, <2>3 DEF Next
<1> QED  BY <1>1, <1>2 DEF Orderly

\* Every step, as long as names are used once.
LEMMA NextNamed ==
  ASSUME Typed, Named, [Next]_vars, Orderly'
  PROVE  Named'
<1>1. Typed'
  BY NextTyped
<1>2. CASE UNCHANGED vars
  BY <1>2 DEF vars, sourceVars, agentVars, serverVars, Named, NamesGranted, Granted, NamesApart,
              Names, NamesFree, NamesAwaited, PathOK, OneName, Server!Exists
<1>3. ASSUME NEW s \in Seg, Serve(s) PROVE Named'
  BY <1>3, AcceptNamed, TakeDataNamed, FinishDataNamed, TakeRenameNamed DEF Serve
<1> QED  BY <1>1, <1>2, <1>3, SourceNamed, AgentNamed, DropNamed, OutageNamed DEF Next

\* Nothing is on the server, and no name has been given.
LEMMA InitNamed == Init => Named
<1> SUFFICES ASSUME Init PROVE Named
  OBVIOUS
<1>1. \A s \in Seg : /\ seg[s] = Off /\ wire[s] = Unconnected /\ handler[s] = Server!Closed
  BY DEF Init, AgentInit, Server!Init
<1>2. \A n \in AgentName : dir[n] = None
  BY DEF Init, Server!Init
<1>3. \A s \in Seg : Names(s) = {}
  BY <1>1, OffFields DEF Names
<1>4. NamesFree
  <2>1. \A i \in Inode : SealedName(i) \in AgentName /\ FinalName(i) \in AgentName
    BY NamesType
  <2>2. \A k \in 1..MaxStamp : OrphanAt(k) \in AgentName
    BY DEF AgentName
  <2> QED  BY <1>2, <2>1, <2>2 DEF NamesFree, Server!Exists
<1> QED  BY <1>1, <1>2, <1>3, <1>4, OffFields, ClosedType
         DEF Named, NamesGranted, NamesApart, NamesAwaited, Unsealed, Unfinal, PathOK, OneName,
             Server!Exists

Ordered == Typed /\ (Orderly => Named)

\* As long as the source is not ephemeral and the agent has not forgotten an
\* iso_dt it may use again, names are held by one segment each, renames meet no
\* file, and each handler works on the file its segment means.
THEOREM NamesHold == Spec => []Ordered
<1>1. Init => Ordered
  BY InitTyped, InitNamed DEF Ordered
<1>2. Ordered /\ [Next]_vars => Ordered'
  BY NextTyped, NextNamed, OrderlyBefore DEF Ordered
<1> QED  BY <1>1, <1>2, PTL DEF Spec

\* A sealed segment's handler has followed its file through the rename, and so
\* writes no more to the live file (handle_rename's fd_follows, _do_seal).
THEOREM SealedLeave == Spec => [](Orderly => SealedLeavesLive)
<1>1. Ordered => (Orderly => SealedLeavesLive)
  <2> SUFFICES ASSUME Ordered, Orderly, NEW s \in Seg, seg[s].phase \in Sealed
               PROVE  handler[s].path # LiveName
    BY DEF SealedLeavesLive
  <2>1. Shape(seg[s], wire[s]) /\ Named /\ Server!WellFormed(handler[s])
    BY DEF Ordered, Typed, DiskOK, Server!TypeOK
  <2>2. CASE handler[s].st = "closed"
    BY <2>1, <2>2, ClosedType, NamesType, LoglineAssumption DEF Server!WellFormed
  <2>3. CASE handler[s].st # "closed"
    <3>1. handler[s].path = ServedPath(seg[s], wire[s])
      BY <2>1, <2>3 DEF Named, PathOK, Sealed, Closing
    <3>2. /\ Plan(seg[s].pending) /\ seg[s].pending # None
          /\ seg[s].phase = "final" => seg[s].pending.iso \in Inode
          /\ seg[s].io = "renaming" => seg[s].phase \in {"seal", "final"} \/ wire[s].kind = "none"
      BY <2>1 DEF Shape, Sealed, Closing, Kinds, Draining
    <3>3. seg[s].phase # "seal"
      BY DEF Sealed, Closing
    <3> QED  BY <2>1, <3>1, <3>2, <3>3, NameFacts DEF ServedPath, Shape, Target, Plan, Sealed, Closing
  <2> QED  BY <2>2, <2>3
<1> QED  BY <1>1, NamesHold, PTL

-----------------------------------------------------------------------------
(* The agent is the client Server.tla counts on: every step of Logline.tla is *)
(* one of Server.tla's or leaves the server alone, so the invariants of        *)
(* ServerProofs.tla hold inside the whole.                                     *)

\* Handlers that the agent or the network closes hang up.
LEMMA ClosingHangsUp ==
  ASSUME Typed, UNCHANGED <<dir, content, synced, fresh>>,
         handler' = [s \in Seg |-> handler'[s]],
         \A s \in Seg : handler'[s] \in {handler[s], Server!Closed}
  PROVE  UNCHANGED serverVars \/ Server!Next
<1> DEFINE C == {s \in Seg : handler'[s] # handler[s]}
<1>1. /\ handler = [s \in Seg |-> handler[s]]
      /\ \A s \in Seg : Server!WellFormed(handler[s]) /\ Session(wire[s], handler[s])
  BY DEF Typed, DiskOK, Server!TypeOK
<1>2. CASE C = {}
  <2>1. \A s \in Seg : handler'[s] = handler[s]
    BY <1>2
  <2>2. handler' = handler
    BY <1>1, <2>1
  <2> QED  BY <2>2 DEF serverVars
<1>3. CASE C # {}
  <2>1. C \subseteq Server!Attended
    BY <1>1 DEF Server!WellFormed, Server!Attended, Server!Open, Session
  <2>2. handler' = [s \in Seg |-> IF s \in {} THEN [handler[s] EXCEPT !.gone = TRUE]
                                  ELSE IF s \in C THEN Server!Closed ELSE handler[s]]
    BY <1>1
  <2> HIDE DEF C
  <2>3. \E lingering \in SUBSET C :
          handler' = [s \in Seg |-> IF s \in lingering
                                   THEN [handler[s] EXCEPT !.gone = TRUE]
                                   ELSE IF s \in C THEN Server!Closed ELSE handler[s]]
    <3>1. {} \in SUBSET C
      OBVIOUS
    <3> QED  BY <2>2, <3>1
  <2>4. Server!HangUp(C)
    BY <1>3, <2>1, <2>3 DEF Server!HangUp, Server!files
  <2>5. C \in SUBSET Seg
    BY DEF C
  <2> QED  BY <2>4, <2>5 DEF Server!Next
<1> QED  BY <1>2, <1>3

\* The names of what is attended are apart.
LEMMA AttendedApart ==
  ASSUME Typed, Named, NEW s \in Seg, NEW n \in Names(s), NEW d \in Server!Attended, d # s
  PROVE  d \in Seg /\ handler[d].path # n
<1>1. d \in Seg /\ handler[d].st # "closed"
  BY DEF Server!Attended, Server!Open
<1>2. handler[d].path \in Names(d)
  BY <1>1, PathHeld
<1> QED  BY <1>1, <1>2 DEF Named, NamesApart

\* Each step of a handler in Logline.tla is one of Server.tla's: the greeting ...
LEMMA AcceptServes ==
  ASSUME Typed, Named, NEW s \in Seg, Accept(s)
  PROVE  Server!Next
<1> DEFINE t == wire[s].target
<1>1. /\ Shape(seg[s], wire[s]) /\ Session(wire[s], handler[s]) /\ wire[s].kind = "hello"
      /\ seg[s] \in Segment /\ wire[s] \in Message
  BY DEF Accept, Typed, Shape
<1>2. t = Target(seg[s]) /\ t \in AgentName
  BY <1>1, ByKind DEF Shape, Hellos
<1>3. t \in Names(s)
  BY <1>1, <1>2 DEF Names, Target, Shape, Kinds, Draining, Sealed, Closing
<1>4. handler[s].st = "closed"
  BY <1>1, ClosedType DEF Session
<1>5. Server!MayHello(s, t)
  BY <1>3, <1>4, AttendedApart DEF Server!MayHello, Server!Attended, Server!Open
<1>6. Server!Hello(s, t)
  BY DEF Accept
<1> QED  BY <1>2, <1>5, <1>6 DEF Server!Next, Server!Step, Server!Connect

\* ... a data frame, whose offset is within what Server.tla may be sent ...
LEMMA TakeDataServes ==
  ASSUME Typed, Named, NEW s \in Seg, TakeData(s)
  PROVE  Server!Next
<1> DEFINE off == wire[s].off
           data == wire[s].data
<1>1. /\ Shape(seg[s], wire[s]) /\ Session(wire[s], handler[s]) /\ wire[s].kind = "data"
      /\ seg[s] \in Segment /\ wire[s] \in Message /\ seg[s].inode \in Inode
  BY DEF TakeData, Typed, Shape, Kinds, Draining
<1>2. /\ off \in 0..MaxSize /\ data \in Payload /\ off < seg[s].pos /\ seg[s].pos \in 0..MaxSize
      /\ data = Bytes(seg[s].inode, off, seg[s].pos)
  BY <1>1, ByKind, SegmentFields DEF Shape, DataReqs
<1>3. handler[s].pos \in 0..MaxSize
  BY <1>1 DEF Session
<1>4. Len(data) = seg[s].pos - off
  <2>1. off <= seg[s].pos
    BY <1>2
  <2>2. Len(Bytes(seg[s].inode, off, seg[s].pos)) = seg[s].pos - off
    BY <1>1, <1>2, <2>1, BytesType
  <2> QED  BY <1>2, <2>2
<1> HIDE DEF off, data
<1>5. data # Garbled
  BY <1>2, LoglineAssumption
<1>6. off - handler[s].pos \in -MaxSize..MaxSize
  BY <1>2, <1>3, SourceAssumption
<1>7. off + Len(data) <= MaxSize
  BY <1>2, <1>4
<1>8. Server!Fits(s, off, data)
  BY <1>5, <1>6, <1>7 DEF Server!Fits
<1>9. \/ Server!BeginOpen(s, off, data) \/ Server!BeginCreate(s, off, data)
      \/ Server!BeginReject(s, off)
  BY DEF TakeData, off, data
<1>10. Server!Data(s)
  BY <1>2, <1>8, <1>9 DEF Server!Data
<1> QED  BY <1>10 DEF Server!Next, Server!Step

\* ... and a rename, between names that are distinct.
LEMMA TakeRenameServes ==
  ASSUME Typed, Named, NEW s \in Seg, TakeRename(s)
  PROVE  Server!Next
<1> DEFINE from == wire[s].from
           to   == wire[s].to
<1>1. /\ wire[s].kind = "rename" /\ handler[s].st # "closed"
      /\ \/ Server!Rename(s, from, to) \/ Server!RenameNoop(s, from, to)
         \/ Server!RenameReject(s, from, to)
  BY ClosedType DEF TakeRename, Server!Rename, Server!RenameNoop, Server!RenameReject
<1>2. /\ from \in AgentName /\ to \in AgentName /\ from # to /\ to # handler[s].path
      /\ from \in Names(s) /\ to \in Names(s)
  BY <1>1, RenameRequest
<1>3. Server!MayRename(s, from, to)
  BY <1>2, AttendedApart DEF Server!MayRename
<1>4. Server!Relabel(s)
  BY <1>1, <1>2, <1>3 DEF Server!Relabel
<1> QED  BY <1>4 DEF Server!Next, Server!Step

\* Each step is a step of the server, or none.
LEMMA ServerStep ==
  ASSUME Typed, Orderly => Named, [Next]_vars
  PROVE  UNCHANGED serverVars \/ (Orderly => Server!Next)
<1>1. CASE UNCHANGED vars \/ SourceStep
  BY <1>1 DEF vars, SourceStep, serverVars
<1>2. ASSUME NEW s \in Seg, Serve(s) PROVE Orderly => Server!Next
  <2>1. CASE FinishData(s)
    BY <2>1 DEF FinishData, Server!Next, Server!Step
  <2> QED  BY <1>2, <2>1, AcceptServes, TakeDataServes, TakeRenameServes DEF Serve
<1>3. CASE (\E s \in Seg : Run(s)) \/ Coordinate \/ Agent(Scan) \/ Agent(Killed)
  <2>1. Handlers
    BY <1>3 DEF Run, Coordinate, Agent, Handlers
  <2>2. /\ handler' = [s \in Seg |-> handler'[s]]
        /\ \A s \in Seg : handler'[s] \in {handler[s], Server!Closed}
    BY <2>1 DEF Handlers
  <2> QED  BY <2>1, <2>2, ClosingHangsUp DEF Handlers
<1>4. CASE Drop
  <2>1. PICK s \in Seg : handler' = [handler EXCEPT ![s] = Server!Closed]
    BY <1>4 DEF Drop
  <2>2. /\ handler' = [t \in Seg |-> handler'[t]]
        /\ \A t \in Seg : handler'[t] \in {handler[t], Server!Closed}
    BY <2>1 DEF Typed, DiskOK, Server!TypeOK
  <2> QED  BY <1>4, <2>2, ClosingHangsUp DEF Drop
<1>5. CASE Outage
  BY <1>5 DEF Outage, Server!Next
<1> QED  BY <1>1, <1>2, <1>3, <1>4, <1>5 DEF Next

\* Logline implements Server.tla while it is orderly: the agent keeps the bounds
\* the server takes its clients to keep (one connection per target, no rename of
\* or onto another's target; Protocol.md), though no code enforces them.
THEOREM ServerSpecHolds == Spec => ServerSpec
<1>1. Init => Server!Init
  BY DEF Init
<1>2. Ordered /\ [Next]_vars => [UNCHANGED serverVars \/ (Orderly => Server!Next)]_serverVars
  BY ServerStep DEF Ordered
<1> QED  BY <1>1, <1>2, NamesHold, PTL DEF Spec, ServerSpec

-----------------------------------------------------------------------------
(* What the server's invariants say of it inside the whole *)

\* The same operators, in the module of the theorems and in the whole.
LEMMA SameNext == Server!Next => S!Next
<1>1. ASSUME NEW s \in Seg, Server!Step(s) PROVE S!Step(s)
  <2>1. CASE Server!Connect(s)
    BY <2>1, SameData
       DEF Server!Connect, Server!MayHello, Server!Attended, Server!Open,
           S!Step, S!Connect, S!MayHello, S!Attended, S!Open
  <2>2. CASE Server!Data(s)
    BY <2>2, SameData DEF Server!Data, Server!Fits, S!Step, S!Data, S!Fits
  <2>3. CASE Server!Relabel(s)
    BY <2>3, SameRename
       DEF Server!Relabel, Server!MayRename, Server!Attended, Server!Open,
           S!Step, S!Relabel, S!MayRename, S!Attended, S!Open
  <2>4. CASE Server!Malformed(s) \/ Server!Eof(s)
    BY <2>4, SameData DEF Server!Malformed, Server!Eof, S!Step, S!Malformed, S!Eof
  <2> QED  BY <1>1, <2>1, <2>2, <2>3, <2>4, SameData DEF Server!Step, S!Step
<1>2. ASSUME NEW C \in SUBSET Seg, Server!HangUp(C) PROVE S!HangUp(C)
  BY <1>2 DEF Server!HangUp, Server!Attended, Server!Open, Server!files, Server!Closed, Server!NoFrame,
              S!HangUp, S!Attended, S!Open, S!files, S!Closed, S!NoFrame
<1> QED  BY <1>1, <1>2, SamePowerLoss DEF Server!Next, S!Next

\* An attended handler stands at the end of its file, and its file has no other
\* writer, no other name and no other path.
Settled == S!Bindings /\ S!Prompt

Served == Ordered /\ (Orderly => Settled)

\* There is no handler yet.
LEMMA InitServed == Init => Served
<1> SUFFICES ASSUME Init PROVE Served
  OBVIOUS
<1>1. S!Init
  BY DEF Init, S!Init, S!Closed, S!NoFrame, Server!Init, Server!Closed, Server!NoFrame
<1>2. S!Bindings
  BY <1>1, ServerConstants, S!InitBindings
<1>3. S!Prompt
  BY <1>1 DEF S!Init, S!Prompt, S!AtEnd, S!Attended, S!Open, S!Closed
<1> QED  BY <1>2, <1>3, InitTyped, InitNamed DEF Served, Settled, Ordered

\* The invariants that Server.tla's theorems rest on hold inside the whole.
THEOREM SettledHolds == Spec => []Served
<1>1. Init => Served
  BY InitServed
<1>2. Served /\ [Next]_vars => Served'
  <2> SUFFICES ASSUME Served, [Next]_vars PROVE Served'
    OBVIOUS
  <2>1. Ordered'
    BY NextTyped, NextNamed, OrderlyBefore DEF Served, Ordered
  <2>2. ASSUME Orderly' PROVE Settled'
    <3>1. Orderly
      BY <2>2, OrderlyBefore DEF Served, Ordered
    <3>2. S!TypeOK /\ S!Bindings /\ S!Prompt
      BY <3>1, SameType DEF Served, Settled, Ordered, Typed, DiskOK
    <3>3. UNCHANGED serverVars \/ Server!Next
      BY <3>1, ServerStep DEF Served, Ordered
    <3>4. [S!Next]_(S!vars)
      BY <3>3, SameNext DEF serverVars, S!vars
    <3>5. S!Bindings'
      BY <3>2, <3>4, ServerConstants, S!NextBindings
    <3>6. S!Prompt'
      BY <3>2, <3>4, ServerConstants, S!NextPrompt
    <3> QED  BY <3>5, <3>6 DEF Settled
  <2> QED  BY <2>1, <2>2 DEF Served
<1> QED  BY <1>1, <1>2, PTL DEF Spec

=============================================================================
