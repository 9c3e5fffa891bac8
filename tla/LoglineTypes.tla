---------------------------- MODULE LoglineTypes -----------------------------
(* What holds of Logline.tla whatever happens, for all constants: every task,  *)
(* connection and handler is in a state the code provides for, and the agent   *)
(* and the server are at matching points of their conversation.                *)
EXTENDS Logline, TLAPS, FiniteSetTheorems

-----------------------------------------------------------------------------
(* The invariant *)

\* What may be on a connection.
Hellos    == [kind : {"hello"}, target : AgentName, n : 0..MaxSize]
DataReqs  == [kind : {"data"}, off : 0..MaxSize, data : Payload]
Renames   == [kind : {"rename"}, from : AgentName, to : AgentName]
Greetings == [kind : {"greeting"}, length : 0..MaxSize, prefix : Seq(Byte \cup {Hole})]
Message   == {Unconnected, Broken, Idle, OkReply}
               \cup Hellos \cup DataReqs \cup Renames \cup Greetings

OrphanNames == {OrphanName} \cup {OrphanAt(t) : t \in 1..MaxStamp}

\* A requested seal: the name goes with the iso_dt.
Plan(p) ==
  /\ p \in [name : AgentName, iso : Inode \cup {NoInode}]
  /\ p.iso \in Inode => p.name = SealedName(p.iso)
  /\ p.iso = NoInode => p.name \in OrphanNames

\* The target that goes with the phase: it changes with a rename, or when the
\* segment reconnects after one that has failed.
Target(r) ==
  CASE r.phase = "final" /\ r.io = "assuming"    -> FinalName(r.pending.iso)
    [] r.phase \in Sealed /\ ~(r.phase = "final" /\ r.io = "assuming") -> r.pending.name
    [] r.phase = "seal" /\ r.io = "assuming"     -> r.pending.name
    [] OTHER                                     -> LiveName

\* What a segment in state r may have on its connection.
Kinds(r) ==
  CASE r.phase \in {"off", "done", "born"}                      -> {"none"}
    [] r.phase \in {"greet", "regreet"}                         -> {"hello", "greeting", "broken"}
    [] r.phase = "aside"                                        -> {"rename", "ok", "broken"}
    [] r.phase \in Draining \cup {"look"} /\ r.io = "ready"     -> {"idle", "broken"}
    [] r.phase \in Draining /\ r.io = "sending"                 -> {"data", "ok", "broken"}
    [] r.phase \in {"seal", "final"} /\ r.io = "renaming"       -> {"rename", "ok", "broken"}
    [] r.phase \in Draining /\ r.io = "resuming"                -> {"hello", "greeting", "broken"}
    [] r.phase \in {"seal", "final"} /\ r.io = "assuming"       -> {"hello", "greeting", "broken"}
    [] OTHER                                                    -> {}

\* A segment in state r, with w on its connection.
Shape(r, w) ==
  /\ r \in Segment
  /\ w \in Message
  /\ w.kind \in Kinds(r)
  /\ r.phase \in {"off", "done", "born", "greet", "aside", "regreet"} => r.io = "ready"
  /\ r.phase \notin {"off", "done"} => r.inode \in Inode
  /\ r.phase \in {"off", "done"} => r.pending = None
  /\ r.phase \in {"seal"} \cup Sealed => r.pending # None
  /\ r.phase \in Closing => r.pending.iso \in Inode
  /\ r.phase = "orphan" => r.pending.iso = NoInode
  /\ r.pending # None => Plan(r.pending)
  /\ r.target = Target(r)
  /\ w.kind = "hello" => w.target = r.target /\ w.n = r.pos
  /\ w.kind = "data" => w.off < r.pos /\ w.data = Bytes(r.inode, w.off, r.pos)
  /\ w.kind = "rename" =>
       /\ w.from = r.target
       /\ r.phase = "aside" => w.to \in OrphanNames
       /\ r.phase = "seal"  => w.to = r.pending.name
       /\ r.phase = "final" => w.to = FinalName(r.pending.iso)

\* The handler h of a connection with w on it.
Session(w, h) ==
  /\ w.kind \in {"none", "hello", "broken"} => h = Server!Closed
  /\ w.kind \notin {"none", "hello", "broken"} => h.st \in {"serving", "inflating"}
  /\ h.st = "inflating" => w.kind = "data" /\ h.frame = [off |-> w.off, data |-> w.data]
  /\ ~h.gone
  /\ h.pos \in 0..MaxSize

SourceOK ==
  /\ cur \in Inode \cup {NoInode}
  /\ size \in [Inode -> 0..MaxSize]
  /\ marker \in [Inode -> {"none", "waiting", "done"}]
  /\ made \in 0..MaxInode

\* One segment is live; the others have been sealed.
CoordOK ==
  /\ coord \in Coordinator
  /\ \A s \in Seg : s # coord.live => seg[s].phase \in Sealed \cup {"off"}
  /\ coord.pc \in {"learn", "grace", "wait"} => coord.live \in Seg /\ coord.opened \in Inode
  /\ coord.live # None => seg[coord.live].phase # "off"
  /\ coord.pc # "wait" /\ coord.live # None => seg[coord.live].pending = None

\* The iso_dts the agent knows of are on disk.
IsosOK ==
  /\ isos \in Seq(Inode)
  /\ IsInjective(isos)
  /\ \A k \in DOMAIN isos : marker[isos[k]] # "none"
  /\ \A i \in coord.consumed : marker[i] # "none"

DiskOK ==
  /\ Server!TypeOK
  /\ \A f \in File : Len(content[f]) <= MaxSize

AgentOK ==
  /\ seg \in [Seg -> Segment]
  /\ wire \in [Seg -> Message]
  /\ ephemeral \in BOOLEAN
  /\ stamp \in 0..MaxStamp
  /\ acked \in [Inode -> 0..MaxSize]
  /\ lapsed \in BOOLEAN

Typed ==
  /\ SourceOK
  /\ AgentOK
  /\ CoordOK
  /\ IsosOK
  /\ DiskOK
  /\ \A s \in Seg : Shape(seg[s], wire[s]) /\ Session(wire[s], handler[s])


-----------------------------------------------------------------------------
(* Data *)

\* The theorems of ServerProofs, about the server inside the whole.
S == INSTANCE ServerProofs WITH Name <- AgentName, Conn <- Seg, MaxLen <- MaxSize,
                                Skew <- -MaxSize..MaxSize, late <- {}

\* The names the agent gives are names.
LEMMA NamesType ==
  /\ LiveName \in AgentName
  /\ OrphanNames \subseteq AgentName
  /\ \A i \in Inode : SealedName(i) \in AgentName /\ FinalName(i) \in AgentName
BY DEF AgentName, OrphanNames

\* What is read between two offsets is a payload of that length.
LEMMA BytesType ==
  ASSUME NEW i \in Inode, NEW from \in 0..MaxSize, NEW to \in 0..MaxSize
  PROVE  /\ Bytes(i, from, to) \in Seq(Byte)
         /\ from <= to => Len(Bytes(i, from, to)) = to - from
         /\ from < to => Bytes(i, from, to) \in Payload
<1>1. CASE from <= to
  <2>1. Bytes(i, from, to) \in [1..(to - from) -> Byte]
    BY <1>1, SourceAssumption DEF Bytes, Byte
  <2>2. to - from \in Nat
    BY <1>1, SourceAssumption
  <2>3. Len(Bytes(i, from, to)) = to - from
    BY <2>2 DEF Bytes
  <2>4. from < to => Bytes(i, from, to) # <<>>
    BY <2>3
  <2>5. Bytes(i, from, to) \in Seq(Byte)
    BY <2>1, <2>2
  <2> QED  BY <2>3, <2>4, <2>5 DEF Payload
<1>2. CASE ~(from <= to)
  <2>1. 1..(to - from) = {}
    BY <1>2, SourceAssumption
  <2>2. Bytes(i, from, to) = <<>>
    BY <2>1 DEF Bytes
  <2> QED  BY <2>2, <1>2, SourceAssumption
<1> QED  BY <1>1, <1>2

\* A payload is a nonempty sequence of bytes.
LEMMA PayloadType ==
  ASSUME NEW d \in Payload
  PROVE  d \in Seq(Byte)
BY BytesType DEF Payload

\* The server's constants are as its theorems need them.
LEMMA ServerConstants == S!ServerAssumption
<1>1. Payload \subseteq Seq(Byte)
  BY PayloadType
<1> QED  BY <1>1, LoglineAssumption, SourceAssumption DEF S!ServerAssumption

\* The kind of a message tells what it is.
LEMMA ByKind ==
  ASSUME NEW w \in Message
  PROVE  /\ w.kind = "none" <=> w = Unconnected
         /\ w.kind = "broken" <=> w = Broken
         /\ w.kind = "idle" <=> w = Idle
         /\ w.kind = "ok" <=> w = OkReply
         /\ w.kind = "hello" => w \in Hellos
         /\ w.kind = "data" => w \in DataReqs
         /\ w.kind = "rename" => w \in Renames
         /\ w.kind = "greeting" => w \in Greetings
BY DEF Message, Unconnected, Broken, Idle, OkReply, Hellos, DataReqs, Renames, Greetings

\* The messages the agent and the server build.
LEMMA Built ==
  /\ Unconnected \in Message /\ Unconnected.kind = "none"
  /\ Broken \in Message /\ Broken.kind = "broken"
  /\ Idle \in Message /\ Idle.kind = "idle"
  /\ OkReply \in Message /\ OkReply.kind = "ok"
  /\ \A t \in AgentName, n \in 0..MaxSize :
       /\ HelloReq(t, n) \in Message
       /\ HelloReq(t, n) = [kind |-> "hello", target |-> t, n |-> n]
  /\ \A f, t \in AgentName :
       /\ RenameReq(f, t) \in Message
       /\ RenameReq(f, t) = [kind |-> "rename", from |-> f, to |-> t]
  /\ \A o \in 0..MaxSize, d \in Payload :
       /\ DataReq(o, d) \in Message
       /\ DataReq(o, d) = [kind |-> "data", off |-> o, data |-> d]
  /\ \A l \in 0..MaxSize, p \in Seq(Byte \cup {Hole}) :
       /\ Greeting(l, p) \in Message
       /\ Greeting(l, p).kind = "greeting"
BY DEF Message, Unconnected, Broken, Idle, OkReply, HelloReq, DataReq, RenameReq, Greeting,
       Hellos, DataReqs, Renames, Greetings

\* _read_prefix stays within the file.
LEMMA PrefixEndType ==
  ASSUME SourceOK, NEW i \in Inode
  PROVE  PrefixEnd(i) \in 0..MaxSize
BY AgentAssumption, SourceAssumption DEF SourceOK, PrefixEnd, Least


-----------------------------------------------------------------------------
(* A segment's step *)

\* What a message may be followed by on the agent's side: nothing new, the end of
\* the connection or another one, or the next request after a reply.
Follows(w, v) ==
  \/ v = w
  \/ v.kind \in {"none", "hello"}
  \/ w.kind \in {"idle", "ok", "greeting"} /\ v.kind \notin {"none", "hello", "broken"}

\* The phases in which a segment ships.
Streaming == Draining \cup {"look"}

\* The seal a segment in state r has been asked for has not been done: the server
\* has not been asked, or has not served the request.
Unsealed(r, w) ==
  /\ r.pending # None
  /\ r.phase \notin Sealed
  /\ r.phase = "seal" => r.io # "assuming" /\ ~(r.io = "renaming" /\ w.kind \in {"ok", "broken"})

\* Nor has the file been finalized.
Unfinal(r, w) ==
  /\ r.pending # None /\ r.pending.iso \in Inode
  /\ r.phase = "final" => r.io # "assuming" /\ ~(r.io = "renaming" /\ w.kind \in {"ok", "broken"})

\* The path of the handler that serves a segment in state r: its target, but for a
\* rename it has served.
ServedPath(r, w) ==
  IF w.kind = "ok" /\ r.io = "renaming"
  THEN IF r.phase = "seal" THEN r.pending.name ELSE FinalName(r.pending.iso)
  ELSE r.target

\* Segment s may go on as r, with w on its connection.
Becomes(s, r, w) ==
  /\ Shape(r, w)
  /\ Follows(wire[s], w)
  /\ seg[s].phase \in Sealed => r.phase \in Sealed \cup {"off", "done"}
  /\ r.phase = "off" <=> s # coord.live /\ r.phase \in {"off", "done"}
  /\ r.pending \in {seg[s].pending, None}
  /\ r.phase = "greet" => Dial(s)
  /\ r.phase = "aside" => FoundStale(s)
  /\ r.phase = "regreet" => MovedStale(s)
  /\ r.phase # "born"
  /\ r.phase \in Streaming => /\ r.inode = seg[s].inode
                              /\ seg[s].phase \in Streaming \/ Greeted(s)
  /\ Unsealed(r, w) => Unsealed(seg[s], wire[s])
  /\ Unfinal(r, w) => Unfinal(seg[s], wire[s])
  /\ w.kind \notin {"greeting", "ok"}
  /\ w.kind \in {"idle", "data", "rename"} => /\ wire[s].kind \in {"idle", "greeting", "ok"}
                                              /\ seg[s].phase # "aside"
                                              /\ r.target = ServedPath(seg[s], wire[s])

\* Shape is all that matters of the states, so the fields are looked at once.
LEMMA SegmentFields ==
  ASSUME NEW r \in Segment
  PROVE  /\ r.phase \in {"off", "born", "greet", "aside", "regreet", "done"} \cup Draining \cup Sealed
         /\ r.pos \in 0..MaxSize
         /\ r.target \in AgentName
         /\ r.inode \in Inode \cup {NoInode}
         /\ r.sent \in BOOLEAN
         /\ r.pending # None => r.pending.name \in AgentName
BY DEF Segment

\* A slot that is not in use.
LEMMA OffFields ==
  /\ Off \in Segment
  /\ Off.phase = "off" /\ Off.io = "ready" /\ Off.target = LiveName /\ Off.pending = None
  /\ Off.inode = NoInode
BY NamesType, SourceAssumption DEF Segment, Off

\* What each step of a segment makes of its slot and its connection.
LEMMA EndEffect ==
  ASSUME Typed, NEW s \in Seg, seg[s].phase # "off", End(s)
  PROVE  \E r, w : Put(s, r, w) /\ Becomes(s, r, w)
<1> DEFINE p == IF s = coord.live THEN "done" ELSE "off"
           r == [Off EXCEPT !.phase = p]
<1>1. Put(s, r, Unconnected)
  BY DEF End
<1>2. p \in {"off", "done"} /\ (s = coord.live => p # "off") /\ (s # coord.live => p = "off")
  OBVIOUS
<1> HIDE DEF p
<1>3. r \in Segment
  BY <1>2, OffFields DEF Segment
<1>4. /\ r.phase = p /\ r.io = "ready" /\ r.target = LiveName /\ r.pending = None
  BY <1>2, OffFields DEF Segment
<1> HIDE DEF r
<1>5. Shape(r, Unconnected)
  BY <1>2, <1>3, <1>4, Built DEF Shape, Kinds, Target, Sealed, Closing, Draining
<1>6. Becomes(s, r, Unconnected)
  BY <1>2, <1>4, <1>5, Built
     DEF Becomes, Follows, Streaming, Draining, Sealed, Closing, Unsealed, Unfinal, ServedPath
<1> QED  BY <1>1, <1>6

\* _connect: the header is sent.
LEMMA DialEffect ==
  ASSUME Typed, NEW s \in Seg, Dial(s)
  PROVE  \E r, w : Put(s, r, w) /\ Becomes(s, r, w)
<1> DEFINE n == PrefixEnd(seg[s].inode)
           r == [seg[s] EXCEPT !.phase = "greet", !.pos = n]
           w == HelloReq(seg[s].target, n)
<1>0. Shape(seg[s], wire[s]) /\ seg[s].phase = "born" /\ SourceOK
  BY DEF Dial, Typed
<1>1. Put(s, r, w)
  BY DEF Dial
<1>2. n \in 0..MaxSize
  BY <1>0, PrefixEndType DEF Shape
<1> HIDE DEF n
<1>3. r \in Segment
  BY <1>0, <1>2 DEF Shape, Segment
<1>4. w \in Message /\ w = [kind |-> "hello", target |-> seg[s].target, n |-> n]
  BY <1>0, <1>2, Built, SegmentFields DEF Shape
<1>5. Shape(r, w)
  BY <1>0, <1>3, <1>4 DEF Shape, Kinds, Target, Sealed, Closing, Draining, Plan, Segment
<1>6. /\ r.phase = "greet" /\ r.pending = seg[s].pending /\ w.kind = "hello"
  BY <1>0, <1>4 DEF Shape, Segment
<1> HIDE DEF r, w
<1>7. Becomes(s, r, w)
  BY <1>0, <1>5, <1>6
     DEF Becomes, Follows, Streaming, Draining, Sealed, Closing, Unsealed, Unfinal, ServedPath
<1> QED  BY <1>1, <1>7

\* The header reply is accepted.
LEMMA GreetedEffect ==
  ASSUME Typed, NEW s \in Seg, Greeted(s)
  PROVE  \E r, w : Put(s, r, w) /\ Becomes(s, r, w)
<1> DEFINE r == [seg[s] EXCEPT !.phase = "live", !.pos = wire[s].length]
<1>1. /\ Shape(seg[s], wire[s]) /\ seg[s].phase \in {"greet", "regreet"}
      /\ seg[s] \in Segment /\ wire[s] \in Message /\ wire[s].kind = "greeting"
  BY DEF Greeted, Typed, Shape
<1>2. Put(s, r, Idle)
  BY DEF Greeted
<1>3. wire[s].length \in 0..MaxSize
  BY <1>1, ByKind DEF Greetings
<1>4. r \in Segment
  BY <1>1, <1>3 DEF Segment, Draining
<1>5. Shape(r, Idle)
  BY <1>1, <1>4, Built DEF Shape, Kinds, Target, Sealed, Closing, Draining, Segment
<1>6. Becomes(s, r, Idle)
  BY <1>1, <1>5, Built DEF Becomes, Follows, Streaming, Unsealed, Unfinal, ServedPath, Sealed, Closing, Segment
<1> QED  BY <1>2, <1>6

\* The name for a stale file is one of the orphans'.
LEMMA OrphanType ==
  ASSUME AgentOK, StampOrphan
  PROVE  OrphanNow \in OrphanNames /\ stamp' \in 0..MaxStamp
BY AgentAssumption DEF AgentOK, StampOrphan, OrphanNow, OrphanNames

\* _seal_stale_remote: the stale file is to be moved aside ...
LEMMA FoundStaleEffect ==
  ASSUME Typed, NEW s \in Seg, FoundStale(s)
  PROVE  \E r, w : Put(s, r, w) /\ Becomes(s, r, w)
<1> DEFINE r == [seg[s] EXCEPT !.phase = "aside"]
           w == RenameReq(seg[s].target, OrphanNow)
<1>1. /\ Shape(seg[s], wire[s]) /\ seg[s].phase = "greet"
      /\ seg[s] \in Segment /\ wire[s] \in Message /\ wire[s].kind = "greeting"
  BY DEF FoundStale, Typed, Shape
<1>2. Put(s, r, w)
  BY DEF FoundStale
<1>3. OrphanNow \in OrphanNames /\ OrphanNow \in AgentName
  BY OrphanType, NamesType DEF FoundStale, Typed
<1>4. r \in Segment
  BY <1>1 DEF Segment
<1>5. w \in Message /\ w = [kind |-> "rename", from |-> seg[s].target, to |-> OrphanNow]
  BY <1>1, <1>3, Built, SegmentFields
<1>6. Shape(r, w)
  BY <1>1, <1>3, <1>4, <1>5 DEF Shape, Kinds, Target, Sealed, Closing, Draining, Segment
<1>7. /\ r.phase = "aside" /\ r.pending = seg[s].pending /\ r.target = seg[s].target
      /\ w.kind = "rename"
  BY <1>1, <1>5 DEF Shape, Segment
<1> HIDE DEF r, w
<1>8. Becomes(s, r, w)
  BY <1>1, <1>6, <1>7
     DEF Becomes, Follows, Streaming, Draining, Sealed, Closing, Unsealed, Unfinal, ServedPath
<1> QED  BY <1>2, <1>8

\* ... and has been.
LEMMA MovedStaleEffect ==
  ASSUME Typed, NEW s \in Seg, MovedStale(s)
  PROVE  \E r, w : Put(s, r, w) /\ Becomes(s, r, w)
<1> DEFINE r == [seg[s] EXCEPT !.phase = "regreet"]
           w == HelloReq(seg[s].target, seg[s].pos)
<1>1. /\ Shape(seg[s], wire[s]) /\ seg[s].phase = "aside"
      /\ seg[s] \in Segment /\ wire[s] \in Message /\ wire[s].kind = "ok"
  BY Built DEF MovedStale, Typed, Shape
<1>2. Put(s, r, w)
  BY DEF MovedStale
<1>3. r \in Segment
  BY <1>1 DEF Segment
<1>4. w \in Message /\ w = [kind |-> "hello", target |-> seg[s].target, n |-> seg[s].pos]
  BY <1>1, Built, SegmentFields
<1>5. Shape(r, w)
  BY <1>1, <1>3, <1>4 DEF Shape, Kinds, Target, Sealed, Closing, Draining, Segment
<1>6. /\ r.phase = "regreet" /\ r.pending = seg[s].pending /\ w.kind = "hello"
  BY <1>1, <1>4 DEF Shape, Segment
<1> HIDE DEF r, w
<1>7. Becomes(s, r, w)
  BY <1>1, <1>5, <1>6
     DEF Becomes, Follows, Streaming, Draining, Sealed, Closing, Unsealed, Unfinal, ServedPath
<1> QED  BY <1>2, <1>7

\* Where _drain_available returns to, ...
LEMMA ReturnedEffect ==
  ASSUME Typed, NEW s \in Seg, NEW r \in Segment, NEW w \in {Idle, wire[s]},
         seg[s].phase \in Draining, seg[s].io \in {"ready", "resuming"},
         r.phase = seg[s].phase, r.inode = seg[s].inode, r.target = seg[s].target,
         r.pending = seg[s].pending, w.kind \in {"idle", "broken"},
         Follows(wire[s], w),
         Returned(s, r, w)
  PROVE  \E q, v : Put(s, q, v) /\ Becomes(s, q, v)
<1>1. Shape(seg[s], wire[s]) /\ wire[s] \in Message /\ w \in Message
  BY Built DEF Typed, Shape
<1>2. w = Idle \/ w = Broken
  BY <1>1, ByKind
<1>3. r.phase \in {"live", "seal", "orphan", "await", "final"}
  BY DEF Draining
<1>4. ASSUME NEW p, p = r.phase \/ (r.phase = "live" /\ r.pending # None /\ p = "seal")
                       \/ (r.phase = "await" /\ p = "look"),
             p \notin {"final"}, NEW q \in Segment, q.phase = p, q.io = "ready",
             q.inode = r.inode, q.target = r.target, q.pending = r.pending
      PROVE  Becomes(s, q, w)
  <2>1. Shape(q, w)
    BY <1>1, <1>2, <1>3, <1>4, Built DEF Shape, Kinds, Target, Sealed, Closing, Draining
  <2> QED  BY <1>1, <1>2, <1>3, <1>4, <2>1, Built DEF Becomes, Follows, Streaming, Unsealed, Unfinal, ServedPath, Sealed, Closing
<1>5. ASSUME NEW n \in AgentName, r.phase = "seal" => n = r.pending.name,
             r.phase = "final" => n = FinalName(r.pending.iso), r.phase \in {"seal", "final"}
      PROVE  Becomes(s, [r EXCEPT !.io = "renaming"], Send(w, RenameReq(r.target, n)))
  <2> DEFINE q == [r EXCEPT !.io = "renaming"]
             v == Send(w, RenameReq(r.target, n))
  <2>1. q \in Segment /\ q.io = "renaming" /\ q.phase = r.phase /\ q.inode = r.inode
        /\ q.target = r.target /\ q.pending = r.pending
    BY DEF Segment
  <2>2. \/ v = Broken /\ w = Broken
        \/ w = Idle /\ v \in Message /\ v = [kind |-> "rename", from |-> r.target, to |-> n]
    BY <1>2, Built, SegmentFields DEF Send
  <2> HIDE DEF q, v
  <2>3. Shape(q, v)
    BY <1>1, <1>5, <2>1, <2>2, Built DEF Shape, Kinds, Target, Sealed, Closing, Draining
  <2>4. Becomes(s, q, v)
    BY <1>1, <1>2, <1>5, <2>1, <2>2, <2>3, Built DEF Becomes, Follows, Streaming, Unsealed, Unfinal, ServedPath, Sealed, Closing
  <2> QED  BY <2>4 DEF q, v
<1>6. CASE r.phase = "live"
  <2> DEFINE p == IF r.pending = None THEN "live" ELSE "seal"
             q == [r EXCEPT !.io = "ready", !.phase = p]
  <2>1. Put(s, q, w)
    BY <1>6 DEF Returned
  <2>2. p = "live" \/ (p = "seal" /\ r.pending # None)
    OBVIOUS
  <2> HIDE DEF p
  <2>3. /\ q \in Segment /\ q.io = "ready" /\ q.inode = r.inode /\ q.target = r.target
        /\ q.pending = r.pending
        /\ q.phase = p
    BY <1>6, <2>2 DEF Segment, Draining
  <2> HIDE DEF q
  <2>4. Becomes(s, q, w)
    BY <1>4, <1>6, <2>2, <2>3
  <2> QED  BY <2>1, <2>4
<1>7. CASE r.phase = "seal"
  <2>1. Put(s, [r EXCEPT !.io = "renaming"], Send(w, RenameReq(r.target, r.pending.name)))
    BY <1>7 DEF Returned
  <2>2. r.pending.name \in AgentName
    BY <1>1, <1>7, SegmentFields DEF Shape
  <2> QED  BY <1>5, <1>7, <2>1, <2>2
<1>8. CASE r.phase = "orphan"
  <2>1. CASE End(s)
    BY <1>1, <2>1, <1>8, EndEffect
  <2>2. CASE Put(s, [r EXCEPT !.io = "ready", !.sent = FALSE], w)
    <3> DEFINE q == [r EXCEPT !.io = "ready", !.sent = FALSE]
    <3>1. /\ q \in Segment /\ q.io = "ready" /\ q.inode = r.inode /\ q.target = r.target
          /\ q.pending = r.pending /\ q.phase = r.phase
      BY <1>8 DEF Segment
    <3> HIDE DEF q
    <3>2. Becomes(s, q, w)
      BY <1>4, <1>8, <3>1
    <3> QED  BY <2>2, <3>2 DEF q
  <2> QED  BY <1>8, <2>1, <2>2 DEF Returned
<1>9. CASE r.phase = "await"
  <2> DEFINE q == [r EXCEPT !.io = "ready", !.phase = "look"]
  <2>1. Put(s, q, w)
    BY <1>9 DEF Returned
  <2>2. /\ q \in Segment /\ q.io = "ready" /\ q.inode = r.inode /\ q.target = r.target
        /\ q.pending = r.pending /\ q.phase = "look"
    BY <1>9 DEF Segment, Sealed, Closing
  <2> HIDE DEF q
  <2>3. Becomes(s, q, w)
    BY <1>4, <1>9, <2>2
  <2> QED  BY <2>1, <2>3
<1>10. CASE r.phase = "final"
  <2>1. Put(s, [r EXCEPT !.io = "renaming"],
            Send(w, RenameReq(r.pending.name, FinalName(r.pending.iso))))
    BY <1>10 DEF Returned
  <2>2. r.target = r.pending.name /\ FinalName(r.pending.iso) \in AgentName
    BY <1>1, <1>10, NamesType DEF Shape, Target, Sealed, Closing
  <2> QED  BY <1>5, <1>10, <2>1, <2>2
<1> QED  BY <1>3, <1>6, <1>7, <1>8, <1>9, <1>10

\* ... from a drain that found nothing more, ...
LEMMA DrainedEffect ==
  ASSUME Typed, NEW s \in Seg, Drained(s)
  PROVE  \E r, w : Put(s, r, w) /\ Becomes(s, r, w)
<1>1. /\ Shape(seg[s], wire[s]) /\ seg[s].phase \in Draining /\ seg[s].io = "ready"
      /\ seg[s] \in Segment /\ wire[s] \in Message
  BY DEF Drained, Typed, Shape
<1>2. wire[s].kind \in {"idle", "broken"}
  BY <1>1 DEF Shape, Kinds, Draining
<1>3. Returned(s, seg[s], wire[s])
  BY DEF Drained
<1> QED  BY <1>1, <1>2, <1>3, ReturnedEffect DEF Follows

\* ... or from one that had to reconnect.
LEMMA ResumedEffect ==
  ASSUME Typed, NEW s \in Seg, Resumed(s)
  PROVE  \E r, w : Put(s, r, w) /\ Becomes(s, r, w)
<1> DEFINE r == [seg[s] EXCEPT !.pos = wire[s].length]
<1>1. /\ Shape(seg[s], wire[s]) /\ seg[s].io = "resuming" /\ wire[s].kind = "greeting"
      /\ seg[s] \in Segment /\ wire[s] \in Message
  BY DEF Resumed, Typed, Shape
<1>2. seg[s].phase \in Draining
  BY <1>1 DEF Shape, Kinds, Draining
<1>3. wire[s].length \in 0..MaxSize
  BY <1>1, ByKind DEF Greetings
<1>4. /\ r \in Segment /\ r.phase = seg[s].phase /\ r.inode = seg[s].inode
      /\ r.target = seg[s].target /\ r.pending = seg[s].pending
  BY <1>1, <1>3 DEF Segment
<1>5. Returned(s, r, Idle)
  BY DEF Resumed
<1> HIDE DEF r
<1> QED  BY <1>1, <1>2, <1>4, <1>5, ReturnedEffect, Built DEF Follows

\* request_seal is noticed.
LEMMA SealRequestedEffect ==
  ASSUME Typed, NEW s \in Seg, SealRequested(s)
  PROVE  \E r, w : Put(s, r, w) /\ Becomes(s, r, w)
<1> DEFINE r == [seg[s] EXCEPT !.phase = "seal"]
<1>1. /\ Shape(seg[s], wire[s]) /\ seg[s].phase = "live" /\ seg[s].io = "ready"
      /\ seg[s].pending # None /\ seg[s] \in Segment
  BY DEF SealRequested, Typed, Shape
<1>2. Put(s, r, wire[s])
  BY DEF SealRequested
<1>3. r \in Segment
  BY <1>1 DEF Segment, Draining
<1>4. Shape(r, wire[s])
  BY <1>1, <1>3 DEF Shape, Kinds, Target, Sealed, Closing, Draining, Segment
<1>5. /\ r.phase = "seal" /\ r.pending = seg[s].pending /\ r.io = "ready"
      /\ r.inode = seg[s].inode /\ r.target = seg[s].target
  BY <1>1 DEF Segment
<1>6. wire[s].kind \in {"idle", "broken"}
  BY <1>1 DEF Shape, Kinds, Draining
<1> HIDE DEF r
<1>7. Becomes(s, r, wire[s])
  BY <1>1, <1>4, <1>5, <1>6
     DEF Becomes, Follows, Streaming, Draining, Sealed, Closing, Unsealed, Unfinal, ServedPath
<1> QED  BY <1>2, <1>7 DEF r

\* _drain_available reads what there is ...
LEMMA ReadEffect ==
  ASSUME Typed, NEW s \in Seg, Read(s)
  PROVE  \E r, w : Put(s, r, w) /\ Becomes(s, r, w)
<1> DEFINE i   == seg[s].inode
           end == Least(seg[s].pos + Chunk, size[i])
           r   == [seg[s] EXCEPT !.io = "sending", !.pos = end]
           d   == Bytes(i, seg[s].pos, end)
           w   == Send(wire[s], DataReq(seg[s].pos, d))
<1>1. /\ Shape(seg[s], wire[s]) /\ seg[s].phase \in Draining /\ seg[s].io = "ready"
      /\ seg[s] \in Segment /\ wire[s] \in Message
      /\ seg[s].pos < size[i]
  BY DEF Read, Typed, Shape
<1>2. Put(s, r, w)
  BY DEF Read
<1>3. i \in Inode /\ seg[s].pos \in 0..MaxSize /\ size[i] \in 0..MaxSize
  BY <1>1, SegmentFields DEF Shape, Typed, SourceOK, Draining
<1>4. end \in 0..MaxSize /\ seg[s].pos < end
  BY <1>1, <1>3, AgentAssumption, SourceAssumption DEF Least
<1>5. d \in Payload
  BY <1>3, <1>4, BytesType
<1> HIDE DEF end
<1>6. r \in Segment /\ r.pos = end
  BY <1>1, <1>4 DEF Segment
<1>7. wire[s] = Idle \/ wire[s] = Broken
  BY <1>1, ByKind DEF Shape, Kinds, Draining
<1>8. \/ w = Broken /\ wire[s] = Broken
      \/ wire[s] = Idle /\ w \in Message /\ w = [kind |-> "data", off |-> seg[s].pos, data |-> d]
  <2> HIDE DEF d
  <2> QED  BY <1>3, <1>5, <1>7, Built DEF Send
<1>9. d = Bytes(r.inode, seg[s].pos, r.pos)
  BY <1>6, <1>1 DEF Segment
<1>10. /\ r.phase = seg[s].phase /\ r.pending = seg[s].pending /\ r.target = seg[s].target
       /\ r.io = "sending" /\ r.inode = i
  BY <1>1 DEF Segment
<1> HIDE DEF d, w, r
<1>11. Shape(r, w)
  BY <1>1, <1>3, <1>4, <1>6, <1>8, <1>9, <1>10, Built
     DEF Shape, Kinds, Target, Sealed, Closing, Draining
<1>12. Becomes(s, r, w)
  BY <1>1, <1>8, <1>10, <1>11, Built DEF Becomes, Follows, Streaming, Unsealed, Unfinal, ServedPath, Sealed, Closing, Draining
<1> QED  BY <1>2, <1>12

\* ... and it is sent ...
LEMMA SentEffect ==
  ASSUME Typed, NEW s \in Seg, Sent(s)
  PROVE  \E r, w : Put(s, r, w) /\ Becomes(s, r, w)
<1> DEFINE r == [seg[s] EXCEPT !.io = "ready", !.sent = seg[s].phase = "orphan"]
<1>1. /\ Shape(seg[s], wire[s]) /\ seg[s].io = "sending" /\ wire[s].kind = "ok"
      /\ seg[s] \in Segment
  BY Built DEF Sent, Typed, Shape
<1>2. Put(s, r, Idle)
  BY DEF Sent
<1>3. r \in Segment
  BY <1>1 DEF Segment
<1>4. /\ r.phase = seg[s].phase /\ r.pending = seg[s].pending /\ r.target = seg[s].target
      /\ r.io = "ready" /\ r.inode = seg[s].inode
  BY <1>1 DEF Segment
<1> HIDE DEF r
<1>5. Shape(r, Idle)
  BY <1>1, <1>3, <1>4, Built DEF Shape, Kinds, Target, Sealed, Closing, Draining
<1>6. Becomes(s, r, Idle)
  BY <1>1, <1>4, <1>5, Built DEF Becomes, Follows, Streaming, Unsealed, Unfinal, ServedPath, Sealed, Closing, Shape, Kinds, Draining
<1> QED  BY <1>2, <1>6

\* _reconnect after a failure, to the target r has by then.
LEMMA RedialEffect ==
  ASSUME Typed, NEW s \in Seg, NEW r \in Segment,
         Redial(s, r), wire[s] = Broken, seg[s].phase \in Draining,
         r.phase = seg[s].phase, r.inode = seg[s].inode, r.pending = seg[s].pending,
         \/ r.io = "resuming" /\ seg[s].io \in {"sending", "resuming"}
         \/ r.io = "assuming" /\ r.phase \in {"seal", "final"},
         r.target = Target(r)
  PROVE  \E q, w : Put(s, q, w) /\ Becomes(s, q, w)
<1> DEFINE w == HelloReq(r.target, r.pos)
<1>1. Shape(seg[s], wire[s])
  BY DEF Typed
<1>2. w \in Message /\ w = [kind |-> "hello", target |-> r.target, n |-> r.pos]
  BY Built, SegmentFields
<1>3. Shape(r, w)
  BY <1>1, <1>2 DEF Shape, Kinds, Sealed, Closing, Draining
<1>4. Becomes(s, r, w)
  BY <1>1, <1>2, <1>3, Built DEF Becomes, Follows, Streaming, Unsealed, Unfinal, ServedPath, Sealed, Closing, Draining
<1> QED  BY <1>4 DEF Redial

\* ... or is not.
LEMMA SendFailedEffect ==
  ASSUME Typed, NEW s \in Seg, SendFailed(s)
  PROVE  \E r, w : Put(s, r, w) /\ Becomes(s, r, w)
<1> DEFINE n == PrefixEnd(seg[s].inode)
           r == [seg[s] EXCEPT !.io = "resuming", !.pos = n]
<1>1. /\ Shape(seg[s], wire[s]) /\ seg[s].io = "sending" /\ wire[s] = Broken
      /\ seg[s] \in Segment /\ SourceOK
  BY DEF SendFailed, Typed, Shape
<1>2. seg[s].phase \in Draining
  BY <1>1, Built DEF Shape, Kinds
<1>3. CASE End(s)
  BY <1>1, <1>2, <1>3, EndEffect DEF Draining
<1>4. CASE Redial(s, r)
  <2>1. n \in 0..MaxSize
    BY <1>1, <1>2, PrefixEndType DEF Shape, Draining
  <2> HIDE DEF n
  <2>2. /\ r \in Segment /\ r.phase = seg[s].phase /\ r.inode = seg[s].inode
        /\ r.target = seg[s].target /\ r.pending = seg[s].pending /\ r.io = "resuming"
    BY <1>1, <2>1 DEF Segment
  <2> HIDE DEF r
  <2>3. r.target = Target(r)
    BY <1>1, <1>2, <2>2 DEF Shape, Target
  <2> QED  BY <1>1, <1>2, <1>4, <2>2, <2>3, RedialEffect
<1> QED  BY <1>3, <1>4 DEF SendFailed

\* _reconnect tries again.
LEMMA RetryEffect ==
  ASSUME Typed, NEW s \in Seg, Retry(s)
  PROVE  \E r, w : Put(s, r, w) /\ Becomes(s, r, w)
<1>1. /\ Shape(seg[s], wire[s]) /\ seg[s].io \in {"resuming", "assuming"} /\ wire[s] = Broken
      /\ seg[s] \in Segment /\ Redial(s, seg[s])
  BY DEF Retry, Typed, Shape
<1>2. /\ seg[s].phase \in Draining
      /\ seg[s].io = "assuming" => seg[s].phase \in {"seal", "final"}
      /\ seg[s].target = Target(seg[s])
  BY <1>1, Built DEF Shape, Kinds, Draining
<1> QED  BY <1>1, <1>2, RedialEffect

\* The marker is looked at, for the rename that is due.
LEMMA LookedEffect ==
  ASSUME Typed, NEW s \in Seg, Looked(s)
  PROVE  \E r, w : Put(s, r, w) /\ Becomes(s, r, w)
<1> DEFINE p == IF marker[seg[s].pending.iso] = "done" THEN "final" ELSE "await"
           r == [seg[s] EXCEPT !.phase = p]
<1>1. /\ Shape(seg[s], wire[s]) /\ seg[s].phase = "look" /\ seg[s] \in Segment
  BY DEF Looked, Typed, Shape
<1>2. Put(s, r, wire[s])
  BY DEF Looked
<1>3. p \in {"final", "await"}
  OBVIOUS
<1> HIDE DEF p
<1>4. /\ r \in Segment /\ r.phase = p /\ r.pending = seg[s].pending /\ r.target = seg[s].target
      /\ r.io = seg[s].io /\ r.inode = seg[s].inode
  BY <1>1, <1>3 DEF Segment, Sealed, Closing, Draining
<1> HIDE DEF r
<1>5. seg[s].io = "ready" /\ wire[s].kind \in {"idle", "broken"}
  BY <1>1 DEF Shape, Kinds, Draining
<1>6. Shape(r, wire[s])
  BY <1>1, <1>3, <1>4, <1>5 DEF Shape, Kinds, Target, Sealed, Closing, Draining
<1>7. Becomes(s, r, wire[s])
  BY <1>1, <1>3, <1>4, <1>5, <1>6
     DEF Becomes, Follows, Streaming, Draining, Sealed, Closing, Unsealed, Unfinal, ServedPath
<1> QED  BY <1>2, <1>7

\* _rename has returned, ...
LEMMA RenameDoneEffect ==
  ASSUME Typed, NEW s \in Seg, seg[s].io \in {"renaming", "assuming"},
         wire[s].kind \in {"ok", "greeting"}, RenameDone(s)
  PROVE  \E r, w : Put(s, r, w) /\ Becomes(s, r, w)
<1> DEFINE p == IF seg[s].pending.iso = NoInode THEN "orphan" ELSE "await"
           t == seg[s].pending.name
           r == [seg[s] EXCEPT !.io = "ready", !.target = t, !.phase = p]
<1>1. Shape(seg[s], wire[s]) /\ seg[s] \in Segment
  BY DEF Typed, Shape
<1>2. CASE seg[s].phase = "seal" /\ Put(s, r, Idle)
  <2>1. (p = "orphan" /\ seg[s].pending.iso = NoInode) \/ (p = "await" /\ seg[s].pending.iso # NoInode)
    OBVIOUS
  <2>2. t \in AgentName /\ t = seg[s].pending.name
    BY <1>1, <1>2, SegmentFields DEF Shape
  <2>3. seg[s].pending.iso \in Inode \cup {NoInode}
    BY <1>1, <1>2 DEF Shape, Plan
  <2> HIDE DEF p, t
  <2>4. /\ r \in Segment /\ r.phase = p /\ r.pending = seg[s].pending /\ r.target = t
        /\ r.io = "ready" /\ r.inode = seg[s].inode
    BY <1>1, <2>1, <2>2 DEF Segment, Sealed, Closing
  <2> HIDE DEF r
  <2>5. Shape(r, Idle)
    BY <1>1, <1>2, <2>1, <2>2, <2>3, <2>4, Built DEF Shape, Kinds, Target, Sealed, Closing, Draining
  <2>6. r.target = ServedPath(seg[s], wire[s])
    BY <1>1, <1>2, <2>2, <2>4, Built DEF ServedPath, Shape, Target, Kinds, Draining, Sealed, Closing
  <2>7. Becomes(s, r, Idle)
    BY <1>1, <1>2, <2>1, <2>4, <2>5, <2>6, Built
       DEF Becomes, Follows, Streaming, Draining, Sealed, Closing, Unsealed, Unfinal
  <2> QED  BY <1>2, <2>7
<1>3. CASE seg[s].phase = "final" /\ End(s)
  BY <1>3, EndEffect
<1> QED  BY <1>2, <1>3 DEF RenameDone

\* ... with the server's reply, ...
LEMMA RenamedEffect ==
  ASSUME Typed, NEW s \in Seg, Renamed(s)
  PROVE  \E r, w : Put(s, r, w) /\ Becomes(s, r, w)
<1>1. seg[s].io = "renaming" /\ wire[s].kind = "ok" /\ RenameDone(s)
  BY Built DEF Renamed
<1> QED  BY <1>1, RenameDoneEffect

\* ... or after a failure.
LEMMA AssumedEffect ==
  ASSUME Typed, NEW s \in Seg, Assumed(s)
  PROVE  \E r, w : Put(s, r, w) /\ Becomes(s, r, w)
BY RenameDoneEffect DEF Assumed

\* A rename that is not answered is resumed.
LEMMA RenameFailedEffect ==
  ASSUME Typed, NEW s \in Seg, RenameFailed(s)
  PROVE  \E r, w : Put(s, r, w) /\ Becomes(s, r, w)
<1> DEFINE n == PrefixEnd(seg[s].inode)
           t == IF seg[s].phase = "seal" THEN seg[s].pending.name ELSE FinalName(seg[s].pending.iso)
           r == [seg[s] EXCEPT !.io = "assuming", !.target = t, !.pos = n]
<1>1. /\ Shape(seg[s], wire[s]) /\ seg[s].io = "renaming" /\ wire[s] = Broken
      /\ seg[s] \in Segment /\ SourceOK
  BY DEF RenameFailed, Typed, Shape
<1>2. seg[s].phase \in {"seal", "final"}
  BY <1>1, Built DEF Shape, Kinds, Draining
<1>3. CASE End(s)
  BY <1>1, <1>2, <1>3, EndEffect
<1>4. CASE Redial(s, r)
  <2>1. n \in 0..MaxSize
    BY <1>1, <1>2, PrefixEndType DEF Shape
  <2>2. /\ t \in AgentName
        /\ seg[s].phase = "seal" => t = seg[s].pending.name
        /\ seg[s].phase = "final" => t = FinalName(seg[s].pending.iso)
    BY <1>1, <1>2, SegmentFields, NamesType DEF Shape, Closing
  <2> HIDE DEF n, t
  <2>3. /\ r \in Segment /\ r.phase = seg[s].phase /\ r.inode = seg[s].inode
        /\ r.target = t /\ r.pending = seg[s].pending /\ r.io = "assuming"
    BY <1>1, <2>1, <2>2 DEF Segment
  <2> HIDE DEF r
  <2>4. r.target = Target(r)
    BY <1>2, <2>2, <2>3 DEF Target, Sealed, Closing
  <2> QED  BY <1>1, <1>2, <1>4, <2>3, <2>4, RedialEffect DEF Draining
<1> QED  BY <1>3, <1>4 DEF RenameFailed

\* Every step of a segment leaves it in a state the code provides for.
LEMMA SegmentEffect ==
  ASSUME Typed, NEW s \in Seg, SegmentStep(s)
  PROVE  \E r, w : Put(s, r, w) /\ Becomes(s, r, w)
<1>1. CASE ConnectFailed(s)
  BY <1>1, EndEffect DEF ConnectFailed
<1> QED  BY <1>1, DialEffect, GreetedEffect, FoundStaleEffect, MovedStaleEffect,
            SealRequestedEffect, ReadEffect, DrainedEffect, SentEffect, SendFailedEffect,
            ResumedEffect, RetryEffect, LookedEffect, RenamedEffect, RenameFailedEffect,
            AssumedEffect
         DEF SegmentStep

-----------------------------------------------------------------------------
(* The steps of the agent *)

\* What the agent's steps leave of the server.
Handlers ==
  /\ handler' = [s \in Seg |-> IF wire'[s] # wire[s] /\ wire'[s].kind \in {"none", "hello"}
                               THEN Server!Closed ELSE handler[s]]
  /\ UNCHANGED <<dir, content, synced, fresh>>

\* A handler that has returned is well formed.
LEMMA ClosedType ==
  /\ Server!WellFormed(Server!Closed) /\ Server!Closed \in Server!Handler
  /\ Server!Closed.st = "closed" /\ Server!Closed.gone = FALSE /\ Server!Closed.pos = 0
  /\ Server!Closed.fd = None /\ Server!Closed.path = None
<1>1. S!WellFormed(S!Closed)
  BY ServerConstants, S!ClosedType
<1> QED  BY <1>1 DEF S!WellFormed, S!Closed, S!Handler, S!NoFrame, S!Frame,
                Server!WellFormed, Server!Closed, Server!Handler, Server!NoFrame, Server!Frame

\* Handlers that are closed have their type.
LEMMA HandlersType ==
  ASSUME DiskOK, Handlers
  PROVE  DiskOK'
BY ClosedType DEF DiskOK, Handlers, Server!TypeOK, Server!WellFormed

\* A connection that the agent closes or opens fits its handler again.
LEMMA SessionKept ==
  ASSUME Typed, Handlers, NEW s \in Seg, Follows(wire[s], wire'[s])
  PROVE  Session(wire'[s], handler'[s])
<1> DEFINE w == wire[s]
           v == wire'[s]
           h == handler[s]
<1>1. Session(w, h)
  BY DEF Typed
<1>2. handler'[s] = IF v # w /\ v.kind \in {"none", "hello"} THEN Server!Closed ELSE h
  BY DEF Handlers
<1>3. Follows(w, v)
  OBVIOUS
<1> SUFFICES Session(v, handler'[s])
  OBVIOUS
<1> HIDE DEF w, v, h
<1>4. CASE v = w
  BY <1>1, <1>2, <1>4
<1>5. CASE v # w /\ v.kind \in {"none", "hello"}
  BY <1>2, <1>5, ClosedType, SourceAssumption DEF Session
<1>6. CASE v # w /\ v.kind \notin {"none", "hello"}
  <2>1. handler'[s] = h /\ w.kind \in {"idle", "ok", "greeting"}
        /\ v.kind \notin {"none", "hello", "broken"}
    BY <1>2, <1>3, <1>6 DEF Follows
  <2> QED  BY <1>1, <2>1 DEF Session
<1> QED  BY <1>4, <1>5, <1>6

\* The names and the acknowledgements of a segment's step.
LEMMA SegmentRest ==
  ASSUME Typed, NEW s \in Seg, SegmentStep(s)
  PROVE  /\ UNCHANGED <<coord, isos, ephemeral, crashes>>
         /\ stamp' \in 0..MaxStamp
         /\ acked' \in [Inode -> 0..MaxSize]
<1>1. AgentOK /\ Shape(seg[s], wire[s]) /\ seg[s] \in Segment
  BY DEF Typed, Shape
<1>2. CASE UNCHANGED <<segOnly, stamp, acked>>
  BY <1>1, <1>2 DEF segOnly, AgentOK
<1>3. CASE FoundStale(s)
  BY <1>1, <1>3, OrphanType DEF FoundStale, segOnly, AgentOK
<1>4. CASE Sent(s)
  BY <1>1, <1>4, SegmentFields DEF Sent, segOnly, AgentOK
<1>5. FoundStale(s) \/ Sent(s) \/ UNCHANGED <<segOnly, stamp, acked>>
  BY DEF SegmentStep, Dial, Greeted, MovedStale, ConnectFailed, SealRequested, Read, Drained,
         SendFailed, Resumed, Retry, Looked, Renamed, RenameFailed, Assumed
<1> QED  BY <1>2, <1>3, <1>4, <1>5

\* A segment that takes a step has a task.
LEMMA Awake ==
  ASSUME Typed, NEW s \in Seg, SegmentStep(s)
  PROVE  seg[s].phase \notin {"off", "done"}
<1>1. Shape(seg[s], wire[s])
  BY DEF Typed
<1>2. CASE seg[s].phase \in {"off", "done"}
  <2>1. seg[s].io = "ready" /\ wire[s].kind = "none"
    BY <1>1, <1>2 DEF Shape, Kinds, Draining
  <2> QED  BY <1>2, <2>1, Built DEF SegmentStep, Dial, Greeted, FoundStale, MovedStale, ConnectFailed,
             SealRequested, Read, Drained, Sent, SendFailed, Resumed, Retry, Looked, Renamed,
             RenameFailed, Assumed, Draining
<1> QED  BY <1>2

\* Segments keep everything well formed.
LEMMA SegmentTyped ==
  ASSUME Typed, NEW s \in Seg, SegmentStep(s), Handlers, lapsed' \in BOOLEAN,
         UNCHANGED sourceVars
  PROVE  Typed'
<1>1. PICK r, w : Put(s, r, w) /\ Becomes(s, r, w)
  BY SegmentEffect
<1>2. /\ UNCHANGED <<coord, isos, ephemeral, crashes, cur, size, marker, made>>
      /\ stamp' \in 0..MaxStamp /\ acked' \in [Inode -> 0..MaxSize]
  BY SegmentRest DEF sourceVars
<1>3. seg' = [seg EXCEPT ![s] = r] /\ wire' = [wire EXCEPT ![s] = w]
  BY <1>1 DEF Put
<1>4. Shape(r, w) /\ r \in Segment /\ w \in Message
  BY <1>1 DEF Becomes, Shape
<1>5. SourceOK' /\ IsosOK' /\ DiskOK'
  BY <1>2, HandlersType DEF Typed, SourceOK, IsosOK
<1>6. AgentOK'
  BY <1>2, <1>3, <1>4 DEF Typed, AgentOK
<1>7. CoordOK'
  <2>1. ASSUME NEW t \in Seg, t # coord.live PROVE seg'[t].phase \in Sealed \cup {"off"}
    <3>1. seg[t].phase \in Sealed \cup {"off"}
      BY <2>1 DEF Typed, CoordOK
    <3>2. CASE t = s
      BY <1>1, <1>3, <2>1, <3>1, <3>2, Awake DEF Becomes, Typed, AgentOK
    <3>3. CASE t # s
      BY <1>3, <3>1, <3>3 DEF Typed, AgentOK
    <3> QED  BY <3>2, <3>3
  <2>2. ASSUME coord.live # None
        PROVE  /\ seg'[coord.live].phase # "off"
               /\ coord.pc # "wait" => seg'[coord.live].pending = None
    <3>1. /\ coord.live \in Seg /\ seg[coord.live].phase # "off"
          /\ coord.pc # "wait" => seg[coord.live].pending = None
      BY <2>2 DEF Typed, CoordOK, Coordinator
    <3>2. CASE coord.live = s
      BY <1>1, <1>3, <3>1, <3>2 DEF Becomes, Typed, AgentOK
    <3>3. CASE coord.live # s
      BY <1>3, <3>1, <3>3 DEF Typed, AgentOK
    <3> QED  BY <3>2, <3>3
  <2> QED  BY <1>2, <2>1, <2>2 DEF Typed, CoordOK
<1>8. ASSUME NEW t \in Seg PROVE Shape(seg'[t], wire'[t]) /\ Session(wire'[t], handler'[t])
  <2>1. Shape(seg'[t], wire'[t])
    BY <1>3, <1>4 DEF Typed, AgentOK
  <2>2. Follows(wire[t], wire'[t])
    BY <1>1, <1>3 DEF Becomes, Follows, Streaming, Unsealed, Unfinal, ServedPath, Typed, AgentOK
  <2> QED  BY <2>1, <2>2, SessionKept
<1> QED  BY <1>5, <1>6, <1>7, <1>8 DEF Typed

\* A slot without a task.
LEMMA OffShape == Shape(Off, Unconnected)
BY OffFields, Built DEF Shape, Kinds, Target, Sealed, Closing, Draining

\* What a scan finds are new markers of the directory.
LEMMA ScanType ==
  ASSUME Typed, Scanned(isos, isos')
  PROVE  /\ isos' \in Seq(Inode) /\ IsInjective(isos')
         /\ \A k \in DOMAIN isos' : marker[isos'[k]] # "none"
         /\ ToSet(isos) \subseteq ToSet(isos')
         /\ \A i \in ToSet(isos') : i \in Inode /\ (i \in ToSet(isos) \/ marker[i] = "waiting")
<1> DEFINE found == {i \in Inode : marker[i] = "waiting"} \ ToSet(isos)
<1>1. PICK f \in SetToSeqs(found) : isos' = isos \o f
  BY DEF Scanned
<1>2. IsFiniteSet(found)
  <2>1. IsFiniteSet(Inode)
    BY SourceAssumption, FS_Interval DEF Inode
  <2>2. found \subseteq Inode
    OBVIOUS
  <2> QED  BY <2>1, <2>2, FS_Subset
<1>3. Cardinality(found) \in Nat
  BY <1>2, FS_CardinalityType
<1>4. f \in [1..Cardinality(found) -> found] /\ \A i, j \in DOMAIN f : i # j => f[i] # f[j]
  BY <1>1 DEF SetToSeqs
<1>5. f \in Seq(Inode) /\ DOMAIN f = 1..Len(f) /\ \A k \in DOMAIN f : f[k] \in found
  <2>1. found \subseteq Inode
    OBVIOUS
  <2> HIDE DEF found
  <2> QED  BY <1>3, <1>4, <2>1
<1>6. /\ isos \in Seq(Inode) /\ IsInjective(isos)
      /\ \A k \in DOMAIN isos : marker[isos[k]] # "none"
  BY DEF Typed, IsosOK
<1>7. isos' \in Seq(Inode)
  BY <1>1, <1>5, <1>6
<1>8. ASSUME NEW k \in DOMAIN isos'
      PROVE  \/ k \in DOMAIN isos /\ isos'[k] = isos[k]
             \/ k - Len(isos) \in DOMAIN f /\ isos'[k] = f[k - Len(isos)] /\ k \notin DOMAIN isos
  BY <1>1, <1>5, <1>6
<1>9. \A k \in DOMAIN isos : isos[k] \in ToSet(isos)
  BY DEF ToSet
<1> HIDE DEF found
<1>10. \A i \in found : i \notin ToSet(isos) /\ marker[i] = "waiting"
  BY DEF found
<1>11. IsInjective(isos')
  <2> SUFFICES ASSUME NEW a \in DOMAIN isos', NEW b \in DOMAIN isos', isos'[a] = isos'[b]
               PROVE  a = b
    BY DEF IsInjective
  <2>1. a \in Int /\ b \in Int /\ Len(isos) \in Int
    BY <1>6, <1>7
  <2>2. CASE a \in DOMAIN isos /\ b \in DOMAIN isos
    BY <1>6, <1>8, <2>2 DEF IsInjective
  <2>3. CASE a \notin DOMAIN isos /\ b \notin DOMAIN isos
    <3>1. f[a - Len(isos)] = f[b - Len(isos)]
      BY <1>8, <2>3
    <3>2. a - Len(isos) = b - Len(isos)
      BY <1>4, <1>8, <2>3, <3>1
    <3> QED  BY <2>1, <3>2
  <2>4. CASE ~(a \in DOMAIN isos <=> b \in DOMAIN isos)
    BY <1>5, <1>8, <1>9, <1>10, <2>4
  <2> QED  BY <2>2, <2>3, <2>4
<1>12. \A k \in DOMAIN isos' : marker[isos'[k]] # "none"
  BY <1>5, <1>6, <1>8, <1>10
<1>13. ToSet(isos) \subseteq ToSet(isos')
  <2> SUFFICES ASSUME NEW k \in DOMAIN isos PROVE \E l \in DOMAIN isos' : isos'[l] = isos[k]
    BY DEF ToSet
  <2>1. k \in DOMAIN isos' /\ isos'[k] = isos[k]
    BY <1>1, <1>5, <1>6
  <2> QED  BY <2>1
<1>14. \A i \in ToSet(isos') : i \in Inode /\ (i \in ToSet(isos) \/ marker[i] = "waiting")
  <2> SUFFICES ASSUME NEW k \in DOMAIN isos'
               PROVE  isos'[k] \in Inode /\ (isos'[k] \in ToSet(isos) \/ marker[isos'[k]] = "waiting")
    BY DEF ToSet
  <2> QED  BY <1>5, <1>7, <1>8, <1>9, <1>10
<1> QED  BY <1>7, <1>11, <1>12, <1>13, <1>14

\* Steps of the coordinator change no connection, unless it ends.
LEMMA QuietSessions ==
  ASSUME Typed, Handlers, UNCHANGED wire
  PROVE  handler' = handler /\ DiskOK' /\ \A s \in Seg : Session(wire'[s], handler'[s])
<1>1. \A s \in Seg : handler'[s] = handler[s]
  BY DEF Handlers
<1>2. handler = [s \in Seg |-> handler[s]]
  BY DEF Typed, DiskOK, Server!TypeOK
<1>3. handler' = handler
  BY <1>1, <1>2 DEF Handlers
<1> QED  BY <1>3, HandlersType DEF Typed

\* The coordinator starts over: nothing is left.
LEMMA StartOverTyped ==
  ASSUME Typed, StartOver, Handlers, lapsed' \in BOOLEAN,
         UNCHANGED <<sourceVars, ephemeral, stamp, acked>>
  PROVE  Typed'
<1>1. /\ seg' = [s \in Seg |-> Off] /\ wire' = [s \in Seg |-> Unconnected]
      /\ coord' = NoCoord /\ isos' = <<>>
  BY DEF StartOver
<1>2. SourceOK' /\ AgentOK' /\ DiskOK'
  BY <1>1, OffFields, Built, HandlersType DEF Typed, SourceOK, AgentOK, sourceVars
<1>3. CoordOK' /\ IsosOK'
  BY <1>1, OffFields, AgentAssumption DEF CoordOK, Coordinator, NoCoord, IsosOK, IsInjective
<1>4. ASSUME NEW s \in Seg PROVE Shape(seg'[s], wire'[s]) /\ Session(wire'[s], handler'[s])
  <2>1. Follows(wire[s], wire'[s])
    BY <1>1, Built DEF Follows
  <2> QED  BY <1>1, <2>1, OffShape, SessionKept
<1> QED  BY <1>2, <1>3, <1>4 DEF Typed

\* Dropping an ended live segment.
LEMMA ReapedType ==
  ASSUME Typed
  PROVE  /\ Reaped \in [Seg -> Segment]
         /\ \A s \in Seg : Shape(Reaped[s], wire[s])
         /\ \A s \in Seg : \/ Reaped[s] = seg[s] /\ (s = coord.live => seg[s].phase # "done")
                           \/ s = coord.live /\ seg[s].phase = "done" /\ Reaped[s] = Off
<1>1. /\ seg \in [Seg -> Segment] /\ coord.live \in Seg \cup {None}
      /\ \A s \in Seg : Shape(seg[s], wire[s])
  BY DEF Typed, AgentOK, CoordOK, Coordinator
<1>2. CASE coord.live # None /\ seg[coord.live].phase = "done"
  <2>1. Reaped = [seg EXCEPT ![coord.live] = Off]
    BY <1>2 DEF Reaped
  <2>2. wire[coord.live] = Unconnected
    BY <1>1, <1>2, ByKind DEF Shape, Kinds, Draining
  <2> QED  BY <1>1, <1>2, <2>1, <2>2, OffFields, OffShape
<1>3. CASE ~(coord.live # None /\ seg[coord.live].phase = "done")
  BY <1>1, <1>3, AgentAssumption DEF Reaped
<1> QED  BY <1>2, <1>3

\* A new live segment.
LEMMA StartTyped ==
  ASSUME Typed, NEW i \in Inode, Start(i, coord.consumed), Handlers,
         coord.live = None \/ seg[coord.live].phase \in Sealed \cup {"done"},
         lapsed' \in BOOLEAN, UNCHANGED <<sourceVars, isos, ephemeral, stamp, wire, acked>>
  PROVE  Typed'
<1> DEFINE free == {f \in Seg : Reaped[f].phase = "off"}
           s    == CHOOSE f \in free : TRUE
           r    == [Off EXCEPT !.phase = "born", !.inode = i]
<1>1. /\ free # {}
      /\ seg' = [Reaped EXCEPT ![s] = r]
      /\ coord' = [coord EXCEPT !.pc = "loop", !.live = s, !.last = coord.found,
                                !.found = NoInode, !.opened = NoInode,
                                !.consumed = coord.consumed]
  BY DEF Start
<1>2. s \in Seg /\ Reaped[s].phase = "off"
  BY <1>1
<1> HIDE DEF s
<1>3. wire[s] = Unconnected
  <2>1. Shape(Reaped[s], wire[s])
    BY <1>2, ReapedType
  <2> QED  BY <1>2, <2>1, ByKind DEF Shape, Kinds, Draining
<1>4. /\ r \in Segment /\ r.phase = "born" /\ r.io = "ready" /\ r.inode = i
      /\ r.target = LiveName /\ r.pending = None
  BY OffFields DEF Segment
<1> HIDE DEF r
<1>5. Shape(r, Unconnected)
  BY <1>4, Built DEF Shape, Kinds, Target, Sealed, Closing, Draining
<1>6. SourceOK' /\ IsosOK' /\ DiskOK' /\ AgentOK'
  BY <1>1, <1>4, ReapedType, QuietSessions
     DEF Typed, SourceOK, AgentOK, IsosOK, CoordOK, Coordinator, sourceVars
<1>7. CoordOK'
  <2>1. coord' \in Coordinator
    BY <1>1, <1>2 DEF Typed, CoordOK, Coordinator
  <2>2. /\ coord'.live = s /\ coord'.pc = "loop" /\ seg'[s] = r
    BY <1>1, <1>2, ReapedType DEF Typed, CoordOK, Coordinator
  <2>3. ASSUME NEW t \in Seg, t # s PROVE seg'[t].phase \in Sealed \cup {"off"}
    <3>1. seg'[t] = Reaped[t]
      BY <1>1, <2>3, ReapedType
    <3>2. CASE t = coord.live
      <4>1. seg[t].phase \in Sealed \cup {"done"}
        BY <3>2, AgentAssumption
      <4> QED  BY <3>1, <3>2, <4>1, ReapedType, OffFields
    <3>3. CASE t # coord.live
      BY <3>1, <3>3, ReapedType DEF Typed, CoordOK
    <3> QED  BY <3>2, <3>3
  <2>4. s # None
    BY <1>2, AgentAssumption
  <2> QED  BY <1>4, <2>1, <2>2, <2>3, <2>4 DEF CoordOK
<1>8. ASSUME NEW t \in Seg PROVE Shape(seg'[t], wire'[t]) /\ Session(wire'[t], handler'[t])
  <2>1. Shape(seg'[t], wire[t])
    BY <1>1, <1>2, <1>3, <1>5, ReapedType
  <2> QED  BY <2>1, QuietSessions
<1> QED  BY <1>6, <1>7, <1>8 DEF Typed

\* The request to seal reaches a live segment that is not yet sealed, or has ended.
LEMMA SealTyped ==
  ASSUME Typed, Handlers, NEW n \in AgentName, NEW iso \in Inode \cup {NoInode},
         coord.pc \in {"learn", "grace"}, RequestSeal(n, iso), Scanned(isos, isos') \/ UNCHANGED isos,
         iso \in Inode => n = SealedName(iso) /\ marker[iso] # "none",
         iso = NoInode => n \in OrphanNames,
         stamp' \in 0..MaxStamp, lapsed' \in BOOLEAN,
         UNCHANGED <<sourceVars, ephemeral, wire, acked>>
  PROVE  Typed'
<1> DEFINE s == coord.live
           plan == [name |-> n, iso |-> iso]
           p == IF seg[s].phase = "done" THEN None ELSE plan
           r == [seg[s] EXCEPT !.pending = p]
<1>1. /\ s \in Seg /\ coord.opened \in Inode /\ Shape(seg[s], wire[s]) /\ seg[s] \in Segment
      /\ seg[s].pending = None /\ seg[s].phase # "off" /\ s # None
  BY AgentAssumption DEF Typed, CoordOK, Coordinator, Shape
<1>2. seg' = [seg EXCEPT ![s] = r]
  BY <1>1 DEF RequestSeal
<1>3. Plan(plan) /\ plan \in [name : AgentName, iso : Inode \cup {NoInode}]
  BY DEF Plan
<1>4. \/ seg[s].phase = "done" /\ p = None
      \/ seg[s].phase # "done" /\ p = plan
  OBVIOUS
<1> HIDE DEF p, plan
<1>5. /\ r \in Segment /\ r.pending = p /\ r.phase = seg[s].phase /\ r.io = seg[s].io
      /\ r.inode = seg[s].inode /\ r.target = seg[s].target /\ r.pos = seg[s].pos
  BY <1>1, <1>3, <1>4 DEF Segment
<1> HIDE DEF r
<1>6. seg[s].phase \in {"born", "greet", "aside", "regreet", "live", "done"}
  BY <1>1, SegmentFields DEF Shape, Draining, Sealed, Closing
<1>7. Shape(r, wire[s])
  <2>1. Kinds(r) = Kinds(seg[s]) /\ Target(r) = Target(seg[s])
    BY <1>1, <1>4, <1>5, <1>6 DEF Kinds, Target, Sealed, Closing
  <2> DEFINE q == seg[s]
             w == wire[s]
  <2>2. Shape(q, w) /\ q.phase \in {"born", "greet", "aside", "regreet", "live", "done"}
    BY <1>1, <1>6
  <2>3. /\ r \in Segment /\ r.pending = p /\ r.phase = q.phase /\ r.io = q.io
        /\ r.inode = q.inode /\ r.target = q.target /\ r.pos = q.pos
    BY <1>5
  <2>4. Kinds(r) = Kinds(q) /\ Target(r) = Target(q)
    BY <2>1
  <2>5. p # None => Plan(p) /\ q.phase # "done"
    BY <1>3, <1>4
  <2>6. q.phase = "done" => p = None
    BY <1>4
  <2> HIDE DEF q, w
  <2>7. /\ r.phase \notin {"seal"} \cup Sealed /\ r.phase \notin Closing
        /\ r.phase # "off" /\ r.phase \notin {"orphan", "seal", "final"}
    BY <2>2, <2>3 DEF Sealed, Closing
  <2>8. Shape(r, w)
    BY <2>2, <2>3, <2>4, <2>5, <2>6, <2>7 DEF Shape
  <2> QED  BY <2>8 DEF w
<1>8. seg' \in [Seg -> Segment] /\ seg'[s] = r /\ \A t \in Seg \ {s} : seg'[t] = seg[t]
  BY <1>1, <1>2, <1>5 DEF Typed, AgentOK
<1> HIDE DEF s
<1>9. /\ coord' \in Coordinator /\ coord'.pc = "wait" /\ coord'.live = s
      /\ coord'.opened = coord.opened /\ coord'.consumed \subseteq coord.consumed \cup ({iso} \cap Inode)
  BY SourceAssumption DEF RequestSeal, Typed, CoordOK, Coordinator, s, NoInode, Inode
<1>10. CoordOK'
  <2>1. \A t \in Seg : t # s => seg'[t].phase \in Sealed \cup {"off"}
    BY <1>8 DEF Typed, CoordOK, s
  <2> QED  BY <1>1, <1>5, <1>8, <1>9, <2>1 DEF CoordOK
<1>11. IsosOK'
  <2>1. \A i \in coord'.consumed : marker[i] # "none"
    BY <1>9 DEF Typed, IsosOK
  <2>2. marker' = marker
    BY DEF sourceVars
  <2>3. /\ isos' \in Seq(Inode) /\ IsInjective(isos')
        /\ \A k \in DOMAIN isos' : marker[isos'[k]] # "none"
    BY ScanType DEF Typed, IsosOK
  <2> QED  BY <2>1, <2>2, <2>3 DEF IsosOK
<1>12. SourceOK' /\ AgentOK' /\ DiskOK'
  BY <1>8, QuietSessions DEF Typed, SourceOK, AgentOK, sourceVars
<1>13. ASSUME NEW t \in Seg PROVE Shape(seg'[t], wire'[t]) /\ Session(wire'[t], handler'[t])
  <2>1. Shape(seg'[t], wire[t])
    BY <1>7, <1>8 DEF Typed
  <2> QED  BY <2>1, QuietSessions
<1> QED  BY <1>10, <1>11, <1>12, <1>13 DEF Typed

\* Steps that change nothing of the segments but to drop an ended one.
LEMMA RoundTyped ==
  ASSUME Typed, Handlers, seg' \in {seg, Reaped}, coord' \in Coordinator,
         coord'.consumed = coord.consumed,
         coord'.live = coord.live \/ (coord'.live = None /\ seg' = Reaped /\ coord'.pc \in {"loop", "open"}
                                      /\ seg[coord.live].phase = "done"),
         coord'.live = coord.live => seg' = seg,
         coord'.pc # "wait", coord.pc # "wait",
         coord'.pc \in {"learn", "grace"} => coord'.live \in Seg /\ coord'.opened \in Inode,
         Scanned(isos, isos') \/ UNCHANGED isos,
         lapsed' \in BOOLEAN, UNCHANGED <<sourceVars, ephemeral, stamp, wire, acked>>
  PROVE  Typed'
<1>1. /\ seg' \in [Seg -> Segment]
      /\ \A s \in Seg : Shape(seg'[s], wire[s])
  BY ReapedType DEF Typed, AgentOK
<1>2. CoordOK'
  <2>1. CASE coord'.live = coord.live
    BY <2>1 DEF Typed, CoordOK
  <2>2. CASE coord'.live # coord.live
    <3>1. \A s \in Seg : seg'[s].phase \in Sealed \cup {"off"}
      <4> SUFFICES ASSUME NEW s \in Seg PROVE seg'[s].phase \in Sealed \cup {"off"}
        OBVIOUS
      <4>1. CASE s = coord.live
        BY <2>2, <4>1, ReapedType, OffFields
      <4>2. CASE s # coord.live
        BY <2>2, <4>2, ReapedType DEF Typed, CoordOK
      <4> QED  BY <4>1, <4>2
    <3> QED  BY <2>2, <3>1 DEF CoordOK
  <2> QED  BY <2>1, <2>2
<1>3. IsosOK'
  BY ScanType DEF Typed, IsosOK, sourceVars
<1>4. SourceOK' /\ AgentOK' /\ DiskOK'
  BY <1>1, QuietSessions DEF Typed, SourceOK, AgentOK, sourceVars
<1> QED  BY <1>1, <1>2, <1>3, <1>4, QuietSessions DEF Typed

\* The coordinator's steps keep everything well formed.
LEMMA CoordTyped ==
  ASSUME Typed, CoordStep, Handlers, lapsed' \in BOOLEAN, UNCHANGED sourceVars
  PROVE  Typed'
<1>1. /\ coord \in Coordinator /\ coord.consumed \subseteq Inode
      /\ cur \in Inode \cup {NoInode} /\ stamp \in 0..MaxStamp
      /\ isos \in Seq(Inode) /\ \A k \in DOMAIN isos : isos[k] \in Inode
  BY DEF Typed, CoordOK, Coordinator, SourceOK, AgentOK, IsosOK
<1>2. CASE Poll
  <2> DEFINE dead == Reaped # seg
             last == IF dead THEN NoInode ELSE coord.last
             live == IF dead THEN None ELSE coord.live
             new  == cur \notin {NoInode, last}
             pc   == IF new THEN "open" ELSE "loop"
             found == IF new THEN cur ELSE NoInode
  <2>1. /\ coord' = [coord EXCEPT !.live = live, !.last = last, !.pc = pc, !.found = found]
        /\ seg' = Reaped /\ coord.pc = "loop"
        /\ UNCHANGED <<isos, ephemeral, stamp, crashes, wire, acked>>
    BY <1>2 DEF Poll
  <2>2. /\ last \in Inode \cup {NoInode} /\ pc \in {"loop", "open"}
        /\ found \in Inode \cup {NoInode} /\ live \in Seg \cup {None}
        /\ Reaped = seg => live = coord.live
        /\ Reaped # seg => live = None
    BY <1>1 DEF Coordinator
  <2> HIDE DEF dead, last, live, new, pc, found
  <2>3. /\ coord' \in Coordinator /\ coord'.consumed = coord.consumed /\ coord'.pc = pc
        /\ coord'.live = live
    BY <1>1, <2>1, <2>2 DEF Coordinator
  <2>4. Reaped # seg => seg[coord.live].phase = "done" /\ coord.live # None
    BY DEF Reaped
  <2>5. coord'.live = coord.live => seg' = seg
    BY <2>1, <2>2, <2>3, <2>4
  <2> QED  BY <2>1, <2>2, <2>3, <2>4, <2>5, RoundTyped
<1>3. CASE OpenKnown
  <2>1. /\ coord' \in Coordinator /\ coord'.consumed = coord.consumed /\ coord'.pc = "loop"
        /\ coord'.live = coord.live /\ coord.pc = "open"
    BY <1>1, <1>3 DEF OpenKnown, Coordinator
  <2>2. UNCHANGED <<seg, isos, ephemeral, stamp, wire, acked>>
    BY <1>3 DEF OpenKnown
  <2> QED  BY <2>1, <2>2, RoundTyped
<1>4. CASE OpenFirst
  <2>1. cur \in Inode
    BY <1>1, <1>4 DEF OpenFirst
  <2> QED  BY <1>4, <2>1, StartTyped DEF OpenFirst
<1>5. CASE OpenRotated
  <2>1. /\ coord' \in Coordinator /\ coord'.consumed = coord.consumed /\ coord'.pc = "learn"
        /\ coord'.live = coord.live /\ coord.pc = "open" /\ coord.live \in Seg
        /\ coord'.opened \in Inode
    BY <1>1, <1>5 DEF OpenRotated, Coordinator
  <2> QED  BY <1>5, <2>1, RoundTyped DEF OpenRotated
<1>6. CASE OpenFailed
  BY <1>6, StartOverTyped DEF OpenFailed
<1>7. CASE LearnIso
  <2>1. PICK k \in Unconsumed(isos') : RequestSeal(SealedName(isos'[k]), isos'[k])
    BY <1>7 DEF LearnIso
  <2>2. /\ Scanned(isos, isos') /\ coord.pc \in {"learn", "grace"}
        /\ UNCHANGED <<ephemeral, stamp, crashes, wire, acked>>
    BY <1>7 DEF LearnIso
  <2>3. k \in DOMAIN isos' /\ isos'[k] \in Inode /\ marker[isos'[k]] # "none"
    BY <2>2, ScanType DEF Unconsumed
  <2>4. SealedName(isos'[k]) \in AgentName /\ isos'[k] # NoInode
    BY <2>3, NamesType DEF Inode, NoInode
  <2> QED  BY <1>1, <2>1, <2>2, <2>3, <2>4, SealTyped
<1>8. CASE NoMarkerYet
  <2>1. /\ coord' \in Coordinator /\ coord'.consumed = coord.consumed /\ coord'.pc = "grace"
        /\ coord'.live = coord.live /\ coord.pc = "learn" /\ coord'.opened = coord.opened
    BY <1>1, <1>8 DEF NoMarkerYet, Coordinator
  <2>2. coord'.live \in Seg /\ coord'.opened \in Inode
    BY <2>1 DEF Typed, CoordOK
  <2> QED  BY <1>8, <2>1, <2>2, RoundTyped DEF NoMarkerYet
<1>9. CASE GraceExpired
  <2>1. OrphanNow \in OrphanNames /\ OrphanNow \in AgentName /\ stamp' \in 0..MaxStamp
    BY <1>9, OrphanType, NamesType DEF GraceExpired, Typed
  <2> QED  BY <1>9, <2>1, SealTyped DEF GraceExpired, NoInode, Inode
<1>10. CASE SealWaited
  <2>1. coord.opened \in Inode /\ seg[coord.live].phase \in Sealed \cup {"done"}
    BY <1>10 DEF SealWaited, Typed, CoordOK
  <2> QED  BY <1>10, <2>1, StartTyped DEF SealWaited
<1> QED  BY <1>2, <1>3, <1>4, <1>5, <1>6, <1>7, <1>8, <1>9, <1>10 DEF CoordStep

-----------------------------------------------------------------------------
(* The steps of the server *)

\* The same operators, in the module of the theorems and in the whole.
LEMMA SameType == (S!TypeOK <=> Server!TypeOK) /\ (S!TypeOK' <=> Server!TypeOK')
BY DEF S!TypeOK, S!Handler, S!WellFormed, S!Closed, S!NoFrame, S!Frame,
       Server!TypeOK, Server!Handler, Server!WellFormed, Server!Closed, Server!NoFrame,
       Server!Frame

\* Server.tla's actions do not depend on the constants Logline.tla gives it.
LEMMA SameData ==
  ASSUME NEW s \in Seg, NEW t, NEW off, NEW data
  PROVE  /\ S!Hello(s, t) <=> Server!Hello(s, t)
         /\ S!BeginOpen(s, off, data) <=> Server!BeginOpen(s, off, data)
         /\ S!BeginCreate(s, off, data) <=> Server!BeginCreate(s, off, data)
         /\ S!BeginReject(s, off) <=> Server!BeginReject(s, off)
         /\ S!Apply(s) <=> Server!Apply(s)
         /\ S!ApplyReject(s) <=> Server!ApplyReject(s)
         /\ S!Raise(s) <=> Server!Raise(s)
BY DEF S!Hello, S!BeginOpen, S!BeginCreate, S!BeginReject, S!Apply, S!ApplyReject, S!Raise,
       S!Acceptable, S!Closed, S!NoFrame, S!ReportedLength, S!Exists, S!files, S!Unused, S!InUse,
       S!Linked, S!Held, S!Lately, S!WriteAt,
       Server!Hello, Server!BeginOpen, Server!BeginCreate, Server!BeginReject, Server!Apply,
       Server!ApplyReject, Server!Raise, Server!Acceptable, Server!Closed, Server!NoFrame,
       Server!ReportedLength, Server!Exists, Server!files, Server!Unused, Server!InUse,
       Server!Linked, Server!Held, Server!Lately, Server!WriteAt

\* Nor do its renames ...
LEMMA SameRename ==
  ASSUME NEW s \in Seg, NEW from, NEW to
  PROVE  /\ S!Rename(s, from, to) <=> Server!Rename(s, from, to)
         /\ S!RenameNoop(s, from, to) <=> Server!RenameNoop(s, from, to)
         /\ S!RenameReject(s, from, to) <=> Server!RenameReject(s, from, to)
BY DEF S!Rename, S!RenameNoop, S!RenameReject, S!Raise, S!Exists, S!AfterRename, S!FdFollows,
       S!Closed, S!NoFrame, S!Lately, S!files,
       Server!Rename, Server!RenameNoop, Server!RenameReject, Server!Raise, Server!Exists,
       Server!AfterRename, Server!FdFollows, Server!Closed, Server!NoFrame, Server!Lately,
       Server!files

\* ... and power losses.
LEMMA SamePowerLoss == S!PowerLoss <=> Server!PowerLoss
BY DEF S!PowerLoss, S!Closed, S!NoFrame, Server!PowerLoss, Server!Closed, Server!NoFrame

\* What a handler is left with by each of its steps.
LEMMA ServeTyped ==
  ASSUME Typed, NEW s \in Seg, NEW w \in Message, wire' = [wire EXCEPT ![s] = w],
         Server!TypeOK', \A f \in File : Len(content'[f]) <= MaxSize,
         \A t \in Seg \ {s} : handler'[t] = handler[t],
         Shape(seg[s], w), Session(w, handler'[s]),
         UNCHANGED <<sourceVars, seg, coord, isos, ephemeral, stamp, acked, lapsed>>
  PROVE  Typed'
<1>1. SourceOK' /\ CoordOK' /\ IsosOK' /\ DiskOK'
  BY DEF Typed, SourceOK, CoordOK, IsosOK, DiskOK, sourceVars
<1>2. wire' \in [Seg -> Message] /\ wire'[s] = w /\ \A t \in Seg \ {s} : wire'[t] = wire[t]
  BY DEF Typed, AgentOK
<1>3. AgentOK'
  BY <1>2 DEF Typed, AgentOK
<1>4. ASSUME NEW t \in Seg PROVE Shape(seg'[t], wire'[t]) /\ Session(wire'[t], handler'[t])
  BY <1>2 DEF Typed
<1> QED  BY <1>1, <1>3, <1>4 DEF Typed

\* A reply leaves the segment well formed, as does a connection that breaks.
LEMMA ReplyShape ==
  ASSUME NEW r, NEW w, NEW v \in Message, Shape(r, w),
         \/ v = OkReply /\ w.kind \in {"data", "rename"}
         \/ v = Broken /\ w.kind \notin {"none"}
         \/ v.kind = "greeting" /\ w.kind = "hello"
  PROVE  Shape(r, v)
BY Built DEF Shape, Kinds, Draining

\* A greeting, a data frame and a rename keep the types, and so does a lost connection.
LEMMA AcceptTyped ==
  ASSUME Typed, NEW s \in Seg, Accept(s), Serve(s)
  PROVE  Typed'
<1> DEFINE t == wire[s].target
           g == Greeting(Server!ReportedLength(t), Server!ReportedPrefix(t, wire[s].n))
<1>1. /\ Shape(seg[s], wire[s]) /\ wire[s].kind = "hello" /\ wire[s] \in Message
      /\ Server!TypeOK /\ \A f \in File : Len(content[f]) <= MaxSize
  BY DEF Accept, Typed, Shape, DiskOK
<1>2. t \in AgentName /\ wire[s].n \in 0..MaxSize
  BY <1>1, ByKind DEF Hellos
<1>3. Server!Hello(s, t) /\ wire' = [wire EXCEPT ![s] = g]
  BY DEF Accept, Reply
<1>4. Server!ReportedLength(t) \in 0..MaxSize
  BY <1>1, <1>2, SourceAssumption DEF Server!ReportedLength, Server!Exists, Server!TypeOK
<1>5. Server!ReportedPrefix(t, wire[s].n) \in Seq(Byte \cup {Hole})
  <2>1. CASE Server!Exists(t)
    <3>1. content[dir[t]] \in Seq(Byte \cup {Hole})
      BY <1>1, <1>2, <2>1 DEF Server!Exists, Server!TypeOK
    <3> QED  BY <1>2, <1>4, <2>1, <3>1 DEF Server!ReportedPrefix, Server!ReportedLength
  <2>2. CASE ~Server!Exists(t)
    BY <2>2 DEF Server!ReportedPrefix
  <2> QED  BY <2>1, <2>2
<1>6. g \in Message /\ g.kind = "greeting"
  BY <1>4, <1>5, Built
<1> HIDE DEF g
<1>7. Server!TypeOK'
  <2>1. S!Hello(s, t)
    BY <1>3, SameData
  <2> QED  BY <1>1, <1>2, <2>1, SameType, ServerConstants, S!HelloType
<1>8. Shape(seg[s], g)
  BY <1>1, <1>6, ReplyShape
<1>9. /\ content' = content /\ \A c \in Seg \ {s} : handler'[c] = handler[c]
      /\ handler'[s].st = "serving" /\ handler'[s].gone = FALSE
      /\ handler'[s].pos = Server!ReportedLength(t)
  <2> DEFINE c == Server!Closed
             h == [c EXCEPT !.st = "serving", !.path = t, !.fd = dir[t],
                            !.pos = Server!ReportedLength(t)]
  <2>1. handler' = [handler EXCEPT ![s] = h] /\ content' = content
    BY <1>3 DEF Server!Hello, Server!files
  <2>2. handler'[s] = h /\ \A d \in Seg \ {s} : handler'[d] = handler[d]
    BY <1>1, <2>1 DEF Server!TypeOK
  <2>3. c \in Server!Handler /\ c.gone = FALSE
    BY ClosedType
  <2> HIDE DEF c
  <2>4. h.st = "serving" /\ h.gone = FALSE /\ h.pos = Server!ReportedLength(t)
    BY <2>3 DEF Server!Handler
  <2> QED  BY <2>1, <2>2, <2>4
<1>10. Session(g, handler'[s])
  BY <1>4, <1>6, <1>9 DEF Session
<1> QED  BY <1>1, <1>3, <1>6, <1>7, <1>8, <1>9, <1>10, ServeTyped DEF Serve

\* A handler that raises.
LEMMA RaiseTyped ==
  ASSUME Typed, NEW s \in Seg, Server!Raise(s), Reply(s, Broken), Serve(s), wire[s].kind # "none"
  PROVE  Typed'
<1>1. Server!TypeOK /\ Shape(seg[s], wire[s]) /\ \A f \in File : Len(content[f]) <= MaxSize
  BY DEF Typed, DiskOK
<1>2. S!Raise(s)
  BY SameData
<1>3. Server!TypeOK'
  BY <1>1, <1>2, SameType, ServerConstants, S!RaiseType
<1>4. /\ handler'[s] = Server!Closed /\ content' = content
      /\ \A c \in Seg \ {s} : handler'[c] = handler[c]
  BY <1>1 DEF Server!Raise, Server!files, Server!TypeOK
<1>5. Session(Broken, handler'[s])
  BY <1>4, ClosedType, Built, SourceAssumption DEF Session
<1>6. Shape(seg[s], Broken)
  BY <1>1, Built, ReplyShape
<1> QED  BY <1>1, <1>3, <1>4, <1>5, <1>6, Built, ServeTyped DEF Serve, Reply

\* A data frame is taken.
LEMMA TakeDataTyped ==
  ASSUME Typed, NEW s \in Seg, TakeData(s), Serve(s)
  PROVE  Typed'
<1> DEFINE off  == wire[s].off
           data == wire[s].data
<1>1. /\ Shape(seg[s], wire[s]) /\ wire[s].kind = "data" /\ wire[s] \in Message
      /\ Server!TypeOK /\ \A f \in File : Len(content[f]) <= MaxSize
      /\ Session(wire[s], handler[s])
  BY DEF TakeData, Typed, Shape, DiskOK
<1>2. off \in 0..MaxSize /\ data \in Payload \cup {Garbled}
  BY <1>1, ByKind DEF DataReqs
<1>3. CASE /\ Server!BeginOpen(s, off, data) \/ Server!BeginCreate(s, off, data)
           /\ UNCHANGED wire
  <2>1. S!BeginOpen(s, off, data) \/ S!BeginCreate(s, off, data)
    BY <1>3, SameData
  <2>2. Server!TypeOK'
    BY <1>1, <1>2, <2>1, SameType, ServerConstants, S!DataType
  <2>3. /\ handler'[s].st = "inflating" /\ handler'[s].frame = [off |-> off, data |-> data]
        /\ handler'[s].gone = handler[s].gone /\ handler'[s].pos \in {handler[s].pos, 0}
        /\ \A c \in Seg \ {s} : handler'[c] = handler[c]
    <3> HIDE DEF off, data
    <3>1. handler[s] \in Server!Handler
      BY <1>1 DEF Server!TypeOK
    <3>2. CASE Server!BeginOpen(s, off, data)
      BY <1>1, <3>1, <3>2 DEF Server!BeginOpen, Server!TypeOK, Server!Handler
    <3>3. CASE Server!BeginCreate(s, off, data)
      <4>1. PICK f : handler' = [handler EXCEPT ![s].st = "inflating", ![s].fd = f, ![s].pos = 0,
                                                ![s].frame = [off |-> off, data |-> data]]
        BY <3>3 DEF Server!BeginCreate
      <4>2. handler = [c \in Seg |-> handler[c]]
        BY <1>1 DEF Server!TypeOK
      <4>3. /\ handler'[s] = [handler[s] EXCEPT !.st = "inflating", !.fd = f, !.pos = 0,
                                                !.frame = [off |-> off, data |-> data]]
            /\ \A c \in Seg \ {s} : handler'[c] = handler[c]
        BY <4>1, <4>2
      <4> QED  BY <3>1, <4>3, SMTT(30) DEF Server!Handler
    <3> QED  BY <1>3, <3>2, <3>3
  <2>4. ASSUME NEW f \in File PROVE Len(content'[f]) <= MaxSize
    <3> HIDE DEF off, data
    <3>1. CASE Server!BeginOpen(s, off, data)
      BY <1>1, <3>1 DEF Server!BeginOpen, Server!files
    <3>2. CASE Server!BeginCreate(s, off, data)
      <4>1. PICK g : content' = [content EXCEPT ![g] = <<>>]
        BY <3>2 DEF Server!BeginCreate
      <4> QED  BY <1>1, <4>1, SourceAssumption DEF Server!TypeOK
    <3> QED  BY <1>3, <3>1, <3>2
  <2>5. Session(wire[s], handler'[s])
    BY <1>1, <2>3, SourceAssumption DEF Session
  <2>6. wire' = [wire EXCEPT ![s] = wire[s]]
    BY <1>3 DEF Typed, AgentOK
  <2> QED  BY <1>1, <2>2, <2>3, <2>4, <2>5, <2>6, ServeTyped DEF Serve
<1>4. CASE Server!BeginReject(s, off) /\ Reply(s, Broken)
  BY <1>1, <1>4, RaiseTyped DEF Server!BeginReject
<1> QED  BY <1>3, <1>4 DEF TakeData

\* The payload of the frame that is applied fits.
LEMMA FinishDataTyped ==
  ASSUME Typed, NEW s \in Seg, FinishData(s), Serve(s)
  PROVE  Typed'
<1>1. /\ Shape(seg[s], wire[s]) /\ wire[s] \in Message
      /\ Server!TypeOK /\ \A f \in File : Len(content[f]) <= MaxSize
      /\ Session(wire[s], handler[s]) /\ handler[s] \in Server!Handler
      /\ handler[s].st = "inflating"
  BY DEF FinishData, Typed, Shape, DiskOK, Server!TypeOK, Server!Apply, Server!ApplyReject
<1>2. /\ wire[s].kind = "data" /\ handler[s].frame = [off |-> wire[s].off, data |-> wire[s].data]
      /\ ~handler[s].gone
  BY <1>1 DEF Session
<1>3. CASE Server!ApplyReject(s) /\ Reply(s, Broken)
  BY <1>2, <1>3, RaiseTyped DEF Server!ApplyReject
<1>4. CASE Server!Apply(s) /\ Reply(s, OkReply)
  <2> DEFINE h == handler[s]
             data == h.frame.data
             next == [h EXCEPT !.st = "serving", !.frame = Server!NoFrame, !.pos = @ + Len(data)]
  <2>1. S!Apply(s)
    BY <1>4, SameData
  <2>2. Server!TypeOK'
    BY <1>1, <2>1, SameType, ServerConstants, S!ApplyType
  <2>3. data = wire[s].data /\ h.frame.off = wire[s].off /\ h.pos = wire[s].off /\ h.fd \in File
    <3>1. handler[s].frame.off = handler[s].pos
      BY <1>4 DEF Server!Apply, Server!Acceptable
    <3>2. h.fd \in File
      BY <1>1 DEF Server!TypeOK, Server!WellFormed, Server!Handler
    <3> QED  BY <1>2, <3>1, <3>2
  <2>4. wire[s].off \in 0..MaxSize /\ wire[s].off < seg[s].pos /\ seg[s].pos \in 0..MaxSize
        /\ wire[s].data = Bytes(seg[s].inode, wire[s].off, seg[s].pos) /\ seg[s].inode \in Inode
    <3>1. wire[s] \in DataReqs
      BY <1>1, <1>2, ByKind
    <3>2. wire[s].off \in 0..MaxSize
      BY <3>1 DEF DataReqs
    <3>3. seg[s] \in Segment /\ wire[s].kind \in Kinds(seg[s])
      BY <1>1 DEF Shape
    <3>4. seg[s].phase \in Draining
      BY <1>2, <3>3 DEF Kinds
    <3>5. /\ wire[s].off < seg[s].pos /\ wire[s].data = Bytes(seg[s].inode, wire[s].off, seg[s].pos)
          /\ seg[s].inode \in Inode
      BY <1>1, <1>2, <3>4 DEF Shape, Draining
    <3> QED  BY <3>2, <3>3, <3>5, SegmentFields
  <2>5. data \in Seq(Byte) /\ Len(data) = seg[s].pos - wire[s].off
    <3>1. wire[s].off <= seg[s].pos
      BY <2>4
    <3>2. /\ Bytes(seg[s].inode, wire[s].off, seg[s].pos) \in Seq(Byte)
          /\ Len(Bytes(seg[s].inode, wire[s].off, seg[s].pos)) = seg[s].pos - wire[s].off
      BY <2>4, <3>1, BytesType
    <3> QED  BY <2>3, <2>4, <3>2
  <2>6. ASSUME NEW f \in File PROVE Len(content'[f]) <= MaxSize
    <3>1. content' = [content EXCEPT ![h.fd] = Server!WriteAt(@, h.pos, data)]
      BY <1>4 DEF Server!Apply
    <3>2. Len(Server!WriteAt(content[h.fd], h.pos, data)) <= MaxSize
      <4> DEFINE end == h.pos + Len(data)
                 top == IF end > Len(content[h.fd]) THEN end ELSE Len(content[h.fd])
      <4>1. end \in 0..MaxSize
        BY <2>3, <2>4, <2>5
      <4>2. Len(content[h.fd]) \in 0..MaxSize
        BY <1>1, <2>3, SourceAssumption DEF Server!TypeOK
      <4>3. top \in 0..MaxSize
        BY <4>1, <4>2
      <4>4. Len(Server!WriteAt(content[h.fd], h.pos, data)) = top
        BY <4>3 DEF Server!WriteAt
      <4> QED  BY <4>3, <4>4, SourceAssumption
    <3> QED  BY <1>1, <2>3, <3>1, <3>2 DEF Server!TypeOK
  <2>7. handler' = [handler EXCEPT ![s] = next] /\ wire' = [wire EXCEPT ![s] = OkReply]
    BY <1>2, <1>4 DEF Server!Apply, Reply
  <2>8. next.pos \in 0..MaxSize /\ next.st = "serving" /\ ~next.gone
    <3> DEFINE p == h.pos + Len(data)
    <3>1. p \in 0..MaxSize
      BY <2>3, <2>4, <2>5
    <3>2. next = [h EXCEPT !.st = "serving", !.frame = Server!NoFrame, !.pos = p]
      BY <1>1 DEF Server!Handler
    <3> HIDE DEF p
    <3> QED  BY <1>1, <1>2, <3>1, <3>2 DEF Server!Handler
  <2> HIDE DEF next
  <2>9. handler'[s] = next /\ \A c \in Seg \ {s} : handler'[c] = handler[c]
    BY <1>1, <2>7 DEF Server!TypeOK
  <2>10. Session(OkReply, handler'[s])
    BY <2>8, <2>9, Built DEF Session
  <2>11. Shape(seg[s], OkReply)
    BY <1>1, <1>2, Built, ReplyShape
  <2> QED  BY <2>2, <2>6, <2>7, <2>9, <2>10, <2>11, Built, ServeTyped DEF Serve
<1> QED  BY <1>3, <1>4 DEF FinishData

\* A rename is done.
LEMMA TakeRenameTyped ==
  ASSUME Typed, NEW s \in Seg, TakeRename(s), Serve(s)
  PROVE  Typed'
<1> DEFINE from == wire[s].from
           to   == wire[s].to
<1>1. /\ Shape(seg[s], wire[s]) /\ wire[s].kind = "rename" /\ wire[s] \in Message
      /\ Server!TypeOK /\ \A f \in File : Len(content[f]) <= MaxSize
      /\ Session(wire[s], handler[s]) /\ handler[s] \in Server!Handler
  BY DEF TakeRename, Typed, Shape, DiskOK, Server!TypeOK
<1>2. from \in AgentName /\ to \in AgentName
  BY <1>1, ByKind DEF Renames
<1>3. CASE Server!RenameReject(s, from, to) /\ Reply(s, Broken)
  BY <1>1, <1>3, RaiseTyped DEF Server!RenameReject
<1>4. CASE /\ Server!Rename(s, from, to) \/ Server!RenameNoop(s, from, to)
           /\ Reply(s, OkReply)
  <2>1. S!Rename(s, from, to) \/ S!RenameNoop(s, from, to)
    BY <1>4, SameRename
  <2>2. Server!TypeOK'
    BY <1>1, <1>2, <2>1, SameType, ServerConstants, S!RenameType
  <2>3. ~handler[s].gone /\ handler[s].pos \in 0..MaxSize
    BY <1>1 DEF Session
  <2>4. content' = content /\ Server!AfterRename(s, from, to) /\ handler[s].st = "serving"
    BY <1>4 DEF Server!Rename, Server!RenameNoop
  <2> HIDE DEF to, from
  <2>5. /\ handler'[s].st = "serving" /\ ~handler'[s].gone /\ handler'[s].pos \in 0..MaxSize
        /\ \A c \in Seg \ {s} : handler'[c] = handler[c]
    BY <1>1, <2>3, <2>4 DEF Server!AfterRename, Server!TypeOK, Server!Handler
  <2>6. Session(OkReply, handler'[s])
    BY <2>5, Built DEF Session
  <2>7. Shape(seg[s], OkReply)
    BY <1>1, Built, ReplyShape
  <2> QED  BY <1>1, <1>4, <2>2, <2>4, <2>5, <2>6, <2>7, Built, ServeTyped DEF Serve, Reply
<1> QED  BY <1>3, <1>4 DEF TakeRename

-----------------------------------------------------------------------------
(* The steps of everything else *)

\* A connection is lost.
LEMMA DropTyped ==
  ASSUME Typed, Drop
  PROVE  Typed'
<1>1. PICK s \in Seg : /\ wire[s] \notin {Unconnected, Broken}
                       /\ Reply(s, Broken)
                       /\ handler' = [handler EXCEPT ![s] = Server!Closed]
  BY DEF Drop
<1>2. /\ Server!TypeOK /\ \A f \in File : Len(content[f]) <= MaxSize
      /\ Shape(seg[s], wire[s]) /\ wire[s] \in Message
  BY DEF Typed, DiskOK, Shape
<1>3. UNCHANGED <<sourceVars, seg, coord, isos, ephemeral, stamp, acked, dir, content, synced,
                  fresh, lapsed>>
  BY DEF Drop
<1>4. Server!TypeOK'
  BY <1>1, <1>2, <1>3, ClosedType DEF Server!TypeOK, Server!WellFormed
<1>5. /\ handler'[s] = Server!Closed
      /\ \A c \in Seg \ {s} : handler'[c] = handler[c]
  BY <1>1, <1>2 DEF Server!TypeOK
<1>6. Session(Broken, handler'[s])
  BY <1>5, ClosedType, Built, SourceAssumption DEF Session
<1>7. Shape(seg[s], Broken)
  BY <1>1, <1>2, Built, ByKind, ReplyShape
<1> QED  BY <1>1, <1>2, <1>3, <1>4, <1>5, <1>6, <1>7, Built, ServeTyped DEF Reply

\* Files only get shorter when the server's power fails.
LEMMA OutageTyped ==
  ASSUME Typed, Outage
  PROVE  Typed'
<1>1. /\ Server!PowerLoss
      /\ wire' = [s \in Seg |-> IF wire[s] = Unconnected THEN Unconnected ELSE Broken]
      /\ UNCHANGED <<sourceVars, seg, coord, isos, ephemeral, stamp, acked, lapsed>>
  BY DEF Outage
<1>2. Server!TypeOK /\ \A f \in File : Len(content[f]) <= MaxSize
  BY DEF Typed, DiskOK
<1>3. Server!TypeOK'
  BY <1>1, <1>2, SamePowerLoss, SameType, ServerConstants, S!PowerLossType
<1>4. \A f \in File : Len(content'[f]) <= MaxSize
  <2> DEFINE linked == {f \in File : \E n \in AgentName : dir'[n] = f}
  <2>1. PICK kept \in [linked -> 0..MaxSize] :
          content' = [f \in File |-> IF f \in DOMAIN kept THEN SubSeq(content[f], 1, kept[f])
                                     ELSE <<>>]
    BY <1>1 DEF Server!PowerLoss
  <2> HIDE DEF linked
  <2> SUFFICES ASSUME NEW f \in File PROVE Len(content'[f]) <= MaxSize
    OBVIOUS
  <2>2. CASE f \in linked
    <3>1. kept[f] \in 0..MaxSize /\ content'[f] = SubSeq(content[f], 1, kept[f])
      BY <2>1, <2>2
    <3>2. content[f] \in Seq(Byte \cup {Hole})
      BY <1>2 DEF Server!TypeOK
    <3> QED  BY <3>1, <3>2, SourceAssumption
  <2>3. CASE f \notin linked
    BY <2>1, <2>3, SourceAssumption
  <2> QED  BY <2>2, <2>3
<1>5. SourceOK' /\ CoordOK' /\ IsosOK' /\ DiskOK' /\ AgentOK'
  BY <1>1, <1>3, <1>4, Built DEF Typed, SourceOK, CoordOK, IsosOK, DiskOK, AgentOK, sourceVars
<1>6. ASSUME NEW s \in Seg PROVE Shape(seg'[s], wire'[s]) /\ Session(wire'[s], handler'[s])
  <2>1. Shape(seg[s], wire[s]) /\ wire[s] \in Message
    BY DEF Typed, Shape
  <2>2. \/ wire'[s] = wire[s] /\ wire[s] = Unconnected
        \/ wire'[s] = Broken /\ wire[s].kind # "none"
    BY <1>1, <2>1, ByKind
  <2>3. Shape(seg[s], wire'[s])
    BY <2>1, <2>2, Built, ReplyShape
  <2>4. handler'[s] = Server!Closed
    BY <1>1 DEF Server!PowerLoss
  <2>5. Session(wire'[s], handler'[s])
    BY <2>2, <2>4, ClosedType, Built, SourceAssumption DEF Session
  <2> QED  BY <1>1, <2>3, <2>5
<1> QED  BY <1>5, <1>6 DEF Typed

\* Markers only move on.
LEMMA SourceTyped ==
  ASSUME Typed, SourceStep
  PROVE  Typed'
<1>1. UNCHANGED <<seg, coord, isos, ephemeral, stamp, wire, acked, dir, content, synced, fresh,
                  handler, lapsed>>
  BY DEF SourceStep, agentVars, serverVars
<1>2. /\ SourceOK'
      /\ \A i \in Inode : marker[i] # "none" => marker'[i] # "none"
  <2>1. CASE MoveAside
    BY <2>1 DEF MoveAside, Typed, SourceOK
  <2>2. CASE CreateNew
    <3>1. made' = made + 1 /\ made < MaxInode /\ cur' = made' /\ UNCHANGED marker
      BY <2>2 DEF CreateNew
    <3>2. PICK b \in Birth : size' = [size EXCEPT ![made'] = b]
      BY <2>2 DEF CreateNew
    <3>3. made' \in Inode /\ b \in 0..MaxSize
      BY <3>1, <3>2, SourceAssumption DEF Inode, Typed, SourceOK
    <3> QED  BY <3>1, <3>2, <3>3, SourceAssumption DEF Typed, SourceOK, Inode
  <2>3. ASSUME NEW i \in Inode, Grow(i) \/ WaitingMarker(i) \/ DoneMarker(i)
        PROVE  SourceOK' /\ \A j \in Inode : marker[j] # "none" => marker'[j] # "none"
    BY <2>3, SourceAssumption DEF Grow, WaitingMarker, DoneMarker, Typed, SourceOK
  <2> QED  BY <2>1, <2>2, <2>3 DEF SourceStep, SourceNext
<1>3. CoordOK' /\ DiskOK' /\ AgentOK'
  BY <1>1 DEF Typed, CoordOK, DiskOK, AgentOK, Server!TypeOK, Server!WellFormed
<1>4. IsosOK'
  <2>1. \A k \in DOMAIN isos : isos[k] \in Inode
    BY DEF Typed, IsosOK
  <2>2. coord.consumed \subseteq Inode
    BY DEF Typed, CoordOK, Coordinator
  <2> QED  BY <1>1, <1>2, <2>1, <2>2 DEF Typed, IsosOK
<1> QED  BY <1>1, <1>2, <1>3, <1>4 DEF Typed

\* The agent's steps.
LEMMA AgentTyped ==
  ASSUME Typed, (\E s \in Seg : Run(s)) \/ Coordinate \/ Agent(Scan) \/ Agent(Killed)
  PROVE  Typed'
<1>1. Handlers /\ lapsed' \in BOOLEAN /\ UNCHANGED sourceVars
  BY DEF Run, Coordinate, Agent, Handlers, Typed, AgentOK
<1>2. ASSUME NEW s \in Seg, Run(s) PROVE Typed'
  BY <1>1, <1>2, SegmentTyped DEF Run, Agent
<1>3. CASE Coordinate
  BY <1>1, <1>3, CoordTyped DEF Coordinate, Agent
<1>4. CASE Agent(Scan)
  <2>1. Scanned(isos, isos') /\ UNCHANGED <<seg, coord, ephemeral, stamp, wire, acked>>
    BY <1>4 DEF Agent, Scan
  <2>2. IsosOK'
    BY <1>1, <2>1, ScanType DEF Typed, IsosOK, sourceVars
  <2>3. SourceOK' /\ CoordOK' /\ AgentOK'
    BY <1>1, <2>1 DEF Typed, SourceOK, CoordOK, AgentOK, sourceVars
  <2> QED  BY <1>1, <2>1, <2>2, <2>3, QuietSessions DEF Typed
<1>5. CASE Agent(Killed)
  BY <1>1, <1>5, StartOverTyped DEF Agent, Killed
<1> QED  BY <1>2, <1>3, <1>4, <1>5

\* Every step keeps everything well formed.
LEMMA NextTyped == Typed /\ [Next]_vars => Typed'
<1> SUFFICES ASSUME Typed, [Next]_vars PROVE Typed'
  OBVIOUS
<1>1. CASE UNCHANGED vars
  BY <1>1 DEF vars, sourceVars, agentVars, serverVars, Typed, SourceOK, AgentOK, CoordOK, IsosOK,
              DiskOK, Server!TypeOK, Server!WellFormed
<1>2. ASSUME NEW s \in Seg, Serve(s) PROVE Typed'
  BY <1>2, AcceptTyped, TakeDataTyped, FinishDataTyped, TakeRenameTyped DEF Serve
<1> QED  BY <1>1, <1>2, SourceTyped, AgentTyped, DropTyped, OutageTyped DEF Next

\* Everything starts well formed: nothing is connected and nothing on disk.
LEMMA InitTyped == Init => Typed
<1> SUFFICES ASSUME Init PROVE Typed
  OBVIOUS
<1>1. SourceOK
  BY SourceAssumption DEF Init, SourceInit, SourceOK
<1>5. AgentOK
  <2>1. ephemeral \in BOOLEAN /\ lapsed \in BOOLEAN
    BY AgentAssumption DEF Init, AgentInit
  <2> QED  BY <2>1, SourceAssumption, AgentAssumption, OffFields, Built DEF Init, AgentInit, AgentOK
<1>2. CoordOK /\ IsosOK
  BY OffFields, AgentAssumption
     DEF Init, AgentInit, CoordOK, Coordinator, NoCoord, IsosOK, IsInjective
<1>3. DiskOK
  <2>1. S!Init
    BY DEF Init, S!Init, S!Closed, S!NoFrame, Server!Init, Server!Closed, Server!NoFrame
  <2>2. Server!TypeOK
    BY <2>1, SameType, ServerConstants, S!InitType
  <2> QED  BY <2>2, SourceAssumption DEF Init, Server!Init, DiskOK
<1>4. ASSUME NEW s \in Seg PROVE Shape(seg[s], wire[s]) /\ Session(wire[s], handler[s])
  BY OffShape, ClosedType, Built, SourceAssumption DEF Init, AgentInit, Server!Init, Session
<1> QED  BY <1>1, <1>2, <1>3, <1>4, <1>5 DEF Typed

\* Whatever the source, the network and the server's machine do, every task,
\* connection and handler is in a state the code provides for, and agent and
\* server are at matching points of their conversation (coordinator.py's Segment
\* and PathCoordinator, serve_client).
THEOREM TypedHolds == Spec => []Typed
<1>1. Init => Typed
  BY InitTyped
<1>2. Typed /\ [Next]_vars => Typed'
  BY NextTyped
<1> QED  BY <1>1, <1>2, PTL DEF Spec

\* The types of the variables, for any number of segments, inodes and bytes,
\* with crashes, dropped connections and power losses.
THEOREM TypeCorrect == Spec => []TypeOK
<1>1. Typed => TypeOK
  BY DEF Typed, SourceOK, AgentOK, CoordOK, IsosOK, DiskOK, TypeOK, ToSet
<1> QED  BY <1>1, TypedHolds, PTL

=============================================================================
