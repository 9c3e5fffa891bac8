------------------------------ MODULE Logline -------------------------------
(* Logline as a whole, for one tailed path: the source machine, the agent and *)
(* the server.  A connection of the agent is served by the handler of the     *)
(* same index; when the agent closes it, the handler goes with it.            *)
EXTENDS Agent

CONSTANTS File,       \* the inodes of the server's file system (bound)
          Pace,       \* when the path may rotate: "followed" once the agent is shipping the
                      \* current inode, "any" at any time
          MaxDrop,    \* bound: how many times the network or the server fails ...
          MaxOutage,  \* ... and how many of these are power losses of the server
          Garbled, Hole

VARIABLES dir, content, synced, fresh, handler,
          lapsed,     \* (history) the agent has forgotten, starting over, an iso_dt it
                      \* had consumed and whose marker was still waiting
          drops,      \* failures of the network and the server so far
          outages     \* those that were power losses

serverVars == <<dir, content, synced, fresh, handler>>
failureVars == <<drops, outages>>
vars == <<sourceVars, agentVars, serverVars, lapsed, failureVars>>

Byte    == Inode \X (1..MaxSize)
Payload == {Bytes(i, from, to) : i \in Inode, from, to \in 0..MaxSize} \ {<<>>}

ASSUME LoglineAssumption ==
  /\ Pace \in {"followed", "any"}
  /\ MaxDrop \in Nat /\ MaxOutage \in Nat
  /\ None \notin File
  /\ None \notin AgentName
  /\ None \notin {FirstBytes(i, n) : i \in Inode, n \in 0..MaxSize}
  /\ Garbled \notin Payload
  /\ Hole \notin Byte

Server == INSTANCE Server WITH Name <- AgentName, Conn <- Seg, MaxLen <- MaxSize,
                               Skew <- -MaxSize..MaxSize, late <- {}

-----------------------------------------------------------------------------
(* The server's side of a connection *)

Reply(s, r) == wire' = [wire EXCEPT ![s] = r]

Accept(s) ==
  /\ wire[s].kind = "hello"
  /\ Server!Hello(s, wire[s].target)
  /\ Reply(s, Greeting(Server!ReportedLength(wire[s].target),
                       Server!ReportedPrefix(wire[s].target, wire[s].n)))

\* Mutant of TakeData: the frame is acknowledged before it is written.
TakeDataEarlyReply(s) ==
  /\ wire[s].kind = "data"
  /\ \/ Server!BeginOpen(s, wire[s].off, wire[s].data) /\ Reply(s, OkReply)
     \/ Server!BeginCreate(s, wire[s].off, wire[s].data) /\ Reply(s, OkReply)
     \/ Server!BeginReject(s, wire[s].off) /\ Reply(s, Broken)

TakeData(s) ==
  /\ wire[s].kind = "data"
  /\ \/ Server!BeginOpen(s, wire[s].off, wire[s].data) /\ UNCHANGED wire
     \/ Server!BeginCreate(s, wire[s].off, wire[s].data) /\ UNCHANGED wire
     \/ Server!BeginReject(s, wire[s].off) /\ Reply(s, Broken)

FinishData(s) ==
  \/ Server!Apply(s) /\ Reply(s, OkReply)
  \/ Server!ApplyReject(s) /\ Reply(s, Broken)

TakeRename(s) ==
  /\ wire[s].kind = "rename"
  /\ \/ Server!Rename(s, wire[s].from, wire[s].to) /\ Reply(s, OkReply)
     \/ Server!RenameNoop(s, wire[s].from, wire[s].to) /\ Reply(s, OkReply)
     \/ Server!RenameReject(s, wire[s].from, wire[s].to) /\ Reply(s, Broken)

Serve(s) ==
  /\ Accept(s) \/ TakeData(s) \/ FinishData(s) \/ TakeRename(s)
  /\ UNCHANGED <<sourceVars, seg, coord, isos, ephemeral, stamp, crashes, acked>>
  /\ UNCHANGED <<lapsed, failureVars>>

-----------------------------------------------------------------------------
(* The connections themselves *)

\* The network drops a connection, or a request on it times out: the request or
\* the reply it carries is lost.
Drop ==
  /\ drops < MaxDrop
  /\ drops' = drops + 1
  /\ \E s \in Seg :
       /\ wire[s] \notin {Unconnected, Broken}
       /\ Reply(s, Broken)
       /\ handler' = [handler EXCEPT ![s] = Server!Closed]
  /\ UNCHANGED <<sourceVars, seg, coord, isos, ephemeral, stamp, crashes, acked>>
  /\ UNCHANGED <<dir, content, synced, fresh, lapsed, outages>>

\* The server goes down, losing what it has not synced or only some of it or
\* nothing, and comes up again: all connections break.
Outage ==
  /\ drops < MaxDrop
  /\ outages < MaxOutage
  /\ drops' = drops + 1
  /\ outages' = outages + 1
  /\ Server!PowerLoss
  /\ wire' = [s \in Seg |-> IF wire[s] = Unconnected THEN Unconnected ELSE Broken]
  /\ UNCHANGED <<sourceVars, seg, coord, isos, ephemeral, stamp, crashes, acked, lapsed>>

\* The agent takes a step A.  A connection it has closed, or opened anew, loses
\* its handler.
Agent(A) ==
  /\ A
  /\ handler' = [s \in Seg |-> IF wire'[s] # wire[s] /\ wire'[s].kind \in {"none", "hello"}
                               THEN Server!Closed ELSE handler[s]]
  /\ lapsed' = (lapsed \/ \E i \in coord.consumed \ coord'.consumed : marker[i] = "waiting")
  /\ UNCHANGED <<sourceVars, dir, content, synced, fresh, failureVars>>

\* The agent's live segment is shipping the current inode.
Followed ==
  /\ coord.pc = "loop"
  /\ coord.live # None
  /\ seg[coord.live].phase = "live"
  /\ seg[coord.live].inode = cur

MayRotate == CASE Pace = "any"      -> TRUE
               [] Pace = "followed" -> cur = NoInode \/ Followed

SourceStep ==
  /\ SourceNext
  /\ cur' # cur => MayRotate
  /\ UNCHANGED <<agentVars, serverVars, lapsed, failureVars>>

-----------------------------------------------------------------------------
Init ==
  /\ SourceInit
  /\ AgentInit
  /\ Server!Init
  /\ lapsed = FALSE
  /\ drops = 0
  /\ outages = 0

Run(s) == Agent(SegmentStep(s))
Coordinate == Agent(CoordStep)

Next ==
  \/ SourceStep
  \/ Coordinate
  \/ Agent(Scan)
  \/ Agent(Killed)
  \/ \E s \in Seg : Run(s) \/ Serve(s)
  \/ Drop
  \/ Outage

Spec == Init /\ [][Next]_vars

\* The event loops of agent and server run every task that can run: the segments,
\* the coordinator and the handlers.  Nobody makes the log grow or rotate, and the
\* network may drop connections or not.
FairSpec ==
  /\ Spec
  /\ WF_vars(Coordinate)
  /\ \A s \in Seg : WF_vars(Run(s)) /\ WF_vars(Serve(s))

-----------------------------------------------------------------------------
(* Properties *)

Segment ==
  [phase   : {"off", "born", "greet", "aside", "regreet", "done"} \cup Draining \cup Sealed,
   io      : {"ready", "sending", "renaming", "resuming", "assuming"},
   inode   : Inode \cup {NoInode},
   pos     : 0..MaxSize,
   target  : AgentName,
   pending : {None} \cup [name : AgentName, iso : Inode \cup {NoInode}],
   sent    : BOOLEAN]

Coordinator ==
  [pc : {"loop", "open", "learn", "grace", "wait"}, live : Seg \cup {None},
   last : Inode \cup {NoInode}, found : Inode \cup {NoInode},
   opened : Inode \cup {NoInode}, consumed : SUBSET Inode]

TypeOK ==
  /\ cur \in Inode \cup {NoInode}
  /\ size \in [Inode -> 0..MaxSize]
  /\ marker \in [Inode -> {"none", "waiting", "done"}]
  /\ seg \in [Seg -> Segment]
  /\ coord \in Coordinator
  /\ IsInjective(isos) /\ ToSet(isos) \subseteq Inode
  /\ acked \in [Inode -> 0..MaxSize]
  /\ Server!TypeOK

\* What the server holds under a name, nothing if there is no such file.
Held(n) == IF Server!Exists(n) THEN content[dir[n]] ELSE <<>>

\* What it takes for every name to be used once: the source is not ephemeral (see
\* the run ephemeral_noop), and the agent has not forgotten a name it may give
\* again (see restart_names).
Orderly == ~ephemeral /\ ~lapsed

\* As long as names are used once the mirror is as Mirror.tla promises: copies
\* only grow, are never renamed over one another, and once they have their final
\* name (made durable by handle_rename's fsyncs) never change.
Promise == INSTANCE Mirror WITH
  Name   <- AgentName,
  Final  <- {FinalName(i) : i \in Inode},
  Copy   <- {FirstBytes(i, n) : i \in Inode, n \in 0..MaxSize},
  Absent <- None,
  mirror <- [n \in AgentName |-> IF Server!Exists(n) THEN content[dir[n]] ELSE None]

MirrorSpec ==
  Promise!Init /\ [][UNCHANGED <<dir, content>> \/ (Orderly => Promise!Next)]_<<dir, content>>

IsHeadOf(c, i) == c = FirstBytes(i, Len(c))

\* The agent is the client the server counts on: as long as names are used once,
\* each step is, for the server, a step of Server.tla or none (tried first, being
\* the commonest), so Server.tla's theorems hold of the server as the agent
\* drives it.
ServerSpec ==
  Server!Init /\ [][UNCHANGED serverVars \/ (Orderly => Server!Next)]_serverVars

\* Every file on the server is the beginning of one inode: nothing is appended
\* to another inode's file, no byte is skipped, sent twice or out of place.
NoMixing ==
  \A n \in AgentName : Server!Exists(n) => \E i \in Inode : IsHeadOf(Held(n), i)

\* Without power losses a byte the server has acknowledged stays on the server,
\* under some name, as part of the copy of its inode.
AckedKept ==
  ~ephemeral /\ outages = 0 =>
    \A i \in Inode : acked[i] > 0 =>
      \E n \in AgentName : Len(Held(n)) >= acked[i] /\ IsHeadOf(Held(n), i)

\* A file under the name of an archived rotation is the copy of that very inode.
NameMatchesArchive ==
  \A i \in Inode : \A n \in {SealedName(i), FinalName(i)} :
    IsHeadOf(Held(n), i)

\* Where a segment has been sealed the server holds its file under the seal's
\* name, if it has acknowledged any of it.
SealHolds ==
  \A s \in Seg :
    seg[s].phase \in Sealed /\ seg[s].io = "ready"
      /\ acked[seg[s].inode] > 0
    => Server!Exists(seg[s].target)

\* A live file that is sealed aside as stale is not a copy of the very inode
\* that is about to be streamed (_seal_stale_remote).
AsideIsForeign ==
  \A s \in Seg :
    seg[s].phase = "aside" /\ wire[s].kind = "rename"
      => ~IsHeadOf(Held(LiveName), seg[s].inode)

\* A sealed segment writes no more under the name of the live file.
SealedLeavesLive ==
  \A s \in Seg :
    seg[s].phase \in Sealed => handler[s].path # LiveName

\* A finalized file is complete.
FinalIsComplete ==
  \A i \in Inode : Server!Exists(FinalName(i)) => Held(FinalName(i)) = FirstBytes(i, size[i])

\* When the source comes to rest, the mirror of the live file catches up.
CatchesUp ==
  <>[](cur # NoInode => Held(LiveName) = FirstBytes(cur, size[cur]))

\* Closing segments whose rotation is complete come to an end, and with them
\* their connections: the files are finalized, or the agent has started over.
Complete(s) == seg[s].phase \in Closing /\ marker[seg[s].pending.iso] = "done"

ClosingEnds == (\E s \in Seg : Complete(s)) ~> (\A s \in Seg : ~Complete(s))

=============================================================================
