------------------------------- MODULE Agent --------------------------------
(* The Logline agent for one tailed path: the PathCoordinator, its            *)
(* MarkerWatcher and its Segment tasks (agent/logline_agent/coordinator.py,   *)
(* marker_watcher.py), over the connections of client.py.                      *)
(*                                                                             *)
(* The tasks share one event loop: an action runs from one await to the next, *)
(* or up to an earlier point where letting the others run changes nothing.    *)
EXTENDS Source, SequencesExt

CONSTANTS Seg,          \* the segments that may be alive at a time (bound)
          Prefix,       \* conf.prefix_length_bytes
          Chunk,        \* CHUNK_SIZE
          MaxStamp,     \* bound: how many timestamped orphans may be named
          MaxCrash,     \* bound: how often the agent is killed
          Ephemerals,   \* the answers _classify_ephemeral may have given
          None

ASSUME AgentAssumption ==
  /\ Prefix \in Nat \ {0}
  /\ Chunk \in Nat \ {0}
  /\ MaxStamp \in Nat /\ MaxCrash \in Nat
  /\ Ephemerals \subseteq BOOLEAN
  /\ None \notin Seg

VARIABLES
  seg,        \* Seg -> the local state of a Segment task:
              \*   phase    how far run() is: "born", "greet", "aside" and "regreet"
              \*            in _connect, "live", "seal", then "orphan", or "await"
              \*            and "look" in turn and "final"; "off" no segment, "done"
              \*            one that has ended and the coordinator has not noticed
              \*   io       "ready" to read; "sending" or "renaming" awaits a reply;
              \*            "resuming" or "assuming" is in _reconnect after that failed
              \*   inode, pos, target    file_stream, its position, and the target
              \*   pending  _pending_seal: None, or the name to seal under and the
              \*            iso_dt it was learnt with (NoInode for an orphan)
              \*   sent     has the drain under way sent anything?  (kept for orphans)
  coord,      \* the local state of PathCoordinator.run:
              \*   pc       "loop"; "open" before file_path.open; "learn" and
              \*            "grace" in _learn_iso_dt; "wait" in wait_sealed
              \*   live, last            the live segment, last_inode
              \*   found, opened         the inodes of this round's stat and open
              \*   consumed              consumed_isos
  isos,       \* MarkerWatcher.waiting_isos
  ephemeral,  \* PathCoordinator.ephemeral
  stamp,      \* the clock behind utc_iso_dt: timestamps given out so far
  crashes,    \* times the agent was killed
  wire,       \* Seg -> its connection: what was last sent on it, by either side
  acked       \* (history) Inode -> bytes of it the server has acknowledged

agentVars == <<seg, coord, isos, ephemeral, stamp, crashes, wire, acked>>

-----------------------------------------------------------------------------
(* Names on the server *)

LiveName       == <<"live">>             \* foo.log
SealedName(i)  == <<"sealed", i>>        \* foo.log.<iso_dt>
FinalName(i)   == <<"final", i>>         \* foo.log.<iso_dt>.<sha13>
OrphanAt(t)    == <<"orphan", t>>        \* foo.log.<utc_iso_dt()>.orphan
OrphanName     == <<"orphan">>           \* foo.log.orphan

AgentName ==
  {LiveName, OrphanName} \cup {OrphanAt(t) : t \in 1..MaxStamp}
    \cup {SealedName(i) : i \in Inode} \cup {FinalName(i) : i \in Inode}

\* Mutant of OrphanNow: every orphan has the name of an ephemeral one.
OrphanUnstamped == OrphanName

\* The name for an orphan, and whether it takes a new timestamp.
OrphanNow == IF ephemeral THEN OrphanName ELSE OrphanAt(stamp + 1)

StampOrphan ==
  IF ephemeral THEN UNCHANGED stamp ELSE stamp < MaxStamp /\ stamp' = stamp + 1

-----------------------------------------------------------------------------
(* What is on a connection.  It carries one request or reply at a time, since *)
(* _send_command awaits the reply to each.                                     *)

Unconnected      == [kind |-> "none"]
Broken           == [kind |-> "broken"]     \* closed or timed out: the agent's next or
                                            \* present await of it raises
Idle             == [kind |-> "idle"]
HelloReq(t, n)   == [kind |-> "hello", target |-> t, n |-> n]
DataReq(o, d)    == [kind |-> "data", off |-> o, data |-> d]
RenameReq(f, t)  == [kind |-> "rename", from |-> f, to |-> t]
Greeting(l, p)   == [kind |-> "greeting", length |-> l, prefix |-> p]
OkReply          == [kind |-> "ok"]

\* Sending on a connection that has broken meanwhile finds out at its await.
Send(w, req) == IF w = Broken THEN Broken ELSE req

Off == [phase |-> "off", io |-> "ready", inode |-> NoInode, pos |-> 0,
        target |-> LiveName, pending |-> None, sent |-> FALSE]

Draining == {"live", "seal", "orphan", "await", "final"}
Closing  == {"await", "look", "final"}             \* _closing_phase, with an iso_dt
Sealed   == Closing \cup {"orphan"}                \* _sealed is set

Put(s, r, w) ==
  /\ seg'  = [seg EXCEPT ![s] = r]
  /\ wire' = [wire EXCEPT ![s] = w]

\* The task of segment s ends and _close closes its connection; the coordinator
\* reaps it at once if it is closing, at its next round if it is live.
End(s) ==
  Put(s, [Off EXCEPT !.phase = IF s = coord.live THEN "done" ELSE "off"], Unconnected)

Least(a, b) == IF a < b THEN a ELSE b

\* Where _read_prefix leaves the stream of inode i.
PrefixEnd(i) == Least(Prefix, size[i])

\* _reconnect, and each further turn of its retry loop.
Redial(s, r) == Put(s, r, HelloReq(r.target, r.pos))

segOnly    == <<coord, isos, ephemeral, crashes>>

-----------------------------------------------------------------------------
(* Segment._connect *)

\* The new task reads the prefix and connects.
Dial(s) ==
  /\ seg[s].phase = "born"
  /\ LET n == PrefixEnd(seg[s].inode)
     IN  Put(s, [seg[s] EXCEPT !.phase = "greet", !.pos = n], HelloReq(seg[s].target, n))
  /\ UNCHANGED <<segOnly, stamp, acked>>

\* Mutant of Stale: the prefix is not compared.
NeverStale(s) == FALSE

\* The live target holds bytes, and they do not begin as the inode does.
Stale(s) ==
  /\ wire[s].length > 0
  /\ wire[s].prefix \notin {<<>>, FirstBytes(seg[s].inode, seg[s].pos)}

\* The greeting lets the segment resume where the target ends ...
Greeted(s) ==
  /\ seg[s].phase \in {"greet", "regreet"}
  /\ wire[s].kind = "greeting"
  /\ seg[s].phase = "greet" => ~Stale(s)
  /\ Put(s, [seg[s] EXCEPT !.phase = "live", !.pos = wire[s].length], Idle)
  /\ UNCHANGED <<segOnly, stamp, acked>>

\* ... or makes it rename a stale file out of the way (_seal_stale_remote) ...
FoundStale(s) ==
  /\ seg[s].phase = "greet"
  /\ wire[s].kind = "greeting"
  /\ Stale(s)
  /\ StampOrphan
  /\ Put(s, [seg[s] EXCEPT !.phase = "aside"], RenameReq(seg[s].target, OrphanNow))
  /\ UNCHANGED <<segOnly, acked>>

\* ... and connect afresh, with the same prefix.
MovedStale(s) ==
  /\ seg[s].phase = "aside"
  /\ wire[s] = OkReply
  /\ Put(s, [seg[s] EXCEPT !.phase = "regreet"], HelloReq(seg[s].target, seg[s].pos))
  /\ UNCHANGED <<segOnly, stamp, acked>>

\* Any exception in _connect ends the task.
ConnectFailed(s) ==
  /\ seg[s].phase \in {"greet", "aside", "regreet"}
  /\ wire[s] = Broken
  /\ End(s)
  /\ UNCHANGED <<segOnly, stamp, acked>>

-----------------------------------------------------------------------------
(* Segment._drain_available and the phases it serves *)

\* _drain_available has returned, leaving the segment as r and its connection
\* as w: on with the phase that called it.
Returned(s, r, w) ==
  \/ /\ r.phase = "live"
     /\ Put(s, [r EXCEPT !.io = "ready",
                         !.phase = IF r.pending = None THEN "live" ELSE "seal"], w)
  \/ /\ r.phase = "seal"
     /\ Put(s, [r EXCEPT !.io = "renaming"], Send(w, RenameReq(r.target, r.pending.name)))
  \/ /\ r.phase = "orphan"
     /\ Put(s, [r EXCEPT !.io = "ready", !.sent = FALSE], w)
  \* seal_idle_seconds have passed since a drain sent anything; this one did not
  \/ /\ r.phase = "orphan"
     /\ ~r.sent
     /\ End(s)
  \/ /\ r.phase = "await"
     /\ Put(s, [r EXCEPT !.io = "ready", !.phase = "look"], w)
  \/ /\ r.phase = "final"
     /\ Put(s, [r EXCEPT !.io = "renaming"],
            Send(w, RenameReq(r.pending.name, FinalName(r.pending.iso))))

\* _live_phase wakes up to a seal requested meanwhile, and drains no more.
SealRequested(s) ==
  /\ seg[s].phase = "live"
  /\ seg[s].io = "ready"
  /\ seg[s].pending # None
  /\ Put(s, [seg[s] EXCEPT !.phase = "seal"], wire[s])
  /\ UNCHANGED <<segOnly, stamp, acked>>

\* Read a chunk and send it.
Read(s) ==
  /\ seg[s].phase \in Draining
  /\ seg[s].io = "ready"
  /\ LET r   == seg[s]
         end == Least(r.pos + Chunk, size[r.inode])
     IN  /\ r.pos < size[r.inode]
         /\ Put(s, [r EXCEPT !.io = "sending", !.pos = end],
                Send(wire[s], DataReq(r.pos, Bytes(r.inode, r.pos, end))))
  /\ UNCHANGED <<segOnly, stamp, acked>>

\* There is nothing to read.
Drained(s) ==
  /\ seg[s].phase \in Draining
  /\ seg[s].io = "ready"
  /\ seg[s].pos >= size[seg[s].inode]
  /\ Returned(s, seg[s], wire[s])
  /\ UNCHANGED <<segOnly, stamp, acked>>

\* The chunk is acknowledged.
Sent(s) ==
  /\ seg[s].io = "sending"
  /\ wire[s] = OkReply
  /\ Put(s, [seg[s] EXCEPT !.io = "ready", !.sent = seg[s].phase = "orphan"], Idle)
  /\ LET i == seg[s].inode
     IN  acked' = [acked EXCEPT ![i] = IF @ > seg[s].pos THEN @ ELSE seg[s].pos]
  /\ UNCHANGED <<segOnly, stamp>>

\* send_data raised: an ephemeral orphan gives up, any other segment reconnects.
SendFailed(s) ==
  /\ seg[s].io = "sending"
  /\ wire[s] = Broken
  /\ IF seg[s].phase = "orphan" /\ ephemeral
     THEN End(s)
     ELSE Redial(s, [seg[s] EXCEPT !.io = "resuming", !.pos = PrefixEnd(seg[s].inode)])
  /\ UNCHANGED <<segOnly, stamp, acked>>

\* It continues where the target ends; the drain returns at once, without
\* sending again what it failed to send.
Resumed(s) ==
  /\ seg[s].io = "resuming"
  /\ wire[s].kind = "greeting"
  /\ Returned(s, [seg[s] EXCEPT !.pos = wire[s].length], Idle)
  /\ UNCHANGED <<segOnly, stamp, acked>>

\* Another attempt of _reconnect.
Retry(s) ==
  /\ seg[s].io \in {"resuming", "assuming"}
  /\ wire[s] = Broken
  /\ Redial(s, seg[s])
  /\ UNCHANGED <<segOnly, stamp, acked>>

\* Mutant of Looked: no final flush before the file is finalized.
LookedUnflushed(s) ==
  /\ seg[s].phase = "look"
  /\ LET r == seg[s]
     IN  IF marker[r.pending.iso] = "done"
         THEN Put(s, [r EXCEPT !.phase = "final", !.io = "renaming"],
                  Send(wire[s], RenameReq(r.pending.name, FinalName(r.pending.iso))))
         ELSE Put(s, [r EXCEPT !.phase = "await"], wire[s])
  /\ UNCHANGED <<segOnly, stamp, acked>>

\* Mutant of Looked: only a rotation that is still waiting is found.
LookedWaiting(s) ==
  /\ seg[s].phase = "look"
  /\ Put(s, [seg[s] EXCEPT !.phase = IF marker[seg[s].pending.iso] = "waiting"
                                     THEN "final" ELSE "await"], wire[s])
  /\ UNCHANGED <<segOnly, stamp, acked>>

\* _drain_until_sha13 looks for the marker; the log may have grown, and the
\* marker appeared, since the drain found nothing more.
Looked(s) ==
  /\ seg[s].phase = "look"
  /\ Put(s, [seg[s] EXCEPT !.phase = IF marker[seg[s].pending.iso] = "done"
                                     THEN "final" ELSE "await"], wire[s])
  /\ UNCHANGED <<segOnly, stamp, acked>>

-----------------------------------------------------------------------------
(* Segment._rename *)

\* Mutant of RenameDone: the sealed segment keeps its target.
RenameDoneUnnoted(s) ==
  \/ /\ seg[s].phase = "seal"
     /\ Put(s, [seg[s] EXCEPT !.io = "ready",
                  !.phase = IF seg[s].pending.iso = NoInode THEN "orphan" ELSE "await"],
            Idle)
  \/ /\ seg[s].phase = "final"
     /\ End(s)

\* _rename has returned: the end of _do_seal or of _closing_phase.
RenameDone(s) ==
  \/ /\ seg[s].phase = "seal"
     /\ Put(s, [seg[s] EXCEPT !.io = "ready", !.target = seg[s].pending.name,
                  !.phase = IF seg[s].pending.iso = NoInode THEN "orphan" ELSE "await"],
            Idle)
  \/ /\ seg[s].phase = "final"
     /\ End(s)

Renamed(s) ==
  /\ seg[s].io = "renaming"
  /\ wire[s] = OkReply
  /\ RenameDone(s)
  /\ UNCHANGED <<segOnly, stamp, acked>>

\* Mutant of RenameFailed: it reconnects to the source of the rename.
RenameFailedBack(s) ==
  /\ seg[s].io = "renaming"
  /\ wire[s] = Broken
  /\ Redial(s, [seg[s] EXCEPT !.io = "assuming", !.pos = PrefixEnd(seg[s].inode)])
  /\ UNCHANGED <<segOnly, stamp, acked>>

\* send_rename raised: an ephemeral orphan's seal gives up, any other rename
\* reconnects, to the destination.
RenameFailed(s) ==
  /\ seg[s].io = "renaming"
  /\ wire[s] = Broken
  /\ LET r   == seg[s]
         dst == IF r.phase = "seal" THEN r.pending.name ELSE FinalName(r.pending.iso)
     IN  IF r.phase = "seal" /\ r.pending.iso = NoInode /\ ephemeral
         THEN End(s)
         ELSE Redial(s, [r EXCEPT !.io = "assuming", !.target = dst, !.pos = PrefixEnd(r.inode)])
  /\ UNCHANGED <<segOnly, stamp, acked>>

\* Any length in the greeting passes for the rename being done; the stream
\* stays where _read_prefix left it.
Assumed(s) ==
  /\ seg[s].io = "assuming"
  /\ wire[s].kind = "greeting"
  /\ wire[s].length >= 0
  /\ RenameDone(s)
  /\ UNCHANGED <<segOnly, stamp, acked>>

-----------------------------------------------------------------------------
(* MarkerWatcher *)

\* Mutant of Scanned: markers are collected again at every scan.
ScannedAgain(old, new) ==
  \E found \in SetToSeqs({i \in Inode : marker[i] = "waiting"}) :
    new = old \o found

\* scan appends the waiting markers it has not seen, in the order of listdir.
Scanned(old, new) ==
  \E found \in SetToSeqs({i \in Inode : marker[i] = "waiting"} \ ToSet(old)) :
    new = old \o found

Scan ==
  /\ Scanned(isos, isos')
  /\ UNCHANGED <<seg, coord, ephemeral, stamp, crashes, wire, acked>>

\* Mutant of Unconsumed: consumed_isos is ignored.
Unfiltered(list) == DOMAIN list

\* newest_unconsumed_waiting goes through these places of the list it has just
\* scanned, and takes the last.
Unconsumed(list) == {k \in DOMAIN list : list[k] \notin coord.consumed}

-----------------------------------------------------------------------------
(* PathCoordinator *)

NoCoord == [pc |-> "loop", live |-> None, last |-> NoInode,
            found |-> NoInode, opened |-> NoInode, consumed |-> {}]

\* Mutant of Reaped: an ended live segment is not dropped.
NothingReaped == seg

\* The segments once an ended live one has been dropped.
Reaped ==
  IF coord.live # None /\ seg[coord.live].phase = "done"
  THEN [seg EXCEPT ![coord.live] = Off] ELSE seg

\* Start a live segment for an inode just opened, and end the round.
Start(i, consumed) ==
  LET free == {s \in Seg : Reaped[s].phase = "off"}
      s    == CHOOSE f \in free : TRUE
  IN  /\ free # {}
      /\ seg' = [Reaped EXCEPT ![s] = [Off EXCEPT !.phase = "born", !.inode = i]]
      /\ coord' = [coord EXCEPT !.pc = "loop", !.live = s, !.last = coord.found,
                                !.found = NoInode, !.opened = NoInode,
                                !.consumed = consumed]

\* One round of the loop: drop a live segment that has ended, stat the path.
Poll ==
  /\ coord.pc = "loop"
  /\ LET dead == Reaped # seg
         last == IF dead THEN NoInode ELSE coord.last
         live == IF dead THEN None ELSE coord.live
         new  == cur \notin {NoInode, last}
     IN  coord' = [coord EXCEPT !.live = live, !.last = last,
                                !.pc = IF new THEN "open" ELSE "loop",
                                !.found = IF new THEN cur ELSE NoInode]
  /\ seg' = Reaped
  /\ UNCHANGED <<isos, ephemeral, stamp, crashes, wire, acked>>

\* _on_new_inode opens the path, which may name another inode by now.
OpenKnown ==
  /\ coord.pc = "open"
  /\ cur # NoInode
  /\ cur = coord.last
  /\ coord' = [coord EXCEPT !.pc = "loop", !.last = coord.found, !.found = NoInode]
  /\ UNCHANGED <<seg, isos, ephemeral, stamp, crashes, wire, acked>>

OpenFirst ==
  /\ coord.pc = "open"
  /\ cur # NoInode
  /\ cur # coord.last
  /\ coord.live = None
  /\ Start(cur, coord.consumed)
  /\ UNCHANGED <<isos, ephemeral, stamp, crashes, wire, acked>>

OpenRotated ==
  /\ coord.pc = "open"
  /\ cur # NoInode
  /\ cur # coord.last
  /\ coord.live # None
  /\ coord' = [coord EXCEPT !.pc = "learn", !.opened = cur]
  /\ UNCHANGED <<seg, isos, ephemeral, stamp, crashes, wire, acked>>

\* _seal_live asks the live segment to seal itself under a name.  The iso_dt is
\* consumed only once that is done, but nothing looks in between.
RequestSeal(name, iso) ==
  /\ seg' = [seg EXCEPT ![coord.live].pending =
               IF seg[coord.live].phase = "done" THEN None ELSE [name |-> name, iso |-> iso]]
  /\ coord' = [coord EXCEPT !.pc = "wait",
                            !.consumed = IF iso = NoInode THEN @ ELSE @ \cup {iso}]

\* The newest waiting marker not yet used names the rotation.
LearnIso ==
  /\ coord.pc \in {"learn", "grace"}
  /\ Scanned(isos, isos')
  /\ \E k \in Unconsumed(isos') :
       /\ \A l \in Unconsumed(isos') : l <= k
       /\ RequestSeal(SealedName(isos'[k]), isos'[k])
  /\ UNCHANGED <<ephemeral, stamp, crashes, wire, acked>>

NoMarkerYet ==
  /\ coord.pc = "learn"
  /\ Scanned(isos, isos')
  /\ Unconsumed(isos') = {}
  /\ coord' = [coord EXCEPT !.pc = "grace"]
  /\ UNCHANGED <<seg, ephemeral, stamp, crashes, wire, acked>>

\* None in seal_marker_grace_seconds: after the last look and one more sleep
\* the rotation is sealed as an orphan.
GraceExpired ==
  /\ coord.pc = "grace"
  /\ StampOrphan
  /\ RequestSeal(OrphanNow, NoInode)
  /\ UNCHANGED <<isos, ephemeral, crashes, wire, acked>>

\* Mutant of SealWaited: the new segment does not wait for the old one's seal.
SealUnwaited ==
  /\ coord.pc = "wait"
  /\ Start(coord.opened, coord.consumed)
  /\ UNCHANGED <<isos, ephemeral, stamp, crashes, wire, acked>>

\* wait_sealed: the seal rename has returned, or the task has ended.  The old
\* segment joins the closing ones and a new live one starts.
SealWaited ==
  /\ coord.pc = "wait"
  /\ seg[coord.live].phase \in Sealed \cup {"done"}
  /\ Start(coord.opened, coord.consumed)
  /\ UNCHANGED <<isos, ephemeral, stamp, crashes, wire, acked>>

-----------------------------------------------------------------------------
(* The end of the coordinator, and of the process *)

\* Everything the coordinator owned is gone: its tasks cancelled, their
\* connections closed.  async_main starts another coordinator, on no memory.
StartOver ==
  /\ seg'   = [s \in Seg |-> Off]
  /\ wire'  = [s \in Seg |-> Unconnected]
  /\ coord' = NoCoord
  /\ isos'  = <<>>

\* The path is missing when it is to be opened: the exception ends the task.
OpenFailed ==
  /\ coord.pc = "open"
  /\ cur = NoInode
  /\ StartOver
  /\ UNCHANGED <<ephemeral, stamp, crashes, acked>>

Killed ==
  /\ crashes < MaxCrash
  /\ crashes' = crashes + 1
  /\ StartOver
  /\ UNCHANGED <<ephemeral, stamp, acked>>

-----------------------------------------------------------------------------
AgentInit ==
  /\ seg = [s \in Seg |-> Off]
  /\ coord = NoCoord
  /\ isos = <<>>
  /\ ephemeral \in Ephemerals
  /\ stamp = 0
  /\ crashes = 0
  /\ wire = [s \in Seg |-> Unconnected]
  /\ acked = [i \in Inode |-> 0]

SegmentStep(s) ==
  \/ Dial(s) \/ Greeted(s) \/ FoundStale(s) \/ MovedStale(s) \/ ConnectFailed(s)
  \/ SealRequested(s) \/ Read(s) \/ Drained(s) \/ Sent(s) \/ SendFailed(s) \/ Resumed(s) \/ Retry(s)
  \/ Looked(s) \/ Renamed(s) \/ RenameFailed(s) \/ Assumed(s)

CoordStep ==
  \/ Poll \/ OpenKnown \/ OpenFirst \/ OpenRotated \/ OpenFailed
  \/ LearnIso \/ NoMarkerYet \/ GraceExpired \/ SealWaited

=============================================================================
