------------------------------- MODULE Server -------------------------------
(* The Logline server (server/logline_server/main.py): one connection handler *)
(* per agent connection, the one destination directory they share, and the    *)
(* files in it.                                                                *)
(*                                                                             *)
(* A path and the file it names are kept apart, as in POSIX: a handler opens   *)
(* its target once and then works through the fd, whatever later happens to    *)
(* the name.  The actions take the frame they handle as parameters, so that    *)
(* Logline.tla can drive them from real connections; Next below drives them    *)
(* with every frame of a well-behaved client.                                  *)
EXTENDS Integers, Sequences

CONSTANTS Name,      \* the leaf names of the destination directory
          File,      \* the inodes of the server's file system (bound)
          Conn,      \* the connections a handler may be serving
          Byte,      \* the bytes of a payload
          Payload,   \* the payloads of a data frame
          Garbled,   \* a payload apply_data raises on before its offset check
          Hole,      \* the zero byte a write beyond end-of-file leaves behind
          None,      \* no file: an unlinked name, a handler without an fd
          MaxLen,    \* bound: no file is longer
          Skew       \* bound: how far the offset of a frame may be from the right one

ASSUME ServerAssumption ==
  /\ Payload \subseteq Seq(Byte)
  /\ Garbled \notin Payload
  /\ Hole \notin Byte
  /\ None \notin File
  /\ MaxLen \in Nat
  /\ Skew \subseteq Int

VARIABLES
  dir,       \* Name -> File, or None: the entries of the directory
  content,   \* File -> sequence of bytes, as the kernel holds it
  synced,    \* File -> length of the prefix that survives a power loss
  fresh,     \* the entries made since the directory was last fsynced
  late,      \* (history) what frames of abandoned connections have done to the files:
             \* "frame" a data frame created or wrote one, "rename" a rename moved one
  handler    \* Conn -> the local state of handle_client and serve_client:
             \*   st    where the coroutine is waiting: "closed", "serving" (in
             \*         recv_command) or "inflating" (in to_thread(decompress))
             \*   path  dst_path;  fd  the open f;  pos  f.tell()
             \*   frame the data frame being inflated
             \*   gone  the client has closed its end

files == <<dir, content, synced, fresh, late>>
vars  == <<dir, content, synced, fresh, late, handler>>

-----------------------------------------------------------------------------
(* Frames and replies *)

NoFrame == [off |-> 0, data |-> <<>>]
Frame   == [off : Nat, data : Payload \cup {Garbled}] \cup {NoFrame}

\* A handler that has returned, its fd closed (the finally clauses).
Closed == [st |-> "closed", path |-> None, fd |-> None, pos |-> 0,
           frame |-> NoFrame, gone |-> FALSE]

Open      == {c \in Conn : handler[c].st # "closed"}
\* The handlers whose client is still there.
Attended  == {c \in Open : ~handler[c].gone}
Linked    == {f \in File : \E n \in Name : dir[n] = f}
Held      == {f \in File : \E c \in Conn : handler[c].fd = f}
InUse     == Linked \cup Held
Unused    == File \ InUse
\* What c does to the files is late if its client has given the connection up.
Lately(c, kind) == late' = IF handler[c].gone THEN late \cup {kind} ELSE late
Exists(n) == dir[n] # None

\* The two fields of the handshake reply for a target: its length, and its
\* first n bytes.  The code hashes those bytes (null for none), and a hash
\* tells two byte strings apart exactly when the strings differ.
ReportedLength(t)    == IF Exists(t) THEN Len(content[dir[t]]) ELSE 0
ReportedPrefix(t, n) ==
  IF Exists(t)
  THEN SubSeq(content[dir[t]], 1, IF n < ReportedLength(t) THEN n ELSE ReportedLength(t))
  ELSE <<>>

\* f.write(data) at position pos of a file that holds old.
WriteAt(old, pos, data) ==
  LET end == pos + Len(data)
  IN  [i \in 1..(IF end > Len(old) THEN end ELSE Len(old)) |->
         IF i > pos /\ i <= end THEN data[i - pos]
         ELSE IF i <= Len(old) THEN old[i] ELSE Hole]

-----------------------------------------------------------------------------
(* The handlers *)

\* Mutant of Hello: the file is opened but not sought to its end.
HelloAtStart(c, target) ==
  /\ handler[c].st = "closed"
  /\ handler' = [handler EXCEPT ![c] =
                   [Closed EXCEPT !.st = "serving", !.path = target, !.fd = dir[target]]]
  /\ UNCHANGED files

\* Mutant of Hello: open('wb+') where the code has open('rb+').
HelloTruncating(c, target) ==
  /\ handler[c].st = "closed"
  /\ handler' = [handler EXCEPT ![c] =
                   [Closed EXCEPT !.st = "serving", !.path = target, !.fd = dir[target]]]
  /\ content' = [f \in File |-> IF f = dir[target] THEN <<>> ELSE content[f]]
  /\ synced'  = [f \in File |-> IF f = dir[target] THEN 0 ELSE synced[f]]
  /\ UNCHANGED <<dir, fresh, late>>

\* handle_client accepts the header and serve_client opens the target, without
\* ever creating it, and seeks to its end.
Hello(c, target) ==
  /\ handler[c].st = "closed"
  /\ handler' = [handler EXCEPT ![c] =
                   [Closed EXCEPT !.st   = "serving",
                                  !.path = target,
                                  !.fd   = dir[target],
                                  !.pos  = ReportedLength(target)]]
  /\ UNCHANGED files

\* An exception ends the handler; the connection is closed without a reply.
Raise(c) ==
  /\ handler' = [handler EXCEPT ![c] = Closed]
  /\ UNCHANGED files

\* Mutant of BeginOpen: the file of a new target is never created.
BeginUncreated(c, off, data) ==
  /\ handler[c].st = "serving"
  /\ handler' = [handler EXCEPT ![c].st = "inflating",
                                ![c].frame = [off |-> off, data |-> data]]
  /\ UNCHANGED files

\* A data frame reaches a handler that has its file open.
BeginOpen(c, off, data) ==
  /\ handler[c].st = "serving"
  /\ handler[c].fd # None
  /\ handler' = [handler EXCEPT ![c].st = "inflating",
                                ![c].frame = [off |-> off, data |-> data]]
  /\ UNCHANGED files

\* The first data frame for a target that did not exist at the handshake: the
\* offset is checked, then open('wb+') creates the file, or truncates the one
\* that has appeared under that name since.
BeginCreate(c, off, data) ==
  /\ handler[c].st = "serving"
  /\ handler[c].fd = None
  /\ off = 0
  /\ LET path == handler[c].path
         f    == IF Exists(path) THEN dir[path] ELSE CHOOSE g \in Unused : TRUE
     IN  /\ Exists(path) \/ Unused # {}
         /\ dir'     = [dir EXCEPT ![path] = f]
         /\ content' = [content EXCEPT ![f] = <<>>]
         /\ synced'  = [synced EXCEPT ![f] = 0]
         /\ fresh'   = IF Exists(path) THEN fresh ELSE fresh \cup {path}
         /\ Lately(c, "frame")
         /\ handler' = [handler EXCEPT ![c].st = "inflating",
                                       ![c].fd = f,
                                       ![c].pos = 0,
                                       ![c].frame = [off |-> off, data |-> data]]

\* The first data frame for a new target is not at offset 0.
BeginReject(c, off) ==
  /\ handler[c].st = "serving"
  /\ handler[c].fd = None
  /\ off # 0
  /\ Raise(c)

\* The frame that Apply finishes is acceptable.
Acceptable(c) == /\ handler[c].frame.data # Garbled
                 /\ handler[c].frame.off = handler[c].pos

\* apply_data resumes with the inflated payload, finds the offset equal to
\* f.tell(), writes and flushes.  A handler whose client has left then fails in
\* send_reply or reads end-of-file.
Apply(c) ==
  /\ handler[c].st = "inflating"
  /\ Acceptable(c)
  /\ LET h    == handler[c]
         data == h.frame.data
     IN  /\ content' = [content EXCEPT ![h.fd] = WriteAt(@, h.pos, data)]
         /\ handler' = [handler EXCEPT ![c] =
              IF h.gone THEN Closed
              ELSE [h EXCEPT !.st = "serving", !.frame = NoFrame, !.pos = @ + Len(data)]]
  /\ Lately(c, "frame")
  /\ UNCHANGED <<dir, synced, fresh>>

\* apply_data raises: a payload it cannot inflate, or another offset.
ApplyReject(c) ==
  /\ handler[c].st = "inflating"
  /\ ~Acceptable(c)
  /\ Raise(c)

-----------------------------------------------------------------------------
(* handle_rename, in one step: it awaits nothing *)

\* The open fd holds the file being renamed, by the handler's own bookkeeping.
FdFollows(c, from) == handler[c].fd # None /\ handler[c].path = from

\* Mutant of AfterRename: the handler keeps the path it had.
AfterRenameStays(c, from, to) ==
  handler' = [handler EXCEPT ![c] = IF handler[c].gone THEN Closed ELSE @]

\* What the handler is left with: its fd's new path, or nothing if its reply
\* can no longer be sent.
AfterRename(c, from, to) ==
  handler' = [handler EXCEPT ![c] =
    IF handler[c].gone THEN Closed
    ELSE IF FdFollows(c, from) THEN [@ EXCEPT !.path = to] ELSE @]

\* Mutant of Rename: the directory is fsynced, the file is not.
RenameUnsynced(c, from, to) ==
  /\ handler[c].st = "serving"
  /\ Exists(from)
  /\ dir' = [dir EXCEPT ![from] = None, ![to] = dir[from]]
  /\ fresh' = {}
  /\ AfterRename(c, from, to)
  /\ Lately(c, "rename")
  /\ UNCHANGED <<content, synced>>

\* The source exists: it takes the destination's place, then the file (when
\* the fd follows) and the directory are fsynced.
Rename(c, from, to) ==
  /\ handler[c].st = "serving"
  /\ Exists(from)
  /\ dir' = [dir EXCEPT ![from] = None, ![to] = dir[from]]
  /\ synced' = IF FdFollows(c, from)
               THEN [synced EXCEPT ![handler[c].fd] = Len(content[handler[c].fd])]
               ELSE synced
  /\ fresh' = {}
  /\ AfterRename(c, from, to)
  /\ Lately(c, "rename")
  /\ UNCHANGED content

\* Only the destination exists: taken as already applied.
RenameNoop(c, from, to) ==
  /\ handler[c].st = "serving"
  /\ ~Exists(from)
  /\ Exists(to)
  /\ fresh' = {}
  /\ AfterRename(c, from, to)
  /\ UNCHANGED <<dir, content, synced, late>>

\* Neither exists.
RenameReject(c, from, to) ==
  /\ handler[c].st = "serving"
  /\ ~Exists(from)
  /\ ~Exists(to)
  /\ Raise(c)

\* recv_command or serve_client refuses a malformed or unknown frame.
Malformed(c) ==
  /\ handler[c].st = "serving"
  /\ Raise(c)

-----------------------------------------------------------------------------
(* The end of a connection, and of the machine *)

\* A client closes its connections, or the network does.  Their handlers return
\* at the next read, or linger: a frame is being inflated, or was sent before and
\* is still on its way, however soon the client connects anew.
HangUp(C) ==
  /\ C # {}
  /\ C \subseteq Attended
  /\ UNCHANGED files
  /\ \E lingering \in SUBSET C :
       handler' = [c \in Conn |-> IF c \in lingering
                                  THEN [handler[c] EXCEPT !.gone = TRUE]
                                  ELSE IF c \in C THEN Closed ELSE handler[c]]

\* A handler with no client left reads end-of-file.
Eof(c) ==
  /\ handler[c].st = "serving"
  /\ handler[c].gone
  /\ Raise(c)

\* The machine loses power: any subset of the entries never fsynced is lost; of
\* every file still named the fsynced prefix survives and any part of the rest.
PowerLoss ==
  /\ handler' = [c \in Conn |-> Closed]
  /\ fresh' = {}
  /\ UNCHANGED late
  /\ \E lost \in SUBSET fresh :
       dir' = [n \in Name |-> IF n \in lost THEN None ELSE dir[n]]
  /\ \E kept \in [{f \in File : \E n \in Name : dir'[n] = f} -> 0..MaxLen] :
       /\ \A f \in DOMAIN kept : kept[f] \in synced[f]..Len(content[f])
       /\ content' = [f \in File |-> IF f \in DOMAIN kept THEN SubSeq(content[f], 1, kept[f])
                                     ELSE <<>>]
       /\ synced'  = [f \in File |-> IF f \in DOMAIN kept THEN kept[f] ELSE 0]

-----------------------------------------------------------------------------
(* The clients: what the server is entitled to expect of the agent's          *)
(* connections (Protocol.md).  Logline.tla checks that the agent's are such.  *)

\* Mutant of MayHello: a client connects twice for one target.
MayAlwaysHello(c, target) == TRUE

\* No two connections are bound to one target.
MayHello(c, target) ==
  \A d \in Attended : handler[d].path # target

\* A client renames no other connection's target, and takes over the name of
\* another's target only once that other has its file open.  When the request
\* arrives late that may no longer be so.
MayRename(c, from, to) ==
  /\ from # to
  /\ to # handler[c].path
  /\ handler[c].gone \/ \A d \in Attended \ {c} :
                           /\ handler[d].path # from
                           /\ handler[d].path = to => handler[d].fd # None

\* The bounds on lengths and offsets, and a frame has at most one fault: its offset
\* or its payload.
Fits(c, off, data) ==
  LET pos == handler[c].pos
  IN  /\ off - pos \in Skew
      /\ data = Garbled => off = pos
      /\ data # Garbled /\ off = pos => off + Len(data) <= MaxLen

-----------------------------------------------------------------------------
Init ==
  /\ dir     = [n \in Name |-> None]
  /\ content = [f \in File |-> <<>>]
  /\ synced  = [f \in File |-> 0]
  /\ fresh   = {}
  /\ late    = {}
  /\ handler = [c \in Conn |-> Closed]

Connect(c) == \E t \in Name : MayHello(c, t) /\ Hello(c, t)

Data(c) ==
  \E data \in Payload \cup {Garbled}, off \in 0..MaxLen :
    /\ Fits(c, off, data)
    /\ BeginOpen(c, off, data) \/ BeginCreate(c, off, data) \/ BeginReject(c, off)

Relabel(c) ==
  \E from, to \in Name :
    /\ Rename(c, from, to) \/ RenameNoop(c, from, to) \/ RenameReject(c, from, to)
    /\ MayRename(c, from, to)

Step(c) ==
  \/ Connect(c) \/ Data(c) \/ Relabel(c) \/ Apply(c) \/ ApplyReject(c)
  \/ Malformed(c) \/ Eof(c)

Next == PowerLoss \/ (\E C \in SUBSET Conn : HangUp(C)) \/ \E c \in Conn : Step(c)

Spec == Init /\ [][Next]_vars

-----------------------------------------------------------------------------
(* Properties *)

Handler ==
  [st    : {"closed", "serving", "inflating"},
   path  : Name \cup {None},
   fd    : File \cup {None},
   pos   : Nat,
   frame : Frame,
   gone  : BOOLEAN]

\* A handler that has returned has nothing left, an open one has a target, and
\* one that is inflating a frame has the file the frame goes to.
WellFormed(h) ==
  /\ h \in Handler
  /\ h.st = "closed" => h = Closed
  /\ h.st # "closed" => h.path \in Name
  /\ h.st = "inflating" => h.fd # None

\* The types of the variables; a file holds payload bytes, and zeroes only
\* where a write has gone beyond its end.
TypeOK ==
  /\ dir     \in [Name -> File \cup {None}]
  /\ content \in [File -> Seq(Byte \cup {Hole})]
  /\ synced  \in [File -> Nat]
  /\ fresh   \subseteq Name
  /\ late    \subseteq {"frame", "rename"}
  /\ handler \in [Conn -> Handler]
  /\ \A c \in Conn : WellFormed(handler[c])

AtEnd ==
  \A c \in Attended : handler[c].fd # None =>
    handler[c].pos = Len(content[handler[c].fd])

PathIsName ==
  \A c \in Attended, n \in Name :
    handler[c].fd # None /\ handler[c].fd = dir[n] => handler[c].path = n

SoleWriter ==
  /\ \A c, d \in Attended : handler[c].fd # None /\ handler[c].fd = handler[d].fd => c = d
  /\ \A m, n \in Name : Exists(m) /\ dir[m] = dir[n] => m = n

\* As long as no frame of an abandoned connection has been served, the offset a
\* data frame is checked against, f.tell(), is the current length of the target:
\* what Protocol.md says the server must verify.  Nothing in apply_data looks at
\* the length, so this rests on the handlers sharing no file and on open('wb+')
\* never meeting an existing one.
OffsetIsLength == late = {} => AtEnd

\* As long as no rename of an abandoned connection has moved a file, the path a
\* handler keeps for its fd through renames (dst_path) is the name of the file
\* the fd holds, unless that file has lost its name: so fd_follows answers truly,
\* and the file a rename fsyncs is the one it has renamed.
PathFollowsFile == "rename" \notin late => PathIsName

\* As long as no rename of an abandoned connection has moved a file, no file has
\* two writers, or two names.
OneWriter == "rename" \notin late => SoleWriter

Extends(s, t) == Len(s) <= Len(t) /\ \A i \in 1..Len(s) : t[i] = s[i]

\* The server only appends: no step but a power loss takes back or changes a
\* byte of a file that is named or open, as long as no frame of an abandoned
\* connection has been served.
AppendOnly ==
  [][\/ late' # {}
     \/ \A f \in InUse : Extends(content[f], content'[f])
     \/ PowerLoss]_vars

=============================================================================
