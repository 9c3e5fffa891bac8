------------------------------ MODULE Session -------------------------------
(* A connection from its first byte: the framing of commands and replies      *)
(* (client.py, recv_command, send_reply), the handshake (handle_client) and   *)
(* the destination directories, with several server processes behind one      *)
(* address (--reuse-port).  What a command does to the files is in Server.tla. *)
EXTENDS Naturals, SequencesExt

CONSTANTS Client,     \* agents' segments, or whatever else connects
          Process,    \* server processes
          Headers,    \* the possible values of header
          Tokens,     \* client_token_hashes
          MaxAsk,     \* bound: requests on one connection
          MaxFault,   \* bound: connections lost, abandoned or timed out
          None

ASSUME SessionAssumption ==
  /\ MaxAsk \in Nat \ {0} /\ MaxFault \in Nat
  /\ \A h \in Headers, c \in Client : h[c].directory \in Seq(STRING)

VARIABLES
  header,  \* Client -> what it says first, for good:
           \*   word   the command;  sound  the fields have the right types
           \*   token  client_token, hashed;  host;  directory, the sequence of
           \*   characters that strip('/') leaves of it;  target
  client,  \* Client -> the agent's side: st "away", "asking" (a request sent, its
           \*   reply awaited) or "open"; frame, the last request; and how many have
           \*   been asked and answered on this connection
  server,  \* Client -> the side of handle_client: pc "none", "recv" (in recv_command)
           \*   or in the course of making directories; proc its process; and how
           \*   many requests it has acted on
  up,      \* Client -> what has been sent to the server and not read: its pieces,
  down,    \*   and whether end-of-file comes after them; and likewise to the client
  dirs,    \* the directories that exist, as paths below destination_directory
  faults

vars == <<header, client, server, up, down, dirs, faults>>

-----------------------------------------------------------------------------
(* Framing.  A frame is a line, of a word and the sizes of the bodies, and the *)
(* bodies; both sides read the line first and then exactly as much as it says. *)

Frame(word, bodies) ==
  <<word>> \o [i \in 1..bodies |-> "size"] \o <<"newline">> \o [i \in 1..bodies |-> "body"]

\* What may have arrived when the connection ends: some pieces, then perhaps a
\* scrap of the next one, unless that is the newline.
Heard(f) ==
  {SubSeq(f, 1, n) : n \in 0..Len(f)}
    \cup {SubSeq(f, 1, n) \o <<"scrap">> : n \in {m \in 0..(Len(f) - 1) : f[m + 1] # "newline"}}

\* The line: up to the newline, or to end-of-file (readline).
Line(s) == LET at == SelectInSeq(s, LAMBDA p : p = "newline")
           IN  IF at = 0 THEN s ELSE SubSeq(s, 1, at - 1)

Bodies(s) == Cardinality({i \in DOMAIN s : s[i] = "body"})

\* Mutant of Readable: read where the code has readexactly.
ReadableInPart(s) == s # <<>>

\* A line, and all the bodies it announces.  A scrap of a size is a size.
Readable(s) == s # <<>> /\ Bodies(s) = Len(Line(s)) - 1

Closing(s) == [pieces |-> s, eof |-> TRUE]
Sending(s) == [pieces |-> s, eof |-> FALSE]

\* There is something to read, or never will be.
Arrived(stream) == stream.pieces # <<>> \/ stream.eof

-----------------------------------------------------------------------------
(* Destination directories (build_destination_dir) *)

\* _is_safe_path_segment, of names without slashes and NULs.
IsSafe(segment) == segment \notin {"", ".", ".."}

\* Mutant of Mangled: only the last component.
MangledToLast(directory) ==
  SubSeq(directory, 1 + SelectLastInSeq(directory, LAMBDA x : x = "/"), Len(directory))

\* '~'.join(directory.split('/')), character by character.
Mangled(directory) ==
  [i \in DOMAIN directory |-> IF directory[i] = "/" THEN "~" ELSE directory[i]]

DestinationDir(h) ==
  IF h.directory = <<>> THEN <<h.host>> ELSE <<h.host, Mangled(h.directory)>>

-----------------------------------------------------------------------------
(* The agent's side *)

Gone(c)    == client' = [client EXCEPT ![c].st = "away"]
Put(ch, c, stream) == [ch EXCEPT ![c] = stream]

\* connect_to_server: some process accepts, and the header is sent.
Connect(c) ==
  /\ client[c].st = "away"
  /\ server[c].pc = "none"
  /\ LET f == Frame(header[c].word, IF header[c].word = "HTTP" THEN 0 ELSE 1)
     IN  /\ client' = [client EXCEPT ![c] =
                         [st |-> "asking", frame |-> f, asked |-> 1, answered |-> 0]]
         /\ up' = Put(up, c, Sending(f))
  /\ down' = Put(down, c, Sending(<<>>))
  /\ \E p \in Process : server' = [server EXCEPT ![c] = [pc |-> "recv", proc |-> p, acted |-> 0]]
  /\ UNCHANGED <<header, dirs, faults>>

\* send_data and send_rename, on a connection that may have broken meanwhile.
Ask(c) ==
  /\ client[c].st = "open"
  /\ client[c].asked < MaxAsk
  /\ \E f \in {Frame("data", 2), Frame("rename", 1)} :
       /\ client' = [client EXCEPT ![c].st = "asking", ![c].frame = f, ![c].asked = @ + 1]
       /\ up' = IF up[c].eof THEN up ELSE Put(up, c, Sending(f))
  /\ UNCHANGED <<header, server, down, dirs, faults>>

\* The reply to the header must have a body (assert cc.header_reply).
Positive(c) ==
  LET s == down[c].pieces
  IN  /\ Readable(s)
      /\ s[1] = "ok"
      /\ client[c].asked = 1 => Bodies(s) = 1

\* The agent closes the connection; the server will read what got through.
Close(c) ==
  /\ Gone(c)
  /\ down' = Put(down, c, Closing(<<>>))
  /\ IF up[c].eof THEN UNCHANGED up
     ELSE \E s \in Heard(up[c].pieces) : up' = Put(up, c, Closing(s))

\* _send_command reads its reply, or fails and the connection is closed.
ReadReply(c) ==
  /\ client[c].st = "asking"
  /\ Arrived(down[c])
  /\ IF Positive(c)
     THEN /\ client' = [client EXCEPT ![c].st = "open", ![c].answered = @ + 1]
          /\ down' = [down EXCEPT ![c].pieces = <<>>]
          /\ UNCHANGED up
     ELSE Close(c)
  /\ UNCHANGED <<header, server, dirs, faults>>

-----------------------------------------------------------------------------
(* The server's side.  A process runs one handler at a time, from one await to *)
(* the next: the directories are looked for and made without any.              *)

Idle(p) == \A d \in Client : server[d].proc = p => server[d].pc \in {"none", "recv"}

\* A handler that has something to read, in a process that is not busy.
Awake(c) ==
  /\ server[c].pc = "recv"
  /\ Idle(server[c].proc)
  /\ Arrived(up[c])

At(c, pc) == [server EXCEPT ![c].pc = pc, ![c].acted = 1]

\* handle_client returns; what it has written may get through or not.
Return(c) ==
  /\ server' = [server EXCEPT ![c].pc = "none", ![c].proc = None]
  /\ IF down[c].eof THEN UNCHANGED down
     ELSE \E s \in Heard(down[c].pieces) : down' = Put(down, c, Closing(s))

Write(c, f) == down' = IF down[c].eof THEN down ELSE Put(down, c, Sending(f))

\* The directory is there: serve_client greets the agent, if it names a target.
Serve(c) ==
  IF IsSafe(header[c].target)
  THEN server' = At(c, "recv") /\ Write(c, Frame("ok", 1))
  ELSE Return(c)

\* check_client_auth
Authentic(h) == h.token \in Tokens

\* Mutant of Admitted: directories are made before the token is looked at.
AdmittedUnknown(h) ==
  /\ h.word = "logline-agent-v1"
  /\ h.sound /\ IsSafe(h.host)

\* A first command handle_client goes on with.
Admitted(h) ==
  /\ h.word = "logline-agent-v1"
  /\ h.sound
  /\ Authentic(h)
  /\ IsSafe(h.host)
  /\ Mangled(h.directory) \notin {<<".">>, <<".", ".">>}

\* The first command has been read, all of it or what there was.
ReadHeader(c) ==
  /\ Awake(c)
  /\ server[c].acted = 0
  /\ up' = [up EXCEPT ![c].pieces = <<>>]
  /\ IF Readable(up[c].pieces) /\ Line(up[c].pieces) = <<header[c].word, "size">> /\ Admitted(header[c])
     THEN IF DestinationDir(header[c]) \in dirs
          THEN Serve(c)
          ELSE server' = At(c, "parent") /\ UNCHANGED down
     ELSE Return(c)
  /\ UNCHANGED <<header, client, dirs, faults>>

\* Mutant of LookForParent: the parent is taken to be missing.
AssumeNoParent(c) == server' = At(c, "mkparent")

\* dst_dir.parent.is_dir()
LookForParent(c) ==
  server' = At(c, IF Front(DestinationDir(header[c])) \in dirs THEN "mkdir" ELSE "mkparent")

\* mkdir raises if another process has been faster.
Make(c, dir, made) ==
  IF dir \in dirs THEN Return(c) /\ UNCHANGED dirs
  ELSE made /\ dirs' = dirs \cup {dir}

MakeDirs(c) ==
  /\ \/ /\ server[c].pc = "parent"
        /\ LookForParent(c)
        /\ UNCHANGED <<down, dirs>>
     \/ /\ server[c].pc = "mkparent"
        /\ Make(c, Front(DestinationDir(header[c])), server' = At(c, "mkdir") /\ UNCHANGED down)
     \/ /\ server[c].pc = "mkdir"
        /\ Make(c, DestinationDir(header[c]), Serve(c))
  /\ UNCHANGED <<header, client, up, faults>>

\* serve_client reads a command and acts on it, or raises.
ReadCommand(c) ==
  /\ Awake(c)
  /\ server[c].acted > 0
  /\ up' = [up EXCEPT ![c].pieces = <<>>]
  /\ \/ /\ Readable(up[c].pieces)
        /\ Line(up[c].pieces) \in {<<"data", "size", "size">>, <<"rename", "size">>}
        /\ server' = [server EXCEPT ![c].acted = @ + 1]
        /\ Write(c, Frame("ok", 0))
     \/ Return(c)
  /\ UNCHANGED <<header, client, dirs, faults>>

-----------------------------------------------------------------------------
(* What goes wrong *)

\* A reply takes longer than socket_timeout, or the agent ends.
GiveUp(c) == client[c].st # "away" /\ Close(c)

\* The connection breaks, for both.
Break(c) ==
  /\ client[c].st # "away"
  /\ ~up[c].eof /\ ~down[c].eof
  /\ \E s \in Heard(up[c].pieces), t \in Heard(down[c].pieces) :
       up' = Put(up, c, Closing(s)) /\ down' = Put(down, c, Closing(t))
  /\ UNCHANGED client

\* The first command takes longer than handshake_timeout.
HandshakeTimeout(c) ==
  /\ server[c].pc = "recv"
  /\ server[c].acted = 0
  /\ Idle(server[c].proc)
  /\ Return(c)

Fault(c) ==
  /\ faults < MaxFault
  /\ faults' = faults + 1
  /\ \/ GiveUp(c) /\ UNCHANGED server
     \/ Break(c) /\ UNCHANGED server
     \/ HandshakeTimeout(c) /\ UNCHANGED <<client, up>>
  /\ UNCHANGED <<header, dirs>>

-----------------------------------------------------------------------------
Init ==
  /\ header \in Headers
  /\ client = [c \in Client |-> [st |-> "away", frame |-> <<>>, asked |-> 0, answered |-> 0]]
  /\ server = [c \in Client |-> [pc |-> "none", proc |-> None, acted |-> 0]]
  /\ up     = [c \in Client |-> Closing(<<>>)]
  /\ down   = [c \in Client |-> Closing(<<>>)]
  /\ dirs   = {<<>>}
  /\ faults = 0

Handle(c) == ReadHeader(c) \/ MakeDirs(c) \/ ReadCommand(c)

Next == \E c \in Client : Connect(c) \/ Ask(c) \/ ReadReply(c) \/ Handle(c) \/ Fault(c)

Spec == Init /\ [][Next]_vars

\* The event loops run what can run; and an agent whose connection has failed
\* connects again (Segment._reconnect, or the coordinator with a new segment).
FairSpec ==
  Spec /\ \A c \in Client : WF_vars(Connect(c)) /\ WF_vars(ReadReply(c)) /\ WF_vars(Handle(c))

-----------------------------------------------------------------------------
(* Properties *)

\* What a client's latest connection counts for: a request lost with it was not asked.
Count(c) ==
  [asked    |-> IF up[c].eof /\ server[c].acted < client[c].asked
                   /\ up[c].pieces # client[c].frame
                THEN client[c].asked - 1 ELSE client[c].asked,
   acted    |-> server[c].acted,
   answered |-> client[c].answered]

Tallies == [c \in Client |-> Count(c)]

Agreed == INSTANCE Exchange WITH tally <- Tallies

\* The connection, in pieces and with ends anywhere, is as Agent.tla's wire has
\* it: nothing half received is acted on or taken for a reply, and replies are
\* never out of step with requests.
ExchangeSpec == Agreed!Spec

Serving(c) == server[c].pc = "recv" /\ server[c].acted > 0

Tilde(c) == Contains(header[c].directory, "~")

\* Two sources are never served the same file: as long as no directory has a
\* '~' in its name, the destination tells host and directory.
SourcesApart ==
  \A c, d \in Client :
    /\ Serving(c) /\ Serving(d) /\ ~Tilde(c) /\ ~Tilde(d)
    /\ DestinationDir(header[c]) = DestinationDir(header[d])
    => header[c].host = header[d].host /\ header[c].directory = header[d].directory

\* A client whose token or header is refused leaves no directory behind, however
\* handlers interleave.
NoTrace ==
  \A dir \in dirs \ {<<>>} :
    \E c \in Client : /\ Authentic(header[c]) /\ header[c].sound
                      /\ IsPrefix(dir, DestinationDir(header[c]))

Welcome(c) == Admitted(header[c]) /\ IsSafe(header[c].target)

\* Once nothing fails any more, every well-behaved agent that wants to be is
\* served: a process that loses the race for a directory refuses it once, not
\* for ever.
Served ==
  \A c \in Client :
    (Welcome(c) /\ client[c].st # "open") ~> (Welcome(c) /\ client[c].st = "open")

=============================================================================
