---------------------------- MODULE ServerProofs ----------------------------
(* What holds of Server.tla for all names, files, connections and payloads.   *)
EXTENDS Server, TLAPS

USE ServerAssumption

-----------------------------------------------------------------------------
(* Lemmas about the operators of the model *)

\* A write at any position keeps a file a sequence of payload bytes and zeroes.
LEMMA WriteAtType ==
  ASSUME NEW s \in Seq(Byte \cup {Hole}), NEW pos \in Nat, NEW data \in Seq(Byte)
  PROVE  /\ WriteAt(s, pos, data) \in Seq(Byte \cup {Hole})
         /\ pos = Len(s) => Len(WriteAt(s, pos, data)) = Len(s) + Len(data)
<1> DEFINE end == pos + Len(data)
           top == IF end > Len(s) THEN end ELSE Len(s)
<1>1. top \in Nat /\ top >= Len(s) /\ top >= end
  OBVIOUS
<1>2. ASSUME NEW i \in 1..top, i > pos, i <= end
      PROVE  data[i - pos] \in Byte
  <2>1. i - pos \in 1..Len(data)
    BY <1>1, <1>2
  <2> QED  BY <2>1
<1>3. WriteAt(s, pos, data) \in [1..top -> Byte \cup {Hole}]
  BY <1>1, <1>2 DEF WriteAt
<1>4. Len(WriteAt(s, pos, data)) = top
  BY <1>1 DEF WriteAt
<1> HIDE DEF top
<1>5. WriteAt(s, pos, data) \in Seq(Byte \cup {Hole})
  BY <1>1, <1>3
<1> QED  BY <1>4, <1>5 DEF top

\* A write at the end of a file only extends it.
LEMMA WriteAtEnd ==
  ASSUME NEW s \in Seq(Byte \cup {Hole}), NEW data \in Seq(Byte)
  PROVE  Extends(s, WriteAt(s, Len(s), data))
BY DEF Extends, WriteAt

\* A file extends itself.
LEMMA ExtendsRefl ==
  ASSUME NEW s \in Seq(Byte \cup {Hole})
  PROVE  Extends(s, s)
BY DEF Extends

\* A file freshly created is in no directory entry and behind no fd.
LEMMA NewFile ==
  ASSUME NEW f, Unused # {}, f = CHOOSE g \in Unused : TRUE
  PROVE  /\ f \in File
         /\ \A n \in Name : dir[n] # f
         /\ \A c \in Conn : handler[c].fd # f
BY DEF Unused, InUse, Linked, Held

-----------------------------------------------------------------------------
(* Type correctness *)

\* The payload of the frame being applied is a sequence of bytes.
LEMMA PayloadType ==
  ASSUME TypeOK, NEW c \in Conn, Acceptable(c)
  PROVE  handler[c].frame.data \in Seq(Byte)
<1>1. handler[c].frame \in Frame /\ handler[c].frame.data # Garbled
  BY DEF TypeOK, Handler, Acceptable
<1>2. CASE handler[c].frame = NoFrame
  BY <1>2 DEF NoFrame
<1>3. CASE handler[c].frame \in [off : Nat, data : Payload \cup {Garbled}]
  BY <1>1, <1>3
<1> QED  BY <1>1, <1>2, <1>3 DEF Frame

\* So is the record of what has been late.
LEMMA LateType ==
  ASSUME TypeOK, NEW c \in Conn, NEW kind \in {"frame", "rename"}, Lately(c, kind)
  PROVE  late' \subseteq {"frame", "rename"}
BY DEF TypeOK, Lately

\* A handler that has returned is well formed.
LEMMA ClosedType == WellFormed(Closed)
<1>1. Closed \in Handler
  BY DEF Closed, Handler, Frame
<1>2. Closed.st = "closed"
  BY DEF Closed
<1> QED  BY <1>1, <1>2 DEF WellFormed

\* A step that gives one handler a well-formed state leaves them all so.
LEMMA OneHandler ==
  ASSUME TypeOK, NEW c \in Conn, NEW h, WellFormed(h),
         handler' = [handler EXCEPT ![c] = h]
  PROVE  handler' \in [Conn -> Handler] /\ \A d \in Conn : WellFormed(handler'[d])
BY DEF TypeOK, WellFormed

\* The server starts well formed: no files, no connections.
LEMMA InitType == Init => TypeOK
<1> SUFFICES ASSUME Init PROVE TypeOK
  OBVIOUS
<1>1. handler = [c \in Conn |-> Closed] /\ WellFormed(Closed)
  BY ClosedType DEF Init
<1>2. handler \in [Conn -> Handler] /\ \A c \in Conn : WellFormed(handler[c])
  BY <1>1 DEF WellFormed
<1> QED  BY <1>2 DEF Init, TypeOK

\* A handler ended by an exception leaves everything well formed.
LEMMA RaiseType ==
  ASSUME TypeOK, NEW c \in Conn, Raise(c)
  PROVE  TypeOK'
<1>1. handler' \in [Conn -> Handler] /\ \A d \in Conn : WellFormed(handler'[d])
  BY ClosedType, OneHandler DEF Raise
<1> QED  BY <1>1 DEF Raise, TypeOK, files

\* The handshake (serve_client's open and seek) keeps the types.
LEMMA HelloType ==
  ASSUME TypeOK, NEW c \in Conn, NEW t \in Name, Hello(c, t)
  PROVE  TypeOK'
<1> DEFINE h == [Closed EXCEPT !.st = "serving", !.path = t, !.fd = dir[t],
                               !.pos = ReportedLength(t)]
<1>1. ReportedLength(t) \in Nat
  BY DEF ReportedLength, Exists, TypeOK
<1>2. Closed \in Handler
  BY ClosedType DEF WellFormed
<1>3. WellFormed(h)
  BY <1>1, <1>2 DEF WellFormed, TypeOK, Handler
<1>4. handler' = [handler EXCEPT ![c] = h]
  BY DEF Hello
<1> HIDE DEF h
<1>5. handler' \in [Conn -> Handler] /\ \A d \in Conn : WellFormed(handler'[d])
  BY <1>3, <1>4, OneHandler
<1> QED  BY <1>5 DEF Hello, TypeOK, files

\* A data frame's arrival keeps the types, whether it finds its file open or
\* creates it.
LEMMA DataType ==
  ASSUME TypeOK, NEW c \in Conn, NEW off \in 0..MaxLen, NEW data \in Payload \cup {Garbled},
         BeginOpen(c, off, data) \/ BeginCreate(c, off, data)
  PROVE  TypeOK'
<1> DEFINE frame == [off |-> off, data |-> data]
<1>1. frame \in Frame
  BY DEF Frame
<1>2. WellFormed(handler[c]) /\ handler[c].path \in Name
  BY DEF TypeOK, WellFormed, BeginOpen, BeginCreate
<1>3. CASE BeginOpen(c, off, data)
  <2> DEFINE h == [handler[c] EXCEPT !.st = "inflating", !.frame = frame]
  <2>1. WellFormed(h)
    BY <1>1, <1>2, <1>3 DEF WellFormed, Handler, BeginOpen
  <2>2. handler' = [handler EXCEPT ![c] = h]
    BY <1>3 DEF BeginOpen, TypeOK
  <2> HIDE DEF h
  <2>3. handler' \in [Conn -> Handler] /\ \A d \in Conn : WellFormed(handler'[d])
    BY <2>1, <2>2, OneHandler
  <2> QED  BY <1>3, <2>3 DEF BeginOpen, TypeOK, files
<1>4. CASE BeginCreate(c, off, data)
  <2> DEFINE path == handler[c].path
             f    == IF Exists(path) THEN dir[path] ELSE CHOOSE g \in Unused : TRUE
             h    == [handler[c] EXCEPT !.st = "inflating", !.fd = f, !.pos = 0,
                                        !.frame = frame]
  <2>1. f \in File
    BY <1>2, <1>4, NewFile DEF BeginCreate, TypeOK, Exists
  <2>2. /\ dir'     = [dir EXCEPT ![path] = f]
        /\ content' = [content EXCEPT ![f] = <<>>]
        /\ synced'  = [synced EXCEPT ![f] = 0]
        /\ fresh'   = IF Exists(path) THEN fresh ELSE fresh \cup {path}
    BY <1>4 DEF BeginCreate
  <2>3. handler' = [handler EXCEPT ![c] = h]
    BY <1>4 DEF BeginCreate, TypeOK
  <2> HIDE DEF f
  <2>4. WellFormed(h)
    BY <1>1, <1>2, <1>4, <2>1 DEF WellFormed, Handler, BeginCreate
  <2> HIDE DEF h
  <2>5. handler' \in [Conn -> Handler] /\ \A d \in Conn : WellFormed(handler'[d])
    BY <2>3, <2>4, OneHandler
  <2>6. late' \subseteq {"frame", "rename"}
    BY <1>4, LateType DEF BeginCreate
  <2> QED  BY <1>2, <2>1, <2>2, <2>5, <2>6 DEF TypeOK
<1> QED  BY <1>3, <1>4

\* So does apply_data's write, at whatever position.
LEMMA ApplyType ==
  ASSUME TypeOK, NEW c \in Conn, Apply(c)
  PROVE  TypeOK'
<1> DEFINE old  == handler[c]
           data == old.frame.data
           next == [old EXCEPT !.st = "serving", !.frame = NoFrame,
                               !.pos = @ + Len(data)]
           h    == IF old.gone THEN Closed ELSE next
<1>1. WellFormed(old) /\ old \in Handler /\ old.fd \in File /\ old.path \in Name /\ old.pos \in Nat
  BY DEF Apply, TypeOK, WellFormed, Handler
<1>2. data \in Seq(Byte) /\ Len(data) \in Nat
  BY PayloadType DEF Apply
<1>3. WriteAt(content[old.fd], old.pos, data) \in Seq(Byte \cup {Hole})
  BY <1>1, <1>2, WriteAtType DEF TypeOK
<1>4. content' \in [File -> Seq(Byte \cup {Hole})]
  BY <1>3 DEF Apply, TypeOK
<1>5. handler' = [handler EXCEPT ![c] = h]
  BY DEF Apply
<1>6. WellFormed(next)
  <2>1. old.pos + Len(data) \in Nat /\ NoFrame \in Frame
    BY <1>1, <1>2 DEF Frame
  <2> HIDE DEF data
  <2> QED  BY <1>1, <2>1 DEF WellFormed, Handler
<1> HIDE DEF data
<1>7. WellFormed(h)
  BY <1>6, ClosedType
<1> HIDE DEF h
<1>8. handler' \in [Conn -> Handler] /\ \A d \in Conn : WellFormed(handler'[d])
  BY <1>5, <1>7, OneHandler
<1> QED  BY <1>4, <1>8, LateType DEF Apply, TypeOK

\* So does handle_rename, applied or taken as applied.
LEMMA RenameType ==
  ASSUME TypeOK, NEW c \in Conn, NEW from \in Name, NEW to \in Name,
         Rename(c, from, to) \/ RenameNoop(c, from, to)
  PROVE  TypeOK'
<1> DEFINE next == [handler[c] EXCEPT !.path = to]
           h    == IF handler[c].gone THEN Closed
                   ELSE IF FdFollows(c, from) THEN next ELSE handler[c]
<1>1. WellFormed(handler[c]) /\ handler[c].st = "serving"
  BY DEF TypeOK, Rename, RenameNoop
<1>2. WellFormed(next)
  BY <1>1 DEF WellFormed, Handler
<1>3. WellFormed(h)
  BY <1>1, <1>2, ClosedType
<1>4. handler' = [handler EXCEPT ![c] = h]
  BY DEF Rename, RenameNoop, AfterRename
<1> HIDE DEF h
<1>5. handler' \in [Conn -> Handler] /\ \A d \in Conn : WellFormed(handler'[d])
  BY <1>3, <1>4, OneHandler
<1>6. synced' \in [File -> Nat]
  <2>1. handler[c].fd # None => Len(content[handler[c].fd]) \in Nat
    BY DEF TypeOK, Handler
  <2> QED  BY <2>1 DEF Rename, RenameNoop, FdFollows, TypeOK
<1> QED  BY <1>5, <1>6, LateType DEF Rename, RenameNoop, TypeOK

\* What HangUp leaves of each handler.
LEMMA AfterHangUp ==
  ASSUME TypeOK, NEW C \in SUBSET Conn, HangUp(C), NEW d \in Conn
  PROVE  /\ \/ handler'[d] = handler[d]
            \/ handler'[d] = Closed
            \/ /\ d \in Attended
               /\ handler'[d] = [handler[d] EXCEPT !.gone = TRUE]
         /\ handler' = [c \in Conn |-> handler'[c]]
         /\ UNCHANGED files
BY DEF HangUp

\* So does the loss of any set of connections.
LEMMA HangUpType ==
  ASSUME TypeOK, NEW C \in SUBSET Conn, HangUp(C)
  PROVE  TypeOK'
<1>1. ASSUME NEW d \in Conn PROVE WellFormed(handler'[d])
  <2>1. WellFormed(handler[d])
    BY DEF TypeOK
  <2>2. CASE handler'[d] \in {handler[d], Closed}
    BY <2>1, <2>2, ClosedType
  <2>3. CASE /\ d \in Attended
             /\ handler'[d] = [handler[d] EXCEPT !.gone = TRUE]
    <3>1. handler[d] \in Handler /\ handler[d].st # "closed"
      BY <2>1, <2>3 DEF WellFormed, Attended, Open
    <3> DEFINE h == [handler[d] EXCEPT !.gone = TRUE]
    <3>2. WellFormed(h)
      BY <2>1, <3>1 DEF WellFormed, Handler
    <3> QED  BY <2>3, <3>2
  <2> QED  BY <2>2, <2>3, AfterHangUp
<1>2. UNCHANGED files /\ handler' = [d \in Conn |-> handler'[d]]
  BY DEF HangUp
<1>3. handler' \in [Conn -> Handler] /\ \A d \in Conn : WellFormed(handler'[d])
  BY <1>1, <1>2 DEF WellFormed
<1> QED  BY <1>2, <1>3 DEF TypeOK, files

\* A power loss leaves well-formed files: what survives of each is a prefix.
LEMMA PowerLossType ==
  ASSUME TypeOK, PowerLoss
  PROVE  TypeOK'
<1> DEFINE linked == {f \in File : \E n \in Name : dir'[n] = f}
<1>1. PICK kept \in [linked -> 0..MaxLen] :
        /\ \A f \in DOMAIN kept : kept[f] \in synced[f]..Len(content[f])
        /\ content' = [f \in File |-> IF f \in DOMAIN kept THEN SubSeq(content[f], 1, kept[f])
                                      ELSE <<>>]
        /\ synced'  = [f \in File |-> IF f \in DOMAIN kept THEN kept[f] ELSE 0]
  BY DEF PowerLoss
<1>2. content' \in [File -> Seq(Byte \cup {Hole})]
  <2>1. ASSUME NEW f \in DOMAIN kept
        PROVE  SubSeq(content[f], 1, kept[f]) \in Seq(Byte \cup {Hole})
    <3>1. content[f] \in Seq(Byte \cup {Hole}) /\ kept[f] \in Nat /\ synced[f] \in Nat
      BY DEF TypeOK
    <3>2. kept[f] <= Len(content[f])
      BY <1>1, <3>1
    <3> QED  BY <3>1, <3>2
  <2> QED  BY <1>1, <2>1
<1>3. synced' \in [File -> Nat]
  BY <1>1
<1>4. dir' \in [Name -> File \cup {None}] /\ fresh' \subseteq Name
  BY DEF PowerLoss, TypeOK
<1>5. handler' \in [Conn -> Handler] /\ \A c \in Conn : WellFormed(handler'[c])
  BY ClosedType DEF PowerLoss, WellFormed
<1> QED  BY <1>2, <1>3, <1>4, <1>5 DEF TypeOK, PowerLoss

\* Every step of the server keeps the types.
LEMMA NextType == TypeOK /\ [Next]_vars => TypeOK'
<1> SUFFICES ASSUME TypeOK, [Next]_vars PROVE TypeOK'
  OBVIOUS
<1>1. CASE UNCHANGED vars
  BY <1>1 DEF TypeOK, vars, WellFormed
<1>2. CASE PowerLoss
  BY <1>2, PowerLossType
<1>3. ASSUME NEW c \in Conn, Step(c) PROVE TypeOK'
  <2>1. CASE Connect(c)
    BY <2>1, HelloType DEF Connect
  <2>2. CASE Data(c)
    BY <2>2, DataType, RaiseType DEF Data, BeginReject
  <2>3. CASE Relabel(c)
    BY <2>3, RenameType, RaiseType DEF Relabel, RenameReject
  <2>4. CASE Apply(c)
    BY <2>4, ApplyType
  <2>5. CASE ApplyReject(c) \/ Malformed(c) \/ Eof(c)
    BY <2>5, RaiseType DEF ApplyReject, Malformed, Eof
  <2> QED  BY <1>3, <2>1, <2>2, <2>3, <2>4, <2>5 DEF Step
<1>4. CASE \E C \in SUBSET Conn : HangUp(C)
  BY <1>4, HangUpType
<1> QED  BY <1>1, <1>2, <1>3, <1>4 DEF Next

\* Whatever the clients send and whenever the power fails, directory, files and
\* handlers are well formed (handle_client, serve_client, apply_data,
\* handle_rename).
THEOREM TypeCorrect == Spec => []TypeOK
<1>1. Init => TypeOK
  BY InitType
<1>2. TypeOK /\ [Next]_vars => TypeOK'
  BY NextType
<1> QED  BY <1>1, <1>2, PTL DEF Spec

-----------------------------------------------------------------------------
(* Who holds what.  SoleWriter and PathIsName are inductive together with  *)
(* one more fact: a connection that shares its target with another has the     *)
(* file already, so it will never create it under the other's feet.            *)

SharedPathsOpen ==
  \A c, d \in Attended : c # d /\ handler[c].path = handler[d].path => handler[c].fd # None

Bindings == SoleWriter /\ PathIsName /\ SharedPathsOpen

\* Steps that bind nothing new: they leave the directory alone, and every
\* attended handler was attended before, with the same path and fd.
LEMMA Unbinding ==
  ASSUME Bindings, UNCHANGED dir, Attended' \subseteq Attended,
         \A d \in Attended' : /\ handler'[d].path = handler[d].path
                              /\ handler'[d].fd = handler[d].fd
  PROVE  Bindings'
<1>1. SoleWriter'
  BY DEF Bindings, SoleWriter, Exists
<1>2. PathIsName'
  BY DEF Bindings, PathIsName
<1>3. SharedPathsOpen'
  BY DEF Bindings, SharedPathsOpen
<1> QED  BY <1>1, <1>2, <1>3 DEF Bindings

\* A handler that ends binds nothing.
LEMMA RaiseBindings ==
  ASSUME TypeOK, Bindings, NEW c \in Conn, Raise(c)
  PROVE  Bindings'
<1>1. Attended' \subseteq Attended /\ \A d \in Attended' : handler'[d] = handler[d]
  BY DEF Raise, Attended, Open, Closed, TypeOK
<1> QED  BY <1>1, Unbinding DEF Raise, files

\* A client that connects for a target no other has binds a path and a file no
\* other handler has.
LEMMA HelloBindings ==
  ASSUME TypeOK, Bindings, NEW c \in Conn, NEW t \in Name, MayHello(c, t), Hello(c, t)
  PROVE  Bindings'
<1>1. /\ dir' = dir
      /\ handler'[c].path = t
      /\ handler'[c].fd = dir[t]
      /\ c \notin Attended
      /\ \A d \in Conn \ {c} : handler'[d] = handler[d]
      /\ Attended' \subseteq Attended \cup {c}
      /\ \A d \in Attended : d # c /\ d \in Conn
  BY DEF Hello, TypeOK, files, Closed, Attended, Open
<1>2. \A d \in Attended : handler[d].path # t /\ (dir[t] = None \/ handler[d].fd # dir[t])
  BY DEF MayHello, Bindings, PathIsName
<1>3. SoleWriter'
  BY <1>1, <1>2 DEF Bindings, SoleWriter, Exists
<1>4. PathIsName'
  BY <1>1, <1>2 DEF Bindings, PathIsName, SoleWriter, Exists
<1>5. SharedPathsOpen'
  BY <1>1, <1>2 DEF Bindings, SharedPathsOpen
<1> QED  BY <1>3, <1>4, <1>5 DEF Bindings

\* A file created by a data frame is new, or one that only this handler's path
\* names.
LEMMA DataBindings ==
  ASSUME TypeOK, Bindings, NEW c \in Conn, NEW off \in 0..MaxLen,
         NEW data \in Payload \cup {Garbled},
         BeginOpen(c, off, data) \/ BeginCreate(c, off, data)
  PROVE  Bindings'
<1>1. CASE BeginOpen(c, off, data)
  <2>1. /\ Attended' \subseteq Attended
        /\ \A d \in Attended' : /\ handler'[d].path = handler[d].path
                                /\ handler'[d].fd = handler[d].fd
    BY <1>1 DEF BeginOpen, Attended, Open, TypeOK, Handler
  <2> QED  BY <1>1, <2>1, Unbinding DEF BeginOpen, files
<1>2. CASE BeginCreate(c, off, data)
  <2> DEFINE path == handler[c].path
             f    == IF Exists(path) THEN dir[path] ELSE CHOOSE g \in Unused : TRUE
  <2>1. path \in Name
    BY <1>2 DEF BeginCreate, TypeOK, WellFormed
  <2>2. /\ f \in File
        /\ \A n \in Name : dir[n] = f => n = path
        /\ c \in Attended => \A d \in Attended \ {c} : handler[d].fd # f
        /\ IF Exists(path) THEN f = dir[path]
                          ELSE \A d \in Attended : handler[d].fd # f
    <3>1. CASE Exists(path)
      <4>1. f = dir[path] /\ f \in File
        BY <2>1, <3>1 DEF TypeOK, Exists
      <4>2. ASSUME c \in Attended, NEW d \in Attended \ {c}, handler[d].fd = f
            PROVE  FALSE
        <5>1. handler[d].path = path
          BY <2>1, <4>1, <4>2 DEF Bindings, PathIsName
        <5> QED  BY <1>2, <4>2, <5>1 DEF Bindings, SharedPathsOpen, BeginCreate
      <4> QED  BY <2>1, <3>1, <4>1, <4>2 DEF Bindings, SoleWriter
    <3>2. CASE ~Exists(path)
      BY <1>2, <3>2, NewFile DEF BeginCreate, Attended, Open
    <3> QED  BY <3>1, <3>2
  <2>3. /\ dir' = [dir EXCEPT ![path] = f]
        /\ handler' = [handler EXCEPT ![c].st = "inflating", ![c].fd = f, ![c].pos = 0,
                                      ![c].frame = [off |-> off, data |-> data]]
        /\ handler[c].st = "serving"
    BY <1>2 DEF BeginCreate
  <2> HIDE DEF f
  <2>4. handler'[c].fd = f /\ handler'[c].path = path /\ handler'[c].gone = handler[c].gone
    BY <2>3 DEF TypeOK, Handler
  <2>5. /\ \A d \in Conn \ {c} : handler'[d] = handler[d]
        /\ Attended' \subseteq Attended
        /\ Attended \subseteq Conn
    BY <2>3, <2>4 DEF TypeOK, Attended, Open
  <2> HIDE DEF path
  <2>6. SoleWriter'
    <3>1. \A d, e \in Attended' :
            handler'[d].fd # None /\ handler'[d].fd = handler'[e].fd => d = e
      BY <2>2, <2>4, <2>5 DEF Bindings, SoleWriter
    <3>2. \A m, n \in Name : dir'[m] # None /\ dir'[m] = dir'[n] => m = n
      BY <2>1, <2>2, <2>3 DEF Bindings, SoleWriter, Exists, TypeOK
    <3> QED  BY <3>1, <3>2 DEF SoleWriter, Exists
  <2>7. PathIsName'
    <3> SUFFICES ASSUME NEW d \in Attended', NEW n \in Name,
                        handler'[d].fd # None, handler'[d].fd = dir'[n]
                 PROVE  handler'[d].path = n
      BY DEF PathIsName
    <3>1. d \in Attended /\ dir'[path] = f /\ \A m \in Name \ {path} : dir'[m] = dir[m]
      BY <2>1, <2>3, <2>5 DEF TypeOK
    <3>2. CASE d = c
      BY <2>1, <2>2, <2>4, <3>1, <3>2
    <3>3. CASE d # c
      BY <2>1, <2>2, <2>5, <3>1, <3>3 DEF Bindings, PathIsName
    <3> QED  BY <3>2, <3>3
  <2>8. SharedPathsOpen'
    BY <2>2, <2>4, <2>5 DEF Bindings, SharedPathsOpen, path
  <2> QED  BY <2>6, <2>7, <2>8 DEF Bindings
<1> QED  BY <1>1, <1>2

\* A rename that respects the other connections' targets keeps every path with
\* its file, through serve_client's dst_path.
LEMMA RenameBindings ==
  ASSUME TypeOK, Bindings, NEW c \in Attended, NEW from \in Name, NEW to \in Name,
         MayRename(c, from, to), Rename(c, from, to) \/ RenameNoop(c, from, to)
  PROVE  Bindings'
<1> DEFINE follows == FdFollows(c, from)
           next == IF follows THEN [handler[c] EXCEPT !.path = to] ELSE handler[c]
<1>0. c \in Conn /\ ~handler[c].gone /\ handler[c] \in Handler
  BY DEF Attended, Open, TypeOK
<1>1. /\ Attended \subseteq Conn
      /\ Attended' \subseteq Attended
      /\ \A d \in Attended' : handler'[d].fd = handler[d].fd
      /\ \A d \in Attended' \ {c} : handler'[d].path = handler[d].path
      /\ c \in Attended' =>
           handler'[c].path = IF follows THEN to ELSE handler[c].path
  <2>1. handler' = [handler EXCEPT ![c] = next]
    BY <1>0 DEF Rename, RenameNoop, AfterRename
  <2>2. /\ next.fd = handler[c].fd
        /\ next.path = IF follows THEN to ELSE handler[c].path
    BY <1>0 DEF Handler
  <2> HIDE DEF next, follows
  <2>3. handler'[c] = next /\ \A d \in Conn \ {c} : handler'[d] = handler[d]
    BY <1>0, <2>1 DEF TypeOK
  <2> QED  BY <1>0, <2>2, <2>3 DEF Attended, Open
<1>2. from # to /\ to # handler[c].path
  BY <1>0 DEF MayRename
<1>3. \A d \in Attended \ {c} : /\ handler[d].path # from
                                /\ handler[d].path = to => handler[d].fd # None
  BY <1>0 DEF MayRename
<1>4. SharedPathsOpen'
  BY <1>1, <1>3 DEF Bindings, SharedPathsOpen, FdFollows
<1>5. CASE Rename(c, from, to)
  <2>1. /\ dir[from] # None
        /\ dir' = [dir EXCEPT ![from] = None, ![to] = dir[from]]
    BY <1>5 DEF Rename, Exists
  <2>2. /\ dir'[to] = dir[from] /\ dir'[from] = None
        /\ \A n \in Name \ {from, to} : dir'[n] = dir[n]
    BY <1>2, <2>1 DEF TypeOK
  <2>3. SoleWriter'
    <3>1. \A d, e \in Attended' :
            handler'[d].fd # None /\ handler'[d].fd = handler'[e].fd => d = e
      BY <1>1 DEF Bindings, SoleWriter
    <3>2. \A m, n \in Name : dir'[m] # None /\ dir'[m] = dir'[n] => m = n
      BY <1>2, <2>1, <2>2 DEF Bindings, SoleWriter, Exists
    <3> QED  BY <3>1, <3>2 DEF SoleWriter, Exists
  <2>4. PathIsName'
    <3> SUFFICES ASSUME NEW d \in Attended', NEW n \in Name,
                        handler[d].fd # None, handler[d].fd = dir'[n]
                 PROVE  handler'[d].path = n
      BY <1>1 DEF PathIsName
    <3>1. CASE n = to
      <4>1. handler[d].path = from
        BY <1>1, <2>2, <3>1 DEF Bindings, PathIsName
      <4> QED  BY <1>1, <1>3, <3>1, <4>1 DEF FdFollows
    <3>2. CASE n # to
      <4>1. n # from /\ handler[d].path = n
        BY <1>1, <2>2, <3>2 DEF Bindings, PathIsName
      <4> QED  BY <1>1, <4>1 DEF FdFollows
    <3> QED  BY <3>1, <3>2
  <2> QED  BY <1>4, <2>3, <2>4 DEF Bindings
<1>6. CASE RenameNoop(c, from, to)
  <2>1. dir' = dir /\ dir[from] = None
    BY <1>6 DEF RenameNoop, Exists
  <2>2. SoleWriter'
    BY <1>1, <2>1 DEF Bindings, SoleWriter, Exists
  <2>3. PathIsName'
    BY <1>1, <2>1 DEF Bindings, PathIsName, FdFollows
  <2> QED  BY <1>4, <2>2, <2>3 DEF Bindings
<1> QED  BY <1>5, <1>6

\* A write binds nothing.
LEMMA ApplyBindings ==
  ASSUME TypeOK, Bindings, NEW c \in Conn, Apply(c)
  PROVE  Bindings'
<1>1. /\ Attended' \subseteq Attended
      /\ \A d \in Attended' : /\ handler'[d].path = handler[d].path
                              /\ handler'[d].fd = handler[d].fd
  BY DEF Apply, Attended, Open, TypeOK, Handler, Closed
<1> QED  BY <1>1, Unbinding DEF Apply

\* After HangUp the attended handlers are among those there were, unchanged.
LEMMA HangUpAttended ==
  ASSUME TypeOK, NEW C \in SUBSET Conn, HangUp(C)
  PROVE  /\ Attended' \subseteq Attended
         /\ \A d \in Attended' : handler'[d] = handler[d]
<1> SUFFICES ASSUME NEW d \in Attended'
             PROVE  d \in Attended /\ handler'[d] = handler[d]
  OBVIOUS
<1>1. d \in Conn /\ handler'[d].st # "closed" /\ ~handler'[d].gone
  BY DEF Attended, Open
<1>2. handler[d] \in Handler
  BY <1>1 DEF TypeOK
<1>3. handler'[d] # Closed /\ handler'[d] # [handler[d] EXCEPT !.gone = TRUE]
  BY <1>1, <1>2 DEF Closed, Handler
<1>4. handler'[d] = handler[d]
  BY <1>1, <1>3, AfterHangUp
<1> QED  BY <1>1, <1>4 DEF Attended, Open

\* Connections that are lost bind nothing.
LEMMA HangUpBindings ==
  ASSUME TypeOK, Bindings, NEW C \in SUBSET Conn, HangUp(C)
  PROVE  Bindings'
<1>1. UNCHANGED files
  BY DEF HangUp
<1> QED  BY <1>1, HangUpAttended, Unbinding DEF files

\* After a power loss no handler is left, and no file has two names.
LEMMA PowerLossBindings ==
  ASSUME TypeOK, Bindings, PowerLoss
  PROVE  Bindings'
<1>1. Attended' = {}
  BY DEF PowerLoss, Attended, Open, Closed
<1>2. \A n \in Name : dir'[n] = None \/ dir'[n] = dir[n]
  BY DEF PowerLoss
<1> QED  BY <1>1, <1>2 DEF Bindings, SoleWriter, PathIsName, SharedPathsOpen, Exists

\* A rename that comes late and is a no-op ends its handler.
LEMMA LateNoop ==
  ASSUME TypeOK, NEW c \in Conn, handler[c].gone, NEW from \in Name, NEW to \in Name,
         RenameNoop(c, from, to)
  PROVE  /\ UNCHANGED <<dir, content>>
         /\ Attended' \subseteq Attended
         /\ \A d \in Attended' : handler'[d] = handler[d]
<1>1. handler' = [handler EXCEPT ![c] = Closed]
  BY DEF RenameNoop, AfterRename
<1> QED  BY <1>1 DEF RenameNoop, Attended, Open, Closed, TypeOK

\* What has been late stays so.
LEMMA LateGrows ==
  ASSUME [Next]_vars
  PROVE  late \subseteq late'
<1>1. ASSUME NEW c \in Conn, Step(c) PROVE late \subseteq late'
  <2>1. late' = late \/ \E kind : Lately(c, kind)
    <3>1. CASE Connect(c) \/ Malformed(c) \/ Eof(c)
      BY <3>1 DEF Connect, Hello, Malformed, Eof, Raise, files
    <3>2. CASE Data(c)
      BY <3>2 DEF Data, BeginOpen, BeginCreate, BeginReject, Raise, files
    <3>3. CASE Relabel(c)
      BY <3>3 DEF Relabel, Rename, RenameNoop, RenameReject, Raise, files
    <3>4. CASE Apply(c) \/ ApplyReject(c)
      BY <3>4 DEF Apply, ApplyReject, Raise, files
    <3> QED  BY <1>1, <3>1, <3>2, <3>3, <3>4 DEF Step
  <2> QED  BY <2>1 DEF Lately
<1>2. CASE PowerLoss
  BY <1>2 DEF PowerLoss
<1>3. CASE \E C \in SUBSET Conn : HangUp(C)
  BY <1>3 DEF HangUp, files
<1>4. CASE UNCHANGED vars
  BY <1>4 DEF vars
<1> QED  BY <1>1, <1>2, <1>3, <1>4 DEF Next

\* Every step keeps paths and files bound one to one, but for a late rename.
LEMMA NextBindings ==
  ASSUME TypeOK, Bindings, [Next]_vars, "rename" \notin late'
  PROVE  Bindings'
<1>1. CASE UNCHANGED vars
  BY <1>1, Unbinding DEF vars, Attended, Open
<1>2. CASE PowerLoss
  BY <1>2, PowerLossBindings
<1>3. ASSUME NEW c \in Conn, Step(c) PROVE Bindings'
  <2>1. CASE Connect(c)
    BY <2>1, HelloBindings DEF Connect
  <2>2. CASE Data(c)
    BY <2>2, DataBindings, RaiseBindings DEF Data, BeginReject
  <2>3. CASE Relabel(c)
    <3>1. PICK from, to \in Name :
            /\ Rename(c, from, to) \/ RenameNoop(c, from, to) \/ RenameReject(c, from, to)
            /\ MayRename(c, from, to)
      BY <2>3 DEF Relabel
    <3>2. CASE RenameReject(c, from, to)
      BY <3>2, RaiseBindings DEF RenameReject
    <3>3. CASE ~handler[c].gone /\ ~RenameReject(c, from, to)
      <4>1. c \in Attended
        BY <3>1, <3>3 DEF Rename, RenameNoop, Attended, Open
      <4> QED  BY <3>1, <3>3, <4>1, RenameBindings
    <3>4. CASE handler[c].gone /\ RenameNoop(c, from, to)
      BY <3>4, LateNoop, Unbinding
    <3>5. CASE handler[c].gone /\ Rename(c, from, to)
      BY <3>5 DEF Rename, Lately
    <3> QED  BY <3>1, <3>2, <3>3, <3>4, <3>5
  <2>4. CASE Apply(c)
    BY <2>4, ApplyBindings
  <2>5. CASE ApplyReject(c) \/ Malformed(c) \/ Eof(c)
    BY <2>5, RaiseBindings DEF ApplyReject, Malformed, Eof
  <2> QED  BY <1>3, <2>1, <2>2, <2>3, <2>4, <2>5 DEF Step
<1>4. CASE \E C \in SUBSET Conn : HangUp(C)
  BY <1>4, HangUpBindings
<1> QED  BY <1>1, <1>2, <1>3, <1>4 DEF Next

\* Nothing is bound at the start.
LEMMA InitBindings == Init => Bindings
BY DEF Init, Bindings, SoleWriter, PathIsName, SharedPathsOpen, Attended, Open,
       Closed, Exists

\* The inductive invariant behind OneWriter and PathFollowsFile.
Bound == TypeOK /\ ("rename" \notin late => Bindings)

\* It holds of the server.
THEOREM BindingsHold == Spec => []Bound
<1>1. Init => Bound
  BY InitType, InitBindings DEF Bound
<1>2. Bound /\ [Next]_vars => Bound'
  <2> SUFFICES ASSUME Bound, [Next]_vars PROVE Bound'
    OBVIOUS
  <2>1. TypeOK'
    BY NextType DEF Bound
  <2>2. ASSUME "rename" \notin late' PROVE Bindings'
    BY <2>2, LateGrows, NextBindings DEF Bound
  <2> QED  BY <2>1, <2>2 DEF Bound
<1> QED  BY <1>1, <1>2, PTL DEF Spec

\* No file ever has two writers or two names, though the server arbitrates
\* nothing (serve_client, handle_rename): even when it still serves data frames
\* of connections their clients have given up.
THEOREM OneWriterHolds == Spec => []OneWriter
<1>1. Bound => OneWriter
  BY DEF Bound, Bindings, OneWriter
<1> QED  BY <1>1, BindingsHold, PTL

\* The path a handler carries through renames stays that of its open file
\* (handle_rename's fd_follows).
THEOREM PathFollowsFileHolds == Spec => []PathFollowsFile
<1>1. Bound => PathFollowsFile
  BY DEF Bound, Bindings, PathFollowsFile
<1> QED  BY <1>1, BindingsHold, PTL

-----------------------------------------------------------------------------
(* Appending.  As long as no abandoned handler has touched a file, an attended *)
(* handler without an fd has found no file and still would, so open('wb+')     *)
(* always creates, and the one writer of a file stands at its end.             *)

Prompt ==
  /\ \A c \in Attended : handler[c].fd = None => ~Exists(handler[c].path)
  /\ AtEnd

Inv == Bound /\ (late = {} => Prompt)

\* Steps that touch no file, and no attended handler but to drop it.
LEMMA Quiet ==
  ASSUME TypeOK, Prompt, UNCHANGED <<dir, content>>, Attended' \subseteq Attended,
         \A d \in Attended' : /\ handler'[d].path = handler[d].path
                              /\ handler'[d].fd = handler[d].fd
                              /\ handler'[d].pos = handler[d].pos
  PROVE  Prompt'
<1>1. \A d \in Attended' : handler'[d].fd = None => ~Exists(handler[d].path)'
  BY DEF Prompt, Exists
<1>2. AtEnd'
  BY DEF Prompt, AtEnd
<1> QED  BY <1>1, <1>2 DEF Prompt

\* A handler that ends leaves the others as they were.
LEMMA RaisePrompt ==
  ASSUME TypeOK, Prompt, NEW c \in Conn, Raise(c)
  PROVE  Prompt'
<1>1. /\ Attended' \subseteq Attended
      /\ \A d \in Attended' : handler'[d] = handler[d]
  BY DEF Raise, Attended, Open, Closed, TypeOK, Prompt
<1> QED  BY <1>1, Quiet DEF Raise, files

\* serve_client's seek to the end puts the position at the file's length.
LEMMA HelloPrompt ==
  ASSUME TypeOK, Prompt, NEW c \in Conn, NEW t \in Name, Hello(c, t)
  PROVE  Prompt'
<1>1. /\ dir' = dir /\ content' = content
      /\ handler'[c].path = t
      /\ handler'[c].fd = dir[t]
      /\ handler'[c].pos = ReportedLength(t)
      /\ \A d \in Conn \ {c} : handler'[d] = handler[d]
      /\ Attended' \subseteq Attended \cup {c}
      /\ Attended \subseteq Conn
  BY DEF Hello, TypeOK, files, Closed, Attended, Open, Prompt
<1>2. \A d \in Attended' : handler'[d].fd = None => dir'[handler'[d].path] = None
  BY <1>1 DEF Prompt, Exists
<1>3. AtEnd'
  BY <1>1 DEF Prompt, AtEnd, ReportedLength, Exists
<1> QED  BY <1>1, <1>2, <1>3 DEF Prompt, Exists

\* With no frame outliving its connection, open('wb+') meets no existing file:
\* what it makes is new.
LEMMA CreateFresh ==
  ASSUME TypeOK, Prompt, NEW c \in Attended, NEW off \in 0..MaxLen,
         NEW data \in Payload \cup {Garbled}, BeginCreate(c, off, data)
  PROVE  \E f \in Unused :
           /\ \A d \in Conn : handler[d].fd # f
           /\ dir' = [dir EXCEPT ![handler[c].path] = f]
           /\ content' = [content EXCEPT ![f] = <<>>]
           /\ handler'[c].fd = f
           /\ handler'[c].pos = 0
           /\ handler'[c].path = handler[c].path
           /\ ~handler'[c].gone
           /\ \A d \in Conn \ {c} : handler'[d] = handler[d]
           /\ c \in Attended
           /\ Attended' \subseteq Attended
<1> DEFINE f == CHOOSE g \in Unused : TRUE
<1>1. c \in Attended /\ c \in Conn /\ ~handler[c].gone /\ handler[c].fd = None
  BY DEF BeginCreate, Attended, Open
<1>2. ~Exists(handler[c].path)
  BY <1>1 DEF Prompt
<1>3. /\ Unused # {}
      /\ dir' = [dir EXCEPT ![handler[c].path] = f]
      /\ content' = [content EXCEPT ![f] = <<>>]
      /\ handler' = [handler EXCEPT ![c].st = "inflating", ![c].fd = f, ![c].pos = 0,
                                    ![c].frame = [off |-> off, data |-> data]]
  BY <1>2 DEF BeginCreate
<1>4. f \in Unused /\ \A d \in Conn : handler[d].fd # f
  BY <1>3, NewFile
<1> HIDE DEF f
<1>5. /\ handler'[c].fd = f
      /\ handler'[c].pos = 0
      /\ handler'[c].path = handler[c].path
      /\ handler'[c].gone = handler[c].gone
      /\ \A d \in Conn \ {c} : handler'[d] = handler[d]
  BY <1>1, <1>3 DEF TypeOK, Handler
<1>6. Attended' \subseteq Attended
  BY <1>1, <1>5 DEF Attended, Open
<1> QED  BY <1>1, <1>3, <1>4, <1>5, <1>6 DEF Prompt

\* A data frame's arrival keeps every position at its file's length.
LEMMA DataPrompt ==
  ASSUME TypeOK, Bindings, Prompt, NEW c \in Attended, NEW off \in 0..MaxLen,
         NEW data \in Payload \cup {Garbled},
         BeginOpen(c, off, data) \/ BeginCreate(c, off, data)
  PROVE  Prompt'
<1>1. CASE BeginOpen(c, off, data)
  <2>1. /\ Attended' \subseteq Attended
        /\ \A d \in Attended' : /\ handler'[d].path = handler[d].path
                                /\ handler'[d].fd = handler[d].fd
                                /\ handler'[d].pos = handler[d].pos
    BY <1>1 DEF BeginOpen, Attended, Open, TypeOK, Handler, Prompt
  <2> QED  BY <1>1, <2>1, Quiet DEF BeginOpen, files
<1>2. CASE BeginCreate(c, off, data)
  <2>1. PICK f \in Unused :
          /\ \A d \in Conn : handler[d].fd # f
          /\ dir' = [dir EXCEPT ![handler[c].path] = f]
          /\ content' = [content EXCEPT ![f] = <<>>]
          /\ handler'[c].fd = f
          /\ handler'[c].pos = 0
          /\ handler'[c].path = handler[c].path
          /\ ~handler'[c].gone
          /\ \A d \in Conn \ {c} : handler'[d] = handler[d]
          /\ c \in Attended
          /\ Attended' \subseteq Attended
    BY <1>2, CreateFresh
  <2>2. f \in File /\ f # None /\ Attended \subseteq Conn
    BY DEF Unused, Attended, Open
  <2>3. \A d \in Attended' : handler'[d].fd = None => dir'[handler'[d].path] = None
    <3> SUFFICES ASSUME NEW d \in Attended', handler'[d].fd = None
                 PROVE  dir'[handler'[d].path] = None
      BY DEF Exists
    <3>1. d # c /\ handler'[d] = handler[d] /\ d \in Attended
      BY <2>1, <2>2
    <3>2. handler[d].path # handler[c].path
      BY <2>1, <3>1 DEF Bindings, SharedPathsOpen
    <3>3. dir[handler[d].path] = None
      BY <3>1 DEF Prompt, Exists
    <3>4. handler[d].path \in Name
      BY <3>1 DEF TypeOK, WellFormed, Attended, Open
    <3> QED  BY <2>1, <3>1, <3>2, <3>3, <3>4 DEF TypeOK
  <2>4. AtEnd'
    <3> SUFFICES ASSUME NEW d \in Attended', handler'[d].fd # None
                 PROVE  handler'[d].pos = Len(content'[handler'[d].fd])
      BY DEF AtEnd
    <3>1. CASE d = c
      BY <2>1, <2>2, <3>1 DEF TypeOK
    <3>2. CASE d # c
      <4>1. handler'[d] = handler[d] /\ handler[d].fd \in File \ {f} /\ d \in Attended
        BY <2>1, <2>2, <3>2 DEF TypeOK, Handler
      <4> QED  BY <2>1, <4>1 DEF Prompt, AtEnd, TypeOK
    <3> QED  BY <3>1, <3>2
  <2> QED  BY <2>3, <2>4 DEF Prompt, Exists
<1> QED  BY <1>1, <1>2

\* apply_data's write moves the position and the length together, and no other
\* handler has the file.
LEMMA ApplyPrompt ==
  ASSUME TypeOK, Bindings, Prompt, NEW c \in Attended, Apply(c)
  PROVE  Prompt'
<1> DEFINE old  == handler[c]
           data == old.frame.data
           next == [old EXCEPT !.st = "serving", !.frame = NoFrame, !.pos = @ + Len(data)]
<1>1. /\ old \in Handler /\ old.fd \in File /\ old.pos \in Nat /\ ~old.gone
      /\ c \in Conn
  BY DEF Apply, TypeOK, WellFormed, Handler, Attended, Open
<1>2. data \in Seq(Byte)
  BY <1>1, PayloadType DEF Apply
<1>3. old.pos = Len(content[old.fd]) /\ old.fd # None
  BY <1>1 DEF Prompt, AtEnd
<1>4. Len(WriteAt(content[old.fd], old.pos, data)) = old.pos + Len(data)
  <2>1. content[old.fd] \in Seq(Byte \cup {Hole})
    BY <1>1 DEF TypeOK
  <2>2. /\ data \in Seq(Byte) /\ old.pos \in Nat
        /\ old.pos = Len(content[old.fd])
    BY <1>1, <1>2, <1>3
  <2> HIDE DEF data, old
  <2> QED  BY <2>1, <2>2, WriteAtType
<1>5. /\ dir' = dir
      /\ handler' = [handler EXCEPT ![c] = next]
      /\ content' = [content EXCEPT ![old.fd] = WriteAt(content[old.fd], old.pos, data)]
  BY <1>1 DEF Apply
<1>6. /\ next.fd = old.fd /\ next.path = old.path /\ next.gone = old.gone
      /\ next.pos = old.pos + Len(data)
  BY <1>1 DEF Handler
<1> HIDE DEF data, next
<1>7. /\ handler'[c] = next
      /\ \A d \in Conn \ {c} : handler'[d] = handler[d]
      /\ content'[old.fd] = WriteAt(content[old.fd], old.pos, data)
      /\ \A f \in File \ {old.fd} : content'[f] = content[f]
  BY <1>1, <1>5, <1>6 DEF TypeOK, Prompt
<1>8. Attended' \subseteq Attended /\ Attended \subseteq Conn
  BY <1>1, <1>7 DEF Attended, Open
<1>9. \A d \in Attended' : handler'[d].fd = None => dir'[handler'[d].path] = None
  BY <1>1, <1>3, <1>5, <1>6, <1>7, <1>8 DEF Prompt, Exists
<1>10. AtEnd'
  <2> SUFFICES ASSUME NEW d \in Attended', handler'[d].fd # None
               PROVE  handler'[d].pos = Len(content'[handler'[d].fd])
    BY DEF AtEnd
  <2>1. CASE d = c
    BY <1>4, <1>6, <1>7, <2>1
  <2>2. CASE d # c
    <3>1. handler'[d] = handler[d] /\ d \in Attended /\ handler[d].fd \in File
      BY <1>7, <1>8, <2>2 DEF TypeOK, Handler
    <3>2. handler[d].fd # old.fd
      BY <1>1, <2>2, <3>1 DEF Bindings, SoleWriter
    <3> QED  BY <1>7, <3>1, <3>2 DEF Prompt, AtEnd
  <2> QED  BY <2>1, <2>2
<1> QED  BY <1>7, <1>9, <1>10 DEF Prompt, Exists

\* A rename moves no position, and creates no file under a pending target.
LEMMA RenamePrompt ==
  ASSUME TypeOK, Bindings, Prompt, NEW c \in Attended, NEW from \in Name, NEW to \in Name,
         MayRename(c, from, to), Rename(c, from, to) \/ RenameNoop(c, from, to)
  PROVE  Prompt'
<1> DEFINE next == IF FdFollows(c, from) THEN [handler[c] EXCEPT !.path = to]
                   ELSE handler[c]
<1>1. /\ c \in Conn /\ handler[c] \in Handler
      /\ handler[c].st = "serving" /\ ~handler[c].gone
  BY DEF TypeOK, Rename, RenameNoop, Attended, Open
<1>2. handler' = [handler EXCEPT ![c] = next]
  BY <1>1 DEF Rename, RenameNoop, AfterRename
<1>3. /\ next.fd = handler[c].fd /\ next.pos = handler[c].pos
      /\ next.gone = handler[c].gone
      /\ next.fd = None => next.path = handler[c].path
  BY <1>1 DEF Handler, FdFollows
<1> HIDE DEF next
<1>4. /\ \A d \in Conn : handler'[d].fd = handler[d].fd /\ handler'[d].pos = handler[d].pos
      /\ \A d \in Conn : handler'[d].fd = None => handler'[d].path = handler[d].path
      /\ Attended' \subseteq Attended
      /\ Attended \subseteq Conn
  BY <1>1, <1>2, <1>3 DEF TypeOK, Prompt, Attended, Open
<1>5. content' = content
  BY DEF Rename, RenameNoop
<1>6. AtEnd'
  BY <1>4, <1>5 DEF Prompt, AtEnd
<1>7. \A n \in Name : dir[n] = None /\ n # to => dir'[n] = None
  BY DEF Rename, RenameNoop, TypeOK
<1>8. \A d \in Attended' : handler'[d].fd = None => dir'[handler'[d].path] = None
  <2> SUFFICES ASSUME NEW d \in Attended', handler'[d].fd = None
               PROVE  dir'[handler[d].path] = None
    BY <1>4 DEF Exists
  <2>1. d \in Attended /\ handler[d].fd = None /\ handler[d].path \in Name
    BY <1>4 DEF TypeOK, WellFormed, Attended, Open
  <2>2. handler[d].path # to
    BY <1>1, <2>1 DEF MayRename
  <2>3. dir[handler[d].path] = None
    BY <2>1 DEF Prompt, Exists
  <2> QED  BY <1>7, <2>1, <2>2, <2>3
<1> QED  BY <1>4, <1>6, <1>8 DEF Prompt, Exists

\* Connections that are lost move no file and no position.
LEMMA HangUpPrompt ==
  ASSUME TypeOK, Prompt, NEW C \in SUBSET Conn, HangUp(C)
  PROVE  Prompt'
<1>1. UNCHANGED files
  BY DEF HangUp
<1> QED  BY <1>1, HangUpAttended, Quiet DEF files

\* Every step that is not late keeps every position at its file's length.
LEMMA NextPrompt ==
  ASSUME TypeOK, Bindings, Prompt, [Next]_vars, late' = {}
  PROVE  Prompt'
<1>1. CASE UNCHANGED vars
  BY <1>1, Quiet DEF vars, Attended, Open
<1>2. CASE PowerLoss
  <2>1. Attended' = {}
    BY <1>2 DEF PowerLoss, Attended, Open, Closed
  <2> QED  BY <2>1 DEF Prompt, AtEnd
<1>3. ASSUME NEW c \in Conn, Step(c) PROVE Prompt'
  <2>1. CASE Connect(c)
    BY <2>1, HelloPrompt DEF Connect
  <2>2. CASE Data(c)
    <3>1. PICK data \in Payload \cup {Garbled}, off \in 0..MaxLen :
            BeginOpen(c, off, data) \/ BeginCreate(c, off, data) \/ BeginReject(c, off)
      BY <2>2 DEF Data
    <3>2. CASE BeginReject(c, off)
      BY <3>2, RaisePrompt DEF BeginReject
    <3>3. CASE c \in Attended /\ ~BeginReject(c, off)
      BY <3>1, <3>3, DataPrompt
    <3>4. CASE c \notin Attended /\ BeginOpen(c, off, data)
      <4>1. /\ Attended' \subseteq Attended
            /\ \A d \in Attended' : handler'[d] = handler[d]
        BY <3>4 DEF BeginOpen, Attended, Open, TypeOK, Handler
      <4> QED  BY <3>4, <4>1, Quiet DEF BeginOpen, files
    <3>5. CASE c \notin Attended /\ BeginCreate(c, off, data)
      BY <3>5 DEF BeginCreate, Lately, Attended, Open
    <3> QED  BY <3>1, <3>2, <3>3, <3>4, <3>5
  <2>3. CASE Relabel(c)
    <3>1. PICK from, to \in Name :
            /\ Rename(c, from, to) \/ RenameNoop(c, from, to) \/ RenameReject(c, from, to)
            /\ MayRename(c, from, to)
      BY <2>3 DEF Relabel
    <3>2. CASE RenameReject(c, from, to)
      BY <3>2, RaisePrompt DEF RenameReject
    <3>3. CASE ~handler[c].gone /\ ~RenameReject(c, from, to)
      <4>1. c \in Attended
        BY <3>1, <3>3 DEF Rename, RenameNoop, Attended, Open
      <4> QED  BY <3>1, <3>3, <4>1, RenamePrompt
    <3>4. CASE handler[c].gone /\ RenameNoop(c, from, to)
      BY <3>4, LateNoop, Quiet
    <3>5. CASE handler[c].gone /\ Rename(c, from, to)
      BY <3>5 DEF Rename, Lately
    <3> QED  BY <3>1, <3>2, <3>3, <3>4, <3>5
  <2>4. CASE Apply(c)
    <3>1. c \in Attended
      BY <2>4 DEF Apply, Lately, Attended, Open
    <3> QED  BY <2>4, <3>1, ApplyPrompt
  <2>5. CASE ApplyReject(c) \/ Malformed(c) \/ Eof(c)
    BY <2>5, RaisePrompt DEF ApplyReject, Malformed, Eof
  <2> QED  BY <1>3, <2>1, <2>2, <2>3, <2>4, <2>5 DEF Step
<1>4. CASE \E C \in SUBSET Conn : HangUp(C)
  BY <1>4, HangUpPrompt
<1> QED  BY <1>1, <1>2, <1>3, <1>4 DEF Next

\* The inductive invariant behind OffsetIsLength and AppendOnly.
THEOREM InvHolds == Spec => []Inv
<1>1. Init => Inv
  BY InitType, InitBindings DEF Init, Inv, Bound, Prompt, AtEnd, Attended, Open, Closed
<1>2. Inv /\ [Next]_vars => Inv'
  <2> SUFFICES ASSUME Inv, [Next]_vars PROVE Inv'
    OBVIOUS
  <2>1. TypeOK'
    BY NextType DEF Inv, Bound
  <2>2. ASSUME "rename" \notin late' PROVE Bindings'
    BY <2>2, LateGrows, NextBindings DEF Inv, Bound
  <2>3. ASSUME late' = {} PROVE Prompt'
    <3>1. late = {}
      BY <2>3, LateGrows
    <3> QED  BY <2>3, <3>1, NextPrompt DEF Inv, Bound
  <2> QED  BY <2>1, <2>2, <2>3 DEF Inv, Bound
<1> QED  BY <1>1, <1>2, PTL DEF Spec

\* As long as no frame of an abandoned connection has been served, the offset
\* apply_data checks, f.tell(), is the length of the target, as Protocol.md
\* requires.
THEOREM OffsetIsLengthHolds == Spec => []OffsetIsLength
<1>1. Inv => OffsetIsLength
  BY DEF Inv, Prompt, OffsetIsLength
<1> QED  BY <1>1, InvHolds, PTL

\* No step that is not late changes a byte of a file in use, but a power loss.
LEMMA StepAppends ==
  ASSUME TypeOK, Bindings, Prompt, [Next]_vars, ~PowerLoss, late' = {}, NEW f \in InUse
  PROVE  Extends(content[f], content'[f])
<1>1. f \in File /\ content[f] \in Seq(Byte \cup {Hole})
  BY DEF InUse, Linked, Held, TypeOK
<1>2. CASE content' = content
  BY <1>1, <1>2, ExtendsRefl
<1>3. ASSUME NEW c \in Conn, NEW off \in 0..MaxLen, NEW data \in Payload \cup {Garbled},
             BeginCreate(c, off, data)
      PROVE  Extends(content[f], content'[f])
  <2>1. c \in Attended
    BY <1>3 DEF BeginCreate, Lately, Attended, Open
  <2>2. PICK g \in Unused : content' = [content EXCEPT ![g] = <<>>]
    BY <1>3, <2>1, CreateFresh
  <2>3. content'[f] = content[f]
    BY <1>1, <2>2 DEF Unused, TypeOK
  <2> QED  BY <1>1, <2>3, ExtendsRefl
<1>4. ASSUME NEW c \in Conn, Apply(c)
      PROVE  Extends(content[f], content'[f])
  <2> DEFINE h == handler[c]
  <2>1. h.fd \in File /\ h.pos = Len(content[h.fd])
    BY <1>4 DEF Apply, TypeOK, WellFormed, Handler, Prompt, AtEnd, Attended, Open, Lately
  <2>2. h.frame.data \in Seq(Byte)
    BY <1>4, PayloadType DEF Apply
  <2>3. content' = [content EXCEPT ![h.fd] = WriteAt(@, h.pos, h.frame.data)]
    BY <1>4 DEF Apply
  <2>4. CASE f = h.fd
    BY <1>1, <2>1, <2>2, <2>3, <2>4, WriteAtEnd DEF TypeOK
  <2>5. CASE f # h.fd
    BY <1>1, <2>1, <2>3, <2>5, ExtendsRefl DEF TypeOK
  <2> QED  BY <2>4, <2>5
<1>5. CASE UNCHANGED vars
  BY <1>2, <1>5 DEF vars
<1>6. ASSUME NEW c \in Conn, Step(c)
      PROVE  Extends(content[f], content'[f])
  <2>1. CASE Connect(c)
    BY <1>2, <2>1 DEF Connect, Hello, files
  <2>2. CASE Data(c)
    BY <1>2, <1>3, <2>2 DEF Data, BeginOpen, BeginReject, Raise, files
  <2>3. CASE Relabel(c)
    BY <1>2, <2>3 DEF Relabel, Rename, RenameNoop, RenameReject, Raise, files
  <2>4. CASE Apply(c)
    BY <1>4, <2>4
  <2>5. CASE ApplyReject(c) \/ Malformed(c) \/ Eof(c)
    BY <1>2, <2>5 DEF ApplyReject, Malformed, Eof, Raise, files
  <2> QED  BY <1>6, <2>1, <2>2, <2>3, <2>4, <2>5 DEF Step
<1>7. CASE \E C \in SUBSET Conn : HangUp(C)
  BY <1>2, <1>7 DEF HangUp, files
<1> QED  BY <1>5, <1>6, <1>7 DEF Next

\* As long as no frame of an abandoned connection has been served, nothing but a
\* power loss takes back a byte of a file that still has a name or a handler
\* (apply_data's write, serve_client's open('wb+')).
THEOREM AppendOnlyHolds == Spec => AppendOnly
<1>1. ASSUME Inv, [Next]_vars
      PROVE  [\/ late' # {}
              \/ \A f \in InUse : Extends(content[f], content'[f])
              \/ PowerLoss]_vars
  <2>1. CASE PowerLoss \/ late' # {}
    BY <2>1
  <2>2. CASE ~PowerLoss /\ late' = {}
    <3>1. late = {} /\ TypeOK /\ Bindings /\ Prompt
      BY <1>1, <2>2, LateGrows DEF Inv, Bound
    <3> QED  BY <1>1, <2>2, <3>1, StepAppends
  <2> QED  BY <2>1, <2>2
<1> QED  BY <1>1, InvHolds, PTL DEF Spec, AppendOnly

=============================================================================
