---------------------------- MODULE SessionProofs ----------------------------
(* Theorems about Session.tla: however connections break, a request is acted on *)
(* only if all of it has arrived, replies answer the requests they are taken    *)
(* for, and a client that is refused leaves no directory.                       *)
EXTENDS Session, SequenceTheorems, FiniteSetTheorems, TLAPS

-----------------------------------------------------------------------------
(* Frames *)

\* The piece at i of Frame(w, b).
Piece(w, b, i) == IF i = 1 THEN w ELSE IF i <= b + 1 THEN "size"
                  ELSE IF i = b + 2 THEN "newline" ELSE "body"

\* The pieces of a frame, one by one.
LEMMA FramePieces ==
  ASSUME NEW w, NEW b \in Nat
  PROVE  /\ Frame(w, b) \in Seq({w, "size", "newline", "body"})
         /\ Len(Frame(w, b)) = 2*b + 2
         /\ \A i \in 1..(2*b + 2) : Frame(w, b)[i] = Piece(w, b, i)
<1> DEFINE W  == {w, "size", "newline", "body"}
           sz == [i \in 1..b |-> "size"]
           bd == [i \in 1..b |-> "body"]
<1>1. sz \in Seq(W) /\ Len(sz) = b /\ \A i \in 1..b : sz[i] = "size"
  <2>1. sz \in [1..b -> W]
    OBVIOUS
  <2> QED  BY <2>1
<1>2. bd \in Seq(W) /\ Len(bd) = b /\ \A i \in 1..b : bd[i] = "body"
  <2>1. bd \in [1..b -> W]
    OBVIOUS
  <2> QED  BY <2>1
<1>3. <<w>> \in Seq(W) /\ <<"newline">> \in Seq(W)
  OBVIOUS
<1>4. Frame(w, b) = ((<<w>> \o sz) \o <<"newline">>) \o bd
  BY DEF Frame
<1> HIDE DEF sz, bd, W
<1>5. /\ <<w>> \o sz \in Seq(W) /\ Len(<<w>> \o sz) = b + 1
      /\ (<<w>> \o sz)[1] = w /\ \A i \in 2..(b + 1) : (<<w>> \o sz)[i] = "size"
  BY <1>1, <1>3
<1> DEFINE l == <<w>> \o sz
           m == l \o <<"newline">>
<1> HIDE DEF l
<1>6. /\ m \in Seq(W) /\ Len(m) = b + 2
      /\ \A i \in 1..(b + 2) : m[i] = IF i <= b + 1 THEN l[i] ELSE <<"newline">>[i - (b + 1)]
  <2>1. l \in Seq(W) /\ <<"newline">> \in Seq(W) /\ Len(l) = b + 1 /\ Len(<<"newline">>) = 1
    BY <1>3, <1>5 DEF l
  <2> QED  BY <2>1, ConcatProperties
<1>7. m[1] = w /\ m[b + 2] = "newline" /\ \A i \in 2..(b + 1) : m[i] = "size"
  BY <1>5, <1>6 DEF l
<1>8. Frame(w, b) = m \o bd
  BY <1>4 DEF l
<1> HIDE DEF m
<1>9. /\ m \o bd \in Seq(W) /\ Len(m \o bd) = 2*b + 2
      /\ \A i \in 1..(2*b + 2) : (m \o bd)[i] = IF i <= b + 2 THEN m[i] ELSE bd[i - (b + 2)]
  <2>1. Len(m) + Len(bd) = 2*b + 2
    BY <1>2, <1>6
  <2>2. /\ m \o bd \in Seq(W) /\ Len(m \o bd) = Len(m) + Len(bd)
        /\ \A i \in 1..Len(m) + Len(bd) : (m \o bd)[i] = IF i <= Len(m) THEN m[i] ELSE bd[i - Len(m)]
    <3>1. m \in Seq(W) /\ bd \in Seq(W)
      BY <1>2, <1>6
    <3> QED  BY <3>1, ConcatProperties
  <2> QED  BY <1>6, <2>1, <2>2
<1>10. ASSUME NEW i \in 1..(2*b + 2) PROVE  (m \o bd)[i] = Piece(w, b, i)
  <2>1. CASE i <= b + 2
    <3>1. (m \o bd)[i] = m[i]
      BY <1>9, <2>1
    <3>2. i = 1 \/ i = b + 2 \/ i \in 2..(b + 1)
      BY <2>1
    <3> QED  BY <1>7, <3>1, <3>2 DEF Piece
  <2>2. CASE i > b + 2
    <3>1. (m \o bd)[i] = bd[i - (b + 2)] /\ i - (b + 2) \in 1..b
      BY <1>9, <2>2
    <3>2. Piece(w, b, i) = "body"
      BY <2>2 DEF Piece
    <3> QED  BY <1>2, <3>1, <3>2
  <2>3. i <= b + 2 \/ i > b + 2
    OBVIOUS
  <2> QED  BY <2>1, <2>2, <2>3
<1> QED  BY <1>8, <1>9, <1>10 DEF W

\* What is heard of a frame: so much of it, and perhaps a scrap.
LEMMA HeardFacts ==
  ASSUME NEW W, NEW f \in Seq(W), NEW s \in Heard(f)
  PROVE  \/ \E n \in 0..Len(f) : s = SubSeq(f, 1, n) /\ Len(s) = n
                                 /\ \A i \in 1..n : s[i] = f[i]
         \/ \E n \in 0..(Len(f) - 1) :
              /\ Len(s) = n + 1 /\ s[n + 1] = "scrap" /\ s \in Seq(W \cup {"scrap"})
              /\ \A i \in 1..n : s[i] = f[i]
<1>1. CASE s \in {SubSeq(f, 1, n) : n \in 0..Len(f)}
  <2>1. PICK n \in 0..Len(f) : s = SubSeq(f, 1, n)
    BY <1>1
  <2>2. Len(s) = n /\ \A i \in 1..n : s[i] = f[i]
    BY <2>1
  <2> QED  BY <2>1, <2>2
<1>2. CASE s \notin {SubSeq(f, 1, n) : n \in 0..Len(f)}
  <2>1. PICK n \in 0..(Len(f) - 1) : s = SubSeq(f, 1, n) \o <<"scrap">>
    BY <1>2 DEF Heard
  <2> DEFINE g == SubSeq(f, 1, n)
  <2>2. g \in Seq(W) /\ Len(g) = n /\ \A i \in 1..n : g[i] = f[i]
    OBVIOUS
  <2> HIDE DEF g
  <2>3. g \in Seq(W \cup {"scrap"}) /\ <<"scrap">> \in Seq(W \cup {"scrap"}) /\ Len(g) = n
    BY <2>2
  <2>4. s = g \o <<"scrap">>
    BY <2>1 DEF g
  <2>5. /\ Len(s) = n + 1 /\ s[n + 1] = "scrap" /\ s \in Seq(W \cup {"scrap"})
        /\ \A i \in 1..n : s[i] = g[i]
    BY <2>3, <2>4
  <2> QED  BY <2>2, <2>5
<1> QED  BY <1>1, <1>2

\* All of a frame may be heard.
LEMMA AllHeard ==
  ASSUME NEW w, NEW b \in Nat
  PROVE  Frame(w, b) # <<>> /\ Frame(w, b) \in Heard(Frame(w, b))
<1> DEFINE f == Frame(w, b)
           W == {w, "size", "newline", "body"}
<1>1. f \in Seq(W) /\ Len(f) = 2*b + 2
  BY FramePieces
<1> HIDE DEF f, W
<1>2. f # <<>>
  BY <1>1
<1>3. f = SubSeq(f, 1, Len(f)) /\ Len(f) \in 0..Len(f)
  BY <1>1
<1>4. f \in Heard(f)
  BY <1>3 DEF Heard
<1> QED  BY <1>2, <1>4 DEF f

\* Nothing is heard of nothing.
LEMMA NoneHeard == Heard(<<>>) = {<<>>}
<1>1. Len(<<>>) = 0 /\ 0..0 = {0} /\ 0..(0 - 1) = {} /\ SubSeq(<<>>, 1, 0) = <<>>
  OBVIOUS
<1> QED  BY <1>1 DEF Heard

\* A frame of which every body has been heard has been heard to its end: nothing
\* shorter has as many.
LEMMA WholeFrame ==
  ASSUME NEW w, w # "body", NEW b \in Nat \ {0}, NEW s \in Heard(Frame(w, b)), Bodies(s) = b
  PROVE  s = Frame(w, b)
<1> DEFINE f == Frame(w, b)
           W == {w, "size", "newline", "body"}
           B == {i \in DOMAIN s : s[i] = "body"}
<1>1. /\ f \in Seq(W) /\ Len(f) = 2*b + 2 /\ f[1] # "body"
      /\ \A i \in 2..(b + 1) : f[i] # "body"
      /\ f[b + 2] # "body"
  <2>1. b \in Nat
    OBVIOUS
  <2>2. /\ f \in Seq(W) /\ Len(f) = 2*b + 2
        /\ \A i \in 1..(2*b + 2) : f[i] = Piece(w, b, i)
    BY <2>1, FramePieces
  <2> HIDE DEF f, W
  <2>3. 1 \in 1..(2*b + 2) /\ b + 2 \in 1..(2*b + 2) /\ \A i \in 2..(b + 1) : i \in 1..(2*b + 2)
    BY <2>1
  <2> QED  BY <2>2, <2>3 DEF Piece
<1>2. \A i \in 1..Len(f) : f[i] = "body" => i \in (b + 3)..(2*b + 2)
  BY <1>1
<1> HIDE DEF f, W
<1>3. ASSUME NEW n \in 0..(Len(f) - 1), B \subseteq {i \in 1..n : f[i] = "body"} PROVE FALSE
  <2>1. B \subseteq (b + 3)..(2*b + 1)
    BY <1>1, <1>2, <1>3
  <2>2. /\ IsFiniteSet((b + 3)..(2*b + 1))
        /\ Cardinality((b + 3)..(2*b + 1)) = b - 1
    <3>1. b + 3 \in Int /\ 2*b + 1 \in Int /\ (b + 3 > 2*b + 1 <=> b = 1)
      OBVIOUS
    <3>2. (2*b + 1) - (b + 3) + 1 = b - 1 /\ (b = 1 => b - 1 = 0)
      OBVIOUS
    <3> HIDE DEF B, f
    <3>3. /\ IsFiniteSet((b + 3)..(2*b + 1))
          /\ Cardinality((b + 3)..(2*b + 1)) = IF b + 3 > 2*b + 1 THEN 0 ELSE (2*b + 1) - (b + 3) + 1
      BY <3>1, FS_Interval
    <3> QED  BY <3>1, <3>2, <3>3
  <2>3. Cardinality(B) <= b - 1
    BY <2>1, <2>2, FS_Subset
  <2>4. Cardinality(B) = b
    BY DEF Bodies
  <2> QED  BY <2>3, <2>4
<1>4. s \in Heard(f)
  BY DEF f
<1>5. ASSUME NEW n \in 0..Len(f), s = SubSeq(f, 1, n), Len(s) = n, \A i \in 1..n : s[i] = f[i]
      PROVE  s = f
  <2>1. CASE n = Len(f)
    BY <1>1, <1>5, <2>1
  <2>2. CASE n # Len(f)
    <3>1. n \in 0..(Len(f) - 1) /\ DOMAIN s = 1..n
      BY <1>1, <1>5, <2>2
    <3>2. B \subseteq {i \in 1..n : f[i] = "body"}
      BY <1>5, <3>1
    <3> QED  BY <1>3, <3>1, <3>2
  <2> QED  BY <2>1, <2>2
<1>6. ASSUME NEW n \in 0..(Len(f) - 1), Len(s) = n + 1, s[n + 1] = "scrap",
             s \in Seq(W \cup {"scrap"}), \A i \in 1..n : s[i] = f[i]
      PROVE  FALSE
  <2>1. DOMAIN s = 1..(n + 1) /\ \A i \in 1..(n + 1) : i = n + 1 \/ i \in 1..n
    BY <1>1, <1>6
  <2>2. B \subseteq {i \in 1..n : f[i] = "body"}
    BY <1>6, <2>1
  <2> QED  BY <1>3, <1>6, <2>2
<1> HIDE DEF B
<1>7. s = f
  <2>1. f \in Seq(W)
    BY <1>1
  <2>2. CASE \E n \in 0..Len(f) : s = SubSeq(f, 1, n) /\ Len(s) = n
                                   /\ \A i \in 1..n : s[i] = f[i]
    BY <1>5, <2>2
  <2>3. CASE \E n \in 0..(Len(f) - 1) :
              /\ Len(s) = n + 1 /\ s[n + 1] = "scrap" /\ s \in Seq(W \cup {"scrap"})
              /\ \A i \in 1..n : s[i] = f[i]
    BY <1>6, <2>3
  <2>4. \/ \E n \in 0..Len(f) : s = SubSeq(f, 1, n) /\ Len(s) = n
                                 /\ \A i \in 1..n : s[i] = f[i]
        \/ \E n \in 0..(Len(f) - 1) :
              /\ Len(s) = n + 1 /\ s[n + 1] = "scrap" /\ s \in Seq(W \cup {"scrap"})
              /\ \A i \in 1..n : s[i] = f[i]
    BY <1>4, <2>1, HeardFacts
  <2> QED  BY <2>2, <2>3, <2>4
<1> QED  BY <1>7 DEF f

\* The line of what is heard begins as the frame does, if not with a scrap.
LEMMA LineStarts ==
  ASSUME NEW w, w # "newline", NEW b \in Nat, NEW s \in Heard(Frame(w, b)), Line(s) # <<>>
  PROVE  Line(s)[1] \in {w, "scrap"}
<1> DEFINE f == Frame(w, b)
           W == {w, "size", "newline", "body"}
           I == {i \in 1..Len(s) : s[i] = "newline"}
           at == SelectInSeq(s, LAMBDA p : p = "newline")
<1>1. f \in Seq(W) /\ Len(f) = 2*b + 2 /\ \A i \in 1..(2*b + 2) : f[i] = Piece(w, b, i)
  BY FramePieces
<1>2. Line(s) = IF at = 0 THEN s ELSE SubSeq(s, 1, at - 1)
  BY DEF Line
<1>3. at = IF I # {} THEN Min(I) ELSE 0
  BY DEF SelectInSeq
<1>4. s \in Heard(f)
  OBVIOUS
<1> HIDE DEF f, W, at
<1>5. PICK n \in Nat :
        /\ n <= Len(f)
        /\ \A i \in 1..n : s[i] = f[i]
        /\ \/ s = SubSeq(f, 1, n) /\ Len(s) = n
           \/ Len(s) = n + 1 /\ s[n + 1] = "scrap" /\ s \in Seq(W \cup {"scrap"})
  <2>1. f \in Seq(W) /\ Len(f) \in Nat
    BY <1>1
  <2>2. CASE \E n \in 0..Len(f) : s = SubSeq(f, 1, n) /\ Len(s) = n
                                   /\ \A i \in 1..n : s[i] = f[i]
    BY <2>1, <2>2
  <2>3. CASE \E n \in 0..(Len(f) - 1) :
              /\ Len(s) = n + 1 /\ s[n + 1] = "scrap" /\ s \in Seq(W \cup {"scrap"})
              /\ \A i \in 1..n : s[i] = f[i]
    BY <2>1, <2>3
  <2>4. \/ \E n \in 0..Len(f) : s = SubSeq(f, 1, n) /\ Len(s) = n
                                 /\ \A i \in 1..n : s[i] = f[i]
        \/ \E n \in 0..(Len(f) - 1) :
              /\ Len(s) = n + 1 /\ s[n + 1] = "scrap" /\ s \in Seq(W \cup {"scrap"})
              /\ \A i \in 1..n : s[i] = f[i]
    BY <1>4, <2>1, HeardFacts
  <2> QED  BY <2>2, <2>3, <2>4
<1>6. s \in Seq(W \cup {"scrap"})
  <2>1. CASE s = SubSeq(f, 1, n) /\ Len(s) = n
    BY <1>1, <1>5, <2>1
  <2> QED  BY <1>5, <2>1
<1>7. \A i \in 1..n : s[i] = Piece(w, b, i)
  BY <1>1, <1>5
<1>8. I \subseteq {b + 2}
  <2> SUFFICES ASSUME NEW i \in I PROVE i = b + 2
    OBVIOUS
  <2>1. i \in 1..n
    BY <1>5
  <2> QED  BY <1>7, <2>1 DEF Piece
<1>9. at \in {0, b + 2} /\ (at # 0 => b + 2 \in I)
  <2>1. CASE I = {b + 2}
    <3>1. Min(I) = b + 2
      BY <2>1 DEF Min
    <3> QED  BY <1>3, <2>1, <3>1
  <2>2. CASE I = {}
    BY <1>3, <2>2
  <2> QED  BY <1>8, <2>1, <2>2
<1>10. Len(s) >= 1 /\ (n >= 1 \/ Len(s) = 1)
  <2>1. s # <<>>
    <3>1. CASE at = 0
      BY <1>2, <3>1
    <3>2. CASE at # 0
      BY <1>9, <3>2
    <3> QED  BY <3>1, <3>2
  <2>2. Len(s) >= 1
    BY <1>6, <2>1
  <2>3. CASE n = 0
    <3>1. Len(s) = n \/ Len(s) = n + 1
      BY <1>5
    <3> QED  BY <2>2, <2>3, <3>1
  <2> QED  BY <2>2, <2>3
<1>11. s[1] \in {w, "scrap"}
  <2>1. CASE n >= 1
    BY <1>7, <2>1 DEF Piece
  <2>2. CASE n = 0
    BY <1>5, <1>10, <2>2
  <2> QED  BY <2>1, <2>2
<1>12. CASE at = 0
  BY <1>2, <1>11, <1>12
<1>13. CASE at = b + 2
  <2>1. b + 2 \in 1..Len(s)
    BY <1>9, <1>13
  <2>2. SubSeq(s, 1, b + 1)[1] = s[1]
    BY <1>6, <2>1
  <2> QED  BY <1>2, <1>11, <1>13, <2>2
<1> QED  BY <1>9, <1>12, <1>13

-----------------------------------------------------------------------------
(* The invariant *)

\* In the course of making directories.
Making == {"parent", "mkparent", "mkdir"}

HeaderFrame(h) == Frame(h.word, IF h.word = "HTTP" THEN 0 ELSE 1)

Commands == {Frame("data", 2), Frame("rename", 1)}

\* What the two ends of a connection and the two streams between them have to do
\* with each other: h is the header, x the client, y the server, u what is under
\* way up and v what is under way down.
Linked(h, x, y, u, v) ==
  /\ x = [st |-> x.st, frame |-> x.frame, asked |-> x.asked, answered |-> x.answered]
  /\ y = [pc |-> y.pc, proc |-> y.proc, acted |-> y.acted]
  /\ u = [pieces |-> u.pieces, eof |-> u.eof] /\ u.eof \in BOOLEAN
  /\ v = [pieces |-> v.pieces, eof |-> v.eof]
  /\ x.st \in {"away", "asking", "open"}
  /\ x.asked \in Nat /\ x.answered \in Nat /\ y.acted \in Nat
  /\ x.answered <= y.acted /\ y.acted <= x.asked /\ x.asked <= x.answered + 1
  /\ x.st = "asking" => x.asked = x.answered + 1
  /\ x.st = "open" => x.asked = x.answered /\ x.asked > 0 /\ v.pieces = <<>>
  /\ u.pieces # <<>> => /\ y.acted < x.asked
                        /\ u.pieces \in Heard(x.frame)
                        /\ ~u.eof => u.pieces = x.frame
  /\ x.asked > 0 => x.frame # <<>>
  /\ x.asked = 1 => x.frame = HeaderFrame(h)
  /\ x.asked > 1 => x.frame \in Commands
  /\ y.acted = 0 \/ y.pc \in Making => v.pieces = <<>>
  /\ y.pc \in Making => y.acted = 1 /\ x.answered = 0 /\ Admitted(h)
  /\ x.st = "asking" /\ v.pieces # <<>> => y.acted = x.asked

Paired(c) == Linked(header[c], client[c], server[c], up[c], down[c])

Typed ==
  /\ client = [c \in Client |-> client[c]]
  /\ server = [c \in Client |-> server[c]]
  /\ up     = [c \in Client |-> up[c]]
  /\ down   = [c \in Client |-> down[c]]

Inv == Typed /\ \A c \in Client : Paired(c)

\* The steps of Exchange.tla, of one tally, and none.
Moves(t, n) ==
  \/ n = t
  \/ n = [asked |-> 1, acted |-> 0, answered |-> 0]
  \/ t.asked = t.answered /\ t.asked > 0 /\ n = [t EXCEPT !.asked = @ + 1]
  \/ t.acted < t.asked /\ n = [t EXCEPT !.asked = @ - 1]
  \/ t.acted < t.asked /\ n = [t EXCEPT !.acted = @ + 1]
  \/ t.answered < t.acted /\ n = [t EXCEPT !.answered = @ + 1]

\* A step of one client's connection touches no other's.
Alone(c) ==
  /\ Typed'
  /\ header' = header
  /\ \A d \in Client \ {c} : /\ client'[d] = client[d] /\ server'[d] = server[d]
                             /\ up'[d] = up[d] /\ down'[d] = down[d]

\* Every action is of one connection.
LEMMA ActAlone ==
  ASSUME Typed, NEW c \in Client, Connect(c) \/ Ask(c) \/ ReadReply(c) \/ Handle(c) \/ Fault(c)
  PROVE  Alone(c)
<1> USE DEF Typed, Alone, Put, Sending, Closing
<1>1. CASE Connect(c)
  BY <1>1 DEF Connect
<1>2. CASE Ask(c)
  BY <1>2 DEF Ask
<1>3. ASSUME Close(c) PROVE /\ client' = [d \in Client |-> client'[d]]
                            /\ up' = [d \in Client |-> up'[d]]
                            /\ down' = [d \in Client |-> down'[d]]
                            /\ \A d \in Client \ {c} : /\ client'[d] = client[d] /\ up'[d] = up[d]
                                                       /\ down'[d] = down[d]
  BY <1>3 DEF Close, Gone
<1>4. ASSUME Return(c) PROVE /\ server' = [d \in Client |-> server'[d]]
                             /\ down' = [d \in Client |-> down'[d]]
                             /\ \A d \in Client \ {c} : server'[d] = server[d] /\ down'[d] = down[d]
  BY <1>4 DEF Return
<1>5. ASSUME Serve(c) PROVE /\ server' = [d \in Client |-> server'[d]]
                            /\ down' = [d \in Client |-> down'[d]]
                            /\ \A d \in Client \ {c} : server'[d] = server[d] /\ down'[d] = down[d]
  BY <1>4, <1>5 DEF Serve, At, Write
<1>6. CASE ReadReply(c)
  BY <1>3, <1>6 DEF ReadReply
<1>7. CASE ReadHeader(c)
  BY <1>4, <1>5, <1>7 DEF ReadHeader, At
<1>8. CASE MakeDirs(c)
  BY <1>4, <1>5, <1>8 DEF MakeDirs, Make, LookForParent, At
<1>9. CASE ReadCommand(c)
  BY <1>4, <1>9 DEF ReadCommand, Write
<1>10. CASE Fault(c)
  BY <1>3, <1>4, <1>10 DEF Fault, GiveUp, Break, HandshakeTimeout
<1> QED  BY <1>1, <1>2, <1>6, <1>7, <1>8, <1>9, <1>10 DEF Handle

\* The first request comes with the connection.
LEMMA ConnectLinks ==
  ASSUME Typed, NEW c \in Client, Paired(c), Connect(c)
  PROVE  Paired(c)' /\ Moves(Count(c), Count(c)')
<1> DEFINE f == HeaderFrame(header[c])
<1>1. PICK p \in Process :
        /\ header' = header
        /\ client'[c] = [st |-> "asking", frame |-> f, asked |-> 1, answered |-> 0]
        /\ server'[c] = [pc |-> "recv", proc |-> p, acted |-> 0]
        /\ up'[c] = [pieces |-> f, eof |-> FALSE]
        /\ down'[c] = [pieces |-> <<>>, eof |-> FALSE]
  BY DEF Connect, Typed, Put, Sending, HeaderFrame
<1>2. f # <<>> /\ f \in Heard(f)
  <2>1. ASSUME NEW b \in Nat PROVE /\ Frame(header[c].word, b) # <<>>
                                   /\ Frame(header[c].word, b) \in Heard(Frame(header[c].word, b))
    BY AllHeard
  <2> QED  BY <2>1 DEF HeaderFrame
<1> HIDE DEF f
<1>3. Paired(c)'
  <2>1. f = HeaderFrame(header[c])
    BY DEF f
  <2> QED  BY <1>1, <1>2, <2>1 DEF Paired, Linked, Making
<1>4. Count(c)' = [asked |-> 1, acted |-> 0, answered |-> 0]
  BY <1>1 DEF Count
<1> QED  BY <1>3, <1>4 DEF Moves

\* The next request is asked once the last is answered; it is lost if the
\* connection has broken.
LEMMA AskLinks ==
  ASSUME Typed, NEW c \in Client, Paired(c), Ask(c)
  PROVE  Paired(c)' /\ Moves(Count(c), Count(c)')
<1>1. PICK f \in Commands :
        /\ client[c].st = "open"
        /\ header' = header /\ server' = server /\ down' = down
        /\ client'[c] = [st |-> "asking", frame |-> f, asked |-> client[c].asked + 1,
                         answered |-> client[c].answered]
        /\ up'[c] = IF up[c].eof THEN up[c] ELSE [pieces |-> f, eof |-> FALSE]
  <2>1. /\ client[c].st = "open"
        /\ \E f \in Commands :
             /\ client' = [client EXCEPT ![c].st = "asking", ![c].frame = f, ![c].asked = @ + 1]
             /\ up' = IF up[c].eof THEN up ELSE Put(up, c, Sending(f))
        /\ UNCHANGED <<header, server, down>>
    BY DEF Ask, Commands
  <2>2. PICK f \in Commands :
             /\ client' = [client EXCEPT ![c].st = "asking", ![c].frame = f, ![c].asked = @ + 1]
             /\ up' = IF up[c].eof THEN up ELSE Put(up, c, Sending(f))
    BY <2>1
  <2>3. client'[c] = [st |-> "asking", frame |-> f, asked |-> client[c].asked + 1,
                      answered |-> client[c].answered]
    BY <2>2 DEF Typed, Paired, Linked
  <2>4. up'[c] = IF up[c].eof THEN up[c] ELSE [pieces |-> f, eof |-> FALSE]
    BY <2>2 DEF Typed, Put, Sending
  <2> QED  BY <2>1, <2>3, <2>4
<1>2. f # <<>> /\ f \in Heard(f)
  <2>1. ASSUME NEW w, NEW b \in Nat PROVE Frame(w, b) # <<>> /\ Frame(w, b) \in Heard(Frame(w, b))
    BY AllHeard
  <2> QED  BY <2>1 DEF Commands
<1>3. /\ client[c].asked = client[c].answered /\ client[c].asked > 0
      /\ server[c].acted = client[c].asked
      /\ up[c].pieces = <<>> /\ down[c].pieces = <<>>
      /\ client[c].asked \in Nat
  BY <1>1 DEF Paired, Linked
<1>4. Paired(c)'
  <2>1. server[c].acted > 0 /\ server[c].pc \notin Making /\ client[c].asked + 1 > 1
    BY <1>1, <1>3 DEF Paired, Linked
  <2> DEFINE x == client'[c]
             u == up'[c]
  <2>2. /\ x.st = "asking" /\ x.frame = f /\ x.asked = client[c].asked + 1
        /\ x.answered = client[c].answered
        /\ x = [st |-> x.st, frame |-> x.frame, asked |-> x.asked, answered |-> x.answered]
    BY <1>1
  <2>3. /\ u = [pieces |-> u.pieces, eof |-> u.eof] /\ u.eof \in BOOLEAN
        /\ u.pieces # <<>> => u.pieces = f
    <3>1. CASE up[c].eof
      <4>1. u = up[c]
        BY <1>1, <3>1
      <4> QED  BY <1>3, <4>1 DEF Paired, Linked
    <3>2. CASE ~up[c].eof
      BY <1>1, <3>2
    <3> QED  BY <3>1, <3>2
  <2> HIDE DEF x, u
  <2>4. Linked(header[c], x, server[c], u, down[c])
    <3>1. /\ server[c] = [pc |-> server[c].pc, proc |-> server[c].proc, acted |-> server[c].acted]
          /\ down[c] = [pieces |-> down[c].pieces, eof |-> down[c].eof]
          /\ server[c].acted \in Nat
      BY DEF Paired, Linked
    <3>2. /\ x.asked \in Nat /\ x.answered \in Nat /\ x.asked > 1
          /\ x.answered <= server[c].acted /\ server[c].acted < x.asked /\ x.asked = x.answered + 1
      BY <1>3, <2>2
    <3> QED  BY <1>1, <1>2, <1>3, <2>1, <2>2, <2>3, <3>1, <3>2 DEF Linked
  <2> QED  BY <1>1, <2>4 DEF Paired, x, u
<1>5. Count(c) = [asked |-> client[c].asked, acted |-> client[c].asked, answered |-> client[c].asked]
  BY <1>3 DEF Count
<1>6. CASE up[c].eof
  <2>1. Count(c)' = Count(c)
    BY <1>1, <1>2, <1>3, <1>5, <1>6 DEF Count
  <2> QED  BY <1>4, <2>1 DEF Moves
<1>7. CASE ~up[c].eof
  <2>1. Count(c)' = [Count(c) EXCEPT !.asked = @ + 1]
    BY <1>1, <1>2, <1>3, <1>5, <1>7 DEF Count
  <2> QED  BY <1>3, <1>4, <1>5, <2>1 DEF Moves
<1> QED  BY <1>6, <1>7

\* A connection that ends loses at most the request under way.
LEMMA CutLinks ==
  ASSUME Typed, NEW c \in Client, Paired(c), header' = header, server' = server,
         client'[c] \in {client[c], [client[c] EXCEPT !.st = "away"]},
         \/ up[c].eof /\ up'[c] = up[c]
         \/ /\ ~up[c].eof
            /\ \E s \in Heard(up[c].pieces) : up'[c] = [pieces |-> s, eof |-> TRUE],
         down'[c] = [pieces |-> down'[c].pieces, eof |-> TRUE],
         down'[c].pieces # <<>> => down[c].pieces # <<>>
  PROVE  Paired(c)' /\ Moves(Count(c), Count(c)')
<1>1. /\ client'[c].frame = client[c].frame
      /\ client'[c].asked = client[c].asked
      /\ client'[c].answered = client[c].answered
      /\ client'[c].st \in {client[c].st, "away"}
      /\ client'[c] = [st |-> client'[c].st, frame |-> client'[c].frame,
                       asked |-> client'[c].asked, answered |-> client'[c].answered]
  BY DEF Paired, Linked
<1>2. /\ up'[c] = [pieces |-> up'[c].pieces, eof |-> TRUE]
      /\ up[c].eof => up'[c] = up[c]
      /\ up'[c].pieces # <<>> => up[c].pieces # <<>> /\ up'[c].pieces \in Heard(client[c].frame)
  <2>1. CASE up[c].eof /\ up'[c] = up[c]
    BY <2>1 DEF Paired, Linked
  <2>2. ASSUME ~up[c].eof, NEW s \in Heard(up[c].pieces), up'[c] = [pieces |-> s, eof |-> TRUE]
        PROVE  /\ up'[c] = [pieces |-> up'[c].pieces, eof |-> TRUE]
               /\ up[c].eof => up'[c] = up[c]
               /\ up'[c].pieces # <<>> => up[c].pieces # <<>> /\ up'[c].pieces \in Heard(client[c].frame)
    <3>1. CASE up[c].pieces = <<>>
      BY <2>2, <3>1, NoneHeard
    <3>2. CASE up[c].pieces # <<>>
      BY <2>2, <3>2 DEF Paired, Linked
    <3> QED  BY <3>1, <3>2
  <2> QED  BY <2>1, <2>2
<1>3. Paired(c)'
  <2>1. /\ client'[c].st = "asking" => client[c].st = "asking"
        /\ client'[c].st = "open" => client[c].st = "open"
    BY <1>1
  <2>2. down'[c] = [pieces |-> down'[c].pieces, eof |-> down'[c].eof]
    OBVIOUS
  <2> DEFINE x == client'[c]
             u == up'[c]
             v == down'[c]
             y == server[c]
  <2>3. /\ x = [st |-> x.st, frame |-> x.frame, asked |-> x.asked, answered |-> x.answered]
        /\ y = [pc |-> y.pc, proc |-> y.proc, acted |-> y.acted]
        /\ u = [pieces |-> u.pieces, eof |-> u.eof] /\ u.eof = TRUE
        /\ v = [pieces |-> v.pieces, eof |-> v.eof]
        /\ x.st \in {"away", "asking", "open"}
    BY <1>1, <1>2, <2>2 DEF Paired, Linked
  <2>4. /\ v.pieces # <<>> => down[c].pieces # <<>>
        /\ u.pieces # <<>> => up[c].pieces # <<>> /\ u.pieces \in Heard(x.frame)
        /\ x.frame = client[c].frame /\ x.asked = client[c].asked /\ x.answered = client[c].answered
    BY <1>1, <1>2
  <2> HIDE DEF x, u, v, y
  <2>5. Linked(header[c], client[c], y, up[c], down[c])
    BY DEF Paired, y
  <2>6. Linked(header[c], x, y, u, v)
    <3>1. x.st = "asking" => client[c].st = "asking"
      BY <2>1 DEF x
    <3>2. x.st = "open" => client[c].st = "open"
      BY <2>1 DEF x
    <3> QED  BY <2>3, <2>4, <2>5, <3>1, <3>2 DEF Linked
  <2> QED  BY <2>6 DEF Paired, x, u, v, y
<1>4. CASE up[c].eof
  <2>1. Count(c)' = Count(c)
    BY <1>1, <1>2, <1>4 DEF Count
  <2> QED  BY <1>3, <2>1 DEF Moves
<1>5. CASE ~up[c].eof
  <2>1. Count(c) = [asked |-> client[c].asked, acted |-> server[c].acted,
                    answered |-> client[c].answered]
    BY <1>5 DEF Count
  <2>2. CASE server[c].acted < client[c].asked /\ up'[c].pieces # client[c].frame
    <3>1. Count(c)' = [Count(c) EXCEPT !.asked = @ - 1]
      BY <1>1, <1>2, <2>1, <2>2 DEF Count
    <3> QED  BY <1>3, <2>1, <2>2, <3>1 DEF Moves
  <2>3. CASE ~(server[c].acted < client[c].asked /\ up'[c].pieces # client[c].frame)
    <3>1. Count(c)' = Count(c)
      BY <1>1, <1>2, <2>1, <2>3 DEF Count
    <3> QED  BY <1>3, <3>1 DEF Moves
  <2> QED  BY <2>2, <2>3
<1> QED  BY <1>4, <1>5

\* The agent closes the connection.
LEMMA CloseLinks ==
  ASSUME Typed, NEW c \in Client, Paired(c), Close(c), header' = header, server' = server
  PROVE  Paired(c)' /\ Moves(Count(c), Count(c)')
<1>1. /\ client'[c] = [client[c] EXCEPT !.st = "away"]
      /\ down'[c] = [pieces |-> <<>>, eof |-> TRUE]
  BY DEF Close, Gone, Typed, Put, Closing
<1>2. \/ up[c].eof /\ up'[c] = up[c]
      \/ /\ ~up[c].eof
         /\ \E s \in Heard(up[c].pieces) : up'[c] = [pieces |-> s, eof |-> TRUE]
  BY DEF Close, Typed, Put, Closing
<1>3. /\ down'[c] = [pieces |-> down'[c].pieces, eof |-> TRUE]
      /\ down'[c].pieces # <<>> => down[c].pieces # <<>>
  BY <1>1
<1> QED  BY <1>1, <1>2, <1>3, CutLinks

\* The connection breaks, for both.
LEMMA BreakLinks ==
  ASSUME Typed, NEW c \in Client, Paired(c), Break(c), header' = header, server' = server
  PROVE  Paired(c)' /\ Moves(Count(c), Count(c)')
<1>1. PICK s \in Heard(up[c].pieces), t \in Heard(down[c].pieces) :
        up' = Put(up, c, Closing(s)) /\ down' = Put(down, c, Closing(t))
  BY DEF Break
<1>2. /\ client' = client /\ ~up[c].eof
      /\ up'[c] = [pieces |-> s, eof |-> TRUE]
      /\ down'[c] = [pieces |-> t, eof |-> TRUE]
  BY <1>1 DEF Break, Typed, Put, Closing
<1>3. /\ down'[c] = [pieces |-> down'[c].pieces, eof |-> TRUE]
      /\ down'[c].pieces # <<>> => down[c].pieces # <<>>
  BY <1>1, <1>2, NoneHeard
<1>4. ~up[c].eof /\ \E r \in Heard(up[c].pieces) : up'[c] = [pieces |-> r, eof |-> TRUE]
  BY <1>1, <1>2
<1>5. client'[c] \in {client[c], [client[c] EXCEPT !.st = "away"]}
  BY <1>2
<1> QED  BY <1>3, <1>4, <1>5, CutLinks

\* A reply is read: it answers the request that was asked last, which the server
\* has acted on.
LEMMA ReplyLinks ==
  ASSUME Typed, NEW c \in Client, Paired(c), ReadReply(c)
  PROVE  Paired(c)' /\ Moves(Count(c), Count(c)')
<1>1. client[c].st = "asking" /\ header' = header /\ server' = server
  BY DEF ReadReply
<1>2. CASE ~Positive(c)
  BY <1>1, <1>2, CloseLinks DEF ReadReply
<1>3. CASE Positive(c)
  <2>1. /\ client'[c] = [client[c] EXCEPT !.st = "open", !.answered = @ + 1]
        /\ down'[c] = [down[c] EXCEPT !.pieces = <<>>]
        /\ up' = up
    BY <1>3 DEF ReadReply, Typed, Paired, Linked
  <2>2. down[c].pieces # <<>>
    BY <1>3 DEF Positive, Readable
  <2>3. /\ server[c].acted = client[c].asked /\ client[c].asked = client[c].answered + 1
        /\ up[c].pieces = <<>> /\ server[c].acted > 0 /\ server[c].pc \notin Making
        /\ client[c].asked \in Nat /\ client[c].answered \in Nat
    BY <1>1, <2>2 DEF Paired, Linked
  <2>4. client'[c] = [st |-> "open", frame |-> client[c].frame, asked |-> client[c].asked,
                      answered |-> client[c].answered + 1]
    BY <2>1 DEF Paired, Linked
  <2>5. down'[c] = [pieces |-> <<>>, eof |-> down[c].eof]
    BY <2>1 DEF Paired, Linked
  <2>6. Paired(c)'
    BY <1>1, <2>1, <2>3, <2>4, <2>5 DEF Paired, Linked
  <2>7. Count(c)' = [Count(c) EXCEPT !.answered = @ + 1]
    BY <1>1, <2>1, <2>3, <2>4 DEF Count
  <2>8. Count(c).answered < Count(c).acted
    BY <2>3 DEF Count
  <2> QED  BY <2>6, <2>7, <2>8 DEF Moves
<1> QED  BY <1>2, <1>3

\* handle_client returns: what it had not acted on is lost.
LEMMA ReturnLinks ==
  ASSUME Typed, NEW c \in Client, Paired(c), Return(c), header' = header, client' = client,
         up'[c] \in {up[c], [pieces |-> <<>>, eof |-> up[c].eof]}
  PROVE  Paired(c)' /\ Moves(Count(c), Count(c)')
<1> DEFINE x == client[c]
           y == server'[c]
           u == up'[c]
           v == down'[c]
<1>1. /\ y = [pc |-> "none", proc |-> None, acted |-> server[c].acted]
      /\ u = [pieces |-> u.pieces, eof |-> up[c].eof]
      /\ u.pieces \in {up[c].pieces, <<>>}
  <2>1. y = [pc |-> "none", proc |-> None, acted |-> server[c].acted]
    BY DEF Return, Typed, Paired, Linked
  <2>2. up[c] = [pieces |-> up[c].pieces, eof |-> up[c].eof]
    BY DEF Paired, Linked
  <2>3. CASE u = up[c]
    BY <2>1, <2>2, <2>3
  <2>4. CASE u = [pieces |-> <<>>, eof |-> up[c].eof]
    BY <2>1, <2>4
  <2> QED  BY <2>3, <2>4
<1>2. v = [pieces |-> v.pieces, eof |-> v.eof] /\ (v.pieces # <<>> => down[c].pieces # <<>>)
  <2>1. CASE down[c].eof
    <3>1. v = down[c]
      BY <2>1 DEF Return
    <3> QED  BY <3>1 DEF Paired, Linked
  <2>2. CASE ~down[c].eof
    <3>1. PICK s \in Heard(down[c].pieces) : v = [pieces |-> s, eof |-> TRUE]
      BY <2>2 DEF Return, Typed, Put, Closing
    <3> QED  BY <3>1, NoneHeard
  <2> QED  BY <2>1, <2>2
<1>3. Linked(header[c], x, server[c], up[c], down[c])
  BY DEF Paired
<1> HIDE DEF x, y, u, v
<1>4. Linked(header[c], x, y, u, v)
  BY <1>1, <1>2, <1>3 DEF Linked, Making
<1>5. Paired(c)'
  BY <1>4 DEF Paired, x, y, u, v
<1>6. /\ x.asked \in Nat /\ server[c].acted \in Nat
      /\ server[c].acted < x.asked => x.frame # <<>>
  BY <1>3 DEF Linked
<1>7. CASE u.eof /\ server[c].acted < x.asked /\ up[c].pieces = x.frame /\ u.pieces = <<>>
  <2>1. Count(c) = [asked |-> x.asked, acted |-> server[c].acted, answered |-> x.answered]
    BY <1>7 DEF Count, x
  <2>2. Count(c)' = [asked |-> x.asked - 1, acted |-> server[c].acted, answered |-> x.answered]
    BY <1>1, <1>6, <1>7 DEF Count, x, y, u
  <2>3. Count(c)' = [Count(c) EXCEPT !.asked = @ - 1]
    BY <2>1, <2>2
  <2> QED  BY <1>5, <1>7, <2>1, <2>3 DEF Moves
<1>8. CASE ~(u.eof /\ server[c].acted < x.asked /\ up[c].pieces = x.frame /\ u.pieces = <<>>)
  <2>1. Count(c)' = Count(c)
    BY <1>1, <1>6, <1>8 DEF Count, x, y, u
  <2> QED  BY <1>5, <2>1 DEF Moves
<1> QED  BY <1>7, <1>8

\* handle_client has acted on the request that was asked last.
LEMMA ActedLinks ==
  ASSUME Typed, NEW c \in Client, Paired(c), header' = header, client' = client,
         server'[c] = [pc |-> server'[c].pc, proc |-> server'[c].proc, acted |-> client[c].asked],
         client[c].asked = client[c].answered + 1,
         up'[c] = [pieces |-> <<>>, eof |-> up[c].eof],
         down'[c] = [pieces |-> down'[c].pieces, eof |-> down'[c].eof],
         server'[c].pc \in Making => /\ down'[c].pieces = <<>>
                                     /\ client[c].asked = 1 /\ Admitted(header[c])
  PROVE  Paired(c)'
<1> DEFINE x == client[c]
           y == server'[c]
           u == up'[c]
           v == down'[c]
<1>1. /\ y = [pc |-> y.pc, proc |-> y.proc, acted |-> y.acted] /\ y.acted = x.asked
      /\ u = [pieces |-> u.pieces, eof |-> u.eof] /\ u.eof = up[c].eof /\ u.pieces = <<>>
      /\ v = [pieces |-> v.pieces, eof |-> v.eof]
      /\ x.asked = x.answered + 1
      /\ y.pc \in Making => v.pieces = <<>> /\ x.asked = 1 /\ Admitted(header[c])
  OBVIOUS
<1>2. Linked(header[c], x, server[c], up[c], down[c])
  BY DEF Paired
<1> HIDE DEF x, y, u, v
<1>3. Linked(header[c], x, y, u, v)
  BY <1>1, <1>2 DEF Linked
<1> QED  BY <1>3 DEF Paired, x, y, u, v

\* What is read in full, with a line that announces a header or a command, is the
\* whole of the last request.
LEMMA WholeRead ==
  ASSUME Typed, NEW c \in Client, Paired(c), Readable(up[c].pieces),
         \/ server[c].acted = 0 /\ Line(up[c].pieces) = <<header[c].word, "size">>
            /\ Admitted(header[c])
         \/ server[c].acted > 0
            /\ Line(up[c].pieces) \in {<<"data", "size", "size">>, <<"rename", "size">>}
  PROVE  /\ up[c].pieces = client[c].frame
         /\ client[c].asked = server[c].acted + 1
         /\ client[c].asked = client[c].answered + 1
<1> DEFINE s == up[c].pieces
           f == client[c].frame
<1>1. s # <<>> /\ Bodies(s) = Len(Line(s)) - 1
  BY DEF Readable
<1>2. /\ server[c].acted < client[c].asked /\ s \in Heard(f)
      /\ client[c].asked \in Nat /\ client[c].answered \in Nat /\ server[c].acted \in Nat
      /\ client[c].answered <= server[c].acted /\ client[c].asked <= client[c].answered + 1
      /\ client[c].asked = 1 => f = HeaderFrame(header[c])
      /\ client[c].asked > 1 => f \in Commands
  BY <1>1 DEF Paired, Linked
<1>3. client[c].asked = server[c].acted + 1 /\ client[c].asked = client[c].answered + 1
  BY <1>2
<1>4. CASE server[c].acted = 0
  <2>1. header[c].word = "logline-agent-v1"
    BY <1>4 DEF Admitted
  <2>2. f = Frame("logline-agent-v1", 1)
    BY <1>2, <1>3, <1>4, <2>1 DEF HeaderFrame
  <2>3. Bodies(s) = 1
    BY <1>1, <1>4
  <2> HIDE DEF s, f
  <2>4. s = f
    BY <1>2, <2>2, <2>3, WholeFrame
  <2> QED  BY <1>3, <2>4 DEF s, f
<1>5. CASE server[c].acted > 0
  <2>1. f \in Commands
    BY <1>2, <1>5
  <2>2. Line(s) \in {<<"data", "size", "size">>, <<"rename", "size">>}
    BY <1>5
  <2> HIDE DEF s, f
  <2>3. CASE f = Frame("data", 2)
    <3>1. Line(s)[1] \in {"data", "scrap"}
      BY <1>2, <2>2, <2>3, LineStarts
    <3>2. Bodies(s) = 2
      BY <1>1, <2>2, <3>1
    <3> QED  BY <1>2, <1>3, <2>3, <3>2, WholeFrame DEF s, f
  <2>4. CASE f = Frame("rename", 1)
    <3>1. Line(s)[1] \in {"rename", "scrap"}
      BY <1>2, <2>2, <2>4, LineStarts
    <3>2. Bodies(s) = 1
      BY <1>1, <2>2, <3>1
    <3> QED  BY <1>2, <1>3, <2>4, <3>2, WholeFrame DEF s, f
  <2> QED  BY <2>1, <2>3, <2>4 DEF Commands
<1> QED  BY <1>2, <1>4, <1>5

\* A request that has arrived whole is acted on: its tally moves with it.
LEMMA ActMoves ==
  ASSUME NEW c \in Client, Paired(c), client' = client,
         up[c].pieces = client[c].frame, client[c].asked = server[c].acted + 1,
         server'[c].acted = client[c].asked
  PROVE  Moves(Count(c), Count(c)')
<1>1. client[c].asked \in Nat /\ server[c].acted \in Nat
  BY DEF Paired, Linked
<1>2. Count(c) = [asked |-> client[c].asked, acted |-> server[c].acted, answered |-> client[c].answered]
  BY DEF Count
<1>3. Count(c)' = [asked |-> client[c].asked, acted |-> server[c].acted + 1,
                   answered |-> client[c].answered]
  BY <1>1 DEF Count
<1>4. Count(c)' = [Count(c) EXCEPT !.acted = @ + 1] /\ Count(c).acted < Count(c).asked
  BY <1>1, <1>2, <1>3
<1> QED  BY <1>4 DEF Moves

\* What is written down the connection is a stream again.
LEMMA WriteShapes ==
  ASSUME Typed, NEW c \in Client, Paired(c), NEW f, Write(c, f)
  PROVE  down'[c] = [pieces |-> down'[c].pieces, eof |-> down'[c].eof]
<1>1. CASE down[c].eof
  <2>1. down'[c] = down[c]
    BY <1>1 DEF Write
  <2> QED  BY <2>1 DEF Paired, Linked
<1>2. CASE ~down[c].eof
  BY <1>2 DEF Write, Typed, Put, Sending
<1> QED  BY <1>1, <1>2

\* At is a handler that has acted on the first request.
LEMMA AtShapes ==
  ASSUME Typed, NEW c \in Client, Paired(c), NEW pc, server' = At(c, pc)
  PROVE  server'[c] = [pc |-> pc, proc |-> server[c].proc, acted |-> 1]
BY DEF At, Typed, Paired, Linked

\* The header is read: acted on if all of it has arrived.
LEMMA HeaderLinks ==
  ASSUME Typed, NEW c \in Client, Paired(c), ReadHeader(c)
  PROVE  Paired(c)' /\ Moves(Count(c), Count(c)')
<1>1. /\ header' = header /\ client' = client /\ server[c].acted = 0
      /\ up'[c] = [pieces |-> <<>>, eof |-> up[c].eof]
  BY DEF ReadHeader, Typed, Paired, Linked
<1>2. CASE Return(c)
  BY <1>1, <1>2, ReturnLinks
<1>3. CASE ~Return(c)
  <2>1. /\ Readable(up[c].pieces) /\ Line(up[c].pieces) = <<header[c].word, "size">>
        /\ Admitted(header[c])
        /\ \/ server' = At(c, "recv") /\ Write(c, Frame("ok", 1))
           \/ server' = At(c, "parent") /\ down' = down
    BY <1>3 DEF ReadHeader, Serve
  <2>2. /\ up[c].pieces = client[c].frame
        /\ client[c].asked = 1 /\ client[c].answered = 0
    <3>1. /\ up[c].pieces = client[c].frame
          /\ client[c].asked = server[c].acted + 1
          /\ client[c].asked = client[c].answered + 1
      BY <1>1, <2>1, WholeRead
    <3>2. client[c].answered \in Nat
      BY DEF Paired, Linked
    <3> QED  BY <1>1, <3>1, <3>2
  <2>3. /\ server'[c] = [pc |-> server'[c].pc, proc |-> server'[c].proc, acted |-> 1]
        /\ down'[c] = [pieces |-> down'[c].pieces, eof |-> down'[c].eof]
        /\ server'[c].pc \in Making => down'[c].pieces = <<>>
    <3>1. CASE server' = At(c, "recv") /\ Write(c, Frame("ok", 1))
      <4>1. server'[c] = [pc |-> "recv", proc |-> server[c].proc, acted |-> 1]
        BY <3>1, AtShapes
      <4>2. down'[c] = [pieces |-> down'[c].pieces, eof |-> down'[c].eof]
        BY <3>1, WriteShapes
      <4> QED  BY <4>1, <4>2 DEF Making
    <3>2. CASE server' = At(c, "parent") /\ down' = down
      <4>1. server'[c] = [pc |-> "parent", proc |-> server[c].proc, acted |-> 1]
        BY <3>2, AtShapes
      <4>2. down[c] = [pieces |-> down[c].pieces, eof |-> down[c].eof] /\ down[c].pieces = <<>>
        BY <1>1 DEF Paired, Linked
      <4> QED  BY <3>2, <4>1, <4>2
    <3> QED  BY <2>1, <3>1, <3>2
  <2>4. Paired(c)'
    BY <1>1, <2>1, <2>2, <2>3, ActedLinks
  <2>5. Moves(Count(c), Count(c)')
    BY <1>1, <2>2, <2>3, ActMoves
  <2> QED  BY <2>4, <2>5
<1> QED  BY <1>2, <1>3

\* Making directories goes on with a request already acted on.
LEMMA MakeLinks ==
  ASSUME Typed, NEW c \in Client, Paired(c), MakeDirs(c)
  PROVE  Paired(c)' /\ Moves(Count(c), Count(c)')
<1>1. /\ header' = header /\ client' = client /\ up' = up /\ server[c].pc \in Making
  BY DEF MakeDirs, Making
<1>2. /\ server[c].acted = 1 /\ client[c].asked = 1 /\ client[c].answered = 0
      /\ up[c] = [pieces |-> <<>>, eof |-> up[c].eof]
      /\ down[c] = [pieces |-> <<>>, eof |-> down[c].eof]
      /\ Admitted(header[c])
  BY <1>1 DEF Paired, Linked
<1>3. CASE Return(c)
  BY <1>1, <1>3, ReturnLinks
<1>4. CASE ~Return(c)
  <2>1. \/ down' = down /\ \E pc \in Making : server' = At(c, pc)
        \/ server' = At(c, "recv") /\ Write(c, Frame("ok", 1))
    BY <1>4 DEF MakeDirs, LookForParent, Make, Serve, Making
  <2>2. /\ server'[c] = [pc |-> server'[c].pc, proc |-> server'[c].proc, acted |-> 1]
        /\ down'[c] = [pieces |-> down'[c].pieces, eof |-> down'[c].eof]
        /\ server'[c].pc \in Making => down'[c].pieces = <<>>
    <3>1. CASE server' = At(c, "recv") /\ Write(c, Frame("ok", 1))
      <4>1. server'[c] = [pc |-> "recv", proc |-> server[c].proc, acted |-> 1]
        BY <3>1, AtShapes
      <4>2. down'[c] = [pieces |-> down'[c].pieces, eof |-> down'[c].eof]
        BY <3>1, WriteShapes
      <4> QED  BY <4>1, <4>2 DEF Making
    <3>2. ASSUME NEW pc \in Making, server' = At(c, pc), down' = down
          PROVE  /\ server'[c] = [pc |-> server'[c].pc, proc |-> server'[c].proc, acted |-> 1]
                 /\ down'[c] = [pieces |-> down'[c].pieces, eof |-> down'[c].eof]
                 /\ server'[c].pc \in Making => down'[c].pieces = <<>>
      <4>1. server'[c] = [pc |-> pc, proc |-> server[c].proc, acted |-> 1]
        BY <3>2, AtShapes
      <4> QED  BY <1>2, <3>2, <4>1
    <3> QED  BY <2>1, <3>1, <3>2
  <2>3. Paired(c)'
    BY <1>1, <1>2, <2>2, ActedLinks
  <2>4. Count(c)' = Count(c)
    BY <1>1, <1>2, <2>2 DEF Count
  <2> QED  BY <2>3, <2>4 DEF Moves
<1> QED  BY <1>3, <1>4

\* A command is acted on if all of it has arrived.
LEMMA CommandLinks ==
  ASSUME Typed, NEW c \in Client, Paired(c), ReadCommand(c)
  PROVE  Paired(c)' /\ Moves(Count(c), Count(c)')
<1>1. /\ header' = header /\ client' = client /\ server[c].acted > 0 /\ server[c].pc = "recv"
      /\ up'[c] = [pieces |-> <<>>, eof |-> up[c].eof]
  BY DEF ReadCommand, Awake, Typed, Paired, Linked
<1>2. CASE Return(c)
  BY <1>1, <1>2, ReturnLinks
<1>3. CASE ~Return(c)
  <2>1. /\ Readable(up[c].pieces)
        /\ Line(up[c].pieces) \in {<<"data", "size", "size">>, <<"rename", "size">>}
        /\ server' = [server EXCEPT ![c].acted = @ + 1]
        /\ Write(c, Frame("ok", 0))
    BY <1>3 DEF ReadCommand
  <2>2. /\ up[c].pieces = client[c].frame
        /\ client[c].asked = server[c].acted + 1
        /\ client[c].asked = client[c].answered + 1
    BY <1>1, <2>1, WholeRead
  <2>3. server'[c] = [pc |-> "recv", proc |-> server[c].proc, acted |-> client[c].asked]
    BY <1>1, <2>1, <2>2 DEF Typed, Paired, Linked
  <2>4. down'[c] = [pieces |-> down'[c].pieces, eof |-> down'[c].eof]
    BY <2>1, WriteShapes
  <2>5. Paired(c)'
    <3>1. server'[c] = [pc |-> server'[c].pc, proc |-> server'[c].proc, acted |-> client[c].asked]
          /\ server'[c].pc \notin Making
      BY <2>3 DEF Making
    <3> QED  BY <1>1, <2>2, <2>4, <3>1, ActedLinks
  <2>6. Moves(Count(c), Count(c)')
    BY <1>1, <2>2, <2>3, ActMoves
  <2> QED  BY <2>5, <2>6
<1> QED  BY <1>2, <1>3

\* Whatever fails.
LEMMA FaultLinks ==
  ASSUME Typed, NEW c \in Client, Paired(c), Fault(c)
  PROVE  Paired(c)' /\ Moves(Count(c), Count(c)')
<1>1. header' = header
  BY DEF Fault
<1>2. CASE GiveUp(c) /\ UNCHANGED server
  BY <1>1, <1>2, CloseLinks DEF GiveUp
<1>3. CASE Break(c) /\ UNCHANGED server
  BY <1>1, <1>3, BreakLinks
<1>4. CASE HandshakeTimeout(c) /\ UNCHANGED <<client, up>>
  BY <1>1, <1>4, ReturnLinks DEF HandshakeTimeout
<1> QED  BY <1>2, <1>3, <1>4 DEF Fault

-----------------------------------------------------------------------------
(* The connection is as Exchange.tla has it *)

\* The initial state, and every step of a client's connection.
LEMMA InitLinks == Init => Inv
<1> SUFFICES ASSUME Init PROVE Inv
  OBVIOUS
<1>1. Typed
  BY DEF Init, Typed
<1>2. ASSUME NEW c \in Client PROVE Paired(c)
  <2>1. /\ client[c] = [st |-> "away", frame |-> <<>>, asked |-> 0, answered |-> 0]
        /\ server[c] = [pc |-> "none", proc |-> None, acted |-> 0]
        /\ up[c] = [pieces |-> <<>>, eof |-> TRUE] /\ down[c] = [pieces |-> <<>>, eof |-> TRUE]
    BY DEF Init, Closing
  <2> QED  BY <2>1 DEF Paired, Linked, Making
<1> QED  BY <1>1, <1>2 DEF Inv

\* Every step of a connection keeps the invariant and moves its own tally only.
LEMMA StepLinks ==
  ASSUME Inv, NEW c \in Client, Connect(c) \/ Ask(c) \/ ReadReply(c) \/ Handle(c) \/ Fault(c)
  PROVE  /\ Inv'
         /\ Moves(Count(c), Count(c)')
         /\ \A d \in Client \ {c} : Count(d)' = Count(d)
<1>1. Typed /\ \A d \in Client : Paired(d)
  BY DEF Inv
<1>2. Alone(c)
  BY <1>1, ActAlone
<1>3. Paired(c)' /\ Moves(Count(c), Count(c)')
  BY <1>1, ConnectLinks, AskLinks, ReplyLinks, HeaderLinks, MakeLinks, CommandLinks, FaultLinks
  DEF Handle
<1>4. ASSUME NEW d \in Client \ {c} PROVE Paired(d)' /\ Count(d)' = Count(d)
  BY <1>1, <1>2 DEF Alone, Paired, Count
<1> QED  BY <1>2, <1>3, <1>4 DEF Inv, Alone

\* The invariant holds of every state.
LEMMA InvHolds == Spec => []Inv
<1>1. Inv /\ [Next]_vars => Inv'
  <2> SUFFICES ASSUME Inv, [Next]_vars PROVE Inv'
    OBVIOUS
  <2>1. CASE Next
    BY <2>1, StepLinks DEF Next
  <2>2. CASE UNCHANGED vars
    BY <2>2 DEF vars, Inv, Typed, Paired
  <2> QED  BY <2>1, <2>2
<1> QED  BY InitLinks, <1>1, PTL DEF Spec

\* The actions of Exchange.tla, told of Tallies.
LEMMA Retold ==
  ASSUME NEW c \in Client
  PROVE  /\ Tallies' = [Tallies EXCEPT ![c] = [asked |-> 1, acted |-> 0, answered |-> 0]] => Agreed!Ask(c)
         /\ /\ Tallies[c].asked = Tallies[c].answered /\ Tallies[c].asked > 0
            /\ Tallies' = [Tallies EXCEPT ![c] = [Tallies[c] EXCEPT !.asked = @ + 1]]
            => Agreed!Ask(c)
         /\ /\ Tallies[c].acted < Tallies[c].asked
            /\ Tallies' = [Tallies EXCEPT ![c] = [Tallies[c] EXCEPT !.asked = @ - 1]]
            => Agreed!Lose(c)
         /\ /\ Tallies[c].acted < Tallies[c].asked
            /\ Tallies' = [Tallies EXCEPT ![c] = [Tallies[c] EXCEPT !.acted = @ + 1]]
            => Agreed!Act(c)
         /\ /\ Tallies[c].answered < Tallies[c].acted
            /\ Tallies' = [Tallies EXCEPT ![c] = [Tallies[c] EXCEPT !.answered = @ + 1]]
            => Agreed!Answer(c)
<1>1. [Agreed!New EXCEPT !.asked = 1] = [asked |-> 1, acted |-> 0, answered |-> 0]
  BY DEF Agreed!New
<1> QED
  BY <1>1 DEF Agreed!Became, Agreed!Ask, Agreed!Lose, Agreed!Act, Agreed!Answer

\* A step of a connection is a step of Exchange.tla, or none.
LEMMA StepAgreed ==
  ASSUME Inv, NEW c \in Client, Connect(c) \/ Ask(c) \/ ReadReply(c) \/ Handle(c) \/ Fault(c)
  PROVE  Agreed!Next \/ Tallies' = Tallies
<1>1. Moves(Count(c), Count(c)') /\ \A d \in Client \ {c} : Count(d)' = Count(d)
  BY StepLinks
<1>2. Tallies[c] = Count(c) /\ Tallies' = [Tallies EXCEPT ![c] = Count(c)']
  BY <1>1 DEF Tallies
<1>3. CASE Count(c)' = Count(c)
  BY <1>2, <1>3 DEF Tallies
<1>4. CASE Count(c)' # Count(c)
  <2>1. Agreed!Ask(c) \/ Agreed!Lose(c) \/ Agreed!Act(c) \/ Agreed!Answer(c)
    BY <1>1, <1>2, <1>4, Retold DEF Moves
  <2> QED  BY <2>1 DEF Agreed!Next
<1> QED  BY <1>3, <1>4

\* However connections break, nothing half received is acted on, and replies are
\* never out of step with requests: a connection of handle_client and
\* ClientConnection implements Exchange.tla.
THEOREM ExchangeHolds == Spec => ExchangeSpec
<1>1. Init => Agreed!Init
  <2> SUFFICES ASSUME Init PROVE Agreed!Init
    OBVIOUS
  <2>1. ASSUME NEW c \in Client PROVE Count(c) = [asked |-> 0, acted |-> 0, answered |-> 0]
    BY DEF Init, Count, Closing
  <2>2. Tallies = [c \in Client |-> [asked |-> 0, acted |-> 0, answered |-> 0]]
    BY <2>1 DEF Tallies
  <2> QED  BY <2>2 DEF Agreed!Init, Agreed!New
<1>2. Inv /\ [Next]_vars => [Agreed!Next]_Tallies
  <2> SUFFICES ASSUME Inv, [Next]_vars PROVE Agreed!Next \/ Tallies' = Tallies
    OBVIOUS
  <2>1. CASE Next
    BY <2>1, StepAgreed DEF Next
  <2>2. CASE UNCHANGED vars
    BY <2>2 DEF vars, Tallies, Count
  <2> QED  BY <2>1, <2>2
<1> QED  BY <1>1, <1>2, InvHolds, PTL DEF Spec, ExchangeSpec, Agreed!Spec

-----------------------------------------------------------------------------
(* Whose directories there are *)

\* A destination directory begins with itself and with its parent.
LEMMA ParentFacts ==
  ASSUME NEW h
  PROVE  /\ IsPrefix(DestinationDir(h), DestinationDir(h))
         /\ IsPrefix(Front(DestinationDir(h)), DestinationDir(h))
<1>1. CASE h.directory = <<>>
  <2>1. DestinationDir(h) = <<h.host>> /\ Front(<<h.host>>) = <<>>
    BY <1>1 DEF DestinationDir, Front
  <2> QED  BY <2>1 DEF IsPrefix
<1>2. CASE h.directory # <<>>
  <2> DEFINE m == Mangled(h.directory)
  <2> HIDE DEF m
  <2>1. DestinationDir(h) = <<h.host, m>> /\ Front(<<h.host, m>>) = <<h.host>>
    <3>1. DestinationDir(h) = <<h.host, m>>
      BY <1>2 DEF DestinationDir, m
    <3>2. ASSUME NEW a, NEW b PROVE Front(<<a, b>>) = <<a>>
      <4> DEFINE f == Front(<<a, b>>)
      <4>1. f = SubSeq(<<a, b>>, 1, 1)
        BY DEF Front
      <4>2. f \in Seq({a, b}) /\ Len(f) = 1 /\ f[1] = a
        <5> DEFINE d == <<a, b>>
        <5>1. d \in Seq({a, b}) /\ Len(d) = 2 /\ d[1] = a
          OBVIOUS
        <5> HIDE DEF d
        <5>2. f = SubSeq(d, 1, 1)
          BY <4>1 DEF d
        <5> HIDE DEF f
        <5> QED  BY <5>1, <5>2
      <4> HIDE DEF f
      <4> QED  BY <4>2 DEF f
    <3> QED  BY <3>1, <3>2
  <2>2. IsPrefix(<<h.host>>, <<h.host, m>>) /\ IsPrefix(<<h.host, m>>, <<h.host, m>>)
    BY DEF IsPrefix
  <2> QED  BY <2>1, <2>2
<1> QED  BY <1>1, <1>2

\* Only clients that are let in make directories.
LEMMA StepTraces ==
  ASSUME Inv, NoTrace, NEW c \in Client,
         Connect(c) \/ Ask(c) \/ ReadReply(c) \/ Handle(c) \/ Fault(c)
  PROVE  NoTrace'
<1>1. header' = header
  BY StepLinks, ActAlone DEF Inv, Alone
<1>2. CASE dirs' = dirs
  BY <1>1, <1>2 DEF NoTrace
<1>3. CASE dirs' # dirs
  <2>1. MakeDirs(c)
    BY <1>3 DEF Connect, Ask, ReadReply, Handle, ReadHeader, ReadCommand, Fault
  <2>2. Authentic(header[c]) /\ header[c].sound
    <3>1. server[c].pc \in Making
      BY <2>1 DEF MakeDirs, Making
    <3> QED  BY <3>1 DEF Inv, Paired, Linked, Admitted
  <2>3. \E dir \in {DestinationDir(header[c]), Front(DestinationDir(header[c]))} :
          dirs' = dirs \cup {dir}
    BY <1>3, <2>1 DEF MakeDirs, Make
  <2>4. PICK dir : /\ dirs' = dirs \cup {dir}
                   /\ IsPrefix(dir, DestinationDir(header[c]))
    BY <2>3, ParentFacts
  <2> QED  BY <1>1, <2>2, <2>4 DEF NoTrace
<1> QED  BY <1>2, <1>3

\* A client whose token or header check_client_auth and handle_client refuse leaves
\* no directory, however the handlers of any number of processes interleave.
THEOREM NoTraceHolds == Spec => []NoTrace
<1>1. Init => NoTrace
  BY DEF Init, NoTrace
<1>2. Inv /\ NoTrace /\ [Next]_vars => NoTrace'
  <2> SUFFICES ASSUME Inv, NoTrace, [Next]_vars PROVE NoTrace'
    OBVIOUS
  <2>1. CASE Next
    BY <2>1, StepTraces DEF Next
  <2>2. CASE UNCHANGED vars
    BY <2>2 DEF vars, NoTrace
  <2> QED  BY <2>1, <2>2
<1> QED  BY <1>1, <1>2, InvHolds, PTL DEF Spec

-----------------------------------------------------------------------------
(* Whose destination it is *)

\* Directories without a '~' whose mangled names are equal are equal.
LEMMA MangledApart ==
  ASSUME NEW a \in Seq(STRING), NEW b \in Seq(STRING), Mangled(a) = Mangled(b),
         ~Contains(a, "~"), ~Contains(b, "~")
  PROVE  a = b
<1>1. DOMAIN a = DOMAIN b
  <2>1. DOMAIN Mangled(a) = DOMAIN a /\ DOMAIN Mangled(b) = DOMAIN b
    BY DEF Mangled
  <2> QED  BY <2>1
<1>2. ASSUME NEW i \in DOMAIN a PROVE a[i] = b[i]
  <2>1. (IF a[i] = "/" THEN "~" ELSE a[i]) = (IF b[i] = "/" THEN "~" ELSE b[i])
    <3>1. Mangled(a)[i] = Mangled(b)[i]
      OBVIOUS
    <3> QED  BY <1>1, <3>1 DEF Mangled
  <2>2. a[i] # "~" /\ b[i] # "~"
    BY <1>1 DEF Contains
  <2> QED  BY <2>1, <2>2
<1> QED  BY <1>1, <1>2

\* A header is one of Headers, for good.
LEMMA HeaderHolds == Spec => [](header \in Headers)
<1>1. Init => header \in Headers
  BY DEF Init
<1>2. header \in Headers /\ [Next]_vars => (header \in Headers)'
  BY DEF vars, Next, Connect, Ask, ReadReply, Handle, ReadHeader, MakeDirs, ReadCommand, Fault
<1> QED  BY <1>1, <1>2, PTL DEF Spec

\* build_destination_dir tells sources apart: as long as no directory has a '~' in
\* its name, those that are served the same destination directory are of the same
\* host and the same directory.
THEOREM SourcesApartHolds == Spec => []SourcesApart
<1>1. header \in Headers => SourcesApart
  <2> SUFFICES ASSUME header \in Headers, NEW c \in Client, NEW d \in Client,
                      ~Tilde(c), ~Tilde(d),
                      DestinationDir(header[c]) = DestinationDir(header[d])
               PROVE  header[c].host = header[d].host
                      /\ header[c].directory = header[d].directory
    BY DEF SourcesApart
  <2> DEFINE a == header[c].directory
             b == header[d].directory
  <2>1. a \in Seq(STRING) /\ b \in Seq(STRING) /\ ~Contains(a, "~") /\ ~Contains(b, "~")
    BY SessionAssumption DEF Tilde
  <2>2. (IF a = <<>> THEN <<header[c].host>> ELSE <<header[c].host, Mangled(a)>>)
        = (IF b = <<>> THEN <<header[d].host>> ELSE <<header[d].host, Mangled(b)>>)
    BY DEF DestinationDir
  <2> HIDE DEF a, b
  <2>3. header[c].host = header[d].host
        /\ \/ a = <<>> /\ b = <<>>
           \/ Mangled(a) = Mangled(b)
    BY <2>2
  <2>4. a = b
    BY <2>1, <2>3, MangledApart
  <2> QED  BY <2>3, <2>4 DEF a, b
<1> QED  BY <1>1, HeaderHolds, PTL

=============================================================================
