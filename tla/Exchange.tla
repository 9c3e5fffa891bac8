------------------------------ MODULE Exchange ------------------------------
(* What the agent relies on of a connection (wire in Agent.tla): requests and  *)
(* replies alternate; the server acts on a request at most once, and only if   *)
(* all of it has arrived; what the agent takes for its reply is the reply to   *)
(* that request.                                                               *)
EXTENDS Naturals

CONSTANT Client

VARIABLE tally   \* Client -> of its latest connection, the requests asked, acted on
                 \*           and answered

New == [asked |-> 0, acted |-> 0, answered |-> 0]

Init == tally = [c \in Client |-> New]

Became(c, t) == tally' = [tally EXCEPT ![c] = t]

\* The first request comes with a connection, the next ones once the last is answered.
Ask(c) ==
  \/ Became(c, [New EXCEPT !.asked = 1])
  \/ /\ tally[c].asked = tally[c].answered
     /\ tally[c].asked > 0
     /\ Became(c, [tally[c] EXCEPT !.asked = @ + 1])

\* The connection ends with part of a request still under way: it never was.
Lose(c) ==
  /\ tally[c].acted < tally[c].asked
  /\ Became(c, [tally[c] EXCEPT !.asked = @ - 1])

Act(c) ==
  /\ tally[c].acted < tally[c].asked
  /\ Became(c, [tally[c] EXCEPT !.acted = @ + 1])

Answer(c) ==
  /\ tally[c].answered < tally[c].acted
  /\ Became(c, [tally[c] EXCEPT !.answered = @ + 1])

Next == \E c \in Client : Ask(c) \/ Lose(c) \/ Act(c) \/ Answer(c)

Spec == Init /\ [][Next]_tally

=============================================================================
