----------------------------- MODULE MCSession ------------------------------
(* Session.tla for TLC: two clients, two processes.  One client is an agent  *)
(* that ships from /x; the other may be anything.                              *)
EXTENDS Session

Good == [word |-> "logline-agent-v1", sound |-> TRUE, token |-> "ours",
         host |-> "h", directory |-> <<"x">>, target |-> "t"]

Other ==
  {Good,
   [Good EXCEPT !.directory = <<>>],
   [Good EXCEPT !.directory = <<"y">>],
   [Good EXCEPT !.directory = <<"y", "/", "x">>],
   [Good EXCEPT !.directory = <<"y", "~", "x">>],
   [Good EXCEPT !.host = "g"],
   [Good EXCEPT !.host = ".."],
   [Good EXCEPT !.target = ".."],
   [Good EXCEPT !.token = "other", !.host = "g"],
   [Good EXCEPT !.sound = FALSE],
   [Good EXCEPT !.word = "HTTP"]}

MCHeaders == {<<Good, h>> : h \in Other}
=============================================================================
