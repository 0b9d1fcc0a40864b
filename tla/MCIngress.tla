----------------------------- MODULE MCIngress -----------------------------
(***************************************************************************)
(* Instances of Ingress for TLC: the messages, and which of them are on    *)
(* their way together.                                                     *)
(***************************************************************************)
EXTENDS Ingress

MCEnvelope ==
  LET Mail(channel, thread, parent) ==
        [channel |-> channel, sender |-> "s1", thread |-> thread, parent |-> parent]
  IN [x1 |-> Mail("external", "t1", Null), x2 |-> Mail("external", "t1", Null),
      y1 |-> Mail("canary", "t1", Null), f1 |-> Mail("form", Null, Null),
      e1 |-> Mail("email", Null, Null), e2 |-> Mail("email", Null, "e1"),
      h1 |-> Mail("chat", Null, Null), h2 |-> Mail("followUp", Null, "h1")]

Together == [thread |-> {"x1", "x2"}, reply |-> {"e1", "e2"},
             form |-> {"f1", "x1"}, smokeTest |-> {"y1"}, chat |-> {"h1", "h2"}]
=============================================================================
