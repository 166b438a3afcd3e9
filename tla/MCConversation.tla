-------------------------- MODULE MCConversation ---------------------------
(* Instances of Conversation for TLC.                                      *)
EXTENDS ConversationInvariant

Says(options, selection) == [options |-> options, selection |-> selection]

\* The second message is one that opens no run, or selects what cannot be read; the third
\* corrects it.
ThreeMessages ==
  <<{Says("none", "none")}, {Says("bad", "none"), Says("none", "bad")}, {Says("good", "good")}>>

PlainMessages == [m \in Message |-> {Says("none", "none")}]
=============================================================================
