------------------------- MODULE MCConversationTurn -------------------------
(***************************************************************************)
(* Instances of ConversationTurn for TLC: three inputs, one for each way a *)
(* rule can bear on it.  Preserve is 2 (the code preserves 4) so that one  *)
(* turn is long enough to be compacted in the middle of its tool results.  *)
(***************************************************************************)
EXTENDS ConversationTurn

CONSTANTS plain, denied, asked

MCInput == {plain, denied, asked}
MCRules == [x \in MCInput |-> [deny |-> x = denied, ask |-> x = asked, allow |-> FALSE]]

\* One input, for the runs about messages, where what a tool is given does not
\* matter but whether it is allowed does.
MCOneInput == {asked}
MCOneRules == [x \in MCOneInput |-> MCRules[x]]
=============================================================================
