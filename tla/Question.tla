------------------------------- MODULE Question -------------------------------
(***************************************************************************)
(* Parts of the program that keep no state are functions.  They are        *)
(* checked by asking: the state is a question, put once, and an invariant  *)
(* is about the answer the modules on it compute.                          *)
(***************************************************************************)
VARIABLE question   \* a record with a field "about", and what is asked

NoQuestion == [about |-> "nothing"]
Unasked == question = NoQuestion
Ask(questions) == Unasked /\ question' \in questions
Asked(about) == question.about = about
=============================================================================
