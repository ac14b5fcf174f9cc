------------------------------- MODULE Questions -------------------------------
(***************************************************************************)
(* The functions of the repository that keep no state are checked one      *)
(* question at a time: the variable holds the input under examination, and *)
(* each property states what the answer to it must be.                     *)
(***************************************************************************)
EXTENDS Absence

VARIABLE asked

NoQuestion == [about |-> "nothing"]

AskedAbout(subject) == asked.about = subject

QuestionInit == asked = NoQuestion

Ask(questions) == asked = NoQuestion /\ \E q \in questions : asked' = q
=============================================================================
