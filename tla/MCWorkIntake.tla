---------------------------- MODULE MCWorkIntake ----------------------------
(* Instances of WorkIntake for TLC. *)
EXTENDS WorkIntake

Item(key, text) == [key |-> key, text |-> text]

\* A message and its redelivery, with another history in the text.
Redelivered == {Item("telegram/1", "hello"), Item("telegram/1", "hello, with history")}
\* Two messages that have nothing to do with each other.
TwoMessages == {Item("telegram/1", "hello"), Item("telegram/2", "again")}
OneLetter == {Item("letter/1", "please")}
OneFire == {Item("cron/1:1", "report")}
Progress == {"runtime-accepted"}
=============================================================================
