------------------------------ MODULE MCActivities ------------------------------
\* A command of the main agent on a pseudo-terminal and one of a child.
EXTENDS CommandTools, TLC

\* Accidents happen to a command that is alone, as output and polls do.
OneCommand == {{"c1"}, {"c2"}}

Owners == "c1" :> "main" @@ "c2" :> "a"

\* Short and long texts, in characters of one byte and of four.
SomeTexts == {[chars |-> 2, width |-> 1], [chars |-> 9, width |-> 1], [chars |-> 9, width |-> 4]}
OneProvider == <<[by |-> "snapshot", nr |-> 1]>>
=================================================================================
