--------------------------- MODULE MCMetadataGate ---------------------------
(* The gate of one Pull Request: a draft, its approval and another draft. *)
EXTENDS MetadataGate
CONSTANTS c1, c2, x2
TwoDrafts == {[content |-> c1, approved |-> FALSE], [content |-> c1, approved |-> TRUE],
              [content |-> c2, approved |-> FALSE]}

\* Two texts of the configured generator can stand for one another, so that main need not
\* begin with the second.
GateInit == Init /\ tip.tree.output.text # x2
GateSpec == GateInit /\ [][Next]_vars /\ Fairness

\* In a repository with all that the workflow needs, people change inputs only, one commit
\* at a time, and leave generated output to the bot.
OnlyInputs(commit) ==
    commit.paths = {"input"} /\ Changed(tip.tree, commit.tree) = {"input"}
InputEdits == tip' # tip /\ tip'.by = "human" => OnlyInputs(tip')
EverythingSet == setup = [own |-> TRUE, token |-> TRUE, login |-> TRUE]
=============================================================================
