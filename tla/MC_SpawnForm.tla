---- MODULE MC_SpawnForm ----
EXTENDS SpawnForm
\* A model of claude's own, and one Ollama serves to every CLI.
MCOwner == [opus |-> "claude", qwen |-> "any"]
\* Two folders are written with a separator at the end.
MCFolder == [d \in Dirs |-> CASE d = "a/" -> "a" [] d = "b/" -> "b" [] OTHER -> d]
====
