---------------------------- MODULE MCCommands -----------------------------
EXTENDS Commands

CONSTANTS a, b

OneHost == [p \in {a, b} |-> "local"]
=============================================================================
