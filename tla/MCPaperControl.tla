--------------------------- MODULE MCPaperControl ---------------------------
(* Instances of PaperControl for TLC: one halt and one resume command.      *)
EXTENDS PaperControl

MCKeys == {"halt", "resume"}
MCCommand == [halt |-> "halt_paper", resume |-> "resume_paper"]
\* An API process of its own, and one that holds the runtime.
MCBoth == [bound : BOOLEAN, owner : {"loop"}]
=============================================================================
