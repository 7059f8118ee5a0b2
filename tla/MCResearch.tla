----------------------------- MODULE MCResearch -----------------------------
(***************************************************************************)
(* The research suite: the components that gather and judge the evidence   *)
(* of Phase 4 and beyond, checked side by side like those of MCPlatform:   *)
(* only the variables of one component move in a behaviour.                *)
(***************************************************************************)
EXTENDS Canary, Capability, SoakRun, DurableFlow, Forward, Archive, EvidenceRun

VARIABLE which    \* the component this behaviour is about

researchVars == <<which, canaryVars, capVars, soakVars, flowVars, forwardVars, archiveVars,
                 evidenceVars>>

\* The variables of all components but one.
Others_canary == <<capVars, soakVars, flowVars, forwardVars, archiveVars, evidenceVars>>
Others_capability == <<canaryVars, soakVars, flowVars, forwardVars, archiveVars, evidenceVars>>
Others_soak == <<canaryVars, capVars, flowVars, forwardVars, archiveVars, evidenceVars>>
Others_flow == <<canaryVars, capVars, soakVars, forwardVars, archiveVars, evidenceVars>>
Others_forward == <<canaryVars, capVars, soakVars, flowVars, archiveVars, evidenceVars>>
Others_archive == <<canaryVars, capVars, soakVars, flowVars, forwardVars, evidenceVars>>
Others_evidence == <<canaryVars, capVars, soakVars, flowVars, forwardVars, archiveVars>>

Init ==
    /\ which \in {"canary", "capability", "soak", "flow", "forward", "archive", "evidence"}
    /\ CanaryInit /\ CapInit /\ SoakInit /\ FlowInit /\ ForwardInit /\ ArchiveInit /\ EvidenceInit
    /\ (which # "canary" => targetEnd = 5)
    /\ (which # "capability" => gate8 = "open")
    /\ (which # "archive" => script.ledgered)
    /\ (which # "evidence" => kind = "rebuild")

Next ==
    /\ UNCHANGED which
    /\ \/ which = "canary" /\ CanaryNext /\ UNCHANGED Others_canary
       \/ which = "capability" /\ CapNext /\ UNCHANGED Others_capability
       \/ which = "soak" /\ SoakNext /\ UNCHANGED Others_soak
       \/ which = "flow" /\ FlowNext /\ UNCHANGED Others_flow
       \/ which = "forward" /\ ForwardNext /\ UNCHANGED Others_forward
       \/ which = "archive" /\ ArchiveNext /\ UNCHANGED Others_archive
       \/ which = "evidence" /\ EvidenceNext /\ UNCHANGED Others_evidence

Spec == Init /\ [][Next]_researchVars

\* The card of a collector candidate names all three kinds of test, the one
\* written by hand names one.
MCReferences == [c \in {1, 2} |-> IF c = 1 THEN TestKinds ELSE {"contract"}]
MCCardRows == [c \in {1, 2} |-> IF c = 1 THEN 13 ELSE 2]
=============================================================================
