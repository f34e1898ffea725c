------------------------------ MODULE MCOwner ------------------------------
(***************************************************************************)
(* Two commands and two skill candidates for TLC.                          *)
(***************************************************************************)
EXTENDS OwnerCommands

MCCommands == 1..2
MCCandidates == <<"skill1", "skill2">>
MCPaths == {"plan", "policy", "code", "skill1", "skill2", "questions", "answers",
            "partial", "context", "sidecar", "diagnosis", "runs"}
MCBookkeeping == {"runs"}
=============================================================================
