--------------------------- MODULE MCImageOverride ---------------------------
EXTENDS ImageOverride

CONSTANTS ctrl, agent, other   \* repositories; other has no mapping

MCRepos   == {ctrl, agent, other}
MCKeys    == {"controllerImage", "agentImage"}
MCMapping == (ctrl :> "controllerImage") @@ (agent :> "agentImage")
=============================================================================
