------------------------- MODULE MCDeploymentSecurity -------------------------
EXTENDS DeploymentSecurity
=============================================================================
