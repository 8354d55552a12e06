---------------------------- MODULE MCResources ----------------------------
EXTENDS Resources

\* One variable name listed up to twice: the escape list of a chart entry.
MCVariables == {"HUB_KUBECONFIG"}
=============================================================================
