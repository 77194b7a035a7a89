---------------------------- MODULE MCDeployment -----------------------------
EXTENDS Deployment

MCRuns == 1 .. 6
==============================================================================
