---------------------------- MODULE MCArtifacts ----------------------------
EXTENDS Artifacts
=============================================================================
