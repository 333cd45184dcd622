---------------------------- MODULE MCProbeDirs ----------------------------
EXTENDS ProbeDirs
============================================================================
