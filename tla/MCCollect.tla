----------------------------- MODULE MCCollect -----------------------------
EXTENDS Collect

============================================================================
