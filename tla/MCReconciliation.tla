------------------------- MODULE MCReconciliation -------------------------
EXTENDS Reconciliation

\* Issues whose collections and edits meet one operator's request at a time, or
\* none.
OneOperator == {"operator"}
NoOperator  == {}

\* No two issues touch the same paths.
Disjoint == {}
=============================================================================
