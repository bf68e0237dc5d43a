---------------------- MODULE MCReviewerLifecycle ----------------------
EXTENDS ReviewerLifecycle

\* The reviews of a plan and those of an implementation.
Both == {"plan", "implementation"}
=============================================================================
