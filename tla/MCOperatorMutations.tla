---------------------- MODULE MCOperatorMutations ----------------------
EXTENDS OperatorMutations

CONSTANTS q, s \* two requests

MCRequests == {q, s}

scene(x, y, man, keep) ==
  [asks |-> [r \in MCRequests |-> IF r = q THEN x ELSE y], man |-> man, slots |-> keep]

\* Two clients that ask for different things, or for the same. An attempt that
\* has not yet ended is recovered through every stage; one scene has room for one
\* receipt only.
Scenarios == {scene("recover", "archive", "running", 2),
              scene("cancel", "abandon", "running", 2),
              scene("archive", "archive", "completed", 2),
              scene("recover", "dismiss", "completed", 1)}

=============================================================================
