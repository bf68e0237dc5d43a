SPECIFICATION Spec
CONSTANTS
  MaxAttempts = 1
  MaxFacts = 1
  Locals = {1}
  MaxTokens = 0
  Commands = {c1}
  Kinds = {"clear", "investigate"}
  Impatient = {c1}
  Actions = {"check_in"}
  Audits = TRUE
  MaxChanges = 1
  MaxProposals = 1
  MaxBoots = 2
  MaxFaults = 1
INVARIANTS
  ReportHonest
PROPERTIES
  TargetWokenOnce
  ActedOnce
