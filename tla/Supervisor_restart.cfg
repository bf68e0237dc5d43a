SPECIFICATION Spec
CONSTANTS
  MaxAttempts = 1
  MaxFacts = 1
  Locals = {0, 1}
  MaxTokens = 0
  Commands = {c1}
  Kinds = {"clear", "investigate"}
  Impatient = {c1}
  Actions = {"check_in"}
  Audits = TRUE
  MaxChanges = 0
  MaxProposals = 0
  MaxBoots = 2
  MaxFaults = 0
PROPERTIES
  WokenOnce
