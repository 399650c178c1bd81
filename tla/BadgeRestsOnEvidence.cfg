SPECIFICATION VerificationSpec
CONSTANTS
  Papers = {d1, d2}
  PaperTypes = {idcard}
  Required = {idcard}
  Hands = {h1, h2}
  NoPaper = NoPaper
CHECK_DEADLOCK FALSE
PROPERTY BadgeRestsOnEvidence
