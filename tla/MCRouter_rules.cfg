SPECIFICATION Spec
CONSTANTS
  Digits <- MCDigits
  LongMax = 11
  Verbs <- MCVerbs
  RuleChoices <- MCRuleChoices
  Urls <- MCUrls
  AllUrls <- MCAllUrls
  MaxRules = 3
  MaxValidates = 2
INVARIANTS
  RouterTypeOK
  LookupsRight
  DuplicatesRefused
  HandlersFit
  AllowTruthful
  ListingComplete
PROPERTIES
  AnswersStable
\* An exception that nothing catches ends the program.
CHECK_DEADLOCK FALSE
