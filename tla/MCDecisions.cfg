\* The pure rules, over the inputs MCDecisions puts to them.
SPECIFICATION Spec
INVARIANTS
  RetrievalIsFair
  ContextKeepsWhatMatters
  AdmissionsConverge
  AccessIsConsistent
  BetterIsNoWorse
  ChainsAreWhole
  RewritingKeepsMeaning
