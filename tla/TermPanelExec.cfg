\* Run by hand: a counterexample to the property (README, section 6).
SPECIFICATION Spec
CONSTANTS
  MaxIds = 2
  MaxTabs = 2
PROPERTIES
  ExecTabShown
