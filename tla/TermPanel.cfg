\* Two tabs at a time and three in all.
SPECIFICATION Spec
CONSTANTS
  MaxIds = 3
  MaxTabs = 2
INVARIANTS
  ActiveTabExists
  ExecDotTrue
  SshDotTrueButForRaces
PROPERTIES
  NewTerminalShown
  ConnectingEnds
