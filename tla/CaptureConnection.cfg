CONSTANTS
  home = home
  chrome = chrome
  Dirs = {home}
  Launchers = {l1}
  None = None
  Commands = 2
  Mishaps = 2
  Extensions = {chrome, edge}
  Clicks = 2
  MaxActive = 1
  Setups <- MCSetups
SPECIFICATION Spec
CHECK_DEADLOCK FALSE
INVARIANTS TypeOK VaultsWhole
PROPERTIES AcceptedIsCurrent CredentialNeverReturns StatusSettles
