\* Commands side by side before the site is built, and one tab of it after.
CONSTANTS
  Command = {c1, c2}
  MaxUploads = 2
  MaxCommands = 2
  Source = {"manifest", "pot"}
  Page = {"home", "tx", "address", "lookup"}
  TxHashes = {2}
  OldEnvelopes = {1}
  MaxActions = 2
SPECIFICATION Spec
INVARIANTS
  RefsKept
  PotTogether
  PagesSound
CHECK_DEADLOCK FALSE
