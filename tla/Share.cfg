SPECIFICATION Spec
CONSTANTS
  Vaults <- SmallVaults
  Tokens <- AllTokens
  Existing <- TwoEntries
  None = None
INVARIANT TypeOK
INVARIANT ReadsBackUnlessAmbiguous
INVARIANT NothingSkipped
INVARIANT CutHarmsOneEntry
INVARIANT ImportAllOrNothing
\* Every behaviour ends with the import, or with an export that is refused.
CHECK_DEADLOCK FALSE
