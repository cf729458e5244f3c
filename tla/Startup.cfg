\* Two migrations, a profile and the ledger to import, two logins, two signatures, one
\* of them in two spellings.
SPECIFICATION StartupSpec
CONSTANTS
  prompt = prompt
  ahead = ahead
  promptHex = promptHex
  aheadHex = aheadHex
  aheadHex0x = aheadHex0x
  Migrations = 2
  Sources = {profileFile, ledgerFile}
  Counted = {profileFile}
  Removable = {profileFile}
  Upserted = {}
  Signatures = {prompt, ahead}
  SignedAt <- MCSignedAt
  Spellings = {promptHex, aheadHex, aheadHex0x}
  SignatureOf <- MCSignatureOf
  Logins = {l1, l2}
  Window = 1
  TTL = 2
  Unspent = Unspent
  MaxTime = 3
  MaxUses = 2
INVARIANTS
  StartupTypeOK
  ReplaysAreApart
  LegacyKept
