\* Two requests at each store in progress, three backups, two profiles and a
\* removal; any number of failures and crashes.
SPECIFICATION DocumentsSpec
SYMMETRY Symmetric
CONSTANTS
  old = old
  new = new
  twin = twin
  first = first
  second = second
  removal = removal
  Docs = {old, new, twin}
  ExportedAt <- MCExportedAt
  Size <- MCSize
  Puts = {p1, p2}
  None = None
  Publications = {first, second}
  Deletions = {removal}
  UpdatedAt <- MCUpdatedAt
  Changes = {c1, c2}
  NoProfile = NoProfile
INVARIANTS
  BackupIsNewest
PROPERTIES
  ProfileOnlyNewer
