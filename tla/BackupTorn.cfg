\* Two requests overlap and one renames the file the other writes.
SPECIFICATION DocumentsSpec
CONSTANTS
  old = old
  new = new
  twin = twin
  first = first
  second = second
  removal = removal
  Docs = {old, new, twin}
  ExportedAt <- MCExportedAt
  Size <- MCSize
  Puts = {p1, p2}
  None = None
  Publications = {first, second}
  Deletions = {removal}
  UpdatedAt <- MCUpdatedAt
  Changes = {c1, c2}
  NoProfile = NoProfile
INVARIANTS
  SlotStaysReadable
