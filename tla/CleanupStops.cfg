SPECIFICATION CatalogueSpec
CONSTANTS
  Products = {p1, p2}
  Xbox = {p1}
  Created = {}
  Scripts = {s1}
  Edits = {e1}
  Reset = Reset
  Clean = Clean
  MaxRestarts = 1
  NoRow = NoRow
PROPERTY ExpiredIsDeleted
