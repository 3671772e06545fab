SPECIFICATION Spec
CONSTANTS
  Names <- MCNames
  Limits = {0, 2}
INVARIANTS TypeOK ListingWhole
PROPERTY PagesAdvance
