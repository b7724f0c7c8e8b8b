SPECIFICATION Spec
CONSTANTS
  x1 = x1
  x2 = x2
  b1 = b1
  b2 = b2
  a1 = a1
  g1 = g1
  w1 = w1
  w2 = w2
  y1 = y1
  None = none
  Images = {x1, x2}
  Looks = {y1}
  LookOf <- MCLookOf
  Rows = {b1, b2}
  Admins = {a1}
  Galleries = {g1}
  Writers = {w1, w2}
  Moderation = TRUE
  Nsfw = TRUE
  FailClosed = TRUE
  Hold = TRUE
SYMMETRY MCSymmetry
INVARIANTS
  BlockedLookRefused
  GalleryAsAsked
