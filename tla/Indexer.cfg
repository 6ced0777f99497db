SPECIFICATION Spec
CONSTANTS
  u1 = u1
  u2 = u2
  w1 = w1
  w2 = w2
  w3 = w3
  Urls <- MCUrls
  Words <- MCWords
  Contents <- MCContents
  NoUrl = NoUrl
  NoWord = NoWord
  MaxVisits = 4
  MaxCrashes = 3
INVARIANTS
  TypeOK
  KeysHold
  WordRowsPrivate
  OneSnapshot
  OrphansBounded
PROPERTIES
  NeverRepaired
  PageByPage
