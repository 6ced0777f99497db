SPECIFICATION Spec
CONSTANT Bodies <- MCBodies
INVARIANTS
  TypeOK
  FieldsInOrder
  DecodedUnlessDigitsFollow
