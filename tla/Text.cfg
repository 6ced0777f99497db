SPECIFICATION Spec
CONSTANTS
  Lt = Lt
  Gt = Gt
  Space = Space
  small = small
  big = big
  cyrillic = cyrillic
  Char <- MCChar
  Width <- MCWidth
  ToLower <- MCToLower
  Texts <- MCTexts
INVARIANT WordsCounted
