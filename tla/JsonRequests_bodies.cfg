\* Documents, parts of documents and other texts.
SPECIFICATION Spec
CONSTANTS
  Length <- MCLength
  Integer <- MCInteger
  Fractions <- MCFractions
  IntBits = 4
  Documents <- MCDocuments
  Bodies <- MCBodies
  OtherTexts <- MCOtherTexts
  Names <- MCNames
  TOKENS_NUMBER = 8
  IP_BUFFER_SIZE = 8
INVARIANTS
  RequestObeyed
  PassesAgree
  CursorFollowsWalk
  LookupsMatchDocument
