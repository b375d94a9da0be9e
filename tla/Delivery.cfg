CONSTANTS
  Chars <- MCChars
  Lower <- MCLower
  Alias <- MCAlias
  OctetStream <- MCOctetStream
  MaxTitle = 3
  MaxDesc = 3
  MaxTag = 2
  MaxTags = 2
  MaxType = 4
  MaxEnvelope = 11
  Documents <- MCDocuments
  None = None
  Stamps = {0, 1}
  MaxPosts = 2
  MaxFaults = 2
SPECIFICATION FairSpec
INVARIANTS DeliveryTypeOK Verifiable SameDocumentOnce
PROPERTIES PartedByFault ComesUp
CHECK_DEADLOCK FALSE
