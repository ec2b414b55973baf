SPECIFICATION Spec
CONSTANTS
  Texts <- MCTexts
  ChunkSizes <- MCChunkSizes
  Codecs <- MCCodecs
INVARIANTS
  TypeOK
  OutputIsDecoding
  VerdictIsRight
  CompleteIsDecode
  WritesInBuffer
  CountsAgree
PROPERTY
  StreamSpec
