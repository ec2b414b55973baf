SPECIFICATION Spec
CONSTANTS
  Messages <- MCMessages
  ChunkSizes <- MCChunkSizes
  Codecs <- MCCodecs
CHECK_DEADLOCK TRUE
INVARIANTS
  TypeOK
  OutputIsEncoding
  FinalIsEncode
  LoadsInChunk
  CountsAgree
  CallFitsBuffer
PROPERTY
  StreamSpec
