SPECIFICATION Spec
CONSTANTS
  Texts <- MCShortTexts
  ChunkSizes <- MCShortChunkSizes
  Codecs <- MCPlainCodecs
PROPERTY
  NothingAfterFailure
