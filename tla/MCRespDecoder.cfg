\* Scaled: 8-bit integers with a fast path of up to two bytes (99 < 2^7, as
\* nine digits < 2^63), bulks of up to 3 bytes, arrays of up to 2 frames and
\* a 5-byte read buffer, so that every length check has a case on each side.
CONSTANTS
  Nil = Nil
  IntBits = 8
  FastLen = 3
  MaxBulkBytesLen = 3
  MaxArrayLen = 2
  BufSize = 5
  MaxCalls = 4
  ReplyStreams <- MCReplyStreams
  RequestStreams <- MCRequestStreams
  IntAlphabet <- MCIntAlphabet
SPECIFICATION Spec
INVARIANTS TypeOK RepliesDecodeAsEncoded RequestsDecodeAsSent Btoi64MatchesParseInt
\* Each decoder is called MaxCalls times; its caller then stops calling.
CHECK_DEADLOCK FALSE
