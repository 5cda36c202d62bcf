----------------------------- MODULE RespDecoder -----------------------------
(***************************************************************************)
(* The RESP decoder of src/pkg/proxy/redis/decoder.go, reading through a   *)
(* bufio2.Reader (src/unnamed/part_000).  A decoder reads one byte stream: *)
(* the backend's reader calls Decode for each reply, a session calls      *)
(* DecodeMultiBulk for each request.  Each call is one atomic step: it is *)
(* a synchronous parse of the stream from the reader's position, written  *)
(* here as operators that return [err, val, pos], pos being the position  *)
(* of the next unread byte.  A byte is a one-character string, with "CR", *)
(* "LF" and "SP" for "\r", "\n" and " ".  The integer width (64), the     *)
(* fast-path length of Btoi64 (10), MaxBulkBytesLen, MaxArrayLen and the  *)
(* reader's buffer size are constants, scaled down for model checking.    *)
(***************************************************************************)
EXTENDS Naturals, Integers, Sequences, TLC

SE == INSTANCE SequencesExt

CONSTANTS
  IntBits,          \* width of int64
  FastLen,          \* Btoi64's fast path: len(b) < 10
  MaxBulkBytesLen,  \* 1024 * 1024 * 512
  MaxArrayLen,      \* 1024 * 1024
  BufSize,          \* len(b.buf) of the bufio2.Reader
  ReplyStreams,     \* the replies a backend may send: sequences of frames
  RequestStreams,   \* the requests a client may send: sequences of frames
  IntAlphabet,      \* the bytes of the integer texts Btoi64 is checked on
  MaxCalls,         \* bound: Decode / DecodeMultiBulk calls per decoder
  Nil               \* a nil slice

ASSUME DecoderAssumption ==
  /\ IntBits \in Nat \ {0}
  /\ FastLen \in Nat
  /\ MaxBulkBytesLen \in Nat
  /\ MaxArrayLen \in Nat
  /\ BufSize \in Nat \ {0}
  /\ MaxCalls \in Nat

NoErr == "nil"
Digits == {"0", "1", "2", "3", "4", "5", "6", "7", "8", "9"}
DigitVal(c) == CHOOSE k \in 0 .. 9 : ToString(k) = c
TextTypes == {"+", "-", ":"}   \* TypeString, TypeError, TypeInt

Ok(v, p) == [err |-> NoErr, val |-> v, pos |-> p]
Fail(e) == [err |-> e, val |-> Nil, pos |-> 0]
MkResp(t, v, a) == [type |-> t, value |-> v, array |-> a]

-----------------------------------------------------------------------------
(* Btoi64(b): the fast path for short inputs, else strconv.ParseInt.      *)

\* int64 arithmetic wraps modulo 2^64.
Wrap(x) == ((x + 2^(IntBits - 1)) % 2^IntBits) - 2^(IntBits - 1)

\* strconv.ParseInt(string(b), 10, 64): an optional sign and at least one
\* digit, with a range error outside int64.
ParseInt(b) ==
  LET i == IF Len(b) > 0 /\ b[1] \in {"-", "+"} THEN 1 ELSE 0
      num[k \in 0 .. Len(b)] == IF k <= i THEN 0 ELSE 10 * num[k - 1] + DigitVal(b[k])
      v == IF i = 1 /\ b[1] = "-" THEN -num[Len(b)] ELSE num[Len(b)]
  IN  IF Len(b) = i \/ \E k \in i + 1 .. Len(b) : b[k] \notin Digits
        THEN Fail("ParseInt")
      ELSE IF v < -(2^(IntBits - 1)) \/ v > 2^(IntBits - 1) - 1
        THEN Fail("ParseInt")
      ELSE Ok(v, 0)

\* Mutant: the fast path taken whatever the length.
FastPathUnbounded(b) == Len(b) # 0

\* `len(b) != 0 && len(b) < 10`
FastPath(b) == Len(b) # 0 /\ Len(b) < FastLen

Btoi64(b) ==
  LET neg == FastPath(b) /\ b[1] = "-"
      i == IF FastPath(b) /\ b[1] \in {"-", "+"} THEN 1 ELSE 0
      n[k \in 0 .. Len(b)] == IF k <= i THEN 0 ELSE Wrap(DigitVal(b[k]) + n[k - 1] * 10)
  IN  IF FastPath(b) /\ Len(b) # i /\ \A k \in i + 1 .. Len(b) : b[k] \in Digits
        THEN Ok(IF neg THEN Wrap(-n[Len(b)]) ELSE n[Len(b)], 0)
        ELSE ParseInt(b)

-----------------------------------------------------------------------------
(* The bufio2.Reader calls on stream s at position p.  ReadSlice fails    *)
(* with ErrBufferFull when no '\n' is among the next len(buf) bytes, and  *)
(* ReadBytes reads on past a full buffer; both fail with the underlying   *)
(* EOF when the stream ends first.                                         *)

LineEnd(s, p) ==
  LET ends == {k \in p .. Len(s) : s[k] = "LF"}
  IN  IF ends = {} THEN 0 ELSE CHOOSE k \in ends : \A j \in ends : k <= j

ReadByte(s, p) == IF p <= Len(s) THEN Ok(s[p], p + 1) ELSE Fail("EOF")

PeekByte(s, p) == IF p <= Len(s) THEN Ok(s[p], p) ELSE Fail("EOF")

ReadSlice(s, p) ==
  LET e == LineEnd(s, p)
  IN  IF e # 0 /\ e - p + 1 <= BufSize THEN Ok(SubSeq(s, p, e), e + 1)
      ELSE IF Len(s) - p + 1 >= BufSize THEN Fail("BufferFull")
      ELSE Fail("EOF")

ReadBytes(s, p) ==
  LET e == LineEnd(s, p)
  IN  IF e # 0 THEN Ok(SubSeq(s, p, e), e + 1) ELSE Fail("EOF")

ReadFull(s, p, n) ==
  IF p + n - 1 <= Len(s) THEN Ok(SubSeq(s, p, p + n - 1), p + n) ELSE Fail("EOF")

-----------------------------------------------------------------------------
(* The decode functions.                                                   *)

\* Mutant: only the length of the line checked.
BadCRLFLenOnly(b) == Len(b) < 2

\* `n := len(b) - 2; n < 0 || b[n] != '\r'`: the line b (ending in '\n')
\* does not end in CRLF.
BadCRLF(b) == Len(b) < 2 \/ b[Len(b) - 1] # "CR"

Chomp(b) == SubSeq(b, 1, Len(b) - 2)

(* Each decode function is written as the read it starts with, applied   *)
(* to an operator for the rest of the function: the result of the read   *)
(* is that operator's parameter, as it is the Go function's local.       *)

\* decodeTextBytes: ReadBytes('\n'), then the CRLF check.
TextLine(r) ==
  IF r.err # NoErr THEN r
  ELSE IF BadCRLF(r.val) THEN Fail("BadCRLFEnd")
  ELSE Ok(Chomp(r.val), r.pos)

DecodeTextBytes(s, p) == TextLine(ReadBytes(s, p))

\* decodeInt: ReadSlice('\n'), the CRLF check, then Btoi64.
IntValue(n, pos) == IF n.err # NoErr THEN n ELSE Ok(n.val, pos)

IntLine(r) ==
  IF r.err # NoErr THEN r
  ELSE IF BadCRLF(r.val) THEN Fail("BadCRLFEnd")
  ELSE IntValue(Btoi64(Chomp(r.val)), r.pos)

DecodeInt(s, p) == IntLine(ReadSlice(s, p))

\* decodeBulkBytes: the length, then ReadFull(n + 2) and the trailing CRLF.
BulkPayload(n, b) ==
  IF b.err # NoErr THEN b
  ELSE IF b.val[n + 1] # "CR" \/ b.val[n + 2] # "LF" THEN Fail("BadCRLFEnd")
  ELSE Ok(SubSeq(b.val, 1, n), b.pos)

BulkLen(s, n) ==
  CASE n.err # NoErr -> n
    [] n.val < -1 -> Fail("BadBulkBytesLen")
    [] n.val > MaxBulkBytesLen -> Fail("BadBulkBytesLenTooLong")
    [] n.val = -1 -> Ok(Nil, n.pos)
    [] OTHER -> BulkPayload(n.val, ReadFull(s, n.pos, n.val + 2))

DecodeBulkBytes(s, p) == BulkLen(s, DecodeInt(s, p))

RECURSIVE DecodeResp(_, _), DecodeElems(_, _, _, _), ElemDecoded(_, _, _, _)

\* decodeArray: the count, then that many frames by decodeResp.
ArrayLen(s, n) ==
  CASE n.err # NoErr -> n
    [] n.val < -1 -> Fail("BadArrayLen")
    [] n.val > MaxArrayLen -> Fail("BadArrayLenTooLong")
    [] n.val = -1 -> Ok(Nil, n.pos)
    [] OTHER -> DecodeElems(s, n.pos, n.val, <<>>)

DecodeArray(s, p) == ArrayLen(s, DecodeInt(s, p))

\* The loop `for i := range array`, returning at the first error.
DecodeElems(s, p, k, acc) ==
  IF k = 0 THEN Ok(acc, p) ELSE ElemDecoded(s, DecodeResp(s, p), k, acc)

ElemDecoded(s, r, k, acc) ==
  IF r.err # NoErr THEN r ELSE DecodeElems(s, r.pos, k - 1, Append(acc, r.val))

\* r.Value, err = ... or r.Array, err = ...: a Resp of type t on success.
WithValue(t, r) == IF r.err # NoErr THEN r ELSE Ok(MkResp(t, r.val, Nil), r.pos)
WithArray(r) == IF r.err # NoErr THEN r ELSE Ok(MkResp("*", Nil, r.val), r.pos)

\* decodeResp: the type byte, then the switch on it.
RespOfType(s, t) ==
  CASE t.err # NoErr -> t
    [] t.val \in TextTypes -> WithValue(t.val, DecodeTextBytes(s, t.pos))
    [] t.val = "$" -> WithValue("$", DecodeBulkBytes(s, t.pos))
    [] t.val = "*" -> WithArray(DecodeArray(s, t.pos))
    [] OTHER -> Fail("BadRespType")

DecodeResp(s, p) == RespOfType(s, ReadByte(s, p))

RECURSIVE FieldsUnwrapped(_, _, _), Fields(_, _, _)

\* Mutant: the runs appended as raw bytes, without NewBulkBytes.
FieldsUnwrapped(b, cur, acc) ==
  LET flushed == IF cur = <<>> THEN acc ELSE Append(acc, cur)
  IN  IF b = <<>> THEN flushed
      ELSE IF Head(b) = "SP" THEN FieldsUnwrapped(Tail(b), <<>>, flushed)
      ELSE FieldsUnwrapped(Tail(b), Append(cur, Head(b)), acc)

\* The l, r scan of decodeSingleLineMultiBulk: the non-empty runs of b
\* between spaces, each one appended to multi as a bulk.
Fields(b, cur, acc) ==
  LET flushed == IF cur = <<>> THEN acc ELSE Append(acc, MkResp("$", cur, Nil))
  IN  IF b = <<>> THEN flushed
      ELSE IF Head(b) = "SP" THEN Fields(Tail(b), <<>>, flushed)
      ELSE Fields(Tail(b), Append(cur, Head(b)), acc)

\* `if len(multi) == 0 { return nil, errors.Trace(ErrBadMultiBulkLen) }`
InlineRequest(multi, pos) == IF multi = <<>> THEN Fail("BadMultiBulkLen") ELSE Ok(multi, pos)

InlineLine(b) == IF b.err # NoErr THEN b ELSE InlineRequest(Fields(b.val, <<>>, <<>>), b.pos)

DecodeSingleLineMultiBulk(s, p) == InlineLine(DecodeTextBytes(s, p))

\* Mutant: only a negative count refused, `n < 0`.
EmptyRequestAllowed(n) == n < 0

\* `case n <= 0: return nil, errors.Trace(ErrBadArrayLen)`
BadRequestLen(n) == n <= 0

RECURSIVE DecodeBulkElems(_, _, _, _), BulkElemDecoded(_, _, _, _)

\* The loop of decodeMultiBulk: every element must be a bulk.
DecodeBulkElems(s, p, k, acc) ==
  IF k = 0 THEN Ok(acc, p) ELSE BulkElemDecoded(s, DecodeResp(s, p), k, acc)

BulkElemDecoded(s, r, k, acc) ==
  IF r.err # NoErr THEN r
  ELSE IF r.val.type # "$" THEN Fail("BadMultiBulkContent")
  ELSE DecodeBulkElems(s, r.pos, k - 1, Append(acc, r.val))

\* decodeMultiBulk after the '*' and the count.
RequestLen(s, n) ==
  CASE n.err # NoErr -> n
    [] BadRequestLen(n.val) -> Fail("BadArrayLen")
    [] n.val > MaxArrayLen -> Fail("BadArrayLenTooLong")
    [] OTHER -> DecodeBulkElems(s, n.pos, n.val, <<>>)

\* decodeMultiBulk: PeekByte; an inline request unless it is '*'.
RequestOfType(s, p, c) ==
  CASE c.err # NoErr -> c
    [] c.val # "*" -> DecodeSingleLineMultiBulk(s, p)
    [] OTHER -> RequestLen(s, DecodeInt(s, p + 1))

DecodeMultiBulkFrom(s, p) == RequestOfType(s, p, PeekByte(s, p))

-----------------------------------------------------------------------------
(* A frame is [bytes, expect]: its bytes on the wire and the outcome that *)
(* the RESP grammar of the specification (4.4, 6) gives it; the expected  *)
(* outcome is a history field that no action reads.                       *)

VARIABLES
  role,     \* "backend": the reader calls Decode; "session": DecodeMultiBulk
  frames,   \* the frames sent, in order
  stream,   \* their bytes, the stream the bufio2.Reader reads
  rpos,     \* the reader's position in the stream
  err,      \* d.Err, NoErr while the decoder has not failed
  out       \* the outcomes [err, val] of the calls so far

vars == <<role, frames, stream, rpos, err, out>>

Outcome(r) == [err |-> r.err, val |-> r.val]

\* A call on a failed decoder: `return nil, errors.Trace(ErrFailedDecoder)`.
FailedCall ==
  /\ err # NoErr
  /\ out' = Append(out, [err |-> "FailedDecoder", val |-> Nil])
  /\ UNCHANGED <<rpos, err>>

\* A parse r: on an error it becomes the sticky d.Err; the reader's
\* position then no longer matters, as no call reads again.
Parsed(r) ==
  /\ out' = Append(out, Outcome(r))
  /\ err' = r.err
  /\ rpos' = IF r.err = NoErr THEN r.pos ELSE rpos

\* d.Decode()
Decode ==
  /\ role = "backend"
  /\ Len(out) < MaxCalls
  /\ \/ FailedCall
     \/ err = NoErr /\ Parsed(DecodeResp(stream, rpos))
  /\ UNCHANGED <<role, frames, stream>>

\* d.DecodeMultiBulk()
DecodeMultiBulk ==
  /\ role = "session"
  /\ Len(out) < MaxCalls
  /\ \/ FailedCall
     \/ err = NoErr /\ Parsed(DecodeMultiBulkFrom(stream, rpos))
  /\ UNCHANGED <<role, frames, stream>>

Init ==
  /\ \/ role = "backend" /\ frames \in ReplyStreams
     \/ role = "session" /\ frames \in RequestStreams
  /\ stream = SE!FlattenSeq([k \in 1 .. Len(frames) |-> frames[k].bytes])
  /\ rpos = 1
  /\ err = NoErr
  /\ out = <<>>

Next == Decode \/ DecodeMultiBulk

Spec == Init /\ [][Next]_vars

-----------------------------------------------------------------------------
(* Properties.                                                            *)

\* Decoded values up to two levels of nesting, as the runs produce them.
Bytes == {Nil} \cup Seq(STRING)
Resps2 == [type : {"+", "-", ":", "$"}, value : Bytes, array : {Nil}]
Resps1 == Resps2 \cup [type : {"*"}, value : {Nil}, array : {Nil} \cup Seq(Resps2)]
Resps == Resps1 \cup [type : {"*"}, value : {Nil}, array : {Nil} \cup Seq(Resps1)]

IsResp(r) == DOMAIN r = {"type", "value", "array"} /\ r \in Resps

TypeOK ==
  /\ role \in {"backend", "session"}
  /\ stream \in Seq(STRING)
  /\ rpos \in 1 .. Len(stream) + 1
  /\ err \in STRING
  /\ \A k \in 1 .. Len(out) :
       /\ out[k].err \in STRING
       /\ \/ out[k].val = Nil
          \/ role = "backend" /\ IsResp(out[k].val)
          \/ role = "session" /\ \A i \in DOMAIN out[k].val : IsResp(out[k].val[i])
  /\ Len(out) <= MaxCalls

\* The outcome the grammar gives the k-th call: the k-th frame's while no
\* frame before it was malformed; EOF once all frames were read; and
\* "use of failed decoder" after the first error.
Expected(k) ==
  LET bad == {j \in 1 .. Len(frames) : frames[j].expect.err # NoErr}
      firstErr == IF bad = {} THEN Len(frames) + 1
                  ELSE CHOOSE j \in bad : \A i \in bad : j <= i
  IN  IF k <= firstErr /\ k <= Len(frames) THEN frames[k].expect
      ELSE IF k = firstErr THEN [err |-> "EOF", val |-> Nil]
      ELSE [err |-> "FailedDecoder", val |-> Nil]

\* Pipelined replies decode one frame per Decode call, each to the value
\* the backend encoded: the length prefixes, the bulk payloads read as
\* binary (CR and LF inside them included), the nested arrays and the
\* trailing CRLFs leave the reader exactly at the next frame; a malformed
\* frame fails with the error the specification names, and so does every
\* later call, with "use of failed decoder".
RepliesDecodeAsEncoded ==
  role = "backend" => \A k \in 1 .. Len(out) : out[k] = Expected(k)

\* Pipelined requests, as multi-bulk arrays of bulks or as inline lines
\* split on spaces, decode one request per DecodeMultiBulk call to the
\* arguments the client sent; an empty or non-bulk request fails with the
\* error the specification names, and the decoder stays failed.
RequestsDecodeAsSent ==
  role = "session" => \A k \in 1 .. Len(out) : out[k] = Expected(k)

\* Btoi64's fast path agrees with strconv.ParseInt on every text over
\* IntAlphabet up to one byte past the fast path's length limit (empty
\* text, a sign alone, a sign and digits, a stray byte and the longest
\* fast-path text at the integer's range), and on every window of that
\* length of the stream being decoded, whatever bytes it holds.
IntTexts == UNION {[1 .. k -> IntAlphabet] : k \in 0 .. FastLen + 1}

StreamTexts ==
  {w \in {SubSeq(stream, i, j) : i \in 1 .. Len(stream), j \in 0 .. Len(stream)} :
     Len(w) <= FastLen + 1}

Btoi64MatchesParseInt == \A b \in IntTexts \cup StreamTexts : Btoi64(b) = ParseInt(b)

=============================================================================
