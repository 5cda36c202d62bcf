---------------------------- MODULE MCRespDecoder ----------------------------
(***************************************************************************)
(* Streams of frames for RespDecoder.  Well-formed frames are encoded as  *)
(* the RESP grammar of the specification (4.4) writes them; malformed     *)
(* frames carry the error the specification (6) names for them and are   *)
(* sent last, so that what follows them is the end of the stream.         *)
(***************************************************************************)
EXTENDS RespDecoder

CRLF == <<"CR", "LF">>

\* The decimal text of a length in -1 .. 9.
LenText(n) == IF n = -1 THEN <<"-", "1">> ELSE <<ToString(n)>>

Text(t, v) == MkResp(t, v, Nil)
Bulk(v) == MkResp("$", v, Nil)
Arr(a) == MkResp("*", Nil, a)

RECURSIVE Encode(_)
Encode(r) ==
  CASE r.type \in TextTypes -> <<r.type>> \o r.value \o CRLF
    [] r.type = "$" /\ r.value = Nil -> <<"$">> \o LenText(-1) \o CRLF
    [] r.type = "$" -> <<"$">> \o LenText(Len(r.value)) \o CRLF \o r.value \o CRLF
    [] r.array = Nil -> <<"*">> \o LenText(-1) \o CRLF
    [] OTHER -> <<"*">> \o LenText(Len(r.array)) \o CRLF
                  \o SE!FlattenSeq([k \in 1 .. Len(r.array) |-> Encode(r.array[k])])

Good(bytes, v) == [bytes |-> bytes, expect |-> [err |-> NoErr, val |-> v]]
Bad(bytes, e) == [bytes |-> bytes, expect |-> [err |-> e, val |-> Nil]]

ReplyValues ==
  { Text("+", <<>>), Text("-", <<"a">>), Text(":", <<"-", "1">>),
    Bulk(Nil), Bulk(<<>>), Bulk(<<"CR", "LF">>), Bulk(<<"a", "a", "a">>),
    Arr(Nil), Arr(<<>>), Arr(<<Text(":", <<"1">>), Bulk(Nil)>>),
    Arr(<<Arr(<<Bulk(<<"a">>)>>)>>) }

GoodReplies ==
  {Good(Encode(v), v) : v \in ReplyValues}
  \cup {Good(<<"$", "0", "0", "1", "CR", "LF", "a", "CR", "LF">>, Bulk(<<"a">>)),
        Good(<<"$", "+", "1", "CR", "LF", "LF", "CR", "LF">>, Bulk(<<"LF">>))}

BadReplies ==
  { Bad(<<"+", "a", "LF">>, "BadCRLFEnd"),
    Bad(<<"+", "a">>, "EOF"),
    Bad(<<"?">>, "BadRespType"),
    Bad(<<"$", "-", "2", "CR", "LF">>, "BadBulkBytesLen"),
    Bad(<<"$", "4", "CR", "LF">>, "BadBulkBytesLenTooLong"),
    Bad(<<"$", "1", "CR", "LF", "a", "a", "CR", "LF">>, "BadCRLFEnd"),
    Bad(<<"$", "2", "CR", "LF", "a">>, "EOF"),
    Bad(<<"$", "x", "CR", "LF">>, "ParseInt"),
    Bad(<<"$", "9", "9", "9", "CR", "LF">>, "ParseInt"),
    Bad(<<"$", "0", "0", "0", "1", "CR", "LF">>, "BufferFull"),
    Bad(<<"*", "-", "2", "CR", "LF">>, "BadArrayLen"),
    Bad(<<"*", "3", "CR", "LF">>, "BadArrayLenTooLong"),
    Bad(<<"*", "1", "CR", "LF">>, "EOF") }

GoodRequests ==
  { Good(<<"*", "1", "CR", "LF", "$", "1", "CR", "LF", "a", "CR", "LF">>, <<Bulk(<<"a">>)>>),
    Good(<<"*", "2", "CR", "LF", "$", "0", "CR", "LF", "CR", "LF", "$", "-", "1", "CR", "LF">>,
         <<Bulk(<<>>), Bulk(Nil)>>),
    Good(<<"*", "1", "CR", "LF", "$", "2", "CR", "LF", "CR", "LF", "CR", "LF">>, <<Bulk(CRLF)>>),
    Good(<<"a", "CR", "LF">>, <<Bulk(<<"a">>)>>),
    Good(<<"SP", "a", "SP", "SP", "a", "a", "CR", "LF">>, <<Bulk(<<"a">>), Bulk(<<"a", "a">>)>>) }

BadRequests ==
  { Bad(<<"*", "0", "CR", "LF">>, "BadArrayLen"),
    Bad(<<"*", "-", "1", "CR", "LF">>, "BadArrayLen"),
    Bad(<<"*", "3", "CR", "LF">>, "BadArrayLenTooLong"),
    Bad(<<"*", "1", "CR", "LF", ":", "1", "CR", "LF">>, "BadMultiBulkContent"),
    Bad(<<"*", "1", "CR", "LF", "*", "0", "CR", "LF">>, "BadMultiBulkContent"),
    Bad(<<"SP", "CR", "LF">>, "BadMultiBulkLen"),
    Bad(<<"CR", "LF">>, "BadMultiBulkLen"),
    Bad(<<"a", "LF">>, "BadCRLFEnd"),
    Bad(<<"*", "x", "CR", "LF">>, "ParseInt"),
    Bad(<<"*", "1", "CR", "LF", "$", "1", "CR", "LF", "a">>, "EOF") }

\* One frame, or a well-formed frame followed by any frame.
TwoFrames(good, bad) ==
  {<<f>> : f \in good \cup bad} \cup {<<f, g>> : f \in good, g \in good \cup bad}

MCReplyStreams == TwoFrames(GoodReplies, BadReplies)
MCRequestStreams == TwoFrames(GoodRequests, BadRequests)
MCIntAlphabet == {"-", "+", "0", "1", "9", "x"}
=============================================================================
