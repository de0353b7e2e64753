------------------------------- MODULE HttpClient ------------------------------
(***************************************************************************)
(* The two HTTP clients: make_request of Windows (win_http_client.cpp) and *)
(* of UWP and Xbox (winapp_http_client.cpp), one request after another of  *)
(* the same client.  WinHTTP, IXMLHTTPRequest2 and the conversions of the  *)
(* system are external: they fail at any step, read a request body in      *)
(* pieces of their sizes and give the body of an answer in pieces of their *)
(* choice.  The loop over chunks of UWP is Chunk of Buffers.               *)
(*                                                                         *)
(* pc is where the request is: "calling" while the functions of the system *)
(* that make_request calls one after the other may fail, "uploading" and   *)
(* "reading" the bodies, "done", or "undefined" after a read that fills    *)
(* the buffer of the desktop.                                              *)
(***************************************************************************)
EXTENDS Buffers, SequencesExt

CONSTANTS
    BufferSize,     \* the desktop's buffer of 1024
    Bodies,         \* texts that are sent, and that are answered
    Sizes           \* sizes in which the system reads a request body

VARIABLES
    client,         \* "desktop" or "uwp"
    content,        \* the body of the request, and of its answer
    pc,
    calls,          \* the functions of the system that were called
    connected,      \* does m_sessionsByHostname hold the host?
    upload,         \* HttpRequestStream
    sent,           \* what the system has read of it
    download,       \* the stream of the answer
    str,            \* responseStream, or ss
    response,       \* the caller's
    before,         \* and what it was before the request
    err             \* what make_request returns

request == <<client, content, before>>
streams == <<upload, sent, download, str>>
httpVars == <<client, content, pc, calls, connected, upload, sent, download, str, response, before, err>>

\* A byte is part of the character that begins at an earlier place.
InsideCharacter(bytes, i) ==
    \E j \in 0..i - 1 : Decode(bytes, j).ok /\ i < j + Decode(bytes, j).length
IsUtf8(bytes) ==
    /\ bytes \in Seq(1..255)
    /\ \A i \in 0..Len(bytes) - 1 : Decode(bytes, i).ok \/ InsideCharacter(bytes, i)

ASSUME HttpAssumption ==
    /\ BufferSize \in Nat
    /\ Sizes \subseteq Nat \ {0}
    /\ \A text \in Bodies : IsUtf8(text)

-------------------------------------------------------------------------------
(* Conversions.  A wide string holds units of 16 bits. *)

Units(code) ==
    IF code < 65536 THEN <<code>>
    ELSE <<55296 + (code - 65536) \div 1024, 56320 + ((code - 65536) % 1024)>>

\* MultiByteToWideChar: U+FFFD for each byte that is part of no character.
WideAt(bytes, i) ==
    IF Decode(bytes, i).ok THEN Units(Decode(bytes, i).code)
    ELSE IF InsideCharacter(bytes, i) THEN <<>> ELSE <<65533>>
Wide(bytes) == FlattenSeq([k \in 1..Len(bytes) |-> WideAt(bytes, k - 1)])

\* wstring_to_utf8: codecvt_utf8<wchar_t> takes each unit for a character.
wstring_to_utf8(wstr) == FlattenSeq([k \in 1..Len(wstr) |-> Encode(wstr[k])])

-------------------------------------------------------------------------------
(* make_request. *)

Response(statusCode, text) == [statusCode |-> statusCode, body |-> text]

\* The steps of both, in their order; "uri" is the test of the URI and its port.
Calls ==
    [desktop |-> <<"uri", "connect", "open_request", "add_request_headers", "set_timeouts",
                   "send_request", "receive_response", "query_headers">>,
     uwp |-> <<"CoCreateInstance", "As", "Open", "SetRequestHeader", "SetProperty", "Send">>]

MakeRequest(c, text) ==
    /\ client' = c /\ content' = text /\ before' = response
    /\ pc' = "calling" /\ calls' = 0 /\ err' = "none"
    /\ upload' = Opened(text) /\ sent' = <<>>
    /\ download' = Opened(text) /\ str' = <<>>
    /\ UNCHANGED <<connected, response>>

Begin == pc = "idle" /\ \E c \in {"desktop", "uwp"}, text \in Bodies : MakeRequest(c, text)
Again == pc = "done" /\ MakeRequest(client, content)

\* The call that comes next.  A host that is connected to is not connected to again,
\* and a request of UWP with an empty body has no stream.
Call == Calls[client][calls + 1]
CallSucceeds ==
    /\ pc = "calling"
    /\ calls' = calls + 1
    /\ connected' = (connected \/ Call = "connect")
    /\ pc' = IF calls' < Len(Calls[client]) THEN "calling"
             ELSE IF client = "uwp" /\ content # <<>> THEN "uploading" ELSE "reading"
    /\ UNCHANGED <<request, streams, response, err>>
CallFails ==
    /\ pc = "calling" /\ ~(Call = "connect" /\ connected)
    /\ pc' = "done" /\ err' = "failed"
    /\ UNCHANGED <<request, streams, calls, connected, response>>

\* The system reads the request body until a read gives nothing.
Upload(size) ==
    /\ pc = "uploading"
    /\ LET got == Read(upload, size)
       IN /\ upload' = got.stream /\ sent' = sent \o got.bytes
          /\ pc' = IF got.bytesRead = 0 THEN "reading" ELSE "uploading"
    /\ UNCHANGED <<request, download, str, calls, connected, response, err>>

Reading(c) == pc = "reading" /\ client = c
Returns(answer) ==
    /\ pc' = "done" /\ err' = "OK" /\ response' = answer
    /\ UNCHANGED <<request, streams, calls, connected>>

\* UWP: OnError, or a failure in ReadUtf8StringFromSequentialStream.
UwpFails == client = "uwp" /\ pc \in {"uploading", "reading"} /\ Returns(response)

\* UWP: a turn of the loop, and its end at a chunk of nothing.
UwpTurn ==
    /\ Reading("uwp") /\ Chunk(download).bytes # <<>>
    /\ download' = Chunk(download).stream
    /\ str' = str \o CString(Wide(Chunk(download).bytes))
    /\ UNCHANGED <<request, upload, sent, pc, calls, connected, response, err>>
UwpEnds ==
    /\ Reading("uwp") /\ Chunk(download).bytes = <<>>
    /\ Returns(Response(200, wstring_to_utf8(str)))

\* Desktop: a read of win_http_read_data.  One that fills the buffer leaves no
\* terminator for operator<<, which reads on behind the buffer.
DesktopRead(size) ==
    /\ Reading("desktop")
    /\ LET got == Read(download, size)
       IN /\ got.bytesRead = size
          /\ download' = got.stream
          /\ \/ size < BufferSize /\ str' = str \o CString(got.bytes) /\ pc' = "reading"
             \/ size = BufferSize /\ str' = str /\ pc' = "undefined"
    /\ UNCHANGED <<request, upload, sent, calls, connected, response, err>>

\* Desktop: a read that gives nothing, or that fails, ends the loop.
DesktopEnds == Reading("desktop") /\ Returns(Response(200, str))

HttpInit ==
    /\ client = "desktop" /\ content = <<>>
    /\ pc = "idle" /\ calls = 0 /\ connected = FALSE
    /\ upload = Opened(<<>>) /\ sent = <<>> /\ download = Opened(<<>>) /\ str = <<>>
    /\ response = Response(0, <<>>) /\ before = response /\ err = "none"
HttpNext ==
    \/ Begin \/ Again \/ CallSucceeds \/ CallFails
    \/ (\E size \in Sizes : Upload(size))
    \/ UwpFails \/ UwpTurn \/ UwpEnds
    \/ (\E size \in 1..BufferSize : DesktopRead(size))
    \/ DesktopEnds
HttpSpec == HttpInit /\ [][HttpNext]_httpVars

-------------------------------------------------------------------------------
\* The answer arrives as it was given: on the desktop, what the reads gave, in their
\* order; on UWP the whole body, character by character whatever the chunks are, or
\* nothing; and a body of characters of up to three bytes comes out of the conversions
\* as it went in.
AnswerWhole ==
    pc = "done" /\ err = "OK" =>
        IF client = "desktop"
        THEN response = Response(200, SubSeq(content, 1, download.seekLocation))
        ELSE \/ response = before
             \/ /\ response = Response(200, wstring_to_utf8(Wide(content)))
                /\ (\A i \in DOMAIN content : content[i] < 240) => response.body = content

\* The answer arrives as AnswerWhole says, and a request body under UWP is read once,
\* from its beginning to its end, before the answer is; a request that fails leaves the
\* caller's response as it was, and on UWP can still return S_OK (both make_request).
BodyWhole ==
    /\ sent = SubSeq(content, 1, upload.seekLocation)
    /\ client = "uwp" /\ pc = "reading" => sent = content
    /\ pc = "done" /\ err # "OK" => response = before
    /\ AnswerWhole
===============================================================================
