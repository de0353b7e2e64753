-------------------------------- MODULE Buffers --------------------------------
(***************************************************************************)
(* The buffers of fixed size that texts pass through: those the caller     *)
(* hands to the getters of strings, and the one in which the HTTP client   *)
(* of UWP reads the body of an answer, a whole number of characters at a   *)
(* time.  ChunkSize is the 4093 bytes that it reads first; three more fit. *)
(***************************************************************************)
EXTENDS Encodings

CONSTANT ChunkSize

ASSUME ChunkAssumption == ChunkSize \in Nat \ {0}

-------------------------------------------------------------------------------
(* The getters. *)

\* A std::string made from characters that end at the first 0, as GetString's do.
CString(s) ==
    LET ends == {i \in 1..Len(s) : s[i] = 0}
    IN IF ends = {} THEN s ELSE SubSeq(s, 1, (CHOOSE i \in ends : \A j \in ends : i <= j) - 1)

\* The C string in a buffer of length > 0 into which length - 1 characters of a
\* terminated string were copied and a terminator after them.
Terminated(s, length) == CString(SubSeq(s, 1, IF Len(s) < length THEN Len(s) ELSE length - 1))

\* Variant of Copied for CopiesWhole: the size it asks for has no room for the terminator.
CopiedShort(s, length) ==
    IF length < Len(s) + 1 THEN [err |-> "BUFFER_SIZE", length |-> Len(s)]
    ELSE [err |-> "OK", length |-> length, text |-> Terminated(s, length)]

\* The buffer of the string getters, of the properties and of the metadata.
Copied(s, length) ==
    IF length < Len(s) + 1 THEN [err |-> "BUFFER_SIZE", length |-> Len(s) + 1]
    ELSE [err |-> "OK", length |-> length, text |-> Terminated(s, length)]

\* The getters of a participant's name and group, who tell the length they used.
ParticipantText(s, length) ==
    IF length < Len(s) + 1 THEN [err |-> "BUFFER_SIZE", length |-> Len(s) + 1]
    ELSE [err |-> "OK", length |-> Len(s) + 1, text |-> CString(s)]

-------------------------------------------------------------------------------
(* HttpRequestStream, and the loop of ReadUtf8StringFromSequentialStream. *)

\* What is left is given to the last reads, S_FALSE with it.
Opened(data) == [data |-> data, seekLocation |-> 0]
Read(stream, size) ==
    LET left == Len(stream.data) - stream.seekLocation
        count == IF size > left THEN left ELSE size
    IN [hr |-> IF size > left THEN "S_FALSE" ELSE "S_OK", bytesRead |-> count,
        bytes |-> SubSeq(stream.data, stream.seekLocation + 1, stream.seekLocation + count),
        stream |-> [stream EXCEPT !.seekLocation = @ + count]]

\* The place of the last byte of a chunk that begins a character, from 0.
LastLead(buffer) ==
    LET leads == {i \in 0..Len(buffer) - 1 : At(buffer, i) \notin 128..191}
    IN CHOOSE i \in leads : \A j \in leads : j <= i

\* Variant of CharacterLength for BodyWhole: characters of three bytes at most.
CharacterLengthShort(c) == IF c < 128 THEN 1 ELSE IF c < 224 THEN 2 ELSE 3

CharacterLength(c) == IF c < 128 THEN 1 ELSE IF c < 224 THEN 2 ELSE IF c < 240 THEN 3 ELSE 4

\* One turn of the loop: a chunk, and the rest of the character it ends with.
Chunk(stream) ==
    LET first == Read(stream, ChunkSize)
        lead == LastLead(first.bytes)
        missing == lead + CharacterLength(At(first.bytes, lead)) - ChunkSize
        rest == Read(first.stream, missing)
    IN IF first.bytesRead = ChunkSize /\ missing > 0
       THEN [bytes |-> first.bytes \o rest.bytes, stream |-> rest.stream]
       ELSE [bytes |-> first.bytes, stream |-> first.stream]
===============================================================================
