-------------------------------- MODULE Wire --------------------------------
(***************************************************************************)
(* Wire messages: how recv_message() takes the bytes of an OP_MSG apart.   *)
(*                                                                         *)
(* A cell stands for an int32 or for a single byte, and lengths count      *)
(* cells: a header is four, the flag bits and the checksum one each, and   *)
(* a document its length, its elements and its end.                        *)
(***************************************************************************)
EXTENDS Integers, Sequences

OP_MSG == 2013
HeaderSize == 4
MinDocument == 2
ChecksumSize == 1

\* sections is what has been read; "terminate" stands for a failed assertion
\* and for an exception that leaves a noexcept function, the end of the process.
Message(state, sections) == [state |-> state, sections |-> sections]

\* any_section::read(): the length of the section at the head of a buffer, or
\* why there is none.
SectionLength(buf) == 1 + buf[2]
SectionState(buf) ==
    IF Len(buf) < 1 THEN "short read"
    ELSE IF buf[1] # 0 THEN "unknown section kind"
    ELSE IF Len(buf) - 1 < MinDocument THEN "short read"
    ELSE IF Len(buf) < SectionLength(buf) THEN "short read"
    ELSE IF buf[2] < MinDocument THEN "terminate"
    ELSE "read"

\* The sections of a buffer, up to the checksum.
RECURSIVE read_sections(_, _, _)
read_sections(buf, tail, sections) ==
    IF Len(buf) <= tail THEN Message("received", sections)
    ELSE IF SectionState(buf) # "read" THEN Message(SectionState(buf), << >>)
    ELSE read_sections(SubSeq(buf, SectionLength(buf) + 1, Len(buf)), tail,
                       Append(sections, SubSeq(buf, 2, SectionLength(buf))))

\* Bit 0 of the flag bits announces a checksum.
tail_size(flagBits) == IF flagBits % 2 = 1 THEN ChecksumSize ELSE 0

\* recv_message() of a message that arrives whole.
recv_message(bytes) ==
    LET messageLength == bytes[1]
        opCode == bytes[4]
        content == SubSeq(bytes, HeaderSize + 1, messageLength)
    IN IF messageLength < HeaderSize THEN Message("invalid messageLength", << >>)
       ELSE IF opCode # OP_MSG THEN Message("unknown opCode", << >>)
       ELSE IF content = << >> THEN Message("short read", << >>)
       ELSE read_sections(Tail(content), tail_size(Head(content)), << >>)

\* expect_one_body_section_op_msg() is noexcept, and throws.
expect_one_body_section_op_msg(msg) ==
    IF msg.state = "received" /\ Len(msg.sections) # 1 THEN Message("terminate", << >>) ELSE msg

-----------------------------------------------------------------------------
(***************************************************************************)
(* The messages in which a server may send a document, and what they are   *)
(* received as.                                                            *)
(***************************************************************************)
Body == <<3, 7, 0>>
Framed(opCode, content) == <<HeaderSize + Len(content), 1, 1, opCode>> \o content

\* Plain, with a checksum, or with flags that announce one in vain.
HonestFrames ==
    {Framed(OP_MSG, <<0, 0>> \o Body), Framed(OP_MSG, <<1, 0>> \o Body \o <<9>>), Framed(OP_MSG, <<1, 0>> \o Body)}

MalformedFrames ==
    {Framed(2004, <<0, 0>> \o Body),       \* another opcode
     <<3, 1, 1, OP_MSG>>,                  \* shorter than its header
     Framed(OP_MSG, << >>),                \* without flag bits
     Framed(OP_MSG, <<0, 1>> \o Body),     \* a section of another kind
     Framed(OP_MSG, <<0, 0, 3>>),          \* too short for a document
     Framed(OP_MSG, <<0, 0, 4, 7, 0>>),    \* a document longer than the message
     Framed(OP_MSG, <<0, 0>> \o Body \o <<9>>)}  \* a checksum without its flag

\* An OP_MSG whose lengths add up, but not to one section with a document.
UnexpectedFrames ==
    {Framed(OP_MSG, <<0>>),                \* no section
     Framed(OP_MSG, <<1, 9>>),             \* no section but a checksum
     Framed(OP_MSG, <<0, 0>> \o Body \o <<0>> \o Body),  \* two sections
     Framed(OP_MSG, <<0, 0, 1, 7, 0>>)}    \* a document shorter than any

Delivered(frames) == {recv_message(f) : f \in frames}
Intact == Delivered(HonestFrames)
Broken == Delivered(MalformedFrames)
Unexpected == Delivered(UnexpectedFrames)
=============================================================================
