------------------------------ MODULE Framing -------------------------------
(***************************************************************************)
(* Channel::write_message and Channel::read_message (capsaicin-net/src/    *)
(* channel.rs) over a connection that may break: bodies behind full or     *)
(* mini headers, with the limit each end has set.  Bytes and numbers are   *)
(* those of Codecs; serials are narrower, so that they wrap.               *)
(*                                                                         *)
(* A read_message here runs to its end; InputsChannel has the ones that    *)
(* are dropped half-way.                                                   *)
(***************************************************************************)
EXTENDS Codecs

CONSTANTS
    MsgTypes,       \* message types
    MsgBodies,      \* bodies given to write_message
    Limits,         \* max_message_size of either end
    Serials,        \* values of a serial (2^64)
    MaxFrames       \* bound: messages written

ASSUME FramingAssumption ==
    /\ Limits \subseteq Nat /\ Serials \in Nat \ {0, 1} /\ MaxFrames \in Nat

VARIABLES
    mini,           \* the framing both ends settled on
    writeMax, readMax,
    serial,         \* the writer's send_serial
    written,        \* history: messages write_message returned Ok for
    stream,         \* bytes on their way
    up,             \* the connection is up: more may come
    read,           \* messages read_message returned
    reading         \* the reader goes on; an error ends it

framingVars == <<mini, writeMax, readMax, serial, written, stream, up, read, reading>>

DataHeader == <<U64, U16, U32, U32>>
MiniDataHeader == <<U16, U32>>
HeaderSize == IF mini THEN 6 ELSE 18

Message(type, number_, content) == [type |-> type, serial |-> number_, body |-> content]

FramingInit ==
    /\ mini \in BOOLEAN /\ writeMax \in Limits /\ readMax \in Limits
    /\ serial = 1 /\ written = <<>> /\ stream = <<>> /\ up = TRUE
    /\ read = <<>> /\ reading = TRUE

-----------------------------------------------------------------------------
Header(type, size) ==
    IF mini THEN Written(MiniDataHeader, <<type, size>>)
    ELSE Written(DataHeader, <<serial, type, size, 0>>)

\* Mutated form: the serial is not advanced.
write_message_same_serial(type, content) ==
    /\ up /\ Len(written) < MaxFrames
    /\ Len(content) <= writeMax
    /\ written' = Append(written, Message(type, 0, content))
    /\ stream' = stream \o Header(type, Len(content)) \o content
    /\ UNCHANGED <<mini, writeMax, readMax, serial, up, read, reading>>

\* Too large a body is refused, and nothing is written of it.
write_message(type, content) ==
    /\ up /\ Len(written) < MaxFrames
    /\ Len(content) <= writeMax
    /\ written' = Append(written, Message(type, 0, content))
    /\ stream' = stream \o Header(type, Len(content)) \o content
    /\ serial' = IF mini THEN serial ELSE (serial + 1) % Serials
    /\ UNCHANGED <<mini, writeMax, readMax, up, read, reading>>

\* The connection breaks: a part of what is on its way still arrives.
Break ==
    /\ up /\ up' = FALSE
    /\ \E n \in 0 .. Len(stream) : stream' = SubSeq(stream, 1, n)
    /\ UNCHANGED <<mini, writeMax, readMax, serial, written, read, reading>>

-----------------------------------------------------------------------------
ParsedHeader ==
    LET h == numbers(Reader(stream), IF mini THEN MiniDataHeader ELSE DataHeader).field IN
    IF mini THEN [type |-> h[1], serial |-> 0, size |-> h[2]]
    ELSE [type |-> h[2], serial |-> h[1], size |-> h[3]]

HasHeader == Len(stream) >= HeaderSize
HasBody == HasHeader /\ Len(stream) >= HeaderSize + ParsedHeader.size

TooLarge == HasHeader /\ ParsedHeader.size > readMax

read_message ==
    /\ reading /\ HasBody /\ ~TooLarge
    /\ LET end == HeaderSize + ParsedHeader.size IN
       /\ read' = Append(read, Message(ParsedHeader.type, ParsedHeader.serial,
                                       SubSeq(stream, HeaderSize + 1, end)))
       /\ stream' = SubSeq(stream, end + 1, Len(stream))
    /\ UNCHANGED <<mini, writeMax, readMax, serial, written, up, reading>>

\* A body announced too large, or read_exact at the end of the stream.
ReadFails ==
    /\ reading
    /\ TooLarge \/ (~up /\ ~HasBody)
    /\ reading' = FALSE
    /\ UNCHANGED <<mini, writeMax, readMax, serial, written, stream, up, read>>

FramingNext ==
    \/ \E type \in MsgTypes, content \in MsgBodies : write_message(type, content)
    \/ Break \/ read_message \/ ReadFails

FramingSpec == FramingInit /\ [][FramingNext]_framingVars

-----------------------------------------------------------------------------
(***************************************************************************)
(* What read_message returns is what write_message was given, message by   *)
(* message, with full headers numbered in one row, until an end; and while *)
(* the connection is up nothing is left behind.                            *)
(***************************************************************************)
FramesComeBack ==
    /\ Len(read) <= Len(written)
    /\ \A i \in DOMAIN read :
         read[i] = [written[i] EXCEPT !.serial = IF mini THEN 0 ELSE i % Serials]
    /\ up /\ stream = <<>> => Len(read) = Len(written)
=============================================================================
