------------------------------ MODULE QuicBits ------------------------------
(***************************************************************************)
(* The words of a QUIC body (capsaicin-quic/src/lib.rs: BitWriter,         *)
(* BitReader), between the bits that the coders write and read.  The body  *)
(* may lose bytes at its end on the way.                                   *)
(***************************************************************************)
EXTENDS QuicCode

CONSTANTS
    WordBits,       \* 32
    ByteBits,       \* 8
    MaxBits,        \* bound on the bits written and on the bits read
    BitWrites          \* what is written: word and length

ASSUME QuicBitsAssumption ==
    /\ WordBits \in Nat \ {0} /\ ByteBits \in Nat \ {0} /\ WordBits % ByteBits = 0 /\ MaxBits \in Nat
    /\ \A w \in BitWrites : w.len \in 1 .. WordBits - 1 /\ w.word \in 0 .. 2^w.len - 1

VARIABLES
    buf,            \* BitWriter::buf, in words
    io_word,        \* BitWriter::io_word
    available,      \* BitWriter::available
    reader,         \* BitReader: Writing before it is made, else bit_pos and bytes
    wrote,          \* history: the bits written
    window          \* history: what peek32 showed, and the position it is of

bitsVars == <<buf, io_word, available, reader, wrote, window>>

Writing == [bit_pos |-> -1, bytes |-> 0]

BitsInit ==
    /\ buf = <<>> /\ io_word = 0 /\ available = WordBits
    /\ reader = Writing /\ wrote = <<>> /\ window = [at |-> 0, shows |-> <<>>]

-----------------------------------------------------------------------------
\* BitWriter::write
Write(word, len) ==
    /\ reader = Writing /\ Len(wrote) + len <= MaxBits
    /\ wrote' = wrote \o ToBits(word, len)
    /\ IF len < available
         THEN /\ available' = available - len
              /\ io_word' = io_word + word * 2^(available - len)
              /\ UNCHANGED buf
         ELSE LET delta == len - available IN
              /\ buf' = Append(buf, io_word + (word \div 2^delta))
              /\ available' = WordBits - delta
              /\ io_word' = IF delta = 0 THEN 0
                            ELSE (word * 2^(WordBits - delta)) % 2^WordBits
    /\ UNCHANGED <<reader, window>>

\* BitWriter::finish, and BitReader::new_after_header on what arrives of it.
Finish ==
    /\ reader = Writing
    /\ buf' = IF available # WordBits THEN Append(buf, io_word) ELSE buf
    /\ io_word' = 0 /\ available' = WordBits
    /\ \E bytes \in 0 .. Len(buf') * (WordBits \div ByteBits) :
         reader' = [bit_pos |-> 0, bytes |-> bytes]
    /\ UNCHANGED <<wrote, window>>

\* A word that is not there, or not all of it, is zero.
read_word_at(i) == IF (i + 1) * (WordBits \div ByteBits) <= reader.bytes THEN buf[i + 1] ELSE 0

\* Mutated form: the bits of the next word are forgotten.
peek32_one_word ==
    (read_word_at(reader.bit_pos \div WordBits) * 2^(reader.bit_pos % WordBits))
        % 2^WordBits

\* BitReader::peek32
peek32 ==
    LET i   == reader.bit_pos \div WordBits
        bit == reader.bit_pos % WordBits
    IN  IF bit = 0 THEN read_word_at(i)
        ELSE ((read_word_at(i) * 2^bit) % 2^WordBits)
                + (read_word_at(i + 1) \div 2^(WordBits - bit))

\* BitReader::eat after a look at what is next; a word behind the end is the
\* furthest it goes.
Eat(len) ==
    /\ reader # Writing
    /\ window' = [at |-> reader.bit_pos, shows |-> ToBits(peek32, WordBits)]
    /\ reader.bit_pos + len <= reader.bytes * ByteBits + WordBits
    /\ reader' = [reader EXCEPT !.bit_pos = @ + len]
    /\ UNCHANGED <<buf, io_word, available, wrote>>

BitsNext ==
    \/ \E w \in BitWrites : Write(w.word, w.len)
    \/ Finish
    \/ \E len \in 1 .. WordBits : Eat(len)

BitsSpec == BitsInit /\ [][BitsNext]_bitsVars

-----------------------------------------------------------------------------
\* How many bits arrive in whole words.
Arrived ==
    LET perWord == WordBits \div ByteBits IN (reader.bytes \div perWord) * WordBits

(***************************************************************************)
(* The reader shows the bits that were written, in their order and from    *)
(* where it is, across the boundaries of words; zeros behind the last one, *)
(* and in place of a word that has not arrived as a whole.                 *)
(***************************************************************************)
BitsComeBack ==
    \A k \in DOMAIN window.shows :
        LET at == window.at + k IN
        window.shows[k] = IF at <= Len(wrote) /\ at <= Arrived THEN wrote[at] ELSE 0
=============================================================================
