------------------------------ MODULE QuicCode ------------------------------
(***************************************************************************)
(* The codes of QUIC (capsaicin-quic/src/lib.rs): the Golomb-Rice family   *)
(* of a channel depth, the MELCODE run lengths, and the model that picks a *)
(* code from the residual before.  Operators only; encoder and decoder     *)
(* share the tables, and each has its half of the codes.                   *)
(***************************************************************************)
EXTENDS Integers, Sequences

CONSTANTS
    MaxCodeLen,     \* DEFMAXCLEN = 26: longest codeword
    Peeked,         \* 32: bits peek32 shows
    XlatSize,       \* 256: entries of the translation tables
    JTable          \* J_TABLE: exponents of the MELCODE states, from state 0 on

ASSUME QuicCodeAssumption ==
    /\ MaxCodeLen \in Nat /\ Peeked \in Nat /\ MaxCodeLen <= Peeked
    /\ XlatSize \in Nat \ {0}
    /\ JTable \in Seq(Nat) /\ JTable # <<>>

\* bppmask(i): i ones.
bppmask(i) == 2^i - 1

\* Symbols of a channel of bpc bits, and the codes it has.
Symbols(bpc) == 0 .. bppmask(bpc)
Codes(bpc) == 0 .. bpc - 1

Least(a, b) == IF a <= b THEN a ELSE b

ceil_log2(v) == CHOOSE k \in 0 .. Peeked : 2^k >= v /\ (k = 0 \/ 2^(k - 1) < v)

-----------------------------------------------------------------------------
(***************************************************************************)
(* Family::init: in code l a symbol below n_gr_codewords is Golomb-Rice    *)
(* coded; the others share an escape of altprefixlen zeros.                *)
(***************************************************************************)
altprefixlen(bpc, l) == Least(MaxCodeLen - bpc, bppmask(bpc - l))
n_gr_codewords(bpc, l) == altprefixlen(bpc, l) * 2^l
not_gr_suffixlen(bpc, l) == ceil_log2(2^bpc - n_gr_codewords(bpc, l))
not_gr_cwlen(bpc, l) == altprefixlen(bpc, l) + not_gr_suffixlen(bpc, l)
not_gr_prefixmask(bpc, l) == bppmask(Peeked - altprefixlen(bpc, l))

\* decorrelate_init, correlate_init: small differences of either sign to small
\* symbols and back.  The table is filled for the symbols of the depth only.
xlat_u2l(bpc, s) ==
    IF s <= bppmask(bpc) \div 2 THEN 2 * s ELSE 2 * (bppmask(bpc) - s) + 1
xlat_l2u(bpc, s) ==
    IF s > bppmask(bpc) THEN 0
    ELSE IF s % 2 = 1 THEN bppmask(bpc) - (s \div 2) ELSE s \div 2

\* A codeword: its bits as a number, and how many they are.
golomb_encode(bpc, n, l) ==
    IF n < n_gr_codewords(bpc, l)
    THEN [word |-> 2^l + (n % 2^l), len |-> (n \div 2^l) + l + 1]
    ELSE [word |-> n - n_gr_codewords(bpc, l), len |-> not_gr_cwlen(bpc, l)]

\* Zeros before the first one in a window of Peeked bits.
leading_zeros(window) == CHOOSE z \in 0 .. Peeked :
    window < 2^(Peeked - z) /\ (z = Peeked \/ window >= 2^(Peeked - z - 1))

\* The last k bits of the first len in a window.
Suffix(window, len, k) == (window \div 2^(Peeked - len)) % 2^k

GolombRice(l, window) ==
    LET zeros == leading_zeros(window)
        len == zeros + 1 + l
    IN  [value |-> zeros * 2^l + Suffix(window, len, l), len |-> len]

Escape(bpc, l, window) ==
    LET len == not_gr_cwlen(bpc, l)
    IN  [value |-> n_gr_codewords(bpc, l) + Suffix(window, len, not_gr_suffixlen(bpc, l)),
         len |-> len]

\* The codeword at the front of a window; what is behind it does not matter.
golomb_decode(bpc, l, window) ==
    IF window > not_gr_prefixmask(bpc, l)
    THEN GolombRice(l, window) ELSE Escape(bpc, l, window)

\* family_golomb_code_len
golomb_code_len(bpc, n, l) ==
    IF n < n_gr_codewords(bpc, l) THEN (n \div 2^l) + l + 1 ELSE not_gr_cwlen(bpc, l)

-----------------------------------------------------------------------------
(***************************************************************************)
(* Streams are sequences of bits.                                          *)
(***************************************************************************)
ToBits(word, len) == [k \in 1 .. len |-> (word \div 2^(len - k)) % 2]

\* n addends, each to `factor` times what is there.
Accumulate(factor, addends, n) ==
    LET sum[k \in 0 .. n] == IF k = 0 THEN 0 ELSE factor * sum[k - 1] + addends[k]
    IN  sum[n]

FromBits(s) == Accumulate(2, s, Len(s))

\* The next n bits as a number; zeros are read behind the end.
Peek(s, n) == FromBits([k \in 1 .. n |-> IF k <= Len(s) THEN s[k] ELSE 0])

-----------------------------------------------------------------------------
(***************************************************************************)
(* MELCODE.  A one stands for 2^J pixels and moves to the next state; a    *)
(* zero ends the run, J bits for the rest follow, and the state moves back.*)
(***************************************************************************)
States == 0 .. Len(JTable) - 1
Orders(state) == 2^JTable[state + 1]
StateDown(state) == IF state > 0 THEN state - 1 ELSE 0

\* The state behind k ones, and the pixels they stand for.
StateUp(state, k) == Least(state + k, Len(JTable) - 1)
Gained(state, k) == Accumulate(1, [i \in 1 .. k |-> Orders(StateUp(state, i - 1))], k)

\* The ones of a run: as many as leave less than the next would stand for.
Hits(runlen, state) ==
    CHOOSE k \in 0 .. runlen : Gained(state, k) <= runlen /\ runlen < Gained(state, k + 1)

\* The bits of a run, and the state after it.
encode_state_run(runlen, state) ==
    LET hits   == Hits(runlen, state)
        behind == StateUp(state, hits)
    IN  [bits |-> [k \in 1 .. hits |-> 1]
                    \o ToBits(runlen - Gained(state, hits), JTable[behind + 1] + 1),
         state |-> StateDown(behind)]

\* The run at the front of the bits, its length in bits, the state after it.
decode_state_run(s, state) ==
    LET ones == CHOOSE k \in 0 .. Len(s) : /\ \A i \in 1 .. k : s[i] = 1
                                           /\ k = Len(s) \/ s[k + 1] = 0
        behind == StateUp(state, ones)
        rest == JTable[behind + 1]
    IN  [run |-> Gained(state, ones)
                  + Peek(SubSeq(s, Least(ones + 2, Len(s) + 1), Len(s)), rest),
         len |-> ones + 1 + rest,
         state |-> StateDown(behind)]

-----------------------------------------------------------------------------
(***************************************************************************)
(* The model of a channel: a bucket for every range of the residual before.*)
(* build_bucket_sizes: the ranges are 1, 2, 4, ... long and the last takes *)
(* what is left.                                                           *)
(***************************************************************************)
BucketStart(b) == 2^b - 1
Buckets(bpc) ==
    {b \in 0 .. bpc : \A a \in 0 .. b - 1 : BucketStart(a) + 2 * 2^a - 1 < 2^bpc}
find_bucket(bpc, val) ==
    CHOOSE b \in Buckets(bpc) : /\ BucketStart(b) <= val
                                /\ \A a \in Buckets(bpc) : a > b => BucketStart(a) > val

\* Bucket::new
NewBucket(bpc) == [counters |-> [l \in Codes(bpc) |-> 0], bestcode |-> bpc - 1]

\* The cheapest code, the highest of equals; all are halved when it has cost
\* more than the trigger.
update_model(bpc, trigger, bucket, n) ==
    LET sums == [l \in Codes(bpc) |-> bucket.counters[l] + golomb_code_len(bpc, n, l)]
        best == CHOOSE l \in Codes(bpc) :
                  /\ \A m \in Codes(bpc) : sums[l] <= sums[m]
                  /\ \A m \in l + 1 .. bpc - 1 : sums[l] < sums[m]
    IN  [counters |-> [l \in Codes(bpc) |->
                         IF sums[best] > trigger THEN sums[l] \div 2 ELSE sums[l]],
         bestcode |-> best]

-----------------------------------------------------------------------------
(***************************************************************************)
(* A symbol in any code of its depth is decoded to itself, whatever bits   *)
(* follow it, from as many as were written; and the model counts that      *)
(* many.  A difference survives the translation to a symbol and back.      *)
(***************************************************************************)
SymbolComesBack(bpc, l, n, behind) ==
    LET c == golomb_encode(bpc, n, l) IN
    /\ c.len \in 1 .. MaxCodeLen
    /\ golomb_decode(bpc, l, Peek(ToBits(c.word, c.len) \o behind, Peeked))
         = [value |-> n, len |-> c.len]
    /\ golomb_code_len(bpc, n, l) = c.len
    /\ xlat_l2u(bpc, xlat_u2l(bpc, n)) = n

\* So is the length of a run, and both sides are in the same state after it.
RunComesBack(runlen, state, behind) ==
    LET c == encode_state_run(runlen, state) IN
    decode_state_run(c.bits \o behind, state)
        = [run |-> runlen, len |-> Len(c.bits), state |-> c.state]
=============================================================================
