------------------------------ MODULE QuicTrial ------------------------------
(***************************************************************************)
(* QUIC's codes and words tried out by themselves: symbols and runs are    *)
(* encoded and decoded, with any bits behind them, and bits go through     *)
(* BitWriter and BitReader.                                                *)
(***************************************************************************)
EXTENDS QuicBits

CONSTANTS
    Depths,         \* bits of a channel
    LongestRun,     \* bound on the runs tried
    Followers       \* sequences of bits that come behind a codeword

ASSUME QuicTrialAssumption ==
    /\ Depths \subseteq 1 .. MaxCodeLen
    /\ LongestRun \in Nat
    /\ Followers \subseteq Seq({0, 1})

VARIABLE tried      \* what is encoded and decoded, or NoCode

trialVars == <<bitsVars, tried>>

NoCode == [kind |-> "none"]

TrialInit == BitsInit /\ tried = NoCode

TrySymbol ==
    \E bpc \in Depths, behind \in Followers : \E l \in Codes(bpc), n \in Symbols(bpc) :
        tried' = [kind |-> "symbol", bpc |-> bpc, l |-> l, n |-> n, behind |-> behind]

TryRun ==
    \E n \in 0 .. LongestRun, state \in States, behind \in Followers :
        tried' = [kind |-> "run", n |-> n, state |-> state, behind |-> behind]

TryCode == tried = NoCode /\ (TrySymbol \/ TryRun)

TrialNext ==
    \/ BitsNext /\ UNCHANGED tried
    \/ TryCode /\ UNCHANGED bitsVars

TrialSpec == TrialInit /\ [][TrialNext]_trialVars

-----------------------------------------------------------------------------
(***************************************************************************)
(* Whatever is written comes back: words give their bits back, across      *)
(* their boundaries; a codeword, its symbol; the bits of a run, its length *)
(* and the state of the other end.                                         *)
(***************************************************************************)
CodesComeBack ==
    /\ BitsComeBack
    /\ tried.kind = "symbol" => SymbolComesBack(tried.bpc, tried.l, tried.n, tried.behind)
    /\ tried.kind = "run" => RunComesBack(tried.n, tried.state, tried.behind)
=============================================================================
