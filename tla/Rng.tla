-------------------------------- MODULE Rng --------------------------------
(***************************************************************************)
(* The arithmetic of the run's random numbers, at a width and with         *)
(* parameters small enough to be enumerated: the SplitMix generator, and   *)
(* the draw from a range, which rejects the words that would favour the    *)
(* lower part of the range.  The kernel model counts draws; this is what   *)
(* a draw is.                                                              *)
(***************************************************************************)
EXTENDS Integers, FiniteSets, Bitwise

CONSTANTS Width,         \* 64 in the code
          Gamma,         \* SPLITMIX64_GAMMA
          Multipliers,   \* the factors of the two mixing steps
          Shifts         \* the shifts of the two mixing steps and of the last

ASSUME RngAssumption ==
    /\ Width \in 1..16 /\ Gamma \in Nat
    /\ Multipliers \in Nat \X Nat
    /\ Shifts \in (1..Width) \X (1..Width) \X (1..Width)

Limit == 2 ^ Width                   \* UINT64_LIMIT
Words == 0..(Limit - 1)

\* value ^ (value >> by)
Folded(value, by) == value ^^ (value \div (2 ^ by))

\* The word of each state.
Mixed ==
    [state \in Words |->
        LET first == (Folded(state, Shifts[1]) * Multipliers[1]) % Limit
            second == (Folded(first, Shifts[2]) * Multipliers[2]) % Limit
        IN  Folded(second, Shifts[3])]

\* The n-th word of the stream of a seed: next_u64 moves the state on by gamma.
Word(seed, n) == Mixed[(seed + n * Gamma) % Limit]

\* Fault: only what is left over above the last full part is taken for bias.
RejectionThresholdAbove(stop) == stop - (Limit % stop)

\* rejection_threshold: words below it are rejected.
RejectionThreshold(stop) == Limit % stop

\* randbelow: the words of the stream that it takes for a range, by number.
Taken(seed, stop, count) ==
    {n \in 1..count : Word(seed, n) >= RejectionThreshold(stop)}

RandBelow(seed, stop, n) == Word(seed, n) % stop
-----------------------------------------------------------------------------
(* Property                                                                *)

\* In a period of the stream of any seed every number of any range is drawn
\* equally often, and at least once: no number is favoured, also not in a range
\* that is nearly as large as the words, and no draw is rejected for ever.
DrawsUniform ==
    \A seed \in Words : \A stop \in 1..Limit :
        LET taken == Taken(seed, stop, Limit)
            Times(r) == Cardinality({n \in taken : RandBelow(seed, stop, n) = r})
        IN  \A r \in 0..(stop - 1) : Times(r) = Limit \div stop
=============================================================================
