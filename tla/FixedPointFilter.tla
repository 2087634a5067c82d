-------------------------- MODULE FixedPointFilter --------------------------
(***************************************************************************)
(* The one-pole filter of fixed_point_filter.cpp.  Numbers are int16_t,    *)
(* -half to half - 1, and stand for multiples of 1 / one (Q8.8); the casts *)
(* to them wrap, and the shift of a negative product rounds towards minus  *)
(* infinity.  lo and hi remember the range of the inputs.                  *)
(***************************************************************************)
EXTENDS Integers, FiniteSetsExt

CONSTANTS
    half,      \* 2^15
    one,       \* 2^8
    Inputs,    \* the samples update may be given
    Alphas     \* the coefficients a filter may be built with

\* alpha is documented as a weight, and the constructor takes any int16_t.
FilterConstants ==
    /\ half \in Nat /\ one \in Nat \ {0}
    /\ \E n \in 2..half : half = n * one
    /\ Inputs \subseteq (-half)..(half - 1)
    /\ Alphas \subseteq 0..one

VARIABLES alpha_, state_, lo, hi

vars == <<alpha_, state_, lo, hi>>

\* static_cast<int16_t>
Cast(n) == ((n + half) % (2 * half)) - half

\* Mutant: the product is rounded up instead of down.
q8_8_mul_Up(a, b) == Cast(-((-(a * b)) \div one))

q8_8_mul(a, b) == Cast((a * b) \div one)

Init == alpha_ \in Alphas /\ state_ = 0 /\ lo = 0 /\ hi = 0

update(input) ==
    LET inverse_alpha == Cast(one - alpha_)
        input_term    == q8_8_mul(alpha_, input)
        state_term    == q8_8_mul(inverse_alpha, state_) IN
    /\ state_' = Cast(input_term + state_term)
    /\ lo' = Min({lo, input}) /\ hi' = Max({hi, input})
    /\ UNCHANGED alpha_

\* run_filter_sequence with any sequence of inputs.
Next == \E input \in Inputs : update(input)

Spec == Init /\ [][Next]_vars

\* "y[n] = alpha*x[n] + (1-alpha)*y[n-1]" stays within the range of the inputs
\* and the initial 0.  So does the fixed-point filter from above; from below
\* its two roundings per step can add up, over many steps, to 2 / alpha units
\* in the last place and no more; and no cast ever changes a value.
StaysInRange ==
    /\ state_ <= hi
    /\ alpha_ * (lo - state_) <= 2 * one
    /\ \A input \in Inputs :
          LET exact == (alpha_ * input) \div one + ((one - alpha_) * state_) \div one
          IN  Cast(exact) = exact
=============================================================================
