------------------------------- MODULE Policies -------------------------------
(***************************************************************************)
(* The retry policy of a subscription (subscriptions::policies).           *)
(***************************************************************************)
EXTENDS Integers, FiniteSetsExt

\* The exponent of the backoff is capped here to keep 2^exponent in a u32.
MaxExponent == 20

\* Arithmetic the provers do not know.
ASSUME PowersOfTwo == \A e \in 0..MaxExponent : 2^e \in Nat

\* RetryPolicy::calculate_backoff.  Durations are naturals; the saturation of
\* the multiplication is invisible because maximum_backoff bounds the result.
CalculateBackoff(policy, delivery_attempt) ==
  LET exponent == Min({Max({delivery_attempt - 1, 0}), MaxExponent})
  IN  Min({policy.minimum_backoff * 2^exponent, policy.maximum_backoff})

=============================================================================
