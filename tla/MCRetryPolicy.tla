---------------------------- MODULE MCRetryPolicy ----------------------------
(* Instances of RetryPolicy for TLC. *)
EXTENDS RetryPolicy

\* The default's 1.43125 rounded, a constant delay, and steep growth.
MCFactors       == {<<3, 2>>, <<1, 1>>, <<3, 1>>}
MCDefaultFactor == <<3, 2>>
=============================================================================
