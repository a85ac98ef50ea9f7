----------------------------- MODULE MCExchange -----------------------------
(* Exchange with a body of at most two reads.                              *)
EXTENDS Exchange

\* An answer may say that the connection closes after it, or not.
EitherConnection == BOOLEAN

=============================================================================
