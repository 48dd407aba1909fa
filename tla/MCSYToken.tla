------------------------------ MODULE MCSYToken ------------------------------
(* An instance of SYToken for TLC: quotes of 1, 1.5 and 0 with different *)
(* numbers of decimals, so that the ratio rounds and a feed can fail.    *)
EXTENDS SYToken

MCAnswers ==
  {[price |-> 1, decimals |-> 0], [price |-> 150, decimals |-> 2],
   [price |-> 0, decimals |-> 1]}
=============================================================================
