----------------------------- MODULE MCFraming -----------------------------
(* Digits of one bit: messages of two and three bytes have prefixes of two    *)
(* bytes, and the prefix of the former starts with a zero digit.              *)
EXTENDS Framing

MCPayloads == {<<1>>, <<0, 3>>, <<2, 1, 0>>}
=============================================================================
