---------------------------- MODULE MC_HalConverter ----------------------------
(* Instantiates HalConverter for TLC: every input line of up to three     *)
(* tokens, over the pattern tokens, text already converted ("std::") and  *)
(* other text.                                                             *)
EXTENDS HalConverter

MCTokens == {"handle", " fd", " hd", "string", "vec<", "std::", " x"}
MCLines == UNION {[1..n -> MCTokens] : n \in 0..3}

MCHeader == <<<<"#pragma once">>>>
MCFooter == <<<<"#endif">>>>

=============================================================================
