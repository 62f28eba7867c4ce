----------------------------- MODULE MCSignature -----------------------------
(***************************************************************************)
(* Instances of Signature for TLC.                                         *)
(***************************************************************************)
EXTENDS Signature

\* Words of every length and base: hex and binary digits, wildcards at either
\* end and throughout, digits that are too large and characters that are none.
SmallWords ==
  { <<>>, <<Wild>>, <<5>>,
    <<10, 7>>, <<10, Wild>>, <<Wild, 3>>, <<Wild, Wild>>, <<16, 1>>, <<1, Other>>,
    <<1, 2, 3>>,
    <<1, 0, 1, 0, 0, 1, 1, 1>>, <<1, 1, 0, 1, Wild, Wild, 0, Wild>>,
    <<Wild, Wild, 1, Wild, Wild, Wild, Wild, 0>>, <<1, 1, 0, 2, 0, 0, 0, 0>>,
    <<Wild, Wild, Wild, Wild, Wild, Wild, Wild, Wild>>, <<0, 0, 0, 0, 1, 1, 1, 1, 1>> }

\* No text is a single empty word: splitting an empty text yields no word.
SmallTexts == UNION {[1 .. n -> SmallWords] : n \in 0 .. 3} \ {<< <<>> >>}

SmallRaws == UNION {[1 .. n -> {0, 165, 255}] : n \in 0 .. 2}
SmallMasks == {0, 15, 188, 255}
SmallStrings == UNION {[1 .. n -> {<<65>>, <<0>>}] : n \in 0 .. 2}
                \cup UNION {[1 .. n -> {<<65, 0>>, <<172, 32>>}] : n \in 0 .. 2}
=============================================================================
