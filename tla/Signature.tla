------------------------------ MODULE Signature ------------------------------
(***************************************************************************)
(* How a signature comes to be: parsed from its text, built from raw       *)
(* bytes, or built from bytes and masks by the C interface; and how it is  *)
(* printed.  Parsing goes word by word and stops at the first word that is *)
(* wrong.  What has been printed can be parsed again.                      *)
(*                                                                         *)
(* A character is the number it stands for as a digit (0-9, A-Z in either  *)
(* case), Wild for '?' and Other for any character that is no digit in any *)
(* base.  A text is the sequence of what lies between its spaces, where a  *)
(* word may be empty.  The value and the mask of an element are sets of    *)
(* bits.                                                                   *)
(***************************************************************************)
EXTENDS Integers, Sequences, SequencesExt

CONSTANTS
  Texts,      \* the texts considered
  Raws,       \* the byte sequences considered
  Masks,      \* the masks considered with them
  Strings     \* the strings considered, each character as its bytes in memory

Wild == -1
Other == -2
Char == {Wild, Other} \cup 0 .. 35

Bit == 0 .. 7
Byte == 0 .. 255
Full == Bit

\* The bits of a byte, and the byte that is left of a number.
Bits(n) == {i \in Bit : (n \div 2 ^ i) % 2 = 1}
Uint8(n) == n % 256

ASSUME SignatureAssumption ==
  /\ Texts \subseteq Seq(Seq(Char))
  /\ Raws \subseteq Seq(Byte)
  /\ Masks \subseteq Byte
  /\ Strings \subseteq Seq(Seq(Byte) \ {<<>>})
  /\ \A s \in Strings : \A k \in DOMAIN s : Len(s[k]) = Len(s[1])

Errors == {"missing_masked_byte", "element_parse_error", "empty_signature",
           "expected_wildcard", "invalid_token_length", "invalid_argument"}

VARIABLES
  text,          \* the text being parsed
  size,          \* how many characters it has
  word,          \* how many words of it have been taken
  elements,      \* what has been written to the output iterator
  containsByte,  \* whether an element with a full mask is among them
  status,        \* "none", "parsing", "success" or the error
  printed        \* the signature that the text was printed from, if it was

vars == <<text, size, word, elements, containsByte, status, printed>>

-----------------------------------------------------------------------------
(* Elements *)

\* signature_element(value, mask)
ElementOf(value, mask) == [value |-> value \cap mask, mask |-> mask]
Nothing == ElementOf({}, {})

All(e) == e.mask = Full
NoBits(e) == e.mask = {}

\* operator==(std::byte)
Equals(e, b) == Bits(b) \cap e.mask = e.value

\* parse_int of a single character.
IsDigit(ch, base) == ch >= 0 /\ ch < base

Base(w) == IF Len(w) = 2 THEN 16 ELSE 2

\* Slip: the mask of a digit one too large.
DigitMaskWhole(ch, base) == IF ch = Wild THEN 0 ELSE base

\* What a digit contributes to the value and to the mask.
DigitValue(ch) == IF ch = Wild THEN 0 ELSE ch
DigitMask(ch, base) == IF ch = Wild THEN 0 ELSE base - 1

\* The loop of parse_signature_element over a word without illegal digits.
Number(w, digit) ==
  LET n[k \in 0 .. Len(w)] == IF k = 0 THEN 0 ELSE Uint8(Uint8(n[k - 1] * Base(w)) + digit[k])
  IN n[Len(w)]

ParseElement(w) ==
  LET value == Number(w, [k \in DOMAIN w |-> DigitValue(w[k])])
      mask  == Number(w, [k \in DOMAIN w |-> DigitMask(w[k], Base(w))])
  IN ElementOf(Bits(value), Bits(mask))

Legal(w) == \A k \in DOMAIN w : w[k] = Wild \/ IsDigit(w[k], Base(w))

-----------------------------------------------------------------------------
(* to_string *)

Nibble(bits) == (IF 0 \in bits THEN 1 ELSE 0) + (IF 1 \in bits THEN 2 ELSE 0)
                + (IF 2 \in bits THEN 4 ELSE 0) + (IF 3 \in bits THEN 8 ELSE 0)
HighBits == 4 .. 7
LowBits == 0 .. 3
Nibbles == {HighBits, LowBits}

\* Slip: a bit without a mask printed as zero.
DigitUnmasked(bit, e) == IF bit \in e.value THEN 1 ELSE 0

Digit(bit, e) == IF bit \in e.mask THEN (IF bit \in e.value THEN 1 ELSE 0) ELSE Wild

\* An element is printed in hex when one of its nibbles has a full mask.
InHex(e) == HighBits \subseteq e.mask \/ LowBits \subseteq e.mask

WordOf(e) ==
  IF InHex(e)
  THEN << IF HighBits \subseteq e.mask THEN Nibble({b \in Bit : b + 4 \in e.value}) ELSE Wild,
          IF LowBits \subseteq e.mask THEN Nibble(e.value \cap LowBits) ELSE Wild >>
  ELSE IF NoBits(e) THEN <<Wild>>
  ELSE [k \in 1 .. 8 |-> Digit(8 - k, e)]

TextOf(sig) == [k \in DOMAIN sig |-> WordOf(sig[k])]

\* Words are separated by one space each.
SizeOf(t) ==
  LET n[k \in 0 .. Len(t)] ==
        IF k = 0 THEN 0 ELSE n[k - 1] + (IF k = 1 THEN 0 ELSE 1) + Len(t[k])
  IN n[Len(t)]

-----------------------------------------------------------------------------
(* parse_signature_to *)

Fail(error) ==
  /\ status' = error
  /\ UNCHANGED <<text, size, word, elements, containsByte, printed>>

Emit(e) ==
  /\ elements' = Append(elements, e)
  /\ UNCHANGED <<text, size, status, printed>>

Parsing == status = "parsing"
HasWord == Parsing /\ word < Len(text)
Current == text[word + 1]

Init ==
  /\ text = <<>>
  /\ size = 0
  /\ word = 0
  /\ elements = <<>>
  /\ containsByte = FALSE
  /\ status = "none"
  /\ printed = <<>>

Start(t) ==
  /\ text' = t
  /\ size' = SizeOf(t)
  /\ word' = 0
  /\ elements' = <<>>
  /\ containsByte' = FALSE
  /\ status' = "parsing"

Parse(t) ==
  /\ status = "none"
  /\ Start(t)
  /\ UNCHANGED printed

\* Slip: an empty word yields a wildcard.
EmptyWordEmits ==
  /\ HasWord
  /\ Len(Current) = 0
  /\ Emit(Nothing)
  /\ word' = word + 1
  /\ UNCHANGED containsByte

EmptyWord ==
  /\ HasWord
  /\ Len(Current) = 0
  /\ word' = word + 1
  /\ UNCHANGED <<text, size, elements, containsByte, status, printed>>

Wildcard ==
  /\ HasWord
  /\ Len(Current) = 1
  /\ Current = <<Wild>>
  /\ Emit(Nothing)
  /\ word' = word + 1
  /\ UNCHANGED containsByte

ExpectedWildcard ==
  /\ HasWord
  /\ Len(Current) = 1
  /\ Current # <<Wild>>
  /\ Fail("expected_wildcard")

\* Slip: the last element alone decides.
MaskedOverwrites ==
  /\ HasWord
  /\ Len(Current) \in {2, 8}
  /\ Legal(Current)
  /\ Emit(ParseElement(Current))
  /\ containsByte' = All(ParseElement(Current))
  /\ word' = word + 1

Masked ==
  /\ HasWord
  /\ Len(Current) \in {2, 8}
  /\ Legal(Current)
  /\ Emit(ParseElement(Current))
  /\ containsByte' = (containsByte \/ All(ParseElement(Current)))
  /\ word' = word + 1

ElementParseError ==
  /\ HasWord
  /\ Len(Current) \in {2, 8}
  /\ ~ Legal(Current)
  /\ Fail("element_parse_error")

InvalidTokenLength ==
  /\ HasWord
  /\ Len(Current) \notin {0, 1, 2, 8}
  /\ Fail("invalid_token_length")

Finish ==
  /\ Parsing
  /\ word = Len(text)
  /\ status' = IF elements = <<>> THEN "empty_signature"
               ELSE IF ~ containsByte THEN "missing_masked_byte"
               ELSE "success"
  /\ UNCHANGED <<text, size, word, elements, containsByte, printed>>

\* to_string of the signature, and parse_signature of what it returned.
Reparse ==
  /\ status = "success"
  /\ printed = <<>>
  /\ Start(TextOf(elements))
  /\ printed' = elements

-----------------------------------------------------------------------------
(* The other ways to build a signature *)

\* An element for every byte, or the error when there is none.
Whole(bytes) ==
  /\ status = "none"
  /\ elements' = [k \in DOMAIN bytes |-> ElementOf(Bits(bytes[k]), Full)]
  /\ status' = IF bytes = <<>> THEN "empty_signature" ELSE "success"
  /\ UNCHANGED <<text, size, word, containsByte, printed>>

BytesToSignature(bytes) == Whole(bytes)

\* The bytes of a string, sizeof(Char) of them for each character.
BytesOf(string) ==
  IF string = <<>> THEN <<>>
  ELSE LET n == Len(string[1])
       IN [k \in 1 .. Len(string) * n |-> string[((k - 1) \div n) + 1][((k - 1) % n) + 1]]

StringToSignature(string) == Whole(BytesOf(string))

\* Slip: any masked bit will do.
MaskedSomewhere(bytes, masks) ==
  /\ status = "none"
  /\ elements' = [k \in DOMAIN bytes |-> ElementOf(Bits(bytes[k]), Bits(masks[k]))]
  /\ status' = IF \E k \in DOMAIN bytes : ~ NoBits(elements'[k])
               THEN "success" ELSE "missing_masked_byte"
  /\ UNCHANGED <<text, size, word, containsByte, printed>>

\* libhat_create_signature with bytes and a mask for each.
CreateSignature(bytes, masks) ==
  /\ status = "none"
  /\ elements' = [k \in DOMAIN bytes |-> ElementOf(Bits(bytes[k]), Bits(masks[k]))]
  /\ status' = IF bytes = <<>> THEN "empty_signature"
               ELSE IF \E k \in DOMAIN bytes : All(elements'[k]) THEN "success"
               ELSE "missing_masked_byte"
  /\ UNCHANGED <<text, size, word, containsByte, printed>>

-----------------------------------------------------------------------------
ParseWord ==
  \/ EmptyWord
  \/ Wildcard
  \/ ExpectedWildcard
  \/ Masked
  \/ ElementParseError
  \/ InvalidTokenLength

Next ==
  \/ \E t \in Texts : Parse(t)
  \/ ParseWord
  \/ Finish
  \/ Reparse
  \/ \E bytes \in Raws : BytesToSignature(bytes)
  \/ \E string \in Strings : StringToSignature(string)
  \/ \E bytes \in Raws : \E masks \in [DOMAIN bytes -> Masks] : CreateSignature(bytes, masks)

Spec == Init /\ [][Next]_vars

-----------------------------------------------------------------------------
(* What the text means, as the README has it *)

\* Byte b is one that word w stands for: "A?", "?3", "????1111" or "?".
StandsFor(w, b) ==
  CASE Len(w) = 1 -> TRUE
    [] Len(w) = 2 -> \A k \in 1 .. 2 : w[k] \in {Wild, (b \div 16 ^ (2 - k)) % 16}
    [] Len(w) = 8 -> \A k \in 1 .. 8 : w[k] \in {Wild, (b \div 2 ^ (8 - k)) % 2}

WellFormed(w) ==
  \/ w \in {<<>>, <<Wild>>}
  \/ Len(w) = 2 /\ \A k \in 1 .. 2 : w[k] \in {Wild} \cup 0 .. 15
  \/ Len(w) = 8 /\ \A k \in 1 .. 8 : w[k] \in {Wild, 0, 1}

\* How many elements the first k words yield.
Yield(k) == Cardinality({j \in 1 .. k : text[j] # <<>>})

Exact(w) == Len(w) \in {2, 8} /\ Wild \notin {w[k] : k \in DOMAIN w}

-----------------------------------------------------------------------------
IsElement(e) == e \in [value : SUBSET Bit, mask : SUBSET Bit] /\ e.value \subseteq e.mask

TypeOK ==
  /\ text \in Seq(Seq(Char))
  /\ size \in Nat
  /\ word \in 0 .. Len(text)
  /\ elements \in Seq([value : SUBSET Bit, mask : SUBSET Bit])
  /\ \A k \in DOMAIN elements : IsElement(elements[k])
  /\ containsByte \in BOOLEAN
  /\ status \in Errors \cup {"none", "parsing", "success"}
  /\ printed \in Seq([value : SUBSET Bit, mask : SUBSET Bit])

\* Every element written is equal to exactly the bytes its word stands for,
\* whatever the base and wherever empty words lie between.
Denotes ==
  text # <<>> =>
    /\ Len(elements) = Yield(word)
    /\ \A k \in 1 .. word, b \in Byte :
         text[k] # <<>> => (Equals(elements[Yield(k)], b) <=> StandsFor(text[k], b))

\* A text is accepted exactly if all its words are well formed and one of them
\* is a byte without wildcards, which scanning relies on.
AcceptsExactly ==
  text # <<>> /\ status \notin {"none", "parsing"} =>
    (status = "success" <=> /\ \A k \in DOMAIN text : WellFormed(text[k])
                            /\ \E k \in DOMAIN text : Exact(text[k]))

\* However a signature was built, it is one find_pattern may be given: it has
\* a fully masked byte.
Scannable == status = "success" => \E k \in DOMAIN elements : All(elements[k])

\* compile_signature parses into an array of size() / 2 + 1 elements.
FitsCompiled == status = "parsing" => Len(elements) <= (size \div 2) + 1

\* A signature that is printed and parsed again is accepted, with as many
\* elements; each is equal to at least the bytes it was equal to before, and to
\* no others unless one nibble was fully masked and the other in part.
SurvivesPrinting ==
  /\ printed # <<>> => status \in {"parsing", "success"}
  /\ printed # <<>> /\ status = "success" =>
       /\ Len(elements) = Len(printed)
       /\ \A k \in DOMAIN printed :
            /\ elements[k].mask \subseteq printed[k].mask
            /\ elements[k].value = printed[k].value \cap elements[k].mask
            /\ \/ \A n \in Nibbles : n \cap printed[k].mask # n
               \/ \A n \in Nibbles : n \cap printed[k].mask \in {{}, n}
               => elements[k] = printed[k]
=============================================================================
