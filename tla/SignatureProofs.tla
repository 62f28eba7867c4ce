--------------------------- MODULE SignatureProofs ---------------------------
(***************************************************************************)
(* What a signature is, whatever built it: the scanner may be given it,    *)
(* no element asks for a bit outside its mask, and one that was parsed has *)
(* an element for each word that is equal to just the bytes that word      *)
(* stands for, is accepted if and only if it should be, fits the array     *)
(* made for it, and can be printed and parsed again.                       *)
(***************************************************************************)
EXTENDS Signature, SequenceTheorems, FiniteSetTheorems, WellFoundedInduction,
        NaturalsInduction, TLAPS

ElementSet == [value : SUBSET Bit, mask : SUBSET Bit]

\* The flag the parser carries from word to word is not forgotten and not made up.
Remembered == containsByte => \E k \in DOMAIN elements : All(elements[k])

Tidy == \A k \in DOMAIN elements : elements[k].value \subseteq elements[k].mask

IInv ==
  /\ elements \in Seq(ElementSet)
  /\ Tidy
  /\ status = "parsing" => Remembered
  /\ Scannable

\* What the constructor of an element returns, for any two sets of bits.
LEMMA ElementOfFacts ==
  ASSUME NEW v \in SUBSET Bit, NEW m \in SUBSET Bit
  PROVE  ElementOf(v, m) \in ElementSet /\ ElementOf(v, m).value \subseteq ElementOf(v, m).mask
  BY DEF ElementOf, ElementSet

LEMMA BitsType ==
  ASSUME NEW n
  PROVE  Bits(n) \in SUBSET Bit
  BY DEF Bits

LEMMA ParsedElement ==
  ASSUME NEW w
  PROVE  ParseElement(w) \in ElementSet /\ ParseElement(w).value \subseteq ParseElement(w).mask
  BY ElementOfFacts, BitsType DEF ParseElement

LEMMA NothingFacts == Nothing \in ElementSet /\ Nothing.value \subseteq Nothing.mask
  BY ElementOfFacts DEF Nothing

\* An element appended keeps the sequence tidy and adds to what it has.
LEMMA EmitFacts ==
  ASSUME NEW e \in ElementSet, e.value \subseteq e.mask, elements \in Seq(ElementSet), Tidy, Emit(e)
  PROVE  /\ elements' \in Seq(ElementSet)
         /\ Tidy'
         /\ (\E k \in DOMAIN elements : All(elements[k]))
              => \E k \in DOMAIN elements' : All(elements'[k])
         /\ All(e) => \E k \in DOMAIN elements' : All(elements'[k])
  <1>1. elements' = Append(elements, e)  BY DEF Emit
  <1>2. PICK n \in Nat : n = Len(elements) /\ DOMAIN elements = 1 .. n  OBVIOUS
  <1>3. /\ elements' \in Seq(ElementSet)
        /\ DOMAIN elements' = 1 .. n + 1
        /\ \A k \in 1 .. n : elements'[k] = elements[k]
        /\ elements'[n + 1] = e
    BY <1>1, <1>2
  <1>4. \A k \in 1 .. n + 1 : k \in 1 .. n \/ k = n + 1  BY <1>2
  <1>5. Tidy'
    <2> SUFFICES ASSUME NEW k \in DOMAIN elements'
                 PROVE  elements'[k].value \subseteq elements'[k].mask
      BY DEF Tidy
    <2>1. k \in 1 .. n \/ k = n + 1  BY <1>3, <1>4
    <2> QED  BY <2>1, <1>2, <1>3 DEF Tidy
  <1>6. n + 1 \in DOMAIN elements' /\ \A k \in DOMAIN elements : k \in DOMAIN elements'
    BY <1>2, <1>3
  <1> QED  BY <1>2, <1>3, <1>5, <1>6

\* What is written for bytes and masks: one tidy element for each byte.
LEMMA BytesFacts ==
  ASSUME NEW n \in Nat, NEW bytes, DOMAIN bytes = 1 .. n, NEW full, NEW sig,
         sig = [k \in DOMAIN bytes |-> ElementOf(Bits(bytes[k]), full[k])],
         \A k \in DOMAIN bytes : full[k] \in SUBSET Bit
  PROVE  /\ sig \in Seq(ElementSet)
         /\ \A k \in DOMAIN sig : sig[k].value \subseteq sig[k].mask
  <1>1. \A k \in DOMAIN bytes : /\ ElementOf(Bits(bytes[k]), full[k]) \in ElementSet
                                /\ ElementOf(Bits(bytes[k]), full[k]).value
                                     \subseteq ElementOf(Bits(bytes[k]), full[k]).mask
    BY ElementOfFacts, BitsType
  <1>2. sig \in [1 .. n -> ElementSet]  BY <1>1
  <1>3. sig \in Seq(ElementSet)  BY <1>2
  <1> QED  BY <1>1, <1>3

\* The bytes of a string are a sequence, however many a character has.
LEMMA BytesOfFacts ==
  ASSUME NEW string \in Seq(Seq(Byte) \ {<<>>})
  PROVE  \E n \in Nat : /\ DOMAIN BytesOf(string) = 1 .. n
                        /\ n = 0 => BytesOf(string) = <<>>
  <1>1. CASE string = <<>>
    <2>1. BytesOf(string) = <<>> /\ DOMAIN BytesOf(string) = 1 .. 0  BY <1>1 DEF BytesOf
    <2> QED  BY <2>1
  <1>2. CASE string # <<>>
    <2>1. string[1] \in Seq(Byte) \ {<<>>} /\ Len(string) \in Nat  BY <1>2
    <2>2. PICK c \in Nat : c = Len(string[1])  BY <2>1
    <2>3. PICK l \in Nat : l = Len(string)  BY <2>1
    <2>4. l > 0 /\ c > 0  BY <1>2, <2>1, <2>2, <2>3
    <2>5. l * c \in Nat /\ l * c > 0  BY <2>4, SMT
    <2>6. DOMAIN BytesOf(string) = 1 .. l * c  BY <1>2, <2>2, <2>3 DEF BytesOf
    <2>7. PICK m \in Nat : m = l * c /\ m > 0  BY <2>5
    <2>8. DOMAIN BytesOf(string) = 1 .. m  BY <2>6, <2>7, Zenon
    <2>9. m # 0  BY <2>7
    <2> QED  BY <2>8, <2>9, Zenon
  <1> QED  BY <1>1, <1>2

\* A signature of whole bytes has a fully masked one as soon as it has any.
LEMMA WholeStep ==
  ASSUME NEW n \in Nat, NEW bytes, DOMAIN bytes = 1 .. n, n = 0 => bytes = <<>>, Whole(bytes)
  PROVE  IInv'
  <1>1. elements' = [k \in DOMAIN bytes |-> ElementOf(Bits(bytes[k]), Full)]  BY DEF Whole
  <1>2. elements' \in Seq(ElementSet) /\ Tidy'
    <2>1. Full \in SUBSET Bit  BY DEF Full
    <2>2. PICK full : full = [k \in DOMAIN bytes |-> Full]  OBVIOUS
    <2>3. \A k \in DOMAIN bytes : full[k] = Full /\ full[k] \in SUBSET Bit  BY <2>1, <2>2
    <2>4. PICK sig : sig = [k \in DOMAIN bytes |-> ElementOf(Bits(bytes[k]), full[k])]  OBVIOUS
    <2>5. elements' = sig  BY <1>1, <2>3, <2>4
    <2>6. sig \in Seq(ElementSet) /\ \A k \in DOMAIN sig : sig[k].value \subseteq sig[k].mask
      BY <2>3, <2>4, BytesFacts
    <2> QED  BY <2>5, <2>6 DEF Tidy
  <1>3. status' # "parsing"  BY DEF Whole
  <1>4. Scannable'
    <2> SUFFICES ASSUME status' = "success"
                 PROVE  \E k \in DOMAIN elements' : All(elements'[k])
      BY DEF Scannable
    <2>1. n > 0  BY DEF Whole
    <2>2. 1 \in DOMAIN bytes  BY <2>1
    <2>3. 1 \in DOMAIN elements' /\ elements'[1] = ElementOf(Bits(bytes[1]), Full)  BY <1>1, <2>2
    <2> QED  BY <2>3 DEF ElementOf, All
  <1> QED  BY <1>2, <1>3, <1>4 DEF IInv

\* The C interface accepts masks only if one of them is full.
LEMMA CreateStep ==
  ASSUME NEW bytes \in Raws, NEW masks \in [DOMAIN bytes -> Masks], CreateSignature(bytes, masks)
  PROVE  IInv'
  <1>1. elements' = [k \in DOMAIN bytes |-> ElementOf(Bits(bytes[k]), Bits(masks[k]))]
    BY DEF CreateSignature
  <1>2. PICK n \in Nat : DOMAIN bytes = 1 .. n  BY SignatureAssumption
  <1>3. elements' \in Seq(ElementSet) /\ Tidy'
    <2>1. PICK full : full = [k \in DOMAIN bytes |-> Bits(masks[k])]  OBVIOUS
    <2>2. \A k \in DOMAIN bytes : full[k] = Bits(masks[k]) /\ full[k] \in SUBSET Bit
      BY <2>1, BitsType
    <2>3. PICK sig : sig = [k \in DOMAIN bytes |-> ElementOf(Bits(bytes[k]), full[k])]  OBVIOUS
    <2>4. elements' = sig  BY <1>1, <2>2, <2>3
    <2>5. sig \in Seq(ElementSet) /\ \A k \in DOMAIN sig : sig[k].value \subseteq sig[k].mask
      BY <1>2, <2>2, <2>3, BytesFacts
    <2> QED  BY <2>4, <2>5 DEF Tidy
  <1>4. status' # "parsing"  BY DEF CreateSignature
  <1>5. Scannable'
    <2> SUFFICES ASSUME status' = "success"
                 PROVE  \E k \in DOMAIN elements' : All(elements'[k])
      BY DEF Scannable
    <2>1. \E k \in DOMAIN bytes : All(elements'[k])  BY DEF CreateSignature
    <2> QED  BY <1>1, <2>1
  <1> QED  BY <1>3, <1>4, <1>5 DEF IInv

\* A text is taken up, the first time or as printed: nothing is written yet.
LEMMA StartStep ==
  ASSUME NEW t, Start(t)
  PROVE  IInv'
  <1>1. elements' = <<>> /\ containsByte' = FALSE /\ status' = "parsing"  BY DEF Start
  <1>2. elements' \in Seq(ElementSet) /\ Tidy'  BY <1>1 DEF Tidy
  <1> QED  BY <1>1, <1>2 DEF IInv, Remembered, Scannable

\* A word is read: what it appends is tidy, and the flag is that of a written element.
LEMMA WordStep ==
  ASSUME IInv, ParseWord
  PROVE  IInv'
  <1>1. elements \in Seq(ElementSet) /\ Tidy /\ Remembered /\ status = "parsing"
    BY DEF IInv, ParseWord, EmptyWord, Wildcard, ExpectedWildcard, Masked,
           ElementParseError, InvalidTokenLength, HasWord, Parsing
  <1>2. CASE EmptyWord
    BY <1>1, <1>2 DEF EmptyWord, IInv, Tidy, Remembered, Scannable
  <1>3. CASE Wildcard
    <2>1. Emit(Nothing) /\ containsByte' = containsByte /\ status' = status
      BY <1>3 DEF Wildcard, Emit
    <2>2. elements' \in Seq(ElementSet) /\ Tidy'
      BY <1>1, <2>1, NothingFacts, EmitFacts
    <2>3. (\E k \in DOMAIN elements : All(elements[k])) => \E k \in DOMAIN elements' : All(elements'[k])
      BY <1>1, <2>1, NothingFacts, EmitFacts
    <2>4. Remembered'  BY <1>1, <2>1, <2>3 DEF Remembered
    <2> QED  BY <1>1, <2>1, <2>2, <2>4 DEF IInv, Scannable
  <1>4. CASE Masked
    <2>1. PICK e : e = ParseElement(Current)  OBVIOUS
    <2>2. e \in ElementSet /\ e.value \subseteq e.mask  BY <2>1, ParsedElement
    <2>3. Emit(e) /\ containsByte' = (containsByte \/ All(e)) /\ status' = status
      BY <1>4, <2>1 DEF Masked, Emit
    <2>4. elements' \in Seq(ElementSet) /\ Tidy'
      BY <1>1, <2>2, <2>3, EmitFacts
    <2>5. /\ (\E k \in DOMAIN elements : All(elements[k])) => \E k \in DOMAIN elements' : All(elements'[k])
          /\ All(e) => \E k \in DOMAIN elements' : All(elements'[k])
      BY <1>1, <2>2, <2>3, EmitFacts
    <2>6. Remembered'  BY <1>1, <2>3, <2>5, Zenon DEF Remembered
    <2> QED  BY <1>1, <2>3, <2>4, <2>6 DEF IInv, Scannable
  <1>5. CASE ExpectedWildcard \/ ElementParseError \/ InvalidTokenLength
    BY <1>1, <1>5 DEF ExpectedWildcard, ElementParseError, InvalidTokenLength, Fail,
                      IInv, Tidy, Scannable
  <1> QED  BY <1>2, <1>3, <1>4, <1>5 DEF ParseWord

\* The end of the text: success only if the flag is set.
LEMMA FinishStep ==
  ASSUME IInv, Finish
  PROVE  IInv'
  <1>1. elements' = elements /\ status = "parsing" /\ status' # "parsing"
    BY DEF Finish, Parsing
  <1>2. Remembered  BY <1>1 DEF IInv
  <1>3. status' = "success" => containsByte  BY DEF Finish
  <1>4. Scannable'  BY <1>1, <1>2, <1>3 DEF Scannable, Remembered
  <1> QED  BY <1>1, <1>4 DEF IInv, Tidy

-----------------------------------------------------------------------------
LEMMA InitIInv == Init => IInv
  <1> SUFFICES ASSUME Init PROVE IInv  OBVIOUS
  <1>1. elements \in Seq(ElementSet) /\ Tidy  BY DEF Init, Tidy
  <1> QED  BY <1>1 DEF Init, IInv, Scannable

LEMMA NextIInv == IInv /\ [Next]_vars => IInv'
  <1> SUFFICES ASSUME IInv, [Next]_vars PROVE IInv'  OBVIOUS
  <1>1. ASSUME NEW t \in Texts, Parse(t) PROVE IInv'
    BY <1>1, StartStep DEF Parse
  <1>2. CASE ParseWord  BY <1>2, WordStep
  <1>3. CASE Finish  BY <1>3, FinishStep
  <1>4. CASE Reparse  BY <1>4, StartStep DEF Reparse
  <1>5. ASSUME NEW bytes \in Raws, BytesToSignature(bytes) PROVE IInv'
    <2>1. bytes \in Seq(Byte)  BY SignatureAssumption
    <2>2. PICK n \in Nat : DOMAIN bytes = 1 .. n /\ (n = 0 => bytes = <<>>)  BY <2>1
    <2> QED  BY <1>5, <2>2, WholeStep DEF BytesToSignature
  <1>6. ASSUME NEW string \in Strings, StringToSignature(string) PROVE IInv'
    <2>1. string \in Seq(Seq(Byte) \ {<<>>})  BY SignatureAssumption
    <2>2. PICK n \in Nat : /\ DOMAIN BytesOf(string) = 1 .. n
                           /\ n = 0 => BytesOf(string) = <<>>
      BY <2>1, BytesOfFacts
    <2> QED  BY <1>6, <2>2, WholeStep DEF StringToSignature
  <1>7. ASSUME NEW bytes \in Raws, NEW masks \in [DOMAIN bytes -> Masks],
               CreateSignature(bytes, masks)
        PROVE  IInv'
    BY <1>7, CreateStep
  <1>8. CASE UNCHANGED vars
    BY <1>8 DEF vars, IInv, Tidy, Remembered, Scannable
  <1> QED  BY <1>1, <1>2, <1>3, <1>4, <1>5, <1>6, <1>7, <1>8 DEF Next

\* Whatever was parsed, copied or created and accepted has a fully masked byte,
\* for every text and every bytes and masks.
THEOREM AlwaysScannable == Spec => []Scannable
  <1>1. IInv => Scannable  BY DEF IInv
  <1> QED  BY InitIInv, NextIInv, <1>1, PTL DEF Spec

\* No element ever asks for a bit that its mask leaves out, so that every
\* element is equal to some byte.
THEOREM ElementsTidy == Spec => []Tidy
  <1>1. IInv => Tidy  BY DEF IInv
  <1> QED  BY InitIInv, NextIInv, <1>1, PTL DEF Spec

-----------------------------------------------------------------------------
(* Bits *)

Bit8 == {0, 1, 2, 3, 4, 5, 6, 7}

\* A number and its quotient.
LEMMA Divided ==
  ASSUME NEW d \in Nat \ {0}, NEW q \in Nat, NEW r \in 0 .. d - 1, NEW n, n = d * q + r
  PROVE  n \div d = q /\ n % d = r
  OBVIOUS

\* The bits of a byte, by the weight of each.
LEMMA BitsAre ==
  ASSUME NEW n
  PROVE  /\ 0 \in Bits(n) <=> (n \div 1) % 2 = 1
         /\ 1 \in Bits(n) <=> (n \div 2) % 2 = 1
         /\ 2 \in Bits(n) <=> (n \div 4) % 2 = 1
         /\ 3 \in Bits(n) <=> (n \div 8) % 2 = 1
         /\ 4 \in Bits(n) <=> (n \div 16) % 2 = 1
         /\ 5 \in Bits(n) <=> (n \div 32) % 2 = 1
         /\ 6 \in Bits(n) <=> (n \div 64) % 2 = 1
         /\ 7 \in Bits(n) <=> (n \div 128) % 2 = 1
  <1>1. 2 ^ 0 = 1 /\ 2 ^ 1 = 2 /\ 2 ^ 2 = 4 /\ 2 ^ 3 = 8
    OBVIOUS
  <1>2. 2 ^ 4 = 16 /\ 2 ^ 5 = 32 /\ 2 ^ 6 = 64 /\ 2 ^ 7 = 128
    OBVIOUS
  <1>3. \A i \in Bit : i \in Bits(n) <=> (n \div 2 ^ i) % 2 = 1  BY DEF Bits
  <1>4. /\ 0 \in Bit /\ 1 \in Bit /\ 2 \in Bit /\ 3 \in Bit
        /\ 4 \in Bit /\ 5 \in Bit /\ 6 \in Bit /\ 7 \in Bit
    BY DEF Bit
  <1>5. 0 \in Bits(n) <=> (n \div 1) % 2 = 1
    <2>1. 0 \in Bits(n) <=> (n \div 2 ^ 0) % 2 = 1  BY <1>3, <1>4, Zenon
    <2> QED  BY <1>1, <2>1
  <1>6. 1 \in Bits(n) <=> (n \div 2) % 2 = 1
    <2>1. 1 \in Bits(n) <=> (n \div 2 ^ 1) % 2 = 1  BY <1>3, <1>4, Zenon
    <2> QED  BY <1>1, <2>1
  <1>7. 2 \in Bits(n) <=> (n \div 4) % 2 = 1
    <2>1. 2 \in Bits(n) <=> (n \div 2 ^ 2) % 2 = 1  BY <1>3, <1>4, Zenon
    <2> QED  BY <1>1, <2>1
  <1>8. 3 \in Bits(n) <=> (n \div 8) % 2 = 1
    <2>1. 3 \in Bits(n) <=> (n \div 2 ^ 3) % 2 = 1  BY <1>3, <1>4, Zenon
    <2> QED  BY <1>1, <2>1
  <1>9. 4 \in Bits(n) <=> (n \div 16) % 2 = 1
    <2>1. 4 \in Bits(n) <=> (n \div 2 ^ 4) % 2 = 1  BY <1>3, <1>4, Zenon
    <2> QED  BY <1>2, <2>1
  <1>10. 5 \in Bits(n) <=> (n \div 32) % 2 = 1
    <2>1. 5 \in Bits(n) <=> (n \div 2 ^ 5) % 2 = 1  BY <1>3, <1>4, Zenon
    <2> QED  BY <1>2, <2>1
  <1>11. 6 \in Bits(n) <=> (n \div 64) % 2 = 1
    <2>1. 6 \in Bits(n) <=> (n \div 2 ^ 6) % 2 = 1  BY <1>3, <1>4, Zenon
    <2> QED  BY <1>2, <2>1
  <1>12. 7 \in Bits(n) <=> (n \div 128) % 2 = 1
    <2>1. 7 \in Bits(n) <=> (n \div 2 ^ 7) % 2 = 1  BY <1>3, <1>4, Zenon
    <2> QED  BY <1>2, <2>1
  <1> QED  BY <1>5, <1>6, <1>7, <1>8, <1>9, <1>10, <1>11, <1>12

\* A byte that is the sum of powers of two has the bits they say.
LEMMA SumOfBits ==
  ASSUME NEW b0 \in {0, 1}, NEW b1 \in {0, 1}, NEW b2 \in {0, 1}, NEW b3 \in {0, 1},
         NEW b4 \in {0, 1}, NEW b5 \in {0, 1}, NEW b6 \in {0, 1}, NEW b7 \in {0, 1},
         NEW n,
         n = 128 * b7 + 64 * b6 + 32 * b5 + 16 * b4 + 8 * b3 + 4 * b2 + 2 * b1 + b0
  PROVE  /\ n \in Nat
         /\ (0 \in Bits(n) <=> b0 = 1) /\ (1 \in Bits(n) <=> b1 = 1)
         /\ (2 \in Bits(n) <=> b2 = 1) /\ (3 \in Bits(n) <=> b3 = 1)
         /\ (4 \in Bits(n) <=> b4 = 1) /\ (5 \in Bits(n) <=> b5 = 1)
         /\ (6 \in Bits(n) <=> b6 = 1) /\ (7 \in Bits(n) <=> b7 = 1)
  <1>0. /\ b0 \in 0 .. 1 /\ b1 \in 0 .. 1 /\ b2 \in 0 .. 1 /\ b3 \in 0 .. 1
        /\ b4 \in 0 .. 1 /\ b5 \in 0 .. 1 /\ b6 \in 0 .. 1 /\ b7 \in 0 .. 1
    OBVIOUS
  <1> DEFINE q7 == b7
             q6 == 2 * q7 + b6
             q5 == 2 * q6 + b5
             q4 == 2 * q5 + b4
             q3 == 2 * q4 + b3
             q2 == 2 * q3 + b2
             q1 == 2 * q2 + b1
  <1>1. /\ q7 \in Nat /\ q6 \in Nat /\ q5 \in Nat /\ q4 \in Nat /\ q3 \in Nat /\ q2 \in Nat
        /\ q1 \in Nat
    OBVIOUS
  <1>2. n \in Nat /\ n = 1 * n + 0 /\ n = 2 * q1 + b0  OBVIOUS
  <1>3. n = 4 * q2 + (2 * b1 + b0) /\ 2 * b1 + b0 \in 0 .. 3  OBVIOUS
  <1>4. n = 8 * q3 + (4 * b2 + 2 * b1 + b0) /\ 4 * b2 + 2 * b1 + b0 \in 0 .. 7  OBVIOUS
  <1>5. n = 16 * q4 + (8 * b3 + 4 * b2 + 2 * b1 + b0) /\ 8 * b3 + 4 * b2 + 2 * b1 + b0 \in 0 .. 15
    OBVIOUS
  <1>6. /\ n = 32 * q5 + (16 * b4 + 8 * b3 + 4 * b2 + 2 * b1 + b0)
        /\ 16 * b4 + 8 * b3 + 4 * b2 + 2 * b1 + b0 \in 0 .. 31
    OBVIOUS
  <1>7. /\ n = 64 * q6 + (32 * b5 + 16 * b4 + 8 * b3 + 4 * b2 + 2 * b1 + b0)
        /\ 32 * b5 + 16 * b4 + 8 * b3 + 4 * b2 + 2 * b1 + b0 \in 0 .. 63
    OBVIOUS
  <1>8. /\ n = 128 * q7 + (64 * b6 + 32 * b5 + 16 * b4 + 8 * b3 + 4 * b2 + 2 * b1 + b0)
        /\ 64 * b6 + 32 * b5 + 16 * b4 + 8 * b3 + 4 * b2 + 2 * b1 + b0 \in 0 .. 127
    OBVIOUS
  <1>9. q1 = 2 * q2 + b1 /\ q2 = 2 * q3 + b2 /\ q3 = 2 * q4 + b3 /\ q4 = 2 * q5 + b4
        /\ q5 = 2 * q6 + b5 /\ q6 = 2 * q7 + b6 /\ q7 = 2 * 0 + b7
    OBVIOUS
  <1> HIDE DEF q1, q2, q3, q4, q5, q6, q7
  <1>11. n \div 1 = n  BY <1>2
  <1>12. n \div 2 = q1 /\ n % 2 = b0  BY <1>0, <1>1, <1>2, Divided
  <1>13. n \div 4 = q2  BY <1>1, <1>3, Divided
  <1>14. n \div 8 = q3  BY <1>1, <1>4, Divided
  <1>15. n \div 16 = q4  BY <1>1, <1>5, Divided
  <1>16. n \div 32 = q5  BY <1>1, <1>6, Divided
  <1>17. n \div 64 = q6  BY <1>1, <1>7, Divided
  <1>18. n \div 128 = q7  BY <1>1, <1>8, Divided
  <1>19. q1 % 2 = b1  BY <1>0, <1>1, <1>9, Divided
  <1>20. q2 % 2 = b2  BY <1>0, <1>1, <1>9, Divided
  <1>21. q3 % 2 = b3  BY <1>0, <1>1, <1>9, Divided
  <1>22. q4 % 2 = b4  BY <1>0, <1>1, <1>9, Divided
  <1>23. q5 % 2 = b5  BY <1>0, <1>1, <1>9, Divided
  <1>24. q6 % 2 = b6  BY <1>0, <1>1, <1>9, Divided
  <1>25. q7 % 2 = b7  BY <1>0, <1>1, <1>9, Divided
  <1>26. 0 \in Bits(n) <=> b0 = 1
    <2>1. (n \div 1) % 2 = b0  BY <1>11, <1>12, Zenon
    <2>2. 0 \in Bits(n) <=> (n \div 1) % 2 = 1  BY BitsAre, Zenon
    <2> QED  BY <2>1, <2>2, Zenon
  <1>27. 1 \in Bits(n) <=> b1 = 1
    <2>1. (n \div 2) % 2 = b1  BY <1>12, <1>19, Zenon
    <2>2. 1 \in Bits(n) <=> (n \div 2) % 2 = 1  BY BitsAre, Zenon
    <2> QED  BY <2>1, <2>2, Zenon
  <1>28. 2 \in Bits(n) <=> b2 = 1
    <2>1. (n \div 4) % 2 = b2  BY <1>13, <1>20, Zenon
    <2>2. 2 \in Bits(n) <=> (n \div 4) % 2 = 1  BY BitsAre, Zenon
    <2> QED  BY <2>1, <2>2, Zenon
  <1>29. 3 \in Bits(n) <=> b3 = 1
    <2>1. (n \div 8) % 2 = b3  BY <1>14, <1>21, Zenon
    <2>2. 3 \in Bits(n) <=> (n \div 8) % 2 = 1  BY BitsAre, ZenonT(60)
    <2> QED  BY <2>1, <2>2, Zenon
  <1>30. 4 \in Bits(n) <=> b4 = 1
    <2>1. (n \div 16) % 2 = b4  BY <1>15, <1>22, Zenon
    <2>2. 4 \in Bits(n) <=> (n \div 16) % 2 = 1  BY BitsAre, ZenonT(60)
    <2> QED  BY <2>1, <2>2, Zenon
  <1>31. 5 \in Bits(n) <=> b5 = 1
    <2>1. (n \div 32) % 2 = b5  BY <1>16, <1>23, Zenon
    <2>2. 5 \in Bits(n) <=> (n \div 32) % 2 = 1  BY BitsAre, ZenonT(60)
    <2> QED  BY <2>1, <2>2, Zenon
  <1>32. 6 \in Bits(n) <=> b6 = 1
    <2>1. (n \div 64) % 2 = b6  BY <1>17, <1>24, Zenon
    <2>2. 6 \in Bits(n) <=> (n \div 64) % 2 = 1  BY BitsAre, ZenonT(60)
    <2> QED  BY <2>1, <2>2, Zenon
  <1>33. 7 \in Bits(n) <=> b7 = 1
    <2>1. (n \div 128) % 2 = b7  BY <1>18, <1>25, Zenon
    <2>2. 7 \in Bits(n) <=> (n \div 128) % 2 = 1  BY BitsAre, ZenonT(60)
    <2> QED  BY <2>1, <2>2, Zenon
  <1> QED  BY <1>2, <1>26, <1>27, <1>28, <1>29, <1>30, <1>31, <1>32, <1>33

LEMMA BitIs == Bit = Bit8 /\ HighBits = {4, 5, 6, 7} /\ LowBits = {0, 1, 2, 3}
  BY DEF Bit, Bit8, HighBits, LowBits

\* Half of a number, and what is left.
LEMMA Halved ==
  ASSUME NEW m \in Nat, NEW n \in Nat, n < 2 * m
  PROVE  \E q \in Nat, b \in {0, 1} : n = 2 * q + b /\ q < m
  <1>1. PICK q : q = n \div 2  OBVIOUS
  <1>2. q \in Nat /\ 2 * q <= n /\ n < 2 * q + 2  BY <1>1
  <1>3. n - 2 * q \in {0, 1} /\ n = 2 * q + (n - 2 * q) /\ q < m  BY <1>2
  <1> QED  BY <1>2, <1>3

\* A digit of hex is a sum of powers of two, and so is a byte.
LEMMA NibbleSum ==
  ASSUME NEW x \in 0 .. 15
  PROVE  \E b0, b1, b2, b3 \in {0, 1} : x = 8 * b3 + 4 * b2 + 2 * b1 + b0
  <1>1. PICK q1 \in Nat, b0 \in {0, 1} : x = 2 * q1 + b0 /\ q1 < 8  BY Halved
  <1>2. PICK q2 \in Nat, b1 \in {0, 1} : q1 = 2 * q2 + b1 /\ q2 < 4  BY <1>1, Halved
  <1>3. PICK q3 \in Nat, b2 \in {0, 1} : q2 = 2 * q3 + b2 /\ q3 < 2  BY <1>2, Halved
  <1>4. PICK q4 \in Nat, b3 \in {0, 1} : q3 = 2 * q4 + b3 /\ q4 < 1  BY <1>3, Halved
  <1>5. x = 8 * b3 + 4 * b2 + 2 * b1 + b0  BY <1>1, <1>2, <1>3, <1>4
  <1> QED  BY <1>5

\* The two digits of a byte in hex have its bits, four each.
LEMMA HexBits ==
  ASSUME NEW h \in 0 .. 15, NEW l \in 0 .. 15
  PROVE  /\ \A i \in LowBits : i \in Bits(16 * h + l) <=> i \in Bits(l)
         /\ \A i \in HighBits : i \in Bits(16 * h + l) <=> i - 4 \in Bits(h)
         /\ Bits(h) \subseteq LowBits
  <1>1. PICK l0, l1, l2, l3 \in {0, 1} : l = 8 * l3 + 4 * l2 + 2 * l1 + l0  BY NibbleSum
  <1>2. PICK h0, h1, h2, h3 \in {0, 1} : h = 8 * h3 + 4 * h2 + 2 * h1 + h0  BY NibbleSum
  <1>3. PICK n : n = 16 * h + l  OBVIOUS
  <1>4. n = 128 * h3 + 64 * h2 + 32 * h1 + 16 * h0 + 8 * l3 + 4 * l2 + 2 * l1 + l0
    BY <1>1, <1>2, <1>3
  <1>5. /\ (0 \in Bits(n) <=> l0 = 1) /\ (1 \in Bits(n) <=> l1 = 1)
        /\ (2 \in Bits(n) <=> l2 = 1) /\ (3 \in Bits(n) <=> l3 = 1)
        /\ (4 \in Bits(n) <=> h0 = 1) /\ (5 \in Bits(n) <=> h1 = 1)
        /\ (6 \in Bits(n) <=> h2 = 1) /\ (7 \in Bits(n) <=> h3 = 1)
    BY <1>4, SumOfBits
  <1>6. l = 128 * 0 + 64 * 0 + 32 * 0 + 16 * 0 + 8 * l3 + 4 * l2 + 2 * l1 + l0
    BY <1>1
  <1>7. 0 \in {0, 1}  OBVIOUS
  <1>8. /\ (0 \in Bits(l) <=> l0 = 1) /\ (1 \in Bits(l) <=> l1 = 1)
        /\ (2 \in Bits(l) <=> l2 = 1) /\ (3 \in Bits(l) <=> l3 = 1)
    BY <1>6, <1>7, SumOfBits
  <1>9. h = 128 * 0 + 64 * 0 + 32 * 0 + 16 * 0 + 8 * h3 + 4 * h2 + 2 * h1 + h0
    BY <1>2
  <1>10. /\ (0 \in Bits(h) <=> h0 = 1) /\ (1 \in Bits(h) <=> h1 = 1)
         /\ (2 \in Bits(h) <=> h2 = 1) /\ (3 \in Bits(h) <=> h3 = 1)
         /\ 4 \notin Bits(h) /\ 5 \notin Bits(h) /\ 6 \notin Bits(h) /\ 7 \notin Bits(h)
    <2>1. /\ (0 \in Bits(h) <=> h0 = 1) /\ (1 \in Bits(h) <=> h1 = 1)
          /\ (2 \in Bits(h) <=> h2 = 1) /\ (3 \in Bits(h) <=> h3 = 1)
          /\ (4 \in Bits(h) <=> 0 = 1) /\ (5 \in Bits(h) <=> 0 = 1)
          /\ (6 \in Bits(h) <=> 0 = 1) /\ (7 \in Bits(h) <=> 0 = 1)
      BY <1>9, <1>7, SumOfBits
    <2> QED  BY <2>1
  <1>11. Bits(h) \subseteq LowBits
    <2>1. Bits(h) \subseteq Bit8  BY BitsType, BitIs
    <2> QED  BY <1>10, <2>1, BitIs DEF Bit8
  <1>12. \A i \in LowBits : i \in Bits(n) <=> i \in Bits(l)
    BY <1>5, <1>8, BitIs
  <1>13. \A i \in HighBits : i \in Bits(n) <=> i - 4 \in Bits(h)
    <2>1. 4 - 4 = 0 /\ 5 - 4 = 1 /\ 6 - 4 = 2 /\ 7 - 4 = 3  OBVIOUS
    <2> QED  BY <1>5, <1>10, <2>1, BitIs
  <1> QED  BY <1>3, <1>11, <1>12, <1>13

\* A digit of hex is known by its bits.
LEMMA NibbleKnown ==
  ASSUME NEW x \in 0 .. 15, NEW y \in 0 .. 15, Bits(x) = Bits(y)
  PROVE  x = y
  <1>1. PICK l0, l1, l2, l3 \in {0, 1} : x = 8 * l3 + 4 * l2 + 2 * l1 + l0  BY NibbleSum
  <1>2. PICK h0, h1, h2, h3 \in {0, 1} : y = 8 * h3 + 4 * h2 + 2 * h1 + h0  BY NibbleSum
  <1>3. x = 128 * 0 + 64 * 0 + 32 * 0 + 16 * 0 + 8 * l3 + 4 * l2 + 2 * l1 + l0
    BY <1>1
  <1>4. y = 128 * 0 + 64 * 0 + 32 * 0 + 16 * 0 + 8 * h3 + 4 * h2 + 2 * h1 + h0
    BY <1>2
  <1>5. 0 \in {0, 1}  OBVIOUS
  <1>6. /\ (0 \in Bits(x) <=> l0 = 1) /\ (1 \in Bits(x) <=> l1 = 1)
        /\ (2 \in Bits(x) <=> l2 = 1) /\ (3 \in Bits(x) <=> l3 = 1)
    BY <1>3, <1>5, SumOfBits
  <1>7. /\ (0 \in Bits(y) <=> h0 = 1) /\ (1 \in Bits(y) <=> h1 = 1)
        /\ (2 \in Bits(y) <=> h2 = 1) /\ (3 \in Bits(y) <=> h3 = 1)
    BY <1>4, <1>5, SumOfBits
  <1>8. l0 = h0 /\ l1 = h1 /\ l2 = h2 /\ l3 = h3  BY <1>6, <1>7
  <1> QED  BY <1>1, <1>2, <1>8

\* A number of eight binary digits has the bits they say.
LEMMA BinaryBits ==
  ASSUME NEW d, \A k \in 1 .. 8 : d[k] \in {0, 1}, NEW n,
         n = 128 * d[1] + 64 * d[2] + 32 * d[3] + 16 * d[4] + 8 * d[5] + 4 * d[6] + 2 * d[7] + d[8]
  PROVE  \A k \in 1 .. 8 : 8 - k \in Bits(n) <=> d[k] = 1
  <1>1. PICK d1, d2, d3, d4, d5, d6, d7, d8 \in {0, 1} :
          /\ d1 = d[1] /\ d2 = d[2] /\ d3 = d[3] /\ d4 = d[4]
          /\ d5 = d[5] /\ d6 = d[6] /\ d7 = d[7] /\ d8 = d[8]
    OBVIOUS
  <1>2. n = 128 * d1 + 64 * d2 + 32 * d3 + 16 * d4 + 8 * d5 + 4 * d6 + 2 * d7 + d8
    BY <1>1
  <1>7. /\ (0 \in Bits(n) <=> d8 = 1) /\ (1 \in Bits(n) <=> d7 = 1)
        /\ (2 \in Bits(n) <=> d6 = 1) /\ (3 \in Bits(n) <=> d5 = 1)
        /\ (4 \in Bits(n) <=> d4 = 1) /\ (5 \in Bits(n) <=> d3 = 1)
        /\ (6 \in Bits(n) <=> d2 = 1) /\ (7 \in Bits(n) <=> d1 = 1)
    BY <1>2, SumOfBits
  <1>8. ASSUME NEW k \in 1 .. 8 PROVE 8 - k \in Bits(n) <=> d[k] = 1
    <2>1. /\ 8 - 1 = 7 /\ 8 - 2 = 6 /\ 8 - 3 = 5 /\ 8 - 4 = 4
          /\ 8 - 5 = 3 /\ 8 - 6 = 2 /\ 8 - 7 = 1 /\ 8 - 8 = 0
      OBVIOUS
    <2>2. k \in {1, 2, 3, 4, 5, 6, 7, 8}  OBVIOUS
    <2>3. CASE k = 1  BY <1>1, <1>7, <2>1, <2>3, Zenon
    <2>4. CASE k = 2  BY <1>1, <1>7, <2>1, <2>4, Zenon
    <2>5. CASE k = 3  BY <1>1, <1>7, <2>1, <2>5, Zenon
    <2>6. CASE k = 4  BY <1>1, <1>7, <2>1, <2>6, Zenon
    <2>7. CASE k = 5  BY <1>1, <1>7, <2>1, <2>7, Zenon
    <2>8. CASE k = 6  BY <1>1, <1>7, <2>1, <2>8, Zenon
    <2>9. CASE k = 7  BY <1>1, <1>7, <2>1, <2>9, Zenon
    <2>10. CASE k = 8  BY <1>1, <1>7, <2>1, <2>10, Zenon
    <2> QED  BY <2>2, <2>3, <2>4, <2>5, <2>6, <2>7, <2>8, <2>9, <2>10
  <1> QED  BY <1>8

-----------------------------------------------------------------------------
(* The loop over the digits of a word *)

\* A nonempty set of natural numbers has a least element.
LEMMA LeastElement ==
  ASSUME NEW T \in SUBSET Nat, T # {}
  PROVE  \E x \in T : \A y \in T : x <= y
  <1> DEFINE Less == {pair \in Nat \X Nat : pair[1] < pair[2]}
  <1>1. IsWellFoundedOn(Less, Nat)
    BY NatLessThanWellFounded, Zenon DEF OpToRel
  <1> HIDE DEF Less
  <1>2. PICK x \in T : \A y \in T : ~ (<<y, x>> \in Less)
    BY <1>1, WFMin, Zenon
  <1>3. ASSUME NEW y \in T PROVE x <= y
    <2>1. ~ (<<y, x>> \in Less)  BY <1>2
    <2>2. <<y, x>> \in Nat \X Nat  OBVIOUS
    <2>3. ~ (y < x)  BY <2>1, <2>2 DEF Less
    <2> QED  BY <2>3
  <1> QED  BY <1>3

\* A loop of any number of rounds has a result after each: f is what it has after
\* each of the first m.
Runs(S, first, step, m, f) ==
  /\ f \in [0 .. m -> S]
  /\ f[0] = first
  /\ \A k \in 1 .. m : f[k] = step[k][f[k - 1]]

LEMMA OneRoundMore ==
  ASSUME NEW S, NEW first \in S, NEW L \in Nat, NEW step \in [1 .. L -> [S -> S]],
         NEW m \in 1 .. L, NEW f, Runs(S, first, step, m - 1, f)
  PROVE  \E g : Runs(S, first, step, m, g)
  <1> DEFINE last == step[m][f[m - 1]]
             g == [k \in 0 .. m |-> IF k = m THEN last ELSE f[k]]
  <1>1. /\ f \in [0 .. m - 1 -> S] /\ f[0] = first
        /\ \A k \in 1 .. m - 1 : f[k] = step[k][f[k - 1]]
    BY DEF Runs
  <1>2. last \in S
    <2>1. f[m - 1] \in S /\ step[m] \in [S -> S]  BY <1>1
    <2> QED  BY <2>1
  <1>3. PICK v : v = last  OBVIOUS
  <1>4. g \in [0 .. m -> S]
    <2>1. \A k \in 0 .. m : k # m => f[k] \in S  BY <1>1
    <2> QED  BY <1>2, <2>1
  <1>5. g[m] = last /\ \A k \in 0 .. m - 1 : g[k] = f[k]
    <2>1. m \in 0 .. m /\ \A k \in 0 .. m - 1 : k \in 0 .. m /\ k # m  OBVIOUS
    <2> HIDE DEF last
    <2> QED  BY <2>1
  <1> HIDE DEF g
  <1>6. g[0] = first  BY <1>1, <1>5
  <1>7. ASSUME NEW k \in 1 .. m PROVE g[k] = step[k][g[k - 1]]
    <2>1. CASE k = m
      <3>1. k - 1 \in 0 .. m - 1  BY <2>1
      <3>2. g[k - 1] = f[k - 1]  BY <1>5, <3>1
      <3> QED  BY <1>5, <2>1, <3>2, Zenon
    <2>2. CASE k # m
      <3>1. k \in 1 .. m - 1 /\ k \in 0 .. m - 1 /\ k - 1 \in 0 .. m - 1  BY <2>2
      <3>2. g[k - 1] = f[k - 1] /\ g[k] = f[k]  BY <1>5, <3>1
      <3>3. f[k] = step[k][f[k - 1]]  BY <1>1, <3>1
      <3> QED  BY <3>2, <3>3, Zenon
    <2> QED  BY <2>1, <2>2
  <1> QED  BY <1>4, <1>6, <1>7, Zenon DEF Runs

LEMMA Rounds ==
  ASSUME NEW S, NEW first \in S, NEW L \in Nat, NEW step \in [1 .. L -> [S -> S]]
  PROVE  \E f : Runs(S, first, step, L, f)
  <1> DEFINE Goes(m) == \E f : Runs(S, first, step, m, f)
             Stuck == {m \in 0 .. L : ~ Goes(m)}
  <1> HIDE DEF Goes
  <1>1. L \in 0 .. L /\ Stuck \in SUBSET Nat  OBVIOUS
  <1>2. SUFFICES ASSUME Stuck # {} PROVE FALSE
    <2>1. Goes(L)  BY <1>1
    <2> QED  BY <2>1 DEF Goes
  <1>3. PICK m \in Stuck : \A y \in Stuck : m <= y
    <2> HIDE DEF Stuck
    <2> QED  BY <1>1, <1>2, LeastElement
  <1>4. m \in 0 .. L /\ ~ Goes(m)  OBVIOUS
  <1>5. CASE m = 0
    <2> DEFINE g == [k \in 0 .. 0 |-> first]
    <2>1. g \in [0 .. 0 -> S] /\ g[0] = first /\ 1 .. 0 = {}  OBVIOUS
    <2> HIDE DEF g
    <2>2. Runs(S, first, step, 0, g)  BY <2>1 DEF Runs
    <2>3. Goes(0)  BY <2>2 DEF Goes
    <2> QED  BY <1>4, <1>5, <2>3
  <1>6. CASE m # 0
    <2>1. m - 1 \in 0 .. L /\ m \in 1 .. L /\ ~ (m <= m - 1)  BY <1>4, <1>6
    <2>2. Goes(m - 1)  BY <1>3, <2>1
    <2>3. PICK f : Runs(S, first, step, m - 1, f)  BY <2>2 DEF Goes
    <2>4. \E g : Runs(S, first, step, m, g)  BY <2>1, <2>3, OneRoundMore
    <2>5. Goes(m)  BY <2>4 DEF Goes
    <2> QED  BY <1>4, <2>5
  <1> QED  BY <1>5, <1>6

LEMMA Uint8Facts ==
  /\ \A n \in Nat : Uint8(n) \in Byte
  /\ \A n \in Byte : Uint8(n) = n
  BY DEF Uint8, Byte

\* The loop over a word goes from digit to digit: n is what it has after each.
Loop(w, d, L, B, n) ==
  /\ n[0] = 0
  /\ \A k \in 1 .. L : n[k] = Uint8(Uint8(n[k - 1] * B) + d[k])
  /\ Number(w, d) = n[L]

LEMMA NumberSteps ==
  ASSUME NEW w, NEW d, NEW L \in Nat, NEW B \in Nat, Len(w) = L, Base(w) = B,
         \A k \in 1 .. L : d[k] \in Nat
  PROVE  \E n : Loop(w, d, L, B, n)
  <1> DEFINE n[k \in 0 .. Len(w)] == IF k = 0 THEN 0 ELSE Uint8(Uint8(n[k - 1] * Base(w)) + d[k])
             round == [k \in 1 .. L |-> [v \in Byte |-> Uint8(Uint8(v * B) + d[k])]]
  <1>1. Number(w, d) = n[Len(w)]  BY DEF Number
  <1>2. /\ round \in [1 .. L -> [Byte -> Byte]]
        /\ \A k \in 1 .. L, v \in Byte : round[k][v] = Uint8(Uint8(v * B) + d[k])
    <2>1. ASSUME NEW k \in 1 .. L, NEW v \in Byte PROVE Uint8(Uint8(v * B) + d[k]) \in Byte
      <3>1. v * B \in Nat  BY DEF Byte
      <3>2. Uint8(v * B) \in Byte  BY <3>1, Uint8Facts, Zenon
      <3>3. \A x \in Byte, y \in Nat : x + y \in Nat  BY DEF Byte
      <3>4. d[k] \in Nat  OBVIOUS
      <3>6. Uint8(v * B) + d[k] \in Nat  BY <3>2, <3>3, <3>4, Zenon
      <3> QED  BY <3>6, Uint8Facts, Zenon
    <2> QED  BY <2>1
  <1> HIDE DEF round
  <1>3. PICK f : f \in [0 .. L -> Byte] /\ f[0] = 0
                 /\ \A k \in 1 .. L : f[k] = round[k][f[k - 1]]
    <2>1. 0 \in Byte  BY DEF Byte
    <2>2. \E f : Runs(Byte, 0, round, L, f)  BY <1>2, <2>1, Rounds
    <2> QED  BY <2>2, Zenon DEF Runs
  <1>4. ASSUME NEW k \in 0 .. L
        PROVE  f[k] = IF k = 0 THEN 0 ELSE Uint8(Uint8(f[k - 1] * B) + d[k])
    <2>1. CASE k = 0  BY <1>3, <2>1
    <2>2. CASE k # 0
      <3>1. k \in 1 .. L /\ f[k - 1] \in Byte  BY <1>3, <2>2
      <3>2. round[k][f[k - 1]] = Uint8(Uint8(f[k - 1] * B) + d[k])  BY <1>2, <3>1
      <3>3. f[k] = Uint8(Uint8(f[k - 1] * B) + d[k])  BY <1>3, <3>1, <3>2
      <3> QED  BY <2>2, <3>3, Zenon
    <2> QED  BY <2>1, <2>2
  <1>5. f = [k \in 0 .. Len(w) |-> IF k = 0 THEN 0 ELSE Uint8(Uint8(f[k - 1] * Base(w)) + d[k])]
    <2>1. f = [k \in 0 .. L |-> f[k]]  BY <1>3
    <2>2. [k \in 0 .. L |-> f[k]]
            = [k \in 0 .. L |-> IF k = 0 THEN 0 ELSE Uint8(Uint8(f[k - 1] * B) + d[k])]
      BY <1>4, Zenon
    <2> QED  BY <2>1, <2>2
  <1>6. n = [k \in 0 .. Len(w) |-> IF k = 0 THEN 0 ELSE Uint8(Uint8(n[k - 1] * Base(w)) + d[k])]
    BY <1>5, Zenon
  <1>7. PICK m : m = n  OBVIOUS
  <1> HIDE DEF n
  <1>8. m = [k \in 0 .. L |-> IF k = 0 THEN 0 ELSE Uint8(Uint8(m[k - 1] * B) + d[k])]
    BY <1>6, <1>7
  <1>9. 0 \in 0 .. L /\ \A k \in 1 .. L : k \in 0 .. L /\ k # 0  OBVIOUS
  <1>10. m[0] = 0 /\ \A k \in 1 .. L : m[k] = Uint8(Uint8(m[k - 1] * B) + d[k])
    BY <1>8, <1>9
  <1>11. Number(w, d) = m[L]  BY <1>1, <1>7
  <1>12. Loop(w, d, L, B, m)  BY <1>10, <1>11 DEF Loop
  <1> QED  BY <1>12

\* What the loop makes of the words that are parsed: two digits of hex, or eight bits.
LEMMA NumberOf2 ==
  ASSUME NEW w, NEW d, Len(w) = 2, \A k \in 1 .. 2 : d[k] \in 0 .. 15
  PROVE  Number(w, d) = 16 * d[1] + d[2]
  <1>1. Base(w) = 16 /\ 16 \in Nat /\ 2 \in Nat /\ \A k \in 1 .. 2 : d[k] \in Nat  BY DEF Base
  <1>2. PICK n : /\ n[0] = 0
                 /\ \A k \in 1 .. 2 : n[k] = Uint8(Uint8(n[k - 1] * 16) + d[k])
                 /\ Number(w, d) = n[2]
    <2>1. \E n : Loop(w, d, 2, 16, n)  BY <1>1, NumberSteps
    <2> QED  BY <2>1, Zenon DEF Loop
  <1>3. n[1] = d[1] /\ n[1] \in Byte
    <2>1. 1 \in 1 .. 2 /\ 1 - 1 = 0  OBVIOUS
    <2>2. n[1] = Uint8(Uint8(n[0] * 16) + d[1])  BY <1>2, <2>1, Zenon
    <2>3. n[0] * 16 \in Byte /\ n[0] * 16 + d[1] \in Byte
          /\ n[0] * 16 + d[1] = d[1]
      BY <1>2 DEF Byte
    <2> QED  BY <2>2, <2>3, Uint8Facts
  <1>4. n[2] = 16 * d[1] + d[2] /\ n[2] \in Byte
    <2>1. 2 \in 1 .. 2 /\ 2 - 1 = 1  OBVIOUS
    <2>2. n[2] = Uint8(Uint8(n[1] * 16) + d[2])  BY <1>2, <2>1, Zenon
    <2>3. n[1] * 16 \in Byte /\ n[1] * 16 + d[2] \in Byte
          /\ n[1] * 16 + d[2] = 16 * d[1] + d[2]
      BY <1>3 DEF Byte
    <2> QED  BY <2>2, <2>3, Uint8Facts
  <1> QED  BY <1>2, <1>4

LEMMA NumberOf8 ==
  ASSUME NEW w, NEW d, Len(w) = 8, \A k \in 1 .. 8 : d[k] \in {0, 1}
  PROVE  Number(w, d) = 128 * d[1] + 64 * d[2] + 32 * d[3] + 16 * d[4] + 8 * d[5] + 4 * d[6] + 2 * d[7] + d[8]
  <1>1. Base(w) = 2 /\ 2 \in Nat /\ 8 \in Nat /\ \A k \in 1 .. 8 : d[k] \in Nat  BY DEF Base
  <1>2. PICK n : /\ n[0] = 0
                 /\ \A k \in 1 .. 8 : n[k] = Uint8(Uint8(n[k - 1] * 2) + d[k])
                 /\ Number(w, d) = n[8]
    <2>1. \E n : Loop(w, d, 8, 2, n)  BY <1>1, NumberSteps
    <2> QED  BY <2>1, Zenon DEF Loop
  <1>3. n[1] = d[1] /\ n[1] \in Byte
    <2>1. 1 \in 1 .. 8 /\ 1 - 1 = 0  OBVIOUS
    <2>2. n[1] = Uint8(Uint8(n[0] * 2) + d[1])  BY <1>2, <2>1, Zenon
    <2>3. n[0] * 2 \in Byte /\ n[0] * 2 + d[1] \in Byte
          /\ n[0] * 2 + d[1] = d[1]
      BY <1>2 DEF Byte
    <2> QED  BY <2>2, <2>3, Uint8Facts
  <1>4. n[2] = 2 * d[1] + d[2] /\ n[2] \in Byte
    <2>1. 2 \in 1 .. 8 /\ 2 - 1 = 1  OBVIOUS
    <2>2. n[2] = Uint8(Uint8(n[1] * 2) + d[2])  BY <1>2, <2>1, Zenon
    <2>3. n[1] * 2 \in Byte /\ n[1] * 2 + d[2] \in Byte
          /\ n[1] * 2 + d[2] = 2 * d[1] + d[2]
      BY <1>3 DEF Byte
    <2> QED  BY <2>2, <2>3, Uint8Facts
  <1>5. n[3] = 4 * d[1] + 2 * d[2] + d[3] /\ n[3] \in Byte
    <2>1. 3 \in 1 .. 8 /\ 3 - 1 = 2  OBVIOUS
    <2>2. n[3] = Uint8(Uint8(n[2] * 2) + d[3])  BY <1>2, <2>1, Zenon
    <2>3. n[2] * 2 \in Byte /\ n[2] * 2 + d[3] \in Byte
          /\ n[2] * 2 + d[3] = 4 * d[1] + 2 * d[2] + d[3]
      BY <1>4 DEF Byte
    <2> QED  BY <2>2, <2>3, Uint8Facts
  <1>6. n[4] = 8 * d[1] + 4 * d[2] + 2 * d[3] + d[4] /\ n[4] \in Byte
    <2>1. 4 \in 1 .. 8 /\ 4 - 1 = 3  OBVIOUS
    <2>2. n[4] = Uint8(Uint8(n[3] * 2) + d[4])  BY <1>2, <2>1, Zenon
    <2>3. n[3] * 2 \in Byte /\ n[3] * 2 + d[4] \in Byte
          /\ n[3] * 2 + d[4] = 8 * d[1] + 4 * d[2] + 2 * d[3] + d[4]
      BY <1>5 DEF Byte
    <2> QED  BY <2>2, <2>3, Uint8Facts
  <1>7. n[5] = 16 * d[1] + 8 * d[2] + 4 * d[3] + 2 * d[4] + d[5] /\ n[5] \in Byte
    <2>1. 5 \in 1 .. 8 /\ 5 - 1 = 4  OBVIOUS
    <2>2. n[5] = Uint8(Uint8(n[4] * 2) + d[5])  BY <1>2, <2>1, Zenon
    <2>3. n[4] * 2 \in Byte /\ n[4] * 2 + d[5] \in Byte
          /\ n[4] * 2 + d[5] = 16 * d[1] + 8 * d[2] + 4 * d[3] + 2 * d[4] + d[5]
      BY <1>6 DEF Byte
    <2> QED  BY <2>2, <2>3, Uint8Facts
  <1>8. n[6] = 32 * d[1] + 16 * d[2] + 8 * d[3] + 4 * d[4] + 2 * d[5] + d[6] /\ n[6] \in Byte
    <2>1. 6 \in 1 .. 8 /\ 6 - 1 = 5  OBVIOUS
    <2>2. n[6] = Uint8(Uint8(n[5] * 2) + d[6])  BY <1>2, <2>1, Zenon
    <2>3. n[5] * 2 \in Byte /\ n[5] * 2 + d[6] \in Byte
          /\ n[5] * 2 + d[6] = 32 * d[1] + 16 * d[2] + 8 * d[3] + 4 * d[4] + 2 * d[5] + d[6]
      BY <1>7 DEF Byte
    <2> QED  BY <2>2, <2>3, Uint8Facts
  <1>9. n[7] = 64 * d[1] + 32 * d[2] + 16 * d[3] + 8 * d[4] + 4 * d[5] + 2 * d[6] + d[7] /\ n[7] \in Byte
    <2>1. 7 \in 1 .. 8 /\ 7 - 1 = 6  OBVIOUS
    <2>2. n[7] = Uint8(Uint8(n[6] * 2) + d[7])  BY <1>2, <2>1, Zenon
    <2>3. n[6] * 2 \in Byte /\ n[6] * 2 + d[7] \in Byte
          /\ n[6] * 2 + d[7] = 64 * d[1] + 32 * d[2] + 16 * d[3] + 8 * d[4] + 4 * d[5] + 2 * d[6] + d[7]
      BY <1>8 DEF Byte
    <2> QED  BY <2>2, <2>3, Uint8Facts
  <1>10. n[8] = 128 * d[1] + 64 * d[2] + 32 * d[3] + 16 * d[4] + 8 * d[5] + 4 * d[6] + 2 * d[7] + d[8] /\ n[8] \in Byte
    <2>1. 8 \in 1 .. 8 /\ 8 - 1 = 7  OBVIOUS
    <2>2. n[8] = Uint8(Uint8(n[7] * 2) + d[8])  BY <1>2, <2>1, Zenon
    <2>3. n[7] * 2 \in Byte /\ n[7] * 2 + d[8] \in Byte
          /\ n[7] * 2 + d[8] = 128 * d[1] + 64 * d[2] + 32 * d[3] + 16 * d[4] + 8 * d[5] + 4 * d[6] + 2 * d[7] + d[8]
      BY <1>9 DEF Byte
    <2> QED  BY <2>2, <2>3, Uint8Facts
  <1> QED  BY <1>2, <1>10

-----------------------------------------------------------------------------
(* What a word is parsed to *)

LEMMA SpecialBits ==
  /\ Bits(0) = {}
  /\ Bits(15) = LowBits
  <1>1. 0 \in {0, 1} /\ 1 \in {0, 1}  OBVIOUS
  <1>2. 0 = 128 * 0 + 64 * 0 + 32 * 0 + 16 * 0 + 8 * 0 + 4 * 0 + 2 * 0 + 0  OBVIOUS
  <1>3. 15 = 128 * 0 + 64 * 0 + 32 * 0 + 16 * 0 + 8 * 1 + 4 * 1 + 2 * 1 + 1  OBVIOUS
  <1>4. /\ 0 \notin Bits(0) /\ 1 \notin Bits(0) /\ 2 \notin Bits(0) /\ 3 \notin Bits(0)
        /\ 4 \notin Bits(0) /\ 5 \notin Bits(0) /\ 6 \notin Bits(0) /\ 7 \notin Bits(0)
    <2>1. /\ (0 \in Bits(0) <=> 0 = 1) /\ (1 \in Bits(0) <=> 0 = 1)
          /\ (2 \in Bits(0) <=> 0 = 1) /\ (3 \in Bits(0) <=> 0 = 1)
          /\ (4 \in Bits(0) <=> 0 = 1) /\ (5 \in Bits(0) <=> 0 = 1)
          /\ (6 \in Bits(0) <=> 0 = 1) /\ (7 \in Bits(0) <=> 0 = 1)
      BY <1>1, <1>2, SumOfBits
    <2> QED  BY <2>1
  <1>5. /\ 0 \in Bits(15) /\ 1 \in Bits(15) /\ 2 \in Bits(15) /\ 3 \in Bits(15)
        /\ 4 \notin Bits(15) /\ 5 \notin Bits(15) /\ 6 \notin Bits(15) /\ 7 \notin Bits(15)
    <2>1. /\ (0 \in Bits(15) <=> 1 = 1) /\ (1 \in Bits(15) <=> 1 = 1)
          /\ (2 \in Bits(15) <=> 1 = 1) /\ (3 \in Bits(15) <=> 1 = 1)
          /\ (4 \in Bits(15) <=> 0 = 1) /\ (5 \in Bits(15) <=> 0 = 1)
          /\ (6 \in Bits(15) <=> 0 = 1) /\ (7 \in Bits(15) <=> 0 = 1)
      BY <1>1, <1>3, SumOfBits
    <2> QED  BY <2>1
  <1>6. Bits(0) \subseteq Bit8 /\ Bits(15) \subseteq Bit8  BY BitsType, BitIs
  <1>7. ASSUME NEW i PROVE i \notin Bits(0)
    BY <1>4, <1>6 DEF Bit8
  <1>8. ASSUME NEW i PROVE i \in Bits(15) <=> i \in LowBits
    BY <1>5, <1>6, BitIs DEF Bit8
  <1> QED  BY <1>7, <1>8

\* The characters of a word, and what they contribute.
LEMMA DigitFacts ==
  ASSUME NEW ch \in Char, NEW base \in Nat \ {0}, ch = Wild \/ IsDigit(ch, base)
  PROVE  /\ DigitValue(ch) \in 0 .. base - 1
         /\ DigitMask(ch, base) = IF ch = Wild THEN 0 ELSE base - 1
         /\ ch # Wild => DigitValue(ch) = ch /\ ch \in 0 .. base - 1
         /\ ch = Wild => DigitValue(ch) = 0
  <1>1. ch # Wild => ch \in 0 .. base - 1
    <2>1. ch \in Int  BY DEF Char, Wild, Other
    <2> QED  BY <2>1 DEF IsDigit
  <1>2. 0 \in 0 .. base - 1  OBVIOUS
  <1>3. CASE ch = Wild  BY <1>2, <1>3, Zenon DEF DigitValue, DigitMask
  <1>4. CASE ch # Wild  BY <1>1, <1>4, Zenon DEF DigitValue, DigitMask
  <1> QED  BY <1>3, <1>4

\* A word of two digits has the bits of each that is no '?'.
LEMMA HexWord ==
  ASSUME NEW w \in Seq(Char), Len(w) = 2, Legal(w)
  PROVE  /\ \A i \in LowBits : /\ i \in ParseElement(w).mask <=> w[2] # Wild
                               /\ i \in ParseElement(w).value <=> w[2] # Wild /\ i \in Bits(w[2])
         /\ \A i \in HighBits : /\ i \in ParseElement(w).mask <=> w[1] # Wild
                                /\ i \in ParseElement(w).value <=> w[1] # Wild /\ i - 4 \in Bits(w[1])
         /\ \A k \in 1 .. 2 : w[k] # Wild => w[k] \in 0 .. 15
  <1>1. Base(w) = 16 /\ DOMAIN w = 1 .. 2  BY DEF Base
  <1>2. PICK v, m : /\ v = [k \in DOMAIN w |-> DigitValue(w[k])]
                    /\ m = [k \in DOMAIN w |-> DigitMask(w[k], Base(w))]
    OBVIOUS
  <1>3. ASSUME NEW k \in 1 .. 2
        PROVE  /\ v[k] \in 0 .. 15 /\ m[k] \in 0 .. 15
               /\ m[k] = IF w[k] = Wild THEN 0 ELSE 15
               /\ w[k] # Wild => v[k] = w[k] /\ w[k] \in 0 .. 15
               /\ w[k] = Wild => v[k] = 0
    <2>1. w[k] \in Char /\ (w[k] = Wild \/ IsDigit(w[k], 16))  BY <1>1 DEF Legal
    <2>2. v[k] = DigitValue(w[k]) /\ m[k] = DigitMask(w[k], 16)  BY <1>1, <1>2
    <2>3. 16 \in Nat \ {0}  OBVIOUS
    <2> QED  BY <2>1, <2>2, <2>3, DigitFacts, SMTT(60)
  <1>4. Number(w, v) = 16 * v[1] + v[2] /\ Number(w, m) = 16 * m[1] + m[2]
    BY <1>3, NumberOf2
  <1>5. 1 \in 1 .. 2 /\ 2 \in 1 .. 2  OBVIOUS
  <1>6. /\ \A i \in LowBits : i \in Bits(Number(w, v)) <=> i \in Bits(v[2])
        /\ \A i \in HighBits : i \in Bits(Number(w, v)) <=> i - 4 \in Bits(v[1])
    <2>1. v[1] \in 0 .. 15 /\ v[2] \in 0 .. 15  BY <1>3
    <2>2. PICK h \in 0 .. 15, l \in 0 .. 15 : h = v[1] /\ l = v[2]  BY <2>1, Zenon
    <2>3. /\ \A i \in LowBits : i \in Bits(16 * h + l) <=> i \in Bits(l)
          /\ \A i \in HighBits : i \in Bits(16 * h + l) <=> i - 4 \in Bits(h)
      BY HexBits
    <2> QED  BY <1>4, <2>2, <2>3, Zenon
  <1>7. /\ \A i \in LowBits : i \in Bits(Number(w, m)) <=> i \in Bits(m[2])
        /\ \A i \in HighBits : i \in Bits(Number(w, m)) <=> i - 4 \in Bits(m[1])
    <2>1. m[1] \in 0 .. 15 /\ m[2] \in 0 .. 15  BY <1>3
    <2>2. PICK h \in 0 .. 15, l \in 0 .. 15 : h = m[1] /\ l = m[2]  BY <2>1, Zenon
    <2>3. /\ \A i \in LowBits : i \in Bits(16 * h + l) <=> i \in Bits(l)
          /\ \A i \in HighBits : i \in Bits(16 * h + l) <=> i - 4 \in Bits(h)
      BY HexBits
    <2> QED  BY <1>4, <2>2, <2>3, Zenon
  <1>8. ParseElement(w).mask = Bits(Number(w, m))
        /\ ParseElement(w).value = Bits(Number(w, v)) \cap Bits(Number(w, m))
    BY <1>2 DEF ParseElement, ElementOf
  <1>9. ASSUME NEW k \in 1 .. 2, NEW i \in LowBits
        PROVE  /\ i \in Bits(m[k]) <=> w[k] # Wild
               /\ w[k] # Wild => (i \in Bits(v[k]) <=> i \in Bits(w[k]))
    <2>1. CASE w[k] = Wild
      <3>1. m[k] = 0  BY <1>3, <2>1
      <3> QED  BY <2>1, <3>1, SpecialBits
    <2>2. CASE w[k] # Wild
      <3>1. m[k] = 15 /\ v[k] = w[k]  BY <1>3, <2>2
      <3> QED  BY <2>2, <3>1, SpecialBits
    <2> QED  BY <2>1, <2>2
  <1>10. ASSUME NEW i \in LowBits
         PROVE  /\ i \in ParseElement(w).mask <=> w[2] # Wild
                /\ i \in ParseElement(w).value <=> w[2] # Wild /\ i \in Bits(w[2])
    BY <1>5, <1>6, <1>7, <1>8, <1>9
  <1>11. ASSUME NEW i \in HighBits
         PROVE  /\ i \in ParseElement(w).mask <=> w[1] # Wild
                /\ i \in ParseElement(w).value <=> w[1] # Wild /\ i - 4 \in Bits(w[1])
    <2>1. i - 4 \in LowBits  BY DEF HighBits, LowBits
    <2>2. i \in Bits(Number(w, m)) <=> w[1] # Wild  BY <1>5, <1>7, <1>9, <2>1
    <2>3. w[1] # Wild => (i \in Bits(Number(w, v)) <=> i - 4 \in Bits(w[1]))
      BY <1>5, <1>6, <1>9, <2>1
    <2> QED  BY <1>8, <2>2, <2>3
  <1> QED  BY <1>3, <1>10, <1>11

\* A word of eight digits says of each bit whether it is set, unless it is a '?'.
LEMMA BinaryWord ==
  ASSUME NEW w \in Seq(Char), Len(w) = 8, Legal(w)
  PROVE  \A k \in 1 .. 8 : /\ 8 - k \in ParseElement(w).mask <=> w[k] # Wild
                           /\ 8 - k \in ParseElement(w).value <=> w[k] = 1
                           /\ w[k] # Wild => w[k] \in {0, 1}
  <1>1. Base(w) = 2 /\ DOMAIN w = 1 .. 8  BY DEF Base
  <1>2. PICK v, m : /\ v = [k \in DOMAIN w |-> DigitValue(w[k])]
                    /\ m = [k \in DOMAIN w |-> DigitMask(w[k], Base(w))]
    OBVIOUS
  <1>3. ASSUME NEW k \in 1 .. 8
        PROVE  /\ v[k] \in {0, 1} /\ m[k] \in {0, 1}
               /\ m[k] = 1 <=> w[k] # Wild
               /\ v[k] = 1 <=> w[k] = 1
               /\ w[k] # Wild => w[k] \in {0, 1}
               /\ w[k] = 1 => w[k] # Wild
    <2>1. w[k] \in Char /\ (w[k] = Wild \/ IsDigit(w[k], 2))
      <3>1. w[k] \in Char
        <4>1. k \in 1 .. Len(w)  OBVIOUS
        <4> QED  BY <4>1, ElementOfSeq, Zenon
      <3>2. w[k] = Wild \/ IsDigit(w[k], Base(w))  BY <1>1, Zenon DEF Legal
      <3> QED  BY <1>1, <3>1, <3>2, Zenon
    <2>2. v[k] = DigitValue(w[k]) /\ m[k] = DigitMask(w[k], 2)  BY <1>1, <1>2
    <2>3. 2 \in Nat \ {0}  OBVIOUS
    <2>4. /\ v[k] \in 0 .. 2 - 1
          /\ m[k] = IF w[k] = Wild THEN 0 ELSE 2 - 1
          /\ w[k] # Wild => v[k] = w[k] /\ w[k] \in 0 .. 2 - 1
          /\ w[k] = Wild => v[k] = 0
      BY <2>1, <2>2, <2>3, DigitFacts
    <2>5. 0 .. 2 - 1 = {0, 1} /\ 2 - 1 = 1 /\ Wild # 1  BY DEF Wild
    <2> QED  BY <2>4, <2>5
  <1>4. Number(w, v) = 128 * v[1] + 64 * v[2] + 32 * v[3] + 16 * v[4] + 8 * v[5] + 4 * v[6] + 2 * v[7] + v[8]
    BY <1>3, NumberOf8
  <1>5. Number(w, m) = 128 * m[1] + 64 * m[2] + 32 * m[3] + 16 * m[4] + 8 * m[5] + 4 * m[6] + 2 * m[7] + m[8]
    BY <1>3, NumberOf8
  <1>6. \A k \in 1 .. 8 : 8 - k \in Bits(Number(w, v)) <=> v[k] = 1  BY <1>3, <1>4, BinaryBits
  <1>7. \A k \in 1 .. 8 : 8 - k \in Bits(Number(w, m)) <=> m[k] = 1  BY <1>3, <1>5, BinaryBits
  <1>8. ParseElement(w).mask = Bits(Number(w, m))
        /\ ParseElement(w).value = Bits(Number(w, v)) \cap Bits(Number(w, m))
    BY <1>2 DEF ParseElement, ElementOf
  <1> QED  BY <1>3, <1>6, <1>7, <1>8

\* Two digits of hex that have the same bits among the low four are the same.
LEMMA NibbleSame ==
  ASSUME NEW x \in 0 .. 15, NEW y \in 0 .. 15
  PROVE  (\A i \in LowBits : i \in Bits(x) <=> i \in Bits(y)) <=> x = y
  <1>1. 0 \in 0 .. 15  OBVIOUS
  <1>2. Bits(x) \subseteq LowBits /\ Bits(y) \subseteq LowBits  BY <1>1, HexBits
  <1>3. ASSUME \A i \in LowBits : i \in Bits(x) <=> i \in Bits(y)
        PROVE  x = y
    <2>1. Bits(x) = Bits(y)  BY <1>2, <1>3
    <2> QED  BY <2>1, NibbleKnown
  <1> QED  BY <1>3

\* A digit of a byte in binary.
LEMMA BitDigit ==
  ASSUME NEW b \in Byte, NEW k \in 1 .. 8
  PROVE  (b \div 2 ^ (8 - k)) % 2 \in {0, 1}
  <1>1. PICK i : i = 8 - k  OBVIOUS
  <1>2. i \in {0, 1, 2, 3, 4, 5, 6, 7}  BY <1>1
  <1>3. PICK p \in Nat \ {0} : p = 2 ^ i
    <2>1. 2 ^ 0 = 1 /\ 2 ^ 1 = 2 /\ 2 ^ 2 = 4 /\ 2 ^ 3 = 8
          /\ 2 ^ 4 = 16 /\ 2 ^ 5 = 32 /\ 2 ^ 6 = 64 /\ 2 ^ 7 = 128
      OBVIOUS
    <2>2. i = 0 \/ i = 1 \/ i = 2 \/ i = 3 \/ i = 4 \/ i = 5 \/ i = 6 \/ i = 7  BY <1>2
    <2>3. PICK q : q = 2 ^ i  OBVIOUS
    <2>4. /\ (i = 0 => q = 1) /\ (i = 1 => q = 2) /\ (i = 2 => q = 4) /\ (i = 3 => q = 8)
          /\ (i = 4 => q = 16) /\ (i = 5 => q = 32) /\ (i = 6 => q = 64) /\ (i = 7 => q = 128)
      BY <2>1, <2>3, ZenonT(60)
    <2>5. q \in Nat \ {0}  BY <2>2, <2>4
    <2> QED  BY <2>3, <2>5, Zenon
  <1>4. b \div p \in Int  BY DEF Byte
  <1>5. \A q \in Int : q % 2 \in {0, 1}  OBVIOUS
  <1>6. (b \div p) % 2 \in {0, 1}  BY <1>4, <1>5, Zenon
  <1> QED  BY <1>1, <1>3, <1>6, Zenon

\* The bits are the low nibble and the high one, and those of the eight digits.
LEMMA BitSplit ==
  /\ \A i \in Bit : i \in LowBits \/ i \in HighBits
  /\ LowBits \subseteq Bit /\ HighBits \subseteq Bit
  /\ \A k \in 1 .. 8 : 8 - k \in Bit
  /\ \A i \in Bit : \E k \in 1 .. 8 : i = 8 - k
  <1>1. \A i \in Bit : 8 - i \in 1 .. 8 /\ i = 8 - (8 - i)  BY DEF Bit
  <1>2. \A i \in Bit : \E k \in 1 .. 8 : i = 8 - k  BY <1>1
  <1>3. \A i \in Bit : i \in LowBits \/ i \in HighBits  BY DEF Bit, LowBits, HighBits
  <1>4. LowBits \subseteq Bit /\ HighBits \subseteq Bit  BY DEF Bit, LowBits, HighBits
  <1>5. \A k \in 1 .. 8 : 8 - k \in Bit  BY DEF Bit
  <1> QED  BY <1>2, <1>3, <1>4, <1>5

\* The words an element is parsed from are the well formed ones of two and eight.
LEMMA LegalIsWellFormed ==
  ASSUME NEW w \in Seq(Char), Len(w) \in {2, 8}
  PROVE  Legal(w) <=> WellFormed(w)
  <1>1. ASSUME NEW ch \in Char
        PROVE  /\ (ch = Wild \/ IsDigit(ch, 16)) <=> ch \in {Wild} \cup 0 .. 15
               /\ (ch = Wild \/ IsDigit(ch, 2)) <=> ch \in {Wild, 0, 1}
    <2>1. ch \in Int  BY DEF Char, Wild, Other
    <2>2. IsDigit(ch, 16) <=> ch \in 0 .. 15  BY <2>1 DEF IsDigit
    <2>3. IsDigit(ch, 2) <=> ch \in {0, 1}  BY <2>1 DEF IsDigit
    <2> QED  BY <2>2, <2>3
  <1>2. w \notin {<<>>, <<Wild>>}
    <2>1. Len(<<>>) = 0 /\ Len(<<Wild>>) = 1  OBVIOUS
    <2>2. PICK n \in {2, 8} : n = Len(w)  OBVIOUS
    <2>3. n # 0 /\ n # 1  OBVIOUS
    <2> QED  BY <2>1, <2>2, <2>3, Zenon
  <1>3. \A k \in 1 .. Len(w) : w[k] \in Char  BY ElementOfSeq, Zenon
  <1>4. CASE Len(w) = 2
    <2>1. Base(w) = 16 /\ DOMAIN w = 1 .. 2 /\ Len(w) # 8  BY <1>4 DEF Base
    <2>2. Legal(w) <=> \A k \in 1 .. 2 : w[k] = Wild \/ IsDigit(w[k], 16)
      BY <2>1, Zenon DEF Legal
    <2>3. WellFormed(w) <=> \A k \in 1 .. 2 : w[k] \in {Wild} \cup 0 .. 15
      BY <1>2, <1>4, <2>1, Zenon DEF WellFormed
    <2>4. \A k \in 1 .. 2 : w[k] \in Char  BY <1>3, <1>4, Zenon
    <2> QED  BY <1>1, <2>2, <2>3, <2>4, Zenon
  <1>5. CASE Len(w) = 8
    <2>1. Base(w) = 2 /\ DOMAIN w = 1 .. 8 /\ Len(w) # 2  BY <1>5 DEF Base
    <2>2. Legal(w) <=> \A k \in 1 .. 8 : w[k] = Wild \/ IsDigit(w[k], 2)
      BY <2>1, Zenon DEF Legal
    <2>3. WellFormed(w) <=> \A k \in 1 .. 8 : w[k] \in {Wild, 0, 1}
      BY <1>2, <1>5, <2>1, Zenon DEF WellFormed
    <2>4. \A k \in 1 .. 8 : w[k] \in Char  BY <1>3, <1>5, Zenon
    <2> QED  BY <1>1, <2>2, <2>3, <2>4, Zenon
  <1> QED  BY <1>4, <1>5

\* The mask is full exactly for a word without a '?'.
LEMMA AllIsExact ==
  ASSUME NEW w \in Seq(Char), Len(w) \in {2, 8}, Legal(w)
  PROVE  All(ParseElement(w)) <=> Exact(w)
  <1>1. ParseElement(w).mask \subseteq Bit  BY ParsedElement DEF ElementSet
  <1>2. All(ParseElement(w)) <=> \A i \in Bit : i \in ParseElement(w).mask
    BY <1>1 DEF All, Full
  <1>3. Exact(w) <=> \A k \in DOMAIN w : w[k] # Wild  BY DEF Exact
  <1>4. CASE Len(w) = 2
    <2>1. DOMAIN w = {1, 2}  BY <1>4
    <2>2. \A i \in LowBits : i \in ParseElement(w).mask <=> w[2] # Wild  BY <1>4, HexWord
    <2>3. \A i \in HighBits : i \in ParseElement(w).mask <=> w[1] # Wild  BY <1>4, HexWord
    <2>4. 0 \in LowBits /\ 4 \in HighBits  BY DEF LowBits, HighBits
    <2>5. (\A i \in Bit : i \in ParseElement(w).mask) <=> w[1] # Wild /\ w[2] # Wild
      BY <2>2, <2>3, <2>4, BitSplit
    <2> QED  BY <1>2, <1>3, <2>1, <2>5
  <1>5. CASE Len(w) = 8
    <2>1. DOMAIN w = 1 .. 8  BY <1>5
    <2>2. \A k \in 1 .. 8 : 8 - k \in ParseElement(w).mask <=> w[k] # Wild  BY <1>5, BinaryWord
    <2>3. (\A i \in Bit : i \in ParseElement(w).mask) <=> \A k \in 1 .. 8 : w[k] # Wild
      BY <2>2, BitSplit, Zenon
    <2> QED  BY <1>2, <1>3, <2>1, <2>3
  <1> QED  BY <1>4, <1>5

\* An element is equal to the bytes that agree with it where it has a mask.
LEMMA EqualsWhere ==
  ASSUME NEW e, e.value \subseteq e.mask, e.mask \subseteq Bit, NEW b
  PROVE  Equals(e, b) <=> \A i \in Bit : i \in e.mask => (i \in Bits(b) <=> i \in e.value)
  BY BitsType DEF Equals

\* A byte by its digits.
LEMMA ByteDigits ==
  ASSUME NEW b \in Byte
  PROVE  \E h \in 0 .. 15, l \in 0 .. 15 :
           /\ b = 16 * h + l
           /\ (b \div 16 ^ (2 - 1)) % 16 = h
           /\ (b \div 16 ^ (2 - 2)) % 16 = l
  <1>1. PICK h, l : h = b \div 16 /\ l = b % 16  OBVIOUS
  <1>2. b \in 0 .. 255  BY DEF Byte
  <1>3. b = 16 * h + l /\ l \in 0 .. 15 /\ h \in 0 .. 15  BY <1>1, <1>2
  <1>4. 16 ^ 1 = 16 /\ 16 ^ 0 = 1 /\ 2 - 1 = 1 /\ 2 - 2 = 0  OBVIOUS
  <1>5. 16 ^ (2 - 1) = 16 /\ 16 ^ (2 - 2) = 1  BY <1>4, Zenon
  <1>6. h % 16 = h  BY <1>3
  <1>7. b \div 1 = b  BY <1>2
  <1>8. (b \div 16 ^ (2 - 1)) % 16 = h  BY <1>1, <1>5, <1>6, Zenon
  <1>9. (b \div 16 ^ (2 - 2)) % 16 = l  BY <1>1, <1>5, <1>7, Zenon
  <1> QED  BY <1>3, <1>8, <1>9

\* An element parsed from a word is equal to exactly the bytes the word stands for.
LEMMA MeansWhatItSays ==
  ASSUME NEW w \in Seq(Char), Len(w) \in {2, 8}, Legal(w), NEW b \in Byte
  PROVE  Equals(ParseElement(w), b) <=> StandsFor(w, b)
  <1>1. PICK e : e = ParseElement(w)  OBVIOUS
  <1>2. e.mask \subseteq Bit /\ e.value \subseteq e.mask  BY <1>1, ParsedElement DEF ElementSet
  <1>3. Equals(e, b) <=> \A i \in Bit : i \in e.mask => (i \in Bits(b) <=> i \in e.value)
    BY <1>2, EqualsWhere
  <1>4. CASE Len(w) = 2
    <2>1. PICK h \in 0 .. 15, l \in 0 .. 15 :
            /\ b = 16 * h + l
            /\ (b \div 16 ^ (2 - 1)) % 16 = h
            /\ (b \div 16 ^ (2 - 2)) % 16 = l
      BY ByteDigits
    <2>2. StandsFor(w, b) <=> w[1] \in {Wild, h} /\ w[2] \in {Wild, l}
      <3>1. StandsFor(w, b) <=> \A k \in 1 .. 2 : w[k] \in {Wild, (b \div 16 ^ (2 - k)) % 16}
        BY <1>4 DEF StandsFor
      <3>2. 1 .. 2 = {1, 2}  OBVIOUS
      <3>3. StandsFor(w, b) <=> /\ w[1] \in {Wild, (b \div 16 ^ (2 - 1)) % 16}
                                /\ w[2] \in {Wild, (b \div 16 ^ (2 - 2)) % 16}
        BY <3>1, <3>2, Zenon
      <3> QED  BY <2>1, <3>3, Zenon
    <2>3. /\ \A i \in LowBits : i \in Bits(b) <=> i \in Bits(l)
          /\ \A i \in HighBits : i \in Bits(b) <=> i - 4 \in Bits(h)
      BY <2>1, HexBits, Zenon
    <2>4. /\ \A i \in LowBits : /\ i \in e.mask <=> w[2] # Wild
                                /\ i \in e.value <=> w[2] # Wild /\ i \in Bits(w[2])
          /\ \A i \in HighBits : /\ i \in e.mask <=> w[1] # Wild
                                 /\ i \in e.value <=> w[1] # Wild /\ i - 4 \in Bits(w[1])
          /\ \A k \in 1 .. 2 : w[k] # Wild => w[k] \in 0 .. 15
      BY <1>1, <1>4, HexWord
    <2>5. Equals(e, b) <=> /\ \A i \in LowBits : i \in e.mask => (i \in Bits(b) <=> i \in e.value)
                           /\ \A i \in HighBits : i \in e.mask => (i \in Bits(b) <=> i \in e.value)
      BY <1>3, BitSplit, Zenon
    <2>6. (\A i \in LowBits : i \in e.mask => (i \in Bits(b) <=> i \in e.value))
            <=> w[2] \in {Wild, l}
      <3>1. CASE w[2] = Wild  BY <2>4, <3>1
      <3>2. CASE w[2] # Wild
        <4>1. w[2] \in 0 .. 15  BY <2>4, <3>2
        <4>2. (\A i \in LowBits : i \in e.mask => (i \in Bits(b) <=> i \in e.value))
                <=> \A i \in LowBits : i \in Bits(l) <=> i \in Bits(w[2])
          BY <2>3, <2>4, <3>2, Zenon
        <4>3. (\A i \in LowBits : i \in Bits(l) <=> i \in Bits(w[2])) <=> l = w[2]
          BY <4>1, NibbleSame
        <4> QED  BY <3>2, <4>2, <4>3
      <3> QED  BY <3>1, <3>2
    <2>7. (\A i \in HighBits : i \in e.mask => (i \in Bits(b) <=> i \in e.value))
            <=> w[1] \in {Wild, h}
      <3>1. CASE w[1] = Wild  BY <2>4, <3>1
      <3>2. CASE w[1] # Wild
        <4>1. w[1] \in 0 .. 15  BY <2>4, <3>2
        <4>2. (\A i \in HighBits : i \in e.mask => (i \in Bits(b) <=> i \in e.value))
                <=> \A i \in HighBits : i - 4 \in Bits(h) <=> i - 4 \in Bits(w[1])
          BY <2>3, <2>4, <3>2, Zenon
        <4>3. (\A i \in HighBits : i - 4 \in Bits(h) <=> i - 4 \in Bits(w[1]))
                <=> \A i \in LowBits : i \in Bits(h) <=> i \in Bits(w[1])
          <5>1. \A i \in HighBits : i - 4 \in LowBits  BY DEF LowBits, HighBits
          <5>2. ASSUME \A i \in HighBits : i - 4 \in Bits(h) <=> i - 4 \in Bits(w[1]),
                       NEW i \in LowBits
                PROVE  i \in Bits(h) <=> i \in Bits(w[1])
            <6>1. PICK j : j = i + 4  OBVIOUS
            <6>2. j \in HighBits /\ j - 4 = i  BY <6>1 DEF LowBits, HighBits
            <6>3. j - 4 \in Bits(h) <=> j - 4 \in Bits(w[1])  BY <5>2, <6>2, Zenon
            <6> QED  BY <6>2, <6>3, Zenon
          <5> QED  BY <5>1, <5>2, Zenon
        <4>4. (\A i \in LowBits : i \in Bits(h) <=> i \in Bits(w[1])) <=> h = w[1]
          BY <4>1, NibbleSame
        <4> QED  BY <3>2, <4>2, <4>3, <4>4
      <3> QED  BY <3>1, <3>2
    <2> QED  BY <1>1, <2>2, <2>5, <2>6, <2>7, Zenon
  <1>5. CASE Len(w) = 8
    <2>1. \A k \in 1 .. 8 : /\ 8 - k \in e.mask <=> w[k] # Wild
                            /\ 8 - k \in e.value <=> w[k] = 1
                            /\ w[k] # Wild => w[k] \in {0, 1}
      BY <1>1, <1>5, BinaryWord
    <2>2. StandsFor(w, b) <=> \A k \in 1 .. 8 : w[k] \in {Wild, (b \div 2 ^ (8 - k)) % 2}
      BY <1>5 DEF StandsFor
    <2>3. Equals(e, b) <=> \A k \in 1 .. 8 : 8 - k \in e.mask => (8 - k \in Bits(b) <=> 8 - k \in e.value)
      BY <1>3, BitSplit, Zenon
    <2>4. ASSUME NEW k \in 1 .. 8
          PROVE  (8 - k \in e.mask => (8 - k \in Bits(b) <=> 8 - k \in e.value))
                   <=> w[k] \in {Wild, (b \div 2 ^ (8 - k)) % 2}
      <3>1. 8 - k \in Bit  BY BitSplit
      <3>2. PICK d : d = (b \div 2 ^ (8 - k)) % 2  OBVIOUS
      <3>3. 8 - k \in Bits(b) <=> d = 1  BY <3>1, <3>2, Zenon DEF Bits
      <3>4. d \in {0, 1}  BY <3>2, BitDigit
      <3>5. w[k] \in {Wild, d} <=> (w[k] # Wild => w[k] = d)  OBVIOUS
      <3>6. CASE w[k] = Wild  BY <2>1, <3>2, <3>6
      <3>7. CASE w[k] # Wild
        <4>1. w[k] \in {0, 1} /\ 8 - k \in e.mask /\ (8 - k \in e.value <=> w[k] = 1)
          BY <2>1, <3>7
        <4>2. (d = 1 <=> w[k] = 1) <=> w[k] = d  BY <3>4, <4>1
        <4> QED  BY <3>2, <3>3, <3>5, <3>7, <4>1, <4>2, Zenon
      <3> QED  BY <3>6, <3>7
    <2> QED  BY <1>1, <2>2, <2>3, <2>4, Zenon
  <1> QED  BY <1>4, <1>5

-----------------------------------------------------------------------------
(* What is printed of an element *)

\* Four bits are a digit that has them.
LEMMA NibbleFacts ==
  ASSUME NEW S \in SUBSET LowBits
  PROVE  Nibble(S) \in 0 .. 15 /\ Bits(Nibble(S)) = S
  <1>1. PICK b0, b1, b2, b3 \in {0, 1} :
          /\ b0 = (IF 0 \in S THEN 1 ELSE 0) /\ b1 = (IF 1 \in S THEN 1 ELSE 0)
          /\ b2 = (IF 2 \in S THEN 1 ELSE 0) /\ b3 = (IF 3 \in S THEN 1 ELSE 0)
    OBVIOUS
  <1>2. /\ (b0 = 1 <=> 0 \in S) /\ (b1 = 1 <=> 1 \in S)
        /\ (b2 = 1 <=> 2 \in S) /\ (b3 = 1 <=> 3 \in S)
    BY <1>1
  <1>3. Nibble(S) = b0 + (IF 1 \in S THEN 2 ELSE 0) + (IF 2 \in S THEN 4 ELSE 0)
                    + (IF 3 \in S THEN 8 ELSE 0)
    BY <1>1, Zenon DEF Nibble
  <1>4. PICK n : n = 8 * b3 + 4 * b2 + 2 * b1 + b0  OBVIOUS
  <1>5. Nibble(S) = n  BY <1>1, <1>3, <1>4
  <1>6. n \in 0 .. 15  BY <1>4
  <1>7. 0 \in {0, 1}  OBVIOUS
  <1>8. n = 128 * 0 + 64 * 0 + 32 * 0 + 16 * 0 + 8 * b3 + 4 * b2 + 2 * b1 + b0  BY <1>4
  <1>9. /\ (0 \in Bits(n) <=> b0 = 1) /\ (1 \in Bits(n) <=> b1 = 1)
        /\ (2 \in Bits(n) <=> b2 = 1) /\ (3 \in Bits(n) <=> b3 = 1)
    BY <1>7, <1>8, SumOfBits
  <1>10. Bits(n) \subseteq LowBits  BY <1>6, HexBits
  <1>11. \A i \in LowBits : i \in Bits(n) <=> i \in S
    <2>1. \A i \in LowBits : i = 0 \/ i = 1 \/ i = 2 \/ i = 3  BY DEF LowBits
    <2> QED  BY <1>2, <1>9, <2>1, Zenon
  <1>12. Bits(n) = S  BY <1>10, <1>11
  <1> QED  BY <1>5, <1>6, <1>12

\* A function on the first numbers is a sequence.
LEMMA FunctionIsSeq ==
  ASSUME NEW S, NEW n \in Nat, NEW f \in [1 .. n -> S]
  PROVE  f \in Seq(S) /\ Len(f) = n
  <1>1. f \in Seq(S)  BY SeqDef
  <1>2. PICK l \in Nat : l = Len(f) /\ DOMAIN f = 1 .. l  BY <1>1, LenProperties
  <1>3. 1 .. l = 1 .. n  BY <1>2
  <1>4. \A i \in Nat : i \in 1 .. l <=> i \in 1 .. n  BY <1>3
  <1>5. l = n  BY <1>4
  <1> QED  BY <1>1, <1>2, <1>5

\* A printed element is one word that the parser takes, and that is a byte without
\* wildcards when the mask is full.
LEMMA PrintedWord ==
  ASSUME NEW e \in ElementSet, e.value \subseteq e.mask
  PROVE  /\ WordOf(e) \in Seq(Char)
         /\ WordOf(e) # <<>>
         /\ WellFormed(WordOf(e))
         /\ All(e) => Exact(WordOf(e))
         /\ NoBits(e) => WordOf(e) = <<Wild>>
         /\ InHex(e) => Len(WordOf(e)) = 2
         /\ ~ NoBits(e) /\ ~ InHex(e) => Len(WordOf(e)) = 8
  <1>1. e.value \subseteq Bit /\ e.mask \subseteq Bit  BY DEF ElementSet
  <1>2. 0 .. 15 \subseteq Char /\ Wild \in Char /\ Wild \notin 0 .. 15 /\ {0, 1} \subseteq 0 .. 15
    BY DEF Char, Wild
  <1>3. 0 \in LowBits /\ 4 \in HighBits  BY DEF LowBits, HighBits
  <1>4. CASE InHex(e)
    <2>1. PICK h, l : /\ h = IF HighBits \subseteq e.mask THEN Nibble({b \in Bit : b + 4 \in e.value}) ELSE Wild
                      /\ l = IF LowBits \subseteq e.mask THEN Nibble(e.value \cap LowBits) ELSE Wild
      OBVIOUS
    <2>2. WordOf(e) = <<h, l>>  BY <1>4, <2>1, Zenon DEF WordOf
    <2>3. {b \in Bit : b + 4 \in e.value} \in SUBSET LowBits
      <3>1. \A b \in Bit : b + 4 \in Bit => b \in LowBits  BY DEF Bit, LowBits
      <3> QED  BY <1>1, <3>1
    <2>4. e.value \cap LowBits \in SUBSET LowBits  OBVIOUS
    <2>5. h \in {Wild} \cup 0 .. 15 /\ (HighBits \subseteq e.mask => h \in 0 .. 15)
      BY <2>1, <2>3, NibbleFacts, Zenon
    <2>6. l \in {Wild} \cup 0 .. 15 /\ (LowBits \subseteq e.mask => l \in 0 .. 15)
      BY <2>1, <2>4, NibbleFacts, Zenon
    <2>7. h \in Char /\ l \in Char  BY <1>2, <2>5, <2>6
    <2>8. WordOf(e) \in Seq(Char) /\ Len(WordOf(e)) = 2 /\ WordOf(e) # <<>>
          /\ WordOf(e)[1] = h /\ WordOf(e)[2] = l /\ DOMAIN WordOf(e) = {1, 2}
      BY <2>2, <2>7
    <2>9. WellFormed(WordOf(e))
      <3>1. \A k \in 1 .. 2 : WordOf(e)[k] \in {Wild} \cup 0 .. 15
        BY <2>5, <2>6, <2>8
      <3> QED  BY <2>8, <3>1, Zenon DEF WellFormed
    <2>10. All(e) => Exact(WordOf(e))
      <3> SUFFICES ASSUME All(e) PROVE Exact(WordOf(e))  OBVIOUS
      <3>1. HighBits \subseteq e.mask /\ LowBits \subseteq e.mask  BY BitSplit DEF All, Full
      <3>2. h # Wild /\ l # Wild  BY <1>2, <2>5, <2>6, <3>1
      <3>3. \A k \in DOMAIN WordOf(e) : WordOf(e)[k] # Wild  BY <2>8, <3>2
      <3>4. Len(WordOf(e)) \in {2, 8}  BY <2>8
      <3> QED  BY <3>3, <3>4, Zenon DEF Exact
    <2>11. ~ NoBits(e)  BY <1>3, <1>4 DEF InHex, NoBits
    <2> QED  BY <1>4, <2>8, <2>9, <2>10, <2>11
  <1>5. CASE NoBits(e)
    <2>1. ~ InHex(e)  BY <1>3, <1>5 DEF InHex, NoBits
    <2>2. WordOf(e) = <<Wild>>  BY <1>5, <2>1 DEF WordOf
    <2>3. WordOf(e) \in Seq(Char) /\ WordOf(e) # <<>>  BY <1>2, <2>2
    <2>4. ~ All(e)  BY <1>3, <1>5, BitSplit DEF NoBits, All, Full
    <2>5. WellFormed(WordOf(e))  BY <2>2 DEF WellFormed
    <2> QED  BY <1>5, <2>1, <2>2, <2>3, <2>4, <2>5
  <1>6. CASE ~ InHex(e) /\ ~ NoBits(e)
    <2>1. WordOf(e) = [k \in 1 .. 8 |-> Digit(8 - k, e)]  BY <1>6 DEF WordOf
    <2>2. \A k \in 1 .. 8 : Digit(8 - k, e) \in {Wild, 0, 1}  BY DEF Digit
    <2>3. \A k \in 1 .. 8 : Digit(8 - k, e) \in Char  BY <1>2, <2>2
    <2>4. WordOf(e) \in Seq(Char) /\ Len(WordOf(e)) = 8 /\ WordOf(e) # <<>>
      <3>1. WordOf(e) \in [1 .. 8 -> Char]  BY <2>1, <2>3
      <3>2. 8 \in Nat  OBVIOUS
      <3>3. WordOf(e) \in Seq(Char) /\ Len(WordOf(e)) = 8  BY <3>1, <3>2, FunctionIsSeq, ZenonT(60)
      <3>4. 8 # 0 /\ Len(<<>>) = 0  OBVIOUS
      <3> QED  BY <3>3, <3>4, Zenon
    <2>5. WellFormed(WordOf(e))
      <3>1. \A k \in 1 .. 8 : WordOf(e)[k] \in {Wild, 0, 1}  BY <2>1, <2>2
      <3> QED  BY <2>4, <3>1, Zenon DEF WellFormed
    <2>6. ~ All(e)  BY <1>6, BitSplit DEF All, Full, InHex
    <2> QED  BY <1>6, <2>4, <2>5, <2>6
  <1> QED  BY <1>4, <1>5, <1>6

\* What a word says.
Meaning(w) == IF Len(w) = 1 THEN Nothing ELSE ParseElement(w)

\* A printed element that is parsed again asks for no more than it did, and for
\* no less unless one nibble has a full mask and the other only a part of it.
LEMMA PrintedMeaning ==
  ASSUME NEW e \in ElementSet, e.value \subseteq e.mask, NEW f, f = Meaning(WordOf(e))
  PROVE  /\ f.mask \subseteq e.mask
         /\ f.value = e.value \cap f.mask
         /\ \/ \A n \in Nibbles : n \cap e.mask # n
            \/ \A n \in Nibbles : n \cap e.mask \in {{}, n}
            => f = e
  <1>1. e.value \subseteq Bit /\ e.mask \subseteq Bit /\ e = [value |-> e.value, mask |-> e.mask]
    BY DEF ElementSet
  <1>2. f \in ElementSet /\ f.mask \subseteq Bit /\ f.value \subseteq Bit
        /\ f = [value |-> f.value, mask |-> f.mask]
    BY ParsedElement, NothingFacts DEF Meaning, ElementSet
  <1>3. PICK w : w = WordOf(e)  OBVIOUS
  <1>4. w \in Seq(Char)  BY <1>3, PrintedWord
  <1>5. Len(w) \in {2, 8} => Legal(w) /\ f = ParseElement(w)
    <2>1. WellFormed(w)  BY <1>3, PrintedWord
    <2>2. Len(w) \in {2, 8} => Len(w) # 1  OBVIOUS
    <2> QED  BY <1>3, <1>4, <2>1, <2>2, LegalIsWellFormed DEF Meaning
  <1>6. CASE InHex(e)
    <2>1. PICK h, l : /\ h = IF HighBits \subseteq e.mask THEN Nibble({b \in Bit : b + 4 \in e.value}) ELSE Wild
                      /\ l = IF LowBits \subseteq e.mask THEN Nibble(e.value \cap LowBits) ELSE Wild
      OBVIOUS
    <2>2. w = <<h, l>>  BY <1>3, <1>6, <2>1, Zenon DEF WordOf
    <2>3. Len(w) = 2 /\ w[1] = h /\ w[2] = l  BY <2>2
    <2>4. Legal(w) /\ f = ParseElement(w)  BY <1>5, <2>3
    <2>5. /\ \A i \in LowBits : /\ i \in f.mask <=> l # Wild
                                /\ i \in f.value <=> l # Wild /\ i \in Bits(l)
          /\ \A i \in HighBits : /\ i \in f.mask <=> h # Wild
                                 /\ i \in f.value <=> h # Wild /\ i - 4 \in Bits(h)
      BY <1>4, <2>3, <2>4, HexWord
    <2>6. PICK H : H = {b \in Bit : b + 4 \in e.value}  OBVIOUS
    <2>7. H \in SUBSET LowBits /\ \A i \in HighBits : i - 4 \in H <=> i \in e.value
      <3>1. \A b \in Bit : b + 4 \in Bit => b \in LowBits  BY DEF Bit, LowBits
      <3>2. H \in SUBSET LowBits  BY <1>1, <2>6, <3>1
      <3>3. \A i \in HighBits : i - 4 \in Bit /\ i - 4 + 4 = i  BY DEF HighBits, Bit
      <3>4. ASSUME NEW i \in HighBits PROVE i - 4 \in H <=> i \in e.value
        <4>1. PICK j : j = i - 4  OBVIOUS
        <4>2. j \in Bit /\ j + 4 = i  BY <4>1 DEF HighBits, Bit
        <4>3. j \in H <=> i \in e.value  BY <2>6, <4>2
        <4> QED  BY <4>1, <4>3
      <3> QED  BY <3>2, <3>4
    <2>8. Wild \notin 0 .. 15  BY DEF Wild
    <2>9. /\ h # Wild <=> HighBits \subseteq e.mask
          /\ h # Wild => Bits(h) = H
      <3>1. Nibble(H) \in 0 .. 15 /\ Bits(Nibble(H)) = H  BY <2>7, NibbleFacts
      <3>2. h = IF HighBits \subseteq e.mask THEN Nibble(H) ELSE Wild  BY <2>1, <2>6, Zenon
      <3> QED  BY <2>8, <3>1, <3>2, Zenon
    <2>10. /\ l # Wild <=> LowBits \subseteq e.mask
           /\ l # Wild => Bits(l) = e.value \cap LowBits
      <3>1. e.value \cap LowBits \in SUBSET LowBits  OBVIOUS
      <3>2. Nibble(e.value \cap LowBits) \in 0 .. 15
            /\ Bits(Nibble(e.value \cap LowBits)) = e.value \cap LowBits
        BY <3>1, NibbleFacts
      <3> QED  BY <2>1, <2>8, <3>2, Zenon
    <2>11. \A i \in LowBits : /\ i \in f.mask <=> LowBits \subseteq e.mask
                              /\ i \in f.value <=> LowBits \subseteq e.mask /\ i \in e.value
      BY <2>5, <2>10
    <2>12. \A i \in HighBits : /\ i \in f.mask <=> HighBits \subseteq e.mask
                               /\ i \in f.value <=> HighBits \subseteq e.mask /\ i \in e.value
      BY <2>5, <2>7, <2>9
    <2>13. f.mask \subseteq e.mask
      <3> SUFFICES ASSUME NEW i \in f.mask PROVE i \in e.mask  OBVIOUS
      <3>1. i \in LowBits \/ i \in HighBits  BY <1>2, BitSplit
      <3> QED  BY <2>11, <2>12, <3>1
    <2>14. f.value = e.value \cap f.mask
      <3>1. ASSUME NEW i \in Bit PROVE i \in f.value <=> i \in e.value /\ i \in f.mask
        <4>1. i \in LowBits \/ i \in HighBits  BY BitSplit
        <4> QED  BY <2>11, <2>12, <4>1
      <3> QED  BY <1>1, <1>2, <3>1
    <2>15. ASSUME \/ \A n \in Nibbles : n \cap e.mask # n
                  \/ \A n \in Nibbles : n \cap e.mask \in {{}, n}
           PROVE  f = e
      <3>1. ~ \A n \in Nibbles : n \cap e.mask # n  BY <1>6 DEF InHex, Nibbles
      <3>2. /\ LowBits \subseteq e.mask \/ LowBits \cap e.mask = {}
            /\ HighBits \subseteq e.mask \/ HighBits \cap e.mask = {}
        BY <2>15, <3>1 DEF Nibbles
      <3>3. ASSUME NEW i \in Bit PROVE i \in f.mask <=> i \in e.mask
        <4>1. i \in LowBits \/ i \in HighBits  BY BitSplit
        <4> QED  BY <2>11, <2>12, <3>2, <4>1
      <3>4. f.mask = e.mask  BY <1>1, <1>2, <3>3
      <3>5. f.value = e.value  BY <2>14, <3>4
      <3> QED  BY <1>1, <1>2, <3>4, <3>5, Zenon
    <2> QED  BY <2>13, <2>14, <2>15
  <1>7. CASE NoBits(e)
    <2>1. w = <<Wild>>  BY <1>3, <1>7, PrintedWord
    <2>2. f = Nothing  BY <1>3, <2>1 DEF Meaning
    <2>3. f.value = {} /\ f.mask = {}  BY <2>2 DEF Nothing, ElementOf
    <2>4. e.value = {} /\ e.mask = {}  BY <1>7 DEF NoBits
    <2>5. f = e  BY <1>1, <1>2, <2>3, <2>4, Zenon
    <2> QED  BY <2>3, <2>4, <2>5
  <1>8. CASE ~ InHex(e) /\ ~ NoBits(e)
    <2>1. w = [k \in 1 .. 8 |-> Digit(8 - k, e)]  BY <1>3, <1>8 DEF WordOf
    <2>2. Len(w) = 8  BY <1>3, <1>8, PrintedWord
    <2>3. Legal(w) /\ f = ParseElement(w)  BY <1>5, <2>2
    <2>4. \A k \in 1 .. 8 : /\ 8 - k \in f.mask <=> w[k] # Wild
                            /\ 8 - k \in f.value <=> w[k] = 1
      BY <1>4, <2>2, <2>3, BinaryWord
    <2>5. Wild # 0 /\ Wild # 1  BY DEF Wild
    <2>6. ASSUME NEW k \in 1 .. 8
          PROVE  /\ w[k] # Wild <=> 8 - k \in e.mask
                 /\ w[k] = 1 <=> 8 - k \in e.mask /\ 8 - k \in e.value
      <3>1. w[k] = Digit(8 - k, e)  BY <2>1
      <3> QED  BY <2>5, <3>1 DEF Digit
    <2>7. ASSUME NEW i \in Bit
          PROVE  /\ i \in f.mask <=> i \in e.mask
                 /\ i \in f.value <=> i \in e.mask /\ i \in e.value
      BY <2>4, <2>6, BitSplit, Zenon
    <2>8. f.mask = e.mask /\ f.value = e.value  BY <1>1, <1>2, <2>7
    <2>9. f = e  BY <1>1, <1>2, <2>8, Zenon
    <2> QED  BY <2>8, <2>9
  <1> QED  BY <1>6, <1>7, <1>8

-----------------------------------------------------------------------------
(* The words of a text and their number *)

\* Those of the first k words that yield an element.
Among(t, k) == {j \in 1 .. k : t[j] # <<>>}

LEMMA AmongFacts ==
  ASSUME NEW t, NEW k \in Nat
  PROVE  /\ IsFiniteSet(Among(t, k))
         /\ Cardinality(Among(t, k)) \in Nat
         /\ (\A j \in 1 .. k : t[j] # <<>>) => Cardinality(Among(t, k)) = k
         /\ (\A j \in 1 .. k : t[j] = <<>>) => Cardinality(Among(t, k)) = 0
  <1>1. IsFiniteSet(1 .. k) /\ Cardinality(1 .. k) = k
    <2>1. 1 \in Int /\ k \in Int /\ (IF 1 > k THEN 0 ELSE k - 1 + 1) = k  OBVIOUS
    <2> QED  BY <2>1, FS_Interval
  <1>2. Among(t, k) \in SUBSET (1 .. k)  BY DEF Among
  <1>3. IsFiniteSet(Among(t, k))  BY <1>1, <1>2, FS_Subset
  <1>4. Cardinality(Among(t, k)) \in Nat  BY <1>3, FS_CardinalityType
  <1>5. (\A j \in 1 .. k : t[j] # <<>>) => Among(t, k) = 1 .. k  BY DEF Among
  <1>6. (\A j \in 1 .. k : t[j] = <<>>) => Among(t, k) = {}  BY DEF Among
  <1> QED  BY <1>1, <1>3, <1>4, <1>5, <1>6, FS_EmptySet, Zenon

\* One word more yields one element more, unless it is empty.
LEMMA AmongStep ==
  ASSUME NEW t, NEW k \in Nat
  PROVE  Cardinality(Among(t, k + 1))
           = IF t[k + 1] # <<>> THEN Cardinality(Among(t, k)) + 1 ELSE Cardinality(Among(t, k))
  <1>1. IsFiniteSet(Among(t, k))  BY AmongFacts
  <1>2. k + 1 \notin Among(t, k)  BY DEF Among
  <1>3. CASE t[k + 1] # <<>>
    <2>1. Among(t, k + 1) = Among(t, k) \cup {k + 1}
      <3>1. \A j : j \in 1 .. k + 1 <=> j \in 1 .. k \/ j = k + 1  OBVIOUS
      <3> QED  BY <1>3, <3>1 DEF Among
    <2> QED  BY <1>1, <1>2, <1>3, <2>1, FS_AddElement
  <1>4. CASE t[k + 1] = <<>>
    <2>1. Among(t, k + 1) = Among(t, k)
      <3>1. \A j : j \in 1 .. k + 1 <=> j \in 1 .. k \/ j = k + 1  OBVIOUS
      <3> QED  BY <1>4, <3>1 DEF Among
    <2> QED  BY <1>4, <2>1, Zenon
  <1> QED  BY <1>3, <1>4

\* The element of a word has a place of its own among those of the words up to it.
LEMMA AmongGrows ==
  ASSUME NEW t, NEW j \in Nat, NEW k \in Nat, j <= k
  PROVE  /\ Cardinality(Among(t, j)) <= Cardinality(Among(t, k))
         /\ j > 0 /\ t[j] # <<>> => Cardinality(Among(t, j)) > 0
  <1>1. IsFiniteSet(Among(t, k)) /\ IsFiniteSet(Among(t, j))  BY AmongFacts
  <1>2. Among(t, j) \in SUBSET Among(t, k)  BY DEF Among
  <1>3. Cardinality(Among(t, j)) <= Cardinality(Among(t, k))  BY <1>1, <1>2, FS_Subset
  <1>4. ASSUME j > 0, t[j] # <<>> PROVE Cardinality(Among(t, j)) > 0
    <2>1. j \in Among(t, j)  BY <1>4 DEF Among
    <2>2. Cardinality(Among(t, j)) # 0  BY <1>1, <2>1, FS_EmptySet
    <2>3. Cardinality(Among(t, j)) \in Nat  BY AmongFacts
    <2> QED  BY <2>2, <2>3
  <1> QED  BY <1>3, <1>4

\* The characters of a text, up to each of its words.
Lengths(t, L, n) ==
  /\ n \in [0 .. L -> Nat]
  /\ n[0] = 0
  /\ \A k \in 1 .. L : n[k] = n[k - 1] + (IF k = 1 THEN 0 ELSE 1) + Len(t[k])
  /\ SizeOf(t) = n[L]

LEMMA SizeSteps ==
  ASSUME NEW t, NEW L \in Nat, Len(t) = L, \A k \in 1 .. L : Len(t[k]) \in Nat
  PROVE  \E n : Lengths(t, L, n)
  <1> DEFINE n[k \in 0 .. Len(t)] ==
               IF k = 0 THEN 0 ELSE n[k - 1] + (IF k = 1 THEN 0 ELSE 1) + Len(t[k])
             round == [k \in 1 .. L |-> [v \in Nat |-> v + (IF k = 1 THEN 0 ELSE 1) + Len(t[k])]]
  <1>1. SizeOf(t) = n[Len(t)]  BY DEF SizeOf
  <1>2. /\ round \in [1 .. L -> [Nat -> Nat]]
        /\ \A k \in 1 .. L, v \in Nat : round[k][v] = v + (IF k = 1 THEN 0 ELSE 1) + Len(t[k])
    <2>1. ASSUME NEW k \in 1 .. L, NEW v \in Nat
          PROVE  v + (IF k = 1 THEN 0 ELSE 1) + Len(t[k]) \in Nat
      <3>1. PICK c \in Nat : c = Len(t[k])  OBVIOUS
      <3>2. v + (IF k = 1 THEN 0 ELSE 1) + c \in Nat  OBVIOUS
      <3> QED  BY <3>1, <3>2
    <2> QED  BY <2>1
  <1> HIDE DEF round
  <1>3. PICK f : /\ f \in [0 .. L -> Nat] /\ f[0] = 0
                 /\ \A k \in 1 .. L : f[k] = round[k][f[k - 1]]
    <2>1. 0 \in Nat  OBVIOUS
    <2>2. \E f : Runs(Nat, 0, round, L, f)  BY <1>2, <2>1, Rounds
    <2> QED  BY <2>2, Zenon DEF Runs
  <1>4. ASSUME NEW k \in 0 .. L
        PROVE  f[k] = IF k = 0 THEN 0 ELSE f[k - 1] + (IF k = 1 THEN 0 ELSE 1) + Len(t[k])
    <2>1. CASE k = 0  BY <1>3, <2>1
    <2>2. CASE k # 0
      <3>1. k \in 1 .. L /\ f[k - 1] \in Nat  BY <1>3, <2>2
      <3>2. round[k][f[k - 1]] = f[k - 1] + (IF k = 1 THEN 0 ELSE 1) + Len(t[k])
        BY <1>2, <3>1, Zenon
      <3>3. f[k] = round[k][f[k - 1]]  BY <1>3, <3>1
      <3> QED  BY <2>2, <3>2, <3>3, Zenon
    <2> QED  BY <2>1, <2>2
  <1>5. f = [k \in 0 .. Len(t) |->
               IF k = 0 THEN 0 ELSE f[k - 1] + (IF k = 1 THEN 0 ELSE 1) + Len(t[k])]
    <2>1. f = [k \in 0 .. L |-> f[k]]  BY <1>3
    <2>2. [k \in 0 .. L |-> f[k]]
            = [k \in 0 .. L |->
                 IF k = 0 THEN 0 ELSE f[k - 1] + (IF k = 1 THEN 0 ELSE 1) + Len(t[k])]
      BY <1>4, Zenon
    <2> QED  BY <2>1, <2>2
  <1>6. n = [k \in 0 .. Len(t) |->
               IF k = 0 THEN 0 ELSE n[k - 1] + (IF k = 1 THEN 0 ELSE 1) + Len(t[k])]
    BY <1>5, Zenon
  <1>7. PICK m : m = n  OBVIOUS
  <1> HIDE DEF n
  <1>8. m = [k \in 0 .. L |->
               IF k = 0 THEN 0 ELSE m[k - 1] + (IF k = 1 THEN 0 ELSE 1) + Len(t[k])]
    BY <1>6, <1>7
  <1>9. 0 \in 0 .. L /\ \A k \in 1 .. L : k \in 0 .. L /\ k # 0  OBVIOUS
  <1>10. /\ DOMAIN m = 0 .. L /\ m[0] = 0
         /\ \A k \in 1 .. L : m[k] = m[k - 1] + (IF k = 1 THEN 0 ELSE 1) + Len(t[k])
    BY <1>8, <1>9, Zenon
  <1>11. SizeOf(t) = m[L]  BY <1>1, <1>7
  <1>12. m \in [0 .. L -> Nat]
    <2> DEFINE Bad == {k \in 0 .. L : m[k] \notin Nat}
    <2>1. SUFFICES ASSUME Bad # {} PROVE FALSE
      <3>1. \A k \in 0 .. L : m[k] \in Nat  BY <2>1
      <3>2. m = [k \in 0 .. L |-> m[k]]  BY <1>8, <1>10, Zenon
      <3> QED  BY <3>1, <3>2
    <2>2. Bad \in SUBSET Nat  OBVIOUS
    <2>3. PICK k \in Bad : \A y \in Bad : k <= y
      <3> HIDE DEF Bad
      <3> QED  BY <2>1, <2>2, LeastElement
    <2>4. k # 0  BY <1>10
    <2>5. k \in 1 .. L /\ k - 1 \in 0 .. L /\ ~ (k <= k - 1)  BY <2>4
    <2>6. m[k - 1] \in Nat  BY <2>3, <2>5
    <2>7. PICK a \in Nat, c \in Nat : a = m[k - 1] /\ c = Len(t[k])  BY <2>5, <2>6
    <2>8. m[k] = a + (IF k = 1 THEN 0 ELSE 1) + c  BY <1>10, <2>5, <2>7, Zenon
    <2>9. m[k] \in Nat  BY <2>8
    <2> QED  BY <2>3, <2>9
  <1>13. Lengths(t, L, m)  BY <1>10, <1>11, <1>12, Zenon DEF Lengths
  <1> QED  BY <1>13

\* Every element takes a character, and a space before it unless it is the first.
LEMMA SizeBound ==
  ASSUME NEW t \in Seq(Seq(Char))
  PROVE  /\ SizeOf(t) \in Nat
         /\ \A k \in 0 .. Len(t) : 2 * Cardinality(Among(t, k)) <= SizeOf(t) + 1
  <1>1. PICK L \in Nat : L = Len(t)  OBVIOUS
  <1>2. \A k \in 1 .. L : t[k] \in Seq(Char)  BY <1>1
  <1>3. \A k \in 1 .. L : Len(t[k]) \in Nat /\ (t[k] # <<>> => Len(t[k]) > 0)
    <2> TAKE k \in 1 .. L
    <2>1. t[k] \in Seq(Char)  BY <1>2
    <2> QED  BY <2>1
  <1>4. PICK n : Lengths(t, L, n)  BY <1>1, <1>3, SizeSteps
  <1>5. /\ n \in [0 .. L -> Nat] /\ n[0] = 0 /\ SizeOf(t) = n[L]
        /\ \A k \in 1 .. L : n[k] = n[k - 1] + (IF k = 1 THEN 0 ELSE 1) + Len(t[k])
    BY <1>4, Zenon DEF Lengths
  <1>6. PICK c : c = [k \in 0 .. L |-> Cardinality(Among(t, k))]  OBVIOUS
  <1>7. /\ c \in [0 .. L -> Nat]
        /\ c[0] = 0
        /\ \A k \in 1 .. L : c[k] = IF t[k] # <<>> THEN c[k - 1] + 1 ELSE c[k - 1]
        /\ \A k \in 0 .. L : c[k] <= c[L]
    <2>1. \A k \in 0 .. L : Cardinality(Among(t, k)) \in Nat  BY AmongFacts
    <2>2. Cardinality(Among(t, 0)) = 0
      <3>1. \A j \in 1 .. 0 : t[j] = <<>>  OBVIOUS
      <3>2. 0 \in Nat  OBVIOUS
      <3> QED  BY <3>1, <3>2, AmongFacts, Zenon
    <2>3. ASSUME NEW k \in 1 .. L
          PROVE  c[k] = IF t[k] # <<>> THEN c[k - 1] + 1 ELSE c[k - 1]
      <3>1. PICK j \in Nat : j = k - 1  OBVIOUS
      <3>2. j + 1 = k /\ j \in 0 .. L /\ k \in 0 .. L  BY <3>1
      <3>3. c[k] = Cardinality(Among(t, k)) /\ c[j] = Cardinality(Among(t, j))  BY <1>6, <3>2
      <3>4. Cardinality(Among(t, k))
              = IF t[k] # <<>> THEN Cardinality(Among(t, j)) + 1 ELSE Cardinality(Among(t, j))
        BY <3>2, AmongStep, Zenon
      <3> QED  BY <3>1, <3>3, <3>4, Zenon
    <2>4. ASSUME NEW k \in 0 .. L PROVE c[k] <= c[L]
      <3>1. k \in Nat /\ k <= L /\ L \in 0 .. L  OBVIOUS
      <3> QED  BY <1>6, <3>1, AmongGrows
    <2>5. c \in [0 .. L -> Nat]  BY <1>6, <2>1
    <2>6. c[0] = 0  BY <1>6, <2>2
    <2> QED  BY <2>3, <2>4, <2>5, <2>6
  <1>8. \A k \in 0 .. L : 2 * c[k] <= n[k] + 1
    <2> DEFINE Bad == {k \in 0 .. L : ~ (2 * c[k] <= n[k] + 1)}
    <2>1. SUFFICES ASSUME Bad # {} PROVE FALSE  OBVIOUS
    <2>2. Bad \in SUBSET Nat  OBVIOUS
    <2>3. PICK k \in Bad : \A y \in Bad : k <= y
      <3> HIDE DEF Bad
      <3> QED  BY <2>1, <2>2, LeastElement
    <2>4. k # 0  BY <1>5, <1>7
    <2>5. k \in 1 .. L /\ k - 1 \in 0 .. L /\ ~ (k <= k - 1)  BY <2>4
    <2>6. 2 * c[k - 1] <= n[k - 1] + 1  BY <2>3, <2>5
    <2>7. PICK a \in Nat, b \in Nat, l \in Nat : a = n[k - 1] /\ b = c[k - 1] /\ l = Len(t[k])
      BY <1>3, <1>5, <1>7, <2>5
    <2>8. n[k] = a + (IF k = 1 THEN 0 ELSE 1) + l  BY <1>5, <2>5, <2>7, Zenon
    <2>9. c[k] = IF t[k] # <<>> THEN b + 1 ELSE b  BY <1>7, <2>5, <2>7, Zenon
    <2>10. t[k] # <<>> => l > 0  BY <1>3, <2>5, <2>7
    <2>11. k = 1 => a = 0 /\ b = 0  BY <1>5, <1>7, <2>7
    <2>12. 2 * b <= a + 1  BY <2>6, <2>7
    <2>13. 2 * c[k] <= n[k] + 1
      <3>1. CASE t[k] # <<>>  BY <2>8, <2>9, <2>10, <2>11, <2>12, <3>1
      <3>2. CASE t[k] = <<>>  BY <2>8, <2>9, <2>11, <2>12, <3>2
      <3> QED  BY <3>1, <3>2
    <2> QED  BY <2>3, <2>13
  <1>9. SizeOf(t) \in Nat  BY <1>5
  <1>10. ASSUME NEW k \in 0 .. L PROVE 2 * Cardinality(Among(t, k)) <= SizeOf(t) + 1
    <2>1. L \in 0 .. L  OBVIOUS
    <2>2. 2 * c[L] <= n[L] + 1 /\ c[k] <= c[L]  BY <1>7, <1>8, <2>1
    <2>3. c[k] \in Nat /\ c[L] \in Nat /\ n[L] \in Nat  BY <1>5, <1>7, <2>1
    <2>4. 2 * c[k] <= n[L] + 1  BY <2>2, <2>3
    <2> QED  BY <1>5, <1>6, <2>4
  <1> QED  BY <1>1, <1>9, <1>10

-----------------------------------------------------------------------------
(* What holds while a text is parsed *)

\* What has been written of the first w words of t, and the flag.
Written(t, w, sig, c) ==
  /\ Len(sig) = Cardinality(Among(t, w))
  /\ \A k \in 1 .. w : /\ WellFormed(t[k])
                       /\ t[k] # <<>> => sig[Cardinality(Among(t, k))] = Meaning(t[k])
  /\ c <=> \E k \in 1 .. w : Exact(t[k])

\* A signature that may be printed and parsed again.
Printable(sig) ==
  /\ sig \in Seq(ElementSet)
  /\ \A k \in DOMAIN sig : sig[k].value \subseteq sig[k].mask
  /\ \E k \in DOMAIN sig : All(sig[k])

Typed ==
  /\ text \in Seq(Seq(Char))
  /\ size \in Nat
  /\ word \in 0 .. Len(text)
  /\ containsByte \in BOOLEAN
  /\ status \in Errors \cup {"none", "parsing", "success"}
  /\ printed \in Seq(ElementSet)

Parsed == status = "parsing" \/ text # <<>> => Written(text, word, elements, containsByte)

Judged ==
  /\ status = "none" => text = <<>> /\ printed = <<>>
  /\ status = "success" /\ text # <<>> => word = Len(text) /\ containsByte
  /\ status \in Errors /\ text # <<>> =>
       \/ \E k \in DOMAIN text : ~ WellFormed(text[k])
       \/ word = Len(text) /\ ~ containsByte

Sized == status = "parsing" => size = SizeOf(text)

Reprinted ==
  printed # <<>> =>
    /\ status \in {"parsing", "success"}
    /\ text = TextOf(printed)
    /\ Printable(printed)

ParseInv == Typed /\ Parsed /\ Judged /\ Sized /\ Reprinted

\* An empty word is taken: nothing is written for it.
LEMMA WrittenEmpty ==
  ASSUME NEW t, NEW w \in Nat, NEW sig, NEW c \in BOOLEAN, Written(t, w, sig, c), t[w + 1] = <<>>
  PROVE  Written(t, w + 1, sig, c)
  <1>1. Cardinality(Among(t, w + 1)) = Cardinality(Among(t, w))  BY AmongStep, Zenon
  <1>2. \A k \in 1 .. w + 1 : k \in 1 .. w \/ k = w + 1  OBVIOUS
  <1>3. \A k \in 1 .. w : k \in 1 .. w + 1  OBVIOUS
  <1>4. WellFormed(t[w + 1])  BY Zenon DEF WellFormed
  <1>5. ~ Exact(t[w + 1])
    <2>1. Len(<<>>) = 0 /\ 0 \notin {2, 8}  OBVIOUS
    <2> QED  BY <2>1, Zenon DEF Exact
  <1>6. Len(sig) = Cardinality(Among(t, w + 1))  BY <1>1, Zenon DEF Written
  <1>7. \A k \in 1 .. w + 1 : /\ WellFormed(t[k])
                              /\ t[k] # <<>> => sig[Cardinality(Among(t, k))] = Meaning(t[k])
    BY <1>2, <1>4, Zenon DEF Written
  <1>8. c <=> \E k \in 1 .. w + 1 : Exact(t[k])
    BY <1>2, <1>3, <1>5, Zenon DEF Written
  <1> QED  BY <1>6, <1>7, <1>8, Zenon DEF Written

\* A well formed word is taken: the element it means is written after the others.
LEMMA WrittenMore ==
  ASSUME NEW t, NEW w \in Nat, NEW sig \in Seq(ElementSet), NEW c \in BOOLEAN, NEW d \in BOOLEAN,
         Written(t, w, sig, c), t[w + 1] # <<>>, WellFormed(t[w + 1]),
         Meaning(t[w + 1]) \in ElementSet, d <=> c \/ Exact(t[w + 1])
  PROVE  Written(t, w + 1, Append(sig, Meaning(t[w + 1])), d)
  <1>1. PICK n \in Nat : n = Len(sig)  OBVIOUS
  <1>2. PICK e \in ElementSet : e = Meaning(t[w + 1])  OBVIOUS
  <1>3. PICK more : more = Append(sig, e)  OBVIOUS
  <1>4. /\ Len(more) = n + 1 /\ more[n + 1] = e
        /\ \A k \in 1 .. n : more[k] = sig[k]
    BY <1>1, <1>3
  <1>5. Cardinality(Among(t, w)) = n  BY <1>1, Zenon DEF Written
  <1>6. Cardinality(Among(t, w + 1)) = n + 1  BY <1>5, AmongStep, Zenon
  <1>7. \A k \in 1 .. w + 1 : k \in 1 .. w \/ k = w + 1  OBVIOUS
  <1>8. \A k \in 1 .. w : k \in 1 .. w + 1  OBVIOUS
  <1>9. ASSUME NEW k \in 1 .. w, t[k] # <<>>
        PROVE  more[Cardinality(Among(t, k))] = Meaning(t[k])
    <2>1. k \in Nat /\ k <= w /\ k > 0  OBVIOUS
    <2>2. Cardinality(Among(t, k)) \in Nat  BY <2>1, AmongFacts
    <2>3. Cardinality(Among(t, k)) <= n /\ Cardinality(Among(t, k)) > 0
      BY <1>5, <1>9, <2>1, AmongGrows
    <2>4. Cardinality(Among(t, k)) \in 1 .. n  BY <2>2, <2>3
    <2>5. sig[Cardinality(Among(t, k))] = Meaning(t[k])  BY <1>9, Zenon DEF Written
    <2> QED  BY <1>4, <2>4, <2>5, Zenon
  <1>10. \A k \in 1 .. w + 1 : /\ WellFormed(t[k])
                               /\ t[k] # <<>> => more[Cardinality(Among(t, k))] = Meaning(t[k])
    <2>1. \A k \in 1 .. w : WellFormed(t[k])  BY Zenon DEF Written
    <2>2. more[Cardinality(Among(t, w + 1))] = Meaning(t[w + 1])  BY <1>2, <1>4, <1>6, Zenon
    <2> QED  BY <1>7, <1>9, <2>1, <2>2, Zenon
  <1>11. d <=> \E k \in 1 .. w + 1 : Exact(t[k])
    <2>1. c <=> \E k \in 1 .. w : Exact(t[k])  BY Zenon DEF Written
    <2>2. w + 1 \in 1 .. w + 1  OBVIOUS
    <2> QED  BY <1>7, <1>8, <2>1, <2>2, Zenon
  <1>12. Written(t, w + 1, more, d)  BY <1>4, <1>6, <1>10, <1>11, Zenon DEF Written
  <1> QED  BY <1>2, <1>3, <1>12, Zenon

\* A text is taken up, its own or a printed one.
LEMMA StartParses ==
  ASSUME NEW t \in Seq(Seq(Char)), Start(t), printed' \in Seq(ElementSet),
         printed' # <<>> => t = TextOf(printed') /\ Printable(printed')
  PROVE  ParseInv'
  <1>1. /\ text' = t /\ size' = SizeOf(t) /\ word' = 0 /\ elements' = <<>>
        /\ containsByte' = FALSE /\ status' = "parsing"
    BY DEF Start
  <1>2. Typed'
    <2>1. SizeOf(t) \in Nat  BY SizeBound
    <2>2. 0 \in 0 .. Len(t)  OBVIOUS
    <2> QED  BY <1>1, <2>1, <2>2 DEF Typed
  <1>3. Parsed'
    <2>1. Cardinality(Among(t, 0)) = 0
      <3>1. 0 \in Nat /\ \A j \in 1 .. 0 : t[j] = <<>>  OBVIOUS
      <3> QED  BY <3>1, AmongFacts, Zenon
    <2>2. Len(<<>>) = 0 /\ \A k : k \notin 1 .. 0  OBVIOUS
    <2>3. Written(t, 0, <<>>, FALSE)  BY <2>1, <2>2, Zenon DEF Written
    <2>4. Written(text', word', elements', containsByte')  BY <1>1, <2>3, Zenon
    <2> QED  BY <2>4, Zenon DEF Parsed
  <1>4. Judged' /\ Sized'
    BY <1>1 DEF Judged, Sized, Errors
  <1>5. Reprinted'  BY <1>1, Zenon DEF Reprinted
  <1> QED  BY <1>2, <1>3, <1>4, <1>5, Zenon DEF ParseInv

\* A word is wrong: parsing ends at it.
LEMMA FailParses ==
  ASSUME ParseInv, NEW error \in Errors, Fail(error), HasWord, ~ WellFormed(Current)
  PROVE  ParseInv'
  <1>1. /\ status' = error /\ text' = text /\ size' = size /\ word' = word
        /\ elements' = elements /\ containsByte' = containsByte /\ printed' = printed
    BY DEF Fail
  <1>2. status = "parsing" /\ word < Len(text)  BY DEF HasWord, Parsing
  <1>3. word + 1 \in DOMAIN text  BY <1>2 DEF ParseInv, Typed
  <1>4. ~ WellFormed(text[word + 1])  BY Zenon DEF Current
  <1>5. printed = <<>>
    <2> SUFFICES ASSUME printed # <<>> PROVE FALSE  OBVIOUS
    <2>1. text = TextOf(printed) /\ Printable(printed)  BY DEF ParseInv, Reprinted
    <2>2. DOMAIN text = DOMAIN printed  BY <2>1 DEF TextOf
    <2>3. text[word + 1] = WordOf(printed[word + 1])  BY <1>3, <2>1, <2>2 DEF TextOf
    <2>4. printed[word + 1] \in ElementSet
          /\ printed[word + 1].value \subseteq printed[word + 1].mask
      <3>1. word + 1 \in 1 .. Len(printed) /\ word + 1 \in DOMAIN printed
        BY <1>3, <2>1, <2>2 DEF Printable
      <3> QED  BY <2>1, <3>1, ElementOfSeq DEF Printable
    <2> QED  BY <1>4, <2>3, <2>4, PrintedWord
  <1>6. status' # "parsing" /\ status' # "success" /\ status' # "none"  BY <1>1 DEF Errors
  <1>7. Typed'  BY <1>1 DEF ParseInv, Typed
  <1>8. Parsed'
    <2>1. Written(text, word, elements, containsByte)  BY <1>2, Zenon DEF ParseInv, Parsed
    <2> QED  BY <1>1, <2>1, Zenon DEF Parsed
  <1>9. Judged'  BY <1>1, <1>3, <1>4, <1>6, Zenon DEF Judged
  <1>10. Sized' /\ Reprinted'  BY <1>1, <1>5, <1>6, Zenon DEF Sized, Reprinted
  <1> QED  BY <1>7, <1>8, <1>9, <1>10, Zenon DEF ParseInv

\* A word is taken, and what it says is written.
LEMMA TakeParses ==
  ASSUME ParseInv, HasWord, word' = word + 1, UNCHANGED <<text, size, status, printed>>,
         containsByte' \in BOOLEAN, Written(text, word + 1, elements', containsByte')
  PROVE  ParseInv'
  <1>1. text' = text /\ size' = size /\ status' = status /\ printed' = printed  OBVIOUS
  <1>2. status = "parsing" /\ word < Len(text)  BY DEF HasWord, Parsing
  <1>3. word + 1 \in 0 .. Len(text)  BY <1>2 DEF ParseInv, Typed
  <1>4. Typed'  BY <1>1, <1>3 DEF ParseInv, Typed
  <1>5. Parsed'
    <2>1. Written(text', word', elements', containsByte')  BY <1>1, Zenon
    <2> QED  BY <2>1, Zenon DEF Parsed
  <1>6. Judged'  BY <1>1, <1>2 DEF Judged, Errors
  <1>7. Sized' /\ Reprinted'  BY <1>1, Zenon DEF ParseInv, Sized, Reprinted
  <1> QED  BY <1>4, <1>5, <1>6, <1>7, Zenon DEF ParseInv

LEMMA WordParses ==
  ASSUME IInv, ParseInv, ParseWord
  PROVE  ParseInv'
  <1>1. HasWord /\ status = "parsing" /\ word < Len(text)
    BY DEF ParseWord, EmptyWord, Wildcard, ExpectedWildcard, Masked, ElementParseError,
           InvalidTokenLength, HasWord, Parsing
  <1>2. PICK w : w = text[word + 1]  OBVIOUS
  <1>3. Current = w  BY <1>2, Zenon DEF Current
  <1>4. w \in Seq(Char) /\ word \in Nat
    BY <1>1, <1>2 DEF ParseInv, Typed
  <1>5. Written(text, word, elements, containsByte) /\ containsByte \in BOOLEAN
        /\ elements \in Seq(ElementSet)
    BY <1>1, Zenon DEF ParseInv, Parsed, Typed, IInv
  <1>6. CASE EmptyWord
    <2>1. /\ word' = word + 1 /\ UNCHANGED <<text, size, status, printed>>
          /\ elements' = elements /\ containsByte' = containsByte /\ Len(w) = 0
      BY <1>3, <1>6 DEF EmptyWord
    <2>2. w = <<>>  BY <1>4, <2>1
    <2>3. Written(text, word + 1, elements, containsByte)
      BY <1>2, <1>4, <1>5, <2>2, WrittenEmpty, Zenon
    <2>4. Written(text, word + 1, elements', containsByte')  BY <2>1, <2>3, Zenon
    <2>5. containsByte' \in BOOLEAN  BY <1>5, <2>1
    <2> QED  BY <1>1, <2>1, <2>4, <2>5, TakeParses
  <1>7. CASE Wildcard
    <2>1. /\ word' = word + 1 /\ UNCHANGED <<text, size, status, printed>>
          /\ elements' = Append(elements, Nothing) /\ containsByte' = containsByte
          /\ w = <<Wild>> /\ Len(w) = 1
      BY <1>3, <1>7 DEF Wildcard, Emit
    <2>2. Meaning(w) = Nothing  BY <2>1, Zenon DEF Meaning
    <2>3. w # <<>> /\ WellFormed(w) /\ ~ Exact(w)
      <3>1. Len(w) \notin {2, 8}  BY <2>1
      <3>2. ~ Exact(w)  BY <3>1, Zenon DEF Exact
      <3>3. w # <<>>  BY <2>1
      <3>4. WellFormed(w)  BY <2>1 DEF WellFormed
      <3> QED  BY <3>2, <3>3, <3>4
    <2>4. Meaning(w) \in ElementSet  BY <2>2, NothingFacts
    <2>5. containsByte <=> containsByte \/ Exact(w)  BY <2>3
    <2>6. Written(text, word + 1, Append(elements, Meaning(w)), containsByte)
      BY <1>2, <1>4, <1>5, <2>3, <2>4, <2>5, WrittenMore, Zenon
    <2>7. Written(text, word + 1, elements', containsByte')  BY <2>1, <2>2, <2>6, Zenon
    <2>8. containsByte' \in BOOLEAN  BY <1>5, <2>1
    <2> QED  BY <1>1, <2>1, <2>7, <2>8, TakeParses
  <1>8. CASE Masked
    <2>1. /\ word' = word + 1 /\ UNCHANGED <<text, size, status, printed>>
          /\ elements' = Append(elements, ParseElement(w))
          /\ containsByte' = (containsByte \/ All(ParseElement(w)))
          /\ Len(w) \in {2, 8} /\ Legal(w)
      BY <1>3, <1>8, Zenon DEF Masked, Emit
    <2>2. Len(w) # 1 /\ Len(w) # 0
      <3>1. \A n \in {2, 8} : n # 1 /\ n # 0  OBVIOUS
      <3> QED  BY <2>1, <3>1, Zenon
    <2>3. Meaning(w) = ParseElement(w)  BY <2>2, Zenon DEF Meaning
    <2>4. w # <<>>
      <3>1. Len(<<>>) = 0  OBVIOUS
      <3> QED  BY <2>2, <3>1, Zenon
    <2>5. WellFormed(w)  BY <1>4, <2>1, LegalIsWellFormed
    <2>6. Meaning(w) \in ElementSet  BY <2>3, ParsedElement, Zenon
    <2>7. containsByte' \in BOOLEAN
      <3>1. All(ParseElement(w)) \in BOOLEAN  BY DEF All
      <3> QED  BY <1>5, <2>1, <3>1
    <2>8. containsByte' <=> containsByte \/ Exact(w)
      <3>1. All(ParseElement(w)) <=> Exact(w)  BY <1>4, <2>1, AllIsExact
      <3> QED  BY <2>1, <3>1, Zenon
    <2>9. Written(text, word + 1, Append(elements, Meaning(w)), containsByte')
      BY <1>2, <1>4, <1>5, <2>4, <2>5, <2>6, <2>7, <2>8, WrittenMore, Zenon
    <2>10. Written(text, word + 1, elements', containsByte')  BY <2>1, <2>3, <2>9, Zenon
    <2> QED  BY <1>1, <2>1, <2>7, <2>10, TakeParses
  <1>9. CASE ExpectedWildcard
    <2>1. Fail("expected_wildcard") /\ Len(w) = 1 /\ w # <<Wild>>
      BY <1>3, <1>9, Zenon DEF ExpectedWildcard
    <2>2. "expected_wildcard" \in Errors  BY DEF Errors
    <2>3. ~ WellFormed(w)  BY <2>1 DEF WellFormed
    <2> QED  BY <1>1, <1>3, <2>1, <2>2, <2>3, FailParses
  <1>10. CASE ElementParseError
    <2>1. Fail("element_parse_error") /\ Len(w) \in {2, 8} /\ ~ Legal(w)
      BY <1>3, <1>10, Zenon DEF ElementParseError
    <2>2. "element_parse_error" \in Errors  BY DEF Errors
    <2>3. ~ WellFormed(w)  BY <1>4, <2>1, LegalIsWellFormed
    <2> QED  BY <1>1, <1>3, <2>1, <2>2, <2>3, FailParses
  <1>11. CASE InvalidTokenLength
    <2>1. Fail("invalid_token_length") /\ Len(w) \notin {0, 1, 2, 8}
      BY <1>3, <1>11, Zenon DEF InvalidTokenLength
    <2>2. "invalid_token_length" \in Errors  BY DEF Errors
    <2>3. ~ WellFormed(w)
      <3>1. Len(<<>>) = 0 /\ Len(<<Wild>>) = 1  OBVIOUS
      <3>2. Len(w) # 0 /\ Len(w) # 1 /\ Len(w) # 2 /\ Len(w) # 8  BY <2>1
      <3>3. w # <<>> /\ w # <<Wild>>  BY <3>1, <3>2, Zenon
      <3> QED  BY <3>2, <3>3, Zenon DEF WellFormed
    <2> QED  BY <1>1, <1>3, <2>1, <2>2, <2>3, FailParses
  <1> QED  BY <1>6, <1>7, <1>8, <1>9, <1>10, <1>11 DEF ParseWord

\* The end of the text: the flag decides, and a text that was printed has set it.
LEMMA FinishParses ==
  ASSUME IInv, ParseInv, Finish
  PROVE  ParseInv'
  <1>1. /\ status = "parsing" /\ word = Len(text)
        /\ text' = text /\ size' = size /\ word' = word /\ elements' = elements
        /\ containsByte' = containsByte /\ printed' = printed
        /\ status' = IF elements = <<>> THEN "empty_signature"
                     ELSE IF ~ containsByte THEN "missing_masked_byte" ELSE "success"
    BY DEF Finish, Parsing
  <1>2. Written(text, word, elements, containsByte)  BY <1>1, Zenon DEF ParseInv, Parsed
  <1>3. containsByte => elements # <<>>  BY <1>1 DEF IInv, Remembered
  <1>4. /\ containsByte => status' = "success"
        /\ ~ containsByte => status' \in {"empty_signature", "missing_masked_byte"}
    BY <1>1, <1>3
  <1>5. status' \in Errors \cup {"success"}  BY <1>4 DEF Errors
  <1>6. Typed'  BY <1>1, <1>5 DEF ParseInv, Typed
  <1>7. Parsed'
    <2>1. Written(text', word', elements', containsByte')  BY <1>1, <1>2, Zenon
    <2> QED  BY <2>1, Zenon DEF Parsed
  <1>8. status' # "none" /\ status' # "parsing"  BY <1>5 DEF Errors
  <1>9. Judged'
    <2>1. status' = "success" => containsByte  BY <1>4
    <2>2. status' \in Errors => ~ containsByte  BY <1>4 DEF Errors
    <2> QED  BY <1>1, <1>8, <2>1, <2>2, Zenon DEF Judged
  <1>10. Sized'  BY <1>8, Zenon DEF Sized
  <1>11. Reprinted'
    <2> SUFFICES ASSUME printed # <<>>
                 PROVE  /\ status' \in {"parsing", "success"}
                        /\ text = TextOf(printed) /\ Printable(printed)
      BY <1>1, Zenon DEF Reprinted
    <2>1. text = TextOf(printed) /\ Printable(printed)  BY DEF ParseInv, Reprinted
    <2>2. DOMAIN text = DOMAIN printed /\ DOMAIN text = 1 .. word
      <3>1. DOMAIN text = DOMAIN printed  BY <2>1 DEF TextOf
      <3>2. DOMAIN text = 1 .. Len(text)  BY DEF ParseInv, Typed
      <3> QED  BY <1>1, <3>1, <3>2, Zenon
    <2>3. PICK k \in DOMAIN printed : All(printed[k])  BY <2>1, Zenon DEF Printable
    <2>4. printed[k] \in ElementSet /\ printed[k].value \subseteq printed[k].mask
      BY <2>1 DEF Printable
    <2>5. text[k] = WordOf(printed[k])  BY <2>1 DEF TextOf
    <2>6. Exact(text[k])  BY <2>3, <2>4, <2>5, PrintedWord
    <2>7. containsByte  BY <1>2, <2>2, <2>6, Zenon DEF Written
    <2> QED  BY <1>4, <2>1, <2>7
  <1> QED  BY <1>6, <1>7, <1>9, <1>10, <1>11, Zenon DEF ParseInv

\* A signature that is built without a text.
LEMMA BuiltParses ==
  ASSUME ParseInv, status = "none", status' \in Errors \cup {"success"},
         UNCHANGED <<text, size, word, containsByte, printed>>
  PROVE  ParseInv'
  <1>1. text = <<>> /\ printed = <<>>  BY DEF ParseInv, Judged
  <1>2. /\ text' = text /\ size' = size /\ word' = word
        /\ containsByte' = containsByte /\ printed' = printed
    OBVIOUS
  <1>3. status' # "none" /\ status' # "parsing"  BY DEF Errors
  <1>4. Typed'  BY <1>2 DEF ParseInv, Typed
  <1> QED  BY <1>1, <1>2, <1>3, <1>4, Zenon DEF ParseInv, Parsed, Judged, Sized, Reprinted

\* A signature is printed, and what was printed is parsed.
LEMMA ReparseParses ==
  ASSUME IInv, ParseInv, Reparse
  PROVE  ParseInv'
  <1>1. /\ status = "success" /\ Start(TextOf(elements)) /\ printed' = elements
    BY DEF Reparse
  <1>2. Printable(elements)  BY <1>1 DEF IInv, Tidy, Scannable, Printable
  <1>3. \A k \in DOMAIN elements : WordOf(elements[k]) \in Seq(Char)
    BY <1>2, PrintedWord DEF Printable
  <1>4. TextOf(elements) \in Seq(Seq(Char))
    <2>1. PICK n \in Nat : DOMAIN elements = 1 .. n  BY DEF IInv
    <2>2. TextOf(elements) \in [1 .. n -> Seq(Char)]  BY <1>3, <2>1 DEF TextOf
    <2> QED  BY <2>1, <2>2, FunctionIsSeq
  <1>5. printed' \in Seq(ElementSet)  BY <1>1 DEF IInv
  <1>6. TextOf(elements) = TextOf(printed') /\ Printable(printed')  BY <1>1, <1>2, Zenon
  <1> QED  BY <1>1, <1>4, <1>5, <1>6, StartParses

LEMMA InitParseInv == Init => ParseInv
  <1> SUFFICES ASSUME Init PROVE ParseInv  OBVIOUS
  <1>1. /\ text = <<>> /\ size = 0 /\ word = 0 /\ containsByte = FALSE /\ status = "none"
        /\ printed = <<>>
    BY DEF Init
  <1>2. Typed
    <2>1. \A S : <<>> \in Seq(S)  BY EmptySeq, Zenon
    <2>2. Len(<<>>) = 0 /\ 0 \in Nat /\ 0 \in 0 .. 0  OBVIOUS
    <2>3. size \in Nat /\ word \in 0 .. Len(text)  BY <1>1, <2>2, Zenon
    <2>4. containsByte \in BOOLEAN  BY <1>1
    <2>5. status \in Errors \cup {"none", "parsing", "success"}  BY <1>1
    <2> QED  BY <1>1, <2>1, <2>3, <2>4, <2>5, Zenon DEF Typed
  <1>3. Parsed  BY <1>1 DEF Parsed
  <1>4. Judged  BY <1>1 DEF Judged, Errors
  <1>5. Sized /\ Reprinted  BY <1>1 DEF Sized, Reprinted
  <1> QED  BY <1>2, <1>3, <1>4, <1>5, Zenon DEF ParseInv

LEMMA NextParseInv == IInv /\ ParseInv /\ [Next]_vars => ParseInv'
  <1> SUFFICES ASSUME IInv, ParseInv, [Next]_vars PROVE ParseInv'  OBVIOUS
  <1>1. ASSUME NEW t \in Texts, Parse(t) PROVE ParseInv'
    <2>1. t \in Seq(Seq(Char))  BY SignatureAssumption
    <2>2. status = "none" /\ Start(t) /\ printed' = printed  BY <1>1 DEF Parse
    <2>3. printed' = <<>> /\ printed' \in Seq(ElementSet)  BY <2>2 DEF ParseInv, Judged, Typed
    <2> QED  BY <2>1, <2>2, <2>3, StartParses
  <1>2. CASE ParseWord  BY <1>2, WordParses
  <1>3. CASE Finish  BY <1>3, FinishParses
  <1>4. CASE Reparse  BY <1>4, ReparseParses
  <1>5. ASSUME NEW bytes, Whole(bytes) PROVE ParseInv'
    <2>1. /\ status = "none" /\ UNCHANGED <<text, size, word, containsByte, printed>>
          /\ status' \in {"empty_signature", "success"}
      BY <1>5 DEF Whole
    <2>2. status' \in Errors \cup {"success"}  BY <2>1 DEF Errors
    <2> QED  BY <2>1, <2>2, BuiltParses
  <1>6. ASSUME NEW bytes \in Raws, NEW masks \in [DOMAIN bytes -> Masks],
               CreateSignature(bytes, masks)
        PROVE  ParseInv'
    <2>1. /\ status = "none" /\ UNCHANGED <<text, size, word, containsByte, printed>>
          /\ status' \in {"empty_signature", "success", "missing_masked_byte"}
      BY <1>6 DEF CreateSignature
    <2>2. status' \in Errors \cup {"success"}  BY <2>1 DEF Errors
    <2> QED  BY <2>1, <2>2, BuiltParses
  <1>7. CASE UNCHANGED vars
    <2>1. /\ text' = text /\ size' = size /\ word' = word /\ elements' = elements
          /\ containsByte' = containsByte /\ status' = status /\ printed' = printed
      BY <1>7 DEF vars
    <2> QED  BY <2>1 DEF ParseInv, Typed, Parsed, Judged, Sized, Reprinted
  <1> QED  BY <1>1, <1>2, <1>3, <1>4, <1>5, <1>6, <1>7 DEF Next, BytesToSignature, StringToSignature

LEMMA SignatureInvariant == Spec => [](IInv /\ ParseInv)
  <1> QED  BY InitIInv, NextIInv, InitParseInv, NextParseInv, PTL DEF Spec

-----------------------------------------------------------------------------
\* Every variable has its type, for every set of texts and bytes.
THEOREM TypeCorrect == Spec => []TypeOK
  <1>1. ASSUME IInv, ParseInv PROVE TypeOK
    <2>1. elements \in Seq(ElementSet) /\ Tidy  BY <1>1 DEF IInv
    <2>2. \A k \in DOMAIN elements : IsElement(elements[k])
      <3> TAKE k \in DOMAIN elements
      <3>1. elements[k] \in ElementSet  BY <2>1
      <3>2. elements[k].value \subseteq elements[k].mask  BY <2>1, Zenon DEF Tidy
      <3> QED  BY <3>1, <3>2, Zenon DEF IsElement, ElementSet
    <2>3. Typed  BY <1>1 DEF ParseInv
    <2> QED  BY <2>1, <2>2, <2>3, Zenon DEF Typed, TypeOK, ElementSet
  <1> QED  BY SignatureInvariant, <1>1, PTL

\* What each word of a text says is what the element written for it is equal to,
\* byte by byte, and nothing is written for what lies between.
THEOREM ElementsDenote == Spec => []Denotes
  <1>1. ASSUME IInv, ParseInv PROVE Denotes
    <2> SUFFICES ASSUME text # <<>>
                 PROVE  /\ Len(elements) = Yield(word)
                        /\ \A k \in 1 .. word, b \in Byte :
                             text[k] # <<>> => (Equals(elements[Yield(k)], b) <=> StandsFor(text[k], b))
      BY Zenon DEF Denotes
    <2>1. Written(text, word, elements, containsByte)  BY <1>1, Zenon DEF ParseInv, Parsed
    <2>2. \A k : Yield(k) = Cardinality(Among(text, k))  BY Zenon DEF Yield, Among
    <2>3. ASSUME NEW k \in 1 .. word, NEW b \in Byte, text[k] # <<>>
          PROVE  Equals(elements[Yield(k)], b) <=> StandsFor(text[k], b)
      <3>1. PICK w : w = text[k]  OBVIOUS
      <3>2. WellFormed(w) /\ elements[Yield(k)] = Meaning(w) /\ w # <<>>
        BY <2>1, <2>2, <2>3, <3>1, Zenon DEF Written
      <3>3. w \in Seq(Char)
        <4>1. k \in 1 .. Len(text)  BY <1>1 DEF ParseInv, Typed
        <4> QED  BY <1>1, <3>1, <4>1, ElementOfSeq DEF ParseInv, Typed
      <3>4. w = <<Wild>> \/ Len(w) = 2 \/ Len(w) = 8  BY <3>2, Zenon DEF WellFormed
      <3>5. CASE w = <<Wild>>
        <4>1. Len(w) = 1  BY <3>5
        <4>2. Meaning(w) = Nothing /\ StandsFor(w, b)  BY <4>1 DEF Meaning, StandsFor
        <4>3. Equals(Nothing, b)  BY DEF Equals, Nothing, ElementOf
        <4> QED  BY <3>1, <3>2, <4>2, <4>3, Zenon
      <3>6. CASE Len(w) = 2 \/ Len(w) = 8
        <4>1. Len(w) \in {2, 8} /\ Len(w) # 1  BY <3>6
        <4>2. Legal(w)  BY <3>2, <3>3, <4>1, LegalIsWellFormed
        <4>3. Meaning(w) = ParseElement(w)  BY <4>1, Zenon DEF Meaning
        <4>4. Equals(ParseElement(w), b) <=> StandsFor(w, b)
          BY <3>3, <4>1, <4>2, MeansWhatItSays
        <4> QED  BY <3>1, <3>2, <4>3, <4>4, Zenon
      <3> QED  BY <3>4, <3>5, <3>6
    <2>4. Len(elements) = Yield(word)  BY <2>1, <2>2, Zenon DEF Written
    <2> QED  BY <2>3, <2>4
  <1> QED  BY SignatureInvariant, <1>1, PTL

\* A text is accepted if all its words are well formed and one is exact, and in no
\* other case, however far the parser came before it failed.
THEOREM AcceptanceIsExact == Spec => []AcceptsExactly
  <1>1. ASSUME IInv, ParseInv PROVE AcceptsExactly
    <2> SUFFICES ASSUME text # <<>>, status \notin {"none", "parsing"}
                 PROVE  status = "success" <=> /\ \A k \in DOMAIN text : WellFormed(text[k])
                                               /\ \E k \in DOMAIN text : Exact(text[k])
      BY Zenon DEF AcceptsExactly
    <2>1. Written(text, word, elements, containsByte)  BY <1>1, Zenon DEF ParseInv, Parsed
    <2>2. DOMAIN text = 1 .. Len(text)  BY <1>1 DEF ParseInv, Typed
    <2>3. CASE status = "success"
      <3>1. word = Len(text) /\ containsByte  BY <1>1, <2>3, Zenon DEF ParseInv, Judged
      <3> QED  BY <2>1, <2>2, <2>3, <3>1, Zenon DEF Written
    <2>4. CASE status # "success"
      <3>1. status \in Errors  BY <1>1, <2>4 DEF ParseInv, Typed
      <3>2. \/ \E k \in DOMAIN text : ~ WellFormed(text[k])
            \/ word = Len(text) /\ ~ containsByte
        BY <1>1, <3>1, Zenon DEF ParseInv, Judged
      <3> QED  BY <2>1, <2>2, <2>4, <3>2, Zenon DEF Written
    <2> QED  BY <2>3, <2>4
  <1> QED  BY SignatureInvariant, <1>1, PTL

\* The array compile_signature parses into is never too small.
THEOREM CompiledFits == Spec => []FitsCompiled
  <1>1. ASSUME IInv, ParseInv PROVE FitsCompiled
    <2> SUFFICES ASSUME status = "parsing" PROVE Len(elements) <= (size \div 2) + 1
      BY DEF FitsCompiled
    <2>1. Written(text, word, elements, containsByte) /\ size = SizeOf(text)
          /\ text \in Seq(Seq(Char)) /\ word \in 0 .. Len(text)
      BY <1>1, Zenon DEF ParseInv, Parsed, Sized, Typed
    <2>2. Len(elements) = Cardinality(Among(text, word))  BY <2>1, Zenon DEF Written
    <2>3. size \in Nat /\ 2 * Cardinality(Among(text, word)) <= size + 1
      BY <2>1, SizeBound
    <2>4. Len(elements) \in Nat  BY <1>1 DEF IInv
    <2>5. 2 * Len(elements) <= size + 1  BY <2>2, <2>3
    <2> QED  BY <2>3, <2>4, <2>5
  <1> QED  BY SignatureInvariant, <1>1, PTL

\* Any signature that was accepted can be printed and parsed, and comes back as
\* itself, or without the part of a nibble that hex cannot show.
THEOREM PrintingSurvived == Spec => []SurvivesPrinting
  <1>1. ASSUME IInv, ParseInv PROVE SurvivesPrinting
    <2>1. printed # <<>> => status \in {"parsing", "success"}
      BY <1>1, Zenon DEF ParseInv, Reprinted
    <2>2. ASSUME printed # <<>>, status = "success"
          PROVE  /\ Len(elements) = Len(printed)
                 /\ \A k \in DOMAIN printed :
                      /\ elements[k].mask \subseteq printed[k].mask
                      /\ elements[k].value = printed[k].value \cap elements[k].mask
                      /\ \/ \A n \in Nibbles : n \cap printed[k].mask # n
                         \/ \A n \in Nibbles : n \cap printed[k].mask \in {{}, n}
                         => elements[k] = printed[k]
      <3>1. text = TextOf(printed) /\ Printable(printed)
        BY <1>1, <2>2, Zenon DEF ParseInv, Reprinted
      <3>2. PICK L \in Nat : L = Len(printed) /\ DOMAIN printed = 1 .. L  BY <3>1 DEF Printable
      <3>3. DOMAIN text = 1 .. L /\ \A k \in 1 .. L : text[k] = WordOf(printed[k])
        BY <3>1, <3>2 DEF TextOf
      <3>4. \A k \in 1 .. L : /\ printed[k] \in ElementSet
                              /\ printed[k].value \subseteq printed[k].mask
        BY <3>1, <3>2 DEF Printable
      <3>5. \A k \in 1 .. L : text[k] # <<>>  BY <3>3, <3>4, PrintedWord
      <3>6. text # <<>> /\ Len(text) = L
        <4>1. L # 0  BY <2>2, <3>1, <3>2 DEF Printable
        <4>2. text \in [1 .. L -> Seq(Char)]
          <5>1. \A k \in 1 .. L : text[k] \in Seq(Char)  BY <3>3, <3>4, PrintedWord
          <5>2. text = [k \in 1 .. L |-> text[k]]  BY <3>1, <3>2 DEF TextOf
          <5> QED  BY <5>1, <5>2
        <4>3. Len(text) = L  BY <4>2, FunctionIsSeq
        <4>4. Len(<<>>) = 0  OBVIOUS
        <4> QED  BY <4>1, <4>3, <4>4, Zenon
      <3>7. word = L  BY <1>1, <2>2, <3>6, Zenon DEF ParseInv, Judged
      <3>8. Written(text, L, elements, containsByte)
        BY <1>1, <3>6, <3>7, Zenon DEF ParseInv, Parsed
      <3>9. ASSUME NEW k \in 0 .. L PROVE Cardinality(Among(text, k)) = k
        <4>1. k \in Nat /\ \A j \in 1 .. k : j \in 1 .. L  OBVIOUS
        <4> QED  BY <3>5, <4>1, AmongFacts, Zenon
      <3>10. Len(elements) = L
        <4>1. L \in 0 .. L  OBVIOUS
        <4> QED  BY <3>8, <3>9, <4>1, Zenon DEF Written
      <3>11. ASSUME NEW k \in 1 .. L PROVE elements[k] = Meaning(WordOf(printed[k]))
        <4>1. k \in 0 .. L  OBVIOUS
        <4>2. elements[Cardinality(Among(text, k))] = Meaning(text[k])
          BY <3>5, <3>8, Zenon DEF Written
        <4> QED  BY <3>3, <3>9, <4>1, <4>2, Zenon
      <3>12. ASSUME NEW k \in 1 .. L
             PROVE  /\ elements[k].mask \subseteq printed[k].mask
                    /\ elements[k].value = printed[k].value \cap elements[k].mask
                    /\ \/ \A n \in Nibbles : n \cap printed[k].mask # n
                       \/ \A n \in Nibbles : n \cap printed[k].mask \in {{}, n}
                       => elements[k] = printed[k]
        <4>1. PICK e \in ElementSet : e = printed[k]  BY <3>4
        <4> DEFINE f == elements[k]
        <4>2. e.value \subseteq e.mask /\ f = Meaning(WordOf(e))  BY <3>4, <3>11, <4>1
        <4> HIDE DEF f
        <4>3. /\ f.mask \subseteq e.mask
              /\ f.value = e.value \cap f.mask
              /\ \/ \A n \in Nibbles : n \cap e.mask # n
                 \/ \A n \in Nibbles : n \cap e.mask \in {{}, n}
                 => f = e
          BY <4>2, PrintedMeaning
        <4> QED  BY <4>1, <4>3, Zenon DEF f
      <3> QED  BY <3>2, <3>10, <3>12, Zenon
    <2> QED  BY <2>1, <2>2, Zenon DEF SurvivesPrinting
  <1> QED  BY SignatureInvariant, <1>1, PTL
=============================================================================
