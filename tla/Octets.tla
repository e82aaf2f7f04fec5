------------------------------- MODULE Octets -------------------------------
(***************************************************************************)
(* The bytes the parsers look at, and the two number syntaxes of a framed  *)
(* HTTP/1.1 message: the hexadecimal chunk size and the decimal            *)
(* Content-Length, each as the C, the Go and the Rust code reads it.       *)
(*                                                                         *)
(* A byte is a one-character name.  SIZE_MAX stands for the largest value  *)
(* of C's size_t, Go's uint64 and Rust's usize, which have the same width. *)
(***************************************************************************)
EXTENDS Integers, SequencesExt

CONSTANT SIZE_MAX
ASSUME SizeMaxAssumption == SIZE_MAX \in Nat /\ SIZE_MAX >= 15

CR == "\r"
LF == "\n"
\* True of any string literal; the provers have to be told.
ASSUME LineEndAssumption == CR \in STRING /\ LF \in STRING
OptionalWhitespace == {" ", "\t"}
Control == OptionalWhitespace \cup {"NUL", "DEL"}  \* the bytes <= ' ', and 0x7f

Size  == 0 .. SIZE_MAX
GoInt == 0 .. SIZE_MAX \div 2      \* 0 .. ^uint(0)>>1, the non-negative ints
BAD   == -1                        \* what a failed parse returns

LowerHex == <<"0","1","2","3","4","5","6","7","8","9","a","b","c","d","e","f">>
UpperHex == [LowerHex EXCEPT ![11] = "A", ![12] = "B", ![13] = "C",
                             ![14] = "D", ![15] = "E", ![16] = "F"]
HexDigit == ToSet(LowerHex) \cup ToSet(UpperHex)
DecDigit == ToSet(SubSeq(LowerHex, 1, 10))
DigitValue(b) == CHOOSE v \in 0 .. 15 : b \in {LowerHex[v+1], UpperHex[v+1]}

\* Mutation: the test against SIZE_MAX is missing and the number wraps.
WrappingNumber(text, base, digits) ==
  FoldLeft(LAMBDA v, b :
             IF v = BAD \/ b \notin digits THEN BAD
             ELSE (v * base + DigitValue(b)) % (SIZE_MAX + 1),
           IF text = <<>> THEN BAD ELSE 0, text)

\* The digit loop of the C and of the Rust parsers: the test before the
\* multiplication keeps the accumulator inside the machine word.
CheckedNumber(text, base, digits) ==
  FoldLeft(LAMBDA v, b :
             IF v = BAD \/ b \notin digits THEN BAD
             ELSE IF v > (SIZE_MAX - DigitValue(b)) \div base THEN BAD
             ELSE v * base + DigitValue(b),
           IF text = <<>> THEN BAD ELSE 0, text)

\* The number a digit string denotes, with no word size: what strconv.ParseUint
\* compares with its bounds.
Number(text, base) ==
  FoldLeft(LAMBDA v, b : v * base + DigitValue(b), 0, text)

AllIn(text, digits) == text # <<>> /\ ToSet(text) \subseteq digits

\* strconv.ParseUint(text, base, 64)
ParseUint(text, base, digits) ==
  IF AllIn(text, digits) /\ Number(text, base) \in Size
  THEN Number(text, base) ELSE BAD

\* usize::from_str_radix(text, 16): one leading '+' is allowed before digits.
FromStrRadix(text) ==
  CheckedNumber(IF Len(text) > 1 /\ text[1] = "+" THEN Tail(text) ELSE text,
                16, HexDigit)

-----------------------------------------------------------------------------
(* Chunk sizes: the value of a size line, or BAD.                          *)

ParseChunkSizeC(line) == CheckedNumber(line, 16, HexDigit)

FinishChunkSizeGo(line) ==
  LET n == ParseUint(line, 16, HexDigit) IN IF n \in GoInt THEN n ELSE BAD

ParseChunkSizeRust(line) ==
  IF line = <<>> \/ ";" \in ToSet(line) THEN BAD ELSE FromStrRadix(line)

(* Content-Length values. *)

ParseContentLengthC(value) == CheckedNumber(value, 10, DecDigit)

ParseContentLengthGo(value) ==
  LET n == ParseUint(value, 10, DecDigit) IN IF n \in GoInt THEN n ELSE BAD

ParseContentLengthRust(value) ==
  IF AllIn(value, DecDigit) THEN CheckedNumber(value, 10, DecDigit) ELSE BAD
=============================================================================
