---------------------------- MODULE HeaderParsers ----------------------------
(***************************************************************************)
(* The header-field parser of the three implementations, one byte at a     *)
(* time.  A chunked decoder embeds it for its trailers: C and Rust feed a  *)
(* header parser of their own byte by byte, Go collects the line itself    *)
(* and asks addHeader about it.                                            *)
(***************************************************************************)
EXTENDS Octets

VARIABLES hstate,    \* "incomplete", "complete" or "invalid"
          hline,     \* bytes of the field line being collected
          hpending,  \* a CR was the last byte (pending_cr)
          fields     \* the fields parsed so far, in order

hvars == <<hstate, hline, hpending, fields>>

Upper == <<"A", "B", "C", "D", "E", "F", "H">>
Lower == <<"a", "b", "c", "d", "e", "f", "h">>
\* True of any string literal; the provers have to be told.
ASSUME LowerAssumption == ToSet(Lower) \subseteq STRING
AsciiLower(b) ==
  IF \E i \in DOMAIN Upper : Upper[i] = b
  THEN Lower[CHOOSE i \in DOMAIN Upper : Upper[i] = b] ELSE b

TrimOptionalWhitespace(s) ==
  LET kept == {i \in DOMAIN s : s[i] \notin OptionalWhitespace}
  IN  IF kept = {} THEN <<>> ELSE SubSeq(s, Min(kept), Max(kept))

\* Mutation: the name is kept as it was sent.
FieldAsSent(line, colon) ==
  [name  |-> SubSeq(line, 1, colon - 1),
   value |-> TrimOptionalWhitespace(SubSeq(line, colon + 1, Len(line)))]

Field(line, colon) ==
  [name  |-> [i \in 1 .. colon - 1 |-> AsciiLower(line[i])],
   value |-> TrimOptionalWhitespace(SubSeq(line, colon + 1, Len(line)))]

\* C and Go walk to the first ':' and give up at the first control byte.
ColonWalk(line) ==
  {c \in DOMAIN line : /\ line[c] = ":"
                       /\ \A i \in 1 .. c - 1 : line[i] \notin Control \cup {":"}}

\* parse_header_line: the fields the line adds, or {} for invalid syntax.
ParseHeaderLineC(line) ==
  IF line = <<>> THEN {}
  ELSE IF line[1] \in OptionalWhitespace THEN {}
  ELSE {Field(line, c) : c \in ColonWalk(line) \ {1}}

AddHeaderGo(line) ==
  IF line[1] \in OptionalWhitespace THEN {}
  ELSE {Field(line, c) : c \in ColonWalk(line) \ {1}}

\* Mutation: Rust looks for the last ':' instead of the first.
AddHeaderRustLast(line) ==
  LET colons == {c \in DOMAIN line : line[c] = ":"}
  IN  IF line[1] \in OptionalWhitespace \/ colons = {} THEN {}
      ELSE {Field(line, c) : c \in
              {d \in {Max(colons)} : /\ d # 1
                                     /\ \A i \in 1 .. d - 1 : line[i] \notin Control}}

\* Rust finds the ':' first and then looks for control bytes before it.
AddHeaderRust(line) ==
  LET colons == {c \in DOMAIN line : line[c] = ":"}
  IN  IF line[1] \in OptionalWhitespace \/ colons = {} THEN {}
      ELSE {Field(line, c) : c \in
              {d \in {Min(colons)} : /\ d # 1
                                     /\ \A i \in 1 .. d - 1 : line[i] \notin Control}}

HeaderInit == /\ hstate = "incomplete" /\ hline = <<>>
              /\ hpending = FALSE      /\ fields = <<>>

-----------------------------------------------------------------------------
(* One iteration of the feed loops, for a parser that is still incomplete. *)

FeedHeaderByte(b, Parse(_)) ==
  \/ /\ hpending /\ b # LF
     /\ hstate' = "invalid"
     /\ UNCHANGED <<hline, hpending, fields>>
  \/ /\ hpending /\ b = LF
     /\ hpending' = FALSE
     /\ \/ hline = <<>> /\ hstate' = "complete" /\ UNCHANGED <<hline, fields>>
        \/ /\ hline # <<>>
           /\ \/ Parse(hline) = {} /\ hstate' = "invalid" /\ UNCHANGED <<hline, fields>>
              \/ \E f \in Parse(hline) : /\ fields' = Append(fields, f)
                                         /\ hline' = <<>>
                                         /\ UNCHANGED hstate
  \/ /\ ~hpending /\ b = CR
     /\ hpending' = TRUE
     /\ UNCHANGED <<hstate, hline, fields>>
  \/ /\ ~hpending /\ b = LF
     /\ hstate' = "invalid"
     /\ UNCHANGED <<hline, hpending, fields>>
  \/ /\ ~hpending /\ b \notin {CR, LF}
     /\ hline' = Append(hline, b)
     /\ UNCHANGED <<hstate, hpending, fields>>

HeaderFeedC(b)    == FeedHeaderByte(b, ParseHeaderLineC)
HeaderFeedGo(b)   == FeedHeaderByte(b, AddHeaderGo)
HeaderFeedRust(b) == FeedHeaderByte(b, AddHeaderRust)

\* A realloc or malloc of the C parser fails: for the line buffer nothing
\* changes, for a finished field the pending CR is already consumed.
HeaderNoMemoryC(b) ==
  /\ \/ ~hpending /\ b \notin {CR, LF} /\ UNCHANGED hpending
     \/ /\ hpending /\ b = LF
        /\ ParseHeaderLineC(hline) # {}
        /\ hpending' = FALSE
  /\ UNCHANGED <<hstate, hline, fields>>
=============================================================================
