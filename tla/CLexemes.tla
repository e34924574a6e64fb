------------------------------- MODULE CLexemes -------------------------------
(***************************************************************************)
(* What C says of a text (C11 6.4): the next lexeme is the longest part    *)
(* that can be one.  White space, comments and headers to include leave    *)
(* nothing behind; a #define reaches to the first newline outside them.    *)
(* Nothing is promised where no lexeme of the subset 9cc reads begins.     *)
(***************************************************************************)
EXTENDS Integers, Sequences

CONSTANTS
  Keyword, Letter, Digit,   \* symbols of words and numbers
  Punctuator                \* sequences of symbols

VARIABLES
  text,        \* the input
  pos,         \* its next symbol
  directive,   \* how many #define lines are open
  lexemes,     \* the output, records of a class and a text
  ended        \* whether the end of the text has been reached

vars == <<text, pos, directive, lexemes, ended>>

Part(n) == SubSeq(text, pos, pos + n - 1)
Sizes == 1..Len(text) - pos + 1

Ahead(s) == s # <<>> /\ Len(s) \in Sizes /\ Part(Len(s)) = s
Between(s, i, j, c) == \E k \in i..j : s[k] = c

\* A symbol of s is escaped by a backslash before it that is not escaped.
Escaped(s, i) ==
  LET esc[k \in 1..i] == k > 1 /\ s[k - 1] = "\\" /\ ~esc[k - 1] IN esc[i]
Quoted(s, q) ==
  /\ Len(s) > 1 /\ s[1] = q /\ s[Len(s)] = q /\ ~Escaped(s, Len(s))
  /\ \A i \in 2..Len(s) - 1 : s[i] # "\n" /\ (s[i] = q => Escaped(s, i))

Word(s) == s[1] \notin Digit /\ \A i \in 1..Len(s) : s[i] \in Letter \cup Digit \cup Keyword
PpNumber(s) == s[1] \in Digit /\ \A i \in 1..Len(s) : s[i] \in Letter \cup Digit \cup Keyword
CharConstant(s) == Quoted(s, "'") /\ Len(s) = (IF s[2] = "\\" THEN 4 ELSE 3)

LineComment(s) ==
  Len(s) > 1 /\ s[1] = "/" /\ s[2] = "/" /\ ~Between(s, 3, Len(s), "\n")
BlockComment(s) ==
  LET Closes(i) == s[i] = "*" /\ s[i + 1] = "/"
  IN  /\ Len(s) > 3 /\ s[1] = "/" /\ s[2] = "*" /\ Closes(Len(s) - 1)
      /\ \A i \in 3..Len(s) - 2 : ~Closes(i)
Header(s) ==
  /\ Len(s) > 3 /\ s[1] = "#include" /\ s[2] = " "
  /\ <<s[3], s[Len(s)]>> \in {<<"\"", "\"">>, <<"<", ">">>}
  /\ ~Between(s, 4, Len(s) - 1, s[Len(s)]) /\ ~Between(s, 4, Len(s) - 1, "\n")

Skipped(s) == s \in {<<" ">>, <<"\n">>} \/ LineComment(s) \/ BlockComment(s) \/ Header(s)
IsLexeme(s) ==
  \/ Skipped(s) \/ Word(s) \/ PpNumber(s) \/ s \in Punctuator
  \/ Quoted(s, "\"") \/ CharConstant(s) \/ s = <<"#define", " ">>

\* Of the escape sequences the subset has \" in the middle of a string and
\* those that begin and end with other characters; numbers are decimal.  A
\* comment that is not closed is an error.
InSubset(s) ==
  /\ s[1] = "\"" => \A i \in 2..Len(s) - 2 :
       s[i] = "\\" /\ s[i + 1] = "\"" =>
         s[i - 1] # "\\" /\ i + 1 < Len(s) - 1 /\ s[i + 2] # "\\" /\ s[i + 2] # "\""
  /\ s[1] = "\"" => s[Len(s) - 1] # "\\"
  /\ s[1] = "'" => s[2] # "\\"
  /\ PpNumber(s) => \A i \in 1..Len(s) : s[i] \in Digit
  /\ s[1] = "#define" => directive = 0
  /\ s = <<"/">> => ~Ahead(<<"/", "*">>)

Longest(n) ==
  n \in Sizes /\ IsLexeme(Part(n)) /\ \A m \in Sizes : IsLexeme(Part(m)) => m <= n

Class(s) ==
  CASE Word(s) -> "WORD" [] PpNumber(s) -> "NUM" [] s[1] = "\"" -> "STR"
    [] s[1] = "'" -> "LT_CHAR" [] s[1] = "#define" -> "DEFINE" [] OTHER -> "RESERVED"

\* A literal stands for what its quotes enclose, a \" in it for a quote.
Meaning(s) ==
  IF s[1] \notin {"\"", "'"} THEN s
  ELSE LET in == SubSeq(s, 2, Len(s) - 1)
           m[i \in 0..Len(in)] ==
             IF i = 0 THEN <<>>
             ELSE IF i < Len(in) /\ in[i] = "\\" /\ in[i + 1] = "\"" THEN m[i - 1]
             ELSE Append(m[i - 1], in[i])
       IN  m[Len(in)]

Newline == directive > 0 /\ pos <= Len(text) /\ text[pos] = "\n"

Lexeme ==
  /\ ~Newline
  /\ \E n \in Sizes :
       /\ Longest(n) /\ InSubset(Part(n))
       /\ pos' = pos + n
       /\ lexemes' = IF Skipped(Part(n)) THEN lexemes
                     ELSE Append(lexemes, [class |-> Class(Part(n)), text |-> Meaning(Part(n))])
       /\ directive' = IF Part(n) = <<"#define", " ">> THEN directive + 1 ELSE directive
  /\ UNCHANGED ended

EndOfDefine ==
  /\ Newline
  /\ directive' = directive - 1
  /\ lexemes' = Append(lexemes, [class |-> "DEFINE_END", text |-> <<>>])
  /\ UNCHANGED <<pos, ended>>

End ==
  /\ pos = Len(text) + 1 /\ directive = 0 /\ ~ended
  /\ ended' = TRUE
  /\ lexemes' = Append(lexemes, [class |-> "EOF", text |-> <<>>])
  /\ UNCHANGED <<pos, directive>>

\* No lexeme of the subset begins at pos.
Undefined ==
  /\ pos \in 1..Len(text) /\ ~Newline
  /\ \A n \in Sizes : ~(Longest(n) /\ InSubset(Part(n)))

Init == pos = 1 /\ directive = 0 /\ lexemes = <<>> /\ ended = FALSE

Next == UNCHANGED text /\ (Lexeme \/ EndOfDefine \/ End \/ Undefined)

Spec == Init /\ [][Next]_vars
=============================================================================
