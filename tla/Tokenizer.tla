------------------------------- MODULE Tokenizer -------------------------------
(***************************************************************************)
(* tokenize() of tokenizer.c: one pass over the text of a file that        *)
(* appends a token for every rule that matches, one action per rule.       *)
(*                                                                         *)
(* A text is a sequence of symbols: a symbol is a character, or a keyword, *)
(* "#include" or "#define" as a whole, which stands for its letters.  One  *)
(* letter and one digit stand for all.  What a rule compares with the text *)
(* ahead of p is the sequence of symbols it needs.                         *)
(***************************************************************************)
EXTENDS Integers, Sequences

CONSTANTS
  Inputs,      \* the files
  MaxTokens    \* bound: tokens there is memory for

VARIABLES
  text,     \* the file, as read_file returns it
  p,        \* index of the next symbol; Len(text) + 1 is that of the NUL
  ends,     \* end_char of each active tokenize_until_end_char, innermost last
  tokens,   \* the list behind `head`
  mode      \* "run", or how tokenize() ended: "done", "error" (error_at),
            \* "overrun" (read behind the buffer), "exhausted" (calloc failed)

vars == <<text, p, ends, tokens, mode>>

NUL == "\\0"
NL == "\n"
Quote == "\""
Backslash == "\\"
Escape == <<Backslash, Quote>>
Letter == {"x"}
Digit == {"7"}

Keyword == {"typedef", "enum", "else", "int", "char", "bool", "void", "true", "false",
            "return", "sizeof", "for", "if", "while", "struct"}

\* The characters one of which has to follow a keyword.
Follows ==
  [w \in Keyword |->
     CASE w \in {"true", "false", "return"}          -> {" ", ";"}
       [] w \in {"sizeof", "for", "if", "while"}     -> {" ", "("}
       [] w = "struct"                               -> {" ", "{"}
       [] w = "void"                                 -> {" ", ")", "*"}
       [] OTHER                                      -> {" "}]
is_alnum == Letter \cup Digit \cup Keyword

Pairs == { <<"=", "=">>, <<"!", "=">>, <<"<", "=">>, <<">", "=">>,
           <<"&", "&">>, <<"|", "|">>, <<"-", ">">> }
Singles == {"!", ".", "+", "-", "*", "/", ")", "(", "<", ">", "=", ";", "{", "}",
            ",", "&", "[", "]", "%"}

\* read_file ends a file that does not end in a newline with one.
ASSUME TokenizerAssumption ==
  /\ MaxTokens \in Nat
  /\ \A t \in Inputs : t \in Seq(STRING) /\ t # <<>> /\ t[Len(t)] = NL

\* There is memory for a token per symbol of a file, and one more.
ASSUME MemoryAssumption == \A t \in Inputs : Len(t) < MaxTokens

-----------------------------------------------------------------------------
At(i) == IF i \in 1..Len(text) THEN text[i] ELSE NUL
startswith(i, s) == \A k \in 1..Len(s) : At(i + k - 1) = s[k]

\* The symbols from i up to j are all in S, and the one at j is not.
Run(i, j, S) == (\A k \in i..j - 1 : At(k) \in S) /\ At(j) \notin S
\* s begins at j, and nowhere from i up to j.
First(i, j, s) == startswith(j, s) /\ \A k \in i..j - 1 : ~startswith(k, s)

StringEnd_AnyBackslash(i) ==
  LET reached[j \in i..Len(text)] ==
        \/ j = i
        \/ j > i /\ reached[j - 1] /\ At(j - 1) # Quote /\ ~startswith(j - 1, <<Backslash>>)
        \/ j > i + 2 /\ reached[j - 3] /\ startswith(j - 3, <<Backslash>>)
  IN  { j \in i..Len(text) : At(j) = Quote /\ reached[j] }

\* Where the loop at line 274, which begins at i, finds the closing quote, if
\* inside the buffer: it goes on by one symbol, and by three at an escaped quote.
StringEnd(i) ==
  LET reached[j \in i..Len(text)] ==
        \/ j = i
        \/ j > i /\ reached[j - 1] /\ At(j - 1) # Quote /\ ~startswith(j - 1, Escape)
        \/ j > i + 2 /\ reached[j - 3] /\ startswith(j - 3, Escape)
  IN  { j \in i..Len(text) : At(j) = Quote /\ reached[j] }

Part(i, j) == SubSeq(text, i, j - 1)

\* The text from i up to j without the backslash of each \".
exclude_double_quote(i, j) ==
  LET str[k \in i - 1..j - 1] ==
        IF k = i - 1 THEN <<>>
        ELSE IF startswith(k, Escape) THEN str[k - 1]
        ELSE Append(str[k - 1], text[k])
  IN  str[j - 1]

\* A process that ends leaves its variables as the last step did.
Stop(how) == mode' = how /\ UNCHANGED <<p, ends, tokens>>

Skip(to) == p' = to /\ UNCHANGED <<ends, tokens, mode>>

\* new_token(), with p behind it and the active end_chars.
new_token(kind, str, to, ends_) ==
  IF Len(tokens) < MaxTokens
  THEN /\ tokens' = Append(tokens, [kind |-> kind, text |-> str])
       /\ p' = to /\ ends' = ends_
       /\ UNCHANGED mode
  ELSE Stop("exhausted")

AtEnd == At(p) = ends[Len(ends)]
Reading == mode = "run" /\ ~AtEnd /\ UNCHANGED text

Space_NoAdvance == Reading /\ At(p) \in {" ", NL} /\ Skip(p)

Space == Reading /\ At(p) \in {" ", NL} /\ Skip(p + 1)

Header(open, close) ==
  /\ Reading /\ startswith(p, <<"#include", " ", open>>)
  /\ \/ \E j \in p + 3..Len(text) : First(p + 3, j, <<close>>) /\ Skip(j + 1)
     \/ (\A j \in p + 3..Len(text) : At(j) # close) /\ Stop("overrun")
Include == Header(Quote, Quote) \/ Header("<", ">")

StartDefine ==
  /\ Reading /\ startswith(p, <<"#define", " ">>)
  /\ new_token("DEFINE", <<"#define", " ">>, p + 2, Append(ends, NL))

EndDefine_NoToken ==
  /\ mode = "run" /\ AtEnd /\ Len(ends) > 1 /\ UNCHANGED text
  /\ p' = p /\ ends' = SubSeq(ends, 1, Len(ends) - 1) /\ UNCHANGED <<tokens, mode>>

\* The newline is left to the caller.
EndDefine ==
  /\ mode = "run" /\ AtEnd /\ Len(ends) > 1 /\ UNCHANGED text
  /\ new_token("DEFINE_END", <<>>, p, SubSeq(ends, 1, Len(ends) - 1))

IsKeyword == At(p) \in Keyword /\ At(p + 1) \in Follows[At(p)]

KeywordToken == Reading /\ IsKeyword /\ new_token(At(p), <<At(p)>>, p + 1, ends)

IsComment == startswith(p, <<"/", "/">>) \/ startswith(p, <<"/", "*">>)
IsPair == \E s \in Pairs : startswith(p, s)

Pair == Reading /\ IsPair /\ new_token("RESERVED", <<At(p), At(p + 1)>>, p + 2, ends)

\* strchr also finds the NUL that ends the string it searches.
Single ==
  /\ Reading /\ ~IsPair /\ ~IsComment
  /\ At(p) \in Singles \cup {NUL}
  /\ new_token("RESERVED", <<At(p)>>, p + 1, ends)

LineComment_TakesNewline ==
  /\ Reading /\ startswith(p, <<"/", "/">>)
  /\ \E j \in p + 2..Len(text) : First(p + 2, j, <<NL>>) /\ Skip(j + 1)

LineComment ==
  /\ Reading /\ startswith(p, <<"/", "/">>)
  /\ \E j \in p + 2..Len(text) : First(p + 2, j, <<NL>>) /\ Skip(j)

BlockComment_FromStar ==
  /\ Reading /\ startswith(p, <<"/", "*">>)
  /\ \/ \E j \in p + 1..Len(text) : First(p + 1, j, <<"*", "/">>) /\ Skip(j + 2)
     \/ (\A j \in p + 1..Len(text) : ~startswith(j, <<"*", "/">>)) /\ Stop("error")

BlockComment ==
  /\ Reading /\ startswith(p, <<"/", "*">>)
  /\ \/ \E j \in p + 2..Len(text) : First(p + 2, j, <<"*", "/">>) /\ Skip(j + 2)
     \/ (\A j \in p + 2..Len(text) : ~startswith(j, <<"*", "/">>)) /\ Stop("error")

String ==
  /\ Reading /\ At(p) = Quote
  /\ \/ \E j \in StringEnd(p + 1) :
          new_token("STR", exclude_double_quote(p + 1, j), j + 1, ends)
     \/ StringEnd(p + 1) = {} /\ Stop("overrun")

CharLiteral_Unchecked ==
  Reading /\ At(p) = "'" /\ new_token("LT_CHAR", <<At(p + 1)>>, p + 3, ends)

CharLiteral ==
  /\ Reading /\ At(p) = "'"
  /\ IF At(p + 2) = "'" THEN new_token("LT_CHAR", <<At(p + 1)>>, p + 3, ends)
                        ELSE Stop("error")

Number ==
  /\ Reading /\ At(p) \in Digit
  /\ \E j \in p..Len(text) : Run(p, j, Digit) /\ new_token("NUM", Part(p, j), j, ends)

\* No other rule matches: an identifier, of no letters if p is at none.
Identifier ==
  /\ Reading /\ ~IsKeyword /\ ~IsPair
  /\ At(p) \notin Singles \cup Digit \cup {" ", NL, NUL, Quote, "'"}
  /\ ~startswith(p, <<"#define", " ">>)
  /\ \A c \in {Quote, "<"} : ~startswith(p, <<"#include", " ", c>>)
  /\ \E j \in p..Len(text) :
       Run(p, j, is_alnum) /\ new_token("INDENT", Part(p, j), j, ends)

Finish ==
  /\ mode = "run" /\ AtEnd /\ Len(ends) = 1 /\ UNCHANGED text
  /\ IF Len(tokens) < MaxTokens
     THEN /\ tokens' = Append(tokens, [kind |-> "EOF", text |-> <<>>])
          /\ mode' = "done" /\ UNCHANGED <<p, ends>>
     ELSE Stop("exhausted")

Init ==
  /\ text \in Inputs
  /\ p = 1 /\ ends = <<NUL>> /\ tokens = <<>> /\ mode = "run"

Next ==
  \/ Space \/ Include \/ StartDefine \/ EndDefine \/ KeywordToken \/ Pair \/ Single
  \/ LineComment \/ BlockComment \/ String \/ CharLiteral \/ Number \/ Identifier
  \/ Finish

\* The process runs until it ends.
Spec == Init /\ [][Next]_vars /\ WF_vars(Next)
-----------------------------------------------------------------------------
(* Properties. *)

Kinds == Keyword \cup {"DEFINE", "DEFINE_END", "RESERVED", "STR", "LT_CHAR",
                       "NUM", "INDENT", "EOF"}

(* Every variable holds a value of its type; p does not leave the text and   *)
(* its NUL, as strchr's match of the NUL would make it (line 305).           *)
TypeOK ==
  /\ p \in 1..Len(text) + 1
  /\ ends \in Seq({NUL, NL}) /\ ends # <<>>
  /\ Len(tokens) \in 0..MaxTokens
  /\ \A i \in 1..Len(tokens) : tokens[i].kind \in Kinds
  /\ mode \in {"run", "done", "error", "overrun", "exhausted"}

(* A call that tokenizes a #define line finds the newline that ends it:      *)
(* comments, literals and headers inside cannot carry it past the last one.  *)
DefineEnds == \A i \in 1..Len(ends) : IF i = 1 THEN ends[i] = NUL
                                      ELSE ends[i] = NL /\ p <= Len(text)

(* What preprocess() takes for granted of the list (its loops stop at EOF    *)
(* and at DEFINE_END): EOF comes last and only there, and every #define is   *)
(* followed by the end of its line.                                          *)
FeedsPreprocessor ==
  mode = "done" =>
    /\ tokens # <<>>
    /\ \A i \in 1..Len(tokens) : tokens[i].kind = "EOF" <=> i = Len(tokens)
    /\ \A i \in 1..Len(tokens) :
         tokens[i].kind = "DEFINE" =>
           \E j \in i + 1..Len(tokens) : tokens[j].kind = "DEFINE_END"

\* C has words; which of them are keywords is the table's business.
Class(kind) == IF kind \in Keyword \cup {"INDENT"} THEN "WORD" ELSE kind

Promise == INSTANCE CLexemes WITH
  Punctuator <- Pairs \cup { <<c>> : c \in Singles },
  pos        <- p,
  directive  <- Len(ends) - 1,
  lexemes    <- [i \in 1..Len(tokens) |->
                   [class |-> Class(tokens[i].kind), text |-> tokens[i].text]],
  ended      <- mode = "done"

(* The tokens are C's lexemes: each step reads the longest there is, a       *)
(* comment does not begin in a literal nor a literal in a comment, and the   *)
(* text of a literal is what C says, wherever the text is in the subset.     *)
ReadsAsC == Promise!Spec

(* tokenize() only gives up where C has no lexeme of the subset: in front of *)
(* an unclosed comment or literal, or of an unknown character, which it      *)
(* takes for identifiers of no letters until memory is exhausted (line 313). *)
StopsExplained == mode \in {"error", "overrun", "exhausted"} => Promise!Undefined

(* tokenize() ends on every file.                                            *)
Termination == <>(mode # "run")
=============================================================================
