------------------------------ MODULE MCTokenizer ------------------------------
(***************************************************************************)
(* Files for model-checking Tokenizer: texts of a few symbols, closed by a *)
(* newline.                                                                *)
(***************************************************************************)
EXTENDS Tokenizer

CONSTANTS
  MaxMarks,    \* bound: symbols of a file of marks, without its last newline
  MaxPieces    \* bound: symbols behind the beginning of a line

Texts(alphabet, max) ==
  { Append(t, NL) : t \in UNION { [1..n -> alphabet] : n \in 0..max } }

\* What begins or ends a comment or a literal, and a letter.
Marks == {Quote, Backslash, "'", "/", "*", NL, "x"}

\* Texts with a definition, a header or a keyword in their second line.
Lines == { <<"7", NL>> \o first \o t :
             first \in {<<"#define", " ">>, <<"#include", " ">>, <<"x", "<">>,
                        <<"while">>, <<"#define", " ", "x", "#define", " ">>,
                        <<"#define", " ", "=", "=", "-", ">">>},
             t \in Texts({Quote, "'", " ", NL, "/", "*", "<", ">", "=", "(", "x", "7", "^"},
                         MaxPieces) }

Files == Texts(Marks, MaxMarks) \cup Lines

\* The literal "expected \"%s\"" of tokenizer.c:38, and the next one, of line 46.
Expected == <<Quote, "x", " ", Backslash, Quote, "%", "x", Backslash, Quote, Quote>>
OwnSource == { Expected \o <<",", NL>> \o Expected \o <<NL>> }

(* README.md:20: 9cc compiles itself, so it reads every line of its source.  *)
CompilesItself == mode \in {"run", "done"}
=============================================================================
