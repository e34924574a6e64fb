----------------------------- MODULE MCPreprocessor -----------------------------
(***************************************************************************)
(* Token lists for model-checking Preprocessor: up to MaxLines lines, each *)
(* a definition or a single token.  The names a and d share a bucket of    *)
(* three; there is a literal that reads like a name and one in UTF-8.      *)
(***************************************************************************)
EXTENDS Preprocessor

CONSTANT MaxLines   \* bound: lines of an input

Tok(kind, text) == [kind |-> kind, text |-> text]
Hash == Tok("DEFINE", <<35>>)
LineEnd == Tok("DEFINE_END", <<>>)
EOF == Tok("EOF", <<>>)

a == Tok("OTHER", <<97>>)
d == Tok("OTHER", <<100>>)
string_a == Tok("LITERAL", <<97>>)
utf8 == Tok("LITERAL", <<-61, -87>>)

\* Bodies of no, one and two tokens, one that holds its own name, no name at
\* all, and a #define inside a #define.
DefineLines ==
  { <<Hash, n>> \o body \o <<LineEnd>> : n \in {a, d}, body \in {<<>>, <<a>>, <<d, utf8>>} }
  \cup { <<Hash, utf8, LineEnd>>, <<Hash, LineEnd>>,
         <<Hash, a, Hash, d, LineEnd, LineEnd>> }
Lines == DefineLines \cup { <<a>>, <<d>>, <<string_a>>, <<utf8>> }

Concatenate(lines) ==
  LET list[i \in 0..Len(lines)] == IF i = 0 THEN <<>> ELSE list[i - 1] \o lines[i]
  IN  list[Len(lines)]

AllInputs ==
  { Append(Concatenate(ls), EOF) : ls \in UNION { [1..n -> Lines] : n \in 0..MaxLines } }
=============================================================================
