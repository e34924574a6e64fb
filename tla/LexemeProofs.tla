------------------------------ MODULE LexemeProofs ------------------------------
(***************************************************************************)
(* Theorems about Tokenizer, for every set of files: that its tokens are   *)
(* the lexemes CLexemes promises, and that it gives up only where C has no *)
(* lexeme of the subset.                                                   *)
(***************************************************************************)
EXTENDS TokenizerProofs, NatRecursion

-----------------------------------------------------------------------------
(* The first symbol of a lexeme says of which kind it is. *)

\* Length and elements of the tuples the rules compare with.
LEMMA Tuples ==
  /\ \A a : Len(<<a>>) = 1 /\ <<a>>[1] = a
  /\ \A a, b : Len(<<a, b>>) = 2 /\ <<a, b>>[1] = a /\ <<a, b>>[2] = b
OBVIOUS

\* The first symbol decides the kind, but for / and the symbols of pairs.
LEMMA FirstSymbol ==
  ASSUME NEW s, Len(s) \in Nat \ {0}, Promise!IsLexeme(s)
  PROVE  /\ s[1] \in {" ", NL} => s = <<s[1]>>
         /\ s[1] = "/" => Promise!LineComment(s) \/ Promise!BlockComment(s) \/ s = <<"/">>
         /\ s[1] = Quote => Promise!Quoted(s, Quote)
         /\ s[1] = "'" => Promise!CharConstant(s)
         /\ s[1] = "#include" => Promise!Header(s)
         /\ s[1] = "#define" => s = <<"#define", " ">>
         /\ s[1] \in Digit => Promise!PpNumber(s)
         /\ s[1] \in Letter \cup Keyword => Promise!Word(s)
         /\ s[1] \in (Singles \cup {"|"}) \ {"/"} => s \in Pairs \/ s = <<s[1]>>
         /\ s[1] \in Singles \cup Letter \cup Keyword \cup Digit
              \cup {"|", " ", NL, Quote, "'", "#include", "#define"}
<1>1. \/ s \in {<<" ">>, <<NL>>}
      \/ Promise!LineComment(s) \/ Promise!BlockComment(s) \/ Promise!Header(s)
      \/ Promise!Word(s) \/ Promise!PpNumber(s)
      \/ s \in Pairs \/ \E c \in Singles : s = <<c>>
      \/ Promise!Quoted(s, Quote) \/ Promise!CharConstant(s) \/ s = <<"#define", " ">>
  BY DEF Promise!IsLexeme, Promise!Skipped, Quote, NL
<1>2. s \in {<<" ">>, <<NL>>} => s = <<s[1]>> /\ s[1] \in {" ", NL}
  <2>1. ASSUME NEW a, s = <<a>>  PROVE s[1] = a  BY <2>1, Tuples
  <2>. QED  BY <2>1
<1>3. Promise!LineComment(s) => s[1] = "/"  BY DEF Promise!LineComment
<1>4. Promise!BlockComment(s) => s[1] = "/"  BY DEF Promise!BlockComment
<1>5. Promise!Header(s) => s[1] = "#include"  BY DEF Promise!Header
<1>6. Promise!Word(s) => s[1] \in Letter \cup Keyword
  BY DEF Promise!Word
<1>7. Promise!PpNumber(s) => s[1] \in Digit  BY DEF Promise!PpNumber
<1>8. s \in Pairs => s[1] \in (Singles \cup {"|"}) \ {"/"}
  <2>1. ASSUME s \in Pairs
        PROVE  \E a \in {"=", "!", "<", ">", "&", "|", "-"} : \E b : s = <<a, b>>
    BY <2>1 DEF Pairs
  <2>2. ASSUME NEW a, NEW b, s = <<a, b>>  PROVE s[1] = a  BY <2>2, Tuples
  <2>. QED  BY <2>1, <2>2 DEF Singles
<1>9. (\E c \in Singles : s = <<c>>) => s[1] \in Singles /\ s = <<s[1]>>  OBVIOUS
<1>10. Promise!Quoted(s, Quote) => s[1] = Quote  BY DEF Promise!Quoted
<1>11. Promise!CharConstant(s) => s[1] = "'"  BY DEF Promise!CharConstant, Promise!Quoted
<1>12. s = <<"#define", " ">> => s[1] = "#define"  BY Tuples
<1>. DEFINE c == s[1]
            Single_(a) == s = <<a>>
            Define_ == s = <<"#define", " ">>
            Mark == (Singles \cup {"|"}) \ {"/"}
            Alpha == Letter \cup Keyword
<1>13. /\ c \in Mark => c \notin Alpha \cup Digit \cup {"/", " ", "\n", "\"", "'", "#include", "#define"}
       /\ c \in Alpha => c \notin Digit \cup {"/", " ", "\n", "\"", "'", "#include", "#define"}
       /\ c \in Digit => c \notin {"/", " ", "\n", "\"", "'", "#include", "#define"}
       /\ c \in Singles \cup {"|"} <=> c \in Mark \/ c = "/"
  BY DEF Singles, Letter, Keyword, Digit
<1>14. \A a : Single_(a) <=> s = <<a>>  OBVIOUS
<1>15. Define_ <=> s = <<"#define", " ">>  OBVIOUS
<1>16. /\ s \in {<<" ">>, <<NL>>} => Single_(c) /\ c \in {" ", "\n"}
       /\ (\E a \in Singles : s = <<a>>) => Single_(c) /\ (c \in Mark \/ c = "/")
       /\ Define_ => c = "#define"
       /\ c = "/" /\ Single_(c) => s = <<"/">>
  BY <1>2, <1>9, <1>12, <1>13 DEF NL
<1>. HIDE DEF c, Single_, Define_, Mark, Alpha
<1>17. \/ Single_(c) /\ (c \in {" ", "\n"} \/ c \in Mark \/ c = "/")
       \/ (Promise!LineComment(s) \/ Promise!BlockComment(s)) /\ c = "/"
       \/ Promise!Header(s) /\ c = "#include"
       \/ Promise!Word(s) /\ c \in Alpha
       \/ Promise!PpNumber(s) /\ c \in Digit
       \/ s \in Pairs /\ c \in Mark
       \/ Promise!Quoted(s, "\"") /\ c = "\""
       \/ Promise!CharConstant(s) /\ c = "'"
       \/ Define_ /\ c = "#define"
  BY <1>1, <1>3, <1>4, <1>5, <1>6, <1>7, <1>8, <1>10, <1>11, <1>15, <1>16
  DEF c, Mark, Alpha, Quote
<1>18. /\ c \in {" ", "\n"} => Single_(c)
       /\ c = "/" => Promise!LineComment(s) \/ Promise!BlockComment(s) \/ Single_(c)
       /\ c = "\"" => Promise!Quoted(s, "\"")
       /\ c = "'" => Promise!CharConstant(s)
       /\ c = "#include" => Promise!Header(s)
       /\ c = "#define" => Define_
       /\ c \in Digit => Promise!PpNumber(s)
       /\ c \in Alpha => Promise!Word(s)
       /\ c \in Mark => s \in Pairs \/ Single_(c)
       /\ c \in Mark \cup Alpha \cup Digit
            \cup {"/", " ", "\n", "\"", "'", "#include", "#define"}
  BY <1>13, <1>17
<1>. QED
  BY <1>13, <1>14, <1>15, <1>16, <1>18 DEF NL, Quote, c, Mark, Alpha
-----------------------------------------------------------------------------
(* The lexeme ahead of p, in terms of the text. *)

\* The n symbols from p are what C reads next, and in the subset.
AtLexeme(n) ==
  /\ n \in 1..Len(text) - p + 1
  /\ Promise!Longest(n) /\ Promise!InSubset(Promise!Part(n))

\* A part that fits in the text has its length and its symbols.
LEMMA Parts ==
  ASSUME text \in Inputs, p \in 1..Len(text), NEW n \in 1..Len(text) - p + 1
  PROVE  /\ Promise!Part(n) \in Seq(STRING) /\ Len(Promise!Part(n)) = n
         /\ p \in Nat /\ n \in Nat \ {0} /\ Len(text) \in Nat /\ p + n <= Len(text) + 1
         /\ \A k \in 1..n : Promise!Part(n)[k] = At(p + k - 1) /\ At(p + k - 1) = text[p + k - 1]
<1>1. text \in Seq(STRING)  BY TokenizerAssumption
<1>2. Len(text) \in Nat  BY <1>1
<1>3. \A k \in 1..n : p + k - 1 \in 1..Len(text)  BY <1>2
<1>4. \A i \in p..p + n - 1 : text[i] \in STRING
  <2>1. \A i \in p..p + n - 1 : i \in 1..Len(text)  BY <1>2
  <2>. QED  BY <1>1, <2>1, ElementOfSeq
<1>5. p \in Int /\ p + n - 1 \in Int /\ p <= p + n - 1 /\ (p + n - 1) - p + 1 = n
  BY <1>2
<1>6. Promise!Part(n) = SubSeq(text, p, p + n - 1)  BY DEF Promise!Part
<1>7. /\ SubSeq(text, p, p + n - 1) \in Seq(STRING)
      /\ Len(SubSeq(text, p, p + n - 1)) = n
      /\ \A k \in 1..n : SubSeq(text, p, p + n - 1)[k] = text[p + k - 1]
  BY <1>4, <1>5, SubSeqProperties
<1>8. \A k \in 1..n : At(p + k - 1) = text[p + k - 1]  BY <1>3 DEF At
<1>. QED  BY <1>2, <1>5, <1>6, <1>7, <1>8

\* While it reads, either C has a lexeme of the subset ahead or nothing is promised.
LEMMA Ahead ==
  ASSUME IInv, Reading
  PROVE  ~Promise!Newline /\ (~Promise!Undefined => \E n : AtLexeme(n))
<1>1. p \in 1..Len(text) /\ Len(text) \in Nat /\ (Len(ends) > 1 => At(p) # NL)
  BY ReadingAt
<1>2. Len(ends) \in Nat  BY Innermost
<1>3. ~Promise!Newline
  <2>1. Len(ends) - 1 > 0 => Len(ends) > 1  BY <1>2
  <2>. QED  BY <1>1, <2>1 DEF Promise!Newline, At, NL
<1>. QED  BY <1>1, <1>3 DEF Promise!Undefined, Promise!Sizes, AtLexeme

-----------------------------------------------------------------------------
(* What a rule appends is what C's lexeme is. *)

Lexeme_(tok) == [class |-> Class(tok.kind), text |-> tok.text]
Lexemes(ts) == [i \in 1..Len(ts) |-> Lexeme_(ts[i])]

\* A token more is a lexeme more.
LEMMA AppendLexeme ==
  ASSUME NEW ts, IsList(ts), NEW tok
  PROVE  Lexemes(Append(ts, tok)) = Append(Lexemes(ts), Lexeme_(tok))
<1>. DEFINE more == Append(ts, tok)
            S == {Lexeme_(more[i]) : i \in 1..Len(more)}
<1>1. /\ Len(ts) \in Nat /\ Len(more) = Len(ts) + 1
      /\ more[Len(ts) + 1] = tok
      /\ \A i \in 1..Len(ts) : more[i] = ts[i]
  BY Longer
<1>. HIDE DEF more
<1>2. Lexemes(more) \in [1..Len(ts) + 1 -> S]  BY <1>1 DEF Lexemes
<1>3. Lexemes(ts) \in [1..Len(ts) -> S]
  <2>1. \A i \in 1..Len(ts) : i \in 1..Len(more)  BY <1>1
  <2>2. \A i \in 1..Len(ts) : Lexeme_(ts[i]) \in S  BY <1>1, <2>1
  <2>. HIDE DEF S
  <2>. QED  BY <2>2 DEF Lexemes
<1>4. Lexeme_(tok) \in S  BY <1>1
<1>. HIDE DEF S
<1>5. Lexemes(ts) \in Seq(S) /\ Len(Lexemes(ts)) = Len(ts)
  BY <1>1, <1>3, LenProperties, SeqDef
<1>6. Lexemes(more) \in Seq(S) /\ Len(Lexemes(more)) = Len(ts) + 1
  BY <1>1, <1>2, SeqDef
<1>7. /\ Append(Lexemes(ts), Lexeme_(tok)) \in Seq(S)
      /\ Len(Append(Lexemes(ts), Lexeme_(tok))) = Len(ts) + 1
      /\ \A i \in 1..Len(ts) : Append(Lexemes(ts), Lexeme_(tok))[i] = Lexemes(ts)[i]
      /\ Append(Lexemes(ts), Lexeme_(tok))[Len(ts) + 1] = Lexeme_(tok)
  BY <1>4, <1>5, AppendProperties
<1>8. ASSUME NEW i \in 1..Len(ts) + 1
      PROVE  Lexemes(more)[i] = Append(Lexemes(ts), Lexeme_(tok))[i]
  <2>1. Lexemes(more)[i] = Lexeme_(more[i])  BY <1>1 DEF Lexemes
  <2>2. CASE i = Len(ts) + 1  BY <1>1, <1>7, <2>1, <2>2
  <2>3. CASE i \in 1..Len(ts)
    <3>1. Lexemes(ts)[i] = Lexeme_(ts[i])  BY <2>3 DEF Lexemes
    <3>. QED  BY <1>1, <1>7, <2>1, <2>3, <3>1
  <2>4. i = Len(ts) + 1 \/ i \in 1..Len(ts)  BY <1>1
  <2>. QED  BY <2>2, <2>3, <2>4
<1>. QED  BY <1>6, <1>7, <1>8, SeqEqual DEF more

-----------------------------------------------------------------------------
(* Reading the lexeme ahead is a step of CLexemes. *)

StepAsC == [Promise!Next]_(Promise!vars)

\* A process that ends changes nothing the promise sees.
LEMMA StopAsC ==
  ASSUME IInv, mode = "run", UNCHANGED text,
         NEW how \in {"error", "overrun", "exhausted"}, Stop(how)
  PROVE  StepAsC
<1>. QED  BY DEF Stop, StepAsC, Promise!vars

\* To go behind what leaves no lexeme is to read it.
LEMMA SkipAsC ==
  ASSUME IInv, Reading, NEW n, AtLexeme(n), Promise!Skipped(Promise!Part(n)), Skip(p + n)
  PROVE  StepAsC
<1>1. /\ UNCHANGED <<text, ends, tokens, mode>> /\ p' = p + n
  BY ReadingAt DEF Skip
<1>2. Promise!Part(n) # <<"#define", " ">>
  <2>1. /\ \A a : <<a>> # <<"#define", " ">>
        /\ <<"#define", " ">>[1] = "#define"
    BY Tuples
  <2>. QED
    BY <2>1 DEF Promise!Skipped, Promise!LineComment, Promise!BlockComment, Promise!Header
<1>3. Promise!Lexeme
  BY <1>1, <1>2, Ahead DEF Promise!Lexeme, AtLexeme, Promise!Sizes
<1>. QED  BY <1>1, <1>3 DEF StepAsC, Promise!Next

\* Arithmetic of the count of open directives.
LEMMA OneMore == \A l \in Nat : (l + 1) - 1 = l - 1 + 1
OBVIOUS

\* A token of the class and the text of the lexeme ahead, with p behind it, reads it.
LEMMA TokenAsC ==
  ASSUME IInv, Reading, NEW n, AtLexeme(n), ~Promise!Skipped(Promise!Part(n)),
         NEW kind, NEW str, NEW ends_, new_token(kind, str, p + n, ends_),
         Class(kind) = Promise!Class(Promise!Part(n)),
         str = Promise!Meaning(Promise!Part(n)),
         Len(ends_) = IF Promise!Part(n) = <<"#define", " ">> THEN Len(ends) + 1 ELSE Len(ends)
  PROVE  StepAsC
<1>1. mode = "run" /\ UNCHANGED text  BY ReadingAt
<1>2. CASE Len(tokens) < MaxTokens
  <2>1. /\ tokens' = Append(tokens, [kind |-> kind, text |-> str])
        /\ p' = p + n /\ ends' = ends_ /\ mode' = mode
    BY <1>2 DEF new_token
  <2>. DEFINE tok == [kind |-> kind, text |-> str]
              lex == [class |-> Promise!Class(Promise!Part(n)), text |-> Promise!Meaning(Promise!Part(n))]
  <2>2. Lexeme_(tok) = lex  BY DEF Lexeme_
  <2>3. Lexemes(tokens)' = Append(Lexemes(tokens), lex)
    <3>1. SUFFICES ASSUME NEW ts, ts = tokens'
                   PROVE  Lexemes(ts) = Append(Lexemes(tokens), lex)
      OBVIOUS
    <3>2. ts = Append(tokens, tok) /\ IsList(tokens)  BY <2>1, <3>1 DEF IInv
    <3>. HIDE DEF tok, lex
    <3>. QED  BY <2>2, <3>2, AppendLexeme
  <2>5. Promise!Lexeme
    BY <1>1, <2>1, <2>3, OneMore, Ahead, Innermost
    DEF Promise!Lexeme, AtLexeme, Promise!Sizes, Lexemes, Lexeme_
  <2>. QED  BY <1>1, <2>5 DEF StepAsC, Promise!Next
<1>3. CASE ~(Len(tokens) < MaxTokens)
  BY <1>1, <1>3, StopAsC DEF new_token
<1>. QED  BY <1>2, <1>3
-----------------------------------------------------------------------------
(* Which lexeme begins with which symbol, and how far it reaches. *)

\* The first symbol decides the class, and whether the text is taken as it is.
LEMMA Classes ==
  ASSUME NEW s, Len(s) \in Nat \ {0}
  PROVE  /\ Promise!Skipped(s) => s[1] \in {" ", NL, "/", "#include"}
         /\ s[1] \notin {Quote, "'"} => Promise!Meaning(s) = s
         /\ Promise!Word(s) => Promise!Class(s) = "WORD"
         /\ Promise!PpNumber(s) => Promise!Class(s) = "NUM"
         /\ s[1] = Quote => Promise!Class(s) = "STR"
         /\ s[1] = "'" => Promise!Class(s) = "LT_CHAR"
         /\ s[1] = "#define" => Promise!Class(s) = "DEFINE"
         /\ s[1] \in Singles \cup {"|"} => Promise!Class(s) = "RESERVED"
<1>1. Promise!Word(s) => s[1] \in Letter \cup Keyword  BY DEF Promise!Word
<1>2. Promise!PpNumber(s) => s[1] \in Digit  BY DEF Promise!PpNumber
<1>3. Promise!Skipped(s) => s[1] \in {" ", NL, "/", "#include"}
  BY Tuples DEF Promise!Skipped, Promise!LineComment, Promise!BlockComment, Promise!Header, NL
<1>4. s[1] \notin {Quote, "'"} => Promise!Meaning(s) = s  BY DEF Promise!Meaning, Quote
<1>5. /\ \A c \in Letter \cup Keyword : c \notin Digit \cup {"\"", "'", "#define"}
      /\ \A c \in Digit : c \notin {"\"", "'", "#define"}
      /\ \A c \in Singles \cup {"|"} : c \notin Letter \cup Keyword \cup Digit \cup {"\"", "'", "#define"}
      /\ \A c \in {"\"", "'", "#define"} : c \notin Letter \cup Keyword \cup Digit
  BY DEF Letter, Keyword, Digit, Singles
<1>6. Promise!Word(s) => Promise!Class(s) = "WORD"  BY <1>1, <1>2, <1>5 DEF Promise!Class
<1>7. Promise!PpNumber(s) => Promise!Class(s) = "NUM"  BY <1>1, <1>2, <1>5 DEF Promise!Class
<1>8. s[1] = Quote => Promise!Class(s) = "STR"  BY <1>1, <1>2, <1>5 DEF Promise!Class, Quote
<1>9. s[1] = "'" => Promise!Class(s) = "LT_CHAR"  BY <1>1, <1>2, <1>5 DEF Promise!Class
<1>10. s[1] = "#define" => Promise!Class(s) = "DEFINE"  BY <1>1, <1>2, <1>5 DEF Promise!Class
<1>11. s[1] \in Singles \cup {"|"} => Promise!Class(s) = "RESERVED"
  BY <1>1, <1>2, <1>5 DEF Promise!Class
<1>. QED  BY <1>3, <1>4, <1>6, <1>7, <1>8, <1>9, <1>10, <1>11

\* Symbols of the lexeme ahead, and that none is longer.
LEMMA Facts ==
  ASSUME IInv, p \in 1..Len(text), NEW n, AtLexeme(n)
  PROVE  /\ n \in Nat \ {0} /\ p \in Nat \ {0} /\ Len(text) \in Nat /\ p + n <= Len(text) + 1
         /\ Promise!Part(n) \in Seq(STRING) /\ Len(Promise!Part(n)) = n
         /\ Promise!Part(n)[1] = At(p)
         /\ \A k \in 1..n : Promise!Part(n)[k] = At(p + k - 1)
         /\ Promise!IsLexeme(Promise!Part(n)) /\ Promise!InSubset(Promise!Part(n))
         /\ \A m \in 1..Len(text) - p + 1 : Promise!IsLexeme(Promise!Part(m)) => m <= n
<1>1. n \in 1..Len(text) - p + 1  BY DEF AtLexeme
<1>2. /\ Promise!Part(n) \in Seq(STRING) /\ Len(Promise!Part(n)) = n
      /\ p \in Nat /\ n \in Nat \ {0} /\ Len(text) \in Nat /\ p + n <= Len(text) + 1
      /\ \A k \in 1..n : Promise!Part(n)[k] = At(p + k - 1)
  BY <1>1, Parts DEF IInv
<1>3. 1 \in 1..n /\ p + 1 - 1 = p  BY <1>2
<1>4. Promise!Part(n)[1] = At(p)  BY <1>2, <1>3
<1>. QED  BY <1>2, <1>4 DEF AtLexeme, Promise!Longest, Promise!Sizes

\* A space or newline is a lexeme of its own.
LEMMA SpaceReads ==
  ASSUME IInv, p \in 1..Len(text), NEW n, AtLexeme(n), At(p) \in {" ", NL}
  PROVE  n = 1 /\ Promise!Skipped(Promise!Part(n))
<1>. DEFINE s == Promise!Part(n)
<1>1. Len(s) = n /\ n \in Nat \ {0} /\ s[1] = At(p) /\ Promise!IsLexeme(s)  BY Facts
<1>. HIDE DEF s
<1>2. s = <<s[1]>>  BY <1>1, FirstSymbol
<1>3. n = 1  BY <1>1, <1>2, Tuples
<1>4. s \in {<<" ">>, <<"\n">>}  BY <1>1, <1>2 DEF NL
<1>. QED  BY <1>3, <1>4 DEF s, Promise!Skipped

\* A #define is taken with the space behind it.
LEMMA DefineReads ==
  ASSUME IInv, p \in 1..Len(text), NEW n, AtLexeme(n), At(p) = "#define"
  PROVE  n = 2 /\ Promise!Part(n) = <<"#define", " ">>
<1>. DEFINE s == Promise!Part(n)
<1>1. Len(s) = n /\ n \in Nat \ {0} /\ s[1] = At(p) /\ Promise!IsLexeme(s)  BY Facts
<1>. HIDE DEF s
<1>2. s = <<"#define", " ">>
  <2>1. s[1] = "#define" /\ Len(s) \in Nat \ {0}  BY <1>1
  <2>. QED  BY <1>1, <2>1, FirstSymbol, Zenon
<1>3. n = 2  BY <1>1, <1>2, Tuples
<1>. QED  BY <1>2, <1>3 DEF s

\* Only one end of a run.
LEMMA OneRun ==
  ASSUME NEW i \in Int, NEW S, NEW j \in Int, NEW k \in Int,
         i <= j, i <= k, Run(i, j, S), Run(i, k, S)
  PROVE  j = k
<1>1. ~(j < k)  BY DEF Run
<1>2. ~(k < j)  BY DEF Run
<1>. QED  BY <1>1, <1>2

\* A word, or a number, that is longer by one symbol.
LEMMA Longer1 ==
  ASSUME IInv, p \in 1..Len(text), NEW n \in 1..Len(text) - p + 1, n + 1 \in 1..Len(text) - p + 1,
         \A k \in p..p + n : At(k) \in is_alnum
  PROVE  /\ At(p) \notin Digit => Promise!Word(Promise!Part(n + 1))
         /\ At(p) \in Digit => Promise!PpNumber(Promise!Part(n + 1))
<1>. DEFINE s == Promise!Part(n + 1)
<1>1. /\ n + 1 \in Nat /\ n \in Nat /\ p \in Nat /\ Len(s) = n + 1
      /\ \A k \in 1..n + 1 : s[k] = At(p + k - 1)
  BY Parts DEF IInv
<1>. HIDE DEF s
<1>2. \A k \in 1..n + 1 : p + k - 1 \in p..p + n  BY <1>1
<1>3. \A k \in 1..Len(s) : s[k] \in Letter \cup Digit \cup Keyword
  BY <1>1, <1>2 DEF is_alnum
<1>4. 1 \in 1..n + 1 /\ p + 1 - 1 = p  BY <1>1
<1>5. s[1] = At(p)  BY <1>1, <1>4
<1>. QED  BY <1>3, <1>5 DEF s, Promise!Word, Promise!PpNumber

\* A word or number is the whole run of its symbols, and of digits in the subset.
LEMMA WordReads ==
  ASSUME IInv, p \in 1..Len(text), NEW n, AtLexeme(n), At(p) \in is_alnum
  PROVE  /\ At(p) \notin Digit => Promise!Word(Promise!Part(n))
         /\ At(p) \in Digit => Promise!PpNumber(Promise!Part(n))
         /\ Run(p, p + n, is_alnum) /\ p + n <= Len(text)
         /\ At(p) \in Digit => \A k \in p..p + n - 1 : At(k) \in Digit
<1>. DEFINE s == Promise!Part(n)
<1>1. /\ Len(s) = n /\ n \in Nat \ {0} /\ p \in Nat \ {0} /\ Len(text) \in Nat
      /\ p + n <= Len(text) + 1
      /\ s[1] = At(p) /\ Promise!IsLexeme(s) /\ Promise!InSubset(s)
      /\ \A k \in 1..n : s[k] = At(p + k - 1)
      /\ \A m \in 1..Len(text) - p + 1 : Promise!IsLexeme(Promise!Part(m)) => m <= n
  BY Facts
<1>. HIDE DEF s
<1>2. /\ At(p) \notin Digit => Promise!Word(s)
      /\ At(p) \in Digit => Promise!PpNumber(s)
  BY <1>1, FirstSymbol DEF is_alnum
<1>3. \A k \in 1..n : s[k] \in is_alnum
  BY <1>1, <1>2 DEF Promise!Word, Promise!PpNumber, is_alnum
<1>4. ASSUME NEW k \in p..p + n - 1  PROVE k - p + 1 \in 1..n /\ p + (k - p + 1) - 1 = k
  BY <1>1
<1>5. \A k \in p..p + n - 1 : At(k) = s[k - p + 1]  BY <1>1, <1>4
<1>6. \A k \in p..p + n - 1 : At(k) \in is_alnum  BY <1>3, <1>4, <1>5
<1>7. p + n <= Len(text)
  <2>1. NL \notin is_alnum  BY DEF is_alnum, NL, Letter, Digit, Keyword
  <2>2. text[Len(text)] = NL /\ Len(text) > 0  BY Text DEF IInv
  <2>3. At(Len(text)) = NL  BY <1>1, <2>2 DEF At
  <2>4. p + n = Len(text) + 1 => Len(text) \in p..p + n - 1  BY <1>1
  <2>5. p + n # Len(text) + 1  BY <1>6, <2>1, <2>3, <2>4
  <2>. QED  BY <1>1, <2>5
<1>8. At(p + n) \notin is_alnum
  <2>1. SUFFICES ASSUME At(p + n) \in is_alnum PROVE FALSE  OBVIOUS
  <2>2. \A k \in p..p + n : k \in p..p + n - 1 \/ k = p + n  BY <1>1
  <2>3. \A k \in p..p + n : At(k) \in is_alnum  BY <1>6, <2>1, <2>2
  <2>4. n \in 1..Len(text) - p + 1 /\ n + 1 \in 1..Len(text) - p + 1 /\ ~(n + 1 <= n)
    BY <1>1, <1>7
  <2>5. Promise!IsLexeme(Promise!Part(n + 1))
    BY <2>3, <2>4, Longer1 DEF Promise!IsLexeme
  <2>. QED  BY <1>1, <2>4, <2>5
<1>9. ASSUME At(p) \in Digit, NEW k \in p..p + n - 1  PROVE At(k) \in Digit
  <2>1. \A i \in 1..Len(s) : s[i] \in Digit  BY <1>1, <1>2, <1>9 DEF Promise!InSubset
  <2>. QED  BY <1>1, <1>4, <1>5, <2>1
<1>10. Run(p, p + n, is_alnum)
  <2>1. (p + n) - 1 = p + n - 1  BY <1>1
  <2>. QED  BY <1>6, <1>8, <2>1 DEF Run
<1>. QED  BY <1>2, <1>7, <1>9, <1>10 DEF s
\* A part of two symbols.
LEMMA TwoSymbols ==
  ASSUME IInv, p \in 1..Len(text), At(p + 1) # NUL
  PROVE  2 \in 1..Len(text) - p + 1 /\ Promise!Part(2) = <<At(p), At(p + 1)>>
<1>1. Len(text) \in Nat /\ p \in Nat /\ p + 1 \in Int  BY Text DEF IInv
<1>2. p + 1 \in 1..Len(text)  BY <1>1, Text DEF IInv
<1>3. 2 \in 1..Len(text) - p + 1  BY <1>1, <1>2
<1>4. \A k \in 1..2 : Promise!Part(2)[k] = At(p + k - 1)  BY <1>3, Parts DEF IInv
<1>5. Promise!Part(2) \in Seq(STRING) /\ Len(Promise!Part(2)) = 2  BY <1>3, Parts DEF IInv
<1>6. p + 1 - 1 = p /\ p + 2 - 1 = p + 1 /\ 1 \in 1..2 /\ 2 \in 1..2  BY <1>1
<1>7. Promise!Part(2)[1] = At(p) /\ Promise!Part(2)[2] = At(p + 1)  BY <1>4, <1>6
<1>8. ASSUME NEW s \in Seq(STRING), Len(s) = 2  PROVE s = <<s[1], s[2]>>  BY <1>8
<1>. QED  BY <1>3, <1>5, <1>7, <1>8

\* Where two symbols make an operator, C reads both.
LEMMA PairReads ==
  ASSUME IInv, p \in 1..Len(text), NEW n, AtLexeme(n), IsPair
  PROVE  /\ n = 2 /\ Promise!Part(n) = <<At(p), At(p + 1)>>
         /\ At(p) \in (Singles \cup {"|"}) \ {"/"}
<1>. DEFINE s == Promise!Part(n)
<1>0. p \in Int  BY Text DEF IInv
<1>1. PICK a, b : <<a, b>> \in Pairs /\ startswith(p, <<a, b>>)
  <2>1. PICK w \in Pairs : startswith(p, w)  BY DEF IsPair
  <2>2. \E a, b : w = <<a, b>>  BY DEF Pairs
  <2>. QED  BY <2>1, <2>2
<1>2. At(p) = a /\ At(p + 1) = b  BY <1>0, <1>1, Starts
<1>3. /\ a \in (Singles \cup {"|"}) \ {"/"} /\ b # NUL
  <2>1. \A u, v : <<u, v>> \in Pairs =>
          u \in {"=", "!", "<", ">", "&", "|", "-"} /\ v \in {"=", "&", "|", ">"}
    BY DEF Pairs
  <2>. QED  BY <1>1, <2>1 DEF Singles, NUL
<1>4. 2 \in 1..Len(text) - p + 1 /\ Promise!Part(2) = <<a, b>>
  BY <1>2, <1>3, TwoSymbols
<1>5. Promise!IsLexeme(Promise!Part(2))  BY <1>1, <1>4 DEF Promise!IsLexeme
<1>6. /\ Len(s) = n /\ n \in Nat \ {0} /\ s[1] = At(p) /\ Promise!IsLexeme(s)
      /\ 2 <= n
  BY <1>4, <1>5, Facts
<1>. HIDE DEF s
<1>7. s \in Pairs \/ s = <<s[1]>>  BY <1>2, <1>3, <1>6, FirstSymbol
<1>8. s # <<s[1]>>  BY <1>6, Tuples
<1>9. n = 2
  <2>1. \E u, v : s = <<u, v>>  BY <1>7, <1>8 DEF Pairs
  <2>. QED  BY <1>6, <2>1, Tuples
<1>. QED  BY <1>2, <1>3, <1>4, <1>9

\* Where they make none, and no comment begins, C reads one.
LEMMA SingleReads ==
  ASSUME IInv, p \in 1..Len(text), NEW n, AtLexeme(n),
         At(p) \in Singles \cup {NUL}, ~IsPair, ~IsComment
  PROVE  n = 1 /\ Promise!Part(n) = <<At(p)>> /\ At(p) \in Singles
<1>. DEFINE s == Promise!Part(n)
<1>1. /\ Len(s) = n /\ n \in Nat \ {0} /\ s[1] = At(p) /\ Promise!IsLexeme(s) /\ p \in Int
      /\ \A k \in 1..n : s[k] = At(p + k - 1)
  BY Facts
<1>2. 2 \in 1..n => s[2] = At(p + 1)
  <2>1. p + 2 - 1 = p + 1  BY <1>1
  <2>. QED  BY <1>1, <2>1
<1>. HIDE DEF s
<1>3. s[1] \in Singles \cup Letter \cup Keyword \cup Digit
              \cup {"|", " ", NL, Quote, "'", "#include", "#define"}
  BY <1>1, FirstSymbol
<1>4. s[1] \in Singles  BY <1>1, <1>3 DEF NUL, NL, Quote, Letter, Keyword, Digit
<1>5. s = <<s[1]>>
  <2>1. CASE s[1] = "/"
    <3>1. Promise!LineComment(s) \/ Promise!BlockComment(s) \/ s = <<"/">>
      BY <1>1, <2>1, FirstSymbol
    <3>2. ASSUME Promise!LineComment(s) \/ Promise!BlockComment(s)  PROVE FALSE
      <4>1. Len(s) > 1 /\ s[2] \in {"/", "*"}
        BY <1>1, <3>2 DEF Promise!LineComment, Promise!BlockComment
      <4>2. At(p) = "/" /\ At(p + 1) \in {"/", "*"}  BY <1>1, <1>2, <2>1, <4>1
      <4>. QED  BY <1>1, <4>2, Starts DEF IsComment
    <3>. QED  BY <2>1, <3>1, <3>2
  <2>2. CASE s[1] # "/"
    <3>1. s \in Pairs \/ s = <<s[1]>>  BY <1>1, <1>4, <2>2, FirstSymbol
    <3>2. ASSUME s \in Pairs  PROVE FALSE
      <4>1. PICK u, v : s = <<u, v>>  BY <3>2 DEF Pairs
      <4>2. n = 2 /\ s[1] = u /\ s[2] = v  BY <1>1, <4>1, Tuples
      <4>3. At(p) = u /\ At(p + 1) = v  BY <1>1, <1>2, <4>2
      <4>. QED  BY <1>1, <3>2, <4>1, <4>3, Starts DEF IsPair
    <3>. QED  BY <3>1, <3>2
  <2>. QED  BY <2>1, <2>2
<1>6. n = 1  BY <1>1, <1>5, Tuples
<1>. QED  BY <1>1, <1>4, <1>5, <1>6 DEF s

\* A line comment reaches to the first newline.
LEMMA LineReads ==
  ASSUME IInv, p \in 1..Len(text), NEW n, AtLexeme(n), startswith(p, <<"/", "/">>),
         NEW j \in p + 2..Len(text), First(p + 2, j, <<NL>>)
  PROVE  j = p + n /\ Promise!LineComment(Promise!Part(n))
<1>. DEFINE s == Promise!Part(n)
            c == Promise!Part(j - p)
<1>1. /\ Len(s) = n /\ n \in Nat \ {0} /\ s[1] = At(p) /\ Promise!IsLexeme(s)
      /\ p \in Nat \ {0} /\ Len(text) \in Nat
      /\ \A k \in 1..n : s[k] = At(p + k - 1)
      /\ \A m \in 1..Len(text) - p + 1 : Promise!IsLexeme(Promise!Part(m)) => m <= n
  BY Facts
<1>2. At(p) = "/" /\ At(p + 1) = "/"
  <2>1. p \in Int  BY <1>1
  <2>. QED  BY <2>1, Starts
<1>3. j \in Int /\ j - p \in 1..Len(text) - p + 1 /\ j - p \in Nat /\ j - p >= 2  BY <1>1
<1>4. Len(c) = j - p /\ \A k \in 1..j - p : c[k] = At(p + k - 1)
  BY <1>3, Parts DEF IInv
<1>. HIDE DEF c, s
<1>5. /\ At(j) = NL
      /\ \A k \in p + 2..j - 1 : At(k) # NL
  <2>1. \A k \in p + 2..j - 1 : k \in Int  BY <1>1
  <2>. QED  BY <1>3, <2>1, Starts DEF First
<1>6. Promise!LineComment(c)
  <2>1. c[1] = "/" /\ c[2] = "/"
    <3>1. 1 \in 1..j - p /\ 2 \in 1..j - p /\ p + 1 - 1 = p /\ p + 2 - 1 = p + 1
      BY <1>1, <1>3
    <3>. QED  BY <1>2, <1>4, <3>1
  <2>2. ASSUME NEW k \in 3..j - p  PROVE c[k] # NL
    <3>1. k \in 1..j - p /\ p + k - 1 \in p + 2..j - 1  BY <1>1, <1>3
    <3>. QED  BY <1>4, <1>5, <3>1
  <2>. QED  BY <1>3, <1>4, <2>1, <2>2 DEF Promise!LineComment, Promise!Between, NL
<1>7. j - p <= n
  <2>1. Promise!IsLexeme(c)  BY <1>6 DEF Promise!IsLexeme, Promise!Skipped
  <2>. QED  BY <1>1, <1>3, <2>1 DEF c
<1>8. s[2] = "/"
  <2>1. 2 \in 1..n /\ p + 2 - 1 = p + 1  BY <1>1, <1>3, <1>7
  <2>. QED  BY <1>1, <1>2, <2>1
<1>9. Promise!LineComment(s)
  <2>1. Promise!LineComment(s) \/ Promise!BlockComment(s) \/ s = <<"/">>
    BY <1>1, <1>2, FirstSymbol
  <2>2. Len(s) # 1  BY <1>1, <1>3, <1>7
  <2>4. s # <<"/">>  BY <2>2, Tuples
  <2>3. ~Promise!BlockComment(s)  BY <1>8 DEF Promise!BlockComment
  <2>. QED  BY <2>1, <2>3, <2>4
<1>10. ~(j - p < n)
  <2>1. SUFFICES ASSUME j - p < n  PROVE FALSE  OBVIOUS
  <2>2. j - p + 1 \in 3..n /\ j - p + 1 \in 1..n /\ p + (j - p + 1) - 1 = j
    BY <1>1, <1>3, <2>1
  <2>3. s[j - p + 1] = NL  BY <1>1, <1>5, <2>2
  <2>. QED  BY <1>1, <1>9, <2>2, <2>3 DEF Promise!LineComment, Promise!Between, NL
<1>11. j = p + n  BY <1>1, <1>3, <1>7, <1>10
<1>. QED  BY <1>9, <1>11 DEF s

\* Only one place is the first.
LEMMA OneFirst ==
  ASSUME NEW i \in Int, NEW s, NEW j \in Int, NEW k \in Int,
         i <= j, i <= k, First(i, j, s), First(i, k, s)
  PROVE  j = k
<1>1. ~(j < k)  BY DEF First
<1>2. ~(k < j)  BY DEF First
<1>. QED  BY <1>1, <1>2

\* A block comment reaches to the first */ behind its beginning.
LEMMA BlockReads ==
  ASSUME IInv, p \in 1..Len(text), NEW n, AtLexeme(n), startswith(p, <<"/", "*">>)
  PROVE  /\ Promise!BlockComment(Promise!Part(n))
         /\ p + n - 2 \in p + 2..Len(text) /\ First(p + 2, p + n - 2, <<"*", "/">>)
<1>. DEFINE s == Promise!Part(n)
            j == p + n - 2
<1>1. /\ Len(s) = n /\ n \in Nat \ {0} /\ s[1] = At(p)
      /\ Promise!IsLexeme(s) /\ Promise!InSubset(s)
      /\ p \in Nat \ {0} /\ Len(text) \in Nat /\ p + n <= Len(text) + 1
      /\ \A k \in 1..n : s[k] = At(p + k - 1)
  BY Facts
<1>. HIDE DEF s
<1>2. At(p) = "/" /\ At(p + 1) = "*"
  <2>1. p \in Int  BY <1>1
  <2>. QED  BY <2>1, Starts
<1>3. Promise!LineComment(s) \/ Promise!BlockComment(s) \/ s = <<"/">>
  BY <1>1, <1>2, FirstSymbol
<1>4. s # <<"/">>
  <2>1. 2 \in 1..Len(text) - p + 1 /\ Promise!Part(2) = <<"/", "*">>
    BY <1>2, TwoSymbols DEF NUL
  <2>2. Len(<<"/", "*">>) = 2 /\ <<"/", "*">> # <<>>  BY Tuples
  <2>3. Promise!Ahead(<<"/", "*">>)  BY <2>1, <2>2 DEF Promise!Ahead, Promise!Sizes
  <2>. QED  BY <1>1, <2>3 DEF Promise!InSubset
<1>5. ~Promise!LineComment(s)
  <2>1. SUFFICES ASSUME Len(s) > 1, s[2] = "/"  PROVE FALSE  BY DEF Promise!LineComment
  <2>2. 2 \in 1..n /\ p + 2 - 1 = p + 1  BY <1>1, <2>1
  <2>. QED  BY <1>1, <1>2, <2>1, <2>2
<1>6. Promise!BlockComment(s)  BY <1>3, <1>4, <1>5
<1>7. /\ n > 3 /\ s[n - 1] = "*" /\ s[(n - 1) + 1] = "/"
      /\ \A i \in 3..n - 2 : ~(s[i] = "*" /\ s[i + 1] = "/")
  BY <1>1, <1>6 DEF Promise!BlockComment
<1>8. j \in Int /\ j + 1 \in Int /\ j \in p + 2..Len(text)  BY <1>1, <1>7
<1>. HIDE DEF j
<1>9. At(j) = "*" /\ At(j + 1) = "/"
  <2>1. n - 1 \in 1..n /\ n \in 1..n /\ (n - 1) + 1 = n
        /\ p + (n - 1) - 1 = j /\ p + n - 1 = j + 1
    BY <1>1, <1>7 DEF j
  <2>. QED  BY <1>1, <1>7, <2>1
<1>10. ASSUME NEW k \in p + 2..j - 1  PROVE ~(At(k) = "*" /\ At(k + 1) = "/")
  <2>. DEFINE i == k - p + 1
  <2>1. i \in 3..n - 2 /\ i \in 1..n /\ i + 1 \in 1..n /\ p + i - 1 = k /\ p + (i + 1) - 1 = k + 1
    BY <1>1, <1>7, <1>8 DEF j
  <2>. HIDE DEF i
  <2>. QED  BY <1>1, <1>7, <2>1
<1>11. First(p + 2, j, <<"*", "/">>)
  <2>1. \A k \in p + 2..j - 1 : k \in Int  BY <1>1
  <2>2. \A k \in p + 2..j - 1 : ~startswith(k, <<"*", "/">>)  BY <1>10, <2>1, Starts
  <2>3. startswith(j, <<"*", "/">>)  BY <1>8, <1>9, Starts
  <2>. QED  BY <2>2, <2>3 DEF First
<1>. QED  BY <1>6, <1>8, <1>11 DEF s, j

Brackets(open, close) ==
  \/ open = Quote /\ close = Quote
  \/ open = "<" /\ close = ">"

HeaderAt(open) == startswith(p, <<"#include", " ", open>>)

\* A header reaches to the first closing bracket.
LEMMA HeaderReads ==
  ASSUME IInv, p \in 1..Len(text), NEW n, AtLexeme(n), NEW open, NEW close,
         HeaderAt(open), Brackets(open, close)
  PROVE  /\ Promise!Header(Promise!Part(n))
         /\ p + n - 1 \in p + 3..Len(text) /\ First(p + 3, p + n - 1, <<close>>)
<1>. DEFINE s == Promise!Part(n)
            j == p + n - 1
<1>1. /\ Len(s) = n /\ n \in Nat \ {0} /\ s[1] = At(p) /\ Promise!IsLexeme(s)
      /\ p \in Nat \ {0} /\ Len(text) \in Nat /\ p + n <= Len(text) + 1
      /\ \A k \in 1..n : s[k] = At(p + k - 1)
  BY Facts
<1>. HIDE DEF s
<1>2. At(p) = "#include" /\ At(p + 2) = open
  <2>1. p \in Int  BY <1>1
  <2>. QED  BY <2>1, Starts DEF HeaderAt
<1>3. Promise!Header(s)  BY <1>1, <1>2, FirstSymbol
<1>4. n > 3 /\ \A i \in 4..n - 1 : s[i] # s[n]
  BY <1>1, <1>3 DEF Promise!Header, Promise!Between
<1>5. s[3] = open
  <2>1. 3 \in 1..n /\ p + 3 - 1 = p + 2  BY <1>1, <1>4
  <2>. QED  BY <1>1, <1>2, <2>1
<1>6. s[n] = close
  <2>1. \/ s[3] = "\"" /\ s[n] = "\""
        \/ s[3] = "<" /\ s[n] = ">"
    BY <1>1, <1>3 DEF Promise!Header
  <2>. QED  BY <1>5, <2>1 DEF Brackets, Quote
<1>7. j \in Int /\ j \in p + 3..Len(text)  BY <1>1, <1>4
<1>. HIDE DEF j
<1>8. At(j) = close
  <2>1. n \in 1..n /\ p + n - 1 = j  BY <1>1 DEF j
  <2>. QED  BY <1>1, <1>6, <2>1
<1>9. ASSUME NEW k \in p + 3..j - 1  PROVE At(k) # close
  <2>. DEFINE i == k - p + 1
  <2>1. i \in 4..n - 1 /\ i \in 1..n /\ p + i - 1 = k  BY <1>1, <1>4, <1>7 DEF j
  <2>. HIDE DEF i
  <2>. QED  BY <1>1, <1>4, <1>6, <2>1
<1>10. First(p + 3, j, <<close>>)
  <2>1. \A k \in p + 3..j - 1 : k \in Int  BY <1>1
  <2>2. \A k \in p + 3..j - 1 : ~startswith(k, <<close>>)  BY <1>9, <2>1, Starts
  <2>3. startswith(j, <<close>>)  BY <1>7, <1>8, Starts
  <2>. QED  BY <2>2, <2>3 DEF First
<1>. QED  BY <1>3, <1>7, <1>10 DEF s, j

-----------------------------------------------------------------------------
(* Literals.  Each function defined by recursion has a solution, and so it *)
(* is one.                                                                 *)

\* m takes the backslash of each \" out of u.
Unquotes(m, u) ==
  /\ m[0] = <<>>
  /\ \A i \in 1..Len(u) :
       m[i] = IF i < Len(u) /\ u[i] = "\\" /\ u[i + 1] = "\"" THEN m[i - 1]
              ELSE Append(m[i - 1], u[i])

\* What a literal stands for is the last value of such a function.
LEMMA MeaningOf ==
  ASSUME NEW s, s[1] \in {Quote, "'"},
         SubSeq(s, 2, Len(s) - 1) \in Seq(STRING)
  PROVE  \E m : /\ Unquotes(m, SubSeq(s, 2, Len(s) - 1))
                /\ Promise!Meaning(s) = m[Len(SubSeq(s, 2, Len(s) - 1))]
<1>. DEFINE u == SubSeq(s, 2, Len(s) - 1)
            L == Len(u)
            Drop(i) == i < Len(u) /\ u[i] = "\\" /\ u[i + 1] = "\""
            Value(g) == [i \in 0..Len(u) |->
                           IF i = 0 THEN <<>>
                           ELSE IF i < Len(u) /\ u[i] = "\\" /\ u[i + 1] = "\"" THEN g[i - 1]
                           ELSE Append(g[i - 1], u[i])]
            step == [i \in 1..L |-> [v \in Seq(STRING) |-> IF Drop(i) THEN v ELSE Append(v, u[i])]]
            m == CHOOSE g : g = Value(g)
<1>1. Promise!Meaning(s) = m[L]  BY DEF Promise!Meaning, Quote
<1>2. u \in Seq(STRING) /\ L \in Nat /\ L = Len(u)  OBVIOUS
<1>. HIDE DEF u, L
<1>3. \A i \in 1..L : u[i] \in STRING  BY <1>2
<1>4. step \in Steps(L, Seq(STRING))
  <2>. HIDE DEF Drop
  <2>1. \A i \in 1..L : \A v \in Seq(STRING) : (IF Drop(i) THEN v ELSE Append(v, u[i])) \in Seq(STRING)
    BY <1>3, AppendProperties
  <2>. QED  BY <2>1 DEF Steps
<1>5. PICK f : IsRun(f, L, Seq(STRING), <<>>, step)
  <2>1. <<>> \in Seq(STRING)  OBVIOUS
  <2>. HIDE DEF step
  <2>. QED  BY <1>2, <1>4, <2>1, Recursion
<1>6. f = Value(f)
  <2>1. f \in [0..L -> Seq(STRING)] /\ f[0] = <<>>  BY <1>5 DEF IsRun
  <2>2. ASSUME NEW i \in 1..L
        PROVE  f[i] = IF Drop(i) THEN f[i - 1] ELSE Append(f[i - 1], u[i])
    <3>1. i - 1 \in 0..L  BY <1>2
    <3>2. f[i - 1] \in Seq(STRING)  BY <2>1, <3>1
    <3>3. f[i] = step[i][f[i - 1]]  BY <1>5 DEF IsRun
    <3>. HIDE DEF Drop
    <3>. QED  BY <3>2, <3>3
  <2>3. \A i \in 0..L : i = 0 \/ i \in 1..L  BY <1>2
  <2>4. \A i \in 0..L : f[i] = Value(f)[i]  BY <1>2, <2>1, <2>2, <2>3
  <2>5. /\ f = [i \in 0..L |-> f[i]]
        /\ Value(f) = [i \in 0..L |-> Value(f)[i]]
    BY <1>2, <2>1
  <2>. HIDE DEF Value
  <2>. QED  BY <2>4, <2>5
<1>7. m = Value(m)
  <2>. HIDE DEF Value
  <2>. QED  BY <1>6
<1>. HIDE DEF m
<1>8. \A i \in 0..L : m[i] = Value(m)[i]
  <2>. HIDE DEF Value
  <2>. QED  BY <1>7
<1>9. Unquotes(m, u)
  <2>1. 0 \in 0..L /\ \A i \in 1..L : i \in 0..L /\ i # 0  BY <1>2
  <2>2. m[0] = <<>>  BY <1>2, <1>8, <2>1
  <2>. QED  BY <1>2, <1>8, <2>1, <2>2 DEF Unquotes
<1>. QED  BY <1>1, <1>9 DEF L, u

\* f takes the backslash of each \" out of the text from i up to j.
Reads_(f, i, j) ==
  /\ f[i - 1] = <<>>
  /\ \A k \in i..j - 1 :
       f[k] = IF startswith(k, Escape) THEN f[k - 1] ELSE Append(f[k - 1], text[k])

\* What exclude_double_quote returns is the last value of such a function.
LEMMA TextOf ==
  ASSUME text \in Inputs, NEW i \in 1..Len(text), NEW j \in i..Len(text)
  PROVE  \E f : Reads_(f, i, j) /\ exclude_double_quote(i, j) = f[j - 1]
<1>. DEFINE L == j - i
            Value(g) == [k \in i - 1..j - 1 |->
                           IF k = i - 1 THEN <<>>
                           ELSE IF startswith(k, Escape) THEN g[k - 1]
                           ELSE Append(g[k - 1], text[k])]
            step == [k \in 1..L |-> [v \in Seq(STRING) |->
                       IF startswith(k + i - 1, Escape) THEN v ELSE Append(v, text[k + i - 1])]]
            m == CHOOSE g : g = Value(g)
<1>1. exclude_double_quote(i, j) = m[j - 1]  BY DEF exclude_double_quote
<1>2. /\ Len(text) \in Nat /\ i \in Int /\ j \in Int /\ L \in Nat
      /\ text \in Seq(STRING)
  BY Text, TokenizerAssumption
<1>3. \A k \in 1..L : k + i - 1 \in 1..Len(text)  BY <1>2
<1>4. \A k \in 1..L : text[k + i - 1] \in STRING  BY <1>2, <1>3, ElementOfSeq
<1>5. step \in Steps(L, Seq(STRING))
  <2>1. \A k \in 1..L : \A v \in Seq(STRING) :
          (IF startswith(k + i - 1, Escape) THEN v ELSE Append(v, text[k + i - 1])) \in Seq(STRING)
    BY <1>4, AppendProperties
  <2>. HIDE DEF L
  <2>. QED  BY <2>1 DEF Steps
<1>6. PICK g : IsRun(g, L, Seq(STRING), <<>>, step)
  <2>1. <<>> \in Seq(STRING)  OBVIOUS
  <2>. HIDE DEF step, L
  <2>. QED  BY <1>2, <1>5, <2>1, Recursion
<1>. DEFINE f == [k \in i - 1..j - 1 |-> g[k - (i - 1)]]
<1>7. \A k \in i - 1..j - 1 : f[k] = Value(f)[k]
  <2>1. SUFFICES ASSUME NEW k \in i - 1..j - 1  PROVE f[k] = Value(f)[k]  OBVIOUS
  <2>2. CASE k = i - 1
    <3>1. f[k] = g[0]  BY <1>2, <2>2
    <3>. QED  BY <1>6, <2>2, <3>1 DEF IsRun
  <2>3. CASE k \in i..j - 1
    <3>. DEFINE h == k - (i - 1)
    <3>1. h \in 1..L /\ h + i - 1 = k /\ k - 1 \in i - 1..j - 1 /\ (k - 1) - (i - 1) = h - 1
          /\ h - 1 \in 0..L /\ k # i - 1
      BY <1>2, <2>3
    <3>2. f[k] = g[h] /\ f[k - 1] = g[h - 1]  BY <3>1
    <3>3. g[h] = step[h][g[h - 1]] /\ g[h - 1] \in Seq(STRING)  BY <1>6, <3>1 DEF IsRun
    <3>. HIDE DEF h, f
    <3>4. g[h] = IF startswith(k, Escape) THEN g[h - 1] ELSE Append(g[h - 1], text[k])
      BY <3>1, <3>3
    <3>. QED  BY <3>1, <3>2, <3>4
  <2>. QED  BY <1>2, <2>2, <2>3
<1>8. f = Value(f)
  <2>1. /\ f = [k \in i - 1..j - 1 |-> f[k]]
        /\ Value(f) = [k \in i - 1..j - 1 |-> Value(f)[k]]
    OBVIOUS
  <2>. HIDE DEF Value, f
  <2>. QED  BY <1>7, <2>1
<1>9. m = Value(m)
  <2>. HIDE DEF Value, f
  <2>. QED  BY <1>8
<1>. HIDE DEF m
<1>10. \A k \in i - 1..j - 1 : m[k] = Value(m)[k]
  <2>. HIDE DEF Value
  <2>. QED  BY <1>9
<1>11. Reads_(m, i, j)
  <2>1. i - 1 \in i - 1..j - 1 /\ \A k \in i..j - 1 : k \in i - 1..j - 1 /\ k # i - 1  BY <1>2
  <2>2. m[i - 1] = <<>>  BY <1>10, <2>1
  <2>. QED  BY <1>10, <2>1, <2>2 DEF Reads_
<1>. QED  BY <1>1, <1>11

\* A symbol that is escaped has a backslash before it.
LEMMA EscapedStep ==
  ASSUME NEW s, NEW i \in Nat \ {0}, Promise!Escaped(s, i)
  PROVE  i > 1 /\ s[i - 1] = "\\"
<1>. DEFINE L == i - 1
            Value(g) == [k \in 1..i |-> k > 1 /\ s[k - 1] = "\\" /\ ~g[k - 1]]
            step == [k \in 1..L |-> [v \in BOOLEAN |-> s[k] = "\\" /\ ~v]]
            m == CHOOSE g : g = Value(g)
<1>1. m[i]  BY DEF Promise!Escaped
<1>2. L \in Nat  OBVIOUS
<1>3. step \in Steps(L, BOOLEAN)  BY Zenon DEF Steps
<1>4. PICK g : IsRun(g, L, BOOLEAN, FALSE, step)
  <2>. HIDE DEF step, L
  <2>. QED  BY <1>2, <1>3, Recursion
<1>. DEFINE f == [k \in 1..i |-> g[k - 1]]
<1>5. \A k \in 1..i : f[k] = Value(f)[k]
  <2>1. SUFFICES ASSUME NEW k \in 1..i  PROVE f[k] = Value(f)[k]  OBVIOUS
  <2>2. CASE k = 1
    <3>1. f[k] = FALSE  BY <1>4, <2>2 DEF IsRun
    <3>2. ~(k > 1)  BY <2>2
    <3>3. Value(f)[k] = FALSE
      <4>. HIDE DEF f
      <4>. QED  BY <3>2, Zenon
    <3>. QED  BY <3>1, <3>3
  <2>3. CASE k > 1
    <3>1. k - 1 \in 1..L /\ k - 1 \in 1..i /\ (k - 1) - 1 \in 0..L  BY <2>3
    <3>2. f[k] = g[k - 1] /\ f[k - 1] = g[(k - 1) - 1]  BY <3>1
    <3>3. g[k - 1] = step[k - 1][g[(k - 1) - 1]] /\ g[(k - 1) - 1] \in BOOLEAN
      BY <1>4, <3>1 DEF IsRun
    <3>. HIDE DEF f
    <3>4. g[k - 1] = (s[k - 1] = "\\" /\ ~g[(k - 1) - 1])  BY <3>1, <3>3, Zenon
    <3>. QED  BY <2>3, <3>2, <3>4, Zenon
  <2>. QED  BY <2>2, <2>3
<1>6. f = Value(f)
  <2>1. /\ f = [k \in 1..i |-> f[k]]
        /\ Value(f) = [k \in 1..i |-> Value(f)[k]]
    OBVIOUS
  <2>. HIDE DEF Value, f
  <2>. QED  BY <1>5, <2>1
<1>7. m = Value(m)
  <2>. HIDE DEF Value, f
  <2>. QED  BY <1>6
<1>. HIDE DEF m
<1>8. m[i] = Value(m)[i]
  <2>. HIDE DEF Value
  <2>. QED  BY <1>7
<1>9. Value(m)[i] = (i > 1 /\ s[i - 1] = "\\" /\ ~m[i - 1])
  <2>1. i \in 1..i  OBVIOUS
  <2>. QED  BY <2>1, Zenon
<1>. QED  BY <1>1, <1>8, <1>9, Zenon

\* A character constant of the subset is one symbol between its quotes.
LEMMA CharReads ==
  ASSUME IInv, p \in 1..Len(text), NEW n, AtLexeme(n), At(p) = "'"
  PROVE  /\ n = 3 /\ At(p + 2) = "'"
         /\ Promise!Meaning(Promise!Part(n)) = <<At(p + 1)>>
<1>. DEFINE s == Promise!Part(n)
            u == SubSeq(s, 2, Len(s) - 1)
<1>1. /\ Len(s) = n /\ n \in Nat \ {0} /\ s[1] = At(p) /\ s \in Seq(STRING)
      /\ Promise!IsLexeme(s) /\ Promise!InSubset(s)
      /\ p \in Nat \ {0} /\ Len(text) \in Nat
      /\ \A k \in 1..n : s[k] = At(p + k - 1)
  BY Facts
<1>. HIDE DEF s
<1>2. n = 3
  <2>1. Promise!CharConstant(s)  BY <1>1, FirstSymbol
  <2>2. s[2] # "\\"  BY <1>1 DEF Promise!InSubset
  <2>. QED  BY <1>1, <2>1, <2>2 DEF Promise!CharConstant
<1>3. Promise!Quoted(s, "'")  BY <1>1, FirstSymbol DEF Promise!CharConstant
<1>4. s[2] = At(p + 1) /\ s[3] = At(p + 2)
  <2>1. 2 \in 1..n /\ 3 \in 1..n /\ p + 2 - 1 = p + 1 /\ p + 3 - 1 = p + 2  BY <1>1, <1>2
  <2>. QED  BY <1>1, <2>1
<1>5. At(p + 2) = "'"  BY <1>1, <1>2, <1>3, <1>4 DEF Promise!Quoted
<1>6. u \in Seq(STRING) /\ Len(u) = 1 /\ u[1] = At(p + 1)
  <2>1. ASSUME NEW t \in Seq(STRING), Len(t) = 3
        PROVE  SubSeq(t, 2, 2) \in Seq(STRING) /\ Len(SubSeq(t, 2, 2)) = 1 /\ SubSeq(t, 2, 2)[1] = t[2]
    <3>1. \A k \in 2..2 : t[k] \in STRING  BY <2>1
    <3>2. 2 \in Int /\ 2 <= 2 /\ 2 - 2 + 1 = 1 /\ 2 + 1 - 1 = 2 /\ 1 \in 1..1  OBVIOUS
    <3>. QED  BY <3>1, <3>2, SubSeqProperties
  <2>2. 3 - 1 = 2 /\ s \in Seq(STRING) /\ Len(s) = 3  BY <1>1, <1>2
  <2>3. u = SubSeq(s, 2, 2)  BY <2>2
  <2>. HIDE DEF u
  <2>. QED  BY <1>4, <2>1, <2>2, <2>3
<1>7. PICK m : Unquotes(m, u) /\ Promise!Meaning(s) = m[Len(u)]
  <2>1. s[1] \in {Quote, "'"}  BY <1>1
  <2>. QED  BY <1>6, <2>1, MeaningOf
<1>. HIDE DEF u
<1>8. m[1] = Append(<<>>, u[1])
  <2>1. 1 \in 1..Len(u) /\ ~(1 < Len(u)) /\ 1 - 1 = 0  BY <1>6
  <2>. QED  BY <1>7, <2>1 DEF Unquotes
<1>9. \A a : Append(<<>>, a) = <<a>>  OBVIOUS
<1>. QED  BY <1>2, <1>5, <1>6, <1>7, <1>8, <1>9 DEF s

\* A string literal of the subset between a quote at i - 1 and the one at e.
Literal(i, e) ==
  /\ i \in Nat \ {0} /\ e \in i..Len(text) /\ At(i - 1) = Quote /\ At(e) = Quote
  /\ At(e - 1) # "\\"
  /\ \A k \in i..e - 1 : At(k) = Quote => k - 1 >= i /\ At(k - 1) = "\\"
  /\ \A k \in i..e - 1 : At(k) = "\\" /\ At(k + 1) = Quote =>
       k + 3 <= e /\ At(k + 2) # "\\" /\ At(k + 2) # Quote

\* A string literal ahead is one in the sense of Literal.
LEMMA LiteralAhead ==
  ASSUME IInv, p \in 1..Len(text), NEW n, AtLexeme(n), At(p) = Quote
  PROVE  Literal(p + 1, p + n - 1)
<1>. DEFINE s == Promise!Part(n)
            i == p + 1
            e == p + n - 1
<1>1. /\ Len(s) = n /\ n \in Nat \ {0} /\ s[1] = At(p) /\ s \in Seq(STRING)
      /\ Promise!IsLexeme(s) /\ Promise!InSubset(s)
      /\ p \in Nat \ {0} /\ Len(text) \in Nat /\ p + n <= Len(text) + 1
      /\ \A k \in 1..n : s[k] = At(p + k - 1)
  BY Facts
<1>. HIDE DEF s
<1>2. Promise!Quoted(s, Quote)  BY <1>1, FirstSymbol
<1>3. /\ n > 1 /\ s[n] = Quote
      /\ \A k \in 2..n - 1 : s[k] = Quote => Promise!Escaped(s, k)
  BY <1>1, <1>2 DEF Promise!Quoted
<1>4. /\ s[n - 1] # "\\"
      /\ \A k \in 2..n - 2 : s[k] = "\\" /\ s[k + 1] = Quote =>
           k + 1 < n - 1 /\ s[k + 2] # "\\" /\ s[k + 2] # Quote
  BY <1>1 DEF Promise!InSubset, Quote
<1>5. i \in Nat \ {0} /\ e \in Int /\ i \in Int /\ e \in i..Len(text) /\ i - 1 = p  BY <1>1, <1>3
<1>6. \A k \in 1..n : p + k - 1 \in p..e  BY <1>1
<1>7. ASSUME NEW k \in p..e  PROVE k - p + 1 \in 1..n /\ At(k) = s[k - p + 1]
  <2>1. k - p + 1 \in 1..n /\ p + (k - p + 1) - 1 = k  BY <1>1, <1>7
  <2>. QED  BY <1>1, <2>1
<1>8. At(e) = Quote
  <2>1. e \in p..e /\ e - p + 1 = n  BY <1>1
  <2>. QED  BY <1>3, <1>7, <2>1
<1>9. At(e - 1) # "\\"
  <2>1. e - 1 \in p..e /\ (e - 1) - p + 1 = n - 1  BY <1>1, <1>3
  <2>. QED  BY <1>4, <1>7, <2>1
<1>10. ASSUME NEW k \in i..e - 1, At(k) = Quote  PROVE k - 1 >= i /\ At(k - 1) = "\\"
  <2>. DEFINE x == k - p + 1
  <2>1. x \in 2..n - 1 /\ x \in Nat \ {0} /\ k \in p..e /\ k - 1 \in p..e /\ (k - 1) - p + 1 = x - 1
    BY <1>1
  <2>2. s[x] = Quote  BY <1>7, <1>10, <2>1
  <2>. HIDE DEF x
  <2>3. s[x - 1] = "\\"  BY <1>3, <2>1, <2>2, EscapedStep
  <2>4. At(k - 1) = "\\"  BY <1>7, <2>1, <2>3
  <2>5. k - 1 # p  BY <2>4 DEF Quote
  <2>6. k - 1 >= i  BY <1>1, <2>1, <2>5
  <2>. QED  BY <2>4, <2>6
<1>11. ASSUME NEW k \in i..e - 1, At(k) = "\\", At(k + 1) = Quote
       PROVE  k + 3 <= e /\ At(k + 2) # "\\" /\ At(k + 2) # Quote
  <2>. DEFINE x == k - p + 1
  <2>1. k # e - 1  BY <1>9, <1>11
  <2>2. x \in 2..n - 2 /\ k \in p..e /\ k + 1 \in p..e /\ (k + 1) - p + 1 = x + 1
        /\ k + 2 \in p..e /\ (k + 2) - p + 1 = x + 2
    BY <1>1, <2>1
  <2>3. s[x] = "\\" /\ s[x + 1] = Quote /\ s[x + 2] = At(k + 2)  BY <1>7, <1>11, <2>2
  <2>4. x + 1 < n - 1 /\ s[x + 2] # "\\" /\ s[x + 2] # Quote
    <3>. HIDE DEF x
    <3>. QED  BY <1>4, <2>2, <2>3
  <2>5. k + 3 <= e  BY <1>1, <2>4
  <2>. QED  BY <2>3, <2>4, <2>5
<1>12. At(i - 1) = Quote  BY <1>5
<1>. HIDE DEF i, e
<1>13. Literal(i, e)  BY <1>5, <1>8, <1>9, <1>10, <1>11, <1>12 DEF Literal
<1>. QED  BY <1>13 DEF i, e

\* The loop of StringEnd: r says which symbols it stops at.
Reaches(r, i) ==
  \A j \in i..Len(text) :
    r[j] <=> \/ j = i
             \/ j > i /\ r[j - 1] /\ At(j - 1) # Quote /\ ~startswith(j - 1, Escape)
             \/ j > i + 2 /\ r[j - 3] /\ startswith(j - 3, Escape)

\* It stops at every symbol of a literal but the two behind a backslash that
\* escapes a quote.
Escapes(i, k) == k >= i /\ At(k) = "\\" /\ At(k + 1) = Quote
Stops(i, e, k) == k <= e /\ ~Escapes(i, k - 1) /\ ~Escapes(i, k - 2)

\* The symbols it stops at solve the recursion of the loop.
LEMMA StopsReach ==
  ASSUME text \in Inputs, NEW i, NEW e, Literal(i, e), NEW j \in i..Len(text)
  PROVE  Stops(i, e, j) <=>
           \/ j = i
           \/ j > i /\ Stops(i, e, j - 1) /\ At(j - 1) # Quote /\ ~startswith(j - 1, Escape)
           \/ j > i + 2 /\ Stops(i, e, j - 3) /\ startswith(j - 3, Escape)
<1>1. i \in Nat \ {0} /\ e \in i..Len(text) /\ Len(text) \in Nat /\ i \in Int /\ e \in Int /\ j \in Int
      /\ At(i - 1) = Quote /\ At(e) = Quote /\ At(e - 1) # "\\" /\ Quote # "\\"
  <2>1. i \in Nat \ {0} /\ e \in i..Len(text)  BY DEF Literal
  <2>2. At(i - 1) = Quote /\ At(e) = Quote /\ At(e - 1) # "\\"  BY DEF Literal
  <2>3. Quote # "\\"  BY DEF Quote
  <2>4. Len(text) \in Nat  BY Text
  <2>5. i \in Int /\ e \in Int /\ j \in Int  BY <2>1, <2>4
  <2>. QED  BY <2>1, <2>2, <2>3, <2>4, <2>5
<1>2. \A k \in i..e - 1 : At(k) = Quote => k - 1 >= i /\ At(k - 1) = "\\"  BY DEF Literal
<1>3. \A k \in i..e - 1 : At(k) = "\\" /\ At(k + 1) = Quote =>
        k + 3 <= e /\ At(k + 2) # "\\" /\ At(k + 2) # Quote
  BY DEF Literal
<1>4. \A k \in Int : startswith(k, Escape) <=> At(k) = "\\" /\ At(k + 1) = Quote
  BY Starts DEF Escape, Backslash
<1>5. \A k \in Int : Escapes(i, k) <=> k >= i /\ At(k) = "\\" /\ At(k + 1) = Quote
  BY DEF Escapes
<1>6. \A k \in Int : Stops(i, e, k) <=> k <= e /\ ~Escapes(i, k - 1) /\ ~Escapes(i, k - 2)
  BY DEF Stops
<1>7. ASSUME NEW k \in Int, Escapes(i, k), k <= e
      PROVE  /\ k + 3 <= e /\ ~Escapes(i, k + 1) /\ ~Escapes(i, k + 2)
             /\ ~Escapes(i, k - 1) /\ ~Escapes(i, k - 2)
  <2>1. k >= i /\ At(k) = "\\" /\ At(k + 1) = Quote  BY <1>5, <1>7
  <2>2. k \in i..e - 1  BY <1>1, <1>7, <2>1
  <2>3. k + 3 <= e /\ At(k + 2) # "\\"  BY <1>3, <2>1, <2>2
  <2>4. ~Escapes(i, k + 1) /\ ~Escapes(i, k + 2)
    <3>1. k + 1 \in Int /\ k + 2 \in Int  OBVIOUS
    <3>. QED  BY <1>1, <1>5, <2>1, <2>3, <3>1
  <2>5. ~Escapes(i, k - 1)
    <3>1. k - 1 \in Int /\ (k - 1) + 1 = k  OBVIOUS
    <3>. QED  BY <1>1, <1>5, <2>1, <3>1
  <2>6. ~Escapes(i, k - 2)
    <3>1. k - 2 \in Int /\ (k - 2) + 2 = k /\ (k - 2 >= i => k - 2 \in i..e - 1)
      BY <1>1, <2>2
    <3>2. ASSUME Escapes(i, k - 2)  PROVE FALSE
      <4>1. At(k - 2) = "\\" /\ At((k - 2) + 1) = Quote /\ k - 2 \in i..e - 1
        BY <1>5, <3>1, <3>2
      <4>2. At((k - 2) + 2) # "\\"  BY <1>3, <4>1
      <4>. QED  BY <2>1, <3>1, <4>2
    <3>. QED  BY <3>2
  <2>. QED  BY <2>3, <2>4, <2>5, <2>6
<1>8. ASSUME NEW k \in Int, k >= i, k < e, At(k) = Quote  PROVE Escapes(i, k - 1)
  <2>1. k \in i..e - 1 /\ k - 1 \in Int /\ (k - 1) + 1 = k  BY <1>1, <1>8
  <2>. QED  BY <1>2, <1>5, <1>8, <2>1
<1>9. CASE j = i
  <2>1. ~Escapes(i, j - 1) /\ ~Escapes(i, j - 2) /\ j <= e
    <3>1. j - 1 \in Int /\ j - 2 \in Int /\ ~(j - 1 >= i) /\ ~(j - 2 >= i) /\ j <= e
      BY <1>1, <1>9
    <3>. QED  BY <1>5, <3>1
  <2>. QED  BY <1>1, <1>6, <1>9, <2>1
<1>10. CASE j > i
  <2>1. /\ j - 1 \in Int /\ j - 2 \in Int /\ j - 3 \in Int /\ j - 4 \in Int /\ j - 5 \in Int
        /\ (j - 1) - 1 = j - 2 /\ (j - 1) - 2 = j - 3
        /\ (j - 3) - 1 = j - 4 /\ (j - 3) - 2 = j - 5
        /\ (j - 3) + 1 = j - 2 /\ (j - 3) + 2 = j - 1 /\ (j - 3) + 3 = j
        /\ j # i /\ j - 1 >= i /\ (j - 3 >= i <=> j > i + 2)
        /\ (j <= e => j - 1 <= e /\ j - 3 <= e /\ j - 1 < e)
        /\ (j - 1 <= e /\ j - 1 # e => j <= e)
    BY <1>1, <1>10
  <2>2. ASSUME Stops(i, e, j)
        PROVE  \/ Stops(i, e, j - 1) /\ At(j - 1) # Quote /\ ~startswith(j - 1, Escape)
               \/ j > i + 2 /\ Stops(i, e, j - 3) /\ startswith(j - 3, Escape)
    <3>1. j <= e /\ ~Escapes(i, j - 1) /\ ~Escapes(i, j - 2)  BY <1>1, <1>6, <2>2
    <3>2. CASE Escapes(i, j - 3)
      <4>1. ~Escapes(i, j - 4) /\ ~Escapes(i, j - 5)  BY <1>7, <2>1, <3>1, <3>2
      <4>2. Stops(i, e, j - 3)  BY <1>6, <2>1, <3>1, <4>1
      <4>. QED  BY <1>4, <1>5, <2>1, <3>2, <4>2
    <3>3. CASE ~Escapes(i, j - 3)
      <4>1. Stops(i, e, j - 1)  BY <1>6, <2>1, <3>1, <3>3
      <4>2. At(j - 1) # Quote  BY <1>8, <2>1, <3>1
      <4>3. ~startswith(j - 1, Escape)  BY <1>4, <1>5, <2>1, <3>1
      <4>. QED  BY <4>1, <4>2, <4>3
    <3>. QED  BY <3>2, <3>3
  <2>3. ASSUME Stops(i, e, j - 1), At(j - 1) # Quote, ~startswith(j - 1, Escape)
        PROVE  Stops(i, e, j)
    <3>1. j - 1 <= e /\ ~Escapes(i, j - 2)  BY <1>6, <2>1, <2>3
    <3>2. j - 1 # e  BY <1>1, <2>3
    <3>3. ~Escapes(i, j - 1)  BY <1>4, <1>5, <2>1, <2>3
    <3>. QED  BY <1>1, <1>6, <2>1, <3>1, <3>2, <3>3
  <2>4. ASSUME j > i + 2, Stops(i, e, j - 3), startswith(j - 3, Escape)
        PROVE  Stops(i, e, j)
    <3>1. Escapes(i, j - 3)  BY <1>4, <1>5, <2>1, <2>4
    <3>2. j - 3 <= e  BY <1>6, <2>1, <2>4
    <3>3. j <= e /\ ~Escapes(i, j - 2) /\ ~Escapes(i, j - 1)  BY <1>7, <2>1, <3>1, <3>2
    <3>. QED  BY <1>1, <1>6, <3>3
  <2>. QED  BY <1>10, <2>1, <2>2, <2>3, <2>4
<1>. QED  BY <1>1, <1>9, <1>10

\* They are the only solution.
LEMMA OneWay ==
  ASSUME text \in Inputs, NEW i, NEW e, Literal(i, e), NEW r, Reaches(r, i)
  PROVE  \A j \in i..Len(text) : r[j] <=> Stops(i, e, j)
<1>. DEFINE T == {j \in i..Len(text) : ~(r[j] <=> Stops(i, e, j))}
<1>1. i \in Nat /\ Len(text) \in Nat  BY Text DEF Literal
<1>2. SUFFICES ASSUME T # {}  PROVE FALSE  OBVIOUS
<1>3. PICK x \in T : \A y \in T : x <= y
  <2>1. T \subseteq Nat  BY <1>1
  <2>. HIDE DEF T
  <2>. QED  BY <1>2, <2>1, Least
<1>4. /\ x \in i..Len(text) /\ x \in Int /\ x - 1 \in Int /\ x - 3 \in Int
      /\ ~(x <= x - 1) /\ ~(x <= x - 3)
      /\ x > i => x - 1 \in i..Len(text)
      /\ x > i + 2 => x - 3 \in i..Len(text)
  BY <1>1
<1>5. /\ x > i => (r[x - 1] <=> Stops(i, e, x - 1))
      /\ x > i + 2 => (r[x - 3] <=> Stops(i, e, x - 3))
  BY <1>3, <1>4
<1>6. r[x] <=> \/ x = i
               \/ x > i /\ r[x - 1] /\ At(x - 1) # Quote /\ ~startswith(x - 1, Escape)
               \/ x > i + 2 /\ r[x - 3] /\ startswith(x - 3, Escape)
  BY <1>4, Zenon DEF Reaches
<1>7. Stops(i, e, x) <=>
        \/ x = i
        \/ x > i /\ Stops(i, e, x - 1) /\ At(x - 1) # Quote /\ ~startswith(x - 1, Escape)
        \/ x > i + 2 /\ Stops(i, e, x - 3) /\ startswith(x - 3, Escape)
  BY <1>4, StopsReach
<1>8. r[x] <=> Stops(i, e, x)  BY <1>5, <1>6, <1>7, Zenon
<1>. QED  BY <1>3, <1>8

\* StringEnd is defined by such an r.
LEMMA EndOf ==
  ASSUME text \in Inputs, NEW i, NEW e, Literal(i, e)
  PROVE  \E r : Reaches(r, i) /\ StringEnd(i) = {j \in i..Len(text) : At(j) = Quote /\ r[j]}
<1>. DEFINE Value(g) ==
              [j \in i..Len(text) |->
                 \/ j = i
                 \/ j > i /\ g[j - 1] /\ At(j - 1) # Quote /\ ~startswith(j - 1, Escape)
                 \/ j > i + 2 /\ g[j - 3] /\ startswith(j - 3, Escape)]
            f == [j \in i..Len(text) |-> Stops(i, e, j)]
            r == CHOOSE g : g = Value(g)
<1>1. StringEnd(i) = {j \in i..Len(text) : At(j) = Quote /\ r[j]}  BY DEF StringEnd
<1>2. ASSUME NEW j \in i..Len(text)  PROVE Value(f)[j] = Stops(i, e, j)
  <2>1. i \in Nat /\ Len(text) \in Nat  BY Text DEF Literal
  <2>2. /\ j > i => j - 1 \in i..Len(text)
        /\ j > i + 2 => j - 3 \in i..Len(text)
    BY <2>1
  <2>3. /\ j > i => f[j - 1] = Stops(i, e, j - 1)
        /\ j > i + 2 => f[j - 3] = Stops(i, e, j - 3)
    BY <2>2
  <2>4. Stops(i, e, j) <=>
           \/ j = i
           \/ j > i /\ Stops(i, e, j - 1) /\ At(j - 1) # Quote /\ ~startswith(j - 1, Escape)
           \/ j > i + 2 /\ Stops(i, e, j - 3) /\ startswith(j - 3, Escape)
    BY StopsReach
  <2>. DEFINE now == Stops(i, e, j)
  <2>5. now \in BOOLEAN  BY Zenon DEF Stops
  <2>6. Value(f)[j] =
           (\/ j = i
            \/ j > i /\ f[j - 1] /\ At(j - 1) # Quote /\ ~startswith(j - 1, Escape)
            \/ j > i + 2 /\ f[j - 3] /\ startswith(j - 3, Escape))
    <3>. HIDE DEF f
    <3>. QED  BY Zenon
  <2>. HIDE DEF f, Value
  <2>. QED  BY <2>3, <2>4, <2>5, <2>6, Zenon
<1>3. f = Value(f)
  <2>1. /\ f = [j \in i..Len(text) |-> f[j]]
        /\ Value(f) = [j \in i..Len(text) |-> Value(f)[j]]
    OBVIOUS
  <2>2. \A j \in i..Len(text) : f[j] = Stops(i, e, j)  OBVIOUS
  <2>. HIDE DEF Value, f
  <2>. QED  BY <1>2, <2>1, <2>2
<1>4. r = Value(r)
  <2>. HIDE DEF Value, f
  <2>. QED  BY <1>3
<1>. HIDE DEF r
<1>5. \A j \in i..Len(text) : r[j] = Value(r)[j]
  <2>. HIDE DEF Value
  <2>. QED  BY <1>4
<1>6. Reaches(r, i)  BY <1>5, Zenon DEF Reaches
<1>. QED  BY <1>1, <1>6

\* tokenize() takes a string literal of the subset as C does.
LEMMA StringReads ==
  ASSUME IInv, p \in 1..Len(text), NEW n, AtLexeme(n), At(p) = Quote
  PROVE  /\ StringEnd(p + 1) = {p + n - 1}
         /\ exclude_double_quote(p + 1, p + n - 1) = Promise!Meaning(Promise!Part(n))
<1>. DEFINE s == Promise!Part(n)
            u == SubSeq(s, 2, Len(s) - 1)
            i == p + 1
            e == p + n - 1
            L == n - 2
<1>1. /\ Len(s) = n /\ n \in Nat \ {0} /\ s[1] = At(p) /\ s \in Seq(STRING)
      /\ p \in Nat \ {0} /\ Len(text) \in Nat /\ p + n <= Len(text) + 1
      /\ \A k \in 1..n : s[k] = At(p + k - 1)
      /\ text \in Inputs
  BY Facts DEF IInv
<1>. HIDE DEF s
<1>2. Literal(i, e)  BY LiteralAhead
<1>3. /\ i \in Int /\ e \in Int /\ i \in 1..Len(text) /\ e \in i..Len(text) /\ L \in Nat /\ n >= 2
      /\ i - 1 = p /\ e - 1 = p + L
  <2>1. e \in i..Len(text)  BY <1>2 DEF Literal
  <2>. QED  BY <1>1, <2>1
<1>4. /\ At(e) = Quote /\ At(e - 1) # "\\"
      /\ \A k \in i..e - 1 : At(k) = Quote => k - 1 >= i /\ At(k - 1) = "\\"
      /\ \A k \in i..e - 1 : At(k) = "\\" /\ At(k + 1) = Quote => k + 3 <= e
  <2>. HIDE DEF i, e
  <2>. QED  BY <1>2 DEF Literal
<1>. HIDE DEF i, e, L
<1>5. StringEnd(i) = {e}
  <2>1. PICK r : Reaches(r, i) /\ StringEnd(i) = {j \in i..Len(text) : At(j) = Quote /\ r[j]}
    BY <1>1, <1>2, EndOf
  <2>2. \A j \in i..Len(text) : r[j] <=> Stops(i, e, j)  BY <1>1, <1>2, <2>1, OneWay
  <2>3. Stops(i, e, e)
    <3>1. ~Escapes(i, e - 1)  BY <1>4 DEF Escapes
    <3>2. ~Escapes(i, e - 2)
      <4>1. SUFFICES ASSUME Escapes(i, e - 2)  PROVE FALSE  OBVIOUS
      <4>2. e - 2 >= i /\ At(e - 2) = "\\" /\ At((e - 2) + 1) = Quote  BY <4>1 DEF Escapes
      <4>3. e - 2 \in i..e - 1 /\ ~((e - 2) + 3 <= e)  BY <1>3, <4>2
      <4>. QED  BY <1>4, <4>2, <4>3
    <3>. QED  BY <1>3, <3>1, <3>2 DEF Stops
  <2>4. ASSUME NEW j \in i..Len(text), At(j) = Quote, Stops(i, e, j)  PROVE j = e
    <3>1. SUFFICES ASSUME j # e  PROVE FALSE  OBVIOUS
    <3>2. j \in Int /\ j <= e /\ ~Escapes(i, j - 1)  BY <1>1, <1>3, <2>4 DEF Stops
    <3>3. j \in i..e - 1 /\ (j - 1) + 1 = j  BY <1>3, <3>1, <3>2
    <3>4. j - 1 >= i /\ At(j - 1) = "\\"  BY <1>4, <2>4, <3>3
    <3>. QED  BY <2>4, <3>2, <3>3, <3>4 DEF Escapes
  <2>5. \A j \in i..Len(text) : At(j) = Quote /\ r[j] <=> j = e
    BY <1>3, <1>4, <2>2, <2>3, <2>4, Zenon
  <2>. QED  BY <1>3, <2>1, <2>5
<1>6. u \in Seq(STRING) /\ Len(u) = L /\ \A k \in 1..L : u[k] = At(p + k)
  <2>1. \A k \in 2..n - 1 : s[k] \in STRING  BY <1>1
  <2>2. 2 \in Int /\ n - 1 \in Int /\ (n - 1) - 2 + 1 = L /\ (2 <= n - 1 \/ L = 0)
    BY <1>1, <1>3 DEF L
  <2>3. /\ SubSeq(s, 2, n - 1) \in Seq(STRING) /\ Len(SubSeq(s, 2, n - 1)) = L
        /\ \A k \in 1..L : SubSeq(s, 2, n - 1)[k] = s[2 + k - 1]
    BY <2>1, <2>2, SubSeqProperties
  <2>4. u = SubSeq(s, 2, n - 1)  BY <1>1
  <2>5. \A k \in 1..L : 2 + k - 1 \in 1..n /\ p + (2 + k - 1) - 1 = p + k  BY <1>1, <1>3 DEF L
  <2>. HIDE DEF u
  <2>. QED  BY <1>1, <2>3, <2>4, <2>5
<1>7. PICK m : Unquotes(m, u) /\ Promise!Meaning(s) = m[Len(u)]
  <2>1. s[1] \in {Quote, "'"}  BY <1>1
  <2>. QED  BY <1>6, <2>1, MeaningOf
<1>. HIDE DEF u
<1>8. PICK f : Reads_(f, i, e) /\ exclude_double_quote(i, e) = f[e - 1]
  BY <1>1, <1>3, TextOf
<1>. DEFINE T == {k \in 0..L : m[k] = f[p + k]}
<1>9. 0 \in T
  <2>1. 0 \in 0..L /\ p + 0 = i - 1  BY <1>1, <1>3
  <2>. QED  BY <1>7, <1>8, <2>1 DEF Unquotes, Reads_
<1>10. ASSUME NEW k \in 1..L, k - 1 \in T  PROVE k \in T
  <2>1. /\ k \in 0..L /\ p + k \in i..e - 1 /\ p + k \in Int /\ p + (k - 1) = (p + k) - 1
        /\ p + k \in 1..Len(text) /\ (p + k) + 1 = p + (k + 1)
        /\ (k < L => k + 1 \in 1..L) /\ (~(k < L) => p + k = e - 1)
    BY <1>1, <1>3
  <2>2. startswith(p + k, Escape) <=> k < Len(u) /\ u[k] = "\\" /\ u[k + 1] = "\""
    <3>1. startswith(p + k, Escape) <=> At(p + k) = "\\" /\ At((p + k) + 1) = "\""
      BY <2>1, Starts DEF Escape, Backslash, Quote
    <3>2. u[k] = At(p + k) /\ (k < L => u[k + 1] = At(p + (k + 1)))  BY <1>6, <2>1
    <3>. QED  BY <1>4, <1>6, <2>1, <3>1, <3>2
  <2>3. u[k] = text[p + k]  BY <1>6, <2>1 DEF At
  <2>4. m[k - 1] = f[(p + k) - 1]  BY <1>10, <2>1
  <2>5. m[k] = IF startswith(p + k, Escape) THEN m[k - 1] ELSE Append(m[k - 1], u[k])
    BY <1>6, <1>7, <2>2 DEF Unquotes
  <2>6. f[p + k] = IF startswith(p + k, Escape) THEN f[(p + k) - 1] ELSE Append(f[(p + k) - 1], text[p + k])
    BY <1>8, <2>1 DEF Reads_
  <2>. QED  BY <2>1, <2>3, <2>4, <2>5, <2>6
<1>11. L \in T
  <2>1. L \in Nat /\ L \in 0..L  BY <1>3
  <2>. HIDE DEF T
  <2>. QED  BY <1>9, <1>10, <2>1, Induct
<1>12. exclude_double_quote(i, e) = Promise!Meaning(s)
  BY <1>3, <1>6, <1>7, <1>8, <1>11
<1>. QED  BY <1>5, <1>12 DEF s, i, e
-----------------------------------------------------------------------------
(* Each rule is a step of CLexemes. *)

\* Where nothing is promised, every step is allowed.
LEMMA UndefinedAsC ==
  ASSUME Promise!Undefined, UNCHANGED text
  PROVE  StepAsC
BY DEF StepAsC, Promise!Next

\* A token other than a single / and the start of a #define.
LEMMA PlainAsC ==
  ASSUME IInv, Reading, NEW n, AtLexeme(n),
         At(p) \notin {" ", NL, "/", "#include", "#define"},
         NEW kind, NEW str, new_token(kind, str, p + n, ends),
         Class(kind) = Promise!Class(Promise!Part(n)),
         str = Promise!Meaning(Promise!Part(n))
  PROVE  StepAsC
<1>1. p \in 1..Len(text)  BY ReadingAt
<1>. DEFINE s == Promise!Part(n)
<1>2. s[1] = At(p) /\ Len(s) = n /\ n \in Nat \ {0}  BY <1>1, Facts
<1>. HIDE DEF s
<1>3. ~Promise!Skipped(s)  BY <1>2, Classes
<1>4. s # <<"#define", " ">>
  <2>1. s[1] # "#define"  BY <1>2
  <2>2. <<"#define", " ">>[1] = "#define"  BY Tuples
  <2>. QED  BY <2>1, <2>2
<1>. QED  BY <1>3, <1>4, TokenAsC DEF s

\* White space.
LEMMA SpaceAsC == ASSUME IInv, Space  PROVE StepAsC
<1>1. Reading /\ At(p) \in {" ", NL} /\ Skip(p + 1)  BY DEF Space
<1>2. p \in 1..Len(text) /\ UNCHANGED text  BY <1>1, ReadingAt
<1>3. CASE Promise!Undefined  BY <1>2, <1>3, UndefinedAsC
<1>4. ASSUME NEW n, AtLexeme(n)  PROVE StepAsC
  <2>1. n = 1 /\ Promise!Skipped(Promise!Part(n))  BY <1>1, <1>2, <1>4, SpaceReads
  <2>2. Skip(p + n)  BY <1>1, <2>1
  <2>. QED  BY <1>1, <1>4, <2>1, <2>2, SkipAsC
<1>. QED  BY <1>1, <1>3, <1>4, Ahead

\* The header of an #include, or the overrun behind an unclosed one.
LEMMA IncludeAsC == ASSUME IInv, Include  PROVE StepAsC
<1>1. PICK open, close : Brackets(open, close) /\ Header(open, close)
  BY DEF Include, Brackets
<1>2. Reading /\ HeaderAt(open)  BY <1>1 DEF Header, HeaderAt
<1>3. p \in 1..Len(text) /\ Len(text) \in Nat /\ UNCHANGED text /\ mode = "run"
  BY <1>2, ReadingAt
<1>4. CASE Promise!Undefined  BY <1>3, <1>4, UndefinedAsC
<1>5. CASE Stop("overrun")  BY <1>3, <1>5, StopAsC
<1>6. ASSUME NEW n, AtLexeme(n),
             NEW j \in p + 3..Len(text), First(p + 3, j, <<close>>), Skip(j + 1)
      PROVE  StepAsC
  <2>1. /\ Promise!Header(Promise!Part(n))
        /\ p + n - 1 \in p + 3..Len(text) /\ First(p + 3, p + n - 1, <<close>>)
    BY <1>1, <1>2, <1>3, <1>6, HeaderReads
  <2>2. n \in Int  BY <1>3, <1>6, Facts
  <2>. DEFINE i == p + 3
              e == p + n - 1
  <2>3. i \in Int /\ e \in Int /\ j \in Int /\ i <= e /\ i <= j /\ e + 1 = p + n
    BY <1>3, <2>1, <2>2
  <2>4. First(i, j, <<close>>) /\ First(i, e, <<close>>)  BY <1>6, <2>1
  <2>. HIDE DEF i, e
  <2>5. j = e  BY <2>3, <2>4, OneFirst
  <2>6. Skip(p + n)  BY <1>6, <2>3, <2>5
  <2>7. Promise!Skipped(Promise!Part(n))  BY <2>1 DEF Promise!Skipped
  <2>. QED  BY <1>2, <1>6, <2>6, <2>7, SkipAsC
<1>7. \/ Stop("overrun")
      \/ \E j \in p + 3..Len(text) : First(p + 3, j, <<close>>) /\ Skip(j + 1)
  BY <1>1 DEF Header
<1>. QED  BY <1>2, <1>4, <1>5, <1>6, <1>7, Ahead

\* Comments, or the error for an unclosed one.
LEMMA CommentsAsC == ASSUME IInv, LineComment \/ BlockComment  PROVE StepAsC
<1>1. Reading  BY DEF LineComment, BlockComment
<1>2. p \in 1..Len(text) /\ Len(text) \in Nat /\ UNCHANGED text /\ mode = "run"
  BY <1>1, ReadingAt
<1>3. CASE Promise!Undefined  BY <1>2, <1>3, UndefinedAsC
<1>4. ASSUME NEW n, AtLexeme(n), LineComment  PROVE StepAsC
  <2>1. PICK j \in p + 2..Len(text) : First(p + 2, j, <<NL>>) /\ Skip(j)
    BY <1>4 DEF LineComment
  <2>2. startswith(p, <<"/", "/">>)  BY <1>4 DEF LineComment
  <2>3. j = p + n /\ Promise!LineComment(Promise!Part(n))
    BY <1>2, <1>4, <2>1, <2>2, LineReads
  <2>4. Skip(p + n)  BY <2>1, <2>3
  <2>5. Promise!Skipped(Promise!Part(n))  BY <2>3 DEF Promise!Skipped
  <2>. QED  BY <1>1, <1>4, <2>4, <2>5, SkipAsC
<1>5. ASSUME NEW n, AtLexeme(n), BlockComment  PROVE StepAsC
  <2>1. startswith(p, <<"/", "*">>)  BY <1>5 DEF BlockComment
  <2>2. CASE Stop("error")  BY <1>2, <2>2, StopAsC
  <2>3. ASSUME NEW j \in p + 2..Len(text), First(p + 2, j, <<"*", "/">>), Skip(j + 2)
        PROVE  StepAsC
    <3>1. /\ Promise!BlockComment(Promise!Part(n))
          /\ p + n - 2 \in p + 2..Len(text) /\ First(p + 2, p + n - 2, <<"*", "/">>)
      BY <1>2, <1>5, <2>1, BlockReads
    <3>2. n \in Int  BY <1>2, <1>5, Facts
    <3>. DEFINE i == p + 2
                e == p + n - 2
    <3>3. i \in Int /\ e \in Int /\ j \in Int /\ i <= e /\ i <= j /\ e + 2 = p + n
      BY <1>2, <3>1, <3>2
    <3>4. First(i, j, <<"*", "/">>) /\ First(i, e, <<"*", "/">>)  BY <2>3, <3>1
    <3>. HIDE DEF i, e
    <3>5. j = e  BY <3>3, <3>4, OneFirst
    <3>6. Skip(p + n)  BY <2>3, <3>3, <3>5
    <3>7. Promise!Skipped(Promise!Part(n))  BY <3>1 DEF Promise!Skipped
    <3>. QED  BY <1>1, <1>5, <3>6, <3>7, SkipAsC
  <2>. QED  BY <1>5, <2>2, <2>3 DEF BlockComment
<1>. QED  BY <1>1, <1>3, <1>4, <1>5, Ahead

\* Keywords and numbers.
LEMMA WordsAsC == ASSUME IInv, KeywordToken \/ Number  PROVE StepAsC
<1>1. Reading  BY DEF KeywordToken, Number
<1>2. p \in 1..Len(text) /\ Len(text) \in Nat /\ UNCHANGED text /\ p \in Int
  BY <1>1, ReadingAt
<1>3. CASE Promise!Undefined  BY <1>2, <1>3, UndefinedAsC
<1>4. /\ \A c \in is_alnum : c \notin {" ", NL, "/", "#include", "#define", Quote, "'"}
      /\ \A c \in Keyword : c \notin Digit
      /\ Digit \subseteq is_alnum /\ Keyword \subseteq is_alnum
  BY DEF is_alnum, Letter, Digit, Keyword, NL, Quote
<1>5. ASSUME NEW n, AtLexeme(n), KeywordToken  PROVE StepAsC
  <2>1. At(p) \in Keyword /\ At(p + 1) \in Follows[At(p)] /\ new_token(At(p), <<At(p)>>, p + 1, ends)
    BY <1>5 DEF KeywordToken, IsKeyword
  <2>2. At(p) \in is_alnum /\ At(p) \notin Digit  BY <1>4, <2>1
  <2>3. At(p + 1) \notin is_alnum
    <3>1. \A w \in Keyword : Follows[w] \subseteq {" ", ";", "(", "{", ")", "*"}  BY DEF Follows
    <3>2. At(p + 1) \in {" ", ";", "(", "{", ")", "*"}  BY <2>1, <3>1
    <3>3. \A c \in {" ", ";", "(", "{", ")", "*"} : c \notin is_alnum
      BY DEF is_alnum, Letter, Digit, Keyword
    <3>. QED  BY <3>2, <3>3
  <2>4. Promise!Word(Promise!Part(n)) /\ Run(p, p + n, is_alnum)
    BY <1>2, <1>5, <2>2, WordReads
  <2>5. n \in Nat \ {0} /\ Len(Promise!Part(n)) = n /\ Promise!Part(n)[1] = At(p)
        /\ Promise!Part(n) \in Seq(STRING)
    BY <1>2, <1>5, Facts
  <2>6. n = 1
    <3>1. Run(p, p + 1, is_alnum)
      <4>1. \A k \in p..(p + 1) - 1 : k = p  BY <1>2
      <4>. QED  BY <2>2, <2>3, <4>1 DEF Run
    <3>. DEFINE a == p + 1
                b == p + n
    <3>2. a \in Int /\ b \in Int /\ p <= a /\ p <= b /\ (a = b => n = 1)  BY <1>2, <2>5
    <3>3. Run(p, a, is_alnum) /\ Run(p, b, is_alnum)  BY <2>4, <3>1
    <3>. HIDE DEF a, b
    <3>4. a = b  BY <1>2, <3>2, <3>3, OneRun
    <3>. QED  BY <3>2, <3>4
  <2>7. Promise!Part(n) = <<At(p)>>
    <3>1. ASSUME NEW s \in Seq(STRING), Len(s) = 1  PROVE s = <<s[1]>>  BY <3>1
    <3>. QED  BY <2>5, <2>6, <3>1
  <2>8. Promise!Meaning(Promise!Part(n)) = <<At(p)>>
        /\ Promise!Class(Promise!Part(n)) = "WORD"
    BY <1>4, <2>2, <2>4, <2>5, <2>7, Classes
  <2>9. Class(At(p)) = "WORD"  BY <2>1 DEF Class
  <2>10. new_token(At(p), <<At(p)>>, p + n, ends)  BY <2>1, <2>6
  <2>. QED  BY <1>1, <1>4, <1>5, <2>2, <2>8, <2>9, <2>10, PlainAsC
<1>6. ASSUME NEW n, AtLexeme(n), Number  PROVE StepAsC
  <2>1. PICK j \in p..Len(text) : Run(p, j, Digit) /\ new_token("NUM", Part(p, j), j, ends)
    BY <1>6 DEF Number
  <2>2. At(p) \in Digit /\ At(p) \in is_alnum  BY <1>4, <1>6 DEF Number
  <2>3. /\ Promise!PpNumber(Promise!Part(n)) /\ Run(p, p + n, is_alnum)
        /\ \A k \in p..p + n - 1 : At(k) \in Digit
    BY <1>2, <1>6, <2>2, WordReads
  <2>4. n \in Nat \ {0} /\ Len(Promise!Part(n)) = n /\ Promise!Part(n)[1] = At(p)
    BY <1>2, <1>6, Facts
  <2>5. j = p + n
    <3>. DEFINE b == p + n
    <3>1. b \in Int /\ j \in Int /\ p <= b /\ p <= j /\ b - 1 = p + n - 1  BY <1>2, <2>4
    <3>2. Run(p, b, Digit)  BY <1>4, <2>3, <3>1 DEF Run
    <3>. HIDE DEF b
    <3>3. j = b  BY <1>2, <2>1, <3>1, <3>2, OneRun
    <3>. QED  BY <3>3 DEF b
  <2>6. Part(p, j) = Promise!Part(n)
    <3>1. j - 1 = p + n - 1  BY <1>2, <2>4, <2>5
    <3>. QED  BY <3>1 DEF Part, Promise!Part
  <2>7. Promise!Meaning(Promise!Part(n)) = Promise!Part(n) /\ Promise!Class(Promise!Part(n)) = "NUM"
    BY <1>4, <2>2, <2>3, <2>4, Classes
  <2>8. Class("NUM") = "NUM"  BY DEF Class, Keyword
  <2>9. new_token("NUM", Promise!Part(n), p + n, ends)  BY <2>1, <2>5, <2>6
  <2>. QED  BY <1>1, <1>4, <1>6, <2>2, <2>7, <2>8, <2>9, PlainAsC
<1>. QED  BY <1>1, <1>3, <1>5, <1>6, Ahead

\* Operators of two symbols and of one.
LEMMA MarksAsC == ASSUME IInv, Pair \/ Single  PROVE StepAsC
<1>1. Reading  BY DEF Pair, Single
<1>2. p \in 1..Len(text) /\ Len(text) \in Nat /\ UNCHANGED text /\ p \in Int
  BY <1>1, ReadingAt
<1>3. CASE Promise!Undefined  BY <1>2, <1>3, UndefinedAsC
<1>4. /\ \A c \in Singles \cup {"|"} : c \notin {" ", NL, "#include", "#define", Quote, "'"}
      /\ Class("RESERVED") = "RESERVED"
  BY DEF Singles, NL, Quote, Class, Keyword
<1>5. ASSUME NEW n, AtLexeme(n), Pair  PROVE StepAsC
  <2>1. IsPair /\ new_token("RESERVED", <<At(p), At(p + 1)>>, p + 2, ends)  BY <1>5 DEF Pair
  <2>2. /\ n = 2 /\ Promise!Part(n) = <<At(p), At(p + 1)>>
        /\ At(p) \in (Singles \cup {"|"}) \ {"/"}
    BY <1>2, <1>5, <2>1, PairReads
  <2>3. n \in Nat \ {0} /\ Len(Promise!Part(n)) = n /\ Promise!Part(n)[1] = At(p)
    BY <1>2, <1>5, Facts
  <2>4. /\ Promise!Meaning(Promise!Part(n)) = Promise!Part(n)
        /\ Promise!Class(Promise!Part(n)) = "RESERVED"
    BY <1>4, <2>2, <2>3, Classes
  <2>5. new_token("RESERVED", Promise!Part(n), p + n, ends)  BY <2>1, <2>2
  <2>. QED  BY <1>1, <1>4, <1>5, <2>2, <2>4, <2>5, PlainAsC
<1>6. ASSUME NEW n, AtLexeme(n), Single  PROVE StepAsC
  <2>1. /\ ~IsPair /\ ~IsComment /\ At(p) \in Singles \cup {NUL}
        /\ new_token("RESERVED", <<At(p)>>, p + 1, ends)
    BY <1>6 DEF Single
  <2>2. n = 1 /\ Promise!Part(n) = <<At(p)>> /\ At(p) \in Singles
    BY <1>2, <1>6, <2>1, SingleReads
  <2>3. n \in Nat \ {0} /\ Len(Promise!Part(n)) = n /\ Promise!Part(n)[1] = At(p)
    BY <1>2, <1>6, Facts
  <2>4. /\ Promise!Meaning(Promise!Part(n)) = Promise!Part(n)
        /\ Promise!Class(Promise!Part(n)) = "RESERVED"
    BY <1>4, <2>2, <2>3, Classes
  <2>5. new_token("RESERVED", Promise!Part(n), p + n, ends)  BY <2>1, <2>2
  <2>. DEFINE s == Promise!Part(n)
  <2>6. s = <<At(p)>> /\ s[1] = At(p) /\ Len(s) = 1  BY <2>2, <2>3
  <2>. HIDE DEF s
  <2>7. ~Promise!Skipped(s)
    <3>1. s \notin {<<" ">>, <<"\n">>}
      <4>1. s[1] # " " /\ s[1] # "\n"  BY <1>4, <2>2, <2>6 DEF NL
      <4>. QED  BY <4>1, Tuples
    <3>2. ~(Len(s) > 1) /\ ~(Len(s) > 3)  BY <2>6
    <3>. QED  BY <3>1, <3>2, Zenon
      DEF Promise!Skipped, Promise!LineComment, Promise!BlockComment, Promise!Header
  <2>8. s # <<"#define", " ">>
    <3>1. Len(<<"#define", " ">>) = 2  BY Tuples
    <3>. QED  BY <2>6, <3>1
  <2>. QED  BY <1>1, <1>4, <1>6, <2>4, <2>5, <2>7, <2>8, TokenAsC DEF s
<1>. QED  BY <1>1, <1>3, <1>5, <1>6, Ahead

\* Strings and character constants, or the end of an unclosed one.
LEMMA LiteralsAsC == ASSUME IInv, String \/ CharLiteral  PROVE StepAsC
<1>1. Reading  BY DEF String, CharLiteral
<1>2. /\ p \in 1..Len(text) /\ Len(text) \in Nat /\ UNCHANGED text /\ p \in Int
      /\ mode = "run"
  BY <1>1, ReadingAt
<1>3. CASE Promise!Undefined  BY <1>2, <1>3, UndefinedAsC
<1>4. /\ \A c \in {Quote, "'"} : c \notin {" ", NL, "/", "#include", "#define"}
      /\ Class("STR") = "STR" /\ Class("LT_CHAR") = "LT_CHAR"
  BY DEF NL, Quote, Class, Keyword
<1>5. ASSUME NEW n, AtLexeme(n), String  PROVE StepAsC
  <2>1. At(p) = Quote  BY <1>5 DEF String
  <2>2. CASE Stop("overrun")  BY <1>2, <2>2, StopAsC
  <2>3. ASSUME NEW j \in StringEnd(p + 1), 
               new_token("STR", exclude_double_quote(p + 1, j), j + 1, ends)
        PROVE  StepAsC
    <3>1. /\ StringEnd(p + 1) = {p + n - 1}
          /\ exclude_double_quote(p + 1, p + n - 1) = Promise!Meaning(Promise!Part(n))
      BY <1>2, <1>5, <2>1, StringReads
    <3>2. n \in Nat \ {0} /\ Len(Promise!Part(n)) = n /\ Promise!Part(n)[1] = At(p)
      BY <1>2, <1>5, Facts
    <3>3. j = p + n - 1  BY <2>3, <3>1
    <3>4. j + 1 = p + n  BY <1>2, <3>2, <3>3
    <3>5. new_token("STR", Promise!Meaning(Promise!Part(n)), p + n, ends)
      BY <2>3, <3>1, <3>3, <3>4
    <3>6. Promise!Class(Promise!Part(n)) = "STR"  BY <2>1, <3>2, Classes
    <3>. QED  BY <1>1, <1>4, <1>5, <2>1, <3>5, <3>6, PlainAsC
  <2>. QED  BY <1>5, <2>2, <2>3 DEF String
<1>6. ASSUME NEW n, AtLexeme(n), CharLiteral  PROVE StepAsC
  <2>1. At(p) = "'"  BY <1>6 DEF CharLiteral
  <2>2. n = 3 /\ At(p + 2) = "'" /\ Promise!Meaning(Promise!Part(n)) = <<At(p + 1)>>
    BY <1>2, <1>6, <2>1, CharReads
  <2>3. new_token("LT_CHAR", Promise!Meaning(Promise!Part(n)), p + n, ends)
    BY <1>6, <2>2 DEF CharLiteral
  <2>4. n \in Nat \ {0} /\ Len(Promise!Part(n)) = n /\ Promise!Part(n)[1] = At(p)
    BY <1>2, <1>6, Facts
  <2>5. Promise!Class(Promise!Part(n)) = "LT_CHAR"  BY <2>1, <2>4, Classes
  <2>. QED  BY <1>1, <1>4, <1>6, <2>1, <2>3, <2>5, PlainAsC
<1>. QED  BY <1>1, <1>3, <1>5, <1>6, Ahead

\* The beginning and the end of a #define line.
LEMMA DefinesAsC == ASSUME IInv, StartDefine \/ EndDefine  PROVE StepAsC
<1>1. CASE StartDefine
  <2>1. /\ Reading /\ startswith(p, <<"#define", " ">>)
        /\ new_token("DEFINE", <<"#define", " ">>, p + 2, Append(ends, NL))
    BY <1>1 DEF StartDefine
  <2>2. p \in 1..Len(text) /\ UNCHANGED text  BY <2>1, ReadingAt
  <2>3. At(p) = "#define"
    <3>1. p \in Int  BY <2>2
    <3>. QED  BY <2>1, <3>1, Starts
  <2>4. CASE Promise!Undefined  BY <2>2, <2>4, UndefinedAsC
  <2>5. ASSUME NEW n, AtLexeme(n)  PROVE StepAsC
    <3>1. n = 2 /\ Promise!Part(n) = <<"#define", " ">>  BY <2>2, <2>3, <2>5, DefineReads
    <3>2. n \in Nat \ {0} /\ Len(Promise!Part(n)) = n /\ Promise!Part(n)[1] = At(p)
      BY <2>2, <2>5, Facts
    <3>3. /\ Promise!Meaning(Promise!Part(n)) = Promise!Part(n)
          /\ Promise!Class(Promise!Part(n)) = "DEFINE" /\ ~Promise!Skipped(Promise!Part(n))
      BY <2>3, <3>2, Classes DEF Quote, NL
    <3>. DEFINE open == Append(ends, NL)
    <3>4. Len(open) = Len(ends) + 1
      <4>1. ends \in Seq({NUL, NL})  BY DEF IInv, TypeOK
      <4>. QED  BY <4>1, AppendProperties
    <3>5. new_token("DEFINE", Promise!Part(n), p + n, open)  BY <2>1, <3>1
    <3>6. Class("DEFINE") = "DEFINE"  BY DEF Class, Keyword
    <3>. HIDE DEF open
    <3>. QED  BY <2>1, <2>5, <3>1, <3>3, <3>4, <3>5, <3>6, TokenAsC
  <2>. QED  BY <2>1, <2>4, <2>5, Ahead
<1>2. CASE EndDefine
  <2>. DEFINE rest == SubSeq(ends, 1, Len(ends) - 1)
              tok == [kind |-> "DEFINE_END", text |-> <<>>]
              lex == [class |-> "DEFINE_END", text |-> <<>>]
  <2>1. mode = "run" /\ AtEnd /\ Len(ends) > 1 /\ UNCHANGED text
        /\ new_token("DEFINE_END", <<>>, p, rest)
    BY <1>2 DEF EndDefine
  <2>2. Len(ends) \in Nat /\ At(p) = NL /\ p <= Len(text) /\ p \in 1..Len(text) + 1
    BY <2>1, Innermost DEF AtEnd, IInv, TypeOK
  <2>3. text[p] = NL
    <3>1. NL # NUL  BY DEF NL, NUL
    <3>. QED  BY <2>2, <3>1 DEF At
  <2>4. Promise!Newline  BY <2>1, <2>2, <2>3 DEF Promise!Newline, NL
  <2>5. Len(rest) = Len(ends) - 1
    <3>1. ends \in Seq({NUL, NL})  BY DEF IInv, TypeOK
    <3>. QED  BY <2>1, <2>2, <3>1
  <2>. HIDE DEF rest
  <2>6. CASE Len(tokens) < MaxTokens
    <3>1. /\ tokens' = Append(tokens, tok) /\ p' = p /\ ends' = rest /\ mode' = mode
      BY <2>1, <2>6 DEF new_token
    <3>2. Lexeme_(tok) = lex  BY DEF Lexeme_, Class, Keyword
    <3>3. Lexemes(tokens)' = Append(Lexemes(tokens), lex)
      <4>1. SUFFICES ASSUME NEW ts, ts = tokens'
                     PROVE  Lexemes(ts) = Append(Lexemes(tokens), lex)
        OBVIOUS
      <4>2. ts = Append(tokens, tok) /\ IsList(tokens)  BY <3>1, <4>1 DEF IInv
      <4>. HIDE DEF tok, lex
      <4>. QED  BY <3>2, <4>2, AppendLexeme
    <3>4. Promise!EndOfDefine
      BY <2>4, <2>5, <3>1, <3>3 DEF Promise!EndOfDefine, Lexemes, Lexeme_
    <3>. QED  BY <2>1, <3>4 DEF StepAsC, Promise!Next
  <2>7. CASE ~(Len(tokens) < MaxTokens)
    BY <2>1, <2>7, StopAsC DEF new_token
  <2>. QED  BY <2>6, <2>7
<1>. QED  BY <1>1, <1>2

\* The symbols at which only the rule for identifiers applies, and takes none.
NoRule ==
  /\ At(p) \notin Singles \cup is_alnum \cup {" ", NL, NUL, Quote, "'"}
  /\ ~IsPair /\ ~startswith(p, <<"#define", " ">>)
  /\ \A c \in {Quote, "<"} : ~startswith(p, <<"#include", " ", c>>)

\* C has no lexeme there.
LEMMA NoLexeme ==
  ASSUME IInv, p \in 1..Len(text), NoRule, NEW n, AtLexeme(n)
  PROVE  FALSE
<1>. DEFINE s == Promise!Part(n)
<1>1. /\ Len(s) = n /\ n \in Nat \ {0} /\ s[1] = At(p) /\ Promise!IsLexeme(s)
      /\ p \in Nat \ {0} /\ p \in Int
      /\ \A k \in 1..n : s[k] = At(p + k - 1)
  BY Facts
<1>2. /\ 2 \in 1..n => s[2] = At(p + 1)
      /\ 3 \in 1..n => s[3] = At(p + 2)
  <2>1. p + 2 - 1 = p + 1 /\ p + 3 - 1 = p + 2  BY <1>1
  <2>. QED  BY <1>1, <2>1
<1>. HIDE DEF s
<1>3. s[1] \notin Singles \cup is_alnum \cup {" ", NL, NUL, Quote, "'"}  BY <1>1 DEF NoRule
<1>4. s[1] \in {"|", "#include", "#define"}
  <2>1. s[1] \in Singles \cup Letter \cup Keyword \cup Digit
          \cup {"|", " ", NL, Quote, "'", "#include", "#define"}
    BY <1>1, FirstSymbol
  <2>. QED  BY <1>3, <2>1 DEF is_alnum
<1>5. CASE s[1] = "|"
  <2>1. s \in Pairs \/ s = <<s[1]>>  BY <1>1, <1>5, FirstSymbol
  <2>2. ASSUME s \in Pairs  PROVE FALSE
    <3>1. PICK u, v : s = <<u, v>>  BY <2>2 DEF Pairs
    <3>2. n = 2 /\ s[1] = u /\ s[2] = v  BY <1>1, <3>1, Tuples
    <3>3. At(p) = u /\ At(p + 1) = v  BY <1>1, <1>2, <3>2
    <3>. QED  BY <1>1, <2>2, <3>1, <3>3, Starts DEF IsPair, NoRule
  <2>3. ASSUME s = <<"|">>  PROVE FALSE
    <3>1. s[1] = "|" /\ Len(s) = 1  BY <2>3, Tuples
    <3>2. ~Promise!Skipped(s)  BY <1>1, <3>1, Classes DEF NL
    <3>3. ~Promise!Word(s) /\ ~Promise!PpNumber(s)
      BY <3>1 DEF Promise!Word, Promise!PpNumber, Letter, Digit, Keyword
    <3>4. s \notin Pairs
      <4>1. SUFFICES ASSUME s \in Pairs  PROVE FALSE  OBVIOUS
      <4>. QED  BY <2>2, <4>1
    <3>5. ~ \E c \in Singles : s = <<c>>
      <4>1. \A c \in Singles : c # "|"  BY DEF Singles
      <4>2. \A c : s = <<c>> => s[1] = c  BY Tuples
      <4>. QED  BY <3>1, <4>1, <4>2
    <3>6. ~Promise!Quoted(s, "\"") /\ ~Promise!CharConstant(s)
      BY <3>1 DEF Promise!Quoted, Promise!CharConstant
    <3>7. s # <<"#define", " ">>
      <4>1. <<"#define", " ">>[1] = "#define"  BY Tuples
      <4>. QED  BY <3>1, <4>1
    <3>8. s \notin Pairs \cup {<<c>> : c \in Singles}  BY <3>4, <3>5
    <3>. QED  BY <1>1, <3>2, <3>3, <3>6, <3>7, <3>8 DEF Promise!IsLexeme
  <2>. QED  BY <1>5, <2>1, <2>2, <2>3
<1>6. CASE s[1] = "#define"
  <2>1. Len(s) = 2 /\ s[2] = " "
    <3>1. s = <<"#define", " ">>  BY <1>1, <1>6, FirstSymbol
    <3>. QED  BY <3>1, Tuples
  <2>2. At(p) = "#define" /\ At(p + 1) = " "
    <3>2. n = 2  BY <1>1, <2>1
    <3>1. 2 \in 1..n  BY <3>2
    <3>. QED  BY <1>1, <1>2, <1>6, <2>1, <3>1
  <2>. QED  BY <1>1, <2>2, Starts DEF NoRule
<1>7. CASE s[1] = "#include"
  <2>1. Promise!Header(s)  BY <1>1, <1>7, FirstSymbol
  <2>2. Len(s) > 3 /\ s[2] = " " /\ s[3] \in {Quote, "<"}
    BY <2>1 DEF Promise!Header, Quote
  <2>3. At(p) = "#include" /\ At(p + 1) = " " /\ At(p + 2) \in {Quote, "<"}
    <3>2. n \in Nat /\ n > 3
      <4>1. Len(s) = n /\ n \in Nat /\ Len(s) > 3  BY <1>1, <2>2
      <4>. QED  BY <4>1
    <3>1. 2 \in 1..n /\ 3 \in 1..n  BY <3>2
    <3>. QED  BY <1>1, <1>2, <1>7, <2>2, <3>1
  <2>. QED  BY <1>1, <2>3, Starts DEF NoRule
<1>. QED  BY <1>4, <1>5, <1>6, <1>7

\* Identifiers, those of no letters included.
LEMMA IdentifierAsC == ASSUME IInv, Identifier  PROVE StepAsC
<1>1. Reading  BY DEF Identifier
<1>2. p \in 1..Len(text) /\ Len(text) \in Nat /\ UNCHANGED text /\ p \in Int
  BY <1>1, ReadingAt
<1>3. CASE Promise!Undefined  BY <1>2, <1>3, UndefinedAsC
<1>4. CASE At(p) \notin is_alnum
  <2>1. NoRule
    BY <1>4 DEF Identifier, NoRule, is_alnum
  <2>2. Promise!Undefined  BY <1>1, <1>2, <2>1, NoLexeme, Ahead
  <2>. QED  BY <1>3, <2>2
<1>5. ASSUME NEW n, AtLexeme(n), At(p) \in is_alnum  PROVE StepAsC
  <2>1. PICK j \in p..Len(text) : Run(p, j, is_alnum) /\ new_token("INDENT", Part(p, j), j, ends)
    BY DEF Identifier
  <2>2. At(p) \notin Digit  BY DEF Identifier
  <2>3. Promise!Word(Promise!Part(n)) /\ Run(p, p + n, is_alnum)
    BY <1>2, <1>5, <2>2, WordReads
  <2>4. n \in Nat \ {0} /\ Len(Promise!Part(n)) = n /\ Promise!Part(n)[1] = At(p)
    BY <1>2, <1>5, Facts
  <2>5. j = p + n
    <3>. DEFINE b == p + n
    <3>1. b \in Int /\ j \in Int /\ p <= b /\ p <= j  BY <1>2, <2>4
    <3>2. Run(p, b, is_alnum)  BY <2>3
    <3>. HIDE DEF b
    <3>3. j = b  BY <1>2, <2>1, <3>1, <3>2, OneRun
    <3>. QED  BY <3>3 DEF b
  <2>6. Part(p, j) = Promise!Part(n)
    <3>1. j - 1 = p + n - 1  BY <1>2, <2>4, <2>5
    <3>. QED  BY <3>1 DEF Part, Promise!Part
  <2>7. At(p) \notin {" ", NL, "/", "#include", "#define", Quote, "'"}
    BY <1>5 DEF is_alnum, Letter, Digit, Keyword, NL, Quote
  <2>8. /\ Promise!Meaning(Promise!Part(n)) = Promise!Part(n)
        /\ Promise!Class(Promise!Part(n)) = "WORD"
    BY <2>3, <2>4, <2>7, Classes
  <2>9. Class("INDENT") = "WORD"  BY DEF Class
  <2>10. new_token("INDENT", Promise!Part(n), p + n, ends)  BY <2>1, <2>5, <2>6
  <2>. QED  BY <1>1, <1>5, <2>7, <2>8, <2>9, <2>10, PlainAsC
<1>. QED  BY <1>1, <1>3, <1>4, <1>5, Ahead

\* A NUL in the file ends it for tokenize(); C has no such symbol.
LEMMA FinishAsC == ASSUME IInv, Finish  PROVE StepAsC
<1>1. mode = "run" /\ At(p) = NUL /\ Len(ends) = 1 /\ UNCHANGED text
  BY Innermost DEF Finish, AtEnd
<1>2. p \in 1..Len(text) + 1 /\ Len(text) \in Nat  BY Text DEF IInv, TypeOK
<1>3. ASSUME p # Len(text) + 1  PROVE StepAsC
  <2>1. p \in 1..Len(text)  BY <1>2, <1>3
  <2>2. ASSUME NEW n, AtLexeme(n)  PROVE FALSE
    <3>. DEFINE s == Promise!Part(n)
    <3>1. Len(s) \in Nat \ {0} /\ s[1] = NUL /\ Promise!IsLexeme(s)
      BY <1>1, <2>1, <2>2, Facts
    <3>. HIDE DEF s
    <3>2. s[1] \in Singles \cup Letter \cup Keyword \cup Digit
              \cup {"|", " ", NL, Quote, "'", "#include", "#define"}
      BY <3>1, FirstSymbol
    <3>. QED  BY <3>1, <3>2 DEF NUL, Singles, NL, Quote, Letter, Keyword, Digit
  <2>3. ~Promise!Newline  BY <1>1 DEF Promise!Newline
  <2>4. Promise!Undefined
    BY <2>1, <2>2, <2>3 DEF Promise!Undefined, Promise!Sizes, AtLexeme
  <2>. QED  BY <1>1, <2>4, UndefinedAsC
<1>4. ASSUME p = Len(text) + 1  PROVE StepAsC
  <2>. DEFINE tok == [kind |-> "EOF", text |-> <<>>]
              lex == [class |-> "EOF", text |-> <<>>]
  <2>1. CASE Len(tokens) < MaxTokens
    <3>1. /\ tokens' = Append(tokens, tok) /\ p' = p /\ ends' = ends /\ mode' = "done"
      BY <2>1 DEF Finish
    <3>2. Lexeme_(tok) = lex  BY DEF Lexeme_, Class, Keyword
    <3>3. Lexemes(tokens)' = Append(Lexemes(tokens), lex)
      <4>1. SUFFICES ASSUME NEW ts, ts = tokens'
                     PROVE  Lexemes(ts) = Append(Lexemes(tokens), lex)
        OBVIOUS
      <4>2. ts = Append(tokens, tok) /\ IsList(tokens)  BY <3>1, <4>1 DEF IInv
      <4>. HIDE DEF tok, lex
      <4>. QED  BY <3>2, <4>2, AppendLexeme
    <3>4. Promise!End
      BY <1>1, <1>4, <3>1, <3>3 DEF Promise!End, Lexemes, Lexeme_
    <3>. QED  BY <1>1, <3>4 DEF StepAsC, Promise!Next
  <2>2. CASE ~(Len(tokens) < MaxTokens)
    BY <1>1, <2>2, StopAsC DEF Finish
  <2>. QED  BY <2>1, <2>2
<1>. QED  BY <1>3, <1>4

\* The promise does not see the rule that stopped, nor a step that does nothing.
LEMMA NextAsC == ASSUME IInv, [Next]_vars  PROVE StepAsC
<1>1. CASE UNCHANGED vars
  BY <1>1 DEF vars, StepAsC, Promise!vars
<1>2. CASE Next
  BY <1>2, SpaceAsC, IncludeAsC, CommentsAsC, WordsAsC, MarksAsC, LiteralsAsC, DefinesAsC,
     IdentifierAsC, FinishAsC
  DEF Next
<1>. QED  BY <1>1, <1>2

\* Nothing has been read at first.
LEMMA InitAsC == ASSUME Init  PROVE Promise!Init
<1>1. text \in Inputs /\ p = 1 /\ ends = <<NUL>> /\ tokens = <<>> /\ mode = "run"
  BY DEF Init
<1>2. Len(ends) - 1 = 0  BY <1>1, Tuples
<1>3. ASSUME NEW ts, ts = <<>>  PROVE Lexemes(ts) = <<>>
  <2>1. 1..Len(ts) = {}  BY <1>3
  <2>. QED  BY <2>1 DEF Lexemes
<1>4. Lexemes(tokens) = <<>>  BY <1>1, <1>3
<1>. QED  BY <1>1, <1>2, <1>4 DEF Promise!Init, Lexemes, Lexeme_

(* The tokens are C's lexemes, for every set of files: each step of          *)
(* tokenize() reads the longest lexeme there is, or skips it, and gives a    *)
(* literal the text C gives it, as long as the text is in the subset.        *)
THEOREM TokensAreLexemes == Spec => ReadsAsC
<1>1. Init => Promise!Init  BY InitAsC
<1>2. IInv /\ [Next]_vars => [Promise!Next]_(Promise!vars)  BY NextAsC DEF StepAsC
<1>. QED  BY <1>1, <1>2, Invariance, PTL DEF Spec, ReadsAsC, Promise!Spec
-----------------------------------------------------------------------------
(* Where tokenize() gives up.  As long as each token stands for a symbol    *)
(* behind p, and each open #define for another, there is memory; the only   *)
(* way to lose count is to be at a symbol no rule takes.                    *)

Accounted == Len(tokens) + Len(ends) <= p

Explained == (mode = "run" => Accounted \/ NoRule) /\ StopsExplained

\* Tokens are never more than symbols.
LEMMA Room ==
  ASSUME IInv, Accounted
  PROVE  Len(tokens) < MaxTokens
<1>1. text \in Inputs /\ p \in 1..Len(text) + 1 /\ Len(tokens) \in 0..MaxTokens
  BY DEF IInv, TypeOK
<1>2. Len(text) \in Nat /\ Len(ends) \in Nat /\ Len(ends) > 0 /\ MaxTokens \in Nat
  BY <1>1, Text, Innermost, TokenizerAssumption
<1>3. Len(text) < MaxTokens  BY <1>1, MemoryAssumption
<1>4. Len(tokens) + Len(ends) <= p  BY DEF Accounted
<1>. QED  BY <1>1, <1>2, <1>3, <1>4

\* To go ahead keeps the count.
LEMMA SkipCounts ==
  ASSUME IInv, Accounted, mode = "run", NEW to \in Int, to >= p, Skip(to)
  PROVE  Explained'
<1>1. p \in Int /\ Len(tokens) \in Nat /\ Len(ends) \in Nat
  BY Text, Innermost DEF IInv, TypeOK
<1>2. tokens' = tokens /\ ends' = ends /\ p' = to /\ mode' = "run"  BY DEF Skip
<1>3. Accounted'  BY <1>1, <1>2 DEF Accounted
<1>. QED  BY <1>2, <1>3 DEF Explained, StopsExplained

\* A token pays for itself with a symbol, and a #define with another.
LEMMA TokenCounts ==
  ASSUME IInv, Accounted, mode = "run", NEW kind, NEW str, NEW to \in Int, NEW ends_,
         new_token(kind, str, to, ends_), Len(ends_) \in Nat,
         Len(ends_) + 1 + p <= Len(ends) + to
  PROVE  Explained'
<1>1. p \in Int /\ Len(ends) \in Nat
  BY Text, Innermost DEF IInv, TypeOK
<1>2. /\ tokens' = Append(tokens, [kind |-> kind, text |-> str])
      /\ ends' = ends_ /\ p' = to /\ mode' = "run"
  BY Room DEF new_token
<1>3. Len(tokens) \in Nat /\ Len(tokens') = Len(tokens) + 1
  <2>1. SUFFICES ASSUME NEW ts, ts = tokens'
                 PROVE  Len(tokens) \in Nat /\ Len(ts) = Len(tokens) + 1
    OBVIOUS
  <2>. DEFINE tok == [kind |-> kind, text |-> str]
  <2>2. ts = Append(tokens, tok) /\ IsList(tokens)  BY <1>2, <2>1 DEF IInv
  <2>. HIDE DEF tok
  <2>. QED  BY <2>2, Longer
<1>4. Accounted'  BY <1>1, <1>2, <1>3 DEF Accounted
<1>. QED  BY <1>2, <1>4 DEF Explained, StopsExplained

\* Whether C has a lexeme depends on the text, p and the open lines alone.
LEMMA UndefinedStays ==
  ASSUME Promise!Undefined, text' = text, p' = p, ends' = ends
  PROVE  Promise!Undefined'
<1>1. /\ p' \in 1..Len(text') /\ Promise!Newline' = Promise!Newline
      /\ Promise!Sizes' = Promise!Sizes
  BY DEF Promise!Undefined, Promise!Newline, Promise!Sizes
<1>2. ASSUME NEW n \in Promise!Sizes
      PROVE  ~(Promise!Longest(n)' /\ Promise!InSubset(Promise!Part(n))')
  <2>1. Promise!Longest(n)' => Promise!Longest(n)
    BY DEF Promise!Longest, Promise!Sizes, Promise!Part
  <2>2. Promise!InSubset(Promise!Part(n))' => Promise!InSubset(Promise!Part(n))
    BY DEF Promise!InSubset, Promise!Ahead, Promise!Sizes, Promise!Part
  <2>. QED  BY <2>1, <2>2 DEF Promise!Undefined
<1>. QED  BY <1>1, <1>2 DEF Promise!Undefined

\* Where there is no lexeme, tokenize() may stop.
LEMMA StopExplained ==
  ASSUME IInv, Reading, NEW how \in {"error", "overrun", "exhausted"}, Stop(how),
         \A n : ~AtLexeme(n)
  PROVE  Explained'
<1>1. Promise!Undefined  BY Ahead
<1>2. text' = text /\ p' = p /\ ends' = ends /\ mode' = how
  BY ReadingAt DEF Stop
<1>3. Promise!Undefined'  BY <1>1, <1>2, UndefinedStays
<1>. QED  BY <1>2, <1>3 DEF Explained, StopsExplained

\* It leaves a symbol that no rule takes where it is.
LEMMA NoRuleStays ==
  ASSUME IInv, NoRule, mode = "run", Next
  PROVE  Explained'
<1>1. At(p) \notin {NL, NUL}  BY DEF NoRule
<1>2. p \in 1..Len(text) /\ Len(text) \in Nat
  <2>1. p \in Int /\ Len(text) \in Nat  BY Text DEF IInv, TypeOK
  <2>. QED  BY <1>1, <2>1, Text DEF IInv
<1>3. ~AtEnd
  <2>1. ends[Len(ends)] \in {NL, NUL}  BY Innermost
  <2>. QED  BY <1>1, <2>1 DEF AtEnd
<1>4. /\ ~Space /\ ~Include /\ ~StartDefine /\ ~EndDefine /\ ~KeywordToken /\ ~Pair /\ ~Single
      /\ ~String /\ ~CharLiteral /\ ~Number /\ ~Finish
  BY <1>3
  DEF NoRule, is_alnum, Space, Include, Header, StartDefine, EndDefine, KeywordToken, IsKeyword,
      Pair, Single, String, CharLiteral, Number, Finish
<1>5. ~LineComment /\ ~BlockComment
  <2>1. SUFFICES ASSUME startswith(p, <<"/", "/">>) \/ startswith(p, <<"/", "*">>)
                 PROVE  FALSE
    BY DEF LineComment, BlockComment
  <2>2. p \in Int  BY <1>2
  <2>3. At(p) = "/"  BY <2>1, <2>2, Starts
  <2>4. "/" \in Singles  BY DEF Singles
  <2>. QED  BY <2>3, <2>4 DEF NoRule
<1>6. Identifier  BY <1>4, <1>5 DEF Next
<1>7. Reading /\ text' = text  BY <1>6 DEF Identifier, Reading
<1>8. PICK j \in p..Len(text) : Run(p, j, is_alnum) /\ new_token("INDENT", Part(p, j), j, ends)
  BY <1>6 DEF Identifier
<1>9. j = p
  <2>1. At(p) \notin is_alnum  BY DEF NoRule
  <2>2. j \in Int /\ p <= j /\ (p < j => p \in p..j - 1)  BY <1>2
  <2>3. \A k \in p..j - 1 : At(k) \in is_alnum  BY <1>8 DEF Run
  <2>4. ~(p < j)  BY <2>1, <2>2, <2>3
  <2>. QED  BY <1>2, <2>2, <2>4
<1>10. \A n : ~AtLexeme(n)  BY <1>2, NoLexeme
<1>11. CASE Len(tokens) < MaxTokens
  <2>1. p' = p /\ mode' = "run"  BY <1>8, <1>9, <1>11 DEF new_token
  <2>2. NoRule'  BY <1>7, <2>1 DEF NoRule, IsPair, startswith, At
  <2>. QED  BY <2>1, <2>2 DEF Explained, StopsExplained
<1>12. CASE ~(Len(tokens) < MaxTokens)
  <2>1. Stop("exhausted")  BY <1>8, <1>12 DEF new_token
  <2>. QED  BY <1>7, <1>10, <2>1, StopExplained
<1>. QED  BY <1>11, <1>12

\* White space, headers and comments.
LEMMA SkipsExplained ==
  ASSUME IInv, Accounted, Space \/ Include \/ LineComment \/ BlockComment
  PROVE  Explained'
<1>1. Reading  BY DEF Space, Include, Header, LineComment, BlockComment
<1>2. p \in 1..Len(text) /\ Len(text) \in Nat /\ mode = "run" /\ p \in Int  BY <1>1, ReadingAt
<1>3. ASSUME NEW to \in Int, to >= p, Skip(to)  PROVE Explained'
  BY <1>2, <1>3, SkipCounts
<1>4. CASE Space
  <2>1. Skip(p + 1)  BY <1>4 DEF Space
  <2>2. p + 1 \in Int /\ p + 1 >= p  BY <1>2
  <2>. QED  BY <1>3, <2>1, <2>2
<1>5. CASE Include
  <2>1. PICK open, close : Brackets(open, close) /\ Header(open, close)
    BY <1>5 DEF Include, Brackets
  <2>2. HeaderAt(open)  BY <2>1 DEF Header, HeaderAt
  <2>3. ASSUME NEW j \in p + 3..Len(text), Skip(j + 1)  PROVE Explained'
    <3>1. j + 1 \in Int /\ j + 1 >= p  BY <1>2
    <3>. QED  BY <1>3, <2>3, <3>1
  <2>4. ASSUME \A j \in p + 3..Len(text) : At(j) # close, Stop("overrun")  PROVE Explained'
    <3>1. ASSUME NEW n, AtLexeme(n)  PROVE FALSE
      <4>. DEFINE e == p + n - 1
      <4>1. e \in p + 3..Len(text) /\ First(p + 3, e, <<close>>)
        BY <1>2, <2>1, <2>2, <3>1, HeaderReads
      <4>. HIDE DEF e
      <4>2. e \in Int  BY <1>2, <4>1
      <4>3. At(e) = close  BY <4>1, <4>2, Starts DEF First
      <4>. QED  BY <2>4, <4>1, <4>3
    <3>. QED  BY <1>1, <2>4, <3>1, StopExplained
  <2>. QED  BY <2>1, <2>3, <2>4 DEF Header
<1>6. CASE LineComment
  <2>1. PICK j \in p + 2..Len(text) : Skip(j)  BY <1>6 DEF LineComment
  <2>2. j \in Int /\ j >= p  BY <1>2
  <2>. QED  BY <1>3, <2>1, <2>2
<1>7. CASE BlockComment
  <2>1. ASSUME NEW j \in p + 2..Len(text), Skip(j + 2)  PROVE Explained'
    <3>1. j + 2 \in Int /\ j + 2 >= p  BY <1>2
    <3>. QED  BY <1>3, <2>1, <3>1
  <2>2. ASSUME \A j \in p + 2..Len(text) : ~startswith(j, <<"*", "/">>), Stop("error")
        PROVE  Explained'
    <3>1. ASSUME NEW n, AtLexeme(n)  PROVE FALSE
      <4>1. startswith(p, <<"/", "*">>)  BY <1>7 DEF BlockComment
      <4>2. p + n - 2 \in p + 2..Len(text) /\ First(p + 2, p + n - 2, <<"*", "/">>)
        BY <1>2, <3>1, <4>1, BlockReads
      <4>. QED  BY <2>2, <4>2 DEF First
    <3>. QED  BY <1>1, <2>2, <3>1, StopExplained
  <2>. QED  BY <1>7, <2>1, <2>2 DEF BlockComment
<1>. QED  BY <1>4, <1>5, <1>6, <1>7

\* Words, numbers and operators.
LEMMA TokensExplained ==
  ASSUME IInv, Accounted, KeywordToken \/ Number \/ Pair \/ Single \/ Identifier
  PROVE  Explained'
<1>1. Reading  BY DEF KeywordToken, Number, Pair, Single, Identifier
<1>2. /\ p \in 1..Len(text) /\ Len(text) \in Nat /\ mode = "run" /\ p \in Int
      /\ text' = text
  BY <1>1, ReadingAt
<1>3. Len(ends) \in Nat  BY Innermost
<1>4. ASSUME NEW kind, NEW str, NEW to \in Int, to > p, new_token(kind, str, to, ends)
      PROVE  Explained'
  <2>1. Len(ends) + 1 + p <= Len(ends) + to  BY <1>2, <1>3, <1>4
  <2>. QED  BY <1>2, <1>3, <1>4, <2>1, TokenCounts
<1>5. p + 1 \in Int /\ p + 1 > p /\ p + 2 \in Int /\ p + 2 > p  BY <1>2
<1>6. CASE KeywordToken  BY <1>4, <1>5, <1>6 DEF KeywordToken
<1>7. CASE Pair  BY <1>4, <1>5, <1>7 DEF Pair
<1>8. CASE Single  BY <1>4, <1>5, <1>8 DEF Single
<1>9. CASE Number
  <2>1. PICK j \in p..Len(text) : Run(p, j, Digit) /\ new_token("NUM", Part(p, j), j, ends)
    BY <1>9 DEF Number
  <2>2. At(p) \in Digit  BY <1>9 DEF Number
  <2>3. j # p  BY <2>1, <2>2 DEF Run
  <2>4. j \in Int /\ j > p  BY <1>2, <2>3
  <2>. QED  BY <1>4, <2>1, <2>4
<1>10. CASE Identifier
  <2>1. PICK j \in p..Len(text) : Run(p, j, is_alnum) /\ new_token("INDENT", Part(p, j), j, ends)
    BY <1>10 DEF Identifier
  <2>2. CASE j # p
    <3>1. j \in Int /\ j > p  BY <1>2, <2>2
    <3>. QED  BY <1>4, <2>1, <3>1
  <2>3. CASE j = p
    <3>1. At(p) \notin is_alnum  BY <2>1, <2>3 DEF Run
    <3>2. NoRule  BY <1>10, <3>1 DEF Identifier, NoRule
    <3>3. p' = p /\ mode' = "run"  BY <1>2, <2>1, <2>3, Room DEF new_token
    <3>4. NoRule'  BY <1>2, <3>2, <3>3 DEF NoRule, IsPair, startswith, At
    <3>. QED  BY <3>3, <3>4 DEF Explained, StopsExplained
  <2>. QED  BY <2>2, <2>3
<1>. QED  BY <1>6, <1>7, <1>8, <1>9, <1>10

\* Strings and character constants.
LEMMA LiteralsExplained ==
  ASSUME IInv, Accounted, String \/ CharLiteral
  PROVE  Explained'
<1>1. Reading  BY DEF String, CharLiteral
<1>2. /\ p \in 1..Len(text) /\ Len(text) \in Nat /\ mode = "run" /\ p \in Int
  BY <1>1, ReadingAt
<1>3. Len(ends) \in Nat  BY Innermost
<1>4. ASSUME NEW kind, NEW str, NEW to \in Int, to > p, new_token(kind, str, to, ends)
      PROVE  Explained'
  <2>1. Len(ends) + 1 + p <= Len(ends) + to  BY <1>2, <1>3, <1>4
  <2>. QED  BY <1>2, <1>3, <1>4, <2>1, TokenCounts
<1>5. CASE String
  <2>1. ASSUME NEW j \in StringEnd(p + 1),
               new_token("STR", exclude_double_quote(p + 1, j), j + 1, ends)
        PROVE  Explained'
    <3>1. j \in p + 1..Len(text)  BY DEF StringEnd
    <3>2. j + 1 \in Int /\ j + 1 > p  BY <1>2, <3>1
    <3>. QED  BY <1>4, <2>1, <3>2
  <2>2. ASSUME StringEnd(p + 1) = {}, Stop("overrun")  PROVE Explained'
    <3>1. \A n : ~AtLexeme(n)
      <4>1. At(p) = Quote  BY <1>5 DEF String
      <4>. QED  BY <1>2, <2>2, <4>1, StringReads
    <3>. QED  BY <1>1, <2>2, <3>1, StopExplained
  <2>. QED  BY <1>5, <2>1, <2>2 DEF String
<1>6. CASE CharLiteral
  <2>1. CASE At(p + 2) = "'"
    <3>1. p + 3 \in Int /\ p + 3 > p  BY <1>2
    <3>. QED  BY <1>4, <1>6, <2>1, <3>1 DEF CharLiteral
  <2>2. CASE At(p + 2) # "'"
    <3>1. \A n : ~AtLexeme(n)
      <4>1. At(p) = "'"  BY <1>6 DEF CharLiteral
      <4>. QED  BY <1>2, <2>2, <4>1, CharReads
    <3>2. Stop("error")  BY <1>6, <2>2 DEF CharLiteral
    <3>. QED  BY <1>1, <3>1, <3>2, StopExplained
  <2>. QED  BY <2>1, <2>2
<1>. QED  BY <1>5, <1>6

\* A #define, its end, and the end of the file.
LEMMA DefinesExplained ==
  ASSUME IInv, Accounted, StartDefine \/ EndDefine \/ Finish
  PROVE  Explained'
<1>1. Len(ends) \in Nat /\ p \in Int  BY Text, Innermost DEF IInv, TypeOK
<1>2. ends \in Seq({NUL, NL})  BY DEF IInv, TypeOK
<1>3. CASE StartDefine
  <2>. DEFINE open == Append(ends, NL)
  <2>1. /\ new_token("DEFINE", <<"#define", " ">>, p + 2, open) /\ mode = "run"
    BY <1>3, ReadingAt DEF StartDefine
  <2>2. Len(open) = Len(ends) + 1  BY <1>2, AppendProperties
  <2>. HIDE DEF open
  <2>3. Len(open) \in Nat /\ p + 2 \in Int /\ Len(open) + 1 + p <= Len(ends) + (p + 2)
    BY <1>1, <2>2
  <2>. QED  BY <2>1, <2>3, TokenCounts
<1>4. CASE EndDefine
  <2>. DEFINE rest == SubSeq(ends, 1, Len(ends) - 1)
  <2>1. new_token("DEFINE_END", <<>>, p, rest) /\ mode = "run" /\ Len(ends) > 1
    BY <1>4 DEF EndDefine
  <2>2. Len(rest) = Len(ends) - 1  BY <1>1, <1>2, <2>1
  <2>. HIDE DEF rest
  <2>3. Len(rest) \in Nat /\ Len(rest) + 1 + p <= Len(ends) + p  BY <1>1, <2>1, <2>2
  <2>. QED  BY <1>1, <2>1, <2>3, TokenCounts
<1>5. CASE Finish
  <2>1. mode' = "done"  BY <1>5, Room DEF Finish
  <2>. QED  BY <2>1 DEF Explained, StopsExplained
<1>. QED  BY <1>3, <1>4, <1>5

(* tokenize() gives up only where C has no lexeme of the subset, for every   *)
(* set of files whose symbols there is memory for.                           *)
THEOREM StopsWithoutLexeme == Spec => []StopsExplained
<1>1. Init => Explained
  <2>1. SUFFICES ASSUME Init  PROVE Explained  OBVIOUS
  <2>2. p = 1 /\ Len(tokens) = 0 /\ Len(ends) = 1 /\ mode = "run"
    BY <2>1, Tuples DEF Init
  <2>. QED  BY <2>2 DEF Explained, Accounted, StopsExplained
<1>2. IInv /\ Explained /\ [Next]_vars => Explained'
  <2>1. SUFFICES ASSUME IInv, Explained, [Next]_vars  PROVE Explained'  OBVIOUS
  <2>2. CASE UNCHANGED vars
    <3>1. /\ text' = text /\ p' = p /\ ends' = ends /\ tokens' = tokens /\ mode' = mode
      BY <2>2 DEF vars
    <3>2. CASE mode \in {"error", "overrun", "exhausted"}
      BY <2>1, <3>1, <3>2, UndefinedStays DEF Explained, StopsExplained
    <3>3. CASE mode \notin {"error", "overrun", "exhausted"}
      <4>1. StopsExplained'  BY <3>1, <3>3 DEF StopsExplained
      <4>2. Accounted => Accounted'  BY <3>1 DEF Accounted
      <4>3. NoRule => NoRule'  BY <3>1 DEF NoRule, IsPair, startswith, At
      <4>. QED  BY <2>1, <3>1, <4>1, <4>2, <4>3 DEF Explained
    <3>. QED  BY <3>2, <3>3
  <2>3. CASE Next
    <3>1. mode = "run"  BY <2>3
      DEF Next, Reading, Space, Include, Header, StartDefine, EndDefine, KeywordToken, Pair, Single,
          LineComment, BlockComment, String, CharLiteral, Number, Identifier, Finish
    <3>2. CASE NoRule  BY <2>1, <2>3, <3>1, <3>2, NoRuleStays
    <3>3. CASE Accounted
      BY <2>1, <2>3, <3>3, SkipsExplained, TokensExplained, LiteralsExplained, DefinesExplained
      DEF Next
    <3>. QED  BY <2>1, <3>1, <3>2, <3>3 DEF Explained
  <2>. QED  BY <2>1, <2>2, <2>3
<1>3. Explained => StopsExplained  BY DEF Explained
<1>. QED  BY <1>1, <1>2, <1>3, Invariance, PTL DEF Spec
=============================================================================
