---------------------------- MODULE TokenizerProofs ----------------------------
(***************************************************************************)
(* Theorems about Tokenizer, for every set of files and every bound on the *)
(* tokens: types, that a #define line ends, and the shape of the list that *)
(* preprocess() is given.                                                  *)
(***************************************************************************)
EXTENDS Tokenizer, SequenceTheorems, TLAPS

-----------------------------------------------------------------------------
(* The inductive invariant. *)

\* Whatever its elements are, ts is a sequence.
IsList(ts) == \E S : ts \in Seq(S)

\* EOF is appended last, and a #define whose line has not ended is open.
Pending ==
  /\ mode # "done" => \A i \in 1..Len(tokens) : tokens[i].kind # "EOF"
  /\ mode # "done" => \A i \in 1..Len(tokens) :
       tokens[i].kind = "DEFINE" =>
         \/ Len(ends) > 1
         \/ \E j \in i + 1..Len(tokens) : tokens[j].kind = "DEFINE_END"

IInv == text \in Inputs /\ TypeOK /\ IsList(tokens) /\ DefineEnds /\ Pending /\ FeedsPreprocessor

-----------------------------------------------------------------------------
(* Facts about the text and the lists. *)

\* A file ends in a newline, and so p is not at the end where it reads
\* anything else.
LEMMA Text ==
  ASSUME text \in Inputs
  PROVE  /\ Len(text) \in Nat /\ Len(text) > 0 /\ text[Len(text)] = NL
         /\ \A i \in Int : At(i) # NUL => i \in 1..Len(text)
         /\ \A i \in Int : At(i) \notin {NUL, NL} => i \in 1..Len(text) - 1
<1>1. text \in Seq(STRING) /\ text # <<>> /\ text[Len(text)] = NL  BY TokenizerAssumption
<1>2. Len(text) \in Nat /\ Len(text) > 0  BY <1>1
<1>. QED  BY <1>1, <1>2 DEF At

\* startswith, for the lengths the rules use.
LEMMA Starts ==
  ASSUME NEW i \in Int, NEW a, NEW b, NEW c
  PROVE  /\ startswith(i, <<a>>) <=> At(i) = a
         /\ startswith(i, <<a, b>>) <=> At(i) = a /\ At(i + 1) = b
         /\ startswith(i, <<a, b, c>>) <=> At(i) = a /\ At(i + 1) = b /\ At(i + 2) = c
<1>1. startswith(i, <<a>>) <=> At(i) = a
  <2>1. Len(<<a>>) = 1 /\ <<a>>[1] = a /\ i + 1 - 1 = i  OBVIOUS
  <2>. QED  BY <2>1 DEF startswith
<1>2. startswith(i, <<a, b>>) <=> At(i) = a /\ At(i + 1) = b
  <2>1. Len(<<a, b>>) = 2 /\ <<a, b>>[1] = a /\ <<a, b>>[2] = b  OBVIOUS
  <2>2. i + 1 - 1 = i /\ i + 2 - 1 = i + 1 /\ 1..2 = {1, 2}  OBVIOUS
  <2>3. startswith(i, <<a, b>>) <=> \A k \in {1, 2} : At(i + k - 1) = <<a, b>>[k]
    BY <2>1, <2>2 DEF startswith
  <2>. QED  BY <2>1, <2>2, <2>3
<1>3. startswith(i, <<a, b, c>>) <=> At(i) = a /\ At(i + 1) = b /\ At(i + 2) = c
  <2>1. /\ Len(<<a, b, c>>) = 3
        /\ <<a, b, c>>[1] = a /\ <<a, b, c>>[2] = b /\ <<a, b, c>>[3] = c
    OBVIOUS
  <2>2. i + 1 - 1 = i /\ i + 2 - 1 = i + 1 /\ i + 3 - 1 = i + 2 /\ 1..3 = {1, 2, 3}  OBVIOUS
  <2>3. startswith(i, <<a, b, c>>) <=> \A k \in {1, 2, 3} : At(i + k - 1) = <<a, b, c>>[k]
    BY <2>1, <2>2 DEF startswith
  <2>. QED  BY <2>1, <2>2, <2>3
<1>. QED  BY <1>1, <1>2, <1>3

\* The innermost call reads to a newline, or is the only one.
LEMMA Innermost ==
  ASSUME IInv
  PROVE  /\ Len(ends) \in Nat /\ Len(ends) > 0
         /\ ends[Len(ends)] = IF Len(ends) = 1 THEN NUL ELSE NL
         /\ Len(ends) > 1 => p <= Len(text)
<1>1. ends \in Seq({NUL, NL}) /\ ends # <<>>  BY DEF IInv, TypeOK
<1>2. Len(ends) \in Nat /\ Len(ends) > 0  BY <1>1
<1>. QED  BY <1>2 DEF IInv, DefineEnds

-----------------------------------------------------------------------------
(* What a rule may do keeps the invariant. *)

\* To move p ahead, inside the #define line if there is one.
LEMMA SkipKeeps ==
  ASSUME IInv, mode = "run", UNCHANGED text, NEW to \in 1..Len(text) + 1, Skip(to),
         Len(ends) > 1 => to <= Len(text)
  PROVE  IInv'
<1>1. /\ text' = text /\ p' = to /\ ends' = ends /\ tokens' = tokens /\ mode' = mode
  BY DEF Skip
<1>2. Len(text) \in Nat /\ Len(ends) \in Nat  BY Text, Innermost DEF IInv
<1>3. DefineEnds'  BY <1>1, <1>2 DEF IInv, DefineEnds
<1>4. TypeOK'  BY <1>1, <1>2 DEF IInv, TypeOK
<1>5. IsList(tokens)' /\ Pending' /\ FeedsPreprocessor'
  BY <1>1 DEF IInv, IsList, Pending, FeedsPreprocessor
<1>. QED  BY <1>1, <1>3, <1>4, <1>5 DEF IInv

\* To end the process.
LEMMA StopKeeps ==
  ASSUME IInv, mode = "run", UNCHANGED text,
         NEW how \in {"error", "overrun", "exhausted"}, Stop(how)
  PROVE  IInv'
<1>1. /\ text' = text /\ p' = p /\ ends' = ends /\ tokens' = tokens /\ mode' = how
  BY DEF Stop
<1>2. TypeOK' /\ DefineEnds'  BY <1>1 DEF IInv, TypeOK, DefineEnds
<1>3. IsList(tokens)' /\ Pending' /\ FeedsPreprocessor'
  BY <1>1 DEF IInv, IsList, Pending, FeedsPreprocessor
<1>. QED  BY <1>1, <1>2, <1>3 DEF IInv

\* Append, for a list whose texts are not known.
LEMMA Longer ==
  ASSUME NEW ts, IsList(ts), NEW tok
  PROVE  /\ IsList(Append(ts, tok))
         /\ Len(ts) \in Nat /\ Len(Append(ts, tok)) = Len(ts) + 1
         /\ Append(ts, tok)[Len(ts) + 1] = tok
         /\ \A i \in 1..Len(ts) : Append(ts, tok)[i] = ts[i]
<1>1. PICK S : ts \in Seq(S)  BY DEF IsList
<1>. DEFINE Wide == S \cup {tok}
<1>2. ts \in Seq(Wide)
  <2>1. \A i \in 1..Len(ts) : ts[i] \in Wide  BY <1>1, ElementOfSeq
  <2>2. Len(ts) \in Int /\ 1 \in Int /\ SubSeq(ts, 1, Len(ts)) = ts
    BY <1>1, SubSeqFull, LenProperties
  <2>. HIDE DEF Wide
  <2>3. SubSeq(ts, 1, Len(ts)) \in Seq(Wide)  BY <2>1, <2>2, SubSeqProperties
  <2>. QED  BY <2>2, <2>3
<1>3. tok \in Wide  OBVIOUS
<1>. HIDE DEF Wide
<1>. QED  BY <1>2, <1>3, AppendProperties, LenProperties DEF IsList

\* To append a token and open or close a #define.
LEMMA TokenKeeps ==
  ASSUME IInv, mode = "run", UNCHANGED text,
         NEW kind \in Kinds \ {"EOF"}, NEW str, NEW to \in 1..Len(text) + 1,
         NEW ends_ \in Seq({NUL, NL}), ends_ # <<>>,
         \A i \in 1..Len(ends_) : IF i = 1 THEN ends_[i] = NUL
                                  ELSE ends_[i] = NL /\ to <= Len(text),
         kind = "DEFINE" => Len(ends_) > 1,
         Len(ends) > 1 => Len(ends_) > 1 \/ kind = "DEFINE_END",
         new_token(kind, str, to, ends_)
  PROVE  IInv'
<1>1. CASE Len(tokens) < MaxTokens
  <2>1. /\ tokens' = Append(tokens, [kind |-> kind, text |-> str])
        /\ p' = to /\ ends' = ends_ /\ mode' = "run" /\ text' = text
    BY <1>1 DEF new_token
  <2>2. /\ IsList(tokens')
        /\ Len(tokens) \in Nat /\ Len(tokens') = Len(tokens) + 1
        /\ tokens'[Len(tokens')].kind = kind
        /\ \A i \in 1..Len(tokens) : tokens'[i] = tokens[i]
    <3>1. SUFFICES ASSUME NEW ts, ts = tokens'
                   PROVE  /\ IsList(ts)
                          /\ Len(tokens) \in Nat /\ Len(ts) = Len(tokens) + 1
                          /\ ts[Len(ts)].kind = kind
                          /\ \A i \in 1..Len(tokens) : ts[i] = tokens[i]
      OBVIOUS
    <3>. DEFINE tok == [kind |-> kind, text |-> str]
    <3>2. ts = Append(tokens, tok) /\ tok.kind = kind /\ IsList(tokens)
      BY <2>1, <3>1 DEF IInv
    <3>. HIDE DEF tok
    <3>3. /\ IsList(Append(tokens, tok))
          /\ Len(tokens) \in Nat /\ Len(Append(tokens, tok)) = Len(tokens) + 1
          /\ Append(tokens, tok)[Len(tokens) + 1] = tok
          /\ \A i \in 1..Len(tokens) : Append(tokens, tok)[i] = tokens[i]
      BY <3>2, Longer
    <3>. QED  BY <3>2, <3>3
  <2>3. IsList(tokens)' /\ FeedsPreprocessor'  BY <2>1, <2>2 DEF IsList, FeedsPreprocessor
  <2>4. DefineEnds'  BY <2>1 DEF DefineEnds
  <2>5. TypeOK'
    <3>1. \A i \in 1..Len(tokens') : tokens'[i].kind \in Kinds  BY <2>2 DEF IInv, TypeOK
    <3>2. Len(tokens') \in 0..MaxTokens  BY <1>1, <2>2, TokenizerAssumption
    <3>. QED  BY <2>1, <3>1, <3>2 DEF TypeOK
  <2>6. Pending'
    <3>1. \A i \in 1..Len(tokens') : tokens'[i].kind # "EOF"
      BY <2>2 DEF IInv, Pending
    <3>2. ASSUME NEW i \in 1..Len(tokens'), tokens'[i].kind = "DEFINE"
          PROVE  \/ Len(ends') > 1
                 \/ \E j \in i + 1..Len(tokens') : tokens'[j].kind = "DEFINE_END"
      <4>1. CASE i = Len(tokens')  BY <2>1, <2>2, <3>2, <4>1
      <4>2. CASE i \in 1..Len(tokens)
        <5>1. tokens[i].kind = "DEFINE"  BY <2>2, <3>2, <4>2
        <5>2. CASE Len(ends) > 1
          <6>1. CASE Len(ends_) > 1  BY <2>1, <6>1
          <6>2. CASE kind = "DEFINE_END"
            <7>1. Len(tokens') \in i + 1..Len(tokens')  BY <2>2, <4>2
            <7>. QED  BY <2>2, <6>2, <7>1
          <6>. QED  BY <5>2, <6>1, <6>2
        <5>3. CASE \E j \in i + 1..Len(tokens) : tokens[j].kind = "DEFINE_END"
          <6>1. PICK j \in i + 1..Len(tokens) : tokens[j].kind = "DEFINE_END"  BY <5>3
          <6>2. j \in 1..Len(tokens) /\ j \in i + 1..Len(tokens')  BY <2>2, <4>2
          <6>. QED  BY <2>2, <6>1, <6>2
        <5>. QED  BY <5>1, <5>2, <5>3, <4>2 DEF IInv, Pending
      <4>. QED  BY <2>2, <4>1, <4>2
    <3>. QED  BY <3>1, <3>2 DEF Pending
  <2>. QED  BY <2>1, <2>3, <2>4, <2>5, <2>6 DEF IInv
<1>2. CASE ~(Len(tokens) < MaxTokens)
  BY <1>2, StopKeeps DEF new_token
<1>. QED  BY <1>1, <1>2

\* A token that leaves the calls as they are.
LEMMA PlainTokenKeeps ==
  ASSUME IInv, mode = "run", UNCHANGED text,
         NEW kind \in Kinds \ {"EOF", "DEFINE", "DEFINE_END"}, NEW str,
         NEW to \in 1..Len(text) + 1, Len(ends) > 1 => to <= Len(text),
         new_token(kind, str, to, ends)
  PROVE  IInv'
<1>1. ends \in Seq({NUL, NL}) /\ ends # <<>>  BY DEF IInv, TypeOK
<1>2. \A i \in 1..Len(ends) : IF i = 1 THEN ends[i] = NUL
                              ELSE ends[i] = NL /\ to <= Len(text)
  BY Innermost DEF IInv, DefineEnds
<1>. QED  BY <1>1, <1>2, TokenKeeps

-----------------------------------------------------------------------------
(* One lemma per group of rules. *)

\* While it reads, the innermost call is not at its end, and none is at the NUL
\* that ends the file: of several calls only the outermost gets that far.
LEMMA ReadingAt ==
  ASSUME IInv, Reading
  PROVE  /\ mode = "run" /\ UNCHANGED text
         /\ p \in 1..Len(text) /\ Len(text) \in Nat
         /\ Len(ends) > 1 => At(p) # NL
<1>1. /\ mode = "run" /\ UNCHANGED text /\ At(p) # ends[Len(ends)]  BY DEF Reading, AtEnd
<1>2. p \in 1..Len(text) + 1  BY DEF IInv, TypeOK
<1>3. Len(text) \in Nat  BY Text DEF IInv
<1>4. p # Len(text) + 1
  <2>1. CASE Len(ends) = 1
    <3>1. At(p) # NUL  BY <1>1, <2>1, Innermost
    <3>2. At(Len(text) + 1) = NUL  BY <1>3 DEF At
    <3>. QED  BY <3>1, <3>2
  <2>2. CASE Len(ends) > 1
    <3>1. p <= Len(text)  BY <2>2, Innermost
    <3>. QED  BY <1>2, <1>3, <3>1
  <2>3. PICK n \in Nat : n = Len(ends) /\ n > 0  BY Innermost
  <2>4. n = 1 \/ n > 1  BY <2>3
  <2>. QED  BY <2>1, <2>2, <2>3, <2>4
<1>5. Len(ends) > 1 => At(p) # NL  BY <1>1, Innermost
<1>. QED  BY <1>1, <1>2, <1>3, <1>4, <1>5

\* Behind a symbol that is not a newline there is another one.
LEMMA Inside ==
  ASSUME IInv, NEW i \in Int, At(i) \notin {NUL, NL}
  PROVE  i >= 1 /\ i + 1 <= Len(text) /\ Len(text) \in Nat
BY Text DEF IInv

\* White space, headers and comments.
LEMMA SkipRules ==
  ASSUME IInv, Space \/ Include \/ LineComment \/ BlockComment
  PROVE  IInv'
<1>1. CASE Space
  <2>1. Reading /\ At(p) \in {" ", NL} /\ Skip(p + 1)  BY <1>1 DEF Space
  <2>0. p \in 1..Len(text) /\ Len(text) \in Nat  BY <2>1, ReadingAt
  <2>2. p \in Int /\ p + 1 \in 1..Len(text) + 1  BY <2>0
  <2>3. Len(ends) > 1 => p + 1 <= Len(text)
    <3>1. SUFFICES ASSUME Len(ends) > 1 PROVE p + 1 <= Len(text)  OBVIOUS
    <3>2. At(p) \notin {NUL, NL}  BY <2>1, <3>1, ReadingAt DEF NUL, NL
    <3>. QED  BY <2>2, <3>2, Inside
  <2>. QED  BY <2>1, <2>2, <2>3, ReadingAt, SkipKeeps
<1>2. CASE Include
  <2>1. PICK open, close : close \in {Quote, ">"} /\ Header(open, close)
    BY <1>2 DEF Include
  <2>2. Reading  BY <2>1 DEF Header
  <2>3. CASE Stop("overrun")  BY <2>2, <2>3, ReadingAt, StopKeeps
  <2>4. CASE \E j \in p + 3..Len(text) : First(p + 3, j, <<close>>) /\ Skip(j + 1)
    <3>1. PICK j \in p + 3..Len(text) : First(p + 3, j, <<close>>) /\ Skip(j + 1)
      BY <2>4
    <3>2. j \in Int /\ startswith(j, <<close>>)  BY <2>2, <3>1, ReadingAt DEF First
    <3>3. At(j) \notin {NUL, NL}  BY <2>1, <3>2, Starts DEF Quote, NUL, NL
    <3>4. j + 1 \in 1..Len(text) + 1 /\ j + 1 <= Len(text)
      BY <3>2, <3>3, Inside
    <3>. QED  BY <2>2, <3>1, <3>4, ReadingAt, SkipKeeps
  <2>. QED  BY <2>1, <2>3, <2>4 DEF Header
<1>3. CASE LineComment
  <2>1. Reading  BY <1>3 DEF LineComment
  <2>2. PICK j \in p + 2..Len(text) : Skip(j)  BY <1>3 DEF LineComment
  <2>3. j \in 1..Len(text) + 1 /\ j <= Len(text)  BY <2>1, ReadingAt
  <2>. QED  BY <2>1, <2>2, <2>3, ReadingAt, SkipKeeps
<1>4. CASE BlockComment
  <2>1. Reading  BY <1>4 DEF BlockComment
  <2>2. CASE Stop("error")  BY <2>1, <2>2, ReadingAt, StopKeeps
  <2>3. CASE \E j \in p + 2..Len(text) : First(p + 2, j, <<"*", "/">>) /\ Skip(j + 2)
    <3>1. PICK j \in p + 2..Len(text) : First(p + 2, j, <<"*", "/">>) /\ Skip(j + 2)
      BY <2>3
    <3>2. j \in Int /\ j >= 1 /\ startswith(j, <<"*", "/">>)
      BY <2>1, <3>1, ReadingAt DEF First
    <3>3. At(j + 1) = "/"  BY <3>2, Starts
    <3>4. At(j + 1) \notin {NUL, NL} /\ j + 1 \in Int  BY <3>2, <3>3 DEF NUL, NL
    <3>5. j + 2 \in 1..Len(text) + 1 /\ j + 2 <= Len(text)  BY <3>2, <3>4, Inside
    <3>. QED  BY <2>1, <3>1, <3>5, ReadingAt, SkipKeeps
  <2>. QED  BY <1>4, <2>2, <2>3 DEF BlockComment
<1>. QED  BY <1>1, <1>2, <1>3, <1>4

\* Keywords, numbers and identifiers.
LEMMA WordRules ==
  ASSUME IInv, KeywordToken \/ Number \/ Identifier
  PROVE  IInv'
<1>1. CASE KeywordToken
  <2>1. Reading /\ At(p) \in Keyword /\ new_token(At(p), <<At(p)>>, p + 1, ends)
    BY <1>1 DEF KeywordToken, IsKeyword
  <2>2. At(p) \in Kinds \ {"EOF", "DEFINE", "DEFINE_END"}  BY <2>1 DEF Kinds, Keyword
  <2>3. At(p) \notin {NUL, NL}  BY <2>1 DEF Keyword, NUL, NL
  <2>4. p + 1 \in 1..Len(text) + 1 /\ p + 1 <= Len(text)
    BY <2>1, <2>3, ReadingAt, Inside
  <2>. QED  BY <2>1, <2>2, <2>4, ReadingAt, PlainTokenKeeps
<1>2. CASE Number
  <2>1. Reading  BY <1>2 DEF Number
  <2>2. PICK j \in p..Len(text) : new_token("NUM", Part(p, j), j, ends)
    BY <1>2 DEF Number
  <2>3. j \in 1..Len(text) + 1 /\ j <= Len(text)  BY <2>1, ReadingAt
  <2>4. "NUM" \in Kinds \ {"EOF", "DEFINE", "DEFINE_END"}  BY DEF Kinds
  <2>. QED  BY <2>1, <2>2, <2>3, <2>4, ReadingAt, PlainTokenKeeps
<1>3. CASE Identifier
  <2>1. Reading  BY <1>3 DEF Identifier
  <2>2. PICK j \in p..Len(text) : new_token("INDENT", Part(p, j), j, ends)
    BY <1>3 DEF Identifier
  <2>3. j \in 1..Len(text) + 1 /\ j <= Len(text)  BY <2>1, ReadingAt
  <2>4. "INDENT" \in Kinds \ {"EOF", "DEFINE", "DEFINE_END"}  BY DEF Kinds
  <2>. QED  BY <2>1, <2>2, <2>3, <2>4, ReadingAt, PlainTokenKeeps
<1>. QED  BY <1>1, <1>2, <1>3

\* Operators.
LEMMA MarkRules ==
  ASSUME IInv, Pair \/ Single
  PROVE  IInv'
<1>0. "RESERVED" \in Kinds \ {"EOF", "DEFINE", "DEFINE_END"}  BY DEF Kinds, Keyword
<1>1. CASE Pair
  <2>1. Reading /\ IsPair /\ new_token("RESERVED", <<At(p), At(p + 1)>>, p + 2, ends)
    BY <1>1 DEF Pair
  <2>2. p \in 1..Len(text) /\ Len(text) \in Nat  BY <2>1, ReadingAt
  <2>3. p \in Int /\ p + 1 \in Int  BY <2>2
  <2>4. PICK s \in Pairs : startswith(p, s)  BY <2>1 DEF IsPair
  <2>5. Len(s) = 2 /\ s[2] \in {"=", "&", "|", ">"}  BY <2>4 DEF Pairs
  <2>6. At(p + 2 - 1) \notin {NUL, NL} /\ p + 2 - 1 = p + 1
    BY <2>3, <2>4, <2>5 DEF startswith, NUL, NL
  <2>7. p + 1 + 1 <= Len(text)  BY <2>3, <2>6, Inside
  <2>8. p + 2 \in 1..Len(text) + 1 /\ p + 2 <= Len(text)  BY <2>2, <2>7
  <2>. QED  BY <1>0, <2>1, <2>8, ReadingAt, PlainTokenKeeps
<1>2. CASE Single
  <2>1. Reading /\ At(p) \in Singles \cup {NUL} /\ new_token("RESERVED", <<At(p)>>, p + 1, ends)
    BY <1>2 DEF Single
  <2>2. p \in 1..Len(text) /\ Len(text) \in Nat  BY <2>1, ReadingAt
  <2>3. text[Len(text)] = NL  BY Text DEF IInv
  <2>4. At(p) # NL  BY <2>1 DEF Singles, NUL, NL
  <2>5. p # Len(text)  BY <2>2, <2>3, <2>4 DEF At
  <2>6. p + 1 \in 1..Len(text) + 1 /\ p + 1 <= Len(text)  BY <2>2, <2>5
  <2>. QED  BY <1>0, <2>1, <2>6, ReadingAt, PlainTokenKeeps
<1>. QED  BY <1>1, <1>2

\* Strings and character constants.
LEMMA LiteralRules ==
  ASSUME IInv, String \/ CharLiteral
  PROVE  IInv'
<1>0. {"STR", "LT_CHAR"} \subseteq Kinds \ {"EOF", "DEFINE", "DEFINE_END"}
  BY DEF Kinds, Keyword
<1>1. CASE String
  <2>1. Reading  BY <1>1 DEF String
  <2>2. p \in 1..Len(text) /\ Len(text) \in Nat  BY <2>1, ReadingAt
  <2>3. CASE Stop("overrun")  BY <2>1, <2>3, ReadingAt, StopKeeps
  <2>4. CASE \E j \in StringEnd(p + 1) :
                new_token("STR", exclude_double_quote(p + 1, j), j + 1, ends)
    <3>1. PICK j \in StringEnd(p + 1) :
                new_token("STR", exclude_double_quote(p + 1, j), j + 1, ends)
      BY <2>4
    <3>2. j \in p + 1..Len(text) /\ At(j) = Quote  BY <3>1 DEF StringEnd
    <3>3. At(j) \notin {NUL, NL}  BY <3>2 DEF Quote, NUL, NL
    <3>4. j \in Int  BY <2>2, <3>2
    <3>5. j + 1 \in 1..Len(text) + 1 /\ j + 1 <= Len(text)  BY <3>3, <3>4, Inside
    <3>. QED  BY <1>0, <2>1, <3>1, <3>5, ReadingAt, PlainTokenKeeps
  <2>. QED  BY <1>1, <2>3, <2>4 DEF String
<1>2. CASE CharLiteral
  <2>1. Reading  BY <1>2 DEF CharLiteral
  <2>2. CASE At(p + 2) = "'"
    <3>1. new_token("LT_CHAR", <<At(p + 1)>>, p + 3, ends)  BY <1>2, <2>2 DEF CharLiteral
    <3>2. p \in 1..Len(text) /\ Len(text) \in Nat  BY <2>1, ReadingAt
    <3>3. p + 2 \in Int /\ At(p + 2) \notin {NUL, NL}  BY <2>2, <3>2 DEF NUL, NL
    <3>4. p + 2 + 1 <= Len(text)  BY <3>3, Inside
    <3>5. p + 3 \in 1..Len(text) + 1 /\ p + 3 <= Len(text)  BY <3>2, <3>4
    <3>. QED  BY <1>0, <2>1, <3>1, <3>5, ReadingAt, PlainTokenKeeps
  <2>3. CASE At(p + 2) # "'"
    <3>1. Stop("error")  BY <1>2, <2>3 DEF CharLiteral
    <3>. QED  BY <2>1, <3>1, ReadingAt, StopKeeps
  <2>. QED  BY <2>2, <2>3
<1>. QED  BY <1>1, <1>2

\* The beginning and the end of a #define line.
LEMMA DefineRules ==
  ASSUME IInv, StartDefine \/ EndDefine
  PROVE  IInv'
<1>0. {"DEFINE", "DEFINE_END"} \subseteq Kinds \ {"EOF"}  BY DEF Kinds, Keyword
<1>1. ends \in Seq({NUL, NL}) /\ ends # <<>>  BY DEF IInv, TypeOK
<1>2. CASE StartDefine
  <2>1. /\ Reading /\ startswith(p, <<"#define", " ">>)
        /\ new_token("DEFINE", <<"#define", " ">>, p + 2, Append(ends, NL))
    BY <1>2 DEF StartDefine
  <2>2. p \in 1..Len(text) /\ Len(text) \in Nat  BY <2>1, ReadingAt
  <2>3. p \in Int /\ p + 1 \in Int  BY <2>2
  <2>4. At(p + 1) = " "  BY <2>1, <2>3, Starts
  <2>5. p + 1 + 1 <= Len(text)  BY <2>3, <2>4, Inside DEF NUL, NL
  <2>6. p + 2 \in 1..Len(text) + 1 /\ p + 2 <= Len(text)  BY <2>2, <2>5
  <2>. DEFINE open == Append(ends, NL)
  <2>7. /\ open \in Seq({NUL, NL}) /\ Len(open) = Len(ends) + 1
        /\ open[Len(ends) + 1] = NL
        /\ \A i \in 1..Len(ends) : open[i] = ends[i]
    BY <1>1, AppendProperties DEF NUL, NL
  <2>8. Len(ends) \in Nat /\ Len(ends) > 0  BY Innermost
  <2>. HIDE DEF open
  <2>9. Len(open) > 1 /\ open # <<>>  BY <2>7, <2>8
  <2>10. ASSUME NEW i \in 1..Len(open)
         PROVE  IF i = 1 THEN open[i] = NUL ELSE open[i] = NL /\ p + 2 <= Len(text)
    <3>1. CASE i = Len(ends) + 1  BY <2>6, <2>7, <2>8, <3>1
    <3>2. CASE i \in 1..Len(ends)
      <4>1. open[i] = ends[i]  BY <2>7, <3>2
      <4>2. IF i = 1 THEN ends[i] = NUL ELSE ends[i] = NL  BY <3>2 DEF IInv, DefineEnds
      <4>. QED  BY <2>6, <4>1, <4>2
    <3>. QED  BY <2>7, <2>8, <3>1, <3>2
  <2>11. mode = "run" /\ UNCHANGED text  BY <2>1, ReadingAt
  <2>12. new_token("DEFINE", <<"#define", " ">>, p + 2, open)  BY <2>1 DEF open
  <2>. QED  BY <1>0, <2>6, <2>7, <2>9, <2>10, <2>11, <2>12, TokenKeeps
<1>3. CASE EndDefine
  <2>. DEFINE rest == SubSeq(ends, 1, Len(ends) - 1)
  <2>1. /\ mode = "run" /\ UNCHANGED text /\ Len(ends) > 1
        /\ new_token("DEFINE_END", <<>>, p, rest)
    BY <1>3 DEF EndDefine
  <2>2. Len(ends) \in Nat /\ p <= Len(text)  BY <2>1, Innermost
  <2>3. /\ rest \in Seq({NUL, NL}) /\ Len(rest) = Len(ends) - 1
        /\ \A i \in 1..Len(rest) : rest[i] = ends[i]
    BY <1>1, <2>1, <2>2
  <2>. HIDE DEF rest
  <2>4. rest # <<>>  BY <2>1, <2>2, <2>3
  <2>5. p \in 1..Len(text) + 1  BY DEF IInv, TypeOK
  <2>6. ASSUME NEW i \in 1..Len(rest)
        PROVE  IF i = 1 THEN rest[i] = NUL ELSE rest[i] = NL /\ p <= Len(text)
    <3>1. i \in 1..Len(ends) /\ rest[i] = ends[i]  BY <2>2, <2>3
    <3>2. IF i = 1 THEN ends[i] = NUL ELSE ends[i] = NL  BY <3>1 DEF IInv, DefineEnds
    <3>. QED  BY <2>2, <3>1, <3>2
  <2>. QED  BY <1>0, <2>1, <2>3, <2>4, <2>5, <2>6, TokenKeeps
<1>. QED  BY <1>2, <1>3

\* The end of the file closes the list.
LEMMA FinishKeeps ==
  ASSUME IInv, Finish
  PROVE  IInv'
<1>1. mode = "run" /\ UNCHANGED text /\ Len(ends) = 1  BY DEF Finish
<1>2. CASE ~(Len(tokens) < MaxTokens)
  BY <1>1, <1>2, StopKeeps DEF Finish
<1>3. CASE Len(tokens) < MaxTokens
  <2>1. /\ tokens' = Append(tokens, [kind |-> "EOF", text |-> <<>>])
        /\ mode' = "done" /\ p' = p /\ ends' = ends /\ text' = text
    BY <1>1, <1>3 DEF Finish
  <2>2. /\ IsList(tokens')
        /\ Len(tokens) \in Nat /\ Len(tokens') = Len(tokens) + 1
        /\ tokens'[Len(tokens')].kind = "EOF"
        /\ \A i \in 1..Len(tokens) : tokens'[i] = tokens[i]
    <3>1. SUFFICES ASSUME NEW ts, ts = tokens'
                   PROVE  /\ IsList(ts)
                          /\ Len(tokens) \in Nat /\ Len(ts) = Len(tokens) + 1
                          /\ ts[Len(ts)].kind = "EOF"
                          /\ \A i \in 1..Len(tokens) : ts[i] = tokens[i]
      OBVIOUS
    <3>. DEFINE tok == [kind |-> "EOF", text |-> <<>>]
    <3>2. ts = Append(tokens, tok) /\ tok.kind = "EOF" /\ IsList(tokens)
      BY <2>1, <3>1 DEF IInv
    <3>. HIDE DEF tok
    <3>3. /\ IsList(Append(tokens, tok))
          /\ Len(tokens) \in Nat /\ Len(Append(tokens, tok)) = Len(tokens) + 1
          /\ Append(tokens, tok)[Len(tokens) + 1] = tok
          /\ \A i \in 1..Len(tokens) : Append(tokens, tok)[i] = tokens[i]
      BY <3>2, Longer
    <3>. QED  BY <3>2, <3>3
  <2>3. \A i \in 1..Len(tokens) : tokens[i].kind \in Kinds /\ tokens[i].kind # "EOF"
    BY <1>1 DEF IInv, TypeOK, Pending
  <2>4. TypeOK'
    <3>1. \A i \in 1..Len(tokens') : tokens'[i].kind \in Kinds  BY <2>2, <2>3 DEF Kinds
    <3>2. Len(tokens') \in 0..MaxTokens  BY <1>3, <2>2, TokenizerAssumption
    <3>. QED  BY <2>1, <3>1, <3>2 DEF IInv, TypeOK
  <2>5. DefineEnds' /\ Pending'  BY <2>1 DEF IInv, DefineEnds, Pending
  <2>6. FeedsPreprocessor'
    <3>1. \A i \in 1..Len(tokens') : tokens'[i].kind = "EOF" <=> i = Len(tokens')
      BY <2>2, <2>3
    <3>2. ASSUME NEW i \in 1..Len(tokens'), tokens'[i].kind = "DEFINE"
          PROVE  \E j \in i + 1..Len(tokens') : tokens'[j].kind = "DEFINE_END"
      <4>1. i \in 1..Len(tokens) /\ tokens[i].kind = "DEFINE"  BY <2>2, <3>2
      <4>2. PICK j \in i + 1..Len(tokens) : tokens[j].kind = "DEFINE_END"
        BY <1>1, <4>1 DEF IInv, Pending
      <4>3. j \in 1..Len(tokens) /\ j \in i + 1..Len(tokens')  BY <2>2, <4>1
      <4>. QED  BY <2>2, <4>2, <4>3
    <3>3. tokens' # <<>>  BY <2>2
    <3>. QED  BY <3>1, <3>2, <3>3 DEF FeedsPreprocessor
  <2>. QED  BY <2>1, <2>2, <2>4, <2>5, <2>6 DEF IInv
<1>. QED  BY <1>2, <1>3

-----------------------------------------------------------------------------
(* The theorems. *)

(* The invariant is inductive, for the whole of tokenize().                  *)
THEOREM Invariance == Spec => []IInv
<1>1. Init => IInv
  <2>1. SUFFICES ASSUME Init PROVE IInv  OBVIOUS
  <2>2. text \in Inputs /\ p = 1 /\ ends = <<NUL>> /\ tokens = <<>> /\ mode = "run"
    BY <2>1 DEF Init
  <2>3. Len(text) \in Nat  BY <2>2, Text
  <2>4. Len(tokens) = 0 /\ IsList(tokens)  BY <2>2 DEF IsList
  <2>5. Len(ends) = 1 /\ ends[1] = NUL /\ ends \in Seq({NUL, NL}) /\ ends # <<>>  BY <2>2
  <2>6. TypeOK  BY <2>2, <2>3, <2>4, <2>5, TokenizerAssumption DEF TypeOK
  <2>7. DefineEnds  BY <2>5 DEF DefineEnds
  <2>. QED  BY <2>2, <2>4, <2>6, <2>7 DEF IInv, Pending, FeedsPreprocessor
<1>2. IInv /\ [Next]_vars => IInv'
  <2>1. SUFFICES ASSUME IInv, [Next]_vars PROVE IInv'  OBVIOUS
  <2>2. CASE UNCHANGED vars
    BY <2>1, <2>2 DEF vars, IInv, TypeOK, IsList, DefineEnds, Pending, FeedsPreprocessor
  <2>3. CASE Next
    BY <2>1, <2>3, SkipRules, WordRules, MarkRules, LiteralRules, DefineRules, FinishKeeps
    DEF Next
  <2>. QED  BY <2>1, <2>2, <2>3
<1>. QED  BY <1>1, <1>2, PTL DEF Spec

(* p stays in the text and its NUL, whatever the file: the scan never takes  *)
(* the NUL for an operator and runs on behind the buffer.                    *)
THEOREM TypeCorrect == Spec => []TypeOK
BY Invariance, PTL DEF IInv

(* Every #define line that is begun has its newline ahead.                   *)
THEOREM DefineLinesEnd == Spec => []DefineEnds
BY Invariance, PTL DEF IInv

(* The list that preprocess() is given is closed as its loops need it.       *)
THEOREM ListIsClosed == Spec => []FeedsPreprocessor
BY Invariance, PTL DEF IInv
=============================================================================
