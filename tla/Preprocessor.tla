------------------------------ MODULE Preprocessor ------------------------------
(***************************************************************************)
(* preprocess() of preprocessor.c: one pass over the token list that       *)
(* stores definitions in a hash table with chains and copies every other   *)
(* token, or the body stored for its text, to a new list.  A token is its  *)
(* kind and its text, a sequence of signed chars.                          *)
(***************************************************************************)
EXTENDS Integers, Sequences

CONSTANTS
  Inputs,         \* the token lists the tokenizer may produce
  HASHMAP_SIZE    \* bound: buckets of the table, 1009 in the code

Char == -128..127
\* A LITERAL is a string or a character; its text lacks the quotes.
Token == [kind : {"DEFINE", "DEFINE_END", "EOF", "LITERAL", "OTHER"}, text : Seq(Char)]

\* What tokenize() guarantees: EOF comes last and only there, and every DEFINE
\* is followed by a DEFINE_END.
ASSUME PreprocessorAssumption ==
  /\ HASHMAP_SIZE \in Nat \ {0}
  /\ Inputs \subseteq Seq(Token)
  /\ \A ts \in Inputs :
       /\ ts # <<>>
       /\ \A i \in 1..Len(ts) : ts[i].kind = "EOF" <=> i = Len(ts)
       /\ \A i \in 1..Len(ts) :
            ts[i].kind = "DEFINE" => \E j \in i+1..Len(ts) : ts[j].kind = "DEFINE_END"

VARIABLES
  tokens,   \* the input list
  cur,      \* index of the token `cur` points at
  mode,     \* loop that runs: "scan" or "body"; or how the process ended:
            \* "done", "crash" (null pointer), "stray" (hashmap index below 0)
  start,    \* where right_tok_head starts copying; 0 outside a definition
  hashmap,  \* bucket -> chain of [key, value], newest first
  out       \* the new list

vars == <<tokens, cur, mode, start, hashmap, out>>

Buckets == 0..HASHMAP_SIZE - 1

-----------------------------------------------------------------------------
\* The remainder of C has the sign of the dividend.
Rem(a, b) == IF a >= 0 THEN a % b ELSE -((-a) % b)

hashmap_hash_NotReduced(key) ==
  LET hash[i \in 0..Len(key)] == IF i = 0 THEN 0 ELSE hash[i - 1] * 31 + key[i]
  IN  hash[Len(key)]

hashmap_hash(key) ==
  LET hash[i \in 0..Len(key)] ==
        IF i = 0 THEN 0 ELSE Rem(hash[i - 1] * 31 + key[i], HASHMAP_SIZE)
  IN  hash[Len(key)]

hashmap_put_Last(key, value) ==
  LET b == hashmap_hash(key)
  IN  [hashmap EXCEPT ![b] = @ \o <<[key |-> key, value |-> value]>>]

hashmap_put(key, value) ==
  LET b == hashmap_hash(key)
  IN  [hashmap EXCEPT ![b] = <<[key |-> key, value |-> value]>> \o @]

\* i is the entry the walk along the chain of `key` stops at.
Found(key, i) ==
  LET chain == hashmap[hashmap_hash(key)]
  IN  /\ i \in 1..Len(chain)
      /\ chain[i].key = key
      /\ \A j \in 1..i - 1 : chain[j].key # key

Kind == tokens[cur].kind
Text == tokens[cur].text

-----------------------------------------------------------------------------
StartDefine_SkipsBody ==
  /\ mode = "scan" /\ Kind = "DEFINE"
  /\ mode' = "body"
  /\ cur' = cur + 3 /\ start' = cur + 3
  /\ UNCHANGED <<tokens, hashmap, out>>

\* The token behind #define is its name, whatever it is.
StartDefine ==
  /\ mode = "scan" /\ Kind = "DEFINE"
  /\ mode' = "body"
  /\ cur' = cur + 2 /\ start' = cur + 2
  /\ UNCHANGED <<tokens, hashmap, out>>

CopyBody_PastEnd ==
  /\ mode = "body"
  /\ IF cur < Len(tokens) THEN cur' = cur + 1 /\ UNCHANGED mode
                          ELSE mode' = "crash" /\ UNCHANGED cur
  /\ UNCHANGED <<tokens, start, hashmap, out>>

\* Behind EOF the list ends in a null pointer.
CopyBody ==
  /\ mode = "body" /\ Kind # "DEFINE_END"
  /\ IF cur < Len(tokens) THEN cur' = cur + 1 /\ UNCHANGED mode
                          ELSE mode' = "crash" /\ UNCHANGED cur
  /\ UNCHANGED <<tokens, start, hashmap, out>>

EndDefine ==
  /\ mode = "body" /\ Kind = "DEFINE_END"
  /\ LET key == tokens[start - 1].text IN
       IF hashmap_hash(key) \in Buckets
       THEN /\ hashmap' = hashmap_put(key, SubSeq(tokens, start, cur - 1))
            /\ mode' = "scan"
            /\ cur' = cur + 1 /\ start' = 0
       ELSE mode' = "stray" /\ UNCHANGED <<cur, start, hashmap>>
  /\ UNCHANGED <<tokens, out>>

Plain == mode = "scan" /\ Kind \notin {"DEFINE", "EOF"}

\* Names are compared with the text of every token, whatever its kind.
Expand ==
  /\ Plain
  /\ hashmap_hash(Text) \in Buckets
  /\ \E i \in 1..Len(hashmap[hashmap_hash(Text)]) :
       /\ Found(Text, i)
       /\ out' = out \o hashmap[hashmap_hash(Text)][i].value
  /\ cur' = cur + 1
  /\ UNCHANGED <<tokens, mode, start, hashmap>>

\* A chain that is read outside the table may be empty too.
Copy ==
  /\ Plain
  /\ hashmap_hash(Text) \in Buckets =>
       \A i \in 1..Len(hashmap[hashmap_hash(Text)]) : ~Found(Text, i)
  /\ out' = Append(out, tokens[cur])
  /\ cur' = cur + 1
  /\ UNCHANGED <<tokens, mode, start, hashmap>>

ReadStray ==
  /\ Plain
  /\ hashmap_hash(Text) \notin Buckets
  /\ mode' = "stray"
  /\ UNCHANGED <<tokens, cur, start, hashmap, out>>

Finish_NotEmpty ==
  /\ mode = "scan" /\ Kind = "EOF" /\ out # <<>>
  /\ mode' = "done"
  /\ out' = Append(out, [kind |-> "EOF", text |-> <<>>])
  /\ UNCHANGED <<tokens, cur, start, hashmap>>

Finish ==
  /\ mode = "scan" /\ Kind = "EOF"
  /\ mode' = "done"
  /\ out' = Append(out, [kind |-> "EOF", text |-> <<>>])
  /\ UNCHANGED <<tokens, cur, start, hashmap>>

Init ==
  /\ tokens \in Inputs
  /\ cur = 1 /\ mode = "scan" /\ start = 0
  /\ hashmap = [b \in Buckets |-> <<>>]
  /\ out = <<>>

Next ==
  StartDefine \/ CopyBody \/ EndDefine \/ Expand \/ Copy \/ ReadStray \/ Finish

\* The process runs until it ends.
Spec == Init /\ [][Next]_vars /\ WF_vars(Next)
-----------------------------------------------------------------------------
(* Properties. *)

Entry == [key : Seq(Char), value : Seq(Token)]

(* Every variable holds a value of its type, and `cur` stays inside the      *)
(* list: no loop of preprocess() follows a null pointer without noticing.    *)
TypeOK ==
  /\ tokens \in Seq(Token)
  /\ cur \in 1..Len(tokens)
  /\ mode \in {"scan", "body", "done", "crash", "stray"}
  /\ start \in 0..Len(tokens)
  /\ hashmap \in [Buckets -> Seq(Entry)]
  /\ out \in Seq(Token)

\* The table as the function it stands for.
Defined == UNION { {hashmap[b][i].key : i \in 1..Len(hashmap[b])} : b \in Buckets }
Macros ==
  [t \in Defined |->
     hashmap[hashmap_hash(t)][CHOOSE i \in 1..Len(hashmap[hashmap_hash(t)]) : Found(t, i)].value]

Promise == INSTANCE MacroExpansion WITH
  pos    <- IF start > 0 THEN start - 2 ELSE cur,
  macros <- Macros,
  ended  <- mode = "done"

(* The output is what a preprocessor promises (MacroExpansion), however      *)
(* names collide in the table and however often a macro is defined again:    *)
(* the chains of hashmap_put and hashmap_get act as the map from names to    *)
(* their last bodies.                                                        *)
KeepsPromise == Promise!Spec

(* Running off the token list takes a #define without a name, which takes    *)
(* the end of its own line for one (preprocess, the loop at line 86).        *)
CrashExplained == mode = "crash" => ~Promise!Named(tokens)

(* The table is only left by the hash of a text with a byte above 127, which *)
(* char makes negative (hashmap_hash): a string literal in UTF-8 is enough.  *)
StrayExplained ==
  mode = "stray" =>
    \E i \in 1..Len(tokens) : \E j \in 1..Len(tokens[i].text) : tokens[i].text[j] < 0

(* 9cc.h calls the tokens TK_STR "string" and TK_LT_CHAR "literal char": what *)
(* is one in the program, preprocess() hands on.                             *)
LiteralsKept ==
  [][mode = "scan" /\ Kind = "LITERAL" /\ cur' # cur => out' = Append(out, tokens[cur])]_vars

(* preprocess() ends on every token list.                                    *)
Termination == <>(mode \in {"done", "crash", "stray"})
=============================================================================
