--------------------------- MODULE PreprocessorProofs ---------------------------
(***************************************************************************)
(* Theorems about Preprocessor, for every set of token lists and every     *)
(* size of the table: types, what a crash and an access outside the table  *)
(* take, and that the table of chains implements MacroExpansion.           *)
(***************************************************************************)
EXTENDS Preprocessor, NatRecursion, SequenceTheorems, TLAPS

-----------------------------------------------------------------------------
(* The inductive invariant. *)

\* Between #define and the end of its line, `start` is two tokens behind the
\* #define and no end of a line lies between it and `cur`.
ScanInv ==
  /\ tokens \in Inputs
  /\ mode \in {"scan", "done"} => start = 0
  /\ mode \in {"body", "crash"} => start # 0
  /\ mode = "crash" => cur = Len(tokens)
  /\ start # 0 =>
       /\ start \in 3..cur
       /\ tokens[start - 2].kind = "DEFINE"
       /\ \A i \in start..cur - 1 : tokens[i].kind # "DEFINE_END"

\* Every entry is in the bucket of its key, and the walk along the chain of a
\* key that has an entry stops at one.
TableInv ==
  \A b \in Buckets : \A i \in 1..Len(hashmap[b]) :
    /\ hashmap_hash(hashmap[b][i].key) = b
    /\ \E m \in 1..Len(hashmap[b]) : Found(hashmap[b][i].key, m)

\* Every key is the name of a definition in the input.
KeysInv ==
  \A b \in Buckets : \A i \in 1..Len(hashmap[b]) :
    \E k \in 1..Len(tokens) - 1 :
      tokens[k].kind = "DEFINE" /\ tokens[k + 1].text = hashmap[b][i].key

IInv == TypeOK /\ ScanInv /\ TableInv /\ KeysInv

-----------------------------------------------------------------------------
(* Facts about the input and the table. *)

\* tokenize() ends its list with EOF, behind the end of every definition.
LEMMA Input ==
  ASSUME IInv
  PROVE  /\ tokens \in Seq(Token) /\ Len(tokens) \in Nat /\ tokens # <<>>
         /\ \A i \in 1..Len(tokens) :
              /\ tokens[i] \in Token
              /\ tokens[i].text \in Seq(Char)
              /\ tokens[i].kind = "EOF" <=> i = Len(tokens)
              /\ tokens[i].kind = "DEFINE" =>
                   \E j \in i+1..Len(tokens) : tokens[j].kind = "DEFINE_END"
<1>1. tokens \in Inputs /\ tokens \in Seq(Token)  BY DEF IInv, ScanInv, TypeOK
<1>2. \A i \in 1..Len(tokens) : tokens[i] \in Token  BY <1>1, ElementOfSeq
<1>. QED  BY <1>1, <1>2, LenProperties, PreprocessorAssumption DEF Token

\* Types of the entries of a chain.
LEMMA Chains ==
  ASSUME IInv, NEW b \in Buckets
  PROVE  /\ hashmap[b] \in Seq(Entry) /\ Len(hashmap[b]) \in Nat
         /\ \A i \in 1..Len(hashmap[b]) :
              /\ hashmap[b][i] \in Entry
              /\ hashmap[b][i].key \in Seq(Char)
              /\ hashmap[b][i].value \in Seq(Token)
<1>1. hashmap[b] \in Seq(Entry)  BY DEF IInv, TypeOK
<1>2. \A i \in 1..Len(hashmap[b]) : hashmap[b][i] \in Entry  BY <1>1, ElementOfSeq
<1>3. \A e \in Entry : e.key \in Seq(Char) /\ e.value \in Seq(Token)  BY DEF Entry
<1>. QED  BY <1>1, <1>2, <1>3, LenProperties

\* The walk along a chain stops at one entry only.
LEMMA Unique ==
  ASSUME IInv, NEW key, hashmap_hash(key) \in Buckets,
         NEW i, NEW j, Found(key, i), Found(key, j)
  PROVE  i = j
<1>1. Len(hashmap[hashmap_hash(key)]) \in Nat  BY Chains
<1>2. i \in Nat /\ j \in Nat /\ i >= 1 /\ j >= 1  BY <1>1 DEF Found
<1>3. ~(i < j)  BY <1>2 DEF Found
<1>4. ~(j < i)  BY <1>2 DEF Found
<1>. QED  BY <1>2, <1>3, <1>4

\* A text is defined exactly if the walk along its chain stops at an entry.
LEMMA DefinedFound ==
  ASSUME IInv, NEW key
  PROVE  key \in Defined <=>
           /\ hashmap_hash(key) \in Buckets
           /\ \E i \in 1..Len(hashmap[hashmap_hash(key)]) : Found(key, i)
<1>1. key \in Defined <=>
        \E b \in Buckets : \E i \in 1..Len(hashmap[b]) : hashmap[b][i].key = key
  BY DEF Defined
<1>2. ASSUME key \in Defined
      PROVE  /\ hashmap_hash(key) \in Buckets
             /\ \E i \in 1..Len(hashmap[hashmap_hash(key)]) : Found(key, i)
  <2>1. PICK b \in Buckets : \E i \in 1..Len(hashmap[b]) : hashmap[b][i].key = key
    BY <1>1, <1>2
  <2>. QED  BY <2>1 DEF IInv, TableInv
<1>3. ASSUME hashmap_hash(key) \in Buckets,
             \E i \in 1..Len(hashmap[hashmap_hash(key)]) : Found(key, i)
      PROVE  key \in Defined
  BY <1>1, <1>3 DEF Found
<1>. QED  BY <1>2, <1>3

\* What the table maps a text to is the value of that entry.
LEMMA MacroValue ==
  ASSUME IInv, NEW key, hashmap_hash(key) \in Buckets,
         NEW i \in 1..Len(hashmap[hashmap_hash(key)]), Found(key, i)
  PROVE  key \in Defined /\ Macros[key] = hashmap[hashmap_hash(key)][i].value
<1>1. key \in Defined  BY DefinedFound
<1>2. (CHOOSE m \in 1..Len(hashmap[hashmap_hash(key)]) : Found(key, m)) = i
  BY Unique
<1>. QED  BY <1>1, <1>2 DEF Macros

-----------------------------------------------------------------------------
(* What storing a definition does to the table. *)

\* The chain that hashmap_put extends holds the new entry, then the old ones;
\* the other chains stay as they are.
LEMMA Extended ==
  ASSUME IInv, NEW key \in Seq(Char), NEW value \in Seq(Token),
         hashmap_hash(key) \in Buckets, hashmap' = hashmap_put(key, value)
  PROVE  /\ hashmap' \in [Buckets -> Seq(Entry)]
         /\ \A b \in Buckets : b # hashmap_hash(key) => hashmap'[b] = hashmap[b]
         /\ Len(hashmap[hashmap_hash(key)]) \in Nat
         /\ Len(hashmap'[hashmap_hash(key)]) = Len(hashmap[hashmap_hash(key)]) + 1
         /\ hashmap'[hashmap_hash(key)][1] = [key |-> key, value |-> value]
         /\ \A i \in 1..Len(hashmap[hashmap_hash(key)]) :
              hashmap'[hashmap_hash(key)][i + 1] = hashmap[hashmap_hash(key)][i]
<1>. DEFINE b == hashmap_hash(key)
            e == [key |-> key, value |-> value]
<1>1. hashmap \in [Buckets -> Seq(Entry)]  BY DEF IInv, TypeOK
<1>2. hashmap' = [hashmap EXCEPT ![b] = <<e>> \o @]  BY DEF hashmap_put
<1>3. e \in Entry /\ <<e>> \in Seq(Entry) /\ Len(<<e>>) = 1 /\ <<e>>[1] = e
  BY DEF Entry
<1>4. hashmap[b] \in Seq(Entry) /\ Len(hashmap[b]) \in Nat  BY Chains
<1>5. hashmap'[b] = <<e>> \o hashmap[b]  BY <1>1, <1>2
<1>. HIDE DEF e, b
<1>6. /\ <<e>> \o hashmap[b] \in Seq(Entry)
      /\ Len(<<e>> \o hashmap[b]) = Len(<<e>>) + Len(hashmap[b])
      /\ \A i \in 1..Len(<<e>>) + Len(hashmap[b]) : (<<e>> \o hashmap[b])[i] =
           IF i <= Len(<<e>>) THEN <<e>>[i] ELSE hashmap[b][i - Len(<<e>>)]
  BY <1>3, <1>4, ConcatProperties, Zenon
<1>7. hashmap'[b][1] = e  BY <1>3, <1>4, <1>5, <1>6
<1>8. \A i \in 1..Len(hashmap[b]) : hashmap'[b][i + 1] = hashmap[b][i]
  BY <1>3, <1>4, <1>5, <1>6
<1>9. Len(hashmap'[b]) = Len(hashmap[b]) + 1  BY <1>3, <1>4, <1>5, <1>6
<1>10. hashmap' \in [Buckets -> Seq(Entry)]  BY <1>1, <1>2, <1>5, <1>6
<1>11. \A c \in Buckets : c # b => hashmap'[c] = hashmap[c]  BY <1>1, <1>2
<1>. QED  BY <1>4, <1>7, <1>8, <1>9, <1>10, <1>11 DEF b, e

\* The walk for the key stops at the new entry.
LEMMA FoundNew ==
  ASSUME IInv, NEW key \in Seq(Char), NEW value \in Seq(Token),
         hashmap_hash(key) \in Buckets, hashmap' = hashmap_put(key, value)
  PROVE  Found(key, 1)'
<1>1. /\ Len(hashmap[hashmap_hash(key)]) \in Nat
      /\ Len(hashmap'[hashmap_hash(key)]) = Len(hashmap[hashmap_hash(key)]) + 1
      /\ hashmap'[hashmap_hash(key)][1] = [key |-> key, value |-> value]
  BY Extended
<1>. QED  BY <1>1 DEF Found

\* The walk for every other text stops where it did, one further down in the
\* bucket of the key.
LEMMA FoundOld ==
  ASSUME IInv, NEW key \in Seq(Char), NEW value \in Seq(Token),
         hashmap_hash(key) \in Buckets, hashmap' = hashmap_put(key, value),
         NEW t, hashmap_hash(t) \in Buckets, t # key, NEW i, Found(t, i)
  PROVE  /\ hashmap_hash(t) # hashmap_hash(key) => Found(t, i)'
         /\ hashmap_hash(t) = hashmap_hash(key) => Found(t, i + 1)'
<1>. DEFINE b == hashmap_hash(key)
<1>1. /\ Len(hashmap[b]) \in Nat
      /\ Len(hashmap'[b]) = Len(hashmap[b]) + 1
      /\ hashmap'[b][1] = [key |-> key, value |-> value]
      /\ \A j \in 1..Len(hashmap[b]) : hashmap'[b][j + 1] = hashmap[b][j]
      /\ \A c \in Buckets : c # b => hashmap'[c] = hashmap[c]
  BY Extended
<1>. HIDE DEF b
<1>2. CASE hashmap_hash(t) # b
  <2>1. hashmap'[hashmap_hash(t)] = hashmap[hashmap_hash(t)]  BY <1>1, <1>2
  <2>. QED  BY <1>2, <2>1 DEF Found, b
<1>3. CASE hashmap_hash(t) = b
  <2>1. /\ i \in 1..Len(hashmap[b]) /\ hashmap[b][i].key = t
        /\ \A j \in 1..i - 1 : hashmap[b][j].key # t
    BY <1>3 DEF Found
  <2>2. i + 1 \in 1..Len(hashmap'[b]) /\ hashmap'[b][i + 1].key = t
    BY <1>1, <2>1
  <2>3. ASSUME NEW j \in 1..(i + 1) - 1  PROVE hashmap'[b][j].key # t
    <3>1. CASE j = 1  BY <1>1, <3>1
    <3>2. CASE j # 1
      <4>1. j - 1 \in 1..i - 1 /\ j - 1 \in 1..Len(hashmap[b]) /\ (j - 1) + 1 = j
        BY <1>1, <2>1, <3>2
      <4>2. hashmap'[b][j] = hashmap[b][j - 1]  BY <1>1, <4>1
      <4>. QED  BY <2>1, <4>1, <4>2
    <3>. QED  BY <3>1, <3>2
  <2>. QED  BY <1>3, <2>2, <2>3 DEF Found, b
<1>. QED  BY <1>2, <1>3 DEF b

\* Storing a definition keeps the table in order.
LEMMA PutTable ==
  ASSUME IInv, NEW key \in Seq(Char), NEW value \in Seq(Token),
         hashmap_hash(key) \in Buckets, hashmap' = hashmap_put(key, value)
  PROVE  TableInv'
<1>. DEFINE b == hashmap_hash(key)
<1>1. /\ Len(hashmap[b]) \in Nat
      /\ Len(hashmap'[b]) = Len(hashmap[b]) + 1
      /\ hashmap'[b][1] = [key |-> key, value |-> value]
      /\ \A j \in 1..Len(hashmap[b]) : hashmap'[b][j + 1] = hashmap[b][j]
      /\ \A c \in Buckets : c # b => hashmap'[c] = hashmap[c]
  BY Extended
\* The key of an old entry is still found, in the same bucket.
<1>2. ASSUME NEW c \in Buckets, NEW k \in 1..Len(hashmap[c]),
             NEW t, t = hashmap[c][k].key
      PROVE  /\ hashmap_hash(t) = c
             /\ \E m \in 1..Len(hashmap'[c]) : Found(t, m)'
  <2>1. hashmap_hash(t) = c /\ \E m \in 1..Len(hashmap[c]) : Found(t, m)
    BY <1>2 DEF IInv, TableInv
  <2>2. PICK m \in 1..Len(hashmap[c]) : Found(t, m)  BY <2>1
  <2>3. CASE t = key
    <3>1. Found(t, 1)'  BY <2>3, FoundNew
    <3>2. 1 \in 1..Len(hashmap'[c])  BY <1>1, <2>1, <2>3
    <3>. QED  BY <2>1, <3>1, <3>2
  <2>4. CASE t # key /\ c # b
    <3>1. Found(t, m)'  BY <2>1, <2>2, <2>4, FoundOld
    <3>2. m \in 1..Len(hashmap'[c])  BY <1>1, <2>2, <2>4
    <3>. QED  BY <2>1, <3>1, <3>2
  <2>5. CASE t # key /\ c = b
    <3>1. Found(t, m + 1)'  BY <2>1, <2>2, <2>5, FoundOld
    <3>2. m + 1 \in 1..Len(hashmap'[c])  BY <1>1, <2>2, <2>5
    <3>. QED  BY <2>1, <3>1, <3>2
  <2>. QED  BY <2>3, <2>4, <2>5
<1>3. ASSUME NEW c \in Buckets, NEW i \in 1..Len(hashmap'[c]),
             NEW t, t = hashmap'[c][i].key
      PROVE  /\ hashmap_hash(t) = c
             /\ \E m \in 1..Len(hashmap'[c]) : Found(t, m)'
  <2>1. CASE c = b /\ i = 1
    <3>1. t = key  BY <1>1, <1>3, <2>1
    <3>2. Found(key, 1)'  BY FoundNew
    <3>. QED  BY <2>1, <3>1, <3>2
  <2>2. CASE c = b /\ i # 1
    <3>1. i - 1 \in 1..Len(hashmap[c]) /\ (i - 1) + 1 = i  BY <1>1, <2>2
    <3>2. hashmap'[c][i] = hashmap[c][i - 1]  BY <1>1, <2>2, <3>1
    <3>. QED  BY <1>2, <1>3, <3>1, <3>2
  <2>3. CASE c # b
    <3>1. i \in 1..Len(hashmap[c]) /\ hashmap'[c][i] = hashmap[c][i]
      BY <1>1, <2>3
    <3>. QED  BY <1>2, <1>3, <3>1
  <2>. QED  BY <2>1, <2>2, <2>3
<1>4. ASSUME NEW c \in Buckets, NEW i \in 1..Len(hashmap'[c])
      PROVE  (/\ hashmap_hash(hashmap[c][i].key) = c
              /\ \E m \in 1..Len(hashmap[c]) : Found(hashmap[c][i].key, m))'
  <2>1. PICK t : t = hashmap'[c][i].key  OBVIOUS
  <2>2. hashmap_hash(t) = c  BY <1>3, <2>1
  <2>3. PICK m \in 1..Len(hashmap'[c]) : Found(t, m)'  BY <1>3, <2>1
  <2>4. Found(hashmap[c][i].key, m)'  BY <2>1, <2>3 DEF Found
  <2>. QED  BY <2>1, <2>2, <2>3, <2>4
<1>. QED  BY <1>4 DEF TableInv, Buckets
\* Storing a definition of the input keeps the keys among its names.
LEMMA PutKeys ==
  ASSUME IInv, NEW k \in 1..Len(tokens) - 1, tokens[k].kind = "DEFINE",
         NEW key \in Seq(Char), key = tokens[k + 1].text, NEW value \in Seq(Token),
         hashmap_hash(key) \in Buckets, hashmap' = hashmap_put(key, value),
         UNCHANGED tokens
  PROVE  KeysInv'
<1>. DEFINE b == hashmap_hash(key)
<1>1. /\ Len(hashmap[b]) \in Nat
      /\ Len(hashmap'[b]) = Len(hashmap[b]) + 1
      /\ hashmap'[b][1] = [key |-> key, value |-> value]
      /\ \A j \in 1..Len(hashmap[b]) : hashmap'[b][j + 1] = hashmap[b][j]
      /\ \A c \in Buckets : c # b => hashmap'[c] = hashmap[c]
  BY Extended
<1>2. ASSUME NEW c \in Buckets, NEW i \in 1..Len(hashmap'[c])
      PROVE  \E m \in 1..Len(tokens) - 1 :
               tokens[m].kind = "DEFINE" /\ tokens[m + 1].text = hashmap'[c][i].key
  <2>1. CASE c = b /\ i = 1  BY <1>1, <2>1
  <2>2. CASE c = b /\ i # 1
    <3>1. i - 1 \in 1..Len(hashmap[c]) /\ (i - 1) + 1 = i  BY <1>1, <2>2
    <3>2. hashmap'[c][i] = hashmap[c][i - 1]  BY <1>1, <2>2, <3>1
    <3>. QED  BY <3>1, <3>2 DEF IInv, KeysInv
  <2>3. CASE c # b
    <3>1. i \in 1..Len(hashmap[c]) /\ hashmap'[c][i] = hashmap[c][i]
      BY <1>1, <2>3
    <3>. QED  BY <3>1 DEF IInv, KeysInv
  <2>. QED  BY <2>1, <2>2, <2>3
<1>. QED  BY <1>2 DEF KeysInv, Buckets

-----------------------------------------------------------------------------
(* The invariant is inductive. *)

\* It holds initially: `cur` points at a token, the table is empty.
LEMMA InitInv ==
  ASSUME Init  PROVE IInv
<1>1. tokens \in Seq(Token) /\ tokens # <<>>  BY PreprocessorAssumption DEF Init
<1>2. cur \in 1..Len(tokens)  BY <1>1, EmptySeq, LenProperties DEF Init
<1>3. <<>> \in Seq(Entry) /\ <<>> \in Seq(Token) /\ Len(<<>>) = 0  OBVIOUS
<1>4. TypeOK  BY <1>1, <1>2, <1>3 DEF Init, TypeOK
<1>5. ScanInv  BY DEF Init, ScanInv
<1>6. \A b \in Buckets : Len(hashmap[b]) = 0  BY <1>3 DEF Init
<1>7. TableInv  BY <1>6 DEF TableInv
<1>8. KeysInv  BY <1>6 DEF KeysInv
<1>. QED  BY <1>4, <1>5, <1>7, <1>8 DEF IInv

\* The table is in order if no step touches it.
LEMMA SameTable ==
  ASSUME IInv, UNCHANGED tokens, UNCHANGED hashmap  PROVE TableInv' /\ KeysInv'
<1>1. TableInv'
  <2>1. ASSUME NEW c \in Buckets, NEW i \in 1..Len(hashmap[c])
        PROVE  (/\ hashmap_hash(hashmap[c][i].key) = c
                /\ \E m \in 1..Len(hashmap[c]) : Found(hashmap[c][i].key, m))'
    <3>1. PICK t : t = hashmap[c][i].key  OBVIOUS
    <3>2. hashmap_hash(t) = c  BY <3>1 DEF IInv, TableInv
    <3>3. PICK m \in 1..Len(hashmap[c]) : Found(t, m)  BY <3>1 DEF IInv, TableInv
    <3>4. Found(hashmap[c][i].key, m)'  BY <3>1, <3>3 DEF Found
    <3>. QED  BY <3>1, <3>2, <3>3, <3>4
  <2>. QED  BY <2>1 DEF TableInv, Buckets
<1>2. KeysInv'  BY DEF IInv, KeysInv, Buckets
<1>. QED  BY <1>1, <1>2

\* At a token other than EOF there is one more.
LEMMA NotLast ==
  ASSUME IInv, Kind # "EOF"  PROVE cur + 1 \in 1..Len(tokens)
<1>1. Len(tokens) \in Nat /\ cur \in 1..Len(tokens)  BY Input DEF IInv, TypeOK
<1>2. cur # Len(tokens)  BY <1>1, Input DEF Kind
<1>. QED  BY <1>1, <1>2

\* Every step of preprocess() keeps it.
LEMMA StepInv ==
  ASSUME IInv, [Next]_vars  PROVE IInv'
<1>. USE DEF IInv
<1>1. /\ Len(tokens) \in Nat /\ cur \in 1..Len(tokens)
      /\ tokens \in Seq(Token) /\ out \in Seq(Token) /\ tokens \in Inputs
  BY Input DEF TypeOK, ScanInv
<1>2. CASE StartDefine
  <2>1. PICK j \in cur + 1..Len(tokens) : tokens[j].kind = "DEFINE_END"
    BY <1>1, <1>2, Input DEF StartDefine, Kind
  <2>2. j # Len(tokens)  BY <1>1, <2>1, Input
  <2>3. cur + 2 \in 3..Len(tokens)  BY <1>1, <2>1, <2>2
  <2>4. TypeOK'  BY <1>1, <1>2, <2>3 DEF StartDefine, TypeOK
  <2>5. ScanInv'  BY <1>1, <1>2, <2>3 DEF StartDefine, ScanInv, Kind
  <2>. QED  BY <1>2, <2>4, <2>5, SameTable DEF StartDefine
<1>3. CASE CopyBody
  <2>1. start # 0 /\ start \in 3..cur  BY <1>3 DEF CopyBody, ScanInv
  <2>2. TypeOK'  BY <1>1, <1>3 DEF CopyBody, TypeOK
  <2>3. CASE cur < Len(tokens)
    <3>1. \A i \in start..(cur + 1) - 1 : tokens[i].kind # "DEFINE_END"
      BY <1>1, <1>3, <2>1 DEF CopyBody, ScanInv, Kind
    <3>. QED
      BY <1>1, <1>3, <2>1, <2>2, <2>3, <3>1, SameTable DEF CopyBody, ScanInv
  <2>4. CASE ~(cur < Len(tokens))
    BY <1>1, <1>3, <2>1, <2>2, <2>4, SameTable DEF CopyBody, ScanInv
  <2>. QED  BY <2>3, <2>4
<1>4. CASE EndDefine
  <2>. DEFINE key == tokens[start - 1].text
              value == SubSeq(tokens, start, cur - 1)
  <2>1. start # 0 /\ start \in 3..cur  BY <1>4 DEF EndDefine, ScanInv
  <2>2. cur + 1 \in 1..Len(tokens)  BY <1>4, NotLast DEF EndDefine
  <2>3. start - 1 \in 1..Len(tokens)  BY <1>1, <2>1
  <2>4. key \in Seq(Char)  BY <2>3, Input
  <2>5. value \in Seq(Token)
    <3>1. \A i \in start..cur - 1 : tokens[i] \in Token  BY <1>1, <2>1, Input
    <3>. QED  BY <1>1, <2>1, <3>1, SubSeqProperties
  <2>. HIDE DEF key, value
  <2>6. CASE hashmap_hash(key) \in Buckets
    <3>1. hashmap' = hashmap_put(key, value)
      BY <1>4, <2>6 DEF EndDefine, key, value
    <3>2. /\ cur' = cur + 1 /\ mode' = "scan" /\ start' = 0
          /\ UNCHANGED <<tokens, out>>
      BY <1>4, <2>6 DEF EndDefine, key
    <3>3. hashmap' \in [Buckets -> Seq(Entry)]
      BY <2>4, <2>5, <2>6, <3>1, Extended
    <3>4. TypeOK'  BY <1>1, <2>2, <3>2, <3>3 DEF TypeOK
    <3>5. ScanInv'  BY <1>1, <3>2 DEF ScanInv
    <3>6. TableInv'  BY <2>4, <2>5, <2>6, <3>1, PutTable
    <3>7. KeysInv'
      <4>1. /\ start - 2 \in 1..Len(tokens) - 1 /\ (start - 2) + 1 = start - 1
            /\ tokens[start - 2].kind = "DEFINE"
        BY <1>1, <1>4, <2>1 DEF EndDefine, ScanInv
      <4>2. key = tokens[(start - 2) + 1].text  BY <4>1 DEF key
      <4>. QED  BY <2>4, <2>5, <2>6, <3>1, <3>2, <4>1, <4>2, PutKeys
    <3>. QED  BY <3>4, <3>5, <3>6, <3>7
  <2>7. CASE hashmap_hash(key) \notin Buckets
    <3>1. mode' = "stray" /\ UNCHANGED <<tokens, cur, start, hashmap, out>>
      BY <1>4, <2>7 DEF EndDefine, key
    <3>2. TypeOK'  BY <3>1 DEF TypeOK
    <3>3. ScanInv'  BY <3>1 DEF ScanInv
    <3>. QED  BY <3>1, <3>2, <3>3, SameTable
  <2>. QED  BY <2>6, <2>7
<1>5. CASE Expand
  <2>1. cur + 1 \in 1..Len(tokens)  BY <1>5, NotLast DEF Expand, Plain
  <2>2. start = 0  BY <1>5 DEF Expand, Plain, ScanInv
  <2>3. PICK i \in 1..Len(hashmap[hashmap_hash(Text)]) :
          out' = out \o hashmap[hashmap_hash(Text)][i].value
    BY <1>5 DEF Expand
  <2>4. hashmap[hashmap_hash(Text)][i].value \in Seq(Token)
    BY <1>5, Chains DEF Expand
  <2>5. out' \in Seq(Token)  BY <1>1, <2>3, <2>4, ConcatProperties
  <2>6. TypeOK'  BY <1>5, <2>1, <2>5 DEF Expand, TypeOK
  <2>7. ScanInv'  BY <1>5, <2>2 DEF Expand, Plain, ScanInv
  <2>. QED  BY <1>5, <2>6, <2>7, SameTable DEF Expand
<1>6. CASE Copy
  <2>1. cur + 1 \in 1..Len(tokens)  BY <1>6, NotLast DEF Copy, Plain
  <2>2. start = 0  BY <1>6 DEF Copy, Plain, ScanInv
  <2>3. out' \in Seq(Token)  BY <1>1, <1>6, Input, AppendProperties DEF Copy
  <2>4. TypeOK'  BY <1>6, <2>1, <2>3 DEF Copy, TypeOK
  <2>5. ScanInv'  BY <1>6, <2>2 DEF Copy, Plain, ScanInv
  <2>. QED  BY <1>6, <2>4, <2>5, SameTable DEF Copy
<1>7. CASE ReadStray
  <2>1. TypeOK'  BY <1>7 DEF ReadStray, TypeOK
  <2>2. ScanInv'  BY <1>7 DEF ReadStray, ScanInv
  <2>. QED  BY <1>7, <2>1, <2>2, SameTable DEF ReadStray
<1>8. CASE Finish
  <2>. DEFINE end == [kind |-> "EOF", text |-> <<>>]
  <2>0. end \in Token  BY DEF Token
  <2>1. out' \in Seq(Token)  BY <1>1, <1>8, <2>0, AppendProperties DEF Finish
  <2>2. TypeOK'  BY <1>8, <2>1 DEF Finish, TypeOK
  <2>3. ScanInv'  BY <1>8 DEF Finish, ScanInv
  <2>. QED  BY <1>8, <2>2, <2>3, SameTable DEF Finish
<1>9. CASE UNCHANGED vars
  <2>1. TypeOK'  BY <1>9 DEF vars, TypeOK
  <2>2. ScanInv'  BY <1>9 DEF vars, ScanInv
  <2>. QED  BY <1>9, <2>1, <2>2, SameTable DEF vars
<1>. QED  BY <1>2, <1>3, <1>4, <1>5, <1>6, <1>7, <1>8, <1>9 DEF Next

\* The invariant holds in every reachable state.
THEOREM Invariance == Spec => []IInv
<1>. QED  BY InitInv, StepInv, PTL DEF Spec

\* Variables keep their types; `cur` never leaves the token list.
THEOREM TypeCorrect == Spec => []TypeOK
<1>1. IInv => TypeOK  BY DEF IInv
<1>. QED  BY <1>1, Invariance, PTL

\* A crash takes a definition without a name (preprocess, line 86).
THEOREM CrashNeedsNameless == Spec => []CrashExplained
<1>1. ASSUME IInv, mode = "crash", Promise!Named(tokens)  PROVE FALSE
  <2>1. Len(tokens) \in Nat /\ cur = Len(tokens) /\ start \in 3..cur
    BY <1>1, Input DEF IInv, ScanInv
  <2>2. start - 2 \in 1..Len(tokens) /\ tokens[start - 2].kind = "DEFINE"
    BY <1>1, <2>1 DEF IInv, ScanInv
  <2>3. PICK j \in (start - 2) + 1..Len(tokens) : tokens[j].kind = "DEFINE_END"
    BY <1>1, <2>1, <2>2, Input
  <2>4. j # Len(tokens)  BY <1>1, <2>1, <2>3, Input
  <2>5. j \notin start..cur - 1  BY <1>1, <2>1, <2>3 DEF IInv, ScanInv
  <2>6. j = (start - 2) + 1 /\ start - 2 \in 1..Len(tokens) - 1
    BY <2>1, <2>2, <2>3, <2>4, <2>5
  <2>. QED  BY <1>1, <2>2, <2>3, <2>6 DEF Promise!Named, Promise!Defines
<1>2. IInv => CrashExplained  BY <1>1 DEF CrashExplained
<1>. QED  BY <1>2, Invariance, PTL
-----------------------------------------------------------------------------
(* What leaves the table. *)

\* The remainder of a negative number is negative, that of the others a bucket.
LEMMA RemType ==
  ASSUME NEW a \in Int
  PROVE  /\ Rem(a, HASHMAP_SIZE) \in Int
         /\ a >= 0 => Rem(a, HASHMAP_SIZE) \in Buckets
<1>1. HASHMAP_SIZE \in Int /\ HASHMAP_SIZE > 0  BY PreprocessorAssumption
<1>. QED  BY <1>1 DEF Rem, Buckets

\* hashmap_hash mixes one byte after the other.
LEMMA HashSteps ==
  ASSUME NEW key \in Seq(Char)
  PROVE  \E f \in [0..Len(key) -> Int] :
           /\ hashmap_hash(key) = f[Len(key)]
           /\ f[0] = 0
           /\ \A i \in 1..Len(key) : f[i] = Rem(f[i - 1] * 31 + key[i], HASHMAP_SIZE)
<1>. DEFINE n == Len(key)
            mixed(v, i) == Rem(v * 31 + key[i], HASHMAP_SIZE)
            step == [i \in 1..n |-> [v \in Int |-> mixed(v, i)]]
            Good(f) == f = [i \in 0..n |-> IF i = 0 THEN 0 ELSE mixed(f[i - 1], i)]
            h == CHOOSE f : Good(f)
<1>1. hashmap_hash(key) = h[n] BY DEF hashmap_hash
<1>. HIDE DEF h
<1>2. ASSUME NEW v \in Int, NEW i \in 1..n PROVE mixed(v, i) \in Int
  <2>1. PICK c \in Int : c = key[i]  BY ElementOfSeq DEF Char
  <2>2. v * 31 + c \in Int  OBVIOUS
  <2>. QED  BY <2>1, <2>2, RemType
<1>3. n \in Nat OBVIOUS
<1>. HIDE DEF n, mixed
<1>4. PICK f : IsRun(f, n, Int, 0, step)
  <2>1. step \in Steps(n, Int)  BY <1>2 DEF Steps
  <2>2. 0 \in Int  OBVIOUS
  <2>. HIDE DEF step
  <2>. QED  BY <1>3, <2>1, <2>2, Recursion, Zenon
<1>5. ASSUME NEW i \in 1..n  PROVE f[i] = mixed(f[i - 1], i)
  <2>1. PICK v \in Int : v = f[i - 1]  BY <1>3, <1>4 DEF IsRun
  <2>2. step[i][v] = mixed(v, i)  OBVIOUS
  <2>. QED  BY <1>4, <2>1, <2>2 DEF IsRun
<1>6. Good(f) BY <1>3, <1>4, <1>5 DEF IsRun
<1>7. Good(h)
  <2>. HIDE DEF Good
  <2>. QED BY <1>6 DEF h
<1>8. h[0] = 0 /\ \A i \in 1..n : h[i] = mixed(h[i - 1], i)  BY <1>3, <1>7
<1>9. h \in [0..n -> Int]
  <2>. DEFINE T == {i \in 0..n : h[i] \in Int}
  <2>1. ASSUME NEW i \in 1..n, i - 1 \in T  PROVE i \in T
    <3>1. h[i - 1] \in Int /\ i \in 0..n  BY <1>3, <2>1
    <3>. QED  BY <1>2, <1>8, <3>1
  <2>2. 0 \in T  BY <1>3, <1>8
  <2>3. 0..n \subseteq T 
    <3>. HIDE DEF T
    <3>. QED  BY <1>3, <2>1, <2>2, Induct
  <2>. QED  BY <2>3, <1>7
<1>. QED BY <1>1, <1>8, <1>9 DEF n, mixed

\* No text of ASCII characters is hashed outside the table.
LEMMA HashInTable ==
  ASSUME NEW key \in Seq(Char), \A j \in 1..Len(key) : key[j] >= 0
  PROVE  hashmap_hash(key) \in Buckets
<1>1. PICK f \in [0..Len(key) -> Int] :
           /\ hashmap_hash(key) = f[Len(key)]
           /\ f[0] = 0
           /\ \A i \in 1..Len(key) : f[i] = Rem(f[i - 1] * 31 + key[i], HASHMAP_SIZE)
  BY HashSteps
<1>. DEFINE T == {i \in 0..Len(key) : f[i] \in Buckets}
<1>2. Len(key) \in Nat  OBVIOUS
<1>3. 0 \in T  BY <1>1, <1>2, PreprocessorAssumption DEF Buckets
<1>4. ASSUME NEW i \in 1..Len(key), i - 1 \in T  PROVE i \in T
  <2>1. f[i - 1] \in Nat  BY <1>4, PreprocessorAssumption DEF Buckets
  <2>2. key[i] \in Char /\ key[i] >= 0  BY ElementOfSeq
  <2>3. \A c \in Char : c >= 0 => c \in Nat  BY DEF Char
  <2>4. key[i] \in Nat  BY <2>2, <2>3
  <2>5. f[i - 1] * 31 + key[i] \in Nat  BY <2>1, <2>4
  <2>. QED  BY <1>1, <2>5, RemType
<1>5. 0..Len(key) \subseteq T
  <2>. HIDE DEF T
  <2>. QED  BY <1>2, <1>3, <1>4, Induct
<1>. QED  BY <1>1, <1>2, <1>5

\* Only the text of a token is hashed; outside the table, it has a byte below 0.
LEMMA StrayStep ==
  ASSUME IInv, StrayExplained, [Next]_vars  PROVE StrayExplained'
<1>. DEFINE negative(i) == \E j \in 1..Len(tokens[i].text) : tokens[i].text[j] < 0
<1>1. ASSUME NEW i \in 1..Len(tokens), hashmap_hash(tokens[i].text) \notin Buckets
      PROVE  negative(i)
  <2>1. tokens[i].text \in Seq(Char)  BY Input
  <2>2. PICK j \in 1..Len(tokens[i].text) : ~(tokens[i].text[j] >= 0)
    BY <1>1, <2>1, HashInTable
  <2>3. tokens[i].text[j] \in Char  BY <2>1, ElementOfSeq
  <2>4. \A c \in Char : ~(c >= 0) => c < 0  BY DEF Char
  <2>. QED  BY <2>2, <2>3, <2>4
<1>2. /\ Len(tokens) \in Nat /\ cur \in 1..Len(tokens)
      /\ start # 0 => start \in 3..cur
      /\ mode = "body" => start # 0
  BY Input DEF IInv, TypeOK, ScanInv
<1>3. tokens' = tokens
  BY DEF Next, vars, StartDefine, CopyBody, EndDefine, Expand, Copy, ReadStray, Finish
<1>4. CASE ReadStray
  <2>1. hashmap_hash(tokens[cur].text) \notin Buckets
    BY <1>4 DEF ReadStray, Text
  <2>. QED  BY <1>1, <1>2, <1>3, <2>1 DEF StrayExplained
<1>5. CASE EndDefine /\ mode' = "stray"
  <2>1. hashmap_hash(tokens[start - 1].text) \notin Buckets /\ mode = "body"
    BY <1>5 DEF EndDefine
  <2>2. start - 1 \in 1..Len(tokens)  BY <1>2, <2>1
  <2>. QED  BY <1>1, <1>3, <2>1, <2>2 DEF StrayExplained
<1>6. CASE mode' # "stray" \/ mode = "stray"
  BY <1>3, <1>6 DEF StrayExplained
<1>7. mode' = "stray" => ReadStray \/ EndDefine \/ mode = "stray"
  BY DEF Next, vars, StartDefine, CopyBody, Expand, Copy, Finish, Plain
<1>. QED  BY <1>4, <1>5, <1>6, <1>7

\* Leaving the table takes a text with a byte above 127 (hashmap_hash).
THEOREM StrayNeedsNegative == Spec => []StrayExplained
<1>1. Init => StrayExplained  BY DEF Init, StrayExplained
<1>. QED  BY <1>1, StrayStep, Invariance, PTL DEF Spec

-----------------------------------------------------------------------------
(* The table of chains implements MacroExpansion. *)

\* An entry the walk for a text stops at is what the table maps the text to.
LEMMA Lookup ==
  IInv => \A key, i :
            /\ hashmap_hash(key) \in Buckets
            /\ Found(key, i)
            => /\ key \in Defined
               /\ Macros[key] = hashmap[hashmap_hash(key)][i].value
<1>. SUFFICES ASSUME IInv, NEW key, NEW i,
                     hashmap_hash(key) \in Buckets, Found(key, i)
              PROVE  /\ key \in Defined
                     /\ Macros[key] = hashmap[hashmap_hash(key)][i].value
  OBVIOUS
<1>1. i \in 1..Len(hashmap[hashmap_hash(key)])  BY DEF Found
<1>. QED  BY <1>1, MacroValue

\* The same of the state after a step.
LEMMA LookupAfter ==
  IInv' => \A key, i :
             /\ hashmap_hash(key) \in Buckets
             /\ Found(key, i)'
             => /\ key \in Defined'
                /\ Macros'[key] = hashmap'[hashmap_hash(key)][i].value
<1>1. IInv' => (\A key, i :
                  /\ hashmap_hash(key) \in Buckets
                  /\ Found(key, i)
                  => /\ key \in Defined
                     /\ Macros[key] = hashmap[hashmap_hash(key)][i].value)'
  BY Lookup, PTL
<1>. QED  BY <1>1 DEF Buckets

\* Storing a definition overrides the old one of its key, and no other.
LEMMA MacrosPut ==
  ASSUME IInv, IInv', NEW key \in Seq(Char), NEW value \in Seq(Token),
         hashmap_hash(key) \in Buckets, hashmap' = hashmap_put(key, value)
  PROVE  Macros' = [t \in DOMAIN Macros \cup {key} |->
                      IF t = key THEN value ELSE Macros[t]]
<1>. DEFINE b == hashmap_hash(key)
<1>1. /\ Len(hashmap[b]) \in Nat
      /\ Len(hashmap'[b]) = Len(hashmap[b]) + 1
      /\ hashmap'[b][1] = [key |-> key, value |-> value]
      /\ \A j \in 1..Len(hashmap[b]) : hashmap'[b][j + 1] = hashmap[b][j]
      /\ \A c \in Buckets : c # b => hashmap'[c] = hashmap[c]
  BY Extended
<1>2. key \in Defined' /\ Macros'[key] = value
  <2>1. Found(key, 1)'  BY FoundNew
  <2>. QED  BY <1>1, <2>1, LookupAfter
<1>3. ASSUME NEW t \in Defined, t # key
      PROVE  t \in Defined' /\ Macros'[t] = Macros[t]
  <2>1. hashmap_hash(t) \in Buckets  BY DefinedFound
  <2>2. PICK i \in 1..Len(hashmap[hashmap_hash(t)]) : Found(t, i)  BY DefinedFound
  <2>3. Macros[t] = hashmap[hashmap_hash(t)][i].value  BY <2>1, <2>2, MacroValue
  <2>4. CASE hashmap_hash(t) # b
    <3>1. Found(t, i)'  BY <1>3, <2>1, <2>2, <2>4, FoundOld
    <3>. QED  BY <1>1, <2>1, <2>3, <2>4, <3>1, LookupAfter
  <2>5. CASE hashmap_hash(t) = b
    <3>1. Found(t, i + 1)'  BY <1>3, <2>1, <2>2, <2>5, FoundOld
    <3>2. hashmap'[b][i + 1] = hashmap[b][i]  BY <1>1, <2>2, <2>5
    <3>. QED  BY <2>1, <2>3, <2>5, <3>1, <3>2, LookupAfter
  <2>. QED  BY <2>4, <2>5
<1>4. ASSUME NEW t \in Defined', t # key  PROVE t \in Defined
  <2>1. PICK c \in Buckets : \E i \in 1..Len(hashmap'[c]) : hashmap'[c][i].key = t
    BY DEF Defined, Buckets
  <2>2. PICK i \in 1..Len(hashmap'[c]) : hashmap'[c][i].key = t  BY <2>1
  <2>3. CASE c # b  BY <1>1, <2>2, <2>3 DEF Defined
  <2>4. CASE c = b
    <3>1. i # 1  BY <1>1, <1>4, <2>2, <2>4
    <3>2. i - 1 \in 1..Len(hashmap[b]) /\ (i - 1) + 1 = i  BY <1>1, <2>4, <3>1
    <3>3. hashmap[b][i - 1].key = t  BY <1>1, <2>2, <2>4, <3>2
    <3>. QED  BY <2>4, <3>2, <3>3 DEF Defined
  <2>. QED  BY <2>3, <2>4
<1>5. DOMAIN Macros = Defined /\ Defined' = Defined \cup {key}
  BY <1>2, <1>3, <1>4 DEF Macros
<1>6. Macros' = [t \in Defined' |-> Macros'[t]]  BY DEF Macros
<1>. QED  BY <1>2, <1>3, <1>5, <1>6

\* A step that does not touch the table changes no definition.
LEMMA SameMacros ==
  ASSUME UNCHANGED hashmap  PROVE UNCHANGED Macros
<1>. QED  BY DEF Macros, Defined, Found, Buckets

\* An initial state is one of the abstract specification.
LEMMA InitRefines ==
  ASSUME Init  PROVE Promise!Init
<1>1. tokens \in Seq(Token)  BY PreprocessorAssumption DEF Init
<1>2. Defined = {}  BY DEF Init, Defined
<1>3. Macros = [t \in {} |-> <<>>]  BY <1>2 DEF Macros
<1>. QED  BY <1>1, <1>3 DEF Init, Promise!Init

\* Storing a definition at the end of its line is the abstract Define; the
\* tokens of the line before that, and ends of the process, are stutters.
LEMMA StepRefines ==
  ASSUME IInv, IInv', [Next]_vars  PROVE [Promise!Next]_(Promise!vars)
<1>. DEFINE pos == IF start > 0 THEN start - 2 ELSE cur
<1>1. Len(tokens) \in Nat /\ cur \in 1..Len(tokens) /\ start \in 0..Len(tokens)
  BY Input DEF IInv, TypeOK
<1>2. CASE StartDefine
  <2>1. start = 0  BY <1>2 DEF IInv, ScanInv, StartDefine
  <2>2. UNCHANGED <<tokens, pos, Macros, out, mode = "done">>
    BY <1>1, <1>2, <2>1, SameMacros DEF StartDefine
  <2>. QED  BY <2>2 DEF Promise!vars
<1>3. CASE CopyBody
  <2>1. start # 0  BY <1>3 DEF IInv, ScanInv, CopyBody
  <2>2. mode # "done" /\ mode' # "done"  BY <1>1, <1>3 DEF CopyBody
  <2>3. UNCHANGED <<tokens, start, hashmap, out>>  BY <1>3 DEF CopyBody
  <2>4. start > 0 /\ start' = start  BY <1>1, <1>3, <2>1 DEF CopyBody
  <2>5. UNCHANGED <<tokens, pos, Macros, out, mode = "done">>
    BY <2>2, <2>3, <2>4, SameMacros
  <2>. QED  BY <2>5 DEF Promise!vars
<1>4. CASE EndDefine
  <2>. DEFINE key == tokens[start - 1].text
              value == SubSeq(tokens, start, cur - 1)
  <2>1. /\ start # 0 /\ start \in 3..cur
        /\ tokens[start - 2].kind = "DEFINE"
        /\ \A i \in start..cur - 1 : tokens[i].kind # "DEFINE_END"
    BY <1>4 DEF IInv, EndDefine, ScanInv
  <2>2. CASE hashmap_hash(key) \in Buckets
    <3>1. key \in Seq(Char)  BY <1>1, <2>1, Input
    <3>2. value \in Seq(Token)
      <4>1. \A i \in start..cur - 1 : tokens[i] \in Token  BY <1>1, <2>1, Input
      <4>. QED  BY <1>1, <2>1, <4>1, Input, SubSeqProperties
    <3>3. /\ hashmap' = hashmap_put(key, value)
          /\ cur' = cur + 1 /\ mode' = "scan" /\ mode # "done" /\ start' = 0
          /\ UNCHANGED <<tokens, out>>
      BY <1>4, <2>2 DEF EndDefine
    <3>4. Macros' = [t \in DOMAIN Macros \cup {key} |->
                       IF t = key THEN value ELSE Macros[t]]
      BY <2>2, <3>1, <3>2, <3>3, MacrosPut
    <3>5. pos = start - 2 /\ pos + 1 = start - 1 /\ pos + 2 = start /\ pos' = cur + 1
      BY <1>1, <2>1, <3>3
    <3>6. tokens[cur].kind = "DEFINE_END" /\ cur \in pos + 2..Len(tokens)
      BY <1>1, <1>4, <2>1, <3>5 DEF EndDefine, Kind
    <3>7. Promise!Define(cur)
      BY <2>1, <3>3, <3>4, <3>5, <3>6 DEF Promise!Define, Promise!Kind, Promise!Text
    <3>. QED  BY <1>1, <3>3, <3>7 DEF Promise!Next
  <2>3. CASE hashmap_hash(key) \notin Buckets
    <3>1. UNCHANGED <<tokens, pos, Macros, out, mode = "done">>
      BY <1>4, <2>3, SameMacros DEF EndDefine
    <3>. QED  BY <3>1 DEF Promise!vars
  <2>. QED  BY <2>2, <2>3
<1>5. CASE Expand
  <2>1. start = 0 /\ pos = cur /\ pos' = cur + 1
    BY <1>5 DEF IInv, ScanInv, Expand, Plain
  <2>2. PICK i \in 1..Len(hashmap[hashmap_hash(Text)]) :
          /\ Found(Text, i)
          /\ out' = out \o hashmap[hashmap_hash(Text)][i].value
    BY <1>5 DEF Expand
  <2>3. Text \in Defined /\ Macros[Text] = hashmap[hashmap_hash(Text)][i].value
    BY <1>5, <2>2, Lookup DEF Expand
  <2>4. Text \in DOMAIN Macros /\ out' = out \o Macros[Text]
    BY <2>2, <2>3 DEF Macros
  <2>5. UNCHANGED <<tokens, Macros, mode = "done">>  BY <1>5, SameMacros DEF Expand
  <2>6. CASE Kind # "LITERAL"
    <3>1. Promise!Replace
      BY <1>5, <2>1, <2>4, <2>5, <2>6
         DEF Promise!Replace, Promise!Kind, Promise!Text, Expand, Plain, Kind, Text
    <3>. QED  BY <2>5, <3>1 DEF Promise!Next
  \* The literal that is replaced reads like a name of the input.
  <2>7. CASE Kind = "LITERAL"
    <3>1. hashmap[hashmap_hash(Text)][i].key = Text  BY <2>2 DEF Found
    <3>2. PICK k \in 1..Len(tokens) - 1 :
            tokens[k].kind = "DEFINE" /\ tokens[k + 1].text = Text
      BY <1>5, <2>2, <3>1 DEF IInv, KeysInv, Expand
    <3>3. k \in 1..Len(tokens)  BY <1>1, <3>2
    <3>4. ~Promise!WellFormed(tokens)
      BY <1>1, <2>7, <3>2, <3>3
         DEF Promise!WellFormed, Promise!Distinct, Promise!Defines, Kind, Text
    <3>. QED  BY <2>5, <3>4 DEF Promise!Next
  <2>. QED  BY <2>6, <2>7
<1>6. CASE Copy
  <2>1. start = 0 /\ pos = cur /\ pos' = cur + 1
    BY <1>6 DEF IInv, ScanInv, Copy, Plain
  <2>2. Text \notin DOMAIN Macros  BY <1>6, DefinedFound DEF Copy, Macros
  <2>3. UNCHANGED <<tokens, Macros, mode = "done">>  BY <1>6, SameMacros DEF Copy
  <2>4. Promise!Keep
    BY <1>6, <2>1, <2>2, <2>3
       DEF Promise!Keep, Promise!Kind, Promise!Text, Copy, Plain, Kind, Text
  <2>. QED  BY <2>3, <2>4 DEF Promise!Next
<1>7. CASE ReadStray
  <2>1. UNCHANGED <<tokens, pos, Macros, out, mode = "done">>
    BY <1>7, SameMacros DEF ReadStray, Plain
  <2>. QED  BY <2>1 DEF Promise!vars
<1>8. CASE Finish
  <2>1. start = 0 /\ pos = cur /\ pos' = cur
    BY <1>8 DEF IInv, ScanInv, Finish
  <2>2. UNCHANGED <<tokens, Macros>>  BY <1>8, SameMacros DEF Finish
  <2>3. Promise!End
    BY <1>8, <2>1, <2>2 DEF Promise!End, Promise!Kind, Finish, Kind
  <2>. QED  BY <2>2, <2>3 DEF Promise!Next
<1>9. CASE UNCHANGED vars
  <2>1. UNCHANGED <<tokens, pos, Macros, out, mode = "done">>
    BY <1>9, SameMacros DEF vars
  <2>. QED  BY <2>1 DEF Promise!vars
<1>. QED  BY <1>2, <1>3, <1>4, <1>5, <1>6, <1>7, <1>8, <1>9 DEF Next

\* preprocess() implements MacroExpansion: the output is the tokens outside
\* definitions, each replaced by the body its text was last defined as.
THEOREM Implements == Spec => KeepsPromise
<1>1. Init => Promise!Init  BY InitRefines
<1>2. IInv /\ IInv' /\ [Next]_vars => [Promise!Next]_(Promise!vars)
  BY StepRefines
<1>. QED  BY <1>1, <1>2, Invariance, PTL DEF Spec, KeepsPromise, Promise!Spec
=============================================================================
