----------------------------- MODULE MacroExpansion -----------------------------
(***************************************************************************)
(* What a preprocessor of object-like macros promises: the tokens outside  *)
(* definitions, in order, each replaced by the body its text was last      *)
(* defined as unless it is a literal.  A definition reaches from its name  *)
(* to the end of its line.  Replacements are not scanned again.            *)
(***************************************************************************)
EXTENDS Integers, Sequences

CONSTANT Token   \* records of a kind and a text

VARIABLES
  tokens,   \* the input
  pos,      \* its next token
  macros,   \* text -> body
  out,      \* the output
  ended     \* whether the end of the input has been reached

vars == <<tokens, pos, macros, out, ended>>

Kind(i) == tokens[i].kind
Text(i) == tokens[i].text

Defines(ts, i) == i \in 1..Len(ts) - 1 /\ ts[i].kind = "DEFINE"

\* Every definition has a name, and no literal reads like one of the names.
Named(ts) == \A i \in 1..Len(ts) : Defines(ts, i) => ts[i + 1].kind # "DEFINE_END"
Distinct(ts) ==
  \A i, j \in 1..Len(ts) :
    Defines(ts, i) /\ ts[j].kind = "LITERAL" => ts[j].text # ts[i + 1].text
WellFormed(ts) == Named(ts) /\ Distinct(ts)

Define(end) ==
  /\ Kind(pos) = "DEFINE"
  /\ end \in pos + 2..Len(tokens)
  /\ Kind(end) = "DEFINE_END"
  /\ \A i \in pos + 2..end - 1 : Kind(i) # "DEFINE_END"
  /\ macros' = [t \in DOMAIN macros \cup {Text(pos + 1)} |->
                  IF t = Text(pos + 1) THEN SubSeq(tokens, pos + 2, end - 1)
                                       ELSE macros[t]]
  /\ pos' = end + 1
  /\ UNCHANGED <<out, ended>>

Replace ==
  /\ Kind(pos) \notin {"DEFINE", "EOF", "LITERAL"}
  /\ Text(pos) \in DOMAIN macros
  /\ out' = out \o macros[Text(pos)]
  /\ pos' = pos + 1
  /\ UNCHANGED <<macros, ended>>

Keep ==
  /\ Kind(pos) \notin {"DEFINE", "EOF"}
  /\ Kind(pos) = "LITERAL" \/ Text(pos) \notin DOMAIN macros
  /\ out' = Append(out, tokens[pos])
  /\ pos' = pos + 1
  /\ UNCHANGED <<macros, ended>>

End ==
  /\ Kind(pos) = "EOF"
  /\ ~ended /\ ended' = TRUE
  /\ out' = Append(out, [kind |-> "EOF", text |-> <<>>])
  /\ UNCHANGED <<pos, macros>>

Init ==
  /\ tokens \in Seq(Token)
  /\ pos = 1
  /\ macros = [t \in {} |-> <<>>]
  /\ out = <<>>
  /\ ended = FALSE

\* Nothing is promised of an input that is not well formed.
Next ==
  /\ UNCHANGED tokens
  /\ \/ ~WellFormed(tokens)
     \/ \E end \in 1..Len(tokens) : Define(end)
     \/ Replace
     \/ Keep
     \/ End

Spec == Init /\ [][Next]_vars
=============================================================================
