------------------------------- MODULE Filter -------------------------------
(***************************************************************************)
(* The filter language of subscriptions, src/filter.rs: the recursive      *)
(* descent parser and the evaluation of what it builds, over the tokens of *)
(* a filter.  A comparison is one token, and the attributes of a message   *)
(* are the value of the one key all comparisons ask for.  White space and  *)
(* the spelling of keys and texts are left out.                            *)
(***************************************************************************)
EXTENDS Integers, Sequences, SequencesExt

CONSTANTS
  Atoms,       \* comparisons: a subset of "has", "equal", "different", "prefix"
  MaxTokens    \* bound: tokens of a filter

VARIABLE sentence   \* the filter, growing

FilterInit == sentence = <<>>

\* The values of the key the comparisons tell apart.
Values == {"none", "x", "xy", "z"}

-----------------------------------------------------------------------------
(* The parser.  It returns an expression and the place after it.           *)

Failed == [expr |-> <<>>, at |-> 0]

TokenAt(s, i) == IF i <= Len(s) THEN s[i] ELSE "end"

Node(op, left, right) ==
  IF right.at = 0 THEN Failed ELSE [expr |-> <<op, left, right.expr>>, at |-> right.at]

RECURSIVE ParseOr(_, _), ParseAnd(_, _), ParseNot(_, _), MoreOr(_, _), MoreAnd(_, _)

ParsePrimary(s, i) ==
  CASE TokenAt(s, i) = "(" ->
         LET inner == ParseOr(s, i + 1)
         IN  IF inner.at # 0 /\ TokenAt(s, inner.at) = ")"
             THEN [inner EXCEPT !.at = @ + 1] ELSE Failed
    [] TokenAt(s, i) \in Atoms -> [expr |-> <<TokenAt(s, i)>>, at |-> i + 1]
    [] OTHER -> Failed

\* NOT takes everything that AND connects after it.
BadParseNot(s, i) ==
  IF TokenAt(s, i) = "NOT" THEN Node("NOT", <<>>, ParseAnd(s, i + 1))
  ELSE ParsePrimary(s, i)

ParseNot(s, i) ==
  IF TokenAt(s, i) = "NOT" THEN Node("NOT", <<>>, ParseNot(s, i + 1))
  ELSE ParsePrimary(s, i)

MoreAnd(s, left) ==
  IF left.at # 0 /\ TokenAt(s, left.at) = "AND"
  THEN MoreAnd(s, Node("AND", left.expr, ParseNot(s, left.at + 1))) ELSE left

ParseAnd(s, i) == MoreAnd(s, ParseNot(s, i))

MoreOr(s, left) ==
  IF left.at # 0 /\ TokenAt(s, left.at) = "OR"
  THEN MoreOr(s, Node("OR", left.expr, ParseAnd(s, left.at + 1))) ELSE left

ParseOr(s, i) == MoreOr(s, ParseAnd(s, i))

\* AttributeFilter::parse: nothing may follow the expression.
Parse(s) ==
  LET filter == ParseOr(s, 1) IN IF filter.at = Len(s) + 1 THEN filter ELSE Failed

-----------------------------------------------------------------------------
(* The evaluation.                                                         *)

\* A key that is missing is different from every text.
Compare(atom, value) ==
  CASE atom = "has" -> value # "none"
    [] atom = "equal" -> value = "x"
    [] atom = "different" -> value # "x"
    [] atom = "prefix" -> value \in {"x", "xy"}

RECURSIVE Eval(_, _)

Eval(expr, value) ==
  CASE expr[1] = "NOT" -> ~Eval(expr[3], value)
    [] expr[1] = "AND" -> Eval(expr[2], value) /\ Eval(expr[3], value)
    [] expr[1] = "OR" -> Eval(expr[2], value) \/ Eval(expr[3], value)
    [] OTHER -> Compare(expr[1], value)

\* AttributeFilter::matches: an empty filter matches every message.
Matches(s, value) == s = <<>> \/ Eval(Parse(s).expr, value)

-----------------------------------------------------------------------------
(* The filters.                                                            *)

EndsOperand(s) == s # <<>> /\ Last(s) \in Atoms \cup {")"}

\* A token after which no filter can follow is the last one.
Fits(s, token) ==
  EndsOperand(s) <=> token \in {"AND", "OR", ")"}

WellFormed(s) == \A i \in 1 .. Len(s) : Fits(SubSeq(s, 1, i - 1), s[i])

FilterNext ==
  /\ Len(sentence) < MaxTokens
  /\ WellFormed(sentence)
  /\ \E token \in Atoms \cup {"AND", "OR", "NOT", "(", ")"} :
       sentence' = Append(sentence, token)

-----------------------------------------------------------------------------
(* What a filter means: operands are the values they let through, and an   *)
(* operator is carried out when none that binds stronger waits beside it.  *)

Item(token, values) == [token |-> token, values |-> values]

Is(s, i, tokens) == i \in DOMAIN s /\ s[i].token \in tokens

Operand(s, i) == Is(s, i, {"operand"})

Place(s, i, n, values) ==
  SubSeq(s, 1, i - 1) \o <<Item("operand", values)>> \o SubSeq(s, i + n, Len(s))

Reductions(s) ==
  {Place(s, i, 3, s[i + 1].values) : i \in {j \in DOMAIN s :
     Is(s, j, {"("}) /\ Operand(s, j + 1) /\ Is(s, j + 2, {")"})}}
  \cup {Place(s, i, 2, Values \ s[i + 1].values) : i \in {j \in DOMAIN s :
     Is(s, j, {"NOT"}) /\ Operand(s, j + 1)}}
  \cup {Place(s, i, 3, s[i].values \cap s[i + 2].values) : i \in {j \in DOMAIN s :
     /\ Operand(s, j) /\ Is(s, j + 1, {"AND"}) /\ Operand(s, j + 2)
     /\ ~Is(s, j - 1, {"NOT"})}}
  \cup {Place(s, i, 3, s[i].values \cup s[i + 2].values) : i \in {j \in DOMAIN s :
     /\ Operand(s, j) /\ Is(s, j + 1, {"OR"}) /\ Operand(s, j + 2)
     /\ ~Is(s, j - 1, {"NOT", "AND"}) /\ ~Is(s, j + 3, {"AND"})}}

RECURSIVE Reduced(_)

Reduced(s) == IF Reductions(s) = {} THEN s ELSE Reduced(CHOOSE t \in Reductions(s) : TRUE)

Meant(s) ==
  Reduced([i \in DOMAIN s |->
    IF s[i] \in Atoms THEN Item("operand", {v \in Values : Compare(s[i], v)})
    ELSE Item(s[i], {})])

\* The parser takes exactly the filters that have a meaning, and a message
\* passes when the meaning says so: NOT before AND before OR, and every
\* parenthesis closed.
FilterMeans ==
  sentence # <<>> =>
    LET meant == Meant(sentence)
        taken == Parse(sentence).at # 0
    IN  /\ taken <=> Len(meant) = 1 /\ Operand(meant, 1)
        /\ taken => {v \in Values : Matches(sentence, v)} = meant[1].values
=============================================================================
