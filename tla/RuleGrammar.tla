----------------------------- MODULE RuleGrammar -----------------------------
(***************************************************************************)
(* The rule language as the specification of the engine states it: the    *)
(* grammar of rule texts with its five precedence tiers and left-to-right  *)
(* grouping, unary "-" and "!" applied to a primary, "-" before a digit    *)
(* read as a negative constant, and the evaluation functions               *)
(* evaluate_numeric and evaluate_boolean (and, or evaluate both operands). *)
(* It is written as a recursive-descent parser with one level per tier,   *)
(* an algorithm independent of the code's precedence climbing, and is     *)
(* the reference the parser and evaluator of RuleTerms are checked         *)
(* against.                                                                *)
(***************************************************************************)
EXTENDS RuleTerms

\* The binary operator characters of each tier, loosest first.
TierOps == <<{"|"}, {"&"}, {">", "<"}, {"+", "-"}, {"*", "/"}>>
UnaryTier == Len(TierOps) + 1

RECURSIVE SpecExpr(_, _), SpecChain(_, _, _), SpecUnary(_)

\* unary := "-" digits | "-" unary | "!" unary | digits | symbol | "(" expr ")"
SpecUnary(s) ==
  CASE s = <<>> -> Failed(0)
    [] Head(s) = "-" /\ Len(s) > 1 /\ s[2] \in Digits ->
         LET lit == ScanDouble(Tail(s)) IN Parsed(Const(Neg(lit.value)), lit.rest, 0)
    [] Head(s) \in {"-", "!"} ->
         LET sub == SpecUnary(Tail(s))
         IN  IF sub.ok
               THEN Parsed(Unary(IF Head(s) = "-" THEN "OP_NEG" ELSE "OP_NOT", sub.tree),
                           sub.rest, 0)
               ELSE sub
    [] Head(s) \in Digits -> LET lit == ScanDouble(s) IN Parsed(Const(lit.value), lit.rest, 0)
    [] Head(s) = "(" ->
         LET sub == SpecExpr(Tail(s), 1)
         IN  IF sub.ok /\ sub.rest # <<>> /\ Head(sub.rest) = ")"
               THEN Parsed(sub.tree, Tail(sub.rest), 0)
               ELSE Failed(0)
    [] Head(s) \in DOMAIN SymNames -> Parsed(Leaf(SymNames[Head(s)]), Tail(s), 0)
    [] OTHER -> Failed(0)

\* tier(i) := tier(i+1) { op_i tier(i+1) }, grouped to the left
SpecExpr(s, tier) ==
  IF tier = UnaryTier THEN SpecUnary(s)
  ELSE LET first == SpecExpr(s, tier + 1)
       IN  IF first.ok THEN SpecChain(first.tree, first.rest, tier) ELSE first

SpecChain(t, s, tier) ==
  IF s # <<>> /\ Head(s) \in TierOps[tier]
    THEN LET next == SpecExpr(Tail(s), tier + 1)
         IN  IF next.ok
               THEN SpecChain(Binary(BinOpOf[Head(s)], t, next.tree), next.rest, tier)
               ELSE next
    ELSE Parsed(t, s, 0)

\* A text is a sentence of the grammar, and the tree the grammar gives it.
SpecSentence(text) == LET r == SpecExpr(text, 1) IN r.ok /\ r.rest = <<>>
SpecTree(text) == SpecExpr(text, 1).tree

\* Trees whose evaluation the specification defines: numeric operators
\* over numeric operands, and a rule body that is boolean or numeric.
RECURSIVE SpecNumericTree(_), SpecBooleanTree(_)
SpecNumericTree(t) ==
  CASE t.op \in SymbolOps \cup {"OP_CONST"} -> TRUE
    [] t.op = "OP_NEG" -> SpecNumericTree(t.left)
    [] t.op \in {"OP_PLUS", "OP_MINUS", "OP_MULT", "OP_DIV"} ->
         SpecNumericTree(t.left) /\ SpecNumericTree(t.right)
    [] OTHER -> FALSE
SpecBooleanTree(t) ==
  CASE t.op = "OP_NOT" -> SpecBooleanTree(t.left)
    [] t.op \in {"OP_AND", "OP_OR"} -> SpecBooleanTree(t.left) /\ SpecBooleanTree(t.right)
    [] t.op \in {"OP_GREATER", "OP_LESSER"} ->
         SpecNumericTree(t.left) /\ SpecNumericTree(t.right)
    [] OTHER -> SpecNumericTree(t)

RECURSIVE SpecNumeric(_, _), SpecBoolean(_, _)
SpecNumeric(t, sym) ==
  CASE t.op \in SymbolOps -> sym[t.op]
    [] t.op = "OP_CONST" -> t.value
    [] t.op = "OP_NEG" -> Lift1(Neg, SpecNumeric(t.left, sym))
    [] t.op = "OP_PLUS" -> Lift2(Add, SpecNumeric(t.left, sym), SpecNumeric(t.right, sym))
    [] t.op = "OP_MINUS" -> Lift2(Sub, SpecNumeric(t.left, sym), SpecNumeric(t.right, sym))
    [] t.op = "OP_MULT" -> Lift2(Mul, SpecNumeric(t.left, sym), SpecNumeric(t.right, sym))
    [] t.op = "OP_DIV" -> Lift2(Div, SpecNumeric(t.left, sym), SpecNumeric(t.right, sym))
    [] OTHER -> Aborted

\* 1 for true, 0 for false, AbortedInt for a contract violation.
SpecBoolean(t, sym) ==
  IF t = NULL THEN 0
  ELSE CASE t.op = "OP_NOT" ->
              LET a == SpecBoolean(t.left, sym) IN IF a = AbortedInt THEN a ELSE 1 - a
         [] t.op \in {"OP_AND", "OP_OR"} ->
              LET a == SpecBoolean(t.left, sym)
                  b == SpecBoolean(t.right, sym)
              IN  CASE a = AbortedInt \/ b = AbortedInt -> AbortedInt
                    [] t.op = "OP_AND" -> a * b
                    [] OTHER -> IF a + b > 0 THEN 1 ELSE 0
         [] t.op \in {"OP_GREATER", "OP_LESSER"} ->
              LET a == SpecNumeric(t.left, sym)
                  b == SpecNumeric(t.right, sym)
              IN  CASE a = Aborted \/ b = Aborted -> AbortedInt
                    [] t.op = "OP_GREATER" -> IF Greater(a, b) THEN 1 ELSE 0
                    [] OTHER -> IF Less(a, b) THEN 1 ELSE 0
         [] OTHER ->
              LET a == SpecNumeric(t, sym)
              IN  CASE a = Aborted -> AbortedInt [] NotZero(a) -> 1 [] OTHER -> 0

\* No "!" and no "-" used as a prefix operator on something other than a
\* digit: the texts on which the two ways of binding a prefix agree.
PrefixPosition(s, i) == i = 1 \/ s[i - 1] \in {"(", "!"} \cup DOMAIN BinOpOf
PrefixFree(s) ==
  \A i \in 1..Len(s) :
    /\ s[i] # "!"
    /\ (s[i] = "-" /\ PrefixPosition(s, i)) => (i < Len(s) /\ s[i + 1] \in Digits)
=============================================================================
