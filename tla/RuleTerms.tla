------------------------------ MODULE RuleTerms ------------------------------
(***************************************************************************)
(* cpuplugd's rule expression engine (src/cpuplugd/terms.c): the          *)
(* precedence-climbing parser parse_term, the destructor free_term, and    *)
(* the evaluators eval_double and eval_term, as recursive operators.       *)
(*                                                                         *)
(* A rule text is a sequence of tokens.  The configuration loader has      *)
(* removed all blanks, so a token is one character of the rule ("(", "-",  *)
(* a digit, ...) or a whole name of the symbol table (the strncmp in       *)
(* parse_term matches a name at the cursor and skips strlen(name)          *)
(* characters); any other token stands for characters that match neither. *)
(* A tree node is a record with the node's operation op (the names of      *)
(* enum operation), value for OP_CONST, left and right for operators.      *)
(***************************************************************************)
EXTENDS Integers, Sequences, Double

\* enum op_prio
PrioNone == 0
PrioOr == 1
PrioAnd == 2
PrioCmp == 3
PrioAdd == 4
PrioMult == 5

\* op_prio_table
OpPrio == [OP_GREATER |-> PrioCmp, OP_LESSER |-> PrioCmp,
           OP_PLUS |-> PrioAdd, OP_MINUS |-> PrioAdd,
           OP_MULT |-> PrioMult, OP_DIV |-> PrioMult,
           OP_AND |-> PrioAnd, OP_OR |-> PrioOr]

\* The sym_names table of parse_term.
SymNames == [loadavg |-> "OP_SYMBOL_LOADAVG", runable_proc |-> "OP_SYMBOL_RUNABLE",
             onumcpus |-> "OP_SYMBOL_CPUS", idle |-> "OP_SYMBOL_IDLE",
             swaprate |-> "OP_SYMBOL_SWAPRATE", apcr |-> "OP_SYMBOL_APCR",
             freemem |-> "OP_SYMBOL_FREEMEM"]
SymbolOps == {SymNames[n] : n \in DOMAIN SymNames}

\* The operator characters of the switch in parse_term's loop.
BinOpOf == [c \in {">", "<", "+", "-", "*", "/", "|", "&"} |->
              CASE c = ">" -> "OP_GREATER" [] c = "<" -> "OP_LESSER"
                [] c = "+" -> "OP_PLUS"    [] c = "-" -> "OP_MINUS"
                [] c = "*" -> "OP_MULT"    [] c = "/" -> "OP_DIV"
                [] c = "|" -> "OP_OR"      [] c = "&" -> "OP_AND"]
BinaryOps == {BinOpOf[c] : c \in DOMAIN BinOpOf}

Digits == {"0", "1", "2", "3", "4", "5", "6", "7", "8", "9"}
DigitValue == [c \in Digits |-> CHOOSE i \in 0..9 :
                 <<"0", "1", "2", "3", "4", "5", "6", "7", "8", "9">>[i + 1] = c]

NULL == [op |-> "NULL"]
Leaf(op) == [op |-> op]
Const(v) == [op |-> "OP_CONST", value |-> v]
Unary(op, l) == [op |-> op, left |-> l]
Binary(op, l, r) == [op |-> op, left |-> l, right |-> r]

(***************************************************************************)
(* sscanf(s, "%lf %n", &value, &length) at a digit: the longest run of     *)
(* digits, read as a decimal number.  Returns the double and the tokens    *)
(* after it.                                                               *)
(***************************************************************************)
RECURSIVE ScanDigits(_, _)
ScanDigits(s, acc) ==
  IF s # <<>> /\ Head(s) \in Digits
    THEN ScanDigits(Tail(s), 10 * acc + DigitValue[Head(s)])
    ELSE [value |-> Num(acc), rest |-> s]
ScanDouble(s) == ScanDigits(s, 0)

(***************************************************************************)
(* free_term(fn): the nodes it leaves allocated.  Its switch has no case   *)
(* for OP_SYMBOL_APCR, OP_SYMBOL_SWAPRATE and OP_SYMBOL_FREEMEM, so those  *)
(* leaves fall into "default: break" and are never freed.                  *)
(***************************************************************************)
FreedLeaves == {"OP_SYMBOL_LOADAVG", "OP_SYMBOL_RUNABLE", "OP_SYMBOL_CPUS",
                "OP_SYMBOL_IDLE", "OP_CONST"}
RECURSIVE FreeTermLeak(_)
FreeTermLeak(fn) ==
  CASE fn.op = "NULL" -> 0
    [] fn.op \in FreedLeaves -> 0
    [] fn.op \in {"OP_NEG", "OP_NOT"} -> FreeTermLeak(fn.left)
    [] fn.op \in BinaryOps -> FreeTermLeak(fn.left) + FreeTermLeak(fn.right)
    [] OTHER -> 1

(***************************************************************************)
(* parse_term(&s, prio).  The result records whether it succeeded (a       *)
(* non-NULL tree), the tree, the tokens left at *p, and the number of      *)
(* nodes allocated on the way and never freed.  On failure *p is not       *)
(* advanced and the partial tree is released with free_term.               *)
(***************************************************************************)
Parsed(fn, s, leak) == [ok |-> TRUE, tree |-> fn, rest |-> s, leak |-> leak]
Failed(leak) == [ok |-> FALSE, tree |-> NULL, rest |-> <<>>, leak |-> leak]

RECURSIVE ParseTerm(_, _), ParseBinary(_, _, _, _)

\* The operand of a prefix "-" or "!": parse_term(&s, prio), at the
\* caller's priority, wrapped in a node of operation op.
ParsePrefix(op, s, prio) ==
  LET sub == ParseTerm(s, prio)
  IN  IF sub.ok THEN Parsed(Unary(op, sub.tree), sub.rest, sub.leak)
                ELSE Failed(sub.leak)

\* Seeded fault: a parenthesised term taken without its closing ")".
ParsePrimaryNoParen(s, prio) ==
  CASE s = <<>> -> Failed(0)
    [] Head(s) = "-" /\ Len(s) > 1 /\ s[2] \in Digits ->
         LET lit == ScanDouble(Tail(s)) IN Parsed(Const(Neg(lit.value)), lit.rest, 0)
    [] Head(s) = "-" -> ParsePrefix("OP_NEG", Tail(s), prio)
    [] Head(s) = "!" -> ParsePrefix("OP_NOT", Tail(s), prio)
    [] Head(s) \in Digits ->
         LET lit == ScanDouble(s) IN Parsed(Const(lit.value), lit.rest, 0)
    [] Head(s) = "(" ->
         LET sub == ParseTerm(Tail(s), PrioNone)
         IN  IF sub.ok /\ sub.rest # <<>> /\ Head(sub.rest) = ")"
               THEN Parsed(sub.tree, Tail(sub.rest), sub.leak)
             ELSE IF sub.ok THEN Parsed(sub.tree, sub.rest, sub.leak)
             ELSE Failed(sub.leak)
    [] Head(s) \in DOMAIN SymNames -> Parsed(Leaf(SymNames[Head(s)]), Tail(s), 0)
    [] OTHER -> Failed(0)

ParsePrimary(s, prio) ==
  CASE s = <<>> -> Failed(0)
    [] Head(s) = "-" /\ Len(s) > 1 /\ s[2] \in Digits ->
         LET lit == ScanDouble(Tail(s)) IN Parsed(Const(Neg(lit.value)), lit.rest, 0)
    [] Head(s) = "-" -> ParsePrefix("OP_NEG", Tail(s), prio)
    [] Head(s) = "!" -> ParsePrefix("OP_NOT", Tail(s), prio)
    [] Head(s) \in Digits ->
         LET lit == ScanDouble(s) IN Parsed(Const(lit.value), lit.rest, 0)
    [] Head(s) = "(" ->
         LET sub == ParseTerm(Tail(s), PrioNone)
         IN  IF sub.ok /\ sub.rest # <<>> /\ Head(sub.rest) = ")"
               THEN Parsed(sub.tree, Tail(sub.rest), sub.leak)
               ELSE Failed(sub.leak + FreeTermLeak(sub.tree))
    [] Head(s) \in DOMAIN SymNames -> Parsed(Leaf(SymNames[Head(s)]), Tail(s), 0)
    [] OTHER -> Failed(0)

\* Seeded fault: an operator of the caller's own priority is folded in
\* too ("prio > op_prio" for "prio >= op_prio"), grouping to the right.
ParseBinaryRightAssoc(fn, s, prio, leak) ==
  IF s = <<>> \/ Head(s) \notin DOMAIN BinOpOf \/ prio > OpPrio[BinOpOf[Head(s)]]
    THEN Parsed(fn, s, leak)
    ELSE LET op == BinOpOf[Head(s)]
             right == ParseTerm(Tail(s), OpPrio[op])
         IN  IF right.ok
               THEN ParseBinary(Binary(op, fn, right.tree), right.rest, prio,
                                leak + right.leak)
               ELSE Failed(leak + right.leak + FreeTermLeak(fn))

\* The while (1) loop: fold binary operators of priority above prio
\* into the accumulated tree fn, left to right.
ParseBinary(fn, s, prio, leak) ==
  IF s = <<>> \/ Head(s) \notin DOMAIN BinOpOf \/ prio >= OpPrio[BinOpOf[Head(s)]]
    THEN Parsed(fn, s, leak)
    ELSE LET op == BinOpOf[Head(s)]
             right == ParseTerm(Tail(s), OpPrio[op])
         IN  IF right.ok
               THEN ParseBinary(Binary(op, fn, right.tree), right.rest, prio,
                                leak + right.leak)
               ELSE Failed(leak + right.leak + FreeTermLeak(fn))

ParseTerm(s, prio) ==
  LET p == ParsePrimary(s, prio)
  IN  IF p.ok THEN ParseBinary(p.tree, p.rest, prio, p.leak) ELSE p

(***************************************************************************)
(* The rule branches of parse_configline (config.c): cfg->rule =           *)
(* parse_term(&rvalue, OP_PRIO_NONE); the rule is taken if rvalue[0] is    *)
(* then '\0', otherwise the daemon reports a syntax error and exits.  An   *)
(* empty rule fails to parse without advancing rvalue and is taken as a    *)
(* NULL rule.                                                              *)
(***************************************************************************)
LoadRule(text) ==
  LET r == ParseTerm(text, PrioNone)
  IN  [accepted |-> IF r.ok THEN r.rest = <<>> ELSE text = <<>>,
       rule |-> r.tree, leak |-> r.leak]

(***************************************************************************)
(* eval_double and eval_term.  A snapshot maps each symbol operation to a  *)
(* double.  Aborted stands for clean_up(), which eval_double calls on a    *)
(* boolean node and which ends the process.                                *)
(***************************************************************************)
Aborted == [k |-> "abort", s |-> 1, n |-> 0, d |-> 1]
Lift1(F(_), a) == IF a = Aborted THEN Aborted ELSE F(a)
Lift2(F(_, _), a, b) == IF a = Aborted \/ b = Aborted THEN Aborted ELSE F(a, b)

RECURSIVE EvalDouble(_, _)
EvalDouble(fn, sym) ==
  CASE fn.op \in SymbolOps -> sym[fn.op]
    [] fn.op = "OP_CONST" -> fn.value
    [] fn.op = "OP_NEG" -> Lift1(Neg, EvalDouble(fn.left, sym))
    [] fn.op = "OP_PLUS" -> Lift2(Add, EvalDouble(fn.left, sym), EvalDouble(fn.right, sym))
    [] fn.op = "OP_MINUS" -> Lift2(Sub, EvalDouble(fn.left, sym), EvalDouble(fn.right, sym))
    \* case OP_MULT computes a*b into sum and falls through into case OP_DIV
    [] fn.op \in {"OP_MULT", "OP_DIV"} ->
         Lift2(Div, EvalDouble(fn.left, sym), EvalDouble(fn.right, sym))
    [] OTHER -> Aborted

\* eval_term returns 1, 0, or -1 for a clean_up() reached inside it.
AbortedInt == -1
RECURSIVE EvalTerm(_, _)
EvalTerm(fn, sym) ==
  IF fn = NULL THEN 0
  ELSE CASE fn.op = "OP_NOT" ->
              LET a == EvalTerm(fn.left, sym)
              IN  IF a = AbortedInt THEN a ELSE 1 - a
         \* || and && of C: the right operand is not evaluated when the
         \* left one decides the result
         [] fn.op = "OP_OR" ->
              LET a == EvalTerm(fn.left, sym)
              IN  IF a # 0 THEN a ELSE EvalTerm(fn.right, sym)
         [] fn.op = "OP_AND" ->
              LET a == EvalTerm(fn.left, sym)
              IN  IF a # 1 THEN a ELSE EvalTerm(fn.right, sym)
         [] fn.op \in {"OP_GREATER", "OP_LESSER"} ->
              LET a == EvalDouble(fn.left, sym)
                  b == EvalDouble(fn.right, sym)
              IN  CASE a = Aborted \/ b = Aborted -> AbortedInt
                    [] fn.op = "OP_GREATER" -> IF Greater(a, b) THEN 1 ELSE 0
                    [] OTHER -> IF Less(a, b) THEN 1 ELSE 0
         [] OTHER ->
              LET a == EvalDouble(fn, sym)
              IN  CASE a = Aborted -> AbortedInt
                    [] NotZero(a) -> 1
                    [] OTHER -> 0
=============================================================================
