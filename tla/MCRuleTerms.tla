----------------------------- MODULE MCRuleTerms -----------------------------
(***************************************************************************)
(* Checks the rule parser and evaluator of RuleTerms against the           *)
(* reference of RuleGrammar on every rule text of up to MaxLen tokens      *)
(* over Alphabet.  The state is the text of one rule of the configuration  *)
(* file; the administrator edits it one token at a time or clears it, so   *)
(* the reachable states are exactly the bounded texts.                     *)
(***************************************************************************)
EXTENDS RuleGrammar

CONSTANTS
  Alphabet,      \* tokens rule texts are made of
  MaxLen,        \* longest text checked
  UsedSymbols,   \* symbol names that occur in Alphabet
  MetricValues   \* integers a symbol may have in a snapshot

ASSUME /\ MaxLen \in Nat
       /\ UsedSymbols \subseteq DOMAIN SymNames
       /\ MetricValues \subseteq Int

VARIABLE text

\* Every symbol snapshot over MetricValues; symbols not in use are 0.
Snapshots ==
  { [o \in SymbolOps |-> IF o \in DOMAIN f THEN f[o] ELSE Num(0)] :
      f \in [{SymNames[n] : n \in UsedSymbols} -> {Num(v) : v \in MetricValues}] }

TypeOK == text \in Seq(Alphabet) /\ Len(text) <= MaxLen

Init == text = <<>>

AppendToken == Len(text) < MaxLen /\ \E t \in Alphabet : text' = Append(text, t)
ClearRule == text # <<>> /\ text' = <<>>

Next == AppendToken \/ ClearRule

Spec == Init /\ [][Next]_text

Loaded == LoadRule(text)

(***************************************************************************)
(* The configuration loader (parse_term plus the trailing-input test of   *)
(* parse_configline) takes exactly the sentences of the rule grammar, and *)
(* the empty rule: no trailing garbage, unmatched parenthesis, missing     *)
(* operand or unknown name is taken.                                       *)
(***************************************************************************)
LoaderAcceptsGrammar == Loaded.accepted <=> (text = <<>> \/ SpecSentence(text))

(***************************************************************************)
(* On texts without prefix operators, parse_term's precedence climbing    *)
(* builds the tree of the grammar: the tiers or < and < comparison <       *)
(* additive < multiplicative, and left-to-right grouping within a tier.   *)
(***************************************************************************)
PrecedenceMatchesSpec ==
  (PrefixFree(text) /\ SpecSentence(text)) => Loaded.rule = SpecTree(text)

(***************************************************************************)
(* A rule that is well formed in the specification's grammar never makes  *)
(* eval_term reach clean_up() ("Invalid term specified"), which would end *)
(* the daemon at its first tick.                                           *)
(***************************************************************************)
WellTypedRuleNeverAborts ==
  (SpecSentence(text) /\ SpecBooleanTree(SpecTree(text))) =>
    \A sym \in Snapshots : EvalTerm(Loaded.rule, sym) # AbortedInt

(***************************************************************************)
(* eval_term on the parsed rule gives the truth value that the            *)
(* specification's evaluate_boolean gives the grammar's tree, on every    *)
(* snapshot (e.g. "1+2*3" is 7, so "1+2*3>6" holds).                       *)
(***************************************************************************)
EvalMatchesSpec ==
  (SpecSentence(text) /\ SpecBooleanTree(SpecTree(text))) =>
    \A sym \in Snapshots : EvalTerm(Loaded.rule, sym) = SpecBoolean(SpecTree(text), sym)
=============================================================================
