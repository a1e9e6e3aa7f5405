CONSTANTS
  Alphabet = {"loadavg", "1", "2", "-", "!", "(", ")", ">", "+", "*", "&", "|", "?"}
  MaxLen = 5
  UsedSymbols = {"loadavg"}
  MetricValues = {0, 1}
SPECIFICATION Spec
INVARIANTS LoaderAcceptsGrammar PrecedenceMatchesSpec
