CONSTANTS
  Alphabet = {"loadavg", "1", "-", "(", ")", ">", "+"}
  MaxLen = 5
  UsedSymbols = {"loadavg"}
  MetricValues = {0, 1}
SPECIFICATION Spec
INVARIANT WellTypedRuleNeverAborts
