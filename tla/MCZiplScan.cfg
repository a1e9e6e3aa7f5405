CONSTANTS
  Pieces <- MCPieces
  MaxPieces = 3
  MaxTokens = 9
SPECIFICATION Spec
INVARIANTS ScanCheckMatchesRules
