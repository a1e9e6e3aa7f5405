----------------------------- MODULE MCZiplScan -----------------------------
(***************************************************************************)
(* Checks scan_check (ZiplScan) against the rules of ZiplConfRules on     *)
(* every configuration made of at most MaxPieces pieces of Pieces and at   *)
(* most MaxTokens tokens.  A piece is a run of lines an administrator      *)
(* writes together: a whole section, or one line.  The state is the       *)
(* scanned file, edited one piece at a time or cleared.                   *)
(***************************************************************************)
EXTENDS ZiplConfRules

CONSTANTS Pieces, MaxPieces, MaxTokens

VARIABLES text, pieces

vars == <<text, pieces>>

\* Tokens and values.
Sec(n) == [id |-> "section", name |-> n]
Menu(n) == [id |-> "menu", name |-> n]
Kw(k, v) == [id |-> "keyword", keyword |-> k, value |-> v]
Num(i, v) == [id |-> "number", number |-> i, value |-> v]
Text == [kind |-> "text"]
Addr == [kind |-> "addr"]
Dec(i) == [kind |-> "dec", num |-> i]
Geo(b) == [kind |-> "geo", ok |-> b]
TT(t) == [kind |-> "ttype", t |-> t]
Name(n) == NameValue(n)

MCPieces ==
  { \* whole sections
    <<Sec("a"), Kw("image", Text), Kw("target", Text)>>,
    <<Sec("a"), Kw("segment", Addr), Kw("target", Text)>>,
    <<Sec("b"), Kw("dumpto", Text)>>,
    <<Sec("defaultboot"), Kw("default", Name("a"))>>,
    <<Sec("defaultboot"), Kw("defaultmenu", Name("m"))>>,
    <<Menu("m"), Kw("target", Text), Num(1, Name("a"))>>,
    <<Kw("targetbase", Text), Kw("targettype", TT("scsi")),
      Kw("targetblocksize", Dec(512)), Kw("targetoffset", Dec(0))>>,
    \* single lines
    <<Sec("a")>>, <<Sec("b")>>, <<Menu("m")>>,
    <<Kw("image", Text)>>, <<Kw("tape", Text)>>,
    <<Kw("segment", Text)>>, <<Kw("segment", Geo(TRUE))>>,
    <<Kw("default", Name("b"))>>, <<Kw("default", Name("defaultboot"))>>,
    <<Kw("default", Dec(1))>>, <<Kw("default", Dec(2))>>,
    <<Kw("prompt", Dec(1))>>, <<Kw("timeout", Text)>>,
    <<Num(1, Name("b"))>>, <<Num(2, Name("a"))>>, <<Num(0, Name("a"))>>,
    <<Kw("targettype", TT("ldl"))>>, <<Kw("targetgeometry", Geo(TRUE))>>,
    <<Kw("targetgeometry", Geo(FALSE))>>, <<Kw("targetblocksize", Dec(100))>>,
    <<Kw("targetoffset", Text)>> }

Init == text = <<>> /\ pieces = 0

AddPiece ==
  /\ pieces < MaxPieces
  /\ \E p \in Pieces :
       /\ Len(text) + Len(p) <= MaxTokens
       /\ text' = text \o p
  /\ pieces' = pieces + 1

ClearFile == text # <<>> /\ text' = <<>> /\ pieces' = 0

Next == AddPiece \/ ClearFile

Spec == Init /\ [][Next]_vars

(***************************************************************************)
(* scan_check accepts a configuration exactly when it follows the rules   *)
(* of its comment: its one pass, in which check_section and check_menu    *)
(* hand back the index of their last token and the searches for names    *)
(* and positions start at fixed offsets, decides the rules that speak of  *)
(* the whole file (unique names, defined sections and positions, nothing  *)
(* outside a section).                                                    *)
(***************************************************************************)
ScanCheckMatchesRules == (ScanCheck(text) = 0) <=> Complies(text)
=============================================================================
