---------------------------- MODULE ZiplConfRules ----------------------------
(***************************************************************************)
(* The rules a zipl.conf must follow, as the comment above scan_check      *)
(* lists them (src/zipl/src/scan.c, rules 1 to 16), stated on the whole    *)
(* token array at once rather than in the code's one pass.  The keyword    *)
(* table, the value tests and the checks the comment leaves out (the      *)
(* load address of a segment, default or defaultmenu in defaultboot, the  *)
(* target keywords, positive positions, numeric prompt and timeout) are   *)
(* taken from ZiplScan.                                                    *)
(***************************************************************************)
EXTENDS ZiplScan, FiniteSets

Idx(s) == DOMAIN s

\* The heading a token belongs to: the last heading before it, or 0.
Owner(s, j) ==
  LET hs == {i \in Idx(s) : i < j /\ s[i].id \in Headings} IN
  IF hs = {} THEN 0 ELSE CHOOSE i \in hs : \A i2 \in hs : i2 <= i

Body(s, i) == {j \in Idx(s) : s[j].id \notin Headings /\ Owner(s, j) = i}
KeywordsIn(s, i) == {j \in Body(s, i) : s[j].id = "keyword"}
NumbersIn(s, i) == {j \in Body(s, i) : s[j].id = "number"}

\* The value of keyword k in the section at i, or Null.
ValueIn(s, i, k) ==
  LET js == {j \in KeywordsIn(s, i) : s[j].keyword = k} IN
  IF js = {} THEN Null ELSE s[CHOOSE j \in js : TRUE].value

KeywordsOnce(s, i) ==                                          \* Rules 5, 14
  \A j1, j2 \in KeywordsIn(s, i) : j1 # j2 => s[j1].keyword # s[j2].keyword

NameUnique(s, i) ==                                            \* Rules 7, 15
  \A i2 \in Idx(s) : i2 # i /\ s[i2].id = s[i].id => s[i2].name # s[i].name

NamesSection(s, v) == \E i \in Idx(s) : s[i].id = "section" /\ StrEq(v, s[i].name)

\* The type of a configuration section: defaultboot by its name, otherwise
\* by its main keyword.
TypeOf(s, i) ==
  IF s[i].name = "defaultboot" THEN "defaultboot"
  ELSE MainType([k \in Keywords |-> ValueIn(s, i, k)], 1)

TargetRulesHold(kw) == CheckTargetData(kw) = 0

SectionComplies(s, i) ==
  LET type == TypeOf(s, i)
      kw == [k \in Keywords |-> ValueIn(s, i, k)] IN
  /\ NumbersIn(s, i) = {}                                      \* Rule 2
  /\ type # "invalid"
  /\ \A k \in Keywords :                                       \* Rules 3, 4
       /\ KeyState(type, k) = "req" => kw[k] # Null
       /\ KeyState(type, k) = "inv" => kw[k] = Null
  /\ KeywordsOnce(s, i)
  /\ KeywordsIn(s, i) # {}                                     \* Rule 6
  /\ NameUnique(s, i)
  /\ kw.default # Null => NamesSection(s, kw.default)          \* Rule 8
  /\ kw.segment # Null => ContainsAddress(kw.segment)
  /\ type = "defaultboot" => (kw.default = Null) # (kw.defaultmenu = Null)
  /\ TargetRulesHold(kw)

MenuKeywords == {"target", "default", "prompt", "timeout"} \cup TargetKeywords

MenuComplies(s, i) ==
  LET kw == [k \in Keywords |-> ValueIn(s, i, k)]
      nums == {s[j].number : j \in NumbersIn(s, i)} IN
  /\ NumbersIn(s, i) # {}                                      \* Rule 9
  /\ \A j1, j2 \in NumbersIn(s, i) :                           \* Rule 10
       j1 # j2 => s[j1].number # s[j2].number
  /\ \A j \in NumbersIn(s, i) : NamesSection(s, s[j].value)    \* Rule 11
  /\ \A j \in NumbersIn(s, i) : s[j].number >= 1
  /\ kw.target # Null                                          \* Rule 12
  /\ \A j \in KeywordsIn(s, i) : s[j].keyword \in MenuKeywords \* Rule 13
  /\ KeywordsOnce(s, i)
  /\ NameUnique(s, i)
  /\ kw.default # Null =>                                      \* Rule 16
       IsNumber(kw.default) /\ kw.default.num \in nums
  /\ kw.prompt # Null => IsNumber(kw.prompt)
  /\ kw.timeout # Null => IsNumber(kw.timeout)
  /\ TargetRulesHold([k \in Keywords |->
                        IF k \in TargetKeywords THEN kw[k] ELSE Null])

Complies(s) ==
  /\ \A j \in Idx(s) : s[j].id \notin Headings => Owner(s, j) # 0  \* Rule 1
  /\ \A i \in Idx(s) : s[i].id = "section" => SectionComplies(s, i)
  /\ \A i \in Idx(s) : s[i].id = "menu" => MenuComplies(s, i)
=============================================================================
