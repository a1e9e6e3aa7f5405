------------------------------ MODULE ZiplScan ------------------------------
(***************************************************************************)
(* The rule check zipl applies to a scanned zipl.conf (scan_check in      *)
(* src/zipl/src/scan.c) as a pure operator on the token array scan_file   *)
(* produces.  A token is a record:                                        *)
(*   [id |-> "section", name |-> n]     a [n] heading                     *)
(*   [id |-> "menu",    name |-> n]     a :n heading                      *)
(*   [id |-> "keyword", keyword |-> k, value |-> v]   k = v               *)
(*   [id |-> "number",  number |-> i, value |-> v]    i = v               *)
(* The array is a sequence; the id-0 token that ends it in the code is    *)
(* the end of the sequence.  Lines only reach error messages and are      *)
(* left out.  A value is the string on the right of "=", abstracted to    *)
(* what the checks read from it:                                          *)
(*   [kind |-> "name", n |-> n]   the name n (of a section or menu)        *)
(*   [kind |-> "dec", num |-> i]  a decimal number alone                   *)
(*   [kind |-> "addr"]            text ending in ",<hex>" (file,0x10000)   *)
(*   [kind |-> "geo", ok |-> b]   "c,h,s"; ok when all three are > 0       *)
(*   [kind |-> "ttype", t |-> t]  SCSI, FBA, LDL or CDL in any case        *)
(*   [kind |-> "text"]            any other text                           *)
(* The operators return the code's rc: 0 when the file complies, -1 when  *)
(* a check fails (every failing check returns -1).                        *)
(***************************************************************************)
EXTENDS Integers, Sequences

\* enum scan_keyword_id, in the column order of scan_key_table.
KeywordIds == <<"default", "dumpto", "dumptofs", "image", "parameters",
                "parmfile", "ramdisk", "segment", "target", "prompt",
                "timeout", "defaultmenu", "tape", "mvdump", "targetbase",
                "targettype", "targetgeometry", "targetblocksize",
                "targetoffset">>
Keywords == {KeywordIds[i] : i \in DOMAIN KeywordIds}

\* scan_key_table: which keyword a section of each type requires, may have,
\* or must not have.  Rows are enum scan_section_type.
ScanKeyTable ==
  [defaultboot |-> <<"opt","inv","inv","inv","inv","inv","inv","inv","inv",
                     "inv","inv","opt","inv","inv","inv","inv","inv","inv",
                     "inv">>,
   ipl         |-> <<"inv","inv","inv","req","opt","opt","opt","inv","req",
                     "inv","inv","inv","inv","inv","opt","opt","opt","opt",
                     "opt">>,
   segment     |-> <<"inv","inv","inv","inv","inv","inv","inv","req","req",
                     "inv","inv","inv","inv","inv","inv","inv","inv","inv",
                     "inv">>,
   dump        |-> <<"inv","req","inv","inv","inv","inv","inv","inv","opt",
                     "inv","inv","inv","inv","inv","inv","inv","inv","inv",
                     "inv">>,
   dumpfs      |-> <<"inv","inv","req","inv","opt","opt","inv","inv","req",
                     "inv","inv","inv","inv","inv","inv","inv","inv","inv",
                     "inv">>,
   ipl_tape    |-> <<"inv","inv","inv","req","opt","opt","opt","inv","inv",
                     "inv","inv","inv","req","inv","inv","inv","inv","inv",
                     "inv">>,
   mvdump      |-> <<"inv","inv","inv","inv","inv","inv","inv","inv","inv",
                     "inv","inv","inv","inv","req","inv","inv","inv","inv",
                     "inv">>]

KeyState(type, k) ==
  ScanKeyTable[type][CHOOSE i \in DOMAIN KeywordIds : KeywordIds[i] = k]

\* The char* keyword[] arrays of check_section and check_menu: NULL, or the
\* value of the keyword's assignment.
Null == [kind |-> "null"]
NoKeywords == [k \in Keywords |-> Null]

Headings == {"section", "menu"}
NameValue(n) == [kind |-> "name", n |-> n]
Fail == [rc |-> -1]

(***************************************************************************)
(* The string tests the checks apply to values.                           *)
(***************************************************************************)

\* strcmp(value, name) == 0.
StrEq(v, n) == v.kind = "name" /\ v.n = n

\* contains_address: the text after the last comma scans as hex; a
\* geometry "c,h,s" ends in ",s" and so passes too.
ContainsAddress(v) == v.kind \in {"addr", "geo"}

\* scan_get_target_type: strcasecmp against the four target types.
TargetTypeOf(v) == IF v.kind = "ttype" THEN v.t ELSE "invalid"

\* sscanf(v, "%d,%d,%d %c") == 3 with all three numbers > 0.
GeometryOK(v) == v.kind = "geo" /\ v.ok

\* sscanf(v, "%d %c") == 1: a number and nothing after it.
ScanfInt(v) == v.kind = "dec"

\* The strtol test of a menu's default, prompt and timeout: blanks, a
\* number, blanks, and the end of the string.
IsNumber(v) == v.kind = "dec"

\* check_blocksize.
BlocksizeOK(n) == n \in {512, 1024, 2048, 4096}

(***************************************************************************)
(* scan_find_section: the index of the first heading of type (section or  *)
(* menu) from offset on whose name is the string v, or -1.                *)
(***************************************************************************)
RECURSIVE FindSection(_, _, _, _)
FindSection(s, v, type, i) ==
  IF i > Len(s) THEN -1
  ELSE IF s[i].id = type /\ StrEq(v, s[i].name) THEN i
  ELSE FindSection(s, v, type, i + 1)

\* find_num_assignment: the index of number assignment num in the menu body
\* from offset on, stopping at the next heading, or -1.
RECURSIVE FindNumAssignment(_, _, _)
FindNumAssignment(s, num, i) ==
  IF i > Len(s) \/ s[i].id \in Headings THEN -1
  ELSE IF s[i].id = "number" /\ s[i].number = num THEN i
  ELSE FindNumAssignment(s, num, i + 1)

\* scan_get_section_type's order: the first main keyword present decides.
MainKeywords == <<<<"tape", "ipl_tape">>, <<"image", "ipl">>,
                  <<"segment", "segment">>, <<"dumpto", "dump">>,
                  <<"dumptofs", "dumpfs">>, <<"mvdump", "mvdump">>>>
RECURSIVE MainType(_, _)
MainType(kw, i) ==
  IF i > Len(MainKeywords) THEN "invalid"
  ELSE IF kw[MainKeywords[i][1]] # Null THEN MainKeywords[i][2]
  ELSE MainType(kw, i + 1)

(***************************************************************************)
(* scan_check_section_data with line != NULL (a configuration file).      *)
(***************************************************************************)
CheckSectionData(kw, type0) ==
  LET type == IF type0 = "invalid" THEN MainType(kw, 1) ELSE type0 IN
  IF /\ type # "invalid"
     /\ \A k \in Keywords :
          /\ KeyState(type, k) = "req" => kw[k] # Null
          /\ KeyState(type, k) = "inv" => kw[k] = Null
     /\ kw.segment # Null => ContainsAddress(kw.segment)
     /\ type = "defaultboot" => (kw.default = Null) # (kw.defaultmenu = Null)
  THEN 0 ELSE -1

(***************************************************************************)
(* scan_check_target_data.                                                *)
(***************************************************************************)
CheckTargetData(kw) ==
  LET tt == TargetTypeOf(kw.targettype) IN
  IF kw.targetbase = Null
  THEN IF \E k \in {"targettype", "targetgeometry", "targetblocksize",
                    "targetoffset"} : kw[k] # Null
       THEN -1 ELSE 0
  ELSE IF /\ kw.targettype # Null
          /\ tt # "invalid"
          /\ tt \in {"cdl", "ldl"} => kw.targetgeometry # Null
          /\ tt \in {"scsi", "fba"} => kw.targetgeometry = Null
          /\ kw.targetgeometry # Null => GeometryOK(kw.targetgeometry)
          /\ kw.targetblocksize # Null
          /\ ScanfInt(kw.targetblocksize)
          /\ BlocksizeOK(kw.targetblocksize.num)
          /\ kw.targetoffset # Null
          /\ ScanfInt(kw.targetoffset)
       THEN 0 ELSE -1
(***************************************************************************)
(* check_section: the keyword loop of a configuration section from token  *)
(* j on, with the keyword[] array kw so far.  It ends at the next heading *)
(* or the end of the array; end is that index.                            *)
(***************************************************************************)
RECURSIVE SectionBody(_, _, _)
SectionBody(s, j, kw) ==
  IF j > Len(s) \/ s[j].id \in Headings THEN [rc |-> 0, kw |-> kw, end |-> j]
  ELSE IF s[j].id = "keyword"
  THEN LET k == s[j].keyword
           v == s[j].value IN
       IF \/ kw[k] # Null                                       \* Rule 5
          \/ k = "default" /\ FindSection(s, v, "section", 1) < 0  \* Rule 8
       THEN Fail
       ELSE SectionBody(s, j + 1, [kw EXCEPT ![k] = v])
  ELSE Fail                                                    \* Rule 2

\* Mutant: check_section sets *index = i, past the section's last token, so
\* scan_check's loop increment skips the heading that follows.
CheckSectionSkipNext(s, i) ==
  LET name == s[i].name
      type == IF name = "defaultboot" THEN "defaultboot" ELSE "invalid"
      body == SectionBody(s, i + 1, NoKeywords) IN
  IF \/ FindSection(s, NameValue(name), "section", i + 1) >= 0
     \/ body.rc # 0
     \/ CheckSectionData(body.kw, type) # 0
     \/ CheckTargetData(body.kw) # 0
  THEN Fail
  ELSE [rc |-> 0, index |-> body.end]

\* check_section on the heading at i: rc, and the index of the section's
\* last token, where scan_check goes on.
CheckSection(s, i) ==
  LET name == s[i].name
      type == IF name = "defaultboot" THEN "defaultboot" ELSE "invalid"
      body == SectionBody(s, i + 1, NoKeywords) IN
  IF \/ FindSection(s, NameValue(name), "section", i + 1) >= 0
     \/ body.rc # 0
     \/ CheckSectionData(body.kw, type) # 0
     \/ CheckTargetData(body.kw) # 0
  THEN Fail
  ELSE [rc |-> 0, index |-> body.end - 1]

(***************************************************************************)
(* check_menu's state while it walks the menu: the keyword[] array of the *)
(* target keywords and its is_* flags.                                    *)
(***************************************************************************)
MenuStart == [kw |-> NoKeywords, isNum |-> FALSE, isTarget |-> FALSE,
              isDefault |-> FALSE, isPrompt |-> FALSE, isTimeout |-> FALSE]

TargetKeywords == {"targetbase", "targettype", "targetgeometry",
                   "targetblocksize", "targetoffset"}

\* check_menu on the keyword assignment t of the menu whose heading is at
\* index m: the new state, or Fail.
MenuKeyword(s, m, st, t) ==
  LET k == t.keyword
      v == t.value IN
  CASE k = "target" ->
         IF st.isTarget THEN Fail ELSE [st EXCEPT !.isTarget = TRUE]
    [] k \in TargetKeywords ->                                 \* Rule 5
         IF st.kw[k] # Null THEN Fail ELSE [st EXCEPT !.kw[k] = v]
    [] k = "default" ->                                        \* Rule 16
         IF \/ st.isDefault
            \/ ~IsNumber(v)
            \/ v.num <= 0
            \/ FindNumAssignment(s, v.num, m + 1) < 0
         THEN Fail ELSE [st EXCEPT !.isDefault = TRUE]
    [] k = "prompt" ->
         IF st.isPrompt \/ ~IsNumber(v) THEN Fail
         ELSE [st EXCEPT !.isPrompt = TRUE]
    [] k = "timeout" ->
         IF st.isTimeout \/ ~IsNumber(v) THEN Fail
         ELSE [st EXCEPT !.isTimeout = TRUE]
    [] OTHER -> Fail                                           \* Rule 13

\* check_menu on the number assignment at index j.
MenuNumber(s, j, st) ==
  IF \/ s[j].number < 1
     \/ FindNumAssignment(s, s[j].number, j + 1) >= 0          \* Rule 10
     \/ FindSection(s, s[j].value, "section", 1) < 0           \* Rule 11
  THEN Fail
  ELSE [st EXCEPT !.isNum = TRUE]

\* check_menu's loop over the menu body from token j on.
RECURSIVE MenuBody(_, _, _, _)
MenuBody(s, m, j, st) ==
  IF j > Len(s) \/ s[j].id \in Headings THEN [rc |-> 0, st |-> st, end |-> j]
  ELSE LET st2 == IF s[j].id = "keyword" THEN MenuKeyword(s, m, st, s[j])
                  ELSE MenuNumber(s, j, st) IN
       IF "rc" \in DOMAIN st2 THEN Fail ELSE MenuBody(s, m, j + 1, st2)

\* check_menu on the heading at i.
CheckMenu(s, i) ==
  LET body == MenuBody(s, i, i + 1, MenuStart) IN
  IF \/ FindSection(s, NameValue(s[i].name), "menu", i + 1) >= 0  \* Rule 15
     \/ body.rc # 0
     \/ ~body.st.isNum                                         \* Rule 9
     \/ ~body.st.isTarget                                      \* Rule 12
     \/ CheckTargetData(body.st.kw) # 0
  THEN Fail
  ELSE [rc |-> 0, index |-> body.end - 1]

(***************************************************************************)
(* scan_check: the walk over the array from token i; a heading hands the  *)
(* rest of its section to check_section or check_menu, which return the   *)
(* index scan_check's loop increment starts from.                         *)
(***************************************************************************)
RECURSIVE ScanCheckFrom(_, _, _)
ScanCheckFrom(s, i, inSection) ==
  IF i > Len(s) THEN 0
  ELSE IF s[i].id \in Headings
  THEN LET r == IF s[i].id = "section" THEN CheckSection(s, i)
                ELSE CheckMenu(s, i) IN
       IF r.rc # 0 THEN r.rc ELSE ScanCheckFrom(s, r.index + 1, TRUE)
  ELSE IF inSection THEN ScanCheckFrom(s, i + 1, inSection)
  ELSE -1                                                      \* Rule 1

ScanCheck(s) == ScanCheckFrom(s, 1, FALSE)
=============================================================================
