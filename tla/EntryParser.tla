----------------------------- MODULE EntryParser -----------------------------
(***************************************************************************)
(* The text of an entry (src/malc/entry_parser.c): the scan of the format  *)
(* literal, with its placeholders, and the filter of the modifiers of a    *)
(* float. How a value is printed is left out: in the text an argument is   *)
(* <<"arg", its position, the modifiers its printer gets>>, a character is *)
(* <<"text", c>> and an error of the format <<"error", which>>.            *)
(***************************************************************************)
EXTENDS Lists, SequencesExt

CONSTANT ObjPushes  \* what getdata pushes for each table: "str", "int", "float"
                    \* or "double"

-----------------------------------------------------------------------------
(* Modifiers of a float.                                                    *)

Flags == {" ", "#", "-", "+", "0"}
Numbers == {"1", "2", "3", "4", "5", "6", "7", "8", "9", "."}
Conversions == {"f", "F", "e", "E", "g", "G", "a", "A"}

\* printf_float_modifs_order, with the correction for a zero in a number
Order(c, order) ==
  IF c \in Numbers \/ (c = "0" /\ order = 2) THEN 2
  ELSE IF c \in Flags THEN 1 ELSE 3

\* One turn of the loop over the modifiers. A character of a lower order, and
\* a second dot, are skipped with a continue that does not advance: the same
\* character is looked at for ever.
ScanModifier(s, c) ==
  LET order == Order(c, s.order)
      dots == IF c = "." THEN s.dots + 1 ELSE s.dots
  IN IF s.status # "scanning" \/ c \notin Flags \cup Numbers \cup Conversions
     THEN s
     ELSE IF order < s.order THEN [s EXCEPT !.status = "hung"]
     ELSE IF order = 3
          THEN [s EXCEPT !.order = order, !.conversion = c, !.status = "done"]
     ELSE IF dots > 1 THEN [s EXCEPT !.status = "hung"]
     ELSE [s EXCEPT !.order = order, !.dots = dots, !.fmt = Append(@, c)]

\* build_float_format_on_ep_fmt
FloatFormat(modifiers) ==
  LET scan[n \in 0..Len(modifiers)] ==
        IF n = 0 THEN [order |-> 0, dots |-> 0, fmt |-> <<"%">>,
                       conversion |-> "f", status |-> "scanning"]
        ELSE ScanModifier(scan[n - 1], modifiers[n])
      s == scan[Len(modifiers)]
  IN IF s.status = "hung" THEN s ELSE [s EXCEPT !.fmt = Append(@, s.conversion)]

-----------------------------------------------------------------------------
(* The scan of the format literal.                                          *)

\* An append to the text; the failing-th one fails, none when it is 0.
AppendItems(p, items) ==
  IF p.appends + 1 = p.failing
  THEN [p EXCEPT !.status = "error"]
  ELSE [p EXCEPT !.text = @ \o items, !.appends = @ + 1]

AppendError(p, name) == AppendItems(p, << <<"error", name>> >>)

\* The text from text_beg up to and including last.
AppendText(p, fmt, last) ==
  AppendItems(p, [i \in 1..(last - p.text_beg + 1) |->
                    <<"text", fmt[p.text_beg + i - 1]>>])

\* malc_obj_type_id and malc_type_id of what is printed with printf.
ObjTypeIds == [float |-> 8, double |-> 9]
malc_type_float == 103

\* push_obj_data: the type that the elements of an array are read with. It is
\* the id of an object that is compared, with the id of an argument.
ReadAs(pushed) ==
  IF ObjTypeIds[pushed] = malc_type_float THEN "float" ELSE "double"

Pushed(arg) == CASE arg[1] = "obj" -> ObjPushes[arg[2][1]]
                 [] arg[1] = "obj_flag" -> ObjPushes[arg[2][2]]
                 [] OTHER -> "none"

\* append_arg; the getdata of an object pushes one value.
AppendArg(p, arg, modifiers) ==
  LET pushed == Pushed(arg)
      as_float == arg[1] \in {"float", "double"} \/ pushed \in DOMAIN ObjTypeIds
      float == FloatFormat(modifiers)
      read == IF pushed \in DOMAIN ObjTypeIds THEN << <<pushed, ReadAs(pushed)>> >>
              ELSE <<>>
  IN IF ~as_float THEN AppendItems(p, << <<"arg", p.arg_idx, modifiers>> >>)
     ELSE IF float.status = "hung" THEN [p EXCEPT !.status = "hung"]
     ELSE [AppendItems(p, << <<"arg", p.arg_idx, float.fmt>> >>) EXCEPT
             !.elements = @ \o read]

Escaped(p, fmt) ==
  fmt[p.it] = "{" /\ p.it < Len(fmt) /\ fmt[p.it + 1] = "{"

\* Mutant of EscapedBraces: the second brace is text too.
EscapedBracesTwice(p, fmt) ==
  IF p.fmt_beg = 0
  THEN [AppendText(p, fmt, p.it) EXCEPT !.it = @ + 2, !.text_beg = p.it + 1]
  ELSE [AppendError(p, "escaped braces in format") EXCEPT !.it = @ + 2]

\* {{ stands for one brace.
EscapedBraces(p, fmt) ==
  IF p.fmt_beg = 0
  THEN [AppendText(p, fmt, p.it) EXCEPT !.it = @ + 2, !.text_beg = p.it + 2]
  ELSE [AppendError(p, "escaped braces in format") EXCEPT !.it = @ + 2]

OpenFormat(p, fmt) ==
  IF p.fmt_beg = 0
  THEN [AppendText(p, fmt, p.it - 1) EXCEPT
          !.it = @ + 1, !.fmt_beg = p.it + 1, !.text_beg = p.it + 1]
  ELSE [AppendError(p, "misplaced open braces") EXCEPT !.it = @ + 1]

CloseFormat(p, fmt, args) ==
  LET shown == IF p.arg_idx <= Len(args)
               THEN AppendArg(p, args[p.arg_idx],
                              SubSeq(fmt, p.fmt_beg, p.it - 1))
               ELSE AppendError(p, "missing arg")
  IN [shown EXCEPT !.it = @ + 1, !.text_beg = p.it + 1, !.fmt_beg = 0,
                   !.arg_idx = @ + 1]

Finish(p, fmt, args) ==
  LET unclosed == IF p.fmt_beg # 0 THEN AppendError(p, "unclosed format") ELSE p
      rest == IF unclosed.status = "ok"
              THEN AppendText(unclosed, fmt, Len(fmt)) ELSE unclosed
  IN IF rest.status = "ok" /\ rest.arg_idx <= Len(args)
     THEN AppendError(rest, "excess args") ELSE rest

\* One turn of the loop over the format, none after an error or at its end.
Turn(p, fmt, args) ==
  IF p.status # "ok" \/ p.it > Len(fmt) THEN p
  ELSE CASE Escaped(p, fmt) -> EscapedBraces(p, fmt)
         [] fmt[p.it] = "{" /\ ~Escaped(p, fmt) -> OpenFormat(p, fmt)
         [] fmt[p.it] = "}" /\ p.fmt_beg # 0 -> CloseFormat(p, fmt, args)
         [] OTHER -> [p EXCEPT !.it = @ + 1]

Parser(failing) ==
  [it |-> 1, text_beg |-> 1, fmt_beg |-> 0, arg_idx |-> 1,
   text |-> <<>>, elements |-> <<>>, appends |-> 0, failing |-> failing,
   status |-> "ok"]

\* parse_text: a turn goes over one character or two.
ParseText(fmt, args, failing) ==
  LET turn[n \in 0..Len(fmt)] ==
        IF n = 0 THEN Parser(failing) ELSE Turn(turn[n - 1], fmt, args)
      end == turn[Len(fmt)]
  IN IF end.status = "ok" THEN Finish(end, fmt, args) ELSE end

NewLines == {"\n", "\r"}

\* The text of entry_parser_get_log_strings. Sanitising goes over what there
\* is, and its result takes the place of the error of parse_text.
LogText(fmt, args, sanitize, failing) ==
  LET p == ParseText(fmt, args, failing)
  IN IF sanitize /\ p.status # "hung"
     THEN [status |-> "ok", elements |-> p.elements,
           text |-> SelectSeq(p.text, LAMBDA i : i[1] # "text" \/ i[2] \notin NewLines)]
     ELSE [status |-> p.status, elements |-> p.elements, text |-> p.text]

\* Mutant of Objects: objects with a flag are forgotten.
ObjectsUnflagged(args) == Select(args, {i \in DOMAIN args : args[i][1] = "obj"})

\* destroy_objects
Objects(args) ==
  Select(args, {i \in DOMAIN args : args[i][1] \in {"obj", "obj_flag"}})
=============================================================================
