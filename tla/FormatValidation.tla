-------------------------- MODULE FormatValidation --------------------------
(***************************************************************************)
(* The checks that the C++ macros make while compiling                     *)
(* (include/malcpp/impl): the placeholders of the format literal against   *)
(* the types of the arguments, the modifiers each type takes, and the      *)
(* place of the destructor of the references. The templates recur because  *)
(* constexpr functions of C++11 have no variables; a literal is a sequence *)
(* of characters, and a position that of the first character left.         *)
(***************************************************************************)
EXTENDS Integers, Sequences, FiniteSets, FiniteSetsExt, SequencesExt

CONSTANTS
  FmtHalf,     \* 2 ^ (fmtret::valbits - 1)
  IntegerLike, \* types that take the modifiers of an integer
  FloatLike,   \* types that take those of a floating point value
  NumberedUpTo \* the last position that has messages of its own

ASSUME FormatValidationAssumption ==
  FmtHalf \in Nat \ 0..9 /\ NumberedUpTo \in Nat

-----------------------------------------------------------------------------
(* Modifiers.                                                               *)

ModifierFlags == {" ", "#", "+", "-", "0"}
Digits == {"0", "1", "2", "3", "4", "5", "6", "7", "8", "9"}

\* The position after the longest run of characters of chars.
SpanEnd(l, beg, chars) ==
  Min({i \in beg..(Len(l) + 1) : i = Len(l) + 1 \/ l[i] \notin chars})

\* literal::has_repeated_chars
HasRepeatedChars(l) == ~IsInjective(l)

\* validate_specifiers
OneSpecifier(l, beg, specifiers) ==
  beg > Len(l) \/ (beg = Len(l) /\ l[beg] \in specifiers)

\* validate_precision: none, or a dot followed by up to two characters, the
\* first of which may be 'w'.
PrecisionValid(precision) ==
  /\ Len(precision) \in {0, 2, 3}
  /\ \A i \in DOMAIN precision :
       /\ precision[i] = "." => i = 1
       /\ precision[i] = "w" => i = 2
       /\ precision[i] \in Digits =>
            i # 1 /\ (i < Len(precision) => precision[i + 1] # "w")

\* integral_format_validation
IntegralValid(l) ==
  LET width == SpanEnd(l, 1, ModifierFlags)
      precision == SpanEnd(l, width, Digits)
      specifier == SpanEnd(l, precision, Digits \cup {".", "w"})
  IN /\ ~HasRepeatedChars(SubSeq(l, 1, width - 1))
     /\ precision - width <= 2
     /\ PrecisionValid(SubSeq(l, precision, specifier - 1))
     /\ OneSpecifier(l, specifier, {"x", "X", "o"})

\* Mutant of FloatingPointValid: any number of dots.
FloatingPointValidDots(l) ==
  LET width == SpanEnd(l, 1, ModifierFlags)
      specifier == SpanEnd(l, width, Digits \cup {"."})
  IN /\ ~HasRepeatedChars(SubSeq(l, 1, width - 1))
     /\ OneSpecifier(l, specifier, {"f", "F", "e", "E", "g", "G", "a", "A"})

\* floating_point_format_validation
FloatingPointValid(l) ==
  LET width == SpanEnd(l, 1, ModifierFlags)
      specifier == SpanEnd(l, width, Digits \cup {"."})
  IN /\ ~HasRepeatedChars(SubSeq(l, 1, width - 1))
     /\ Cardinality({i \in width..(specifier - 1) : l[i] = "."}) <= 1
     /\ OneSpecifier(l, specifier, {"f", "F", "e", "E", "g", "G", "a", "A"})

\* validate_format_modifiers of each logged_type, and of the type that stands
\* for the rest of the literal.
ModifiersValid(type, l) ==
  CASE type \in IntegerLike -> IntegralValid(l)
    [] type \in FloatLike -> FloatingPointValid(l)
    [] OTHER -> l = <<>>

-----------------------------------------------------------------------------
(* Results.                                                                 *)

success_with_refs == 1
success == 0
notfound == -1
invalid_modifiers == -2
excess_placeholders == -3
excess_arguments == -4
unclosed_lbracket == -5
missing_refdtor == -6
misplaced_refdtor == -7
repeated_refdtor == -8
excess_refdtor == -9

\* fmtret: a code, that is signed, in the high bits and a position in the low ones.
FmtValues == 2 * FmtHalf
Make(code, arg) == (code % FmtValues) * FmtValues + arg
GetArg(ret) == ret % FmtValues
GetCode(ret) ==
  LET high == ret \div FmtValues
  IN IF high >= FmtHalf THEN high - FmtValues ELSE high

-----------------------------------------------------------------------------
(* The placeholders.                                                        *)

\* Mutant of FindLbracket: any brace opens a placeholder.
FindAnyLbracket(l, pos) ==
  LET opening == {i \in pos..Len(l) : l[i] = "{"}
  IN IF opening = {} THEN notfound ELSE Min(opening) + 1

\* find_lbracket: the position after a brace that is not followed by another.
\* prev_is_lbracket[i] is the parameter of the call for the position after i.
FindLbracket(l, pos) ==
  LET prev_is_lbracket[i \in (pos - 1)..Len(l)] ==
        i >= pos /\ l[i] = "{" /\ ~prev_is_lbracket[i - 1]
      after == {i \in pos..(Len(l) + 1) :
                  prev_is_lbracket[i - 1] /\ (i > Len(l) \/ l[i] # "{")}
  IN IF after = {} THEN notfound ELSE Min(after)

FindRbracket(l, pos) ==
  LET closing == {i \in pos..Len(l) : l[i] = "}"}
  IN IF closing = {} THEN notfound ELSE Min(closing)

\* placeholder::validate_next: the position after the placeholder, or an error.
ValidateNext(type, l, litpos) ==
  LET beg == FindLbracket(l, litpos)
      end == FindRbracket(l, beg)
  IN IF beg = notfound THEN notfound
     ELSE IF end = notfound THEN unclosed_lbracket
     ELSE IF ModifiersValid(type, SubSeq(l, beg, end - 1)) THEN end + 1
     ELSE invalid_modifiers

\* process_last_error: what is left of the literal has no placeholder.
ProcessLastError(n, err) ==
  CASE err = notfound -> Make(success, n)
    [] err = unclosed_lbracket -> Make(unclosed_lbracket, n)
    [] OTHER -> Make(excess_placeholders, n)

\* format_string::iterate, consume and verify_next: end[n] is where the literal
\* goes on after the n-th argument, or the first error.
Iterate(types, l) ==
  LET end[n \in 0..Len(types)] ==
        IF n = 0 THEN 1
        ELSE IF end[n - 1] < 0 \/ types[n] = "refdtor" THEN end[n - 1]
        ELSE ValidateNext(types[n], l, end[n - 1])
      failed == {n \in DOMAIN types : end[n] < 0}
      err == IF failed = {} THEN success ELSE end[Min(failed)]
  IN CASE err = success ->
            ProcessLastError(Len(types) + 1,
                             ValidateNext("remainder", l, end[Len(types)]))
       [] err = notfound -> Make(excess_arguments, Min(failed))
       [] OTHER -> Make(err, Min(failed))

\* refvalues::validate
ValidateReferences(types) ==
  LET reftypes == {i \in DOMAIN types : types[i] \in {"strref", "memref"}}
      dtors == {i \in DOMAIN types : types[i] = "refdtor"}
  IN CASE dtors = {} /\ reftypes = {} -> Make(success, 0)
       [] dtors = {} /\ reftypes # {} -> Make(missing_refdtor, 0)
       [] dtors # {} /\ reftypes = {} -> Make(excess_refdtor, 0)
       [] Cardinality(dtors) > 1 /\ reftypes # {} -> Make(repeated_refdtor, 0)
       [] Cardinality(dtors) = 1 /\ reftypes # {} ->
            IF Len(types) \in dtors THEN Make(success_with_refs, 0)
            ELSE Make(misplaced_refdtor, 0)

\* static_arg_validation: an error of the format goes before one of the
\* references. The result is <<code, position>>.
Validate(types, l) ==
  LET fmtstr == Iterate(types, l)
      refs == ValidateReferences(types)
  IN IF GetCode(fmtstr) < success THEN <<GetCode(fmtstr), GetArg(fmtstr)>>
     ELSE <<GetCode(refs), GetArg(refs)>>

\* The assertions of generate_compile_errors that fail: a message for each
\* mistake, and for the modifiers one for each position up to the 49th and one
\* for those from the 50th on.
CompileErrors(result) ==
  LET code == result[1] IN
  {<<c, 0>> : c \in {code} \cap {excess_arguments, excess_placeholders,
     unclosed_lbracket, missing_refdtor, misplaced_refdtor, repeated_refdtor,
     excess_refdtor}}
  \cup {<<code, num>> : num \in {i \in 1..NumberedUpTo :
          code = invalid_modifiers /\ result[2] = i}}
  \cup {<<code, num>> : num \in {i \in {NumberedUpTo + 1} :
          code = invalid_modifiers /\ result[2] >= i}}
=============================================================================
