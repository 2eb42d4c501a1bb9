------------------------------ MODULE MCCppLog ------------------------------
(* Small instances of CppLog for TLC. *)
EXTENDS CppLog

Arg(type, value) == [type |-> type, ptr |-> "none", pass |-> "copy", value |-> value]
Ptr(type, ptr, pass, p) == [type |-> type, ptr |-> ptr, pass |-> pass, value |-> p]
Site(sev, format, args) == [sev |-> sev, format |-> format, args |-> args]

MCIntegerLike == {"i32", "ints_ptr"}
MCFloatLike == {"float", "double", "doubles_ptr"}
MCObjPushes == [str_ptr |-> "str", stream |-> "str", ints_ptr |-> "int", doubles_ptr |-> "double"]

Integer == Arg("i32", 1)
Double == Arg("double", 1)
Ref(r) == Arg("strref", r)
Dtor(d) == Arg("refdtor", d)

Literals(chars, n) == UNION {[1..k -> chars] : k \in 0..n}

\* Any braces, for several lists of arguments.
BraceSites ==
  {Site(2, l, args) : l \in Literals({"{", "}", "a"}, 6),
     args \in {<<>>, <<Integer>>, <<Integer, Double>>, <<Ref("r"), Dtor("free")>>}}

\* Any modifiers, in one placeholder.
ModifierSites ==
  {Site(2, <<"{">> \o m \o <<"}">>, <<Integer>>) : m \in Literals({"#", "0", "2", ".", "w", "x"}, 4)}
  \cup {Site(2, <<"{">> \o m \o <<"}">>, <<Double>>) : m \in Literals({"-", "0", "2", ".", "e"}, 4)}
  \cup {Site(2, <<"{", "2", "}">>, <<Arg("lit", 1)>>)}

\* The destructor of references, anywhere.
ReferenceSites ==
  {Site(sev, <<"{", "}">>, args) : sev \in {1, 2},
     args \in {<<Ref("r"), Dtor("free")>>, <<Dtor("free"), Ref("r")>>, <<Ref("r")>>,
               <<Integer, Dtor("free")>>, <<Ref("r"), Dtor(Null)>>,
               <<Ref("r"), Dtor("free"), Dtor("free")>>}}
  \cup {Site(2, <<"{", "}", "{", "}">>, <<Ref("r"), Arg("memref", "m"), Dtor("free")>>)}

\* Smart pointers: to p, that is shared, and to u, that one pointer owns.
Braces(n) == [i \in 1..(2 * n) |-> IF i % 2 = 1 THEN "{" ELSE "}"]
PointerSites ==
  {Site(2, Braces(1), <<Ptr("str_ptr", "shared", pass, "p")>>) : pass \in {"copy", "move"}}
  \cup {Site(2, Braces(2), <<Ptr("ints_ptr", "weak", "copy", "p"),
                             Ptr("stream", "unique", "move", "u")>>),
        Site(1, Braces(1), <<Ptr("str_ptr", "shared", "move", "p")>>),
        Site(1, Braces(2), <<Ptr("doubles_ptr", "unique", "move", "u"), Ref("r"), Dtor("free")>>),
        Site(2, Braces(2), <<Ref("r"), Ptr("doubles_ptr", "shared", "copy", "p"), Dtor("free")>>)}

MCPrograms ==
  {{s} : s \in BraceSites \cup ModifierSites \cup ReferenceSites} \cup {PointerSites}
=============================================================================
