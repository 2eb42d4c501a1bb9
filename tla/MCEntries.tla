----------------------------- MODULE MCEntries -----------------------------
(* Small instances of Entries for TLC. *)
EXTENDS Entries

Text(c) == [kind |-> "text", char |-> c]
Brace == [kind |-> "brace"]
Placeholder(modifiers, shown) ==
  [kind |-> "placeholder", modifiers |-> modifiers, shown |-> shown]
Unclosed(c) == [kind |-> "unclosed", char |-> c]
Plain == Placeholder(<<>>, <<>>)
PlainFloat == Placeholder(<<>>, <<"%", "f">>)

Render(tokens) ==
  FoldLeft(LAMBDA fmt, t : fmt \o
    CASE t.kind = "text" -> <<t.char>>
      [] t.kind = "brace" -> <<"{", "{">>
      [] t.kind = "placeholder" -> <<"{">> \o t.modifiers \o <<"}">>
      [] t.kind = "unclosed" -> <<"{", t.char>>, <<>>, tokens)

Site(sev, types, tokens) ==
  [sev |-> sev, types |-> types, tokens |-> tokens, format |-> Render(tokens)]

MCSites == [
  plain |-> Site(5, <<>>, <<Text("a"), Brace, Text("}")>>),
  ints |-> Site(5, <<"i32", "u8", "i64">>,
                <<Brace, Plain, Text("\n"), Placeholder(<<"x">>, <<"x">>), Plain>>),
  small |-> Site(5, <<"i16", "float">>,
                 <<Plain, Placeholder(<<"-", "0", "2", ".", "0", "e">>,
                                      <<"%", "-", "0", "2", ".", "0", "e">>)>>),
  strings |-> Site(5, <<"strcp", "ptr", "u32">>, <<Plain, Plain, Plain, Plain>>),
  refs |-> Site(5, <<"strref", "i8", "memref", "refdtor">>, <<Text("a"), Plain>>),
  quiet |-> Site(3, <<"memref", "refdtor">>, <<Plain>>),
  objects |-> Site(7, <<"obj", "strref", "obj_flag", "refdtor">>,
                   <<Plain, Plain, PlainFloat, Unclosed("a")>>),
  large |-> Site(5, <<"memcp", "double", "lit">>, <<Plain, PlainFloat, Plain>>)
]

Ref == <<"strref", <<3, "s">>>>
Dtor == <<"refdtor", <<"free", "ctx">>>>
Call(site, args, time) == [site |-> site, args |-> args, time |-> time]

MCCalls == {
  Call("plain", <<>>, 0),
  Call("ints", <<<<"i32", <<-5>>>>, <<"u8", <<3>>>>, <<"i64", <<4096>>>>>>, 15),
  Call("ints", <<<<"i32", <<-128>>>>, <<"u8", <<0>>>>, <<"i64", <<-1>>>>>>, 16),
  Call("small", <<<<"i16", <<-8>>>>, <<"float", <<"f">>>>>>, 0),
  Call("strings", <<<<"strcp", <<0, "nothing">>>>, <<"ptr", <<"p">>>>, <<"u32", <<0>>>>>>, 3),
  Call("refs", <<Ref, <<"i8", <<-1>>>>, <<"memref", <<2, "m">>>>, Dtor>>, 4),
  Call("quiet", <<<<"memref", <<1, "m">>>>, Dtor>>, 0),
  Call("objects", <<<<"obj", <<"t", "o">>>>, Ref,
                    <<"obj_flag", <<1, "f", "p">>>>, Dtor>>, 65535),
  Call("large", <<<<"memcp", <<12, "m">>>>, <<"double", <<"d">>>>, <<"lit", <<"l">>>>>>, 1)
}

MCObjSizeof == [t |-> 1, f |-> 3]
MCObjPushes == [t |-> "str", f |-> "float"]

Config(compression, timestamp, sanitize, pool_slots, max_slots, per_cpu,
       msg_allocator) ==
  [compression |-> compression, timestamp |-> timestamp, sanitize |-> sanitize,
   slot_size |-> 8, pool_slots |-> pool_slots, max_slots |-> max_slots,
   per_cpu |-> per_cpu, msg_allocator |-> msg_allocator]

MCConfigs == {
  Config(FALSE, FALSE, FALSE, 0, 0, FALSE, TRUE),
  Config(FALSE, TRUE, TRUE, 3, 3, FALSE, FALSE),
  Config(TRUE, FALSE, TRUE, 3, 2, TRUE, TRUE),
  Config(TRUE, TRUE, FALSE, 2, 2, TRUE, FALSE)
}

\* The modifiers of a float in any order, as a C call site may have them.
Modifiers == UNION {[1..n -> {"-", "2", ".", "e", "?"}] : n \in 0..3}
MCScanSites == [modifiers \in Modifiers |->
  Site(5, <<"float">>, <<Placeholder(modifiers, <<>>)>>)]
MCScanCalls == {Call(m, <<<<"float", <<"f">>>>>>, 0) : m \in Modifiers}
\* An object that pushes floats, as a std::vector of them does.
MCObjectCalls == {c \in MCCalls : c.site \in {"objects", "plain"}}
MCScanConfigs == {Config(FALSE, FALSE, FALSE, 0, 0, FALSE, TRUE)}
=============================================================================
