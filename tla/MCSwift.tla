-------------------------------- MODULE MCSwift -------------------------------
(***************************************************************************)
(* Names for the demangler: every short text behind some prefixes, and the  *)
(* names a compiler gives to small types.  The mangling is written from the *)
(* rules the demangler reads, the other way around: a module or a type that *)
(* was mangled before is an index into those there were.                    *)
(***************************************************************************)
EXTENDS SwiftNodePrinter, FiniteSets

Alphabet == {"a", "1", "S", "_", "C", "s", "x", "P", "Q", "q", "w", "G", "F", "e", "R", "r"}
Beginnings == {"_Tt", "_TF", "_TtX", "_TTSf1", "_TTSg1", "_TtC1a1b", "_TtTC1a1b"}

Texts[n \in 0 .. 3] == IF n = 0 THEN {""} ELSE {t \o c : t \in Texts[n - 1], c \in Alphabet}
ShortTexts == UNION {Texts[n] : n \in 0 .. 3}

-----------------------------------------------------------------------------
(* Types and the names they have *)

AModule(name) == [form |-> "module", name |-> name, parts |-> <<>>]
Nominal(form, context, name) == [form |-> form, name |-> name, parts |-> <<context>>]
Compound(form, parts) == [form |-> form, name |-> "", parts |-> parts]

Outer == {Nominal(form, AModule(module), name) : form \in {"Class", "Structure"}, module \in {"a", "Swift"}, name \in {"a", "b"}}
Inner == {Nominal("Enum", context, "a") : context \in Outer}
Simple == Outer \cup Inner
Pairs == {Compound(form, <<s, t>>) : form \in {"NonVariadicTuple", "FunctionType", "BoundGeneric"}, s \in Simple, t \in Simple}
MangledTypes ==
  Simple \cup Pairs \cup {Compound("Metatype", <<p>>) : p \in Simple}
  \cup {Compound("NonVariadicTuple", <<p, s, p>>) : p \in {q \in Pairs : q.form = "BoundGeneric" /\ q.parts[1] \in Inner},
                                                    s \in {Nominal("Enum", AModule("a"), "a")}}

Marks == [Class |-> "C", Structure |-> "V", Enum |-> "O", NonVariadicTuple |-> "T", FunctionType |-> "F",
          BoundGeneric |-> "G", Metatype |-> "M"]
Length(name) == ToString(Len(name)) \o name

\* What follows a type's own mark: one underscore at the end of a tuple, and one for each
\* level of a generic type; only the innermost has arguments.
Levels(type) == IF type.parts[1].form = "module" THEN "" ELSE "_"

RECURSIVE MangledList(_, _, _), Mangled(_, _, _)
Mangled(type, known, compress) ==
  LET index == {i \in DOMAIN known : known[i] = type}
      i == CHOOSE j \in index : TRUE
      parts == MangledList(type.parts, known, compress)
      Of(text, k) == [text |-> text, known |-> k]
  IN CASE type = AModule("Swift") -> Of("s", known)
       [] compress /\ index # {} -> Of("S" \o (IF i = 1 THEN "" ELSE ToString(i - 2)) \o "_", known)
       [] type.form = "module" -> Of(Length(type.name), Append(known, type))
       [] type.name # "" -> Of(Marks[type.form] \o parts.text \o Length(type.name), Append(parts.known, type))
       [] type.form = "NonVariadicTuple" -> Of(Marks[type.form] \o parts.text \o "_", parts.known)
       [] type.form = "BoundGeneric" ->
            LET generic == Mangled(type.parts[1], known, compress)
                argument == Mangled(type.parts[2], generic.known, compress)
            IN Of(Marks[type.form] \o generic.text \o Levels(type.parts[1]) \o argument.text \o "_", argument.known)
       [] OTHER -> Of(Marks[type.form] \o parts.text, parts.known)
MangledList(types, known, compress) ==
  IF types = <<>> THEN [text |-> "", known |-> known]
  ELSE LET first == Mangled(types[1], known, compress)
           others == MangledList(Tail(types), first.known, compress)
       IN [text |-> first.text \o others.text, known |-> others.known]

RECURSIVE TreeOf(_)
TreeOf(type) ==
  LET Typed1(i) == Node("Type", <<TreeOf(type.parts[i])>>)
      Wrapped(i, kind) == Node(kind, <<Typed1(i)>>)
  IN CASE type.form = "module" -> TextNode("Module", type.name)
       [] type.name # "" -> Node(type.form, <<TreeOf(type.parts[1]), TextNode("Identifier", type.name)>>)
       [] type.form = "NonVariadicTuple" -> Node(type.form, [i \in DOMAIN type.parts |-> Wrapped(i, "TupleElement")])
       [] type.form = "FunctionType" -> Node(type.form, <<Wrapped(1, "ArgumentTuple"), Wrapped(2, "ReturnType")>>)
       [] type.form = "BoundGeneric" ->
            Node("BoundGeneric" \o type.parts[1].form, <<Typed1(1), Node("TypeList", <<Typed1(2)>>)>>)
       [] OTHER -> Wrapped(1, type.form)

NameOf(type, compress) == "_Tt" \o Mangled(type, <<>>, compress).text
NodeOf(type) == Node("Global", <<Node("TypeMangling", <<Node("Type", <<TreeOf(type)>>)>>)>>)
=============================================================================
