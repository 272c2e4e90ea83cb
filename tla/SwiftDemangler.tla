---------------------------- MODULE SwiftDemangler ---------------------------
(***************************************************************************)
(* The demangler of Swift names (swift/Basic/Demangle.cpp): a parser that   *)
(* turns a mangled name into a tree, one operator for one demangle...       *)
(* function.  A name is a string that loses its first characters as they    *)
(* are claimed; the nodes found for the rule being read are collected, and  *)
(* As closes them into their parent.  A rule that cannot be read fails      *)
(* where it stands: nothing is put back.  A rule that asserts or aborts     *)
(* traps, and the process is gone.  The forms of globals, entities and      *)
(* types are tables: what introduces one, the kind of its node ("" for      *)
(* none of its own) and the rules for its children.                         *)
(***************************************************************************)
EXTENDS Integers, Sequences, TLC

CONSTANTS IndexLimit,     \* indices are kept modulo this: 2^64, scaled down
          PunycodeTexts,  \* what the encoded identifiers that can be decoded stand for
          NonASCII        \* the characters of decoded identifiers that are not ASCII

Node(kind, children) == [kind |-> kind, text |-> "", index |-> 0, children |-> children]
TextNode(kind, text) == [Node(kind, <<>>) EXCEPT !.text = text]
IndexNode(kind, index) == [Node(kind, <<>>) EXCEPT !.index = index]
NoNode == Node("none", <<>>)
StdlibModule == TextNode("Module", "Swift")

-----------------------------------------------------------------------------
(* The source and what was found *)

Parser(mangled) ==
  [left |-> mangled, subs |-> <<>>, status |-> "ok", found |-> <<>>, number |-> 0]

Fail(p) == [p EXCEPT !.status = "fail"]
Trap(p) == [p EXCEPT !.status = "trap"]
Ok(p) == p.status = "ok"

Behind(text, i) == SubSeq(text, i, Len(text))
FirstOf(text) == IF text = "" THEN "" ELSE SubSeq(text, 1, 1)
isEmpty(p) == p.left = ""
Starts(p, literal) == SubSeq(p.left, 1, IF Len(literal) < Len(p.left) THEN Len(literal) ELSE Len(p.left)) = literal
advanceOffset(p, n) == [p EXCEPT !.left = Behind(@, n + 1)]
nextIf(p, literal) == IF Starts(p, literal) THEN advanceOffset(p, Len(literal)) ELSE Fail(p)
\* Looking at the next character asserts that there is one.
Peeked(p) == IF isEmpty(p) THEN Trap(p) ELSE p

Got(p, node) == [p EXCEPT !.found = Append(@, node)]
LastGot(p) == p.found[Len(p.found)]
Learn(p) == IF Ok(p) THEN [p EXCEPT !.subs = Append(@, LastGot(p))] ELSE p

\* A rule is read where the source stands; the rules are listed at the end.
RECURSIVE Read(_, _)

Digits == {"0", "1", "2", "3", "4", "5", "6", "7", "8", "9"}
DigitValue == [d \in Digits |-> CHOOSE v \in 0 .. 9 : ToString(v) = d]
isStartOfIdentifier(c) == c \in Digits \cup {"o"}
isStartOfNominalType(c) == c \in {"C", "V", "O"}
isStartOfEntity(c) == isStartOfNominalType(c) \/ c \in {"F", "I", "v", "P", "s", "Z"}

archetypeName(index, depth) ==
  LET Letters == "ABCDEFGHIJKLMNOPQRSTUVWXYZ"
      name[i \in Nat] == SubSeq(Letters, (i % 26) + 1, (i % 26) + 1)
                         \o (IF i < 26 THEN "" ELSE name[i \div 26])
  IN name[index] \o (IF depth = 0 THEN "" ELSE ToString(depth))

\* A character that begins no number is claimed all the same.
demangleNatural(p) ==
  LET digits[i \in Nat] ==
        IF i < Len(p.left) /\ SubSeq(p.left, i + 1, i + 1) \in Digits THEN digits[i + 1] ELSE i
      value[i \in Nat] ==
        IF i = 0 THEN 0 ELSE ((value[i - 1] * 10) + DigitValue[SubSeq(p.left, i, i)]) % IndexLimit
      n == digits[0]
  IN IF isEmpty(p) THEN Fail(p)
     ELSE IF n = 0 THEN Fail(advanceOffset(p, 1))
     ELSE [advanceOffset(p, n) EXCEPT !.number = value[n]]

demangleBuiltinSize(p) == LET q == demangleNatural(p) IN IF Ok(q) THEN nextIf(q, "_") ELSE q

\* Mutant: an index stands for itself.
demangleIndex_AsItIs(p) == IF nextIf(p, "_").status = "ok" THEN [nextIf(p, "_") EXCEPT !.number = 0] ELSE demangleBuiltinSize(p)

demangleIndex(p) ==
  IF Starts(p, "_") THEN [advanceOffset(p, 1) EXCEPT !.number = 0]
  ELSE LET q == demangleBuiltinSize(p) IN [q EXCEPT !.number = (@ + 1) % IndexLimit]

demangleIndexAsNode(p) ==
  LET q == demangleIndex(p) IN IF Ok(q) THEN Got(q, IndexNode("Number", q.number)) ELSE q

OpCharTable ==
  [a |-> "&", c |-> "@", d |-> "/", e |-> "=", g |-> ">", l |-> "<", m |-> "*", n |-> "!", o |-> "|",
   p |-> "+", q |-> "?", r |-> "%", s |-> "-", t |-> "~", x |-> "^", z |-> "."]
OperatorKinds == [p |-> "PrefixOperator", P |-> "PostfixOperator", i |-> "InfixOperator"]

\* An operator has no place where the kind of the identifier is given.
demangleIdentifierText(p, kind, isPunycoded, isOperator) ==
  LET q == Read("Natural", p)
      slice == SubSeq(q.left, 1, q.number)
      decoded == IF ~isPunycoded THEN slice
                 ELSE IF slice \in DOMAIN PunycodeTexts THEN PunycodeTexts[slice] ELSE ""
      Char(i) == SubSeq(decoded, i, i)
      operator[i \in Nat] ==
        IF i = 0 THEN "" ELSE operator[i - 1] \o (IF Char(i) \in NonASCII THEN Char(i) ELSE OpCharTable[Char(i)])
      rest == advanceOffset(q, q.number)
  IN IF ~Ok(q) \/ q.number > Len(q.left) THEN Fail(q)
     ELSE IF decoded = "" THEN Fail(rest)
     ELSE IF ~isOperator THEN Got(rest, TextNode(kind, decoded))
     ELSE IF \E i \in 1 .. Len(decoded) : Char(i) \notin NonASCII \cup DOMAIN OpCharTable THEN Fail(rest)
     ELSE Got(rest, TextNode(kind, operator[Len(decoded)]))

demangleIdentifier(p, kind) ==
  LET isPunycoded == Starts(p, "X")
      q == IF isPunycoded THEN advanceOffset(p, 1) ELSE p
      mode == SubSeq(q.left, 2, IF Len(q.left) < 2 THEN 1 ELSE 2)
  IN IF isEmpty(p) THEN Fail(p)
     ELSE IF ~Starts(q, "o")
          THEN demangleIdentifierText(q, IF kind = "" THEN "Identifier" ELSE kind, isPunycoded, FALSE)
     ELSE IF kind # "" THEN Fail(advanceOffset(q, 1))
     ELSE IF mode = "" THEN Trap(q)
     ELSE IF mode \notin DOMAIN OperatorKinds THEN Fail(advanceOffset(q, 2))
     ELSE demangleIdentifierText(advanceOffset(q, 2), OperatorKinds[mode], isPunycoded, TRUE)

Structures ==
  [a |-> "Array", b |-> "Bool", c |-> "UnicodeScalar", d |-> "Double", f |-> "Float", i |-> "Int",
   V |-> "UnsafeRawPointer", v |-> "UnsafeMutableRawPointer", P |-> "UnsafePointer", p |-> "UnsafeMutablePointer",
   R |-> "UnsafeBufferPointer", r |-> "UnsafeMutableBufferPointer", S |-> "String", u |-> "UInt"]
Enums == [q |-> "Optional", Q |-> "ImplicitlyUnwrappedOptional"]
Modules == [o |-> "__ObjC", C |-> "__C"]
createSwiftType(kind, name) == Node(kind, <<StdlibModule, TextNode("Identifier", name)>>)

\* After an S.
demangleSubstitutionIndex(p) ==
  LET c == FirstOf(p.left)
      q == Read("Index", p)
  IN IF isEmpty(p) THEN Fail(p)
     ELSE IF c \in DOMAIN Modules THEN Got(advanceOffset(p, 1), TextNode("Module", Modules[c]))
     ELSE IF c \in DOMAIN Structures
          THEN Got(advanceOffset(p, 1), createSwiftType("Structure", Structures[c]))
     ELSE IF c \in DOMAIN Enums THEN Got(advanceOffset(p, 1), createSwiftType("Enum", Enums[c]))
     ELSE IF ~Ok(q) \/ q.number >= Len(p.subs) THEN Fail(q)
     ELSE Got(q, p.subs[q.number + 1])

-----------------------------------------------------------------------------
(* Rules *)

\* One rule after another, until one of them cannot be read.
RECURSIVE InOrder(_, _)
InOrder(p, rules) ==
  IF rules = <<>> THEN p
  ELSE LET q == Read(rules[1], p) IN IF Ok(q) THEN InOrder(q, Tail(rules)) ELSE q

Close(p, q, Closed(_)) == [q EXCEPT !.found = IF Ok(q) THEN Append(p.found, Closed(q.found)) ELSE p.found]

\* The rules' nodes, behind those there are already, become the children of one node.
Under(p, kind, first, rules) ==
  Close(p, InOrder([p EXCEPT !.found = first], rules), LAMBDA children : Node(kind, children))
As(p, kind, rules) == IF kind = "" THEN InOrder(p, rules) ELSE Under(p, kind, <<>>, rules)

RECURSIVE Until(_, _, _)
Until(p, end, rule) ==
  IF Starts(p, end) THEN advanceOffset(p, Len(end))
  ELSE LET q == Read(rule, p) IN IF Ok(q) THEN Until(q, end, rule) ELSE q

\* The first form whose introduction is there.
RECURSIVE Choose(_, _)
Choose(p, forms) ==
  IF forms = <<>> THEN Fail(p)
  ELSE IF Starts(p, forms[1][1]) THEN As(advanceOffset(p, Len(forms[1][1])), forms[1][2], forms[1][3])
  ELSE Choose(p, Tail(forms))

-----------------------------------------------------------------------------
(* Names and contexts *)

DeclNames ==
  << <<"L", "LocalDeclName", <<"Number", "Identifier">>>>,
     <<"P", "PrivateDeclName", <<"Identifier", "Identifier">>>>,
     <<"", "", <<"Identifier">>>> >>

demangleModule(p) ==
  LET q == Read("Substitution", advanceOffset(p, 1))
  IN IF Starts(p, "s") THEN Got(advanceOffset(p, 1), StdlibModule)
     ELSE IF ~Starts(p, "S") THEN Learn(Read("ModuleName", p))
     ELSE IF Ok(q) /\ LastGot(q).kind # "Module" THEN [Fail(q) EXCEPT !.found = p.found]
     ELSE q

demangleDeclarationName(p, kind) == Learn(As(p, kind, <<"Context", "DeclName">>))

\* What was found last begins the node instead.
Continue(p, q, kind, rules) ==
  IF Ok(q) THEN Under([q EXCEPT !.found = p.found], kind, <<LastGot(q)>>, rules) ELSE q

demangleProtocolNameGivenContext(p, q) == Learn(Continue(p, q, "Protocol", <<"DeclName">>))

demangleProtocolName(p) ==
  LET sub == Read("Substitution", advanceOffset(p, 1))
      impl == IF Starts(p, "s")
              THEN demangleProtocolNameGivenContext(p, Got(advanceOffset(p, 1), StdlibModule))
              ELSE IF ~Starts(p, "S") THEN demangleDeclarationName(p, "Protocol")
              ELSE IF ~Ok(sub) \/ LastGot(sub).kind = "Protocol" THEN sub
              ELSE IF LastGot(sub).kind = "Module" THEN demangleProtocolNameGivenContext(p, sub)
              ELSE Fail(sub)
  IN Continue(p, impl, "Type", <<>>)

NominalTypes ==
  << <<"S", "", <<"Substitution">>>>, <<"V", "", <<"Structure">>>>, <<"O", "", <<"Enum">>>>,
     <<"C", "", <<"Class">>>>, <<"P", "", <<"Protocol">>>> >>

\* The type with its parent's generic arguments, then with its own.  A type without a
\* parent or a name to copy is undefined behaviour, a failed parent is a null child.
RECURSIVE demangleBoundGenericArgs(_, _)
demangleBoundGenericArgs(p, nominalType) ==
  LET outermost == nominalType.children[1].kind \in {"Module", "Function", "Extension"}
      inner == demangleBoundGenericArgs(p, nominalType.children[1])
      start == IF outermost THEN p ELSE [inner EXCEPT !.found = p.found]
      nominal == IF outermost THEN nominalType
                 ELSE Node(nominalType.kind, <<LastGot(inner), nominalType.children[2]>>)
      bound == "BoundGeneric" \o nominal.kind
      args == Close(start, Until([start EXCEPT !.found = <<>>], "_", "Argument"),
                    LAMBDA list : IF list = <<>> THEN nominal
                                  ELSE Node(bound, <<Node("Type", <<nominal>>), Node("TypeList", list)>>))
  IN IF nominalType.children = <<>> THEN Trap(p)
     ELSE IF ~outermost /\ (~Ok(inner) \/ Len(nominalType.children) < 2) THEN Trap(p)
     ELSE IF Ok(args) /\ LastGot(args).kind = bound /\ nominal.kind \notin {"Class", "Structure", "Enum"}
          THEN [Fail(args) EXCEPT !.found = p.found]
     ELSE args

demangleBoundGenericType(p) ==
  LET q == Choose(p, NominalTypes)
  IN IF Ok(q) THEN demangleBoundGenericArgs([q EXCEPT !.found = p.found], LastGot(q)) ELSE q

\* The signature of a constrained extension is read before, and kept behind, its type.
demangleConstrainedExtension(p) ==
  Close(p, InOrder([p EXCEPT !.found = <<>>], <<"Module", "GenericSignature", "Context">>),
        LAMBDA c : Node("Extension", <<c[1], c[3], c[2]>>))

Contexts ==
  << <<"E", "Extension", <<"Module", "Context">>>>, <<"e", "", <<"ConstrainedExtension">>>>,
     <<"S", "", <<"Substitution">>>>, <<"G", "", <<"BoundGenericType">>>> >>

demangleContext(p) ==
  IF isEmpty(p) THEN Fail(p)
  ELSE IF FirstOf(p.left) \in {"E", "e", "S", "G"} THEN Choose(p, Contexts)
  ELSE IF Starts(p, "s") THEN Got(advanceOffset(p, 1), StdlibModule)
  ELSE IF isStartOfEntity(FirstOf(p.left)) THEN Read("Entity", p)
  ELSE Read("Module", p)

EntityKinds == [F |-> "Function", v |-> "Variable", I |-> "Initializer", i |-> "Subscript"]

EntityNames ==
  << <<"D", "Deallocator", <<>>>>, <<"d", "Destructor", <<>>>>, <<"e", "IVarInitializer", <<>>>>,
     <<"E", "IVarDestroyer", <<>>>>, <<"C", "Allocator", <<"Type">>>>, <<"c", "Constructor", <<"Type">>>>,
     <<"aO", "OwningMutableAddressor", <<"DeclName", "Type">>>>,
     <<"ao", "NativeOwningMutableAddressor", <<"DeclName", "Type">>>>,
     <<"ap", "NativePinningMutableAddressor", <<"DeclName", "Type">>>>,
     <<"au", "UnsafeMutableAddressor", <<"DeclName", "Type">>>>, <<"a", "", <<"Nothing">>>>,
     <<"lO", "OwningAddressor", <<"DeclName", "Type">>>>,
     <<"lo", "NativeOwningAddressor", <<"DeclName", "Type">>>>,
     <<"lp", "NativePinningAddressor", <<"DeclName", "Type">>>>,
     <<"lu", "UnsafeAddressor", <<"DeclName", "Type">>>>, <<"l", "", <<"Nothing">>>>,
     <<"g", "Getter", <<"DeclName", "Type">>>>, <<"G", "GlobalGetter", <<"DeclName", "Type">>>>,
     <<"s", "Setter", <<"DeclName", "Type">>>>, <<"m", "MaterializeForSet", <<"DeclName", "Type">>>>,
     <<"w", "WillSet", <<"DeclName", "Type">>>>, <<"W", "DidSet", <<"DeclName", "Type">>>>,
     <<"U", "ExplicitClosure", <<"Number", "Type">>>>, <<"u", "ImplicitClosure", <<"Number", "Type">>>> >>

OtherNames(kind) ==
  IF kind = "Initializer"
  THEN << <<"A", "DefaultArgumentInitializer", <<"Number">>>>, <<"i", "Initializer", <<>>>> >>
  ELSE << <<"", kind, <<"DeclName", "Type">>>> >>

\* The context becomes the first child of what the name makes of the entity.
demangleEntity(p) ==
  LET isStatic == Starts(p, "Z")
      q == IF isStatic THEN advanceOffset(p, 1) ELSE p
      c == FirstOf(q.left)
      context == Read("Context", advanceOffset([q EXCEPT !.found = <<>>], 1))
      entity == Close(p, Choose([context EXCEPT !.found = <<>>], EntityNames \o OtherNames(EntityKinds[c])),
                      LAMBDA f : [f[1] EXCEPT !.children = <<context.found[1]>> \o @])
  IN IF c \notin DOMAIN EntityKinds THEN Choose(q, NominalTypes)
     ELSE IF ~Ok(context) THEN [context EXCEPT !.found = p.found]
     ELSE IF isStatic THEN Continue(p, entity, "Static", <<>>)
     ELSE entity

-----------------------------------------------------------------------------
(* Generic parameters, signatures and archetypes *)

IndexPair(kind, depth, index) ==
  [Node(kind, <<IndexNode("Index", depth), IndexNode("Index", index)>>) EXCEPT
     !.text = archetypeName(index, depth)]

demangleArchetypeRef(p, depth, i) == Got(p, IndexPair("ArchetypeRef", depth, i))
getDependentGenericParamType(p, depth, index) == Got(p, IndexPair("DependentGenericParamType", depth, index))

\* The depth and the index behind a d.
WithDepth(p, Use(_, _, _)) ==
  LET depth == Read("Index", advanceOffset(p, 1))
      index == Read("Index", depth)
  IN IF ~Ok(depth) THEN depth
     ELSE IF ~Ok(index) THEN index
     ELSE Use(index, (depth.number + 1) % IndexLimit, index.number)

demangleGenericParamIndex(p) ==
  LET q == Read("Index", p)
  IN IF Starts(p, "d") THEN WithDepth(p, getDependentGenericParamType)
     ELSE IF Starts(p, "x") THEN getDependentGenericParamType(advanceOffset(p, 1), 0, 0)
     ELSE IF Ok(q) THEN getDependentGenericParamType(q, 0, (q.number + 1) % IndexLimit)
     ELSE q

\* What was found last is the base of the member.
demangleDependentMemberTypeName(p, q) ==
  LET sub == Read("Substitution", advanceOffset(q, 1))
      protocol == IF Starts(q, "P") THEN Read("ProtocolName", advanceOffset(q, 1)) ELSE q
      name == Read("DependentAssociatedTypeRef", [protocol EXCEPT !.found = q.found])
      protocols == IF Starts(q, "P") THEN <<LastGot(protocol)>> ELSE <<>>
      assocTy == Learn([name EXCEPT !.found[Len(name.found)].children = protocols])
      Member(r) == Close(p, r, LAMBDA f : Node("DependentMemberType", SubSeq(f, Len(f) - 1, Len(f))))
  IN IF Starts(q, "S")
     THEN Member(IF Ok(sub) /\ LastGot(sub).kind # "DependentAssociatedTypeRef" THEN Fail(sub) ELSE sub)
     ELSE IF ~Ok(protocol) THEN protocol
     ELSE Member(IF Ok(name) THEN assocTy ELSE name)

demangleAssociatedTypeSimple(p) ==
  LET base == As(p, "Type", <<"GenericParam">>)
  IN IF Ok(base) THEN demangleDependentMemberTypeName(p, base) ELSE base

\* A chain of members, each of the one before it.
RECURSIVE AssociatedTypeChain(_, _)
AssociatedTypeChain(p, q) ==
  LET member == demangleDependentMemberTypeName(p, Continue(p, q, "Type", <<>>))
  IN IF Starts(q, "_") THEN advanceOffset(q, 1)
     ELSE IF Ok(member) THEN AssociatedTypeChain(p, member) ELSE member

demangleAssociatedTypeCompound(p) ==
  LET base == demangleGenericParamIndex(p) IN IF Ok(base) THEN AssociatedTypeChain(p, base) ELSE base

\* A member begins with a character that is neither an index nor a d.
demangleDependentType(p) ==
  LET base == Read("Type", p)
  IN IF isEmpty(p) THEN Fail(p)
     ELSE IF FirstOf(p.left) \in {"d", "_"} \cup Digits THEN demangleGenericParamIndex(p)
     ELSE IF Ok(base) THEN demangleDependentMemberTypeName(p, base) ELSE base

ConstrainedTypes ==
  << <<"w", "Type", <<"AssociatedTypeSimple">>>>, <<"W", "Type", <<"AssociatedTypeCompound">>>>,
     <<"", "Type", <<"GenericParam">>>> >>

NoCount == IndexLimit - 1
AddCount(p, count) == Got([p EXCEPT !.number = count], IndexNode("DependentGenericParamCount", count))

\* The numbers of parameters at each depth, up to an R or r; one parameter if there are none.
RECURSIVE ParamCounts(_, _)
ParamCounts(p, count) ==
  LET q == Read("Index", p)
      next == (q.number + 1) % IndexLimit
  IN IF isEmpty(p) THEN Trap(p)
     ELSE IF FirstOf(p.left) \in {"R", "r"} THEN IF count = NoCount THEN AddCount(p, 1) ELSE p
     ELSE IF Starts(p, "z") THEN ParamCounts(AddCount(advanceOffset(p, 1), 0), 0)
     ELSE IF Ok(q) THEN ParamCounts(AddCount(q, next), next) ELSE q

demangleGenericSignature(p, isPseudogeneric) ==
  LET counts == ParamCounts([p EXCEPT !.found = <<>>], NoCount)
      requirements == IF ~Ok(counts) THEN counts
                      ELSE IF Starts(counts, "r") THEN advanceOffset(counts, 1)
                      ELSE Until(advanceOffset(counts, 1), "r", "Requirement")
  IN Close(p, requirements,
           LAMBDA c : Node(IF isPseudogeneric THEN "DependentPseudogenericSignature"
                           ELSE "DependentGenericSignature", c))

\* A base class begins with C or S; behind an S there may also be a protocol or its module.
demangleConstraint(p) ==
  LET sub == Read("Substitution", advanceOffset(p, 1))
      kind == LastGot(sub).kind
  IN IF isEmpty(p) THEN Fail(p)
     ELSE IF Starts(p, "C") THEN Read("Type", p)
     ELSE IF ~Starts(p, "S") THEN Read("ProtocolName", p)
     ELSE IF ~Ok(sub) THEN sub
     ELSE IF kind \in {"Protocol", "Class"} THEN Continue(p, sub, "Type", <<>>)
     ELSE IF kind = "Module" THEN Continue(p, demangleProtocolNameGivenContext(p, sub), "Type", <<>>)
     ELSE [Fail(sub) EXCEPT !.found = p.found]

demangleGenericRequirement(p) ==
  LET type == Choose(p, ConstrainedTypes)
  IN IF ~Ok(type) THEN type
     ELSE IF Starts(type, "z")
          THEN Continue(p, advanceOffset(type, 1), "DependentGenericSameTypeRequirement", <<"Type">>)
     ELSE Continue(p, type, "DependentGenericConformanceRequirement", <<"Constraint">>)

\* The self type of a protocol, or the associated type of anything else.
ArchetypeOf(p, q) ==
  IF ~Ok(q) THEN q
  ELSE IF LastGot(q).kind = "Protocol" THEN Learn(Continue(p, q, "SelfTypeRef", <<>>))
  ELSE Learn(Continue(p, q, "AssociatedTypeRef", <<"Identifier">>))

RECURSIVE demangleArchetypeType(_)
demangleArchetypeType(p) ==
  LET rest == advanceOffset(p, 1)
      root == demangleArchetypeType(rest)
      index == Read("Index", p)
  IN IF Starts(p, "P")
     THEN LET proto == Read("ProtocolName", rest)
          IN IF Ok(proto) THEN Learn(Continue(p, proto, "SelfTypeRef", <<>>)) ELSE proto
     ELSE IF Starts(p, "Q")
     THEN IF Ok(root) THEN Learn(Continue(p, root, "AssociatedTypeRef", <<"Identifier">>)) ELSE root
     ELSE IF Starts(p, "S") THEN ArchetypeOf(p, Read("Substitution", rest))
     ELSE IF Starts(p, "s") THEN ArchetypeOf(p, Got(rest, StdlibModule))
     ELSE IF Starts(p, "d") THEN WithDepth(p, demangleArchetypeRef)
     ELSE IF Starts(p, "q") THEN As(rest, "QualifiedArchetype", <<"Number", "DeclContext">>)
     ELSE IF Ok(index) THEN demangleArchetypeRef(index, 0, index.number)
     ELSE index

-----------------------------------------------------------------------------
(* Types *)

demangleTupleElement(p) ==
  IF isEmpty(p) THEN Fail(p)
  ELSE As(p, "TupleElement",
          IF isStartOfIdentifier(FirstOf(p.left)) THEN <<"TupleElementName", "Type">> ELSE <<"Type">>)

FunctionTypeRules == <<"Throws", "ArgumentTuple", "ReturnType">>

BuiltinNames ==
  [b |-> "BridgeObject", B |-> "UnsafeValueBuffer", O |-> "UnknownObject", o |-> "NativeObject",
   p |-> "RawPointer", w |-> "Word"]
SizedBuiltins == [f |-> "Float", i |-> "Int"]

\* The size behind a letter, in a name that begins as given.
SizedBuiltin(p, name) ==
  LET q == demangleBuiltinSize(advanceOffset(p, 1))
  IN IF Ok(q) THEN Got(q, TextNode("BuiltinTypeName", name \o SizedBuiltins[FirstOf(p.left)] \o ToString(q.number)))
     ELSE q

demangleBuiltinType(p) ==
  LET c == FirstOf(p.left)
      elts == Read("Natural", advanceOffset(p, 1))
      element == nextIf(elts, "B")
      vector == "Vec" \o ToString(elts.number) \o "x"
  IN IF isEmpty(p) THEN Fail(p)
     ELSE IF c \in DOMAIN BuiltinNames
          THEN Got(advanceOffset(p, 1), TextNode("BuiltinTypeName", BuiltinNames[c]))
     ELSE IF c \in DOMAIN SizedBuiltins THEN SizedBuiltin(p, "")
     ELSE IF c # "v" THEN Fail(advanceOffset(p, 1))
     ELSE IF ~Ok(elts) THEN elts
     ELSE IF ~Ok(element) THEN element
     ELSE IF FirstOf(element.left) \in DOMAIN SizedBuiltins THEN SizedBuiltin(element, vector)
     ELSE IF Starts(element, "p")
          THEN Got(advanceOffset(element, 1), TextNode("BuiltinTypeName", vector \o "RawPointer"))
     ELSE Fail(element)

MetatypeRepresentations == [t |-> "@thin", T |-> "@thick", o |-> "@objc_metatype"]

\* Anything but the three representations is unreachable.
demangleMetatypeRepresentation(p) ==
  LET c == FirstOf(p.left)
  IN IF c \in DOMAIN MetatypeRepresentations
     THEN Got(advanceOffset(p, 1), TextNode("MetatypeRepresentation", MetatypeRepresentations[c]))
     ELSE Trap(p)

\* How a callee, a parameter and a result are passed; "" is no way to pass it.
Conventions ==
  [a |-> <<"", "", "@autoreleased">>, d |-> <<"@callee_unowned", "@unowned", "@unowned">>,
   D |-> <<"", "", "@unowned_inner_pointer">>, g |-> <<"@callee_guaranteed", "@guaranteed", "">>,
   e |-> <<"", "@deallocating", "">>, i |-> <<"", "@in", "@out">>, l |-> <<"", "@inout", "">>,
   o |-> <<"@callee_owned", "@owned", "@owned">>]

demangleImplConvention(p, ctxt) ==
  LET c == FirstOf(p.left)
  IN IF c \notin DOMAIN Conventions THEN Fail(p)
     ELSE IF Conventions[c][ctxt] = "" THEN Fail(advanceOffset(p, 1))
     ELSE Got(advanceOffset(p, 1), TextNode("ImplConvention", Conventions[c][ctxt]))

demangleImplCalleeConvention(p) ==
  IF Starts(p, "t") THEN Got(advanceOffset(p, 1), TextNode("ImplConvention", "@convention(thin)"))
  ELSE demangleImplConvention(p, 1)

ImplFunctionAttributes ==
  [b |-> "@convention(block)", c |-> "@convention(c)", m |-> "@convention(method)",
   O |-> "@convention(objc_method)", w |-> "@convention(witness_method)"]

demangleImplAttribute(p) ==
  LET c == FirstOf(Behind(p.left, 2))
  IN IF ~Starts(p, "C") THEN p
     ELSE IF c \in DOMAIN ImplFunctionAttributes
          THEN Got(advanceOffset(p, 2), TextNode("ImplFunctionAttribute", ImplFunctionAttributes[c]))
     ELSE Fail(advanceOffset(p, 1))

demangleImplGenerics(p) ==
  IF Starts(p, "G") \/ Starts(p, "g") THEN Read(IF Starts(p, "g") THEN "PseudogenericSignature" ELSE "GenericSignature", advanceOffset(p, 1)) ELSE p

\* An error is only valid for a result.
demangleImplParameter(p) ==
  IF Starts(p, "z") THEN Fail(advanceOffset(p, 1)) ELSE As(p, "ImplParameter", <<"ParameterConvention", "Type">>)
demangleImplResult(p) ==
  IF Starts(p, "z") THEN As(advanceOffset(p, 1), "ImplErrorResult", <<"ResultConvention", "Type">>)
  ELSE As(p, "ImplResult", <<"ResultConvention", "Type">>)

ImplFunctionRules ==
  <<"CalleeConvention", "ImplAttribute", "ImplGenerics", "_", "ImplParameters", "ImplResults">>

Types ==
  << <<"B", "", <<"BuiltinType">>>>, <<"a", "", <<"TypeAlias">>>>, <<"b", "ObjCBlock", FunctionTypeRules>>,
     <<"c", "CFunctionPointer", FunctionTypeRules>>, <<"D", "DynamicSelf", <<"Type">>>>,
     <<"E", "ErrorType", <<"R", "R">>>>, <<"F", "FunctionType", FunctionTypeRules>>,
     <<"f", "UncurriedFunctionType", FunctionTypeRules>>, <<"G", "", <<"BoundGenericType">>>>,
     <<"Xb", "SILBoxType", <<"Type">>>>, <<"K", "AutoClosureType", FunctionTypeRules>>,
     <<"M", "Metatype", <<"Type">>>>, <<"XM", "Metatype", <<"MetatypeRepresentation", "Type">>>>,
     <<"PM", "ExistentialMetatype", <<"Type">>>>, <<"P", "ProtocolList", <<"TypeList">>>>,
     <<"XPM", "ExistentialMetatype", <<"MetatypeRepresentation", "Type">>>>,
     <<"XP", "ProtocolList", <<"TypeList">>>>, <<"Q", "", <<"ArchetypeType">>>>,
     <<"q", "", <<"DependentType">>>>, <<"x", "", <<"FirstGenericParam">>>>,
     <<"w", "", <<"AssociatedTypeSimple">>>>, <<"W", "", <<"AssociatedTypeCompound">>>>,
     <<"R", "InOut", <<"TypeImpl">>>>, <<"S", "", <<"Substitution">>>>,
     <<"T", "NonVariadicTuple", <<"TupleElements">>>>, <<"t", "VariadicTuple", <<"TupleElements">>>>,
     <<"u", "DependentGenericType", <<"GenericSignature", "Type">>>>,
     <<"Xf", "ThinFunctionType", FunctionTypeRules>>, <<"Xo", "Unowned", <<"Type">>>>,
     <<"Xu", "Unmanaged", <<"Type">>>>, <<"Xw", "Weak", <<"Type">>>>,
     <<"XF", "ImplFunctionType", ImplFunctionRules>>, <<"X", "", <<"Nothing">>>>,
     <<"C", "", <<"Class">>>>, <<"V", "", <<"Structure">>>>, <<"O", "", <<"Enum">>>> >>

\* A character that begins no type is claimed all the same.
demangleTypeImpl(p) ==
  LET q == Choose(p, Types)
      known == \E i \in DOMAIN Types : Starts(p, Types[i][1])
  IN IF isEmpty(p) THEN Fail(p) ELSE IF known THEN q ELSE Fail(advanceOffset(p, 1))

demangleType(p) == As(p, "Type", <<"TypeImpl">>)

-----------------------------------------------------------------------------
(* Specializations *)

\* Everything before the next underscore, and the underscore.
readUntil(p) ==
  LET n[i \in Nat] == IF i >= Len(p.left) \/ SubSeq(p.left, i + 1, i + 1) = "_" THEN i ELSE n[i + 1]
  IN nextIf([advanceOffset(p, n[0]) EXCEPT !.found = Append(@, TextNode("Payload", SubSeq(p.left, 1, n[0])))], "_")

ParamKind(p, kind) == Got(p, TextNode("FunctionSignatureSpecializationParamKind", kind))
Payload(p, text) == Got(p, TextNode("FunctionSignatureSpecializationParamPayload", text))

\* The kind of a constant and, from what is read behind it, its payload.
Constant(p, kind, q) ==
  IF Ok(q) THEN Payload(ParamKind([q EXCEPT !.found = p.found], kind), LastGot(q).text) ELSE q
Terminated(q) == IF Ok(q) THEN nextIf(q, "_") ELSE q

Encodings == [u8 |-> "0", u16 |-> "1"]

demangleConstantPropString(p) ==
  LET e == nextIf(p, "e")
      encoding == {u \in DOMAIN Encodings : Starts(e, Encodings[u])}
      v == nextIf(advanceOffset(e, 1), "v")
      q == Terminated(Read("Identifier", v))
      kind == ParamKind([q EXCEPT !.found = p.found], "ConstantPropString")
  IN IF ~Ok(e) \/ isEmpty(e) THEN IF Ok(e) THEN Trap(e) ELSE e
     ELSE IF encoding = {} THEN Fail(e)
     ELSE IF ~Ok(v) THEN v
     ELSE IF ~Ok(q) THEN q
     ELSE Payload(Payload(kind, CHOOSE u \in encoding : TRUE), LastGot(q).text)

\* Anything but a function, a global, a number or a string is unreachable.
demangleFuncSigSpecializationConstantProp(p) ==
  LET Rest(n) == advanceOffset(p, n)
  IN IF Starts(p, "fr") THEN Constant(p, "ConstantPropFunction", Terminated(Read("Identifier", Rest(2))))
     ELSE IF Starts(p, "g") THEN Constant(p, "ConstantPropGlobal", Terminated(Read("Identifier", Rest(1))))
     ELSE IF Starts(p, "i") THEN Constant(p, "ConstantPropInteger", readUntil(Rest(1)))
     ELSE IF Starts(p, "fl") THEN Constant(p, "ConstantPropFloat", readUntil(Rest(2)))
     ELSE IF Starts(p, "s") THEN Read("ConstantPropString", Rest(1))
     ELSE Trap(p)

\* Types until one cannot be read, and then the underscore where that one stopped.
RECURSIVE ClosureTypes(_)
ClosureTypes(p) ==
  LET q == demangleType(p)
  IN IF isEmpty(p) \/ Starts(p, "_") THEN nextIf(Peeked(p), "_")
     ELSE IF Ok(q) THEN ClosureTypes(q)
     ELSE IF q.status = "fail" THEN nextIf([q EXCEPT !.status = "ok"], "_")
     ELSE q

demangleFuncSigSpecializationClosureProp(p) ==
  LET name == Constant(p, "ClosureProp", Read("Identifier", p)) IN IF Ok(name) THEN ClosureTypes(name) ELSE name

\* What may happen to a parameter that is neither constant nor a closure, in this order.
OptionSets ==
  << <<"n_", "">>, <<"i_", "BoxToValue">>, <<"k_", "BoxToStack">>, <<"d_", "Dead">>, <<"dg_", "Dead+Guaranteed">>,
     <<"dgs_", "Dead+Guaranteed+SROA">>, <<"ds_", "Dead+SROA">>, <<"g_", "Guaranteed">>,
     <<"gs_", "Guaranteed+SROA">>, <<"s_", "SROA">> >>

demangleSpecializationParam(p) ==
  LET options == {i \in DOMAIN OptionSets : Starts(p, OptionSets[i][1])}
      option == OptionSets[CHOOSE i \in options : TRUE]
      rest == advanceOffset(p, Len(option[1]))
  IN IF Starts(p, "cp") THEN Read("ConstantProp", advanceOffset(p, 2))
     ELSE IF Starts(p, "cl") THEN Read("ClosureProp", advanceOffset(p, 2))
     ELSE IF options = {} THEN Fail(p)
     ELSE IF option[2] = "" THEN rest ELSE ParamKind(rest, option[2])

RECURSIVE demangleFunctionSignatureSpecialization(_, _)
demangleFunctionSignatureSpecialization(p, paramCount) ==
  LET param == Close(p, demangleSpecializationParam([p EXCEPT !.found = <<>>]),
                     LAMBDA c : [Node("FunctionSignatureSpecializationParam", c) EXCEPT !.index = paramCount])
  IN IF Starts(p, "_") THEN advanceOffset(p, 1)
     ELSE IF Ok(param) THEN demangleFunctionSignatureSpecialization(param, paramCount + 1) ELSE param

demangleGenericSpecialization(p) == Until(p, "_", "GenericSpecializationParam")
demangleFragile(p) == IF Starts(p, "q") THEN Got(advanceOffset(p, 1), Node("SpecializationIsFragile", <<>>)) ELSE p
demanglePassID(p) ==
  IF isEmpty(p) THEN Trap(p) ELSE Got(advanceOffset(p, 1), TextNode("SpecializationPassID", FirstOf(p.left)))

SpecializedAttributes ==
  << <<"g", "GenericSpecialization", <<"Fragile", "PassID", "GenericSpecializationParams">>>>,
     <<"r", "GenericSpecializationNotReAbstracted", <<"Fragile", "PassID", "GenericSpecializationParams">>>>,
     <<"f", "FunctionSignatureSpecialization", <<"Fragile", "PassID", "SpecializationParams">>>> >>

-----------------------------------------------------------------------------
(* Globals *)

ValueWitnesses ==
  [al |-> "allocateBuffer", ca |-> "assignWithCopy", ta |-> "assignWithTake", de |-> "deallocateBuffer",
   xx |-> "destroy", XX |-> "destroyBuffer", CP |-> "initializeBufferWithCopyOfBuffer",
   Cp |-> "initializeBufferWithCopy", cp |-> "initializeWithCopy", Cc |-> "initializeArrayWithCopy",
   TK |-> "initializeBufferWithTakeOfBuffer", Tk |-> "initializeBufferWithTake", tk |-> "initializeWithTake",
   Tt |-> "initializeArrayWithTakeFrontToBack", tT |-> "initializeArrayWithTakeBackToFront",
   pr |-> "projectBuffer", Xx |-> "destroyArray", xs |-> "storeExtraInhabitant",
   xg |-> "getExtraInhabitantIndex", ug |-> "getEnumTag", up |-> "destructiveProjectEnumData"]

demangleValueWitness(p) ==
  LET kind == SubSeq(p.left, 1, IF Len(p.left) < 2 THEN Len(p.left) ELSE 2)
      witness == As(advanceOffset(p, 2), "ValueWitness", <<"Type">>)
  IN IF kind \notin DOMAIN ValueWitnesses THEN Fail(advanceOffset(p, Len(kind)))
     ELSE IF Ok(witness) THEN [witness EXCEPT !.found[Len(witness.found)].text = ValueWitnesses[kind]] ELSE witness

Directnesses == << <<"d", "Directness", <<>>>>, <<"i", "Directness", <<>>>> >>
ForwardedGlobal == << <<"__T", "", <<"Global">>>>, <<"", "", <<>>>> >>
ReabstractSignatures == << <<"G", "", <<"GenericSignature", "Type", "Type">>>>, <<"", "", <<"Type", "Type">>>> >>

Globals ==
  << <<"MP", "GenericTypeMetadataPattern", <<"Type">>>>, <<"Ma", "TypeMetadataAccessFunction", <<"Type">>>>,
     <<"ML", "TypeMetadataLazyCache", <<"Type">>>>, <<"Mm", "Metaclass", <<"Type">>>>,
     <<"Mn", "NominalTypeDescriptor", <<"Type">>>>, <<"Mf", "FullTypeMetadata", <<"Type">>>>,
     <<"Mp", "ProtocolDescriptor", <<"ProtocolName">>>>, <<"M", "TypeMetadata", <<"Type">>>>,
     <<"PAo", "PartialApplyObjCForwarder", <<"ForwardedGlobal">>>>,
     <<"PA", "PartialApplyForwarder", <<"ForwardedGlobal">>>>, <<"P", "", <<"Nothing">>>>,
     <<"t", "TypeMangling", <<"Type">>>>, <<"w", "", <<"ValueWitness">>>>,
     <<"WV", "ValueWitnessTable", <<"Type">>>>, <<"Wo", "WitnessTableOffset", <<"Entity">>>>,
     <<"Wv", "FieldOffset", <<"Directness", "Entity">>>>, <<"WP", "ProtocolWitnessTable", <<"ProtocolConformance">>>>,
     <<"WG", "GenericProtocolWitnessTable", <<"ProtocolConformance">>>>,
     <<"WI", "GenericProtocolWitnessTableInstantiationFunction", <<"ProtocolConformance">>>>,
     <<"Wl", "LazyProtocolWitnessTableAccessor", <<"Type", "ProtocolConformance">>>>,
     <<"WL", "LazyProtocolWitnessTableCacheVariable", <<"Type", "ProtocolConformance">>>>,
     <<"Wa", "ProtocolWitnessTableAccessor", <<"ProtocolConformance">>>>,
     <<"Wt", "AssociatedTypeMetadataAccessor", <<"ProtocolConformance", "DeclName">>>>,
     <<"WT", "AssociatedTypeWitnessTableAccessor", <<"ProtocolConformance", "DeclName", "ProtocolName">>>>,
     <<"W", "", <<"Nothing">>>>, <<"TR", "ReabstractionThunkHelper", <<"ReabstractSignature">>>>,
     <<"Tr", "ReabstractionThunk", <<"ReabstractSignature">>>>,
     <<"TW", "ProtocolWitness", <<"ProtocolConformance", "Entity">>>>, <<"T", "", <<"Nothing">>>>,
     <<"", "", <<"Entity">>>> >>

demangleProtocolList(p) == Close(p, Until([p EXCEPT !.found = <<>>], "_", "ProtocolName"), LAMBDA c : Node("TypeList", c))
demangleProtocolConformance(p) == As(p, "ProtocolConformance", <<"Type", "ProtocolName", "Context">>)

demangleGlobal(p) == IF isEmpty(p) THEN Fail(p) ELSE Choose(p, Globals)

Attributes ==
  << <<"To", "ObjCAttribute", <<>>>>, <<"TO", "NonObjCAttribute", <<>>>>, <<"TD", "DynamicAttribute", <<>>>>,
     <<"Td", "DirectMethodReferenceAttribute", <<>>>>, <<"TV", "VTableAttribute", <<>>>>, <<"", "", <<>>>> >>

\* Specializations share no substitutions with one another or with what they specialize.
RECURSIVE Specializations(_)
Specializations(p) ==
  LET q == Choose(p, SpecializedAttributes)
      next == [q EXCEPT !.subs = <<>>]
  IN IF ~Ok(q) THEN q
     ELSE IF Starts(next, "_TTS") THEN Specializations(advanceOffset(next, 4))
     ELSE nextIf(next, "_T")

Attributed(p) == IF Starts(p, "TS") THEN Specializations(advanceOffset(p, 2)) ELSE Choose(p, Attributes)
Suffixed(p) == IF Ok(p) /\ ~isEmpty(p) THEN Got(p, TextNode("Suffix", p.left)) ELSE p

demangleTopLevel(p) ==
  LET q == InOrder(nextIf(p, "_T"), <<"Attributed", "Global">>)
  IN IF ~Starts(p, "_T") THEN Fail(p)
     ELSE Close(p, Suffixed(q), LAMBDA c : Node("Global", c))

\* The parts of the tables above; what is not the name of a rule stands for itself.
Read(rule, p) ==
  CASE rule = "Nothing" -> Fail(p)
    [] rule = "Type" -> demangleType(p)
    [] rule = "TypeImpl" -> demangleTypeImpl(p)
    [] rule = "Argument" -> LET q == demangleType(p) IN IF Ok(q) /\ isEmpty(q) THEN Fail(q) ELSE q
    [] rule = "Identifier" -> demangleIdentifier(p, "")
    [] rule = "ModuleName" -> demangleIdentifier(p, "Module")
    [] rule \in {"TupleElementName", "DependentAssociatedTypeRef"} -> demangleIdentifier(p, rule)
    [] rule = "Natural" -> demangleNatural(p)
    [] rule = "Index" -> demangleIndex(p)
    [] rule = "Number" -> demangleIndexAsNode(p)
    [] rule = "Substitution" -> demangleSubstitutionIndex(p)
    [] rule = "Module" -> demangleModule(p)
    [] rule = "Context" -> demangleContext(p)
    [] rule = "DeclContext" -> As(p, rule, <<"Context">>)
    [] rule = "ConstrainedExtension" -> demangleConstrainedExtension(p)
    [] rule = "DeclName" -> Choose(p, DeclNames)
    [] rule \in {"Structure", "Enum", "Class", "Protocol", "TypeAlias"} -> demangleDeclarationName(p, rule)
    [] rule = "ProtocolName" -> demangleProtocolName(p)
    [] rule = "ProtocolConformance" -> demangleProtocolConformance(p)
    [] rule = "Entity" -> demangleEntity(p)
    [] rule = "BoundGenericType" -> demangleBoundGenericType(p)
    [] rule = "BuiltinType" -> demangleBuiltinType(p)
    [] rule = "Throws" -> Choose(p, << <<"z", "ThrowsAnnotation", <<>>>>, <<"", "", <<>>>> >>)
    [] rule \in {"ArgumentTuple", "ReturnType"} -> As(p, rule, <<"Type">>)
    [] rule = "TypeList" -> demangleProtocolList(p)
    [] rule = "TupleElements" -> Until(p, "_", "TupleElement")
    [] rule = "TupleElement" -> demangleTupleElement(p)
    [] rule = "MetatypeRepresentation" -> demangleMetatypeRepresentation(p)
    [] rule = "ArchetypeType" -> demangleArchetypeType(p)
    [] rule = "DependentType" -> demangleDependentType(p)
    [] rule = "GenericParam" -> demangleGenericParamIndex(p)
    [] rule = "FirstGenericParam" -> getDependentGenericParamType(p, 0, 0)
    [] rule = "AssociatedTypeSimple" -> demangleAssociatedTypeSimple(p)
    [] rule = "AssociatedTypeCompound" -> demangleAssociatedTypeCompound(p)
    [] rule \in {"GenericSignature", "PseudogenericSignature"} ->
         demangleGenericSignature(p, rule = "PseudogenericSignature")
    [] rule = "Requirement" -> demangleGenericRequirement(p)
    [] rule = "Constraint" -> demangleConstraint(p)
    [] rule = "CalleeConvention" -> demangleImplCalleeConvention(p)
    [] rule = "ParameterConvention" -> demangleImplConvention(p, 2)
    [] rule = "ResultConvention" -> demangleImplConvention(p, 3)
    [] rule = "ImplAttribute" -> demangleImplAttribute(p)
    [] rule = "ImplGenerics" -> demangleImplGenerics(p)
    [] rule = "ImplParameters" -> Until(p, "_", "ImplParameter")
    [] rule = "ImplParameter" -> demangleImplParameter(p)
    [] rule = "ImplResults" -> Until(p, "_", "ImplResult")
    [] rule = "ImplResult" -> demangleImplResult(p)
    [] rule = "Fragile" -> demangleFragile(p)
    [] rule = "PassID" -> demanglePassID(p)
    [] rule = "GenericSpecializationParams" -> demangleGenericSpecialization(p)
    [] rule = "GenericSpecializationParam" -> As(p, rule, <<"Type", "Conformances">>)
    [] rule = "Conformances" -> Until(p, "_", "ProtocolConformance")
    [] rule = "ConstantProp" -> demangleFuncSigSpecializationConstantProp(p)
    [] rule = "ConstantPropString" -> demangleConstantPropString(p)
    [] rule = "ClosureProp" -> demangleFuncSigSpecializationClosureProp(p)
    [] rule = "SpecializationParams" -> demangleFunctionSignatureSpecialization(p, 0)
    [] rule = "ValueWitness" -> demangleValueWitness(p)
    [] rule = "Directness" -> Choose(p, Directnesses)
    [] rule = "ForwardedGlobal" -> Choose(p, ForwardedGlobal)
    [] rule = "TopLevel" -> demangleTopLevel(p)
    [] rule = "Attributed" -> Attributed(p)
    [] rule = "Global" -> demangleGlobal(p)
    [] rule = "ReabstractSignature" -> Choose(p, ReabstractSignatures)
    [] OTHER -> nextIf(p, rule)

demangleSymbolAsNode(mangled) == Read("TopLevel", Parser(mangled))
=============================================================================
