--------------------------- MODULE SwiftNodePrinter --------------------------
(***************************************************************************)
(* What is shown of a demangled name (the NodePrinter of                    *)
(* swift/Basic/Demangle.cpp) under the options that the crash reporter asks *)
(* for: sugar, no modules, no extensions, no specializations, no types of   *)
(* variables.  A printed name is the sequence of its words: the texts of    *)
(* the tree, and the kind of a node for the wording it adds.  A node that   *)
(* lacks a child, or that nobody knows how to print, is a crash.            *)
(***************************************************************************)
EXTENDS SwiftDemangler

Crash == "crash"

Child(pointer, i) == IF i \in DOMAIN pointer.children THEN pointer.children[i] ELSE NoNode

\* The kinds of entities, with whether a name and whether a type is printed.
Named == {"Class", "Structure", "Enum", "Protocol", "TypeAlias"}
Accessors ==
  {"OwningAddressor", "OwningMutableAddressor", "NativeOwningAddressor", "NativeOwningMutableAddressor",
   "NativePinningAddressor", "NativePinningMutableAddressor", "UnsafeAddressor", "UnsafeMutableAddressor",
   "GlobalGetter", "Getter", "Setter", "MaterializeForSet", "WillSet", "DidSet"}
NamedAndTyped == {"Variable", "Function", "Subscript"} \cup Accessors
Typed == {"Allocator", "Constructor"}
Numbered == {"ExplicitClosure", "ImplicitClosure", "DefaultArgumentInitializer"}
Bare == {"Initializer", "Destructor", "Deallocator", "IVarInitializer", "IVarDestroyer"} \cup Numbered
hasName(kind) == kind \in Named \cup NamedAndTyped
hasType(kind) == kind \in Typed \cup NamedAndTyped
Entities == Named \cup NamedAndTyped \cup Typed \cup Bare

\* The types of functions are printed, those of everything else behind a colon, and not
\* under these options.
RECURSIVE Ungeneric(_)
Ungeneric(type) == IF type.kind = "DependentGenericType" THEN Ungeneric(Child(Child(type, 2), 1)) ELSE type
FunctionTypes == {"FunctionType", "UncurriedFunctionType", "CFunctionPointer", "ThinFunctionType"}
useColonForEntityType(kind, type) ==
  \/ kind \in Named \cup Accessors \cup {"Variable", "Initializer", "DefaultArgumentInitializer", "IVarInitializer"}
  \/ Ungeneric(Child(type, 1)).kind \notin FunctionTypes

SimpleTypes ==
  {"Archetype", "ArchetypeRef", "AssociatedType", "AssociatedTypeRef", "BoundGenericClass", "BoundGenericEnum",
   "BoundGenericStructure", "BuiltinTypeName", "Class", "DependentGenericType", "DependentMemberType",
   "DependentGenericParamType", "DynamicSelf", "Enum", "ErrorType", "ExistentialMetatype", "Metatype",
   "MetatypeRepresentation", "Module", "NonVariadicTuple", "Protocol", "QualifiedArchetype", "ReturnType",
   "SelfTypeRef", "SILBoxType", "Structure", "TupleElementName", "Type", "TypeAlias", "TypeList", "VariadicTuple"}
isSimpleType(type) == type.kind \in SimpleTypes

isSwiftModule(node) == node = StdlibModule
isIdentifier(node, desired) == node.kind = "Identifier" /\ node.text = desired

\* What a bound generic type is written as: a standard type with that many arguments.
Sugars == << <<"BoundGenericEnum", "Optional", 1>>, <<"BoundGenericEnum", "ImplicitlyUnwrappedOptional", 1>>,
             <<"BoundGenericStructure", "Array", 1>>, <<"BoundGenericStructure", "Dictionary", 2>> >>
findSugar(pointer) ==
  LET unboundType == Child(Child(pointer, 1), 1)
      typeArgs == Child(pointer, 2)
  IN {i \in DOMAIN Sugars : /\ pointer.kind = Sugars[i][1]
                            /\ isIdentifier(Child(unboundType, 2), Sugars[i][2])
                            /\ Len(typeArgs.children) = Sugars[i][3]
                            /\ isSwiftModule(Child(unboundType, 1))}

\* The children that are printed, in this order, for the kinds that print the same ones always.
ShownOfTypes ==
  [k \in {"DeclContext", "Type", "TypeMangling", "Weak", "Unowned", "Unmanaged", "InOut"} |-> <<1>>] @@
  [k \in {"LocalDeclName", "PrivateDeclName"} |-> <<2>>]
ShownOfRuntime ==
  [k \in {"ProtocolWitnessTableAccessor", "ProtocolWitnessTable", "GenericProtocolWitnessTable",
          "GenericProtocolWitnessTableInstantiationFunction", "GenericTypeMetadataPattern", "Metaclass",
          "ProtocolDescriptor", "FullTypeMetadata", "TypeMetadata", "TypeMetadataAccessFunction",
          "TypeMetadataLazyCache", "NominalTypeDescriptor", "ValueWitness", "ValueWitnessTable",
          "WitnessTableOffset"} |-> <<1>>] @@
  [k \in {"LazyProtocolWitnessTableAccessor", "LazyProtocolWitnessTableCacheVariable"} |-> <<1, 2>>] @@
  [k \in {"ProtocolWitness", "AssociatedTypeMetadataAccessor"} |-> <<2, 1>>] @@
  [k \in {"AssociatedTypeWitnessTableAccessor"} |-> <<2, 3, 1>>]
ShownOfGenerics ==
  [k \in {"SILBoxType", "SelfTypeRef"} |-> <<1>>] @@
  [k \in {"DependentGenericConformanceRequirement", "DependentGenericSameTypeRequirement", "DependentGenericType",
          "DependentMemberType"} |-> <<1, 2>>]
Shown == ShownOfTypes @@ ShownOfRuntime @@ ShownOfGenerics

PrintsAll ==
  {"Global", "NonVariadicTuple", "VariadicTuple", "TupleElement", "ReturnType", "TypeList", "ImplParameter",
   "ImplResult", "ImplErrorResult", "PartialApplyForwarder", "PartialApplyObjCForwarder", "ExistentialMetatype"}
PrintsText ==
  {"Identifier", "TupleElementName", "BuiltinTypeName", "InfixOperator", "PrefixOperator", "PostfixOperator",
   "MetatypeRepresentation", "ArchetypeRef", "ImplConvention", "ImplFunctionAttribute", "DependentGenericParamType",
   "DependentAssociatedTypeRef"}
PrintsNothing == {"Module", "Suffix"}
PrintsWordsOnly ==
  {"NonObjCAttribute", "ObjCAttribute", "DirectMethodReferenceAttribute", "DynamicAttribute", "VTableAttribute",
   "FunctionSignatureSpecialization", "GenericSpecialization", "GenericSpecializationNotReAbstracted",
   "ReabstractionThunk", "ReabstractionThunkHelper", "DynamicSelf", "QualifiedArchetype", "ErrorType", "Directness",
   "ThrowsAnnotation"}
PrintsFunction ==
  {"AutoClosureType", "ThinFunctionType", "FunctionType", "UncurriedFunctionType", "CFunctionPointer", "ObjCBlock"}
Silent == {"DeclContext", "Type", "TypeMangling", "Global", "TupleElement", "TypeList", "Static", "FieldOffset"}

RECURSIVE print(_, _)

printChildren(children) ==
  LET words[i \in Nat] == IF i = 0 THEN <<>> ELSE words[i - 1] \o print(children[i], FALSE)
  IN words[Len(children)]

printBoundGenericNoSugar(pointer) ==
  print(Child(pointer, 1), FALSE) \o <<"generic">> \o printChildren(Child(pointer, 2).children)

printBoundGeneric(pointer) ==
  LET sugar == findSugar(pointer)
      args == Child(pointer, 2).children
      parens == \E i \in sugar : Sugars[i][1] = "BoundGenericEnum" /\ ~isSimpleType(args[1])
  IN IF sugar = {} THEN printBoundGenericNoSugar(pointer)
     ELSE (IF parens THEN <<"parentheses">> ELSE <<>>) \o <<Sugars[CHOOSE i \in sugar : TRUE][2]>> \o printChildren(args)

\* Anything that throws says so first; the arguments and the result are the last two.
printFunctionType(pointer) ==
  LET n == Len(pointer.children)
  IN IF n \notin {2, 3} \/ (n = 3 /\ pointer.children[1].kind # "ThrowsAnnotation") THEN <<Crash>>
     ELSE print(pointer.children[n - 1], FALSE) \o (IF n = 3 THEN <<"throws">> ELSE <<>>)
          \o print(pointer.children[n], FALSE)

\* Attributes, then parameters, then results.
printImplFunctionType(pointer) ==
  LET Stage(node) == CASE node.kind = "ImplParameter" -> 2
                       [] node.kind \in {"ImplResult", "ImplErrorResult"} -> 3
                       [] OTHER -> 1
      c == pointer.children
  IN IF \E i \in 2 .. Len(c) : Stage(c[i]) < Stage(c[i - 1]) THEN <<Crash>> ELSE printChildren(c)

\* The names of the parameters that the counts announce, and that there is more behind them.
printGenericSignature(pointer) ==
  LET c == pointer.children
      depths == {i \in DOMAIN c : \A j \in 1 .. i : c[j].kind = "DependentGenericParamCount"}
      words[d \in Nat] == IF d = 0 THEN <<>>
                          ELSE words[d - 1] \o [i \in 1 .. c[d].index |-> archetypeName(i - 1, d - 1)]
  IN words[IF depths = {} THEN 0 ELSE CHOOSE d \in depths : \A e \in depths : e <= d]
     \o (IF depths # DOMAIN c THEN <<"where">> ELSE <<>>)

printEntity(pointer, suppressType) ==
  LET kind == pointer.kind
      type == Child(pointer, IF hasName(kind) THEN 3 ELSE 2)
      printType == hasType(kind) /\ ~suppressType
  IN print(Child(pointer, 1), FALSE)
     \o (IF hasName(kind) THEN print(Child(pointer, 2), FALSE) ELSE <<>>)
     \o (IF kind \in (NamedAndTyped \ Accessors) \cup Named THEN <<>> ELSE <<kind>>)
     \o (IF kind \notin Numbered THEN <<>>
         ELSE IF Child(pointer, 2).kind # "Number" THEN <<Crash>> ELSE <<ToString(Child(pointer, 2).index)>>)
     \o (IF ~printType THEN <<>>
         ELSE IF type.kind # "Type" THEN <<Crash>>
         ELSE IF useColonForEntityType(kind, type) THEN <<>> ELSE print(type, FALSE))

printFunctionTypes(pointer) ==
  CASE pointer.kind = "ImplFunctionType" -> printImplFunctionType(pointer)
    [] pointer.kind \in PrintsFunction -> printFunctionType(pointer)
    [] OTHER -> IF Child(Child(pointer, 1), 1) = NoNode THEN <<Crash>> ELSE printChildren(pointer.children)

printGenericTypes(pointer) ==
  LET kind == pointer.kind
      One(i) == print(Child(pointer, i), FALSE)
  IN CASE kind = "Metatype" ->
            printChildren(pointer.children)
            \o (IF Child(pointer, Len(pointer.children)).kind # "Type" THEN <<Crash>> ELSE <<kind>>)
       [] kind = "AssociatedTypeRef" -> One(1) \o (IF Child(pointer, 2) = NoNode THEN <<Crash>> ELSE <<Child(pointer, 2).text>>)
       [] kind = "ProtocolList" -> <<kind>> \o One(1)
       [] kind = "ProtocolConformance" -> IF Len(pointer.children) < 3 THEN <<Crash>> ELSE One(1)
       [] kind \in {"DependentGenericSignature", "DependentPseudogenericSignature"} ->
            <<"signature">> \o printGenericSignature(pointer)
       [] kind \in {"BoundGenericClass", "BoundGenericStructure", "BoundGenericEnum"} -> printBoundGeneric(pointer)
       [] OTHER -> <<Crash>>

printFound(pointer, suppressType) ==
  LET kind == pointer.kind
      One(i) == print(Child(pointer, i), FALSE)
  IN CASE kind \in Entities -> printEntity(pointer, suppressType)
       [] kind = "Static" -> <<kind>> \o print(Child(pointer, 1), suppressType)
       [] kind = "FieldOffset" -> One(1) \o One(2)
       [] kind = "Extension" -> One(2) \o (IF Len(pointer.children) = 3 THEN One(3) ELSE <<>>)
       [] kind \in DOMAIN Shown ->
            (IF kind \in Silent THEN <<>> ELSE <<kind>>)
            \o printChildren([i \in DOMAIN Shown[kind] |-> Child(pointer, Shown[kind][i])])
       [] kind \in PrintsAll -> (IF kind \in Silent THEN <<>> ELSE <<kind>>) \o printChildren(pointer.children)
       [] kind \in PrintsText -> <<pointer.text>>
       [] kind \in {"Index", "Number"} -> <<ToString(pointer.index)>>
       [] kind \in PrintsNothing -> <<>>
       [] kind \in PrintsWordsOnly -> <<kind>>
       [] kind \in PrintsFunction \cup {"ImplFunctionType", "ArgumentTuple"} -> printFunctionTypes(pointer)
       [] OTHER -> printGenericTypes(pointer)

print(pointer, suppressType) == IF pointer = NoNode THEN <<Crash>> ELSE printFound(pointer, suppressType)

-----------------------------------------------------------------------------
\* A name that cannot be demangled, or of which nothing is shown, is given back as it is;
\* null is left for the empty name.
demangleSymbolAsString(mangled) ==
  LET p == demangleSymbolAsNode(mangled)
      words == print(p.found[1], FALSE)
  IN IF p.status = "trap" THEN <<Crash>>
     ELSE IF p.status = "fail" \/ words = <<>> THEN <<mangled>> ELSE words
ksdm_demangleSwift(mangled) ==
  LET demangled == demangleSymbolAsString(mangled) IN IF demangled = <<"">> THEN <<>> ELSE demangled
=============================================================================
