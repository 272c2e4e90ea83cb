-------------------------------- MODULE KSObjC ------------------------------
(***************************************************************************)
(* KSObjC.c: what a crash report can tell of an address that may be an      *)
(* object, from memory in which anything may be corrupt.  A heap maps the   *)
(* readable addresses to three words each, which mean what the structure    *)
(* they are taken for says: an object or class (isa, superclass, rw), a     *)
(* class_rw_t (ro), a class_ro_t (flags, name, ivars), a list of ivars      *)
(* (count; the entries follow it), an ivar (offset, name, type), a text.    *)
(* A check copies memory by way of the kernel; what is touched without one  *)
(* had better be readable.                                                  *)
(***************************************************************************)
EXTENDS Integers, Sequences, FiniteSets, SequencesExt, FiniteSetsExt

CONSTANTS
  TAG_MASK,        \* addresses from here on are tagged pointers
  TextWord,        \* the first word of a text that is a valid name and type
  BlockBaseName,   \* the address of the text "NSBlock"
  kMaxDepth        \* the superclasses that are looked through

RO_META == 1
RO_ROOT == 2

NoCell == <<0, 0, 0>>
At(heap, address) == IF address \in DOMAIN heap THEN heap[address] ELSE NoCell

\* What a look at memory comes to: whether to go on, and what has been touched.
Check(heap, address) == [ok |-> address \in DOMAIN heap, touched |-> {}]
Touch(address, what) == [ok |-> TRUE, touched |-> {[address |-> address, what |-> what]}]
Require(condition) == [ok |-> condition, touched |-> {}]
Then(first, second) ==
  IF first.ok THEN [ok |-> second.ok, touched |-> first.touched \cup second.touched] ELSE first
All(looks) == FoldLeft(LAMBDA sum, look : Then(sum, look), Require(TRUE), looks)

getIsaPointer(heap, o) == At(heap, o)[1]
getSuperClass(heap, c) == At(heap, c)[2]
getClassRW(heap, c) == At(heap, c)[3]
getClassRO(heap, c) == At(heap, getClassRW(heap, c))[1]
isMetaClass(heap, c) == At(heap, getClassRO(heap, c))[1] % 2 = RO_META
isRootClass(heap, c) == (At(heap, getClassRO(heap, c))[1] \div 2) % 2 = 1
getClassName(heap, c) == At(heap, getClassRO(heap, c))[2]
ivarsOf(heap, c) == At(heap, getClassRO(heap, c))[3]

isValidName(heap, name) ==
  All(<<Check(heap, name), Touch(name, "name"), Require(At(heap, name)[1] = TextWord)>>)
isValidIvarType(heap, type) ==
  All(<<Check(heap, type), Touch(type, "type"), Require(At(heap, type)[1] = TextWord)>>)

\* Mutant: the class is read for its data, and not checked before.
containsValidROData_Trusting(heap, c) ==
  All(<<Touch(c, "class"), Check(heap, getClassRW(heap, c)),
        Touch(getClassRW(heap, c), "rw"), Check(heap, getClassRO(heap, c))>>)

containsValidROData(heap, c) ==
  All(<<Check(heap, c), Touch(c, "class"), Check(heap, getClassRW(heap, c)),
        Touch(getClassRW(heap, c), "rw"), Check(heap, getClassRO(heap, c))>>)

\* The entries after the first are looked at one by one; the first is not.
containsValidIvarData(heap, c) ==
  LET list == ivarsOf(heap, c)
      Entry(i) == At(heap, list + 1 + i)
      Valid(i) == All(<<Check(heap, list + 1 + i), Check(heap, Entry(i)[1]),
                        isValidName(heap, Entry(i)[2]), isValidIvarType(heap, Entry(i)[3])>>)
      count == At(heap, list)[1]
  IN IF list = 0 THEN Require(TRUE)
     ELSE Then(All(<<Check(heap, list), Check(heap, list + 1), Touch(list, "ivars")>>),
               All([i \in 1 .. count - 1 |-> Valid(i)]))

isValidClass(heap, c) ==
  All(<<Check(heap, c), containsValidROData(heap, c),
        isValidName(heap, getClassName(heap, c)), containsValidIvarData(heap, c)>>)

isTaggedPointer(address) == address >= TAG_MASK
getTaggedSlot(address) == (address - TAG_MASK) % 8
\* NSString, NSNumber and NSDate are the slots whose classes are known.
isValidTaggedPointer(address) == isTaggedPointer(address) /\ getTaggedSlot(address) \in {2, 3, 6}

isValidObject(heap, o) ==
  IF isTaggedPointer(o) THEN Require(isValidTaggedPointer(o))
  ELSE All(<<Check(heap, o), Touch(o, "object"), Check(heap, getIsaPointer(heap, o)),
             isValidClass(heap, getIsaPointer(heap, o))>>)

RECURSIVE BaseClass(_, _, _, _)
\* The class below the root, or none when the superclasses do not lead to one.
BaseClass(heap, super, sub, depth) ==
  IF depth = kMaxDepth THEN [class |-> 0, touched |-> {}]
  ELSE IF isRootClass(heap, super) THEN [class |-> sub, touched |-> {}]
  ELSE LET next == containsValidROData(heap, getSuperClass(heap, super))
           rest == BaseClass(heap, getSuperClass(heap, super), super, depth + 1)
       IN IF next.ok THEN [rest EXCEPT !.touched = @ \cup next.touched]
          ELSE [class |-> 0, touched |-> next.touched]

ksobjc_baseClass(heap, c) == BaseClass(heap, c, c, 0)

\* The name of the base class is compared as it is found.
isBlockClass(heap, c) ==
  LET base == ksobjc_baseClass(heap, c)
      name == getClassName(heap, base.class)
      found == [ok |-> base.class # 0 /\ name # 0, touched |-> base.touched]
  IN All(<<found, Touch(name, "base name"), Require(name = BlockBaseName)>>)

\* The kind of object at an address, and what was touched to find out.  An object has
\* to pass for a class as well.
ksobjc_objectType(heap, o) ==
  LET valid == Then(isValidObject(heap, o), isValidClass(heap, o))
      isa == getIsaPointer(heap, o)
      block == isBlockClass(heap, isa)
      type == IF block.ok THEN "block" ELSE IF isMetaClass(heap, isa) THEN "class" ELSE "object"
  IN IF o = 0 THEN [type |-> "unknown", touched |-> {}]
     ELSE IF isTaggedPointer(o) THEN [type |-> "object", touched |-> {}]
     ELSE IF ~valid.ok THEN [type |-> "unknown", touched |-> valid.touched]
     ELSE [type |-> type, touched |-> valid.touched \cup block.touched]

RECURSIVE KindOf(_, _, _, _)
KindOf(heap, c, name, depth) ==
  IF depth = kMaxDepth \/ getClassName(heap, c) = 0 THEN FALSE
  ELSE getClassName(heap, c) = name
       \/ ( /\ containsValidROData(heap, getSuperClass(heap, c)).ok
            /\ KindOf(heap, getSuperClass(heap, c), name, depth + 1))
ksobjc_isKindOfClass(heap, c, name) == name # 0 /\ KindOf(heap, c, name, 0)
ksobjc_isClassNamed(heap, c, name) == getClassName(heap, c) # 0 /\ getClassName(heap, c) = name

\* As many ivars as there is room for, and none of a class without a list.
ksobjc_ivarCount(heap, c) == IF ivarsOf(heap, c) = 0 THEN 0 ELSE At(heap, ivarsOf(heap, c))[1]
ksobjc_ivarList(heap, c, room) ==
  LET count == ksobjc_ivarCount(heap, c)
  IN [i \in 1 .. IF room < count THEN room ELSE count |-> At(heap, ivarsOf(heap, c) + i)]

\* The other two read the count wherever the list is, nowhere included.
TouchCount(heap, c) == Touch(ivarsOf(heap, c), IF ivarsOf(heap, c) = 0 THEN "no list" ELSE "ivars")
TouchOfIvar(address, i) == Touch(address, IF i = 1 THEN "first ivar" ELSE "ivar")

\* The names are compared as they are found, up to the one that is asked for.
ksobjc_ivarNamed(heap, c, name) ==
  LET ivars == [i \in 1 .. At(heap, ivarsOf(heap, c))[1] |-> At(heap, ivarsOf(heap, c) + i)]
      named == {i \in DOMAIN ivars : ivars[i][2] # 0}
      found == {i \in named : ivars[i][2] = name}
      compared == {i \in named : \A j \in found : i <= j}
      touched == UNION {TouchOfIvar(ivars[i][2], i).touched : i \in compared}
  IN IF name = 0 THEN [index |-> 0, touched |-> {}]
     ELSE [index |-> IF found = {} THEN 0 ELSE Min(found), touched |-> TouchCount(heap, c).touched \cup touched]

\* The value is copied safely from where the offset, which is not checked, says.
ksobjc_ivarValue(heap, o, index) ==
  LET class == getIsaPointer(heap, o)
      count == At(heap, ivarsOf(heap, class))[1]
      ivar == At(heap, ivarsOf(heap, class) + 1 + index)
      value == o + At(heap, ivar[1])[1]
  IN IF isTaggedPointer(o) THEN Require(getTaggedSlot(o) \in {3, 6})
     ELSE All(<<TouchCount(heap, class), Require(index < count), TouchOfIvar(ivar[1], index + 1), Check(heap, value)>>)

\* A class is known by the name it has when it is first met, and by its address from
\* then on.
getClassData(known, c, name) ==
  IF name \notin DOMAIN known THEN [data |-> "unknown", known |-> known]
  ELSE IF known[name] = c THEN [data |-> name, known |-> known]
  ELSE IF known[name] = 0 THEN [data |-> name, known |-> [known EXCEPT ![name] = c]]
  ELSE [data |-> "unknown", known |-> known]

\* Broken, as the code says, but every pointer on the way is copied safely: the table,
\* the places of the first key and value, and what they point to.
ksobjc_dictionaryFirstEntry(heap, dict, keysOffset) ==
  LET values == At(heap, dict)[1]
      keys == values + keysOffset
      key == At(heap, keys)[1]
      value == At(heap, values)[1]
      look == All(<<Check(heap, dict), Touch(dict, "dictionary"), Check(heap, keys), Check(heap, values),
                    Check(heap, key), Check(heap, value)>>)
  IN [ok |-> look.ok, key |-> At(heap, key)[1], value |-> At(heap, value)[1], touched |-> look.touched]
=============================================================================
