---------------------------- MODULE KSCrashReport --------------------------
(***************************************************************************)
(* KSCrashReport.c: how a report is put together.  The application changes  *)
(* the user info and the list of classes that must not be opened while it   *)
(* runs; a crash suspends it, and the cache of names, at any moment; the    *)
(* report is then written section by section, until it is complete or the   *)
(* writing itself faults and a smaller report about that is written.  Of    *)
(* the memory, a report opens the objects that a register or the stack      *)
(* points at, those an exception's reason names, and those they point at.   *)
(***************************************************************************)
EXTENDS KSCrashCachedData

CONSTANTS
  Memories,        \* the object graphs: functions from addresses to cells
  NULL,            \* the null pointer
  Roots,           \* the addresses in the registers and on the stack
  References,      \* the addresses the text of an exception's reason may name
  SearchDepth,     \* kDefaultMemorySearchDepth
  MaxIvars,        \* the ivars of an object that are looked at
  MaxThreadCount,  \* the threads a KSMachineContext has room for
  UserInfos,       \* what the application sets: an object, a scalar, or one cut off at a depth
  ClassLists       \* the lists of classes that must not be opened

ASSUME ReportAssumption ==
  /\ MaxThreadCount \in Nat /\ MaxIvars \in Nat /\ SearchDepth \in Nat \ {0}
  /\ \A json \in UserInfos : json.open \in Nat
  /\ \A list \in ClassLists : list \in Seq(Range(list))

\* Whatever is referred to is a cell or the null pointer.
ASSUME MemoryAssumption ==
  \A m \in Memories :
    /\ \A i \in DOMAIN Roots : Roots[i] \in DOMAIN m \cup {NULL}
    /\ References \subseteq DOMAIN m \cup {NULL}
    /\ \A address \in DOMAIN m : m[address].refs \in Seq(DOMAIN m \cup {NULL})

VARIABLES
  memory,      \* the objects of the process
  userInfo,    \* g_userInfoJSON, and where kscrashreport_setUserInfoJSON is
  rules,       \* g_introspectionRules, and where the function that sets them is
  context,     \* KSCrash_MonitorContext: the offending thread, the list of threads, and
               \* what the reasons of the exception and of the last one freed name
  report,      \* the report being written: section, containers open, thread index
  written,     \* the sections in the file, with the level each is at
  opened       \* the memory objects in the report

reportVars == <<memory, userInfo, rules, context, report, written, opened>>
vars == <<cacheVars, reportVars>>

NoInfo == [kind |-> "none", open |-> 1]
Freed == [kind |-> "freed", open |-> 0]
NoReport == [pc |-> "none", level |-> 0, index |-> 0, minimal |-> FALSE]
NoContext == [thread |-> NoName, list |-> <<>>, snapshot |-> FALSE, reason |-> {}, zombie |-> {}]

Init ==
  /\ CacheInit
  /\ memory \in Memories
  /\ userInfo = [json |-> NoInfo, pc |-> "idle", next |-> NoInfo]
  /\ rules = [enabled |-> FALSE, list |-> <<>>, behind |-> {}, count |-> 0, pc |-> "idle", next |-> <<>>]
  /\ context = NoContext /\ report = NoReport /\ written = <<>> /\ opened = {}

Running == ~suspended /\ context = NoContext

-----------------------------------------------------------------------------
(* What the application sets while it runs.                                 *)

\* The old string is freed before the pointer is replaced; only callers exclude
\* each other, a report does not take the lock.
kscrashreport_setUserInfoJSON(json) ==
  /\ Running /\ userInfo.pc = "idle" /\ json # userInfo.json
  /\ userInfo' = [json |-> IF userInfo.json = NoInfo THEN NoInfo ELSE Freed,
                  pc |-> "set", next |-> json]
  /\ UNCHANGED <<cacheVars, memory, rules, context, report, written, opened>>

ReplaceUserInfo ==
  /\ Running /\ userInfo.pc = "set"
  /\ userInfo' = [json |-> userInfo.next, pc |-> "idle", next |-> NoInfo]
  /\ UNCHANGED <<cacheVars, memory, rules, context, report, written, opened>>

kscrashreport_setIntrospectMemory ==
  /\ Running /\ ~rules.enabled
  /\ rules' = [rules EXCEPT !.enabled = TRUE]
  /\ UNCHANGED <<cacheVars, memory, userInfo, context, report, written, opened>>

\* The list is replaced before its length is: behind are the names that the memory
\* behind a shorter list passes for, as long as the length is that of the old one.
ClassNames == UNION {{m[address].class : address \in DOMAIN m} : m \in Memories}

kscrashreport_setDoNotIntrospectClasses(list, behind) ==
  /\ Running /\ rules.pc = "idle" /\ list # rules.list
  /\ behind # {} => list # <<>> /\ Len(list) < rules.count
  /\ rules' = [rules EXCEPT !.list = list, !.behind = behind, !.pc = "count", !.next = list]
  /\ UNCHANGED <<cacheVars, memory, userInfo, context, report, written, opened>>

ReplaceClassCount ==
  /\ Running /\ rules.pc = "count"
  /\ rules' = [rules EXCEPT !.count = Len(rules.next), !.behind = {}, !.pc = "idle"]
  /\ UNCHANGED <<cacheVars, memory, userInfo, context, report, written, opened>>

-----------------------------------------------------------------------------
(* Objects in memory.  A cell has a type (class, object, block, unknown), a *)
(* class and what kind of class that is, the objects it refers to, and      *)
(* whether its bytes could be a string.                                     *)

Truncate(s, n) == IF Len(s) <= n THEN s ELSE SubSeq(s, 1, n)

\* A list there is, is read as far as the count says, beyond its end too.
isRestrictedClass(class) ==
  rules.list # <<>> /\ \E i \in 1 .. rules.count :
    IF i \in DOMAIN rules.list THEN rules.list[i] = class ELSE class \in rules.behind

\* The state of the writing: the limit that is left, the containers open, the deepest
\* there were, and the objects written with what was said of their contents.
Addresses == DOMAIN memory \cup {NULL}
Told == {"name", "value", "first", "ivars", "null", "text", "nothing"}
Search == [limit : {n \in Int : n <= SearchDepth}, level : Int, deepest : Int,
           log : Seq([address : Addresses, opened : Told])]

Opens(s, address, what) == [s EXCEPT !.log = Append(@, [address |-> address, opened |-> what])]
Enter(s) == [s EXCEPT !.level = @ + 1, !.deepest = IF s.level + 1 > @ THEN s.level + 1 ELSE @]
Leave(s) == [s EXCEPT !.level = @ - 1]

\* write is writeMemoryContents, which calls these and is called by them.

\* The object and every one of its ivars count, and the ivars are all written.
writeUnknownObjectContents(address, s, write) ==
  LET ivars == Truncate(memory[address].refs, MaxIvars)
      begun == Enter([s EXCEPT !.limit = @ - 1 - Len(ivars)])
      after[i \in 0 .. Len(ivars)] == IF i = 0 THEN begun ELSE write[ivars[i]][after[i - 1]]
  IN Leave(after[Len(ivars)])

\* Only the first object of an array is written.
writeArrayContents(address, s, write) ==
  IF memory[address].refs = <<>> THEN s ELSE write[Head(memory[address].refs)][s]

\* Mutant: the class is not looked up in the list for an object whose contents its
\* class tells.
writeObjCObject_ValueFirst(address, s, write) ==
  LET cell == memory[address] IN
  IF address = NULL THEN [done |-> FALSE, s |-> s]
  ELSE IF cell.type \in {"class", "block"} THEN [done |-> TRUE, s |-> Opens(s, address, "name")]
  ELSE IF cell.type # "object" THEN [done |-> FALSE, s |-> s]
  ELSE CASE cell.kind = "value" -> [done |-> TRUE, s |-> Opens(s, address, "value")]
         [] isRestrictedClass(cell.class) /\ cell.kind # "value" -> [done |-> FALSE, s |-> s]
         [] cell.kind = "array" /\ ~isRestrictedClass(cell.class) ->
              [done |-> TRUE, s |-> IF s.limit > 0 THEN writeArrayContents(address, Opens(s, address, "first"), write)
                                    ELSE Opens(s, address, "name")]
         [] OTHER ->
              [done |-> TRUE, s |-> IF s.limit > 0 THEN writeUnknownObjectContents(address, Opens(s, address, "ivars"), write)
                                    ELSE Opens(s, address, "name")]

\* Whether the object's contents have been dealt with: those of a class that must
\* not be opened have not.
writeObjCObject(address, s, write) ==
  LET cell == memory[address] IN
  IF address = NULL THEN [done |-> FALSE, s |-> s]
  ELSE IF cell.type \in {"class", "block"} THEN [done |-> TRUE, s |-> Opens(s, address, "name")]
  ELSE IF cell.type # "object" \/ isRestrictedClass(cell.class) THEN [done |-> FALSE, s |-> s]
  ELSE CASE cell.kind = "value" -> [done |-> TRUE, s |-> Opens(s, address, "value")]
         [] cell.kind = "array" ->
              [done |-> TRUE, s |-> IF s.limit > 0 THEN writeArrayContents(address, Opens(s, address, "first"), write)
                                    ELSE Opens(s, address, "name")]
         [] OTHER ->
              [done |-> TRUE, s |-> IF s.limit > 0 THEN writeUnknownObjectContents(address, Opens(s, address, "ivars"), write)
                                    ELSE Opens(s, address, "name")]

writeMemoryContents[address \in Addresses] ==
  [s \in Search |->
     LET begun == Enter([s EXCEPT !.limit = @ - 1])
         object == writeObjCObject(address, begun, writeMemoryContents)
     IN Leave(IF address = NULL THEN Opens(begun, address, "null")
              ELSE IF object.done THEN object.s
              ELSE Opens(begun, address, IF memory[address].text THEN "text" ELSE "nothing"))]

isNotableAddress(address) ==
  address # NULL /\ (memory[address].type # "unknown" \/ memory[address].text)

\* Every address starts with a limit of its own.
SearchFrom(addresses, level) ==
  {writeMemoryContents[address][[limit |-> SearchDepth, level |-> level, deepest |-> level, log |-> <<>>]] :
     address \in addresses}

writeNotableAddresses(level) ==
  SearchFrom({address \in Range(Roots) : rules.enabled /\ isNotableAddress(address)}, level)

\* What a reason names is opened whether or not it is notable, and whether or not
\* memory is to be opened at all.
writeAddressReferencedByString(named, level) == SearchFrom(named, level)

-----------------------------------------------------------------------------
(* The crash and the report.                                                *)

\* What the text of a reason names, if it names anything.
Named == {{}} \cup {{address} : address \in References}

\* The kernel's list as far as there is room for it.  Only an NSException has a reason
\* that is searched; a zombie is the last exception freed.  A snapshot the application
\* asks for may write a report of a running process as well: that is not modelled.
Crash(thread, reason, zombie) ==
  /\ Running /\ thread \in Range(live)
  /\ context' = [thread |-> thread, list |-> Truncate(live, MaxThreadCount),
                 snapshot |-> FALSE, reason |-> reason, zombie |-> zombie]
  /\ suspended' = TRUE
  /\ UNCHANGED <<live, cache, update, semaphore, freed, memory, userInfo, rules, report, written, opened>>

\* kscm_reportUserException with all threads: the process goes on afterwards.
UserReport(thread, zombie) ==
  /\ Running /\ thread \in Range(live)
  /\ context' = [thread |-> thread, list |-> Truncate(live, MaxThreadCount),
                 snapshot |-> TRUE, reason |-> {}, zombie |-> zombie]
  /\ suspended' = TRUE
  /\ UNCHANGED <<live, cache, update, semaphore, freed, memory, userInfo, rules, report, written, opened>>

\* A section is written at the level the report is at, and the next one begins.
SectionThatOpens(name, next, searches) ==
  /\ report.pc = name
  /\ written' = Append(written, [section |-> name, level |-> report.level, crashed |-> FALSE,
                                 thread |-> NoName, name |-> NoName])
  /\ report' = [report EXCEPT !.pc = next]
  /\ opened' = opened \cup searches
  /\ UNCHANGED <<cacheVars, memory, userInfo, rules, context>>

Section(name, next) == SectionThatOpens(name, next, {})

\* ksccd_freeze, the writer, and the object that is the report.
kscrashreport_writeStandardReport ==
  /\ context # NoContext /\ report = NoReport
  /\ semaphore' = semaphore + 1
  /\ report' = [pc |-> "info", level |-> 1, index |-> 1, minimal |-> FALSE]
  /\ UNCHANGED <<live, cache, update, freed, suspended, memory, userInfo, rules, context, written, opened>>

\* The writing faults: what there is of the report is copied into a new one, with
\* the error and the crashed thread behind it.
kscrashreport_writeRecrashReport ==
  /\ report # NoReport /\ report.pc # "done" /\ ~report.minimal
  /\ semaphore' = semaphore + 1
  /\ report' = [pc |-> "info", level |-> 1, index |-> 1, minimal |-> TRUE]
  /\ written' = <<>> /\ opened' = {}
  /\ UNCHANGED <<live, cache, update, freed, suspended, memory, userInfo, rules, context>>

writeReportInfo == Section("info", IF report.minimal THEN "error" ELSE "images")
writeBinaryImages == Section("images", "process")
writeProcessState ==
  SectionThatOpens("process", "system", writeAddressReferencedByString(context.zombie, report.level + 2))
writeSystemInfo == Section("system", "error")
writeError ==
  SectionThatOpens("error", "threads", writeAddressReferencedByString(context.reason, report.level + 3))

ThreadEntry(thread, crashed) ==
  [section |-> "thread", level |-> report.level + 2, crashed |-> crashed, thread |-> thread,
   name |-> ksccd_getThreadName(thread).name]

\* Mutant: the thread the report is about is told by its place in the cache.
writeThread_ByIndex ==
  /\ report.pc = "threads" /\ ~report.minimal /\ report.index <= Len(context.list)
  /\ LET thread == context.list[report.index]
     IN /\ written' = Append(written, ThreadEntry(thread, report.index = ksccd_getThreadName(context.thread).index))
        /\ opened' = opened \cup IF thread = context.thread THEN writeNotableAddresses(report.level + 4) ELSE {}
  /\ report' = [report EXCEPT !.index = @ + 1]
  /\ UNCHANGED <<cacheVars, memory, userInfo, rules, context>>

\* The offending thread has the context it crashed with; the others' are fetched.
writeThread ==
  /\ report.pc = "threads" /\ ~report.minimal /\ report.index <= Len(context.list)
  /\ LET thread == context.list[report.index]
     IN /\ written' = Append(written, ThreadEntry(thread, thread = context.thread))
        /\ opened' = opened \cup IF thread = context.thread THEN writeNotableAddresses(report.level + 4) ELSE {}
  /\ report' = [report EXCEPT !.index = @ + 1]
  /\ UNCHANGED <<cacheVars, memory, userInfo, rules, context>>

writeAllThreads ==
  /\ report.minimal \/ report.index > Len(context.list)
  /\ Section("threads", IF report.minimal THEN "crashed" ELSE "user")

\* The smaller report has the crashed thread alone, and opens no memory for it.
writeCrashedThread ==
  /\ report.pc = "crashed"
  /\ written' = Append(written, ThreadEntry(context.thread, TRUE))
  /\ report' = [report EXCEPT !.pc = "end"]
  /\ UNCHANGED <<cacheVars, memory, userInfo, rules, context, opened>>

\* The containers the user info leaves open when it is added and its last container
\* is not closed: one for an object, none for a scalar; JSON that is cut off leaves
\* all of its own open, with an object that tells of the error; and a string that has
\* been freed may be anything.
UserLevels(json) == IF json = Freed THEN 0 .. 2 ELSE {json.open}

UserSection(json, closed) ==
  \E levels \in UserLevels(json) :
    /\ report.pc = "user"
    /\ report' = [report EXCEPT !.pc = "debug", !.level = @ + levels - closed]
    /\ written' = Append(written, [section |-> "user", level |-> report.level, crashed |-> FALSE,
                                   thread |-> NoName, name |-> NoName])
    /\ UNCHANGED <<cacheVars, memory, userInfo, rules, context, opened>>

\* The user info is left open for the user's callback, which a snapshot skips, and
\* a container is closed afterwards, whatever there was of it.
writeUserSection == UserSection(userInfo.json, 1)

writeDebugInfo == Section("debug", "end")

Close ==
  /\ report.pc = "end"
  /\ semaphore' = IF semaphore - 1 < 0 THEN semaphore ELSE semaphore - 1
  /\ report' = [report EXCEPT !.pc = "done", !.level = 0]
  /\ UNCHANGED <<live, cache, update, freed, suspended, memory, userInfo, rules, context, written, opened>>

\* After a snapshot the process is resumed.
Resume ==
  /\ report.pc = "done" /\ context.snapshot /\ ~report.minimal
  /\ suspended' = FALSE
  /\ context' = NoContext /\ report' = NoReport /\ written' = <<>> /\ opened' = {}
  /\ UNCHANGED <<live, cache, update, semaphore, freed, memory, userInfo, rules>>

Next ==
  \/ CacheNext /\ UNCHANGED reportVars
  \/ \E json \in UserInfos : kscrashreport_setUserInfoJSON(json)
  \/ ReplaceUserInfo \/ ReplaceClassCount \/ kscrashreport_setIntrospectMemory
  \/ \E list \in ClassLists, behind \in SUBSET ClassNames : kscrashreport_setDoNotIntrospectClasses(list, behind)
  \/ \E thread \in Range(live), reason, zombie \in Named : Crash(thread, reason, zombie)
  \/ \E thread \in Range(live), zombie \in Named : UserReport(thread, zombie)
  \/ kscrashreport_writeStandardReport \/ kscrashreport_writeRecrashReport
  \/ writeReportInfo \/ writeBinaryImages \/ writeProcessState \/ writeSystemInfo \/ writeError
  \/ writeThread \/ writeAllThreads \/ writeCrashedThread
  \/ writeUserSection \/ writeDebugInfo \/ Close \/ Resume

Spec == Init /\ [][Next]_vars

-----------------------------------------------------------------------------

\* Every name a report looks up while the process is suspended is found within both
\* lists and has not been freed, wherever the cache's thread was when it stopped.
NamesAreReadable ==
  suspended =>
    \A thread \in UNION {Range(list) : list \in ThreadLists} :
      LET found == ksccd_getThreadName(thread)
      IN /\ found.read \subseteq DOMAIN cache.mach
         /\ found.index # 0 => /\ found.index \in DOMAIN cache.names
                               /\ cache.names[found.index].number \notin freed

\* The classes the application has asked to keep closed, as far as the length of the
\* list has followed the list.
KeptClosed(class) ==
  \E i \in DOMAIN rules.list : rules.list[i] = class /\ (rules.pc = "idle" \/ i <= rules.count)

\* An object graph with cycles and many references ends up in a report of bounded size
\* and depth, as what is opened at one address counts against its own limit; and an object
\* of a class the application has asked to keep closed is nowhere opened, not behind an
\* exception's reason either, and not while the list is being replaced.  Its bytes are
\* still told if they pass for a string: kscrashreport's own comment on the list, "only
\* the class name will be recorded", does not hold.
ObjectsStayClosed ==
  \A search \in opened :
    /\ Len(search.log) <= SearchDepth + MaxIvars
    /\ search.deepest - search.level <= 2 * SearchDepth
    /\ \A k \in DOMAIN search.log :
         LET entry == search.log[k]
         IN /\ entry.opened # "null" /\ memory[entry.address].type = "object"
            /\ KeptClosed(memory[entry.address].class)
            => entry.opened \in {"text", "nothing"}

\* A complete report shows exactly one thread as the one that crashed, whatever list
\* the cache had, if that thread is among those there was room for.
OneCrashedThread ==
  (report.pc \in {"user", "debug", "end", "done"} /\ context.thread \in Range(context.list)) =>
    Cardinality({i \in DOMAIN written : written[i].crashed}) = 1

=============================================================================
