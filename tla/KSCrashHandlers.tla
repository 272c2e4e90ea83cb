--------------------------- MODULE KSCrashHandlers --------------------------
(***************************************************************************)
(* How the monitors take the places of the system's own handlers and give   *)
(* them back: the signal actions (KSCrashMonitor_Signal.c), the exception   *)
(* ports and threads (KSCrashMonitor_MachException.c) and the terminate     *)
(* handler (KSCrashMonitor_CPPException.cpp), with calls of the system that *)
(* fail.  And what the zombie monitor keeps (KSCrashMonitor_Zombie.c).      *)
(***************************************************************************)
EXTENDS Naturals, Sequences, FiniteSets, SequencesExt

CONSTANTS
  SignalCount,   \* kssignal_numFatalSignals()
  MaskCount,     \* how many kinds of exceptions the application has ports for
  MaxReserved    \* the length of g_reservedThreads

Ours == "ours"
Everyone(n, whose) == [i \in 1 .. n |-> whose]

-----------------------------------------------------------------------------
(* Signals: failAt is the number of the sigaction that fails, 0 for the      *)
(* signal stack, and more than all of them for none.                        *)

\* Memory that was never written holds anything.
NeverSaved == "garbage"
SignalMonitor(whose) ==
  [isEnabled |-> FALSE, actions |-> Everyone(SignalCount, whose), previous |-> Everyone(SignalCount, NeverSaved)]

\* Mutant: what had been installed when one of them failed stays installed.
installSignalHandler_HalfWay(s, failAt) ==
  LET done == {i \in 1 .. SignalCount : i < failAt}
  IN [s EXCEPT !.previous = [i \in 1 .. SignalCount |-> IF i \in done THEN s.actions[i] ELSE @[i]],
               !.actions = [i \in 1 .. SignalCount |-> IF i \in done THEN Ours ELSE @[i]]]

\* When one fails, those before it are reversed.
installSignalHandler(s, failAt) ==
  LET done == {i \in 1 .. SignalCount : i < failAt}
      saved == [s EXCEPT !.previous = [i \in 1 .. SignalCount |-> IF i \in done THEN s.actions[i] ELSE @[i]]]
  IN IF failAt <= SignalCount THEN saved ELSE [saved EXCEPT !.actions = Everyone(SignalCount, Ours)]

uninstallSignalHandler(s) == [s EXCEPT !.actions = s.previous]

\* A monitor whose installation failed is enabled all the same.
setSignalEnabled(s, isEnabled, failAt) ==
  IF isEnabled = s.isEnabled THEN s
  ELSE LET switched == [s EXCEPT !.isEnabled = isEnabled]
       IN IF isEnabled THEN installSignalHandler(switched, failAt) ELSE uninstallSignalHandler(switched)

-----------------------------------------------------------------------------
(* Mach exceptions: failAt is the number of the call that fails. *)

MachMonitor(whose) ==
  [isEnabled |-> FALSE, ports |-> Everyone(MaskCount, whose), previous |-> <<>>, exceptionPort |-> FALSE,
   created |-> 0, threads |-> {}, reserved |-> {}]

\* Ports that were given back are not given back again.
restorePorts(s) == IF s.previous = <<>> THEN s ELSE [s EXCEPT !.ports = s.previous, !.previous = <<>>]

\* The exception threads are cancelled; the port itself is not deallocated.
uninstallExceptionHandler(s) == [restorePorts(s) EXCEPT !.threads = {}, !.exceptionPort = FALSE]

\* A list with an end, from which nothing is ever taken.
ksmc_addReservedThread(s, thread) ==
  IF Cardinality(s.reserved) < MaxReserved THEN [s EXCEPT !.reserved = @ \cup {thread}] ELSE s
createThread(s) ==
  [ksmc_addReservedThread(s, s.created + 1) EXCEPT !.created = @ + 1, !.threads = @ \cup {s.created + 1}]

\* Six calls of the system: read the ports, make one, give it a right, set it, start the second thread and
\* the first.  Whichever fails, everything is taken back.
installExceptionHandler(s, failAt) ==
  LET backup == [s EXCEPT !.previous = s.ports]
      port == [backup EXCEPT !.exceptionPort = TRUE]
      installed == [port EXCEPT !.ports = Everyone(MaskCount, Ours)]
      secondary == createThread(installed)
  IN CASE failAt = 1 -> uninstallExceptionHandler(s)
       [] failAt = 2 -> uninstallExceptionHandler(backup)
       [] failAt \in {3, 4} -> uninstallExceptionHandler(port)
       [] failAt = 5 -> uninstallExceptionHandler(installed)
       [] failAt = 6 -> uninstallExceptionHandler(secondary)
       [] OTHER -> createThread(secondary)

setMachEnabled(s, isEnabled, failAt) ==
  IF isEnabled = s.isEnabled THEN s
  ELSE LET switched == [s EXCEPT !.isEnabled = isEnabled]
       IN IF isEnabled THEN installExceptionHandler(switched, failAt) ELSE uninstallExceptionHandler(switched)

-----------------------------------------------------------------------------
(* C++ exceptions *)

CPPMonitor(whose) == [isEnabled |-> FALSE, terminate |-> whose, original |-> whose, captureNextStackTrace |-> FALSE]

setCPPEnabled(s, isEnabled) ==
  CASE isEnabled = s.isEnabled -> s
    [] isEnabled /\ ~s.isEnabled ->
         [isEnabled |-> TRUE, terminate |-> Ours, original |-> s.terminate, captureNextStackTrace |-> TRUE]
    [] OTHER -> [s EXCEPT !.isEnabled = FALSE, !.terminate = s.original, !.captureNextStackTrace = FALSE]

-----------------------------------------------------------------------------
(* Zombies: an object is an address, its last owner a class.  dealloc of any *)
(* object is a handful of steps that nothing keeps apart from those of       *)
(* another thread: the address, then the class, then the exception it is.    *)

CONSTANTS
  CacheSize,     \* CACHE_SIZE, a power of two
  ObjectShift    \* sizeof(object) - 1

NoObject == 0
hashIndex(object) == (object \div 2 ^ ObjectShift) % CacheSize
ZombieMonitor ==
  [isEnabled |-> FALSE, hooked |-> FALSE,
   cache |-> [i \in 0 .. CacheSize - 1 |-> [object |-> NoObject, className |-> "none"]],
   last |-> [address |-> NoObject, name |-> "", reason |-> ""]]

\* Without memory nothing is installed, enabled or not; disabling it is not supported.
setZombieEnabled(s, isEnabled, memory) ==
  IF isEnabled = s.isEnabled \/ ~isEnabled THEN s ELSE [s EXCEPT !.isEnabled = TRUE, !.hooked = memory]

\* An ivar that cannot be read leaves the text that was there.
copyStringIvar(text, buffer) == IF text = "" THEN buffer ELSE text
storeException(s, e) ==
  [s EXCEPT !.last = [address |-> e.address, name |-> copyStringIvar(e.name, @.name), reason |-> copyStringIvar(e.reason, @.reason)]]

\* Mutant: an entry that is taken stays with the object that took it.
handleDealloc_FirstCome(s, o, step) ==
  IF ~s.hooked THEN s
  ELSE CASE step = 1 -> IF s.cache[hashIndex(o.address)].object # NoObject THEN s
                        ELSE [s EXCEPT !.cache[hashIndex(o.address)].object = o.address]
         [] step = 2 -> [s EXCEPT !.cache[hashIndex(o.address)].className = o.class]
         [] OTHER -> IF o.isException THEN storeException(s, o) ELSE s

\* One of the three steps of the deallocation of object o.
handleDealloc(s, o, step) ==
  IF ~s.hooked THEN s
  ELSE CASE step = 1 -> [s EXCEPT !.cache[hashIndex(o.address)].object = o.address]
         [] step = 2 -> [s EXCEPT !.cache[hashIndex(o.address)].className = o.class]
         [] OTHER -> IF o.isException THEN storeException(s, o) ELSE s

kszombie_className(s, object) ==
  IF ~s.hooked \/ object = NoObject \/ s.cache[hashIndex(object)].object # object THEN "none"
  ELSE s.cache[hashIndex(object)].className

addZombie(s) == IF s.isEnabled THEN s.last ELSE [address |-> NoObject, name |-> "", reason |-> ""]
=============================================================================
