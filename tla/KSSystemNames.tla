---------------------------- MODULE KSSystemNames ---------------------------
(***************************************************************************)
(* What a report calls the things of the system: the registers of the four  *)
(* processors (KSCPU_*.c), signals (KSSignalInfo.c) and Mach exceptions     *)
(* (KSMach.c), and which of them an event has after every monitor has added *)
(* what it knows.  The numbers of the system are their names; a code of a   *)
(* signal means something with its signal only.  An address is a number.    *)
(***************************************************************************)
EXTENDS Integers, Sequences, SequencesExt, TLC

CONSTANTS Unnamed  \* no name, no number

-----------------------------------------------------------------------------
(* Registers *)

Series(letter, first, last) == [i \in 1 .. last - first + 1 |-> letter \o ToString(first + i - 1)]

\* A processor: the names of its registers, the fields of the thread state that
\* kscpu_registerValue numbers, and which of them the stack is walked with.
arm == [names |-> Series("r", 0, 11) \o <<"ip", "sp", "lr", "pc", "cpsr">>,
        fields |-> Series("r", 0, 12) \o <<"sp", "lr", "pc", "cpsr">>,
        exceptions |-> <<"exception", "fsr", "far">>,
        fp |-> "r7", sp |-> "sp", pc |-> "pc", lr |-> "lr", fault |-> "far"]

\* The last numbered register is behind the array, where the frame pointer is.
arm64 == [names |-> Series("x", 0, 29) \o <<"fp", "lr", "sp", "pc", "cpsr">>,
          fields |-> Series("x", 0, 28) \o <<"fp", "fp", "lr", "sp", "pc", "cpsr">>,
          exceptions |-> <<"exception", "esr", "far">>,
          fp |-> "fp", sp |-> "sp", pc |-> "pc", lr |-> "lr", fault |-> "far"]

x86_32 == [names |-> <<"eax", "ebx", "ecx", "edx", "edi", "esi", "ebp", "esp", "ss", "eflags", "eip", "cs", "ds", "es",
                       "fs", "gs">>,
           fields |-> <<"eax", "ebx", "ecx", "edx", "edi", "esi", "ebp", "esp", "ss", "eflags", "eip", "cs", "ds", "es",
                        "fs", "gs">>,
           exceptions |-> <<"trapno", "err", "faultvaddr">>,
           fp |-> "ebp", sp |-> "esp", pc |-> "eip", lr |-> Unnamed, fault |-> "faultvaddr"]

x86_64 == [names |-> <<"rax", "rbx", "rcx", "rdx", "rdi", "rsi", "rbp", "rsp">> \o Series("r", 8, 15)
                     \o <<"rip", "rflags", "cs", "fs", "gs">>,
           fields |-> <<"rax", "rbx", "rcx", "rdx", "rdi", "rsi", "rbp", "rsp">> \o Series("r", 8, 15)
                      \o <<"rip", "rflags", "cs", "fs", "gs">>,
           exceptions |-> <<"trapno", "err", "faultvaddr">>,
           fp |-> "rbp", sp |-> "rsp", pc |-> "rip", lr |-> Unnamed, fault |-> "faultvaddr"]

\* What the stack is walked with; a processor without a link register answers 0.
kscpu(cpu, register, state) == IF cpu[register] = Unnamed THEN 0 ELSE state[cpu[register]]

\* Of its own thread a handler has no state, unless a signal brought it.
ksmc_canHaveCPUState(context) == ~context.isCurrentThread \/ context.isSignalContext
ksmc_hasValidExceptionRegisters(context) == ksmc_canHaveCPUState(context) /\ context.isCrashedContext

\* The state of the thread, or a context full of zeros.
ksmc_getContextForThread(cpu, thread, self, isCrashedContext) ==
  LET fields == ToSet(cpu.fields \o cpu.exceptions)
      context == [isCurrentThread |-> thread.name = self, isCrashedContext |-> isCrashedContext,
                  isSignalContext |-> FALSE, state |-> [f \in fields |-> 0]]
  IN IF ksmc_canHaveCPUState(context) THEN [context EXCEPT !.state = thread.state] ELSE context
ksmc_getContextForSignal(thread) ==
  [isCurrentThread |-> TRUE, isCrashedContext |-> TRUE, isSignalContext |-> TRUE, state |-> thread.state]

Row(name, value) == [name |-> name, value |-> value]
writeBasicRegisters(cpu, context) ==
  [i \in DOMAIN cpu.names |-> Row(cpu.names[i], context.state[cpu.fields[i]])]
writeExceptionRegisters(cpu, context) ==
  [i \in DOMAIN cpu.exceptions |-> Row(cpu.exceptions[i], context.state[cpu.exceptions[i]])]
writeRegisters(cpu, context) ==
  IF ~ksmc_canHaveCPUState(context) THEN [basic |-> <<>>, exception |-> <<>>]
  ELSE [basic |-> writeBasicRegisters(cpu, context),
        exception |-> IF ksmc_hasValidExceptionRegisters(context) THEN writeExceptionRegisters(cpu, context) ELSE <<>>]

-----------------------------------------------------------------------------
(* Signals and exceptions *)

SignalInfo(sigNum, codes) == [sigNum |-> sigNum, codes |-> codes]
g_sigTrapCodes == {"0", "TRAP_BRKPT", "TRAP_TRACE"}
g_fatalSignalData ==
  <<SignalInfo("SIGABRT", {}), SignalInfo("SIGBUS", {"BUS_ADRALN", "BUS_ADRERR", "BUS_OBJERR"}),
    SignalInfo("SIGFPE", {"FPE_FLTDIV", "FPE_FLTOVF", "FPE_FLTUND", "FPE_FLTRES", "FPE_FLTINV", "FPE_FLTSUB",
                          "FPE_INTDIV", "FPE_INTOVF"}),
    SignalInfo("SIGILL", {"ILL_ILLOPC", "ILL_ILLTRP", "ILL_PRVOPC", "ILL_ILLOPN", "ILL_ILLADR", "ILL_PRVREG",
                          "ILL_COPROC", "ILL_BADSTK"}),
    SignalInfo("SIGPIPE", {}), SignalInfo("SIGSEGV", {"SEGV_MAPERR", "SEGV_ACCERR"}),
    SignalInfo("SIGSYS", {}), SignalInfo("SIGTERM", g_sigTrapCodes)>>
kssignal_signalName(sigNum) ==
  IF \E info \in ToSet(g_fatalSignalData) : info.sigNum = sigNum THEN sigNum ELSE Unnamed
kssignal_signalCodeName(sigNum, code) ==
  IF \E info \in ToSet(g_fatalSignalData) : info.sigNum = sigNum /\ code \in info.codes THEN code ELSE Unnamed

NamedExceptions == {"EXC_BAD_ACCESS", "EXC_BAD_INSTRUCTION", "EXC_ARITHMETIC", "EXC_EMULATION", "EXC_SOFTWARE",
                    "EXC_BREAKPOINT", "EXC_SYSCALL", "EXC_MACH_SYSCALL", "EXC_RPC_ALERT", "EXC_CRASH"}
ksmach_exceptionName(exceptionType) == IF exceptionType \in NamedExceptions THEN exceptionType ELSE Unnamed
\* The codes a fault can have are all among those with a name.
ksmach_kernelReturnCodeName(returnCode) ==
  IF returnCode \in {"KERN_INVALID_ADDRESS", "KERN_PROTECTION_FAILURE", "KERN_NO_ACCESS", "KERN_MEMORY_ERROR",
                     "KERN_CODESIGN_ERROR"} THEN returnCode ELSE Unnamed

\* Mutant: the two errors of memory are mixed up.
signalForMachException_Mixed(exception, code) ==
  CASE exception = "EXC_BAD_ACCESS" -> IF code = "KERN_PROTECTION_FAILURE" THEN "SIGSEGV" ELSE "SIGBUS"
    [] exception = "EXC_ARITHMETIC" -> "SIGFPE" [] exception = "EXC_BAD_INSTRUCTION" -> "SIGILL"
    [] exception = "EXC_BREAKPOINT" -> "SIGTRAP" [] exception = "EXC_EMULATION" -> "SIGEMT" [] OTHER -> Unnamed

signalForMachException(exception, code) ==
  CASE exception = "EXC_ARITHMETIC" -> "SIGFPE"
    [] exception = "EXC_BAD_ACCESS" -> IF code = "KERN_INVALID_ADDRESS" THEN "SIGSEGV" ELSE "SIGBUS"
    [] exception = "EXC_BAD_INSTRUCTION" -> "SIGILL"
    [] exception = "EXC_BREAKPOINT" -> "SIGTRAP"
    [] exception = "EXC_EMULATION" -> "SIGEMT"
    [] exception = "EXC_SOFTWARE" /\ code = "EXC_UNIX_BAD_SYSCALL" -> "SIGSYS"
    [] exception = "EXC_SOFTWARE" /\ code = "EXC_UNIX_BAD_PIPE" -> "SIGPIPE"
    [] exception = "EXC_SOFTWARE" /\ code = "EXC_UNIX_ABORT" -> "SIGABRT"
    [] exception = "EXC_SOFTWARE" /\ code = "EXC_SOFT_SIGNAL" -> "SIGKILL"
    [] OTHER -> Unnamed

\* Two of them are answered with the code of an exception instead of an exception.
machExceptionForSignal(sigNum) ==
  CASE sigNum = "SIGFPE" -> "EXC_ARITHMETIC"
    [] sigNum \in {"SIGSEGV", "SIGBUS"} -> "EXC_BAD_ACCESS"
    [] sigNum = "SIGILL" -> "EXC_BAD_INSTRUCTION"
    [] sigNum = "SIGTRAP" -> "EXC_BREAKPOINT"
    [] sigNum = "SIGEMT" -> "EXC_EMULATION"
    [] sigNum = "SIGSYS" -> "EXC_UNIX_BAD_SYSCALL"
    [] sigNum = "SIGPIPE" -> "EXC_UNIX_BAD_PIPE"
    [] sigNum = "SIGABRT" -> "EXC_CRASH"
    [] sigNum = "SIGKILL" -> "EXC_SOFT_SIGNAL"
    [] OTHER -> Unnamed

\* The same two tables, for whoever includes KSMach.h.
ksmach_machExceptionForSignal(sigNum) == machExceptionForSignal(sigNum)
ksmach_signalForMachException(exception, code) == signalForMachException(exception, code)

\* What the monitor that caught something says of it.  The Mach monitor asks its event whether
\* the stack has overflown, which no code ever tells the event.
NoError == [crashType |-> Unnamed, type |-> Unnamed, code |-> Unnamed, signum |-> Unnamed, sigcode |-> Unnamed, isStackOverflow |-> FALSE]
machEvent(exception, code) ==
  LET event == [NoError EXCEPT !.crashType = "MachException", !.type = exception, !.code = code]
      told == IF code = "KERN_PROTECTION_FAILURE" /\ event.isStackOverflow
              THEN [event EXCEPT !.code = "KERN_INVALID_ADDRESS"] ELSE event
  IN [told EXCEPT !.signum = signalForMachException(exception, told.code)]
signalEvent(sigNum, code) == [NoError EXCEPT !.crashType = "Signal", !.signum = sigNum, !.sigcode = code]

\* What the other monitors add while they are enabled.
addSignal(event) == IF event.crashType \in {"Signal", "MachException"} THEN event ELSE [event EXCEPT !.signum = "SIGABRT"]
addMach(event) ==
  CASE event.crashType = "Signal" -> [event EXCEPT !.type = machExceptionForSignal(event.signum)]
    [] event.crashType = "MachException" -> event
    [] OTHER -> [event EXCEPT !.type = "EXC_CRASH"]
addContextualInfoToEvent(enabled, event) ==
  LET told == IF "MachException" \in enabled THEN addMach(event) ELSE event
  IN IF "Signal" \in enabled THEN addSignal(told) ELSE told

\* An element without a name is left out.
writeError(event) ==
  [type |-> event.crashType,
   mach |-> [exception |-> event.type, name |-> ksmach_exceptionName(event.type), code |-> event.code,
             codeName |-> ksmach_kernelReturnCodeName(event.code)],
   signal |-> [signal |-> event.signum, name |-> kssignal_signalName(event.signum), code |-> event.sigcode,
               codeName |-> kssignal_signalCodeName(event.signum, event.sigcode)]]
=============================================================================
