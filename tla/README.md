# Specifications of the Ambassador iOS SDK

The Ambassador iOS SDK (`src/Ambassador/Ambassador`) is linked into a host application. It identifies the device and
its user against the Ambassador service, tracks conversions (purchases, installs), and presents a refer-a-friend (RAF)
screen through which the user shares a link. It carries its own copy of the crash reporter KSCrash, the largest part
of the code, which must work inside a process that is broken. This directory holds TLA+ models of the parts in which
order, concurrency, failure and restart matter, the TLC configurations that check them on small instances, and TLAPS
proofs of the properties that matter most. File names without a directory are in `src/Ambassador/Ambassador`, those of
the crash reporter in its directory `KSCrash/Recording`.

## 1. Inventory

| Component | State it keeps | Operations | Talks to |
|---|---|---|---|
| SDK facade (`AmbassadorSDK`) | `identify`, `conversion`, `pusherManager`, `identifyInProgress`, temporary RAF parameters | run, identify, unidentify, track, present RAF / NPS / welcome screen | everything below |
| Conversion tracking (`AMBConversion`, `AMBCoreDataManager`) | Core Data table of unsent conversions, install flag | register, send, answer, retry | network manager, user defaults |
| Device identification (`AMBIdentify`) | timers, try counter, `identifyProcessComplete`, `identifyCompletionCalled`, Safari page | getIdentity, timer tick, deviceInfoReceived, finishIdentify, identifyComplete | Pusher manager, notifications |
| Pusher manager (`AMBPusherManager`) | client, channel, completion, `campaignListRecieved` | subscribe, bind, events, closeSocket | Pusher client, user defaults |
| Pusher client (`fmdb/AMBPTPusher*`, vendored) | connection state, channels, reconnect mode and attempts | connect, disconnect, subscribe, reconnect, ping/pong timers | web socket |
| Web socket (`fmdb/AMBSRWebSocket`, vendored) | `readyState`, close code, buffers | open, send, close, frames, stream events | CFStream |
| RAF screen (`AMBServiceSelector`, loading view and alerts of `AMBUtilities`) | campaign, URL object, attempt flag, wait timer, shared loading view | identity check, auto-enrollment, list handling, alerts, share | facade, notifications, user defaults |
| Contact sharing (`AMBContactSelector`, `AMBSMSHandler`, `AMBBulkShareHelper`, `AMBNamePrompt`) | selection, contact array, names | select, send SMS / e-mail, share track | network manager, contact loader |
| Contact loader (`AMBContactLoader`) | contact cache, purge timer, delegate | load, reload, purge, permission | address book |
| LinkedIn (`AMBAuthorizeLinkedIn`, `AMBLinkedInShare`) | token | log in, post | network manager |
| Conversion parameters (`AMBConversionParameters`) | 18 properties | initialise, validate, convert | conversion tracking |
| User defaults (`AMBValues`) | persisted values | getters, setters | |
| Network manager (`AMBNetworkManager`) | URL session with the main queue as delegate queue | one POST or GET per call | Ambassador service |
| Welcome screen, NPS survey, theme, cells, crash analytics | | | |
| Crash monitors (`Monitors/KSCrashMonitor*.c`, `KSCrashC.c`) | monitors that are on, exception ports, two exception threads, fatal-exception flags | install, handle a Mach exception, a signal, a C++ or Objective-C exception, a user report | report writer |
| Report writer (`KSCrashReport.c`, `KSCrashCachedData.c`) | user info, restricted classes, cache of threads and names | write a standard or a recrash report | tools below, JSON encoder |
| Tools (`Tools/*`) | the cache of dead objects, saved handlers; otherwise none | read memory, walk stacks, judge objects, encode, name | kernel |
| JSON codec and file utilities (`KSJSONCodec.c`, `KSFileUtils.c`) | encoder, decoder, buffers, windows | write and read a document | files |
| Report store (`KSCrashReportStore.c`, `KSCrash.m`) | report files, next identifier | prune, write, count, list, read, send, delete | files |
| Application state (`KSCrashMonitor_AppState.c`) | counters and durations, `CrashState.json` | initialise, notifications of the application's life, save | JSON codec |
| Report fixer, Swift demangler | none | replace dates and mangled names in a report | JSON codec |

Components interact on the main queue: a call from the host or the user, the answer of a request, a Pusher event, a
timer or the end of an animation is one block that runs to its end. What interleaves is blocks, not instructions, so
one action of a model is one block. Two `NSNotificationCenter` names connect components: `deviceInfoReceived` (Pusher
manager to `AMBIdentify`) and `PusherReceived` (Pusher manager to the RAF screen). Values that outlive a block are in
the objects above or in `NSUserDefaults`; conversions that wait are in Core Data.

**What is hard in this code.** Answers overtake each other and arrive after the state they were asked in has changed;
a manager that was replaced goes on handling events; a subscription is confirmed again after a reconnect; timers race
with events and with the user's taps; closed screens are kept alive by a block and keep observing; the process may die
between the service's acceptance and the deletion of a row; requests fail and nobody is told.

The crash reporter has no run loop. Its handlers run on the thread that failed and on two threads of their own, at
once until one suspends the others; they may fail themselves, and are then handled in turn. They read memory that may
be anything, data that another thread was changing when it was stopped, and files that an earlier process did not
finish. One action there is one access to what threads share, one call of the kernel or one write to a file.

**What makes each component correct.**

* Conversion tracking: what is on disk is delivered at least once, a refused conversion never leaves the device, the
  install flag is only set by a conversion the service took, every call that was sent gets its answer.
* Device identification: a block is called at most once for each time the call asked, identifying is complete only
  with a fingerprint and without the page on screen, the timer stops.
* Identify session: sockets close when the device is known, a closed channel brings no event any more, a session ends
  and its caller is told when the service answers.
* RAF screen: one enrollment per screen, the stored URL object is that of the screen on display, a share credits the
  campaign whose link was shared or, once the stored object was emptied, none; a screen without a link does not wait
  for ever while something can still bring one.
* Crash monitors: one report is written at a time, a crash of the reporter gets into the report it spoiled, a crash
  leaves a report and the process ends.
* Report writer and tools: what is read is readable, what is told is so, an object of a restricted class is not opened
  (its bytes are told when they pass for a string).
* Files: what is written is read back in order; a document cut off anywhere is never taken for a whole one; a report
  is not lost but in the races the code leaves open or with the identifier 0; a crash is told to the next launch once.

## 2. Modules

| Module | Models | Built on |
|---|---|---|
| `AMBConversionDelivery` | abstract: what conversion tracking promises for conversions on disk | |
| `AMBConversion` | `AMBConversion.m`, `AMBCoreDataManager.m`, the conversion part of `AmbassadorSDK.m` | implements `AMBConversionDelivery` |
| `AMBIdentify` | `AMBIdentify.m` | |
| `AMBIdentifySession` | `AMBPusherManager.m`, identify, unidentify and `subscribeToPusherWithSuccess` of `AmbassadorSDK.m` | EXTENDS `AMBIdentify` |
| `AMBServiceSelector` | `AMBServiceSelector.m`, `presentRAFForCampaign` and the e-mail prompt, loading view and alerts, what a share credits | |
| `KSCrashAppState` | `Monitors/KSCrashMonitor_AppState.c` | |
| `KSFileLog` | abstract: an append-only log | |
| `KSFileUtils` | buffered writer and reader of `Tools/KSFileUtils.c` | implements `KSFileLog` |
| `KSCrashMonitor` | `Monitors/KSCrashMonitor*.c` and `onCrash` of `KSCrashC.c`, thread by thread | |
| `KSCrashReportStore` | `KSCrashReportStore.c`, its use in `KSCrash.m` and `KSCrashC.c` | |
| `KSJSONCodec` | `Tools/KSJSONCodec.c`: encoder, decoder, window, copy | |
| `KSCrashCachedData` | `KSCrashCachedData.c` | |
| `KSCrashReport` | `KSCrashReport.c` | EXTENDS `KSCrashCachedData` |
| `KSMemory`, `KSStackCursor`, `KSObjC`, `KSObjCText`, `KSTextCodes`, `KSSystemNames`, `KSCrashHandlers`, `KSCrashReportFixer` | the tools of the same names, as operators | put together in `MCTools` |
| `SwiftDemangler`, `SwiftNodePrinter` | `swift/Basic/Demangle.cpp`: parser and printer | put together in `MCSwift` |
| `*_proofs` | theorems about the module of that name | EXTENDS it and `TLAPS` |
| `MC*` | instances for TLC; what comments of the code say, where a run refutes it | EXTENDS the module |

Definitions carry the names of the methods and properties they stand for; `PROJECT.json` maps each to its lines. A
definition named `x_Slip` (or `x_` and what is wrong) directly before `x` is a plausible mistake in `x`. No action
uses it; it serves to show that a property would notice the mistake.

### AMBConversion

`identity` is the set of identity parts in `NSUserDefaults` (fingerprint, short code) that `canSendConversion` reads;
`store` the Core Data table; `tasks` the POSTs without an answer, each with the retry pass it belongs to and the row
it came from (`NoRow` for a first attempt); `outcome` what the caller was told; `accepted` how often the service took
a conversion; `confirmed` the conversions whose acceptance the SDK was told of. `Answer` is the whole completion
handler of a POST, of a first attempt or of a retry: success deletes the row or sets the install flag and tells the
caller, failure saves a row (also for a retry, whose old row stays) and tells the caller `ConversionPending`. A retry
pass posts every row it finds and does not look whether an earlier pass still waits. `Terminate` is the death of the
process: POSTs are forgotten, what the service took before (`ServerAccepts`) stays taken, table and defaults stay.
`RetryAfterIdentify` is the call at the end of `closeSocket`; `localRunWithUniversalToken` retries at the start.

### AMBIdentify

The record `identify` holds the object's fields under their own names, and `closeSocket`, which says that the step
asked the current Pusher manager to close (`AMBIdentifySession` acts on it). `safariVC` is the page: none, being up,
on its way out. `onDismissed` are the blocks that run when the page is gone. `GetIdentity`, `TimerFires`,
`FinishedTimerFires`, `DeviceInfo`, `didCompleteInitialLoad`, `safariViewControllerDidFinish`, `PageDismissed` are the
handlers; `FingerprintSaved`, `MinimumTimePasses`, `SheetOpens` and `SheetCloses` are the environment. `asked` counts
how often a call came to the end of `localIdentify`: once for each confirmation of its subscription, so that a
reconnect hands the same block to `getIdentity` again (`askForDevice`), or calls it at once. `maxTryCount` is the
code's constant.

### AMBIdentifySession

Each call of `subscribeToPusherWithSuccess` (an identify call, or the auto-enrollment of a RAF screen, the calls in
`Enroll`) makes a manager; `pusherManager` is the current one. A manager's record says what it is connected to,
subscribed to and bound to, and how many completions wait on the main queue. `requests` are session requests under
way, `identified` the identify requests sent and the channel each named, `payloads` the lists being fetched from a
URL. The four branches of `bindToChannelEvent` are `ListEvent`, `UrlEvent`, `CookieEvent` and `FingerprintEvent`;
`closeSockets` is `closeSocket` of all managers whose condition holds, with the flag and stored channel it clears for
everybody. A replaced manager lives as long as a binding or a waiting block holds it (`alive`), and handles events all
that time; a freed one disconnects, and its record means nothing any more. The Pusher client shows three things:
`ConnectionLost` clears what was confirmed and queues a reconnect, which `ReconnectFires` makes even if `closeSocket`
has disconnected meanwhile, and `ConnectionEnds` is a connection that is not made again, of which nobody is told. A
manager's `closed` are the channels that `closeSocket` gave up (history). `DeviceStep` is any step of `AMBIdentify`,
with its `closeSocket`.

### AMBServiceSelector

`screens` are the RAF screens in the order they are presented, which is the order in which they observe
`PusherReceived`; `Observers` are those that are open or whose enrollment block (`held`) keeps them alive.
`removeLoadingView` is looking the campaign up (`lookUp`) and the five paths that follow (`settle`); in `handleList`
every observer runs it, and the URL object of the last one stays in `NSUserDefaults`. `loadingView` is the screen that
the one shared loading view covers. `viewDidLoad` has the three branches of `performIdentityCheck`. What a share
credits is the short code stored when the share track is sent; the link is the screen's (stock sheet, e-mail, SMS) or
the stored one (LinkedIn). `unidentify` empties the stored list, e-mail and URL object and tells no screen: a share
from a screen that still shows its link then credits nobody (`Credited`). Requests and managers are abstracted:
`asked` are the identify requests under way, and a new one may lose older ones, because it replaces the manager. A
screen that is `Waiting` shows neither link nor alert, whether or not the shared loading view covers it; it is
`Forsaken` when it has asked for its enrollment, no timer runs and no request is under way.

Assumptions about the platform, which the source does not show: `NSNotificationCenter` calls observers in the order in
which they registered; a view controller presents one thing at a time and refuses an alert while it does or while it
is not in the window; the animation that hides the loading view counts as instantaneous; a screen presented on top of
the e-mail prompt appears once the prompt is gone.

### KSCrashAppState

`g_state` is the structure of that name, `file` what `CrashState.json` holds: the elements of the last save and how
many of them are there; `written` is how far a save in progress has come. A save truncates the file (`saveState` with
nothing written) and adds one element per step; `Kill` may come between any two. `kscrashstate_initialize` is loading,
the arithmetic of a new launch and the beginning of its save; each notification adds the time since the last
transition to the field it believes it was spent in. `hist` is what really happened: it only serves the properties.

### KSFileUtils and KSFileLog

One call of `write()` or `read()` is a step: it takes or gives any part of what was asked, or fails. The writer's
operation is cut where the code is: flush, direct write, copy. The reader fills its window (`Moved`, `Filled`) as the
code does, which moves the wrong number of bytes unless the window is empty. `found` is what the last call returned,
and whether the caller's room was `full`: a search then reports a character that is only in the window behind what it
gave. `KSFileLog` knows the bytes handed over, the bytes on disk, whether the log is open and whether a write failed;
after a failure it promises nothing.

### KSCrashMonitor

`frames` are the handlers each thread runs, innermost last; the position `pc` in a handler is the code between two
accesses to what threads share. `suspended` counts as Mach does, and a thread whose count is not 0 does nothing.
`Event` is what happens in the program's own code, `HandlerFault` a fault in a handler; `Raise` sends an exception to
the port or on to the signal layer, `Deliver` runs the signal handler or the default action, `Receive` is the
exception thread's message. `notifyCheck` and `notifySet` are the two halves of `kscm_notifyFatalExceptionCaptured`;
`DisableAll` is the uninstallation it may call, which ends exception threads where they are; `Cancel` is where a
cancelled one notices. `MayWait` is a handler that allocates or calls a language's runtime while the other threads are
suspended, and so may wait for a lock one of them holds. `reports` says of each file whether it is open, complete,
reopened by a recrash, or a recrash report. The deadlock, zombie and remaining context monitors are elsewhere or
nowhere.

### KSCrashReportStore

`dir` are the files, each with its identifier, its extension (`old` for a report that a recrash moved aside) and which
report it really is. `pruneReports`, `pruneOne` and `startIDs` are a launch; `reportUserException`, `reportWritten` a
report on the caller's thread; `getReportCount`, `getReportIDs`, `readReport`, `sinkDone`, `deleteEntry` the parts of
`sendAllReports` between which other threads run: only those from `kscrs_*` take the mutex, so the directory may
change between count and list, and the array may then be sorted with what was in it before. `Counted` are the files
the code counts, lists and prunes, those with an identifier above 0; a file with the identifier 0 is only ever deleted
with all others. `initializeIDs` is a launch's first identifier, whose high part the code always makes 0; `hist.back`
notes a launch whose identifiers do not come after the last one's. `recrashRename` to `recrashClose` are the crash of
the reporter. `Die` is possible anywhere.

### KSJSONCodec

An encoder is what it has written, its stack of containers, and whether the sink is full. Every `ksjson_add...` is an
action, with the separator it writes before it knows whether the element can be written. `Die` cuts the document at
any character. `Decode` is one callback: from memory, or through a window that moves as `updateDecoder_readFile` moves
it, and hands the element to the second encoder, which is `ksjson_addJSONElement` or `ksjson_addJSONFromFile`.

### KSCrashCachedData and KSCrashReport

`updateThreadList` is cut at each pointer it exchanges. A crash suspends the updater there, `ksccd_getThreadName`
looks in what there is. `KSCrashReport` adds the setters of user info and restricted classes, which a crash may cut in
two, the sections of the two kinds of report, one action each, with the containers they open and close, and the
objects found in memory: `writeMemoryContents` and the operators it calls walk an object graph, which may have cycles,
under the limits of the code. It is a recursive function from an address to a function of the state of the writing
(`Search`), and the operators it calls take it as `write`. What is opened starts at a register or stack word that is
notable, if opening is enabled, or, without either condition, at an address that an exception's reason names
(`writeAddressReferencedByString`; `context.reason` and `context.zombie`). The list of restricted classes and its
length are two writes: between them a shorter list is read beyond its end, and `rules.behind` is what is found there.

`MCReport` follows one of three parts, which do not share state: the cache of names and a report that reads it
("names"); the setters and a report that opens memory ("memory"); or a document as it is written, cut off, read back
and copied ("document").

### The tools, and MCTools

Pure algorithms are operators, named as the functions are. `KSMemory` reads a memory with holes; addresses have
`AddressBits`, an `int` has `IntBits`, and both wrap. `KSStackCursor` has the three cursors, the symbolicator and the
image lookup; `KSObjC` the checks that decide whether an address passes for an object, over a heap of words;
`KSObjCText` strings, tagged pointers and arrays; `KSTextCodes` UTF-8, addresses in texts, JSON escapes and Punycode;
`KSSystemNames` registers, signals and Mach exceptions; `KSCrashHandlers` installation and removal of handlers with
failing calls, and the zombie cache with two interleaved deallocations; `KSCrashReportFixer` the fixing of a report;
`SwiftDemangler` and `SwiftNodePrinter` the grammar of mangled Swift names and what is printed of their trees.
`MCTools` asks one of them one question per behaviour, `call`, and compares the answer with a definition that does not
look at how the code goes about it.

## 3. Runs

| Run | Question | Result |
|---|---|---|
| `conversion_core` | Two calls, one restricted, failing and lost POSTs, overlapping passes, restarts: install flag (`InstallFlagEarned`), delivery (`SuccessIsExactlyOnce`, `DeliveryKept`), answers (`CompletionDelivered`) | holds |
| `conversion_pending` | Is a call told "pending" kept (`PendingIsKept`, from `AMBConversion.m:34`)? | violated |
| `identify_core` | Three calls, taps, a message sheet, two tries: one answer each time a call asks (`AnsweredOncePerAsk`), completion knows the device (`CompleteKnowsDevice`), a known device completes (`KnownDeviceCompletes`) | holds |
| `session_core` | An identify call and an auto-enrollment, a failing request or a lost connection: sockets (`ClosesKnowingDevice`), closed channels (`ClosedChannelStaysQuiet`), end of the session (`IdentifyEnds`, `CallAnswered`) | holds |
| `raf_core` | Two RAF screens, all lists, a repeated list, a refused request, unidentify: enrollments (`EnrollsOnce`), credit (`StockCreditsItsLink`), a screen that waits (`LoadingEnds`) | holds |
| `appstate_core` | Three launches, a kill between any two writes: one report of a crash (`CrashReportedOnce`), sessions (`SessionsCoverLaunches`), no time counted twice (`DurationsWithinLaunch`) | holds |
| `files_core` | Short, failing and interrupted writes, then any mixture of reads and searches: an append-only log (`ImplementsLog`), read back in order (`ReadsFileInOrder`), searches that stop (`StopsAtCharacter`) | holds |
| `crash_core` | Two threads, two events of eight kinds, two faults in handlers: one report at a time (`WritesAlone`), the reporter's crash in its own report (`RecrashIsItsOwn`), a report (`CrashLeavesReport`) and an end (`CrashEnds`) | holds |
| `store_core` | Two launches, three reports, two sends, a death anywhere: pruning (`PruneKeepsNewest`) and the crash's own report (`CrashIsStored`) as long as identifiers go up, losses (`LostOnlyInARace`) | holds |
| `store_old` | One thread, three launches: are the reports that pruning deletes the oldest (`PrunedAreOldest`, from `KSCrashReportStore.h:94`)? | violated |
| `report_core` | A crash or snapshot at every step of the cache: names (`NamesAreReadable`), the crashed thread (`OneCrashedThread`); or of the setters: restricted objects (`ObjectsStayClosed`); or documents of up to four calls, cut off anywhere, and their copies: what is decoded (`DecodesWhatWasWritten`), what the copy is (`CopyStaysWellFormed`) | holds |
| `tools_core` | Every pure algorithm on every input of a small set: `OnlyReadableIsRead`, `StackIsTold`, `TextsAreTheirs`, `MangledNamesAreTold`, `NamesOfTheSystem`, `PlacesAreGivenBack`, `DeadAreKnown`, `FixedAtItsPaths` | holds |

**Findings.** A conversion that waits for identification is never written to the table, although the comment and the
status told to the caller say so. And the mask that should take the upper half of a launch's first identifier is 0,
because `~0xffffffff` has 32 bits: identifiers begin again every 512 seconds, and pruning, which deletes the smallest,
may delete a newer report than one it keeps.

**What the models also show**, where the code disagrees with nobody but a careful reader: two restricted conversions
in flight both count; a failed retry adds a row beside its old one; after Done was tapped and the tries ran out the
completion is never called (`KnownDeviceCompletes` speaks of devices that become known); a call made after the tries
ran out is answered by the old counter; the stored channel may be that of a manager that was freed or has lost its
connection for good; a replaced manager stores the earlier user's list; a fingerprint event alone lets the socket
close before the list comes. A RAF screen whose enrollment request is refused shows its loading view for ever, and so
does one whose link a list withdraws while a sheet is over it (`Forsaken`); a share after `unidentify` credits nobody.
A send that ends deletes reports that were written after it had counted (`LostOnlyInARace` names these races); a
report with the identifier 0 is never sent or pruned, and deleted with the others; a launch in the same second as an
earlier one, or 512 s after it, reuses its identifiers (`PruneKeepsNewest` and `CrashIsStored` speak of launches whose
identifiers go up). An Objective-C exception leaves the other threads suspended; a handler that waits for a lock of a
thread it suspended hangs the program (`MayWait`); an exception thread that is cancelled while it handles a fault
leaves its victim without a reply (`CutOff`): `CrashEnds` holds but for these two. A second handler resumes threads
the first one needs suspended only once each, which is why `WritesAlone` still holds; bytes of a member longer than
half the window may be read twice.

**Where comments and code differ.** The models follow the code. Apart from the two findings, which a run shows, these
comments do not hold, or the code does not do what it is evidently for; no property claims them:

| Comment or purpose | What the code does |
|---|---|
| `AMBIdentify.m:29`, the block is called once | a subscription confirmed again asks again with the same block and sets `identifyCompletionCalled` back (89), so it is called once per confirmation: `AnsweredOncePerAsk` counts them |
| `Tools/KSFileUtils.h:267`, "True if the character was found before giving up" | also true when the character lies in the window behind the bytes the caller had room for (`KSFileUtils.c:575`): `StopsAtCharacter` allows it |
| `KSCrashReport.c:107`, "only the class name will be recorded" | a restricted object falls through to `writeMemoryContents` (773), which records its bytes if they pass for a string: `ObjectsStayClosed` leaves them out |
| `KSCrashReport.c:101`, memory is opened only if `enabled` | what an exception's reason names is opened in any case (864) |
| `KSCrashReport.c:1838`, a list of classes may be set at any time | between list and count a crash reads beyond a shorter list (650): the model has that read, `ObjectsStayClosed` does not ask what it finds |
| `Tools/KSMemory.h:43`, checks that memory is readable | for more than a buffer the same beginning is asked for again and again (`KSMemory.c:107`): it may say yes of memory that is not |
| `Tools/KSMemory.h:52`, how much is readable | a whole buffer is tried at the end (`KSMemory.c:131`): more bytes may be told than were asked for |
| `Tools/KSObjC.h:93`, a valid object is accessible | the base class's name is compared unread (`KSObjC.c:872`), the first ivar is not checked (560), a class without a list of ivars has its count read at 0 (802, 840): `NotJudged` names them |
| `Tools/KSObjC.h:257` and 266, the length without the byte that ends it | the string is ended behind the buffer when it does not fit (`KSObjC.c:338`), and a length as long as the buffer is told (422) |
| `Tools/KSJSONCodec.c:861`, a pair of units is one character | the 65536 it stands above is not added |
| `Tools/KSString.c:154`, the digits of a hexadecimal number | the byte behind the text counts as its first digit |
| `Monitors/KSCrashMonitor_MachException.c:353`, a stack overflow becomes an invalid address | the flag that is asked is never set, so it stays a protection failure and a SIGBUS |
| `Monitors/KSCrashMonitor_Signal.c:210`, a failed installation leaves the monitor alone | the monitor counts as on all the same (212), and switching it off restores actions that were never saved (199): `PlacesAreGivenBack` asks for the signals only while no installation has failed |

**Bounds.** Two conversions, one restricted, are the least for an overlap of both kinds; `MaxPasses` 4 allows two
first sends and two overlapping passes, `MaxRows` 3 a row, its duplicate and a row of the other call. Three identify
calls give one that replaces a block and one without a block; `maxTryCount` 2 instead of 10 gives a first, a last and
no try; one message sheet is open or not. In sessions, one identify call and one enrollment give a replaced and a
current manager; `MaxAsks` 2 is a subscription and its confirmation after a reconnect; `MaxTroubles` 1 is one failed
request, one connection lost and made again, or one lost for good; `MaxSheets` 0 because the sheet only delays the
tries. Two RAF screens are a closed one that lingers and an open one; the lists have one campaign in each of its three
states and one active, so that both screens may be for the same campaign, for two, or for one without link; one
repeated list and one refused request each meet every interleaving. Three launches are a crash, a launch that is told
of it and one that must not be. A buffer of 3 bytes with pieces of 1, 2 and 4 has pieces that fit, that force a flush
and that go past the buffer; 7 bytes fill the read window more than twice. Two threads and two events are a crash
during another's handler; two faults are a crash of the reporter and one of the handler that tells of it; `MaxReports`
8 is never reached. One kept report and three written ones make pruning delete; `Block` 4 and `LowSize` 12 let the low
word wrap after three seconds, so that identifiers begin again, as 2^23 and 2^32 do after 512 s; `store_old` has
launches at seconds 2 and 4, so that the later one's identifiers are smaller and neither's begin at 0. Four calls with
names and strings that can and cannot be written, a sink of 16 characters that fills up and one of 200 that does not;
a window of 26 is longer than one member and shorter than two. Three threads and two updates are a list that shrinks
and one that grows.

**Deadlock** is checked for `AMBConversion`, where a restart is always possible. The other specifications may stop:
all calls made, timers off, sockets closed, the process exited, the bounds used up, the one question of `MCTools`
answered.

**Fairness.** `AMBConversion`: every POST gets an answer, an error in the worst case (`NSURLSession` has a time-out).
`AMBIdentify`: a scheduled timer fires, a dismissal ends, the minimum time passes, a message sheet is closed in the
end (the page cannot be presented over one). `AMBIdentifySession` and `AMBServiceSelector` have specifications without
fairness for safety and `HealthySpec`, in which the service answers what it is asked: liveness of a session is not
claimed for a service that does not, and the code gives no such guarantee (the hazards say what happens then). A
queued reconnect fires. In `AMBServiceSelector` an answer may be a refusal, and `LoadingEnds` is claimed with it.
`KSCrashMonitor`: a thread that is not suspended runs unless it is where it `MayWait` for a lock, and the kernel
delivers signals and messages; nothing else. Nothing is assumed about taps, host calls, lost connections, faults or
the order of events.

**Assumptions about the kernel**, which the source does not show: the default action of a signal ends the process also
when the thread is suspended; a thread whose handler fails with the signal it handles gets the default action; the
clock does not go back between launches; `O_EXCL` refuses a file that exists; `task_threads` names a thread once; a
copy of memory through the kernel happens in whole or not at all.

## 4. Proofs

Every theorem is for any values of the constants that satisfy the module's named assumption (sets of calls, users,
campaigns; natural bounds; the special values are not members).

* `AMBConversion_proofs`. `IInv` adds to the type invariant what an answer says about the rest of the state
  (`OutcomeInv`: a waiting call has exactly one POST, its first; a successful one has no row and no POST; a refused
  one left no trace) and what ties POSTs to rows (`RowInv`: row identities grow, a POST carries its row's conversion).
  "Taken exactly once" is not inductive without either: a restart could otherwise leave a POST behind for a row of
  another conversion. Theorems: `TypeCorrect`, `ErrorsStayLocal`, `SuccessIsFinal`, `InstallFlagSound`, and
  `KeepsDelivery`, that the module implements `AMBConversionDelivery`.
* `AMBIdentifySession_proofs`, for the device and for sessions. `Good` is a predicate of the record of `AMBIdentify`
  that each handler keeps, so that both modules use the same lemmas: a waiting block was not called, whatever will
  complete identifying has seen the fingerprint (`DeviceInv` speaks of the armed timer and of the blocks that wait for
  a dismissal), and a complete process has no page. `AnswerInv(s, n)` says for one block that its answers, and one
  more while it waits, are at most the n times it was asked for. Theorems about `AMBIdentify`: `TypeCorrect`,
  `AnsweredOnce`, `CompleteHasFingerprint`, `CompleteHasNoPage`. `SInv` adds to the device's part what each manager's
  record says of the rest (`Tidy`): a manager that may run a completion has one, is confirmed only where it is
  subscribed and subscribed to nothing it has closed, and what it has closed or may close the service has granted, so
  that no later completion, confirmation, reconnect or grant brings it back. Theorems about `AMBIdentifySession`:
  `SessionTypeCorrect`, `SessionAnsweredOnce`, `ClosedIsQuiet`, `ClosesOnlyKnowing` (an action property).
* `AMBServiceSelector_proofs`. `IInv` adds to the type invariant that the attempt flag counts enrollments, that only
  the latest screen is open and nothing observes before it was presented, and that the e-mail prompt comes before a
  screen. The order is what makes the stored URL object the open screen's: it is told last; or the stored object is
  empty and the stored list without the campaign (`Credited`), as `unidentify` leaves it. Theorems: `TypeCorrect`,
  `EnrollsAtMostOnce`, `ShownIsStored`, and `StockCredited`, whose invariant `LInv` adds that a screen's URL object
  and the link of its stock sheet are its own campaign's or none: while the sheet is up, its screen is the last to be
  told of a list, so the stored object is of that campaign too, or none.
* `KSCrashAppState_proofs`. `IInv` is what a launch will load after any prefix of a save: types, the stages a save may
  be in, that a crash is noted on disk as soon as its element is (`CrashNoted`), that counters cover launches
  (`CountersCover`) and that durations are bounded by the time since the last transition (`Aged`). `CrashReportedOnce`
  is not inductive: it says nothing of the file. Theorems: `StateInvariant`, `TypeCorrect`, `CrashReported`,
  `Sessions`, `Durations`, for any number of launches.
* `KSFileUtils_proofs`. `WInv` adds to `WriterKeepsOrder` the types, that nothing waits for the kernel but during a
  flush, a direct write or a close (`WriterStages`), and that a piece written straight to the file finds the buffer
  empty (`Roomy`); without the last the direct write would overtake what waits. Theorems: `WriterInvariant`,
  `KeepsTheOrder`, `StaysInTheBuffer`, and `IsALog`, that the writer implements `KSFileLog`, for a buffer of any
  length and pieces of any lengths. For the reader, `RInv` adds that the window is the piece of the file behind what
  was given (`Window`), which `Moved` keeps only because it is called with an empty window, and that a search goes on
  only over bytes that are not the character. Theorems: `ReaderInvariant`, `ReadsInOrder`, `SearchesStop`.
* `KSCrashReportStore_proofs`. `StoreInv` has a part per question: which files there may be and that what is set aside
  was never finished (`FileInv`), that nobody sends where there is no process (`StageInv`), where the crash's report
  is at each step of a recrash (`CrashInv`), what a send that saw no change still reads or has handed over
  (`SendInv`), how many identifiers a launch has used (`IDInv`), that files are as old as their identifiers say
  (`OrderInv`), that a finished crash is stored (`StoredInv`), and that what is left to prune is smaller than what is
  kept (`PruneInv`). `PruneKeepsNewest` is about ages and pruning looks at identifiers, so it needs `OrderInv`, and
  that needs `IDInv`: a launch has fewer reports than a second has identifiers (`BlockAssumption`; the code has 2^23,
  and 2^32 values of the low part, a multiple). Theorems: `StoreInvariant`, `StoreTypeCorrect`, `PrunesOldest`,
  `LostInARace`, `CrashStored`, for any number of threads, reports and launches.
* `KSCrashMonitor_proofs`. A suspend count of at least 1 is not inductive, because every handler that ends resumes
  every thread once: `HeldInv` counts the handlers that hold a thread (`Holders`) and says that its count is never
  less, and that a handler that stops the program holds all others from its check to its end. `LoneInv` follows one
  event: all is `Quiet` before it; then there is one handler, or a signal or message on its way to one (`OneHandler`);
  before the report is complete nothing was uninstalled (`BeforeReport`), and afterwards everything is before the
  event goes on (`AfterReport`), so no second handler begins. Theorems: `TypeCorrect`, `AloneWhileWriting`,
  `LeavesAReport`, for any number of threads and for Mach, signal, C++, Objective-C and user events. `OwnInv` says
  whose report `g_lastCrashReportFilePath` names while handlers write, which needs the shape of the stacks (`Shape`),
  that a second crash is noticed (`Noticed`), whom a message is about (`Messages`) and when the second exception
  thread sleeps (`Awake`). Without exception threads (`NoMach`) it is the innermost report of a stack until everything
  is uninstalled (`WritesAsLast`). With them the first alone handles a crash until a second one is noticed
  (`FirstAlone`), so it can only overtake the report of an event that is not fatal; the thread of that event is then
  held until no handler is left (`Overtaken`), for which a thread that stopped the others before it failed must be the
  last in the queue of messages (`LastInQueue`). Theorem: `RecrashesIntoItsOwn`.
* `KSCrashReport_proofs`. `CacheInv` says, for each step of the exchange of the lists, which of the two holds the new
  one, how long each is and that the count fits both (`BeforeSwap`, `WhileSwapping`, `AfterSwap`), and whose names are
  where (`NumbersInv`): names that were freed are of an update before the one whose names can be found. So a crash
  between any two steps finds every name. `ThreadsInv` says that the entry of the crashed thread is in the report
  exactly when its turn has come; that there is one rests on `ListInv`, as the kernel names a thread once
  (`ThreadListsAssumption`). The search of the memory is recursive through its own callees, by way of a state that is
  handed on. `Approximates` is a search for limits up to n, of which one is made from the one for n - 1
  (`NextApproximation`), because a call hands on less of the limit than it was given; `Writes` is what a call does to
  the state, `LoopInv` what the calls for an object's ivars do one after the other. The bound is not the limit: an
  object that takes the limit below zero still writes all its ivars, and each of those exactly one object
  (`LoopStep`), which is where the `MaxIvars` in it comes from. `RulesInv` says that the length of the list of classes
  is the list's own but between the two writes that replace them. `ClosedInv` adds that nothing is opened while the
  application runs, so what is in a report was written under the list it is judged by. Theorems: `ReportInvariant`,
  `ReportTypeCorrect`, `NamesCanBeRead`, `ShowsOneCrashedThread`, `SearchEnds`, that the recursive function is what
  its body says for every graph, and `OpensWhatItMay`, for any lists of threads, object graphs, limits and lists of
  classes.

Only model-checked: liveness (`CompletionDelivered`, `KnownDeviceCompletes`, `IdentifyEnds`, `CallAnswered`,
`LoadingEnds`, `CrashEnds`), because TLAPS has no ENABLED and so no fairness; and everything about recursive data
(`KSJSONCodec`, what `MCTools` calls, the demangler), which would need induction over documents, scripts of calls,
stacks and trees. The recursion of `KSCrashReport` is over a number, so a least counterexample (`LeastOf`) takes the
place of an induction theorem.

## 5. Not modelled

Contact sharing, the contact loader and LinkedIn's log-in page: screens that keep a selection, a cache and a token;
their hazards are listed, and what a share credits is in `AMBServiceSelector`. Pusher client and web socket: vendored;
`AMBIdentifySession` has what they show the SDK (a confirmed subscription, a confirmation again after a reconnect, a
disconnect). Requests and JSON (`AMBNetworkManager`, `AMBNetworkObject`): the modules have requests, answers and
failures. User defaults: variables of the modules. Conversion parameters: their outcome, well-formed or not, is in
`AMBConversion`. Layout, theme, cells, wording, rotation, clipboard, NPS survey and welcome screen: no state that
outlives the screen. `setUpCrashAnalytics` and the vendored Sentry client: configuration. The context monitors of the
crash reporter (system facts read once, and the deadlock watchdog, which is never switched on), the diagnosis in
words, filters, sinks, the logger and the C interface that passes calls on: no state of their own. Registers and the
bytes of a section of a report are data that no property tells apart. The vendored headers of LLVM, test applications,
storyboards and build files. UI test runs and iOS below 9, where `getIdentity` does nothing, and the busy wait of
`sendSynchronousRequest`, which blocks its caller. A stock share without a URL object, which ends the application, is
left out of `AMBServiceSelector`.
