# Patrons, specified

Patrons keeps a 32-bit Android app from running out of virtual address space:
it finds ART's *region space* in memory, and when the address space of the
process fills up it cuts unused regions off the end of that space. It does so
by writing into the runtime's own data structures, from a timer thread, under a
SIGSEGV handler of its own, while the app goes on allocating. These modules
describe that machinery and TLC checks it on small instances. TLAPS proves, for
every value of the constants, every safety invariant and action property that
TLC finds to hold but one (`ReadsBack`, about the decoders of bytes), and that a
shrink implements its abstract specification.

Paths in this text: `patrons_core.c`, `patrons_core.h` and `xhook/` are in
`src/patrons/src/main/cpp/`, `Patrons.java` and `_Patrons.java` in
`src/patrons/src/main/java/com/alibaba/android/patronus/`.

## 1. Inventory

| Component | State | Operations | Status |
|---|---|---|---|
| Native resize (`patrons_core.c`, `patrons_core.h`) | five records of the size of the space (`num_regions_`, `limit_`, `end_`, bitmap, memory map), the index of used regions, ART's region lock, the flag and the jump buffer of the fault guard | `shrinkRegionSpace`, `ResizeRegionSpace`, `ClampGrowthLimit__`, `CustomSignalHandler` | modelled: `RegionSpace`, abstract `ShrinkableSpace` |
| Automatic check (`_Patrons.java`, `Patrons.java`) | `config.auto`, the timer and its thread, `strictCount`, `currentRegionSpaces` | `AutoCheckerTask.run`, `_start`, `stop`, `inBackground`, `toForeground`, manual shrinks | modelled: `AutoCheck` |
| Initialisation and signal handlers (all of the above, `xh_core.c`) | `hasInit`, the monitor of `_Patrons`, `init_`, `has_exception_handle_`, three chained SIGSEGV handlers | `Patrons.init`, `__init`, `FindSymbol`, `HandleSignal`, `NativeInit` | modelled: `PatronsInit` |
| Native log buffer | `dump_logs`, `dump_cursor`, `log_lock` | `__log_dump`, `dumpLogs`, `CleanLogBuffer` | modelled: `LogBuffer` |
| xhook: refresh, async thread, clear (`xh_core.c`, `xhook.c`) | init flags, two mutexes, a condition, the refresh thread, the SIGSEGV handler | `xhook_register`, `xhook_ignore`, `xhook_refresh`, `xhook_clear`, `xhook_enable_sigsegv_protection`, `xh_core_refresh_thread_func` | modelled: `XhRefresh` |
| xhook: reconciliation of `/proc/self/maps` (`xh_core.c`) | the tree of known libraries, the hook and ignore queues | `xh_core_refresh_impl`, `xh_core_hook` | modelled: `XhMaps` |
| xhook: ELF reading and slots (`xh_elf.c`, `xh_elf.h`) | `xh_elf_t`; the slots of the library, the saved old functions | `xh_elf_check_elfheader`, `xh_elf_init`, `xh_elf_hook`, the relocation iterators, the two symbol lookups | modelled: `XhElf`, with the pure parts in `XhReloc` and `XhSymbols` |
| xhook: page protection (`xh_util.c`) | the rights of the pages | `xh_util_get_addr_protect`, `xh_util_set_addr_protect` | modelled in `XhElf`; the cache flush changes no state |
| Tables of offsets, library paths, device models (`patrons_core.h`) | constants | `DefineOffset`, `GetArtPath`, `IsHuaweiBugDevice` | not modelled: tables |
| fopen hook for one vendor's bug (`patrons_core.c`) | none | `fix_huawei_fopen` | not modelled: stateless |
| Result file of init (`_Patrons.java`) | none | `asyncWriteInitResultToFile` | not modelled: I/O |
| `tree.h`, `queue.h` | | | not modelled: vendored BSD macros |
| Demo app (`src/app`) | | | not modelled: an example |

How they interact. The app calls `Patrons.init` once, or again until it
succeeds; inside, one JNI call finds the symbols of the linker through xhook,
installs a SIGSEGV handler and binds pointers into ART's heap. From then on
*two* kinds of thread reach the native code: the timer thread of the automatic
check and any thread of the app that calls `Patrons.shrinkRegionSpace`. They
share the region lock with ART's allocator and collector, and one flag and one
jump buffer with each other. The lifecycle callbacks of the app (main thread)
and the check (timer thread) share the static fields of `_Patrons` without
synchronisation.

What is hard, and what has to be true:

* *The resize.* A size is read and compared without the lock and written under
  it. A region with objects must never be cut off; whoever takes the lock must
  find one size, not two; the lock must come back whatever happens; a fault
  must cost the call, not the process; overlapping calls must not grow the
  space.
* *The controller.* Timers are started on four paths and cancelled on as many.
  In the foreground exactly one must be alive, in the background none; the
  counter of frequent checks and the period of the timer must change together;
  no request may go below the floor; no exception may reach the top of a
  thread; under lasting pressure the space itself must shrink down to the last
  step above the floor.
* *Initialisation.* It may fail and be retried, and several threads may pass
  the unlocked `hasInit`. Nobody may use the native code before its final
  check; the guard must not stay armed; a fault inside init must be got over,
  neither ending the process nor going round in its handlers for ever, and a
  fault that has nothing to do with Patrons must reach the handler that was
  there before.
* *The log.* A ring with an 8-bit counter that nobody reduces and a `memset`
  that clears a quarter of the slots: lines must not be freed twice, and a dump
  must show what was written.
* *xhook, one library.* Tables written by two kinds of linker are decoded by
  hand, and the result decides which words of a running program are
  overwritten. The slots found must be those the linker meant; a thread that
  calls through a slot at any moment must get home to the old function; pages
  must have their rights back, though the linker seals some of them meanwhile
  and a `dlclose` may take the library away.
* *xhook, all libraries.* The list of mappings changes while it is read and
  between two readings, and it is read through a buffer. What the tree holds must be what is mapped, and what it
  holds must be hooked; no entry may be in two trees.
* *xhook, life cycle.* Two one-time initialisations, a worker, a condition and
  two mutexes: no two scans at once, no scan without the SIGSEGV handler, no
  request lost, no clear that waits for ever for a sleeping worker.

The full list of hazards, each at its line with the properties that watch it,
is in `PROJECT.json`.

## 2. The modules

    ShrinkableSpace  <--- refined by ---  RegionSpace  <--- RegionSpaceProofs
          ^                                    ^
          | EXTENDS                            | EXTENDS
      AutoCheck  <--- AutoCheckProofs     MCRegionSpace
          ^
      MCAutoCheck

      PatronsInit  <--- PatronsInitProofs       LogBuffer  <--- LogBufferProofs
          ^
      MCPatronsInit

      XhReloc   XhSymbols
          ^         ^
          |         | EXTENDS
          +- XhElf -+                           XhMaps  <--- XhMapsProofs
            ^     ^                                ^
            |     +-- XhTablesProofs            MCXhMaps
         MCXhElf          ^
                          +-- XhElfProofs

      XhRefresh  <--- XhRefreshProofs

Each `...Proofs` module extends the module of the component and holds nothing
but its theorems, lemmas and inductive invariants. `XhTablesProofs` is about the
operators of `XhReloc`, `XhSymbols` and `XhElf`, `XhElfProofs` about the steps
of `XhElf`.

The three levels of xhook meet in single steps: `EndScan` of `XhRefresh` closes
what is one whole refresh in `XhMaps`, and `Hook` (or `Fault`) of `XhMaps` is
what is one run of `XhElf`. What the upper level takes for granted is what the
lower one shows: a scan is alone and protected (`ScansAlone`,
`ScanIsProtected`), a library hooked without a fault shows all its hooks
(`HookIsExact`).

**ShrinkableSpace** is what the rest of Patrons may assume of the region space:
`capacity` regions of which `used` are occupied, shortened in single steps to
sizes that fit.

**RegionSpace** is the native half of a shrink, one action for each memory
access that another thread can tell apart. `Call` is the entry of
`shrinkRegionSpace` with the arithmetic of `new_size * MB` (modulo 2^32, read
back as a signed `jint`); `Arm`, `SetJmp`, `Leave`, `Recover` and `Fault` are
the guard; `ReadUsed` and `CompareLimit` the unlocked half of
`ResizeRegionSpace`; `ExclusiveLock` to `ExclusiveUnlock` the body of
`ClampGrowthLimit__`; `ArtClamp` is ART's own method of the same name, used
from Android P on and modelled as one step (external; faults inside it are not
modelled). `Allocate` and `Collect` are ART, which touches the index of used
regions only under the region lock. `Fault` survives only as a jump back into
the frame of the same thread, which leaves the lock taken if it was taken. Two readings of undefined behaviour are
constants: `ResetModes` for the uninitialised `sa_flags`, `FaultPoints` for the
places where a wrong offset may fault. Sizes are in regions; every size in the
code is a whole number of them. Getters (`getCurrentRegionSpaceSize`) are the
operator `NonGrowthLimitCapacity`.

**AutoCheck** is the Java controller over `ShrinkableSpace`. Each read and each
write of a shared static field is an action, named after its method
(`Bg...` inBackground, `Fg...` toForeground, `St...` `_start`, `Ck...` the run
method of the task). A call of a method is a return point (`ret`). Timers are
objects with a thread each and are reused once nothing refers to them. Static
fields are treated as sequentially consistent, which is the kinder reading of
Java's memory model.

A call of `shrinkRegionSpace` by the check is three steps, as far as the size and
the use of the space can change in between: `CkUsed` and `CkLimit` are the two
comparisons without the lock, `CkClamp` is what `ClampGrowthLimit__` does under
it (`Clamp`). A refusal by `CkLimit` is answered with false, or with true when
the native guard is on (`guarded`). `Clamp` compares the use again and nothing
else, so it may do nothing, or let the space grow again after a smaller shrink of
the app's own; the answer is true either way. `ManualTest` and `ManualClamp` are
a shrink of the app's own. Faults in these calls are the subject of
`RegionSpace`.

`Overlap` is a bound: FALSE keeps callbacks and checks from running inside each
other, which nothing in the code does. `overlapped` remembers whether they have.
What is lost once they have is stated with `~overlapped` in the property itself,
so that the theorems about it cover overlapping threads up to that moment.

**PatronsInit** is the way from `Patrons.init` to its return code. Error codes
that take the same way out are one value. `handler`, `xhOld` and `patronsOld`
are the chain of three handlers; a fault is pending (`raised`) and delivered,
again and again, until a handler jumps or the process ends. The search of the
linker's functions is a loop: `Visit` raises xhook's flag around one library,
`Leave` lowers it with or without the functions found (`Visited`), and `Refresh`
goes on when no line is left; after a fault xhook's handler lowers the flag, jumps,
and the loop goes on with the next line. `sigaction` may fail (`MayFail`), for
xhook's handler (then nothing is ever searched) and for Patrons' (then the guard
is used all the same if an earlier init has set `has_exception_handle_`). Its
`sa_flags` is uninitialised: `Registered` is a handler with or without
SA_RESETHAND, as `ResetModes` allows; a handler with it serves one fault and
leaves the default action (`Spent`). `frail` (for the properties) remembers that a `sigaction`
failed or registered such a handler. `Overlap` says whether an unrelated fault
may be pending during init.

**LogBuffer** is the ring of log lines, with lines as numbers and `freed` for
the buffers given back. `__log_dump` takes four memory accesses (`Advance`,
`TestOld`, `FreeOld`, `StoreLine`); `CleanLogBuffer` two (`ResetCursor`,
`ClearSlots`).

**XhReloc** and **XhSymbols** are the pure functions of `xh_elf.c`: the signed
LEB128 decoder and the two relocation iterators (as the sequence a caller gets
before the first NULL), the two hashes and the two lookups. Widths are
constants (`DigitBits`, `WordBits`, `HashBits`, `ClassBits`). A word of the
bloom filter is the set of its bits, and the exclusive or of the hashes is the
symmetric difference of the sets of bits (`Xor`), so that theorems can be stated
over these modules. The tables a static linker writes are external
(`SysvTable`, `GnuTable`), with hashes of their own, written from their
definition and not from this code: the SysV hash as a shift register that feeds
its top bits back and is cut to size at the end, where the code cuts at each
character, and the GNU hash as the polynomial whose Horner form the code
computes.

**XhElf** hooks one library. `CheckHeader`, `ElfInit` and `ElfHook` read its
headers, dynamic section and relocations; then each slot takes `GetProtect`,
`Unprotect`, `SaveOld`, `Store` and `Restore`, separate steps because other
threads call through the slot, the linker seals RELRO pages (`Seal`) and
`dlclose` (`Unload`) may come in between. `FindOnly` is the registration
without a new function, which is how Patrons itself uses xhook. A library is a
record: headers, dynamic section, the contents of its tables by offset, slots,
pages, the registrations that apply (`hooks`), and what the linker wrote it
from (`linked`, `names`), which only the properties and the assumptions read.
`Wanted` is what one call of `xh_elf_hook` goes through for a symbol; `Meant`,
external, the slots the linker gave to that symbol; `Decoded` says that the two
agree. What the linker wrote into the tables is external as well
(`HashWritten`, `RelocsWritten`). `GetAddrProtect` is the result of the walk over the maps: the rights all
pages under a slot have in common.

**XhMaps** is `xh_core_refresh_impl`. `Refresh` opens the maps, or fails to and
leaves the old tree. `Fill` is `fgets` with an empty buffer: any number of the
lines to come is written down as they are at that moment (`lines`, up to address
`ahead`); `ReadLine` takes the next of them, however stale by then. `NotElf`,
`Existing`, `New` and `Repeated` are the outcomes for a line with a matching
hook. A mapping with an ELF header is "elf", or "odd" if `xh_elf_init` rejects
it. `Hook`, `HookNothing` and `Fault` are the outcomes of `xh_core_hook`: `Hook`
applies the registrations one by one and any of them may end in an error of
`xh_elf_hook`, which nobody looks at; `HookNothing` is a rejected library, or a
mapping that is gone; `Fault` cuts the row of registrations short. In all three
the library stays in the tree. `Sweep` drops what was not seen. `Map` and
`Unmap` are the rest of the process. Two variables are for the properties only:
`lost` holds the registrations that an error or a fault refused a library the
last time, `missed` the addresses of libraries the refresh cannot tell from
others: mapped where their file was known before, or in the place of another
whose line is written down and not worked off.

**XhRefresh** is the life cycle: registrations, `xh_core_init_once`,
`xh_core_init_async_once`, refreshes in both ways, the worker and
`xh_core_clear`, one action between any two accesses another thread can see.
A scan is the critical section from `BeginScan` to `EndScan`. The SIGSEGV
protection can be switched on and off at any time, as
`xh_core_enable_sigsegv_protection` only stores a flag (`xh_core.c:658`);
`switched` (for the properties) remembers that this was done after an
initialisation that had read the flag. The uninitialised `sa_flags` of xhook's
handler is a choice (`ResetModes`). `pending` (for
`RequestServed`) is an accepted request no scan of the worker has begun for.

Operators whose comment starts with "Mutant" are not part of a specification:
each is a plausible mistake in the action that follows it, kept to show that a
property notices it.

## 3. What the runs check

| Run | Configuration | What it shows |
|---|---|---|
| `region_race` | 2 callers, 3 regions, legacy and modern clamp, no guard | `UsedWithinCapacity`, `SizesAgree`, `ResizeIsDone` for overlapping resizes under allocation; `CallReturns` |
| `region_fault` | 1 caller, 4 regions, seven requests (two of which wrap), guard on and off, faults at every point, under the lock too | `TypeOK`, `FaultContained`, `LockLeftOnlyByJump`, and the whole call implements `ShrinkableSpace` |
| `region_grow` | as `region_race`, violation | a shrink that grows the space (`NeverGrows`) |
| `auto_check` | 2 timer objects, 6 units of space, steps of 2, floor 2, shrinks of the app, no overlap | `OneTimer`, `QuietWhenOff`, `WatchedWhenOn`, `AsksAboveFloor`, `StrictMatchesPeriod`, `ThrowsOnlyInOverlap`, `KeepsShrinking` |
| `auto_background` | with overlap, violation | a timer that survives in the background (`NoCheckInBackground`) |
| `auto_book` | as `auto_check` without shrinks of the app, violation | a resize that was not made is written down as made, and the watch goes on (`BookNotAhead`) |
| `init` | 2 threads, 3 inits, faults in search and native init, failing `sigaction`, `sa_flags` with and without SA_RESETHAND | `ReadyBeforeUse`, `GuardNotLeftArmed`, `FaultHasWayOut`, `InitFaultContained`, `FaultReportedAfterOneInit` |
| `init_twice` | 1 thread, 2 inits, violation | an unrelated fault that is never reported (`FaultReported`) |
| `log_buffer` | 1 thread, 4 slots, counter modulo 8, 1 slot cleared, 11 lines | `TypeOK`, `LinesAreOwned`, `DumpIsExact` |
| `xh_elf` | 1387 libraries, words of 8 bits, digits of 3, pages of 16 bytes, slots of 4, up to 2 passes | `TypeOK`, `ReadsBack`, `NamesFound`, `HookIsExact`, `OldLeadsHome`, `ProtectionKept` |
| `xh_maps` | 3 addresses, 2 files, 3 sets of registrations, 2 changes, 1 fault or error, 3 refreshes, any filling of the buffer | `KnownIsCurrent`, `HookedWhenKnown`, `OneTree` |
| `xh_refresh` | 2 callers and the worker, 4 calls, `sa_flags` with and without SA_RESETHAND, protection switched at any time | `TypeOK`, `ScansAlone`, `ScanIsProtected`, `HandlerOnce`, `RequestKept`, `RequestServed`, `CallReturns` |

Bounds, and why they are enough:

* `RegionSpace`: two callers show every pair of orders; the argument of the
  proof is about one thread against "another", so a third adds none. Three or
  four regions leave room for a used part, a target above it and one below.
  `Word = 16` makes both effects of the multiplication reachable in
  `region_fault` with the requests 9 (negative) and 17 (wrapped to a small
  size), and a request of 5 is larger than any space. The runs with two callers
  leave the wrapped requests out, to which a second caller adds nothing.
* `AutoCheck`: the largest space takes three steps to the floor and the app's
  own shrinks land above and below it. `MaxStrict = 5` and `PeriodOfCheck = 30`
  are the program's own defaults. Two timer objects are the fewest with which
  one can be lost; a leak shows up before a third is needed, since `OneTimer`
  speaks of every quiet state.
* `PatronsInit`: three inits by two threads are the shortest way to a retry
  after a retry and to two threads past `hasInit`. `MaxInits` is the one
  counter that is cut off. `init` takes no unrelated fault during an init
  (`Overlap`); the theorems do.
* `LogBuffer`: the counter is twice as long as the ring, as in the code (256
  and 128), one quarter of the slots is cleared, as in the code, and eleven
  lines pass both the ring and the counter. `MaxLines` is the bound.
* `XhElf`: five families of libraries, each for one kind of detail. Packed
  ones take every combination of the four group flags, offsets that go down as
  well as up (the sign), groups of several lengths and both entry formats.
  Named ones have names whose hashes collide, in one bucket and in several,
  defined and imported. Shaped ones vary headers and dynamic section, damaged
  ones included. Slot libraries vary pages, rights, RELRO, slots across a page
  border, failing `mprotect`, `dlclose` and the number of passes, with two
  registrations for one symbol in a first and in a second pass among them; one
  more lies below its own load address. A digit of the number format is smaller than the
  code's seven bits and no divisor of a word, as in the code.
* `XhMaps`: three addresses are the fewest with which a file is mapped twice
  and another moves, and with which a buffer holds more than one stale line; two
  changes move a file or replace one. Three refreshes show a library new, kept
  and moved or gone. `MaxChanges`, `MaxFaults` and
  `MaxRefreshes` are the bounds.
* `XhRefresh`: four calls are enough for a refresh, a request while a scan
  runs, a clear and another refresh. `MaxCalls` is the bound; the proofs do
  without it.

The type invariants of `AutoCheck`, `PatronsInit` and `XhMaps` are part of no
run here: they are proved (`TypeCorrect` in the three proof modules), as they are for
the modules whose runs do check them.

`CHECK_DEADLOCK FALSE` stands where the system really stops: when the process
has ended (`region_fault`, `auto_background`, `init`, `init_twice`), when a
bound has been used up (`init`, `log_buffer`, `xh_maps`, `xh_refresh`), or when
the hooking of the one library is over (`xh_elf`).

### Fairness

* `RegionSpace`: a thread that can run does run (weak fairness of `Step`); a
  thread waiting for ART's region lock gets it if it is free again and again
  (strong fairness). The lock is a mutex that wakes its waiters, and ART's own
  threads hold it for a bounded time. Nobody has to call, allocate or fault.
* `AutoCheck`: running threads run on, and a live timer fires. Nobody has to
  move the app between foreground and background; `KeepsShrinking` asks for
  pressure that lasts and an app that stays in front.
* `PatronsInit`: the kernel delivers a pending signal, a running caller runs
  on.
* `XhRefresh`: a thread inside xhook, and the worker, run on (weak fairness);
  nobody has to call. Weak fairness is enough for the mutexes as long as
  finitely many calls compete for them (`MaxCalls`); against endless calls of
  others a caller would need a fair mutex. A wait on the condition needs no
  spurious wake-up: `WakeUp` is allowed and not fair.
* `LogBuffer`, `XhElf` and `XhMaps` have no liveness property.

### Assumptions a reader should know

* `ResizeIsDone` is as much as the code's report can mean:
  `ClampGrowthLimit__` returns nothing, and between the two tests of the use the
  allocator may take the regions that were to go.
* `AutoCheck`: most properties are promised only until a callback or a check
  begins inside another (`~overlapped`). That is no assumption about the program,
  which does nothing to keep them apart, but the extent of what it keeps:
  `auto_background` shows a timer that is lost that way, and `NoCrash` fails when
  `Overlap` is set. `WatchedWhenOn` survives overlaps. A new timer's first
  check starts after the check that created it has ended.
* `KeepsShrinking` asks for pressure that lasts, an app that stays in front,
  objects that fit below the floor and no shrinks by the app itself. Without the
  third a check may rightly be refused and give up.
* `FaultContained` and `RefinesShrinkableSpace` are for one caller at a time:
  the flag and the jump buffer are one per process, and the test against
  growing is not repeated under the lock.
* `LockLeftOnlyByJump` says what the code keeps: every return path gives the lock
  back. The jump out of a fault between lock and unlock skips
  `ExclusiveUnlock`, and the next one who wants the region lock, ART's allocator
  included, waits for ever. The code reads its pointers there without a test
  (`patrons_core.c:169`), so the model lets a fault strike there too.
* `FaultHasWayOut` and `InitFaultContained` are for the first two inits of an app
  in release mode whose `sigaction` calls neither failed nor set SA_RESETHAND and
  that has no unrelated fault at the same time: in debug mode the guard is off,
  a one-shot handler leaves the default action behind, and from the third init
  on a fault of the search never leaves the handler (see below).
* `DumpIsExact` is for at most as many lines as slots since the last cleaning;
  `LinesAreOwned` and `DumpIsExact` are for calls that do not overlap, which a
  comment in the code asks for ("LOGE not thread safe").
* `XhRefresh`: `xhook_clear` is called while no other thread is in a call of
  xhook. It writes the flags without a lock, and two clears would join the
  worker twice. `ScanIsProtected` and `HandlerOnce` are for a protection that is
  not switched between an initialisation and the next clear: on, too late, and
  scans raise the flag with no handler there; off, before a clear, and the
  handler stays installed, to be saved by the next initialisation as its own
  predecessor. Patrons makes one call, before its first refresh
  (`patrons_core.c:43`). `ScanIsProtected` is also for a handler that does not reset
  itself.
* `XhElf`: the library has been relocated when it is hooked, it has DT_PLTREL
  (xhook knows from nothing else whether entries are Rel or Rela), numbers of
  the packed format are not longer than they need be (a shift past the word is
  undefined in C). One line of `/proc/self/maps` stands for one page.
* `OldLeadsHome` allows several passes over one library and registrations that
  share slots, but not a claim about both at once: in a second pass the first of
  two registrations for one symbol saves the function of the second, which leads
  back to the first. `ReplacedInOnePass` in the property says so; `HookIsExact`
  and `ProtectionKept` hold there too.
* Constants carry named assumptions, which TLC evaluates on every run:
  `ConstantsAssumption` (`RegionSpace`), `ControllerAssumption` (`AutoCheck`: a
  step and a floor above 0, whole seconds), `InitAssumption` (`PatronsInit`),
  `LogAssumption` (`LogBuffer`), `MapsAssumption` (`XhMaps`),
  `ThreadAssumption` and `ResetAssumption` (`XhRefresh`), `ImagesAssumption`,
  `LinkerAssumption` and `TablesAssumption` (`XhElf`), `WidthAssumption`
  (`XhReloc`), `BitsAssumption` (`XhSymbols`), `MaxSizeAssumption`
  (`ShrinkableSpace`). `ImagesAssumption`: slots lie on the pages of the
  library and hold what the linker put there, and the pages it is to seal are
  writable data until then. `LinkerAssumption`: a symbol has one address, so its
  slots hold one function.
  `TablesAssumption`: the tables of a library that xhook takes are those a linker
  writes. Its hash table is built over its symbol table; names are unique and
  the nameless entry 0 is nobody's; the plain sections list the words of its
  relocations; the relocations that xhook patches lie in slots of the library,
  and the procedure linkage table holds one jump slot for a symbol, which is
  what lets the search of the PLT end at its first hit.
* `HookedWhenKnown` excepts the libraries in `missed` and the single hooks in
  `lost`, which an error or a fault refused; the code tries neither again.
* `KnownIsCurrent` takes the rule for ignored symbols as the code has it: the
  first matching registration decides.

### Disagreements found

1. *A resize that was not made is taken for one* (`BookNotAhead`,
   `patrons_core.c:332`): the check writes the new size into
   `currentRegionSpaces` ("the current size", `_Patrons.java:51`) before it asks,
   and is answered true in two ways when nothing was done. The guarded branch
   drops the result of the resize (lines 332, 350), so "resize failed, stop
   watching" (`_Patrons.java:249`) is out of reach in the default mode; and with
   the guard off the clamp does nothing when regions were taken since the first
   test (line 68), and the caller reports success (line 312).
2. *A shrink can grow the space* (`NeverGrows`, `patrons_core.c:295`): the test
   behind "can not grow region space" is made before the lock only.
3. *A check can go on in the background* (`NoCheckInBackground`,
   `_Patrons.java:157`), by a check that is inside `_start`, or inside `stop`,
   when the callback comes.
4. *A second init blocks crash reports* (`FaultReported`,
   `patrons_core.c:249`): Patrons' handler becomes its own predecessor.

Others, visible in the models and without a run of their own. Four can be seen by
checking a definition that is kept for it:

* a callback and a check that overlap can crash the app, as the timer field is
  read twice (`_Patrons.java:158`), though `README.md:43` of the library promises
  no new crashes: `NoCrash` of `AutoCheck` with `Overlap = TRUE`;
* from a third init on a fault of the search goes round for ever in
  `CustomSignalHandler`, its own predecessor by then, with the monitor held
  (`patrons_core.h:378`), though xhook's "segment protection" is on
  (`patrons_core.c:42`): `SearchIsProtected` of `PatronsInit` with one caller and
  `MaxInits = 3`;
* the address reported for a hook is that of the last mapping of the file
  (`xh_core.c:391`), not of the one that is kept and hooked, "the real base
  address" (lines 401, 431): `ReportedBase` of `XhMaps`, two addresses are enough;
* the answer of a guarded shrink is true for a resize that was refused:
  `ReportsTruth` of `RegionSpace` with the guard on.

Besides: after 256 lines `dumpLogs`
says that a full log is empty (`patrons_core.h:40`); a hook can be registered
while a first refresh scans the queue, although `xh_core.c:149` says "do not
register hook after refresh()" (`Insert` with another thread at `scan`); a
protection switched on after the first refresh protects nothing
(`xh_core.c:658`); a library whose first matching registration is
ignored is not hooked at all (`xh_core.c:381`); a library that returns to its
old address, or whose hooking failed, is not hooked again (`xh_core.c:413`);
a page stays writable when a fault comes between the two changes of its
rights, and a slot across two pages takes rights from one of them; two
registrations for one symbol call each other for ever when they are cleared
and made again. Strict mode lasts four
frequent periods where `Patrons.java:99` says ten; `periodOfCheck = 1` makes
`Timer.schedule` throw; a fault of another thread between `sigaction` and the
assignment of `sig_act_old` meets the default action; `hasInit` can be reset to
false by a second init that fails after a first that succeeded.

## 4. What is proved

Every theorem is `Spec => []Property` for all constants that satisfy the
assumptions of the module, or an action property or a refinement in the same
form. The common layout: few of the properties are inductive, so each module
defines an invariant that is, with named parts, shows with one lemma per part
that `Init` gives it and every action keeps it, and derives the properties.

### The region space

`RegionSpaceProofs` proves, for any number of callers, any size of space, any
set of requests and either kind of clamp:

| Theorem | Property | From |
|---|---|---|
| `TypeCorrect` | `TypeOK` | `TypeInv` |
| `UsedIsNeverCutOff` | `UsedWithinCapacity` | `SpaceInv` |
| `ResizeIsAtomicUnderLock` | `SizesAgree` | `SpaceInv` |
| `LockLeftByUnlockOrJump` | `LockLeftOnlyByJump` | `TypeInv` |
| `ResizeImplementsShrink` | `RefinesShrinkableSpace` | `SpaceInv`, `BelowLimit`, one caller |
| `SpaceNeverGrows` | `NeverGrows` | the same |
| `FaultCostsTheCallOnly` | `FaultContained` | `Guard`, one caller, no `SA_RESETHAND` |
| `ReportedResizeIsDone` | `ResizeIsDone` | `SpaceInv`, `Through` |

*Assumptions.* `ConstantsAssumption` (what the constants are) for all of them.
No theorem restricts where a fault may strike. `OneCaller` for the
refinement and `SpaceNeverGrows`, because of finding 2, and for
`FaultCostsTheCallOnly`, because the flag and the jump buffer are one per
process; that one takes `ResetModes \subseteq {FALSE}` as well, since a handler
with SA_RESETHAND serves one fault only. Finding 2 is `NeverGrows` with two
callers: the theorem shows that the second caller is all it takes.

*The argument.* `TypeInv` is `TypeOK` and the fact that a target inside the
clamp is one that `MaxRegions` bounds: without it `limit' = target[t]` leaves
the type. None of the safety properties is inductive. `UsedWithinCapacity`
says nothing of the thread about to write the bounds; `SizesAgree` nothing of a
state in which the lock is taken. `SpaceInv` adds

* `OwnsLock`: a thread at a locked point owns the lock, so there is at most one
  and the allocator is kept out;
* `RoomForUsed`: between the second check and the writing of the bounds, the
  target is still above the used regions (nobody allocates under the lock);
* `WriteOrder`: which of the five records the owner has updated at which point,
  so that at the unlock they agree.

For the refinement, `BelowLimit` says that what the unlocked comparison saw of
the limit still holds when the limit is written. A second caller would break
it. The abstract shrink happens at `SetBounds`, or at `ArtClamp`; everything
else is a stutter, an allocation or a collection, and so `NeverGrows` follows
from the step of the refinement.

`ResizeIsDone` is an action property for any number of callers. The report is
the unlocking step (or ART's own clamp, one step here), so nobody else resizes
between the last write and the report. `Through` is what `SpaceInv` lacks: a
thread about to unlock has set the limit to its target, or has found the use
at the target or above it and set nothing.

`FaultContained` speaks of a process that is alive, and says nothing of the
point at which a fault would end it. `Guard` does: with the guard on, the flag
is up from `sigsetjmp` to the end of the resize, the jump buffer is the frame
of the thread inside, and the handler is installed.

### The automatic check

`AutoCheckProofs` proves, for any number of timer objects, any sizes, steps,
floors and periods, with callbacks and checks overlapping or not:

| Theorem | Property |
|---|---|
| `TypeCorrect` | `TypeOK` |
| `OneTimerLives` | `OneTimer` |
| `NothingFiresWhenOff` | `QuietWhenOff` |
| `ForegroundIsWatched` | `WatchedWhenOn` |
| `FloorIsKept` | `AsksAboveFloor` |
| `FrequencyMatchesCounter` | `StrictMatchesPeriod` |
| `MeetingThreadsThrow` | `ThrowsOnlyInOverlap` |

*Assumptions.* `ControllerAssumption`. `MeetingThreadsThrow` needs
`PeriodOfCheck >= 2` as well, since half of 1 is 0 and `Timer.schedule` throws.
`TypeCorrect` and `ForegroundIsWatched` hold however callbacks and checks
overlap. The others say "as long as nothing has overlapped" in the property
itself: with overlap TLC refutes each of them without these words.

*The argument.* The properties speak of quiet states, in which no thread is
inside a method. `Inv`, kept as long as nothing has overlapped, carries them
through the methods: `Alone` (one thread
at a time), `Callers` (where a thread is tells who called: `inBackground` is
reached from a callback or from a check that gives up), `FieldAndTimers` (the
field and the live timers agree, but for the points between `cancel`, the
assignment behind it and `schedule`), `CounterAndPeriod` (the counter agrees
with the period of the timer or, on the way to a restart, with the argument of
`_start`), `Book` (a request stays above the floor from its computation to the
clamp) and `Safe` (nothing was thrown).

`Loose` is what is left of that with overlap. The field may then point to one
timer while another lives, so nothing about the field can carry the watch.
`StillWatched` says instead that in the foreground, while automatic checking is
on, some timer lives, or a thread is on its way to create one (`Restarting`), or
a timer's thread is giving up (`GivingUp`). `Called` is the part of `Callers`
that does not count threads.

### Initialisation

`PatronsInitProofs` proves, for any set of threads, any error codes and any
number of inits:

| Theorem | Property | From |
|---|---|---|
| `ReadyIsEarned` | `ReadyBeforeUse` | `InitInv` |
| `GuardsComeDown` | `GuardNotLeftArmed` | `InitInv` |
| `InitFaultsFindAWayOut` | `FaultHasWayOut` | `InitInv` |
| `TypeCorrect` | `TypeOK` | `InitInv` |

*Assumptions.* `InitAssumption`; unrelated faults at any time, failing
`sigaction` and one-shot handlers included. What `FaultHasWayOut` asks for
(`Guarded`) is in the property: the first two inits, release mode, handlers that
got in place and stay there, no unrelated fault.

*The argument.* `InitInv` says who owns the monitor (`OwnsMonitor`), where a
thread may stand with a fault pending (`FaultsInside`), which guard is up at
which point of its owner (`Armed`), that a code stored as success has passed
`NativeInit` (`Earned`), which flags of earlier inits a point implies
(`Started`), and, as long as `Guarded`, what the chain of handlers looks like
(`Chain`): in a first init xhook's handler stands alone until Patrons' comes
before it; in a second, Patrons' stands before it from the start, and behind
itself from `HandleSignal` on, when xhook's is not needed any more.

`FaultHasWayOut` is the safety half of `InitFaultContained`: as long as it
holds, one delivery or two bring the fault to a jump.

### The log buffer

`LogBufferProofs` proves, for any number of threads and lines, any length of the
ring, any range of the cursor and any extent of the `memset`:

| Theorem | Property |
|---|---|
| `TypeCorrect` | `TypeOK` |
| `LinesStayOwned` | `LinesAreOwned` |
| `DumpShowsTheRound` | `DumpIsExact` |

*Assumptions.* `LogAssumption`, and `~Overlap` for the last two: nothing in the
code keeps two writers apart. The type invariant holds for overlapping calls.

*The argument.* `Owned`: a line is in one slot only, and a line on its way into
the ring is newer than all that is stored or freed; hence it cannot be freed
twice. `Content`: as long as the lines since the last cleaning fit the ring,
they stand in its first slots in order and the cursor counts them, whatever
older lines the `memset` has left behind them. Its parts are `Rounds`,
`Prefix`, `Counting`, `Aimed` and `Copied`.

### The reconciliation of the maps

`XhMapsProofs` proves, for any number of addresses, any files and
registrations, and any number of refreshes, faults and changes of the mappings:

| Theorem | Property |
|---|---|
| `TypeCorrect` | `TypeOK` |
| `NoFileInBothTrees` | `OneTree` |
| `TreeIsTheWorld` | `KnownIsCurrent` |
| `KnownIsHooked` | `HookedWhenKnown` |

*Assumptions.* `MapsAssumption` only.

*The argument.* `KnownIsCurrent` speaks of what a calm
refresh leaves behind. While it is under way, the new tree has each file at the
first of its libraries read so far (`Scanned`), the buffer holds the lines
between the last one read and the last one written down, and while nothing
changes they are those of the world (`Buffered`), and the line in hand is that of
a mapping which still stands or is counted as missed (`LineIsCurrent`).
`Hooked` holds calm or not: a library
whose file is in one of the trees at its address has all its hooks but those it
was refused, unless the refresh is about to apply them, and none of another
file.

### One library: its tables

`XhTablesProofs` proves what the lookups and the searches return, for every
symbol table, number of buckets, bloom filter and list of relocations:

| Theorem | What it says |
|---|---|
| `SysvLookupFinds` | `HashLookup` in a `DT_HASH` table finds a name at an index that bears it, or `NoIndex` if there is none |
| `GnuLookupFinds` | the same of `GnuLookup`, through bloom filter, bucket and chain, and of the imports outside the table |
| `PlainTableReadsBack` | the plain iterator yields the relocations a table was written for |
| `HitsAreExact` | the search of a section yields the offsets for a symbol, all and no others |
| `CallsFindSlots` | `Decoded`: a registration is led to the slots of its symbol |

*Assumptions.* The first four speak of operators and take theirs in the
statement: the table is the one a linker writes, and both hash functions agree
on the names concerned. `CallsFindSlots` takes `TablesAssumption` and the
hypothesis `BytesAreRead`: for each library that xhook takes, its hash functions
give the linker's numbers (`HashesAgree`) and the packed section unpacks to what
was packed (`SectionIsRead`). These two are folds over bytes, which the provers
cannot carry out; TLC checks both of the 1387 libraries of `xh_elf`, in
`ReadsBack`.

*The argument.* A walk along a chain and the search of a list are recursive
functions. That such a function exists is not given (`WalkExists`,
`FilterExists`: the least index up to which there is none would have a
predecessor with one), and what it yields is shown the same way, by the least
index at which it would be wrong. For `DT_HASH`: a bucket holds the last symbol
of its hash and a chain leads to the one before (`SysvChains`), so a walk that
has passed an index has seen all symbols of the bucket from there on. For
`DT_GNU_HASH` (`GnuParts`): the defined names follow the order of their buckets,
so the symbols of one bucket are a run; the lowest bit of a chain word marks its
end and no earlier symbol, hence the first match in the run is the first match
at all, and the bloom filter holds both bits of every defined name. In the
search of the PLT the first hit is the only one.

### One library: its slots

`XhElfProofs` proves, for every set of libraries, registrations, pages and
slots:

| Theorem | Property | From |
|---|---|---|
| `TypeCorrect` | `TypeOK` | `Inv` |
| `NamesAreFound` | `NamesFound` | `Inv`, `NameIsFound`, `CallsFindSlots` |
| `RightsComeBack` | `ProtectionKept` | `Inv`, `Guarded` |
| `CallsGetHome` | `OldLeadsHome` | `Inv`, `Linked` |
| `HooksAreExact` | `HookIsExact` | `Inv`, `Linked`, `Reached`, `Passed` |

*Assumptions.* `ImagesAssumption`, `LinkerAssumption`, `TablesAssumption`, and
the hypothesis `BytesAreRead`. That each registration is led to the right slots
is no hypothesis: it is `CallsFindSlots`, used through `TablesRead`.

*The argument.* `Inv` adds to the types that what is left of a search belongs
to the registration at hand (`Course`).

* `ProtectionKept` says nothing of the points between the two changes of the
  rights, and so not what the second one brings back. `Guarded` does: what was
  saved may be put back (`Restorable`), or nothing had to be changed
  (`Lifted`). A library whose slots each lie on one page keeps exactly its
  rights; where a slot crosses a border, a page may lose some and gains none.
* `OldLeadsHome` speaks of what a slot shows now. Saving a function may
  overwrite the one that other slots need on their way, so `Chained` keeps for
  every registration where its saved function leads: to the original, or to a
  smaller registration for the same slots. It does so where no two registrations
  meet in a second pass (`Homeward`), which is as far as the property goes. A least registration without a way
  home is then a contradiction (`WaysExist`). `Shown`: a slot shows a new
  function only after the old one was saved.
* `HookIsExact` speaks of the end. `Reached` says how far the registrations
  before the one at hand have come, in every pass: a slot shows the last of those
  that cover it or, before the first of them, what it showed when the pass began
  (`Partial`, `ShownBefore`), which from the second pass on is the last
  registration of all (`Settled`); `Answered`, which of them have an answer;
  `Final`, the end. `Passed` says which slots of the one at hand are done.

### The life cycle of xhook

`XhRefreshProofs` proves, for any set of callers and any number of calls:

| Theorem | Property |
|---|---|
| `TypeCorrect` | `TypeOK`: a mutex is held exactly between its lock and unlock, the worker exists exactly while it can be joined |
| `ScansExclude` | `ScansAlone` |
| `ScansProtected` | `ScanIsProtected` |
| `HandlerSavedOnce` | `HandlerOnce` |
| `RequestIsKept` | `RequestKept` |
| `NoWakeUpIsLost` | `SleepsOnlyIdle`, a part of `RequestKept` |

*Assumptions.* `ThreadAssumption`: the worker and "nobody" are not callers.
`ResetAssumption`: what `sa_flags` may hold.

*The argument.* `ScansAlone` follows from the ownership of the refresh mutex in
`TypeOK`. The two about the handler are not inductive: nothing in them says
that the initialisation a scanning thread relied on still stands. `Inv` adds

* `CallKnown`, `ClearAlone`: a thread at a point of `xh_core_clear` is in a
  clear, and then every other caller is idle;
* `Ready`: a thread past the initialisation, or an existing worker, implies
  `xh_core_init_ok`, and the thread that installs the handler is the first;
* `Stopped`: from the removal of the handler on the worker is gone;
* `OneWorker`: only the first asynchronous refresh creates it;
* `Handlers`: which handler is installed and which is saved, by the flags, as
  long as the protection has not been switched.

`RequestKept`, with its part `SleepsOnlyIdle`, is the safety half of
`RequestServed` and of the return of a clear: as long as it holds, the worker is
where a step of its own brings it to the scan or to its end. `Runs` adds to it
`WorkerRuns`: while the worker can be used it is told to run, except while a
clear waits for its end, and it has ended only after it was told to. A wait that
returns without reason (`WakeUp`) and a failed creation of the thread are among
the steps.

### Only model-checked

* `ReadsBack`: that xhook takes a library exactly when it is sound, that its two
  hash functions give the linker's numbers, and that the packed section unpacks
  to what was packed. All three are folds, over the dynamic section, the
  characters of a name and the LEB128 bytes, and what a fold yields for every
  input is an induction with an operator as its parameter, which the provers
  cannot carry out. Its last two conjuncts are `BytesAreRead`, the hypothesis of
  the proofs; its part about plain sections is proved (`SectionsAreRead`).
* Liveness: `CallReturns` (of `RegionSpace` and of `XhRefresh`),
  `KeepsShrinking`, `InitFaultContained`, `FaultReportedAfterOneInit`,
  `RequestServed`. Proofs under
  fairness need `ENABLED`, which the prover does not handle.

### Not modelled

Tables of offsets, library paths and device models (constants); the fopen hook
for one vendor (stateless); the result file of init (I/O); `tree.h` and
`queue.h` (vendored; a tree is a function from file names here, a queue a
sequence or a length); the dumps under `XH_ELF_DEBUG`, which is 0; log levels;
failing allocations in xhook, which skip the one library or registration; the
demo app.

## 5. Plan

Every component with behaviour of its own has its module, and every safety
invariant and action property that a run checks has its theorem, but for
`ReadsBack`. What is left, and why:

1. `BytesAreRead`. It needs an induction principle for folds; with a prover that
   can instantiate one, `GnuHash` against the polynomial of `GnuHashOf` and
   `SlebNext` against a packer are the two statements to begin with.
2. Liveness, once `ENABLED` can be reasoned about. `RequestKept` is
   the invariant a proof of `RequestServed` would start from.
3. What holds of `LogBuffer` when calls overlap: nothing that is worth having
   without a lock in the code.
4. That a whole refresh of `XhRefresh` is one scan of `XhMaps`, as a refinement
   and no longer as an argument in the text. The two count their steps
   differently (a scan is a section there and a loop here), so it takes a module
   with both states side by side.
