# A TLA+ model of Bang

Bang is a UEFI bootloader: one thread, started by the firmware, that reads a
configuration, looks for installed loaders, asks which entry to boot, and boots
it. There is no concurrency inside it. What is hard about it is what surrounds
it: a user pressing keys while a clock runs, files and directories with any
content, allocations and reads that fail half way, fixed tables and buffers that
fill up, addresses that meet the width of their type, and parts that are each
right and disagree when put together. Little of that can be tested on a machine.

The modules model the code as it is, function by function; `PROJECT.json` maps
every definition to its lines. Source paths below are relative to the repository.

## The system

| Component | State | Operations | Hard cases | What makes it correct |
|---|---|---|---|---|
| Configuration, `src/config.rs` | `Config`, `default_title` | `load`, one effect per directive, the end of `parse` | `default` before the entry it names; entries dropped; bad arguments | the default is the entry the file means; a bad line costs nothing |
| Discovery, `src/discover.rs` | the list found, a buffer | `scan`, `probe`, `own_image`, `same_file` | volumes and reads that fail, names longer than the buffer, several loaders in one place, itself | what can be reached is found, once, in order; never itself |
| Startup, `src/main.rs` | `Config`, choice | merge, choose, dispatch | merging after the default was resolved; names written in another case; empty list | the default keeps its meaning; nothing twice; something starts |
| Menu, `src/menu.rs` | `selected`, `counting`, `remaining`, `ticks`, the screen | keys, ticks, leave | a key against the last tick; consoles without room | usable index; an attended machine is never booted by the clock; an honest screen |
| Chainloading, `src/chain.rs` | none | `boot` | the image returns | its outcome is the user's or the firmware's to see |
| ELF loader, headers, `src/elf.rs` | the file read | `load_kernel`, `detect_multiboot_version`, the boot mode | headers at the limits of the search, short files | the version found is the one the file has |
| ELF loader, segments, `src/elf.rs` | table of 32 records, memory | `load_segment`, header loops | segments sharing pages, full table, top of memory, truncated table | writes only its own pages but where a segment's end wraps; memory is exactly the segments |
| Boot modules, `src/modules.rs` | name buffer, list, memory | directory scan, `store_name` | any step failing for any file, full name buffer, long names | files that could be had, in order, intact, correctly named |
| Multiboot1 information, `src/multiboot.rs` | four areas of one buffer | `build_mb1_info` | more modules, longer names, a longer map than an area holds | the areas never touch; every module told of can be read |
| Multiboot2 information, `src/multiboot.rs` | four pages | `build_mb2_info` | a full buffer | a chain of tags inside the buffer, complete if there is room |
| The way out, `src/main.rs`, `reserve`, `find_rsdp` | free pages, the map | reserve, exit boot services, build | the map going stale, no room below four gigabytes | what was placed is intact and the map is true when the kernel starts |
| Trampoline, handoff, `src/trampoline.rs`, `src/handoff.rs` | CPU mode, registers, a page at a fixed address | the jump | an order the processor forbids, registers that are reused | the kernel is entered as it was built to be, with its arguments |
| Linux handover, `src/linux.rs` | file buffer, placements, `boot_params` | `read_file`, `boot` | short reads, alignment, sizes from the file, an initrd that cannot be had | kernel, command line and initrd whole, in memory of their own, where `boot_params` says |
| Framebuffer, `src/gop.rs` | none | a query | no display, an unusual format | |
| Banner, `src/console.rs` | none | text | | not modelled: prints text |

`main` calls the rest in order. Configuration and discovery share the list of
entries; the menu gets its length, the default and the timeout, and returns an
index; the loader, the modules, the information and the trampoline share the
machine's pages; the information is built from what the others have left; the
trampoline reads its arguments from registers its own work reuses.

## Modules

| Module | Models | Notes |
|---|---|---|
| `Choice` | what `menu::choose` promises `main` | abstract specification |
| `Menu` | `choose`, `plan`, `Layout` | implements `Choice` |
| `Paths` | how the filesystem takes the case of a name | shared by the next three |
| `Config` | `config::load`, `parse`, `builtin` | one action per kind of line |
| `Startup`, `MCStartup` | `main` up to the dispatch, `chain::boot` | extends `Config`, instantiates `Choice`; `MCStartup` has the spellings of a path and bounds the files |
| `Discover`, `MCDiscover` | `scan`, `probe`, `same_file` | gives `Startup` the list it takes |
| `KernelFile` | `load_kernel` around the segments, `detect_multiboot_version` | part of `Boot` |
| `Elf`, `MCElf` | `load_segment` and the header loops | `MCElf` has the headers TLC tries |
| `ElfKernel` | what placing the segments is to the rest of the boot | maps `Elf` to `KernelFile` |
| `Modules`, `MCModules` | `load_modules`, `store_name` | `MCModules` has the directory entries |
| `ModuleLoading` | what `load_modules` promises `main` | part of `Boot` |
| `ModulesBoot` | what the scan is to the rest of the boot | maps `Modules` to `ModuleLoading` |
| `MemoryTypes` | `efi_memtype_to_mb` | shared by the next two |
| `Mb1Info`, `MCMb1Info` | `build_mb1_info` | `MCMb1Info` has maps and modules |
| `Mb2Info`, `MCMb2Info` | `build_mb2_info` | likewise |
| `Trampoline` | `trampoline.rs`, `handoff.rs` | part of `Boot` |
| `Boot`, `MCBoot` | `main` from the chosen Multiboot entry to the kernel | extends `KernelFile` and `ModuleLoading`, instantiates `Trampoline` |
| `Linux`, `MCLinux` | `linux::boot`, `read_file` | `MCLinux` has the images |
| `MenuProofs`, `StartupProofs`, `ElfProofs`, `ModulesProofs`, `Mb1InfoProofs`, `Mb2InfoProofs`, `BootProofs`, `LinuxProofs` | | theorems |

**Menu.** One call of `choose` is one behaviour. `ReturnDefault` and `Start` are
what comes before the polling loop, every other action is one pass of it:
`KeyUp`, `KeyDown`, `KeyEnter`, `KeyDigit`, `KeyOther` for a key (with its
cancelling of the countdown and its redraw), `TickWithin`, `TickSecond`,
`TickLast` for 100 ms without one. Of the screen the state has the entry marked,
the status line, the cursor's row and whether the cursor is shown. A row the
console does not have is refused by `set_cursor_position`, and the callers
ignore that. `keyed` and `cause` are history.

**Config.** Any line may follow any other. Titles and paths are small sets, a path a
sequence of names `<<word, case>>`; a path that `CString16` cannot hold and a number that does not parse have actions
of their own, since what they do differs.

**Startup.** `Scan` takes any list of loaders that are distinct as files, in any spelling, `MergeNext` looks at one
of them, `Choose` is a step of `Choice`, `Dispatch` the match on the target. `Already`
compares paths letter for letter, as `main` does; `SameFile`, which the properties use,
compares what the filesystem sees of them. `written`, `found` and `keyed` are history.

**Discover.** A name is `<<word, case>>`: the filesystem and `same_file` see the
word, the comparisons in `probe` see both. `Locate`, `Probe`, `ReadEntry`, `Grow`
and `EndVolume` are the scan; `NoHandles`, `SkipVolume` and `ReadFails` are errors
the firmware may give at any of its calls. A read answered with
`BUFFER_TOO_SMALL` leaves the directory where it was, so `Grow` changes the buffer
and not `pos`. `reached` is history: how far each volume could be read, which is
what the properties compare `out` with. `Startup` has the list the scan returns; the
proof modules extend both, which is why the names of
`Discover` begin with `Scan` where `Startup` has one of its own. The titles `pretty` makes are left out.

**Elf.** Addresses are numbers below `PageSize * Pages`; sums the code does not
check are modulo that size, as in the release build `make build` makes. There is memory at
every address: a write to one that nobody gave goes through, where a machine may fault. Bytes of
the file are named by their offset, so memory says which byte of the file went
where. `AllocateRun` grants a run if all of it is free and `AllocateFails`
otherwise, as `AllocatePages(Address)` does. The ELF32 and ELF64 loops are the
same code over two layouts and are one loop here; a table past the end of the
file is `readable < Len(phdrs)`. `ElfKernel` says which page holds the kernel when loading is
over, and that to `KernelFile` all of it is one step, `PlaceSegments`, or a panic. The pages a
segment is copied over without asking, because its end wraps (`OverPages`), are the `over` of
`KernelFile`'s file, so that `Boot` has them written too.

**Modules.** The directory is a sequence the firmware hands out; a read answered
with `BUFFER_TOO_SMALL` does not advance it, as the UEFI specification has it
and as `probe` in `src/discover.rs` relies on. Opening, allocating and reading
may fail for every file. `refused` is history. A file that is read short keeps its pages
without being a module: `ModuleUnread` of `ModuleLoading`. `ModulesBoot` maps every pass of the
scan to a step of `ModuleLoading` or to none.

**Mb1Info.** Memory is kept byte by byte, a byte naming the part, the element and
the offset it belongs to, so that a write of one part into another shows. `Beyond`
bytes after the reserved memory are kept too, to see a write past its end.

**Mb2Info.** Offsets and sizes are the code's, in bytes. Of a tag the state has
its type, its place, the size it gives, and for a module the addresses and the
length of the name.

**Boot, KernelFile, Trampoline.** Addresses are told in pages, a page holds the
kernel, a module, information or the trampoline. The file is a function from
offsets to words modulo `Word`; `DetectMb2` and `DetectMb1` are the two searches
with their limits and strides, `CheckHeader` the refusals after them. The segments are placed in
one step, and a module in one, which `Elf` and `Modules` implement (`ImplementsPlaceSegments`,
`ImplementsModuleLoading`); what the
information holds is `Mb1Info` and `Mb2Info`, and here is only its format.
`FirmwareEvent` takes a page between the reading of the map and the exit, which
is why the exit has a key and a second attempt. `Trampoline` has an action for
every run of instructions between two that depend on the processor's mode; one
executed in a mode that forbids it goes to `fault`. `kernel.pages` is history.

**Linux.** A byte of memory says which byte of which file it is. `OpenFile` is opening a
file and making a buffer for all of it, `ReadSome` one call of `read`, which may give less
than it was asked for. Every allocation of pages has an action for its failure, which `boot`
handles; one of the heap, for a file's buffer or the copy of the command line, panics
(`HeapExhausted`, and `KernelUnreadable` of `KernelFile`). The heap's small allocations
(names, entries, the list of modules) are taken to succeed everywhere. `had` is history: what
was free at first.

## Runs

Every run takes less than a minute. `expect: pass`:

| Run | Bounds | Shows |
|---|---|---|
| `menu` | 3 entries, 2 s, consoles of 7 and 9 rows, 19 and 80 columns | `ChoiceInRange`, `TimeoutMeansUntouched`, `ScreenHonest`, `UnattendedBoots`, `ImplementsChoice` |
| `elf` | 8 pages of 2 bytes, headers that touch, share pages, overlap, are empty or malformed, or reach into the last page, with pages taken | `WritesOwnedUnlessWrapped`, `SegmentsPlaced`, `FailsOnlyForCause`, `LoadingEnds`, `ImplementsPlaceSegments` |
| `modules` | memory of 5 pages, a name buffer of 5 bytes, directories of up to three of six kinds of entry | `NamesFaithful`, `ModulesIntact`, `LoadedInOrder`, `ImplementsModuleLoading` |
| `mb1` | room for 2 modules, names of 2 characters and 2 map entries, 3 of each tried | `PartsApart`, `ModulesTold`, `MemorySummed` |
| `mb2` | a buffer of 160 bytes, 6 descriptors, 3 modules with names of 0, 7 and 8 | `Walkable`, `ToldInOrder`, `AllToldIfRoom` |
| `startup` | 3 entries, 2 titles, 2 spellings of a path, 2 volumes, 2 loaders found | `DefaultMeant`, `DefaultKept`, `OfferedOnce`, `PanicsOnlyEmpty`, `SomethingStarts` |
| `discover` | 2 volumes, up to 2 of 5 directory entries each, a buffer of 1 and names of up to 3, Bang in three places | `ScanComplete`, `NotItself`, `ScanEnds` |
| `boot` | 7 pages, 5 of them low, files with headers at every offset around the two limits, 2 modules | `DetectedRight`, `EnteredAsBuilt`, `ToldInItsFormat`, `PlacedIntact`, `MapIsFinal`, `BootEnds` |
| `linux` | 8 pages of 4 bytes, 6 of them low; images, command lines and initrds around a page | `WritesOwned`, `KernelIntact`, `ParamsTrue`, `InitrdNeverStops` |

`elf` and `mb2` also check the module's type invariant; those of the other components are
proved and need no run. The bounds are chosen so that
every boundary is on both sides of the inputs: consoles with no row, one row and
several rows left below the menu; more than one page, record and name fewer than
needed; maps and modules whose tags end before, on and after the end of the
buffer. Three entries
are needed for a default that is looked up too early to name the wrong one of those
left. `startup` reads the file and goes on to what is started; its constraint `Files` leaves out
combinations and not cases: a file has one entry of any kind, or two with one title and no
arguments, or up to three that differ in title and in whether they can be booted.
Two seconds are enough to see a second that is not the last; two volumes
to see one that is not Bang's, and to see one that fails before or after one that
does not. The limits of the header search are kept at their distance from the
strides (92 is a multiple of 4, 96 of 8) and only shortened. Two pages of
information, of which one may be the trampoline's, stand for the four; an
alignment of 3 or 6 is tried beside 8 because the header may hold any number. Deadlock is not checked: every one of these
components ends.

`expect: violation`, each a place where the code does not do what a comment or
the repository's README says of it:

| Run | Property | What happens |
|---|---|---|
| `modules_long` | `ScanEnds` | an entry with too long a name is read for ever |
| `startup_found` | `FoundOffered` | an entry on Bang's volume hides the same path on another |
| `startup_case` | `NamedLeftOut` | a loader that the configuration names in another case is offered beside that entry |

Smaller differences between the code and what is said of it, or between the code
and what one may expect, were met while modelling. They are in the model, have no
run of their own, and explain conditions in the properties:

- A menu that just fits leaves no row below it, and the cursor then stays in the
  list (`src/menu.rs:208`, `SetCursor`).
- The end of a segment that reaches into the last page of the address space wraps to zero
  when it is rounded up, and the segment is copied without an allocation (`src/elf.rs:193`,
  against lines 167-169, which have extents that overflow refused). Any `p_paddr` does with a
  large enough `p_memsz`. `WritesOwnedUnlessWrapped` says that this is the only write into memory
  nobody gave; the run has such headers.
- A loader that the configuration names in another case is one file twice on the list
  (`src/main.rs:72`); `OfferedOnce` leaves that out and `startup_case` shows it.
- An initrd too large for the heap stops the boot with a panic (`src/linux.rs:102`), where the
  comment at line 270 means to boot without it; `InitrdNeverStops` begins when the heap had room.
- `code32_start` of a Linux kernel that is not relocatable may lose its top
  (`src/linux.rs:281`); `ParamsTrue` asks it of relocatable ones.
- A full table of records forgets a run, and a page shared with it is asked for
  again and refused (`src/elf.rs:157`, against the comment above the table);
  `FailsOnlyForCause` allows it.
- A program header table that runs past the end of the file counts as loaded;
  `SegmentsPlaced` speaks of the headers inside the file (`src/elf.rs:322`).
- No room is kept for the terminating tag (`src/multiboot.rs:390`);
  `AllToldIfRoom` asks for it.
- A bad argument of `timeout`, `modules` or `initrd` replaces an earlier good one
  instead of being skipped (`TimeoutNotANumber`, `WithUnusable`).
- The built-in configuration has a timeout of 0, so what discovery adds to it is
  never shown (`src/config.rs:84`, against lines 161-162); `DefaultKept` says which entry starts.
- A file of bad lines, with nothing found, leaves an empty list, and `main` panics
  (`src/main.rs:90`, against the repository's README); `PanicsOnlyEmpty` says that this is the only way.
- A chainloaded image that returns ends Bang, as the repository's README says and
  the comment at `src/chain.rs:83` does not (`ChainReturns`, `ReturnToFirmware`).
- `same_file` matches the end of a path, so a Bang deeper in the tree hides a
  vendor's loader with the same tail; a Bang at Windows' own path is offered as
  Windows; and the `break` of `probe` on meeting Bang leaves the other loaders of
  that directory out (`src/discover.rs:172`, `:141`). `NotItself` and `Installed`
  say what the code does.
- A 32-bit ELF without a Multiboot header is told in Multiboot2's format, though the
  comment at `src/elf.rs:412` says it is told nothing (`BuildFor32`); `ToldInItsFormat` speaks
  of kernels with a header.
- The entry point is cut to 32 bits for a 32-bit kernel (`src/main.rs:163`);
  `EnteredAsBuilt` speaks of entries below four gigabytes.
- The trampoline is copied over page `0x1000` whoever it was given to;
  `PlacedIntact` and `ToldInItsFormat` leave that page out.
- A display with a bitmask of its own is told as RGB (`RedPos`).
- `mem_upper` adds what lies behind a hole above one megabyte; `MemorySummed`
  says that it is all that is available from the first region at one megabyte on.
- A command line longer than Linux takes is cut at a byte, and `String::truncate` panics
  inside a character (`src/linux.rs:247`, `TruncatePanics`).
- Pages taken by `linux::boot` before a later allocation fails stay taken.

**Fairness.** Bang is one thread and nothing it calls waits for anything, so a
step that it can take it takes: weak fairness of the loader's `Next` (`Elf`,
`Modules`, `Boot`, `Linux`), of the clock and the start of `choose` (`Menu`), of `main`'s own
steps (`Startup`), of the scan's steps but not of the firmware's errors
(`Discover`). Nothing is assumed of the user. In `Boot` a firmware event cannot
keep the loader from its exit for ever, because there are finitely many pages and
two attempts; in `Linux` every read that succeeds gives at least a byte. In `Startup` the choice itself
is fair only for an untouched keyboard, which is what `UnattendedBoots` of `Menu`
shows of the implementation.

## Theorems

All proofs are checked by TLAPS for every value of the constants, from the
assumptions on constants named in the modules (`MenuConstants`, `ConfigConstants`,
`StartupConstants`, `DiscoverConstants`, `ElfConstants`, `ModulesConstants`, `Mb1Constants`,
`Mb2Constants`, `KernelFileConstants`, `ModuleLoadingConstants`, `BootConstants`, `LinuxConstants`), which TLC evaluates in every
run of a module that extends theirs. Facts on division by a page of unknown size head each module that needs them.

**MenuProofs.** `TypeCorrect`, `ChoiceSafe`, `TimeoutSafe`, `ScreenSafe`. That the
clock boots the default after exactly the timeout is not inductive: `ClockInv`
adds that while the clock runs no key has been read, the selection is the
default, and `10 * (timeout - remaining) <= ticks < 10 * (timeout - remaining) + 10`.
`MenuRefinesChoice` shows that every pass of the loop is a step of `Choice` or
leaves it alone, from the same invariant.

**StartupProofs.** `ConfigTypeCorrect` and `DefaultIsMeant` of the configuration, from
`ConfigInv`: no default is named before the file is read, and what is read is made of
entries a directive can write. What `retain` leaves is a recursive function of the
sequence; that it has the entries that can be booted and no more (`RetainedFacts`) is
shown by taking the least length at which it would not. Of `main`, `TypeCorrect`,
`WrittenDefaultKept`, `NoneTwice` and `PanicMeansNothing`, from `MainInv`: what the file
wrote stays at the head of the list and its default the default (`Extended`), every
entry behind it was found and is a file that no entry before it names in the same letters,
nor, in any letters, one added before (`AddedOnce`), and what runs is what was chosen (`RunsChosen`).

Of discovery, `NothingMissed` (`ScanComplete`), `ItselfNotFound` and `ScanTypeCorrect`, from
`Finding`: types, how far each volume was read (`ReadSoFar`), and that the list is what is to
be found as far as that. `ScanComplete` says what is to be found at each place, an
entry of a volume, and that the list has it in the order of the places; a step that reads
one place more, behind all that were read, keeps that (`OneMore`), because no two places
give the same loader (`OnePlace`). `NotItself`
needs that Bang was not loaded from Windows' path, where `probe` does not ask whether it has
found itself; without that, what is found of Bang's is that path and no other
(`ItselfOnlyAsWindows`). `ScanReturns` composes the two halves: what the scan returns `main`'s
`Scan` may take, so all that is proved of `main` is true of what discovery finds.
`ScanHalts` is that every step, the firmware's errors included, brings the scan nearer its
end, in the order of four numbers; a buffer that grows counts because the entry then fits.

**ElfProofs.** `TypeCorrect`, and `PlacementCorrect` from `PlacingInv`: after every
copy, memory is exactly the segments before `i`. `WritesAreOwned` and
`FailuresHaveCause` rest on `OwnershipInv`: a page a record covers was given;
every page of the segment in hand before `page` was given; and while the table has
room, every page given is covered by a record. Neither assumes anything of the headers: a segment
whose end wraps (not `FitsBelowTop`) ends at page 0 (`WrappedEnd`), so its loop makes no turn and
only its copy counts, which `WritesOwnedUnlessWrapped` names. `FailuresHaveCause` is stated for a
table with room, without which it is false. `WritesAreOwned` does not need that: a full table
costs a refusal, never a write into somebody else's page. `RunFound`: the run to ask for
always has an end. `LoadingHalts`: each step brings loading nearer its end.
`LoadingRefinesPlaceSegments`: loading is the step `PlaceSegments` of
`KernelFile`, for any headers. `TakingInv` adds to `OwnershipInv` that the pages given are pages of
the segments that do not wrap, are not free, and are all of those of the ones done with; with the
placement this is the step when the last header has been dealt with, and before it nothing
`KernelFile` sees changes.

**ModulesProofs.** `TypeCorrect`, `NamesSafe`, `ContentsSafe`, `OrderSafe`. The
strengthening says that every stored name ends before `MOD_NAMES_POS`, so that a
later one is written after it, and that refused entries are among those the scan
is done with. `LoadingRefinesModules`: every step is one of `ModuleLoading` or changes
nothing of it. `HeldInv` adds that a module's pages are not free and that there are no more
modules than entries dealt with. A page given to a file has a byte that was written to, so it is
told from one nobody took; that a page keeps its module rests on the modules being intact.

**Mb1InfoProofs.** `TypeCorrect`, `PartsSafe`, `ModulesRight`, `MemoryRight`, for any
number and size of modules, names and map entries. `BytesInv` says what every byte
holds that has been written, and that the names still to come are blank. Each write is
then in its own part and behind the elements there (`Places`), a name is terminated by
the blank after it, and nothing lies past `InfoSize`. `SumsInv` compares the two sums with
those over the map, and says that `mem_upper` is not zero exactly when the region at one
megabyte has been met, which is what the code takes it for.

**Mb2InfoProofs.** `TypeCorrect`, `WalkSafe`, `OrderTold`, for a buffer of any
multiple of eight bytes. `PartInv` says where the writer stands: in the memory map
the position is 24 bytes for every entry past the first 24, in the modules there is
one tag more than modules told of, and after the map every part begins on a boundary
of eight. `ChainGrows` then shows that a tag appended at the position keeps the
chain, `ToldKept` that one which is no module's leaves what was told.
`AllTold` is that everything is told if it fits. `RoomInv` gives the position and the
tags at every step as if nothing were ever left out, and a step that finds no room
contradicts it; what the modules take is the sum `BytesOf`, which only grows
(`BytesFacts`). Such facts are shown by `UpwardInduction`, which takes a set where the
library's theorems take an operator.

**BootProofs.** `TypeCorrect`, `MapFinal`, `EnteredRight`, `ToldRight`,
`PlacedRight`, for any kernel files, any pages and any line below which 32-bit
addresses lie. What a kernel finds depends on the whole way to it, so none of these is
inductive. `BootInv` adds which kernel may be at which step (`Stages`: a direct
handoff only of a kernel without a header), that the information is where a 32-bit
register can point (`InfoBelow`), the processor's mode and the registers or slots
that carry the arguments at every label of the assembly (`CpuAt`, `RegsAt`), what the
information's pages hold (`Told`), and that kernel, modules, information and free
pages are apart and hold what was put there (`Apart`, `Held`). `MapFinal` needs only
that the map is the firmware's while its key is fresh. `DetectionRight` is that the
header search finds what the specification means, for a file of any length: `ScanInv`
keeps that no offset before the present one, on the stride, had a header, and that the
second search begins only if the first had nothing to find. `BootHalts`: every step
brings the boot nearer its end, by the stage first, then the attempts, then what is left
of the file or of the free pages. `NeverStuck`: a third attempt is never
asked for, and a kernel whose information is to be built is of one of the two kinds.

**LinuxProofs.** `TypeCorrect`, `WritesSafe`, `KernelSafe`, `ParamsSafe`, for any image,
command line, initrd, memory and size of a page. `LinuxInv` says of the kernel, the page
of `boot_params`, the command line and the initrd, from the step that places each on,
that it is whole and in pages that were free and are no longer (`Own`). Whatever is placed
later is given pages that are still free, so it is elsewhere. The rest is the arithmetic
of the alignment: an address rounded up by at most `alignment - 1` still has all it
needs inside the pages that were asked for, and stays below four gigabytes. `BootHalts`:
every step brings booting nearer its end, a read by the bytes it gives. `InitrdHarmless`, which
follows from the actions alone: with the initrd no step is a refusal, and none is a panic but the
heap's.

Only model-checked: liveness (`UnattendedBoots`, `LoadingEnds`, `SomethingStarts`,
`ScanEnds`, `BootEnds`, `InitrdNeverStops`), which needs fairness and `ENABLED` and is out of the
prover's reach. For the loading of segments, the scan, the boot and Linux what does not need
them is proved: no behaviour can take steps for ever (`LoadingHalts`, `ScanHalts`,
`BootHalts` twice), and the labels that could be left without a step are not (`RunFound`,
`NeverStuck`).

## Plan

Modelled and checked: every component above but the banner. Proved: every safety
invariant and every refinement that a run checks. What could still be done: `Mb1Info` and
`Mb2Info` as what `Boot` writes into the information's pages, in the manner of `ElfKernel` and
`ModulesBoot`; and the contents of the tags that are left out below.

## Not modelled

Drawing and text (`console.rs`, the titles of `discover.rs`, padding); the device
path `chain.rs` builds, whose encoding is the firmware's; the contents of the
framebuffer and root pointer tags and the fields of the display that are copied
unchanged; the bytes of the setup header that `linux.rs` copies into `boot_params`;
the assembly beyond its effect on memory, mode and registers; `wcslen`, whose loop
ends where the firmware's string does. None of these decides what the loader does
next.
