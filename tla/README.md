# Nyx: a TLA+ verification of the boot chain and the kernel's debugging support

This directory keeps a specification of the parts of the Nyx operating system
that carry state: the first boot stage `bootx64`, the UEFI loader `nyxboot`, and
of the kernel the debugger with its command line, its disassembler, the debug
output and the serial port. Each module is translated from the source it names;
TLC checks it on small instances, and TLAPS proves its safety properties for every
value of the constants.
`PROJECT.json` lists the components, the runs, the mutants, the source lines of
every definition, the hazards and the theorems.

    tlc -config MCNyxBoot.cfg MCNyxBoot        # one run
    tlapm NyxBootProofs.tla                    # the proofs of one module

## 1. Inventory

| component | state | operations | interacts with |
|---|---|---|---|
| nyxboot main line (`main.c`, `types.c`) | captured memory map, its buffer, size and key; what is allocated; page tables; boot information | `efi_main`, `load_boot_bin`, `map_memory`, `efi_get_memmap`, `efi_get_memmap_norealloc`, `efi_free_memmap` | everything below, through calls; the firmware, which shares the memory map |
| page tables (`memory.c`) | four levels of tables in physical frames | `mem_map_page`, `mem_map_pages`, `mem_free_tables` | called by `map_memory` and the cleanup labels; `AllocatePages` |
| boot information (`bootinfo.c`) | one structure with a fixed memory-map buffer | `bi_build_bootinfo`, `bi_update_memmap` | built before, updated after `ExitBootServices`; read by the kernel |
| ELF loader (`elf.c`) | file position, program headers, section records, pages | `elf_load_file` (three modes), `elf_free_sections`, `elf_free_loadinfo` | `load_boot_bin`, `map_memory`, cleanup labels |
| configuration (`cfgparse.c`) | partition GUID, path of the binary | `parse_config`, `free_config` | `load_boot_bin`, `get_file_size` |
| file systems (`fs.c`) | open files, handle buffers | `get_file_size`, `find_filesystem_for_guid`; without a caller: `find_filesystem_with_file`, `open_file` | configuration, main line |
| CRC-32 (`crc32.c`) | a table | `crc32` | configuration |
| first stage (`bootx64.c`) | handles and files | find and start `NYXBOOT.EFI` | starts nyxboot |
| kernel entry and traps (`head.asm`, `main.c`, `idt.c`, `panic.c`) | GDT, early IDT | `_start`, `setup_idt`, `main`, `idt_setup_early_traps`, `panic` | boot information; debugger gates |
| kernel debugger (`debug.c`, `entry_common.asm`) | saved frames, DR0-DR3, DR6, DR7, `stepping`, `cmd_buffer`, `argv_buffer` | `dbg_main`, `dbg_getcmd`, `dbg_parsecmd`, `dbg_exec`, commands c, s, reg, hbp, x, disasm, help | the processor's #DB and int3; the serial port; the disassembler |
| disassembler (`disasm.h`) | opcode tables, `addr_` globals | `disasm` | called by the command disasm and at every stop |
| debug output (`dbgio.c`) | sink table, digit buffers | `dbg_register_sink`, `dbg_unregister_sink`, `dbg_msg` | kernel, debugger; calls the sinks |
| serial port (`dbg_serial.c`) | `dbg_serial_initialized`; the UART's queues, shift register and loopback mode | `dbg_serial_init`, `dbg_serial_putc`, `dbg_serial_getc` | a sink; the debugger's keyboard |
| memblock (`mm/memblock.c`) | static tables, no operations yet | - | - |
| string library (`lib/`) | none | `memcpy`, `memset`, `memcmp`, `strlen`, `strcmp`, `strcpy` | kernel |
| mbuild (`scripts/mbuild`) | variables of a build file | lexer, parser, evaluation, emission | host only |
| vendored: gnu-efi | - | - | - |

What is hard in this code:

- *The firmware is concurrent.* Until `ExitBootServices` succeeds, timers and
  event handlers of the firmware may allocate and free memory between any two
  calls of the loader. The memory map is captured three times (for
  `map_memory`, in the exit loop, after the exit loop) and each use is of an
  older state than the present one.
- *Everything may fail, once.* `efi_main` is one chain of cleanup labels, the
  ELF loader and the configuration parser have their own; what is allocated
  when a label is reached depends on the path taken.
- *After `ExitBootServices` there is no way back.* An error must halt.
- *Page tables are built from frames with old contents*, at four levels, with a
  failure possible at each, and taken down by loops that read what they free.
- *The ELF loader tries two strategies on one file*, whose position the first
  one moves.
- *The debugger interrupts itself* when it reads or disassembles memory that is
  being watched, and its static variables are then shared by two calls.
- *Static buffers keep what earlier calls left*: the digits of an older number,
  the line and the arguments of an older command, the address of an older
  instruction.
- *The serial port runs at its own pace.* Its loopback test reads the byte back
  at once, so it may fail any number of times; each failed test leaves bytes
  under way, and every character printed or read repeats it.

What makes each part correct: the loader hands over a map that describes memory
as it is, page tables that cover it, and structures the kernel will not
overwrite, or gives back all but the program headers of the binary; page tables implement the mapping asked
for and are freed completely; a loaded binary is in memory as its headers say;
the binary booted is the one configured, from the partition configured, and a
file is closed as often as it was opened;
what is printed reaches every sink and the line in order; a command is what was
typed; the disassembler knows where the next instruction starts; the kernel stops where the user of the
debugger asked it to, and nowhere else.

## 2. Modules

### NyxBoot: `efi_main`

One process, `Loader`, with one action per firmware call of the main line, and
the firmware (`FwAlloc`, `FwFree`). `pc` is the place in `efi_main`; the labels
`free_tables` ... `free_config` are its goto labels, in the tables `CleanTag` and
`CleanNext`. Memory is a function from frames to EFI memory types (`ftype`); a
run of equal types is a descriptor, so that an allocation can split one and make
the map grow. `live` and `held` record what is allocated under each name, `view`
is the content of the map buffer, `size`, `bufSize` and `keyCur` its size, the
size of its buffer and whether its key is the firmware's current one. The page
tables are the set `mapped`; how they are built is PageTables' matter. `bimap`
is the memory map in the boot information.

`bi_build_bootinfo` is one step here that succeeds or leaves nothing; BootInfo
has its steps and shows that it does. The binary is loaded in the discontiguous mode, the one `efi_main` asks for, as one step;
ElfLoad has its details, BootConfig those of `load_boot_bin` before it.

Assumptions about the firmware: `FwAssumption` (event handlers use ordinary
memory types, so they neither use the loader's types nor turn memory that
`map_memory` passes over into memory it maps) and `BootAssumption` (the loader
runs from memory that is neither free nor passed over).

### Paging, AddressSpace, PageTables: `memory.c`

A virtual address is its four table indices; `NextPage` is `vaddr += 0x1000`.
PageTables walks level by level: `Descend` follows a present entry, `NewTable`
allocates a frame full of junk, enters it and zeroes it, `NoMemory` is the failed
`AllocatePages`, `SetPage` writes the page's entry and goes on to the next page.
The teardown is the three nested loops of `mem_free_tables`, one iteration a
step, followed by `efi_main`'s `FreePages` of the PML4. AddressSpace is the
promise: a function from pages to pages that a call changes one page at a time.
The refinement mapping reads the tables as the processor does (`Translate`).
After `mem_free_tables` was called the address space counts as unmapped: nobody
translates with the tables then.

### BootInfo: `bi_build_bootinfo`

Five pool allocations, one per step, each of which may fail, then the labels
`fail_memmap` and `fail_bootinfo`. The labels find what to free through pointers
in the structure they free, so the pool is a function from addresses to
contents (`ptr`, `count`, `descs`), with junk in new blocks, and `bad` records
an access to, or a free of, a block that is not allocated. The list of loaded
sections is a constant set of sequences; their copies are the descriptors.

### ElfLoad: `elf.c`

Files and memory are made of cells; a memory cell holds junk, zero, or the file
cell read into it, so "the segment is in memory" can be stated. The file has a
position, which is what the AUTO mode gets wrong. `SectionSize` keeps the
arithmetic of the macro `ALIGN_UP` as it expands, wrap-around included; `SizeTo`
is its running sum over the headers. `Record(k)` is the section record of the
k-th header.

Segments are not assumed to be sound, since `elf.c` checks neither `p_filesz`
against `p_memsz` nor how much a read returned: a file may end inside or before a
segment, and a segment may have more cells in the file than its pages hold, in
which case the read goes on into the pages behind them. `LoadedFaithful` promises
the contents of memory only for files without such a segment (`Contained`), and
everything else for all. What is assumed (`FileAssumption`) is that the ELF
header and the program headers are whole: what a short read leaves in their
buffers would be any headers at all.

`sections` is the pointer `info->sections`. `elf_free_loadinfo` does not clear it,
so the second strategy of the AUTO mode starts with a pointer to freed memory;
`badFree` records a free of pool memory or pages that are not allocated.

### BootConfig and Stages: `load_boot_bin`, `cfgparse.c`, `fs.c`, `bootx64.c`

BootConfig is `load_boot_bin`. The configuration file is a sequence of options;
every file, pool buffer and handle is tracked over all failures. The bytes of a
record, the header's magic and the CRC are abstracted to "whole or not". Each
BOOT_PATH has a buffer of its own (`paths`), of which `free_config` reaches the
last. `shut` records the files that were closed while not open. When the
firmware returns EFI_SUCCESS and no pointer for the configuration file,
`get_file_size` refuses it and `parse_config` closes it through the NULL pointer:
that is the label "fault", where the chain ends.

Stages puts the first stage in front of it: `bootx64` looks through the handles
(`HandleProtocol`, `OpenRoot`, `OpenFile`), loads and starts `NYXBOOT.EFI`, and
only then are steps of BootConfig taken; its failure comes back through
`StartImage`. The search of `find_filesystem_with_file` makes the same calls and
is the same actions with `who = "with_file"`; the two differ in what they close.
What `bootx64` does after nyxboot returned successfully (UnloadImage, FreePool) is
left out: nyxboot returns only with an error.

### Serial, CharStream, DbgIo and Console: `dbg_serial.c`, `dbgio.c`

Serial has the driver (`drv` is the place in the call that is being made, one
action per port access that matters) and the UART: a transmit queue, a shift
register, a receive queue, loopback mode. `Load` and `Transmit` are the UART's
own steps; `Cut` says what becomes of a byte that is being shifted while the
mode changes: it stays, is lost or is broken. CharStream is the promise: a stream in both
directions once the port is open, with at most one byte of noise in front of
each. `Stream` in Console is the refinement mapping: what has been put is on the
line, in the shift register or in the queue.

DbgIo has the number conversions as operators on the static buffers, byte for
byte, including the store before `toU64StrBuff` (dbgio.c:66) and the digits
`s64_to_str` leaves of an older number. `Value` is the reference for what a
numeral means. `MessagesAssumption` says what a caller of `dbg_msg` owes: ASCII
text, and a parameter of the right kind for each directive. Console composes the two: `main`
initialises and registers the port, then prints, registers and unregisters sinks
and reads keys in any order; `dbg_msg` converts the format piece by piece and calls
every sink of the table with every character. What lies before `toU64StrBuff` is
the build's choice: padding, or the table of sinks, whose last pointer the stray
store then destroys (`before`, `Wild`).

### DbgCmd: the debugger's command line

`dbg_getcmd` takes one key a step and echoes it to a terminal; `dbg_parsecmd` cuts
one word a step; `dbg_exec` finds the command. `mem` is `cmd_buffer` with what lies
behind it, since a line that fills the buffer has no 0 at its end. `argv` keeps
its entries from line to line, and `Reads` says, from the checks of each command
in the order it makes them, which entries a command follows when it was given a
number of parameters. `dbg_atol` is an operator; `Partial` and `HexValue`
are the values its `n` takes, digit by digit, as recursive functions, and `Values`
is the reference without the word's width. What the keys make is defined apart
from the buffer (`EditOf`), and so are the words of a line (`Starts`, `WordAt`).
Words are separated by spaces; the other characters `dbg_isspace`
accepts, `+` and upper-case digits behave as the ones that are modelled.

### Disasm: `disasm.h`

One call of `disasm` per run through `prefix`, `opcode`, `modrm`, `select`,
`operands`: how many bytes it takes and what it reads of its tables and globals.
The tables are all there, as sets of opcodes with the same row; `ModeBytes` adds up
what the loop over a row's operands takes. `DInit`, `DNext`, `dvars` and `DisasmSpec`
are named so that the module can be extended beside Debugger. The reference
for the length of an instruction (`ProcessorAddress`, `ProcessorImmediate`) is
written from the processor's manual, not from the code.

### Debugger: `debug.c`, `entry_common.asm`

The processor (`ExecFault`, `Execute`, `StepDebugger`) and the debugger
(`dbg_main`, one action per command). A dump of x or disasm is a loop of one
address a step (`DumpRound`), any of which may be watched: the nested `dbg_main`
then splits its own lines into the same `argv_buffer` (`argv`) and runs its own
dumps, while the interrupted loop's place and limit wait on the stack, in the frame
(`cur`, `limit`). When what was nested is over the loop goes on, as does a `dbg_main`
that was interrupted before its prompt (`dbg_main_resumed`). An instruction of the
kernel has one address, so a disassembly reads as many addresses as instructions. DR7 is the set of its bits, so that the
shifts and masks of `hbp` are checked for interference between breakpoints.
`frames` is the stack of saved frames: the debugger may be entered from the
kernel, from a dump or a disassembly of watched memory, and from the
disassembly in `dbg_main` itself. DR6 is cleared by nobody; the processor may or
may not clear older flags, so both are allowed.

`IretSize` is the operand size of the entry stub's `iret`. NASM assembles the
`iret` of `entry_common.asm` with 4-byte operands, and with those no return from
the debugger works (run `debugger_return`). All other debugger runs take 8, as if
the stub said `iretq`: they are about the debugger with that repaired.

## 3. Runs

| run | checks | bounds, and why they are enough |
|---|---|---|
| `boot` | NyxBoot: `HandoffMapFresh`, `HandoffMapped`, `HandoffIntact`, `NoBadFree`, `ReturnReleases`, `ServicesFrozen`, `Termination`, `ExitedHandsOff`. An `efi_main` that returns has given back what it allocated but the program headers; what `load_boot_bin` leaves behind when it fails itself is ElfLoad's and BootConfig's matter | 7 frames: every allocation fits, firmware can split, merge, outgrow the buffer's slack (`Extra` = 1) and the boot information's buffer (`BiCap` = 6); 5 exit attempts as in the code |
| `paging` | PageTables: `TreeOK`, `NoBadAccess`, `FreedAll`, `CallsReturn`, `ImplementsAddressSpace` | tables of 2 entries, so two pages can cross every table boundary; 7 frames, so memory runs out at every level; two calls, so one meets the other's tables |
| `bootinfo` | BootInfo: `BuiltWhole`, `FailedReleases`, `PoolSafe` | 6 blocks, one more than are needed, handed out in any order, with stale pointers to any block in them; none, one and two sections |
| `elf` | ElfLoad: `LoadedFaithful`, `NoBadFree`, `FailureReleases`, `DiscontigReleased` | pages of 2 cells, segments of 1 to 4 cells (partial pages, zero tail, no file part, the headers inside it), a header that is skipped, two orders, a segment with more cells in the file than in memory, files cut off in and before a segment, an invalid file; all three modes |
| `stages` | Stages, BootConfig: `BootsWhatIsNamed`, `BootPartition`, `ClosedOnce`, `SearchesClean`, `ChainEnds` | every configuration file of up to three options over two partitions and two paths, so options repeat, are missing or unknown; three handles, two of one partition, two with the file |
| `console` | Console, Serial, DbgIo: `ImplementsStream`, `SinksServed`, `Delivered`, `Rendered`, `PutReturns` | one message after which and before which sinks come and go or a key is read (three calls); a table of two sinks, so it fills up; a receive queue of two bytes, so it overflows; longs of two hexadecimal digits and ints of one; eleven messages that have every directive and numbers of one to three digits, the smallest long among them |
| `cmdline` | DbgCmd: `ScreenShowsLine`, `ArgsAreWords`, `StaysInside`, `ParamsReadable`, `NumbersExact` | a buffer of six bytes and four arguments: seven keys fill it, or make two lines, the second shorter than the first, so that x meets what the first left; longs of four bits, so two digits overflow. A hbp with its three parameters needs eight keys: that it reads nothing else is left to the proof |
| `disasm` | Disasm: `NextInstruction`, `ReadsDefined` | all 512 opcodes, all forms of ModRM and SIB that matter, up to two prefixes before a REX; nothing depends on more |
| `debugger` | Debugger: `StepFlag`, `DumpWhole`, `StopsAsAsked` | two breakpoint registers (one beside another in DR7), a kernel of two instructions (one that writes a variable, one `int3`), two nested entries, dumps of up to two addresses, so that a dump is interrupted in its middle and another dump runs meanwhile |

Each property has a mutant in `PROJECT.json`: a plausible slip in one definition
under which TLC finds the property violated.

Runs that show where the code and its documentation disagree (TLC finds the
property violated; `PROJECT.json` quotes the lines):

| run | what it shows |
|---|---|
| `elf_auto` | `ELF_LOAD_AUTO` never falls back: the second strategy reads the ELF header from where the first left the file, at the earliest just behind that header |
| `debugger_continue` | c after an execute breakpoint stops at the same instruction again, since RFLAGS.RF is not set |
| `debugger_return` | the entry stub's `iret` does not return to where the debugger was entered |

Met on the way, without a run of their own:

- after a contiguous load `elf_free_sections` leaves pages allocated: the
  buffer's size was summed in bytes, because the body of `ALIGN_UP` has no
  parentheses (utils.h:6, elf.c:29; elf.h:63 says the memory is freed);
- a configuration without a required option is parsed successfully
  (cfgparse.c:97; cfgparse.h:41 lists them as required). The boot then fails at the null GUID or the missing path,
  which `BootPartition` and `BootsWhatIsNamed` show;
- a configuration file whose size cannot be queried is closed twice (fs.c:122,
  cfgparse.c:113): the exception in `ClosedOnce`;
- that close is made through a NULL pointer when the firmware returned no
  configuration file with its EFI_SUCCESS (cfgparse.c:10, 17, 25, 31, 113);
- a second BOOT_PATH loses the memory of the first (cfgparse.c:89), and a load that
  fails that of all of them, since `efi_main` frees the configuration only after
  a load that succeeded: what `ReturnsClean` leaves in `paths`;
- a segment with more bytes in the file than pages in memory is read past its
  pages (elf.c:103, 154), and one that the file ends in is taken as loaded;
- a LoadImage of `bootx64` that fails ends it, although another file system may
  have the file, and leaves the volumes it opened open (bootx64.c:28, 36);
- hbp rejects the types m2, m4 and m8 (debug.c:266) that its description allows
  (debug.c:217-219);
- x dumps what an older command left in `argv_buffer` when it is given fewer than
  two parameters (debug.c:314 says both must be specified): the exception
  in `ParamsReadable`;
- a line that fills `cmd_buffer` is parsed on into the memory behind it (debug.c:114):
  the exception in `StaysInside`;
- a number below ten printed with %u or %lu writes a byte before its buffer
  (dbgio.c:66), and the smallest long is printed wrongly (dbgio.c:96): the
  exceptions in `SinksServed` and `Rendered`;
- `disasm` takes the wrong number of bytes for the instructions of `Misread`
  (moves with a 64-bit offset, byte immediates of test and mov to memory, enter,
  mov of an immediate to the registers 0 to 3 with REX.W and 4 to 7 without,
  a base of 5 with REX.B, moves of control registers with a memory form), does
  not know the shifts D0 to D3 (the check for the escapes includes them,
  disasm.h:936), reads `regs[DA_NONE]` for mul to idiv without prefix
  (disasm.h:1003) and behind a group's names with REX.R (disasm.h:950): the
  exceptions in `NextInstruction` and `ReadsDefined`.

Bounds in guards: `MaxCalls` (calls of `mem_map_pages`; in Console, calls of
the kernel), `MaxMsgs` (messages), `MaxTyped` and `MaxKeys` (keys), `MaxPrefixes` and `MaxNops`
(bytes of a run), `MaxDepth` (nested debugger entries) and `MaxSize` (addresses of a dump). All other finiteness comes from the sets the constants name.

### Fairness

NyxBoot, PageTables, BootInfo, ElfLoad and Stages assume weak fairness of the
loader's own steps (`Loader`; `Walk` and `Teardown`; `bi_build_bootinfo`;
`elf_load_file`; the searches and `load_boot_bin`). The loader is the only thread of the
processor: between its calls it just runs on, and firmware calls return. Nothing
is assumed of the firmware's event handlers, which may interfere for ever or not
at all, nor that a caller makes a call. Console assumes weak fairness of the
kernel, the only thread of its processor, and of the UART, which sends what it
holds at its baud rate; nothing of the user, who may never type.
Debugger, DbgCmd and Disasm have no fairness and no liveness property: they wait
for their user or are called again.

## 4. Proofs

Eight modules of proofs are checked by TLAPS to the last leaf, for every value of
the constants that satisfies the named assumptions. Between them they state every
safety property the passing runs check.

**NyxBootProofs.** The safety properties are not inductive. Their strengthening
`IInv` is the conjunction of

- `TypeOK`;
- `ControlInv`: at each `pc`, exactly which allocations are live, what `attempt`
  is and whether boot services are up;
- `MemoryInv`: frames have one owner each, the frames of the loader's types are
  those it owns and those it was loaded to, and the loader's own image keeps a
  type that is neither free nor passed over;
- `CaptureInv`: whatever is not passed over now was not passed over in the
  captured map, hence is mapped once `map_memory` is done;
- `FreshInv`: when the key is current the captured map is, and after the exit it
  stays so.

`MemoryInv` is proved from one shape (`MemoryStep`) that every action's effect on
memory has (allocate, free, or leave alone). The theorems: `TypeCorrect`,
`NeverBadFree`, `NothingAfterExit` (the action property `ServicesFrozen`),
`MapFresh`, `AllMapped`, `Intact`, `CleanReturn`, all from `Invariance`.
`AllMapped` is the one that needs `FwAssumption`.

**PageTablesProofs.** `PInv` adds to `TypeOK`, `TreeOK`, `NoBadAccess` and
`FreedAll` where the walk is (`WalkOK`: the current table is the one the address
leads to) and where the teardown is (`FreeOK`: the loops stand on a path of
allocated tables, what they are past is freed, all else is in place). From it:
`PagingTypes`, `TablesFormTree`, `AccessSafe`, `NothingLeft`. The refinement
`MapsWhatIsAsked` (`Spec => ImplementsAddressSpace`) rests on two lemmas about
translations: two addresses that reach the same page table differ in their last
index (`PathUnique`), so `SetPage` changes one translation
(`SetPageTranslates`), and a new, zeroed table changes none
(`NewTableTranslates`).

**BootInfoProofs.** `BInv` adds `Progress` to `TypeOK`, `BuiltWhole` and
`PoolSafe`: at each place of `bi_build_bootinfo`, exactly which blocks are
allocated and by which pointers they are reached, so that the label
`fail_memmap` meets a memory map with descriptors and `fail_bootinfo` one block.
Each step changes one pointer, and that the other pointers stay is what its
lemma proves. From it: `BuildsWhole`, `FailsClean`, `NeverBadBlock`.

**StagesProofs.** `ChainInv` says, for each label of `load_boot_bin`, which files and
buffers are held (`HeldOK`), that `read_config` has taken the last of the options
before `i` of each name (`TakenOK`), that the handles gone past were refused or
of another partition (`HandlesOK`), and where a file was closed that was not open
(`ShutOK`, which is seen to hold only with `HeldOK`: what a label closes is open
there); `SearchInv` says what the two searches hold.
From it: `BootsWhatIsNamedThm`, `BootPartitionThm`, `ClosedOnceThm`,
`SearchesCleanThm`, for any configuration files and any number of handles.

**ElfLoadProofs.** `BaseInv` ties the pool and the pages to the labels of the two
strategies; it suffices for `FailureReleasesThm` and `DiscontigReleasedThm`.
`FaithInv` adds that there is one record per loadable header gone past
(`CountInv`), that sections share no page and those of the contiguous buffer lie
behind each other in it (`PlaceInv`), and what the memory holds (`ContentInv`).
That the contiguous sections stay inside the buffer needs
`Pages(memsz) <=` what `elf_get_section_size` adds for the segment. This is false
for absurdly large segments, for which the unparenthesised `ALIGN_UP` wraps around:
`LoadedFaithfulThm` and `NoBadFreeThm` therefore assume `SegmentsFit` (no loadable
segment of about 2^52 bytes or more on the machine). With `FileAssumption` that is all
they assume of the file; that memory holds the segments is, as in the
property, said of files without a segment that overruns its pages. The attempt to prove them without it
is what showed the wrap-around.

**ConsoleProofs.** `PortInv` bounds what is in the UART: while the port is closed,
what the loopback tests left is at most one byte in the shift register and, during a
test, the test byte, or something typed is in front of them, in which case the test
fails and the port stays closed. It gives `StreamImplemented`, the refinement of
CharStream. `SentInv` adds what the port was called with (`DeliveredThm`), `PrintInv`
that the rest of the format and the rest of the parameters go together, `TableInv`
that the table holds each sink as often as it is owed, and `ServedInv` what every
sink was called with (`SinksServedThm`). `RenderedThm` is about arithmetic: the loop
over `sizeTest` counts the digits (`LengthExact`), the digits of a number, high to
low, are a numeral of it (`NumeralValue`, by induction), the buffers hold them up to
the first 0 byte (`U64Exact`, `S64Exact`, `HexExact`), and a word of any width has no
more than `MaxLen` digits (`WordsFit`).

**DbgCmdProofs.** `CmdInv` is the type, `EditInv` (while a line is edited it fits, and
buffer, screen and keys agree) and `ParseInv`: with L the line that was typed, what
lies before the parser is cut into the words of L that argv points to (`CutInv`,
`IsWord`), what lies behind it is as it was typed. From it: `ScreenShowsLineThm`,
`StaysInsideThm`, `ArgsAreWordsThm`. `InsideInv` is about the lines before: until one
fills the buffer, the 0 at its end stays, and every pointer any line left in `argv` is
into the buffer. With the reads of each command (`ReadsFacts`) it gives
`ParamsReadableThm`, for any sequence of lines. `NumbersExactThm` relates the
loops of `dbg_atol` to the reference by induction over the digits: every partial
decimal value is the negative of the reference's, which does not leave the word as
long as the result does not, and every partial hexadecimal one is the reference's up
to whole words.

**DebuggerProofs.** `DebugInv` says where the trap flag may be (`FlagInv`: in the frame of
an exception raised by a step, until `dbg_main` clears it, and nowhere else), what may
nest in what (`NestInv`), and that the bits of DR7 encode the commands so far
(`WantInv`). From it: `StepFlagThm` and the action property
`StopsAsAskedThm`, for any number of breakpoint registers and any depth. `DumpInv` says
of the dump that runs, and of each that is interrupted, that what it has shown, its place
and its limit fit what it was asked for (`Fits`); an exception pushes that, a return
pops it, and the nested calls in between change neither. From it the action
property `DumpWholeThm`, for dumps of any size.

*The disassembler*, in the same module. `DisasmInv` says what is known at each stage of
a call: until the ModRM byte is read the `addr_` globals are not this call's and `modrm`
is empty (`EarlyInv`); from the opcode on the row in hand is the opcode's, or the one
`reg` selects from it (`RowInv`); and before the operands `addr` is past the opcode, the
ModRM byte and exactly the address (`Placed`). The tables enter through four
lemmas, one for each table (`RowsLowFacts` and its kin), with a case for each row: a row
that names a ModRM byte belongs to an opcode that has one (`HasModrm`), an operand that
reads the `addr_` globals is in no other row, and the operands take the
bytes `TableBytes` states. `Immediates` and `Addresses` compare the two halves of the
length with the processor's. Each is wrong exactly in its half of `Misread`, but that is
not enough, since two errors could cancel: behind a ModRM byte the immediate is
off by +1 or +3 and the address by -4, so the sum is right only when both are
(`Length`). From it: `NextInstructionThm` and `ReadsDefinedThm`, for any number of
prefixes and of nops.

*Induction.* The library's induction theorems take an operator and cannot be used
here. `NatSetInduction` states induction for a set of numbers instead and is proved
from the well-foundedness of <. Recursive functions are by definition some solution of their
equations, so each is first shown to have one (`RecursionDefined`, `EditDefined` and
their kin); only then do its equations hold.

Assumptions on constants are the named ASSUMEs of the modules, which TLC evaluates on
the instances of the runs. Most are types; those that say something of the
environment are `FwAssumption`, `BootAssumption`, `FileAssumption` and
`MessagesAssumption` (section 2).

What proof attempts changed in the models: two overlapping arms of a CASE in Serial
(`Begin`), of which TLC had always taken the right one; `NumbersExact`, which now
covers hexadecimal numbers of any length; `ArgsAreWords`, which now says at which word
of the line each argument stands.

Only model-checked: the liveness properties (`Termination`, `ExitedHandsOff`,
`CallsReturn`, `ChainEnds`, `PutReturns`), since liveness under fairness is out of the
prover's reach.

## 5. Not modelled

- `elf_print_sections` and all messages (no state); the constant fields of the
  boot information (magic, versions, sizes).
- The byte framing of the configuration file and the CRC; the path of a device
  path to its partition (`match_node_guid`) is "matches or not".
- Attributes of page-table entries (the writable bit): every mapping the loader
  makes has the same.
- The registers the entry stub saves, beyond the frame it returns to.
  Breakpoints on the debugger's own code and stack.
- The text `disasm` prints (`dbg_vsprintf`, `disasm_prtaddr`, mnemonics) and with it
  the bound of `dbg_disasm_buffer`. It and the `addr_` globals are shared by a
  disassembly and one nested in it, which may print a line of the other's text;
  where the next instruction starts is kept in locals.
- Pool memory has no place among the pages of ElfLoad, so a segment that overruns its
  pages is not shown to reach the program headers or the section records.
- `dbg_msg` entered from within `dbg_msg`: only a breakpoint inside the debugger
  does that, and Debugger has those.
- `open_file`: two calls, no caller.
- The set-up of the GDT and the early IDT (`head.asm`, `idt.c`): straight-line code
  with constants.
- memblock has no operations. The string library is single loops, of which
  only `memcpy` has a caller. CRC-32 is a table lookup per byte. mbuild is a sequential interpreter
  of build files on the host.
- gnu-efi is third-party, as are its headers: some 28 000 of the repository's
  33 000 lines of C and assembly. The loader's calls into it, and the firmware's
  answers, are part of the modules above; the library's own code is not
  verified here. Of the remaining lines about half are mapped; the rest is
  mbuild, declarations, messages and the items of this list.

## 6. Plan

Done, in this order: NyxBoot with its proofs, PageTables with AddressSpace and
the proof of refinement, ElfLoad, BootConfig, Debugger, BootInfo with its proofs;
then Serial with CharStream, DbgIo and Console, DbgCmd, Stages, Disasm.

Then the proofs: StagesProofs, DebuggerProofs, ElfLoadProofs, ConsoleProofs,
DbgCmdProofs.

Last, the disassembler's proofs. No safety property of a passing run is left without
a theorem.

Modules that could follow: the framing of the configuration file's records with
fixed-width arithmetic (cfgparse.c:41-98), and the entry path of the kernel once
it does more than set up its descriptor tables.
