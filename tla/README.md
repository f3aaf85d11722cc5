# Formal model of Agba

Agba is a Game Boy Advance emulator for Android: a C core (a gpSP descendant, `src/Agba/jni`)
that translates guest code to ARM code, a C++ host (`jni/android/emulator.cpp`) that lets an
activity drive the core through JNI, and a Java application (`src/Agba/src`). This directory
holds TLA+ models of the parts where the program's correctness is a matter of order rather than
of arithmetic, the TLC runs that check them, and TLAPS proofs of the main results.

Where a line is quoted, `emulator.cpp` is `src/Agba/jni/android/emulator.cpp` and `main.c`,
`memory.c`, ... are in `src/Agba/jni`.

## 1. Inventory

| Component | State it keeps | Operations | What is hard | Module |
|---|---|---|---|---|
| Host hand-over (`emulator.cpp`, `EmuMedia.java`) | `emuState`, mutex and condition, `resumeRestart`, `resumeRequested`, surface, media peer, audio track | 13 JNI calls; `waitForStart`, `check_paused`, `flip_screen` on the emulator thread | two threads, most fields read without the lock, signals and spurious wakeups, a start-up race | `EmuThread`, `MachineControl` |
| Machine clock (`main.c`: `update_gba`) | `execute_cycles`, `video_count`, VCOUNT and DISPSTAT, four timers, IE/IF/IME, halt state | `update_gba`, timer and register writes, `reset_gba`, saved states | slices cut by several clocks, early `continue`s, a machine replaced in the middle of the pass | `UpdateGba` |
| Backup memory (`memory.c`) | `backup_type`, sizes, flash mode and position, bank, `backup_update`, the `.sav` file | `write_backup`, `read_backup`, `update_backup`, `load_backup`, `save_backup`, resets, states | the chip is guessed from what the guest does; the write-out is frames later | `Backup` |
| EEPROM (`memory.c` 205-396, 516-523) | mode, counter, buffer, address and its length, size | bit-serial reads and writes, DMA length detection, resets, states | one counter for a whole protocol, the size guessed, resets and states between two bits | `Eeprom` |
| Gamepak paging (`memory.c` 2868-2953) | page table of the ROM buffer, `memory_map_read` | load, evict, initialise | eviction order, three copies, equal and wrapped time stamps, what a reset leaves mapped | `GamepakPaging` |
| Translation cache (`cpu_threaded.c`) | cache pointer, block numbers, tags beside RAM, range of code | look up, translate (with the blocks branched to), flush, every store | overlapping blocks, overflow inside a translation, stores that do not look | `TranslationCache` |
| CPU modes (`cpu.c`, `arm_stub.S`, `arm_emit.h`) | register file, banks, CPSR, registers held by the host | mode changes, exceptions, returns, interrupts | where each register is at the moment of a switch | `CpuModes` |
| Sound FIFOs and their DMA (`sound.c`, `memory.c`) | two rings without a count, channels 1 and 2, control registers | guest stores, timer overflow, DMA start, stop and end | full and empty look the same; two producers | `SoundFifo` |
| Input (`input.c`, `com.androidemu.gba.input`, `Agba.java`) | keys of keyboard, keypad, trackball; key word; `key`, P1, P1CNT | key and touch events, focus, `update_input` | several holders of one key, lost releases, resets | `KeyInput` |
| Activity (`Agba.java`) | pause counter, menu, dialogs, child activities, current game | life-cycle callbacks and the user | callbacks in any order, recreation, statics that outlive an activity | `AgbaActivity` |
| Other DMA (`memory.c`) | addresses, lengths, four channels | transfer of words | order with raster | only as above |
| Real-time clock (`memory.c`) | serial state machine | GPIO writes | a protocol machine | planned |
| Frame pacing (`main.c`: `synchronize`) | time stamps, skip counters | once a frame | clocks that jump | planned |
| Saved states | file of all of the above | save, load | raw pointers, parts left out | partly: in `Backup`, `UpdateGba` |
| Video, CPU interpreter, code emitters, cheats, zip, other ports, billing, network, settings | | | pure computation, I/O, or not part of the Android build | not modelled |

How they interact. The UI thread enters through JNI calls and parks the emulator thread
(`emuState`); the emulator thread runs translated guest code in slices of `execute_cycles`, and
after each calls `update_gba`, which drives timers, raster, DMA, sound and interrupts. At the end
of the last line `update_gba` calls `check_paused`, the one place where the emulator thread is
parked and the host may reset, load or save the machine. Right after it come input,
`synchronize`, the screen, the backup write-out and cheats, once a frame. Everything the host
changes in the machine is therefore seen by the middle of a pass of `update_gba`: that is the
behaviour the first two models are about, and the reason they are two views of one point.

What each part must guarantee:

* Host: one owner of the machine at a time; the emulator thread only uses a surface and a media
  peer that are alive; a replaced machine is never run on with the old state; the game runs exactly
  when the activity wants it, a surface is there and a ROM is loaded; every call returns.
* Clock: the raster the guest reads is where the cycles accounted for put it; no slice that the CPU
  is given runs past an event that can be foreseen;
  a halted CPU is woken; frames keep ending; a changed PC is reported.
* Backup: what the guest writes reaches the file, complete and in time; the guess stays consistent.
* Translation cache: a lookup finds the block that begins there; no block outlives its code; no tag
  outlives its block.
* CPU modes: each mode finds its own registers again; no interrupt is left waiting.
* Sound: samples are played in the order they came, and a channel that is fed does not starve.
* Input: the machine is told what the user holds; nothing is stuck; a chord interrupts the guest.
* Activity: the game runs in front of the user and not behind anything.
* EEPROM: the chip is at the bit where the guest is; a word written stays and is read back.
* Gamepak paging: what the map points to is the page that was addressed, in all three copies.

The hazards, each at its line with the properties that watch it, are listed in `PROJECT.json`.

## 2. Plan

Done:

1. `EmuThread`, `MachineControl`, `EmuThreadProofs`: the hand-over protocol.
2. `Backup`, `BackupProofs`: SRAM and flash chips and their file.
3. `UpdateGba`, `UpdateGbaProofs`: the clock.
4. `GamepakPaging`, `GamepakPagingProofs`: the buffer of a large ROM and its three copies.
5. `Eeprom`, `EepromProofs`: the serial protocol with resets and states in between.
6. `TranslationCache`, `TranslationCacheProofs`: tags, flushes and self-modifying code.
7. `AgbaActivity`, `AgbaActivityProofs`: the pause counter and all that moves it.
8. `SoundFifo`, `SoundFifoProofs`: the FIFOs with the DMA as producer.
9. `KeyInput`, proofs in `AgbaActivityProofs`: from the telephone's keys to the key register.
10. `CpuModes`, proofs in `UpdateGbaProofs`: banked registers and the registers held by the host.

Next, in this order:

11. `Rtc`, `Synchronize`: small sequential machines against reference definitions.
12. Compositions: `EmuThread` driven by `AgbaActivity` instead of `MayCall`; `UpdateGba` with
    `SoundFifo`; a saved state of several components; the write-out that an EEPROM word schedules,
    with the file as a third owner of the bytes, in place of the unit-wise `dirty` of `Backup`.

The project stays small enough to be run as a whole: at most a dozen runs of a few minutes. There
is one passing run per component (two for the clock, whose cases multiply) and one for a
disagreement; the variants of it that were runs of their own are now excuses that `OnTime` and
`MapCoherent` name, and are described under "Disagreements". Type invariants are theorems and are
not run again.

## 3. Modules and the code

Every definition that stands for code is mapped to its lines in `PROJECT.json`. In all modules an
operator `Mut...` is a plausible wrong version of the definition after it; no specification uses
it. It exists so that each property can be shown to fail on a wrong program.

### MachineControl

The contract of the host, free of threads and locks: the machine is held by the host or by the
guest, the host replaces it or takes away what the guest needs only while holding it, and the
guest enters only when everything is there and then runs the current machine.

### EmuThread

One action per statement that touches shared state. `uiPc` and `emuPc` name the statement a
thread is about to execute.

| Code | Actions |
|---|---|
| `pauseEmulator` 84-96 | `PauseLock`, `PauseTest`, `PauseLoop`, `PauseBlock`, `PauseWait`, `PauseAudio` |
| `resumeEmulator` 98-114 | `RestartLoad`, `RestartStore` (the two halves of the unlocked `\|=`), `ResumeTest`, `ResumeLock`, `Request`, `ResumeLoop`, `ResumeBlock`, `ResumeWait` |
| `waitForStart` 129-150 | `WaitLock`, `WaitLoop`, `WaitBlock`, `WaitBlocked`, `AudioStart`, `TakeRestart`, `ClearRestart` |
| `check_paused` 166-179 | `CheckPaused` (the read outside the mutex), `ParkLock`, `Park` |
| `flip_screen` 186-205 | `Draw` |
| the JNI calls 209-399 | `Begin(op)` and one `...Body` each |
| `Emulator_run` 401-412 | `Run` |

`waiters` is the set of threads blocked on the condition variable; `Signal` wakes one of them and
`SpuriousWakeup` any, at any time. The test of each `while` (`...Loop`) and the wait in it
(`...Block`) are two steps: that no signal falls between them is the mutex's doing and must come
out of the model, not be built into it. What the activity may call, and when, is `MayCall`, read off
`Agba.java` and `EmulatorView.java`: one call at a time (a single UI thread), options and the BIOS
only between its own pause and resume, surface changes at any time once the view has the emulator.
The guest's frame is one step, `Guest`, because nothing in it is shared with the other thread.

`StartRace` says whether JNI calls may come before the emulator thread has initialised the mutex
(`Emulator_run` does it, after the activity started the thread). With it, the mutex may be freed
under its holder; who owns the machine, the restart, sound and the contract are still right,
because they do not rest on the mutex at all: each value of `emuState` is left by one thread only.
But a signal may be lost, so `NobodyStuck` and the liveness properties are stated without the race
(see "Disagreements").

`NobodyStuck`: while a call is in progress or the guest is wanted, one of the threads can take a
step that needs no wakeup out of nowhere; `UiCanGo` and `EmuCanGo` say what its next step needs.

### Backup

The 128 KB buffer is four units of 32 KB; `dirty` (history) is the set of units the guest changed
and the file lacks. `WriteBackup` is `write_backup` with its branches in order, over the addresses
and bytes it distinguishes (`Addresses`, `Values`); `UpdateBackup` is the frame's countdown and
`save_backup`; `LoadROM` is `load_backup` and the `reset_gba` that follows it. `backup_update`
starts at 0 and wraps; the value it wraps to is `Far`, which stays, because it would take two
years of frames to come down. `excused` (history) remembers that, since the units were clean,
something happened that the code gives no guarantee against. `WriteOutNears` is the safety half of
`QuietIsWrittenOut`: until the guest writes again, each frame brings the write-out one nearer, and
the one in which it comes leaves nothing unwritten.

### UpdateGba

`pc` is `"run"` between two passes of the `do ... while` of `update_gba` and `"checkPaused"` or
`"restart"` while the host has the machine. `MidLine`, `EnterHBlank`, `NextLine` and `LastLine` are
the four ways through the raster code up to `check_paused`; `Restart`, `EventFrame` and `EndFrame`
the three ways on from it: the `continue` of a restart, the `continue` of the 300th frame, and the
end of the frame. `Finish` is the common tail: `raise_interrupt`, `check_timer` and the loop
condition. `Overflows(over)` characterises the timers that overflow in the pass, where a cascaded
one depends on the one before it, so that no recursion is needed. The guest's slice is a sequence
of register writes (`GuestWrites`); the host's calls are `Host`. `Paused` is where `EmuThread` has
its emulator thread parked, and that a failed load of a state still restarts is how that module's
`RestartOps` behave.

The slice is kept twice. `execute_cycles` is the global, the *books*: the next pass advances timers
and raster by it. `given` is what `update_gba` returned, the copy that the CPU counts down.
`trigger_timer` (`main.h` 152) shortens only the books, so after a timer was started within a slice
the CPU runs on to the old end, past the new timer's overflow, and what it runs beyond the books is
in no account. `SliceStopsInTime` says what is left: `given` ends by the next change of the raster and
by the overflow of every timer that ran when the slice began, all others are in `overtaken`, and the
books end by those, too, so that no timer is ever counted below zero. `RasterClock` is about the
books. That the CPU ends a slice at the end of a block, or before its time, is in neither.

History variables: `elapsed`, the cycles in the books since line 0; `overtaken`, the timers started
within the slice that overflow before its end; `repeated`, a `continue` left the line to end again;
`drifted`, one did so with timers running; `moved`, the PC is not where the translated block goes on.

`EndNears` is the safety half of `PauseAnswered`: `CyclesLeft` to the end of the frame is positive,
no guest write moves it, and each pass without a `continue` makes it smaller.

Abstractions: reloads are in cycles (no prescaler); IE and IME are one switch; sound, DMA,
rendering and input have no step of their own.

### GamepakPaging

`memory_map_read` is modelled for the 32 KB pages of the three copies of the ROM; an entry is the
page of the buffer it points to. `LoadGamepakPage` is `load_gamepak_page` with
`evict_gamepak_page`: the page with the smallest `page_timestamp`, the last one of several; the
page it held is taken out of all copies *before* the new one is put in, which matters because they
can be the same page. `Access` stands for every path that reads, executes or copies from the pak:
all of them test for `NULL` and load. `page_time` wraps at `TimeModulus`; the code's is 2^32.
`LoadROM` and `Reset` end in `init_memory_gamepak`. For a large ROM that empties the map up to
D000000 and not to E000000, so the upper half of the third copy keeps what it had; `Forgotten` names
those pages, with the history variable `seen` (pages loaded since), and the positive properties
except them.

### Eeprom

`WriteBase`, `WriteAddress`, `WriteData` and `WriteFooter` are the cases of `write_eeprom`, one bit
at a time, `ReadData` and `ReadHeader` those of `read_eeprom`. The guest is part of the model, and
is a well-behaved one: `req` is the request it is at, `sent` and `got` how many bits of it went
out and came back (`Start`, `Send`, `Receive`), and between requests it asks whether a write is
done (`Poll`). A request travels by DMA, and then the host cannot come between its bits
(`BetweenBits`), or bit by bit from the guest's own loop, and then `Reset`, `LoadROM`, `SaveState`
and `LoadState` can. `Detected` is the test for 17 (and 81) bits that `trigger_dma` makes; until a
DMA was started, and again after each reset, a chip with long addresses is taken for one with
short ones. A saved state holds the registers and the guest, and not the words.

`InSync` compares the chip with the guest, in the machine and in the saved state; `Kept` and
`AnswersRight` compare the words. `written` (history) is what the guest may count on: nothing at
the address of a write that was cut off or was loaded half done (`mixed`).

`init_memory` does not clear `eeprom_buffer`. After a reset inside a long address a bit may be left
where the second of the next command goes (`CommandLeft`, reachable), and the code takes the next
write for a read. `Start` excludes requests from there on; nothing in the repository says what
a reset at that point should do.

### TranslationCache

A cell is a halfword of RAM; `tags` is what the code keeps beside it, `blocks` are the blocks that
exist, by number. `Jump` begins a lookup; `Found`, `Translate` and `Overflow` are its outcomes;
`Link` and `Return` are the recursion of `translate_block` into the blocks it branches to, with the
`redo` that follows an overflow inside. `Translate` sets the number where the block begins and the
`Guard` in the cells after it, unless they hold a tag already (`Marked`). `Flush` is
`flush_translation_cache_ram`, with its arithmetic on the lowest and highest address of code:
IWRAM within its page, EWRAM within a page, and the two ends wrongly when there are several
(`EwramCleared`). The stores differ in what they look at: `Store` (16 and 32 bit), `StoreByte` (one
half of a tag), `StoreSafe` (block transfers: nothing), `Dma` (all, but the interrupt's alert
overwrites the one for code). `outdated`, `unheeded`, `spread` and `aborted` are history.

`Fresh` is the point of the component: a block whose code was overwritten exists only if the store
was one that does not look. `NoneAstray` excepts two cases that the code gets wrong: EWRAM once a
flush met several of its pages (`spread`), and the cells where an abandoned translation began at or
beyond `code_max` (`Beyond`, `aborted`), each until a later flush reaches it.

### AgbaActivity

The activity and as much of Android as it relies on: life cycle, focus, managed dialogs, the
instance state, a process killed with the instance state kept. One action per callback. `Paused`
and `Resumed` are `pauseEmulator` and `resumeEmulator` on the static counter; `asked` is what the
emulator was last told, which focus changes set without counting. `former` is an activity that was
finished and is destroyed after its successor was created: it clears the static emulator under it,
and the next use is `Crash`.

Android keeps every dialog that was shown by its number until `removeDialog`, which `Agba.java`
never calls. `managed` is that set; the instance state has all of it and which of them was open, and
`Create` prepares each again (`Restored`), of which only the open one is shown. Since
`onPrepareDialog` pauses (218), each closed one of two kinds takes from the counter what nothing on
the screen will give back (`Phantoms`).

History: `surplus`, purchase dialogs cancelled (they resume without having paused); `orphans`, holds
that no dialog gives back, of dialogs whose activity was destroyed and of closed ones that were
prepared again; `nameOnly`, a game's name taken without its ROM. `MaxSurplus` bounds `surplus`, and
`orphans` before an activity is destroyed; a restore may add two beyond it. `Counted` says that the
counter is what is open but for these, `QuietBehind` that no game runs behind anything as long as
there are none. (`mIsPremium` is false, so the dialog for loading states is never shown and is left
out.)

### SoundFifo

A FIFO is its two indices; `Filled` is how `sound_timer` reads them. `SoundTimer` takes a sample
and, when half or less is left, has the DMA of the channel bring a block (`Served`);
`SoundTimerQueue` are the guest's own stores, `TriggerDma` and `StopDma` writes to a control register, `BlankDma` the DMA
of the raster, `SoundResetFifo` and `ResetGba` the resets, the first of which clears A whatever its
channel. `fresh` (history) counts the bytes queued and not played; `crowded` says that the guest
overran the ring itself; `fed` that the channel has caught up; `astray` that a DMA ended by itself
and kept its sound channel, so that an ordinary DMA of the same number is run by `sound_timer`.

### KeyInput

A key word is a set of keys. `KeyDown`, `KeyUp`, `Roll`, `PointerDown`, `Move`, `PointerUp`, `Up`
are the events; `OnGameKeyChanged` merges keyboard, keypad and trackball and resolves opposite
directions; `KeysFocusGained`, `KeysFocusLost`, `ResumeEmulator` reset what the code resets there.
`UpdateInput` is the frame's `update_input` with turbo keys and `trigger_key`. The word between the
two threads is one store and one load of 32 bits, so no action is split. The history variables
`torn`, `lifted`, `untold` and `forgot` each name one thing the code loses: a key held by two keys
when one is released, the second finger's release, the trackball on a change of focus, and that a
reset clears P1 and keeps `key`, so that the next frame sees no change; a state saved between the
two has them apart as well, and brings that along. A press shorter than a frame is never seen; no
property says it should be.

### CpuModes

Where each register of each mode is. Instead of a number, every place (`reg`, `reg_mode`, the
registers of the host) holds the *slot* whose last value it has, or `OLD`; a write makes all other
copies `OLD`. `SetCpuMode` is `set_cpu_mode` as it is, `Stored` and `Loaded` move the registers the
host holds, for ARM and for Thumb code; `StoreCpsr`, `SpsrRestore`, `ExecuteSwi`, `UpdateGba`, `Bx`
and `StoreOfDma` are the stubs, in the order in which each stores, switches and loads. `lost`
(history) is the set of slots that the code is known to lose, until they are written again:

* r8 to r12 of FIQ, which are neither loaded when it is entered nor saved when it is left, contrary
  to the comment at `cpu.c` 1533, and those of the mode it returns to if it is another one;
* the link register when an exception enters the mode the CPU is already in (`cpu.c` 4289);
* what the host holds when a DMA's interrupt is taken inside the store that started it: the bank
  and the instruction set have changed before `write_epilogue` stores (`memory.c` 2815).

`RegistersKept` says that the stubs modelled lose nothing else. Left out: the stores of a block
transfer before its last, which call `execute_store_u32_safe` (`arm_stub.S` 571) and return into the
block even if the DMA they started has switched modes, so that it goes on in the wrong bank; flags
and SPSR (a write of SPSR ignores the field mask, `arm_stub.S` 346), modes that are not valid, saved
states.

## 4. Runs and bounds

| Run | Configuration | What it shows |
|---|---|---|
| `emu_thread` | `StartRace = FALSE` | All safety and liveness properties of the hand-over and the refinement of `MachineControl`, about 180 000 states. Nothing is bounded: two threads and 13 calls are the program's own numbers. The start-up race (`StartRace = TRUE`) is covered by the proofs of ownership, restart, sound and contract, which hold for both values. |
| `backup` | `Delay = 2` | Countdown, commands, guesses, resets, states, and that everything gets into the file once the guest stops writing. 2 frames separate "just written", "due" and "idle"; a longer delay adds only states of waiting, and the proof covers every delay. |
| `update_gba_timers` | 2 timers, lines of 3 cycles, reloads 1 and 3, an interrupt of the second timer | One reload shorter and one longer than a slice, cascade and prescale, so that several overflows fall into a line and one spans lines; frames keep ending. |
| `update_gba_states` | no timers, saved states, the VBLANK interrupt | Resets and states of the raster, the CPU and the interrupts; the reported PC; the wait for the vertical blank. |
| `gamepak_paging` | 4 pages of ROM, 3 in the buffer, time stamps modulo 4; a large and a small pak | Every mapped page holds its ROM page, in all copies. One page more than the buffer forces eviction; 4 pages give the third copy an upper half; a modulus just above the buffer's size lets time stamps wrap and be equal. |
| `eeprom` | addresses of 1 and 3 bits, words of 2, two addresses, two contents | Every mode is entered, left and interrupted; the addresses differ in a bit that a short address does not have, the contents in every bit, so that a word that is not cleared first, a bit too many or a wrong length shows. An address of 3 bits is long enough to leave the bit of `CommandLeft`. |
| `translation_cache` | 3 pages of EWRAM and one of IWRAM of 2 halfwords, room for 3 instructions, blocks of up to 2, 5 entries, tags of base 4 | Every store, flush and overflow. Three pages are the least with a page between the first and the last; three instructions let a translation overflow inside another; with base 4 the second number has a zero byte. `FewLeft` bounds the cells that keep a tag outside any block. |
| `activity` | `MaxSurplus = 2` | Every order of callbacks, with up to two cancelled purchase dialogs and up to four holds gone astray, so that one kind may cancel the other. |
| `sound_fifo` | one channel, blocks of 3 bytes, stores of 1 and 2 | Two DMA channels that can both feed it. Three is the least block in which a partly played one differs from both ends; the proofs cover every size and both channels. |
| `key_input` | a diagonal key, one that shares a direction, a turbo key; two zones, two fingers; one direction of the ball | Each way of holding a key twice, with an opposite on keypad and ball. Fingers are symmetric. |
| `cpu_modes` | 4 modes, registers 3, 5, 9, 13, 14 | One register of each kind: held by the host in Thumb, in ARM and in neither; banked for all, for FIQ and not. `MCBounded`: two slots lost at once, or all that one interrupt of a DMA loses as long as FIQ was not used; beyond that, runs only combine losses. |
| `backup_reset_before_write_out` | one property | A disagreement between a comment and the code, below. |

Two lines of which one is visible are enough in the clock's runs because lines differ only in
being the first, the first blank one or the last; the proofs are for every geometry. `CountFloor`
caps how far an overdue timer is followed; `EventFrames` is the 300 of `event_cycles_trigger`,
whose counter is followed to one past it. `SavesStates` turns saved states off where a run would
square its state space with them. The VCOUNT and HBLANK interrupts are in the model and in the
proofs, and left out of the two runs, which they would make too large.

Every property of a passing run has a mutant in `PROJECT.json`: a change to one mapped definition
that TLC shows to violate it.

### Disagreements found

A violation run, with the comment quoted in the finding:

* `backup_reset_before_write_out`: a reset within the delay cancels the write-out (`memory.c` 3078,
  1892), although "Write out backup file this many cycles after the most recent backup write" (117).

Met while modelling; the properties name each as an excuse or a history variable, and fail when it
is dropped from them:

* an SRAM byte at 5555h is stored but not scheduled (`memory.c` 1369); another game loaded within
  the delay discards the write-out (2164), or gets it for its own file (1939): `OnTime`, `excused`;
* after a reset, or another large pak, pages from D000000 on stay mapped to places of the buffer
  that are given to other pages (2940): `MapCoherent`, `Forgotten`;
* tags that survive a flush over several EWRAM pages and an abandoned translation
  (`cpu_threaded.c` 3453, 3320): `NoneAstray`, `spread`, `aborted`; and "we allow for one translation
  cache flush" (2734), a limit that is counted and never tested;
* the stores that do not look for code: `Fresh`, `unheeded`;
* the purchase dialog's cancel, dialogs that go away with their activity, and closed dialogs that
  Android prepares again when it restores the activity (`Agba.java` 218): `Counted`. After the last
  the counter is one lower with nothing open, the menu takes it from 0 to -1 and does not pause
  (427), and the game runs behind the menu: `QuietBehind`, `orphans`;
* a timer started in the middle of a slice overflows while the CPU runs on (`main.h` 152):
  `SliceStopsInTime`, `overtaken`;
* a sound DMA that ended: `DmaCoherent`, `astray`; the keys of section 3; the registers of
  section 3, the first of them against a comment.

Met while proving: `NobodyStuck` was first proved for either value of `StartRace`, in a model whose
`while` tested and waited in one step. With the two steps apart it is false for
`StartRace = TRUE`, and TLC shows how both threads stop: `resumeEmulator` holds the mutex when
`Emulator_run` (`emulator.cpp` 405) initialises it again; `waitForStart` then takes it too, finds
`PAUSED` and is about to wait when the call sets `REQUEST_RUN` and signals nobody; then both block.
Only a spurious wakeup ends it. The window is the first call's, between the start of the thread and
`pthread_mutex_init`. `HandOverInv` is not affected; `NoDeadlock` assumes `~StartRace`.

Read off the code, without a property: what the size of the file gives away of the chip (1850) is
undone by the `reset_gba` that `Emulator_loadROM` calls next (3078); `showPlaceholder` at the end of
`onCreate` covers a game that was just restored (`Agba.java` 144); `dma_transfer` counts bytes as
units at the boundary of a region (`memory.c` 2778); `reset_sound` clears only the first
2048 bytes of its buffer (`sound.c` 575).

## 5. Fairness

* `EmuThread`: weak fairness of each thread (the system schedules both) and strong fairness of
  taking the mutex: a thread woken spuriously may take it again and again, and a mutex that passes
  over one of two threads for ever is not one. No fairness of `Begin` (nobody has to call) and none
  of `SpuriousWakeup` (a wakeup that no signal caused is never counted on).
* `Backup`: weak fairness of `UpdateBackup`, since frames keep coming.
* `GamepakPaging`, `Eeprom`, `TranslationCache`, `AgbaActivity`, `SoundFifo`, `KeyInput`, `CpuModes`:
  none; they have no liveness property.
* `UpdateGba`: weak fairness of `Pass` (the CPU counts its slice down whatever it executes) and of
  `LeavePause` (the host lets go; that is `CallsReturn` in `EmuThread`, together with the user
  resuming the game). `HaltedWakes` excuses a restart, after which there is another machine.

## 6. Proofs

All proofs are checked by TLAPS without trusted steps.

* `EmuThreadProofs`. `HandOverInv` is inductive (`HandOver`). Its core is `EmuSide` and `UiSide`:
  the value of `emuState` tells where either thread can be, and only one of them may move on from
  it. The safety properties alone are not inductive: that nobody draws without a surface needs that
  `emuState # "PAUSED"` implies `Runnable`, which needs that a call that takes the surface away got
  there through the pause. `Ownership`, `ObjectsLive`, `RestartsHonoured`, `WantedRuns` and
  `ParkedIsSilent` are consequences; `Implements` maps every step to a step of `MachineControl` or a
  stutter. The only assumption is that `StartRace` is a Boolean.

  `WaitInv` is inductive beside it for `~StartRace` (`WaitsEnd`): the mutex belongs to whoever
  stands between its lock and its unlock (`MutexHeld`), a thread that is about to wait still has its
  condition before it, and a thread that waits is owed a signal (`WakeupOwed`): the other thread has
  yet to leave the value of `emuState` it waits on. The three need each other: that a condition
  stays true from test to wait is because whoever changes it needs the mutex. `NoDeadlock` (nobody
  is stuck) and `MutexExcludes` follow.
* `BackupProofs`. `TypeOK /\ ChipCoherent /\ OnTime` is inductive for every `Delay >= 1`
  (`BackupInvariant`). The coherence of the chip is what makes it so: a write into the second bank is
  covered only because the bank can be selected only on a chip already known to be large.
  `BackupTypes`, `ChipStaysCoherent` and `WrittenOnTime` follow, and `EveryFrameNears`
  (`WriteOutNears`), which no run lists: with the fairness of frames it is the argument for
  `QuietIsWrittenOut`, for every delay.
* `UpdateGbaProofs`, the clock. `ClockInv` is inductive for every geometry with `HBlank <= Draw`,
  every set of timers and every set of positive reloads that has a largest (`ClockInvariant`). The
  equation of `RasterClock` is kept by each pass, but at the end of a frame `vcount` starts again,
  which is right only if the frame ended exactly on its cycle; that needs
  `execute_cycles <= video_count`, hence that `check_timer` and `trigger_timer` only ever shorten a
  slice, and it needs the same of a machine in a state file (`SlotsOnTheClock`). `SliceGiven` says the
  same of the CPU's copy: it was right when it was given, and the timers it overtakes since are known.
  `RasterFollowsCycles`, `SlicesStopInTime` and `PcIsFollowed` follow, and `EveryPassNears`
  (`EndNears`, which no run lists): with the fairness of passes, the argument for `PauseAnswered`.
  `IrqInv` types the interrupt registers, in the machine and in the file, which the clock does not
  need; with `ClockInv` it gives `ClockTypeCorrect`.
* `UpdateGbaProofs`, the registers of the guest that the clock interrupts (`CpuModes`). `ModesInv`
  is inductive for every set of modes and registers that `ModesAssumption` allows, with or without
  FIQ (`ModesInvariant`). It is about `Whole`, the register file with what the host holds put back,
  and `Sound(Whole)` says where every value is that `RegistersKept` does not see yet: the registers
  of the mode at hand (`AtHand`), 13 and 14 of all others in their banks (`InBank`), and, in FIQ,
  the others' 8 to 12 in the bank of the mode it came from (`OfFiq`); each unless `lost`. One lemma
  says that `SetCpuMode` keeps a file sound, one that an exception does, and `Handed` that a stub
  that stores, switches and loads hands on a sound file whatever the instruction set. The interrupt
  of a DMA is the exception: it stores after the switch, and the lemma `DmaTakenStep` shows that what
  it spoils is exactly what `lost` has. `RegistersAreKept` and `InterruptsAreTaken` follow.
* `GamepakPagingProofs`. `PagingInv` is inductive (`Paging`) for every size of space and buffer,
  every modulus of the time stamps and every set of paks that fit the address space
  (`PagingAssumption`). `MapCoherent` alone is not: an eviction clears the entries of the page its
  slot *notes*, so it needs `SlotsKnown` (the slot notes what is mapped to it), and a change of pak
  needs `SmallMapped`. The proof nowhere uses which slot `Evicted` picks, hence time stamps that
  wrap or are equal cost speed and nothing else. `CoherentMap`, `AgreeingCopies` and
  `PagesArrive` follow.
* `EepromProofs`. `EepromInv` is inductive (`EepromInvariant`) for all lengths of addresses and
  words with `CommandPos + 1 < LongLen` and every set of addresses and contents; there is one
  lemma per part of a request. `Kept` needs `InSync` (a bit goes to the word the guest means) and
  `WordUnderWay` (the word half written holds the bits sent so far and zeros), `InSync` needs
  `SizeKnown`, and a saved state must satisfy what the machine does, since it becomes one.
  `EepromTypes`, `StaysInSync`, `WordsStay` and `Answers` follow.
* `TranslationCacheProofs`. `CacheInv` is inductive for every number and size of pages, room, length
  of blocks and set of entries, if a block alone fits and there are numbers for all that do
  (`SizeAssumption`, `RoomAssumption`). `Fresh` rests on `Guarded`: no cell of a block is without a
  tag, so a store that looks finds one; `NoneAstray` on `BlocksWithinBounds`, since a flush clears
  only what the bounds span (`CellCleared`), those of an abandoned translation included; and the lookup that goes on after an overflow needs `RedoAfterFlush`.
* `AgbaActivityProofs`. `ActivityInv` is inductive for every `MaxSurplus`. `Counted` alone is not: it
  needs `Leftovers`, what may be open in each state of the life cycle, and `ManagedOK`, that whatever
  is open or is to be restored is among the dialogs that were shown: then what `Restored` takes from
  the counter is the hold of the open dialog and the phantoms (`TakenIsHeldOrPhantom`). `RunsInFront` needs
  `StoppedByCount`, that a game stopped in the focused window is stopped by the counter, and
  `NameAndGame` needs `KnownGame`, which also follows the name through the instance state.
* `AgbaActivityProofs`, the keys that the activity merges (`KeyInput`). `KeyInv` is inductive for
  every map of keys, set of zones and of fingers, trackball and saved state that `KeyAssumption`
  allows (`KeyInvariant`). `NothingStuck` alone is not: what the emulator was told must be traced
  back through `Merged` to the keyboard, which must hold no more than the keys pressed in front of
  the game (`KeyboardHeld`), and to the keypad, which must hold no more than the fingers
  (`KeypadTouched`); and after a change of focus what is told is nothing at all
  (`UntoldIsNothing`). `KeysAreTold`, `NoKeyStuck`, `HeldKeysAreTold` and the action property
  `PressesInterrupt` follow, the last from `KeyIsRead`: what the guest saw is what the next frame
  compares with.
* `SoundFifoProofs`. `Inv`, the four properties together, is inductive for every `Block`, set of
  channels and of store widths. Its core is the distance between `fresh` and `Filled`: a block is
  asked for only at `Block` or less, and brings `Block`, so a ring that is not overrun by the guest
  never overflows and the one ambiguous case (`top = base`) is always the full one when a DMA
  supplies it.

Only model-checked: the liveness properties (`CallsReturn`, `FramesFlow`, `QuietIsWrittenOut`,
`HaltedWakes`, `PauseAnswered`), which need fairness and are outside the prover's reach, and the
negative result. Every other property of the runs is a theorem.

## 7. Not modelled

The contents of the buffer and of the files, file names (`load_state` compares them and may load
another game), the write-out that an EEPROM word schedules, guests that break the EEPROM's
protocol, cycle costs of instructions and DMA, mixing of sound and the ring buffer to the audio
track, the caches for code in ROM and BIOS, flags and SPSR. The components marked "planned" above
are sequential machines that wait for their turn; those in the last row of the inventory are
computation without interleaving, I/O, third-party code, or not compiled into the library
(`Android.mk`). Most of the repository's lines are of that kind: pixel pipelines, instruction
emitters for three processors (two of them not built), a font, menus of other ports.

Known hazards without a property, with the reason, are in `PROJECT.json`: among them bytes of the
previous game beyond the end of a short file (`memory.c` 1846), interrupts of a replaced machine
raised in a loaded one that is halted (`main.c` 189), and the slice left over by a `continue`,
which `SliceStopsInTime` excuses (`main.c` 286).
