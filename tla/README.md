# CANopenTerm in TLA+

CANopenTerm is a terminal program that reads and writes the objects of CANopen
nodes, sends cyclic frames, and runs Lua and Python scripts that do the same.
This directory specifies the parts of it that keep state, model-checks them on
small instances with TLC, and proves the most important results for every size
with TLAPS. Paths below are relative to the directory of the source code,
`src/core/pdo.c` being `src/src/core/pdo.c` of the tree.

Contents: the inventory of the system, the modules, the runs, the proofs, what
the code does otherwise than it says, and what is not modelled.

## 1. Inventory

### Threads

| Thread | Runs | Shares with the others |
| --- | --- | --- |
| main | the command line, scripts, `pdo_add`, `sdo_read`, `can_set_channel`, `codb_deinit` | everything |
| monitor (`src/core/can.c`) | `can_monitor`, `find_can_channel`, `can_deinit` | the fields of `core_t`, the output buffer |
| database (`src/core/codb.c`) | `codb_init_ex`, once, at the start | `codb`, `ds301`, `is_init_cancelled` |
| timer (SDL) | `pdo_send_callback`, one expired timer at a time | the PDO table, `can_write` |
| signal handler (`src/core/core_linux.c`) | `core_deinit` on the interrupted main thread, then `exit` | `core_t` |

None of the shared fields has a lock or is atomic. The main thread runs one
command or script at a time to its end; a script API call is a C function that
is called on the main thread.

### Components

| Component | State | Operations | Hard behaviour | Correct when |
| --- | --- | --- | --- | --- |
| PDO scheduler `pdo.c` | table of slots, one timer per slot | `pdo_add`, `pdo_del`, `pdo_send_callback` | the callback reads a slot without a lock while the main thread clears or fills it; the table is full; a timer is refused | one slot per CAN-ID, no timer outlives its slot, a frame is the one scheduled, deleted means no longer sent |
| SDO client `sdo.c` | the dialogue in progress, the receive queue | `sdo_read`, `sdo_write`, `sdo_write_segmented`, `sdo_write_block`, `wait_for_response` | late, lost, repeated and foreign answers; a node that gives up half way; sizes at the limits | the value returned is the object's, nothing of a dialogue is left for the next, every call ends |
| CAN channel `can.c` | `can_channel`, `is_can_initialised`, `set_can_channel`, the open interfaces | `can_monitor`, `find_can_channel`, `can_set_channel`, `can_deinit`, `can_quit`, `can_read`, `can_write` | two threads change the same fields; interfaces come and go | the current channel is open while CAN counts as initialised, no interface is leaked, a switch takes effect or is reported |
| Life cycle `core.c`, `main.c` | `is_running`, the threads | `core_init`, `core_update`, `core_deinit`, interrupt | detached monitor, cancelled database thread | no thread uses what is freed; the program ends |
| Object database `codb.c` | `ds301`, `codb`, `active_no`, the thread | `codb_init`, `codb_init_ex`, `load_codb`, `unload_codb`, lookups | cancelled at any step; loaded and unloaded by number; files that do not parse | the active number is the loaded profile, nothing is leaked, a cancelled start leaves nothing behind |
| Dictionary `dict.c` | the buffer `dict_lookup_raw` returns | `dict_lookup`, `dict_lookup_object`, `dict_lookup_raw`, `emcy_lookup` | classification by overlapping masks, profile before DS301 | each frame gets the description of its kind |
| DBC decoder `dbc.c` | the messages and signals loaded | `dbc_load`, `dbc_unload`, `dbc_decode`, `dbc_find_id_by_name` | bit ranges, byte orders and signs at the limits | a signal's value is what the DBC format says |
| Test report `test_report.c` | list of results | `test_add_result`, `test_clear_results`, `test_generate_report` | growth that fails; results kept after an error | every result is reported once |
| EDS conformance test `eds.c` | the entries parsed, the section parsed last | `run_conformance_test`, `validate_eds`, `parse_eds` | state that survives from file to file, ranges of objects that are joined | an object whose section nothing disturbs is judged once, by its own access type |
| Scripts `scripts.c` | search paths, `is_script_running`, `is_abort` | `run_script`, `run_script_ex`, `list_scripts` | abort, a script found in several places | a script that ended well is the last one run |
| Command line `command.c` | none | `parse_command`, completion | the number of tokens, defaults of missing ones, numbers cut to their width | a command does what its arguments say, what is offered is a command |
| NMT `nmt.c` | none | `nmt_send_command` | - | the frame is the command's |
| Output buffer, tables `buffer.c`, `table.c` | one static buffer | append, flush | two threads append | text of one thread is not lost |
| Operating system layer `src/os` | - | wrappers of SDL and the C library | - | modelled in the modules that call it |
| Script APIs `src/api` | - | conversions of arguments | integers are cut to their width | modelled with the component they call |
| Converter `src/codb2json` (a program of its own) | the entries and how many are filled in, the JSON file | `read_codb`, copies, `write_json` | room counted in one pass and filled in another, copies of copies | the document is the profile, an error leaves the old file |
| Widgets, windows | - | drawing | - | no state |

Calls go from the command line and the script APIs to the PDO scheduler, the
SDO client, NMT and the databases, and from these to `can_write` and
`can_read`; the only callback is the timer's. The monitor writes fields of
`core_t` that `can_write`, `can_read` and `can_set_channel` read. The EDS test
reads objects by `sdo_read` and adds to the test report.
`PROJECT.json` lists every hazard of this code that is hard to test, at the
line where it bites, with the properties that would catch it.

## 2. Modules

| Module | Models |
| --- | --- |
| `PdoMap` | what the PDO scheduler promises: a map from CAN-IDs to PDOs with room for some number of them |
| `Pdo` | `src/core/pdo.c`, with the conversions of `src/api/lua_pdo.c` |
| `SdoLink` | the bus as the SDO client sees it: `can_write`, `can_read`, `wait_for_response` |
| `SdoNode` | the SDO server of the node: expedited, segmented and block transfer (external) |
| `SdoRead` | the state of the client and `sdo_read` |
| `SdoWrite` | `sdo_write`, `sdo_write_segmented`, `sdo_write_block` |
| `SdoClient` | the composition: a sequence of calls, the node and the bus |
| `CanChannel` | `can_monitor`, `find_can_channel`, `can_set_channel`, `can_quit`, `can_deinit` |
| `Codb` | the database thread, `codb_deinit`, `load_codb`, `unload_codb` |
| `Dictionary` | `dict_lookup`, `dict_lookup_object`, `dict_lookup_raw` and the look-ups in the profiles |
| `TestReport` | `src/core/test_report.c` |
| `Scripts` | `run_script`, `run_script_ex` |
| `Console` | the main thread from `core_init` to `core_deinit` and the interrupt, over the four above |
| `PdoIds` | the CAN-IDs `pdo_is_id_valid` accepts, for `Pdo` and `Command` |
| `Command` | `src/core/command.c`: what a line does, and what completion offers |
| `Nmt` | `src/core/nmt.c`, and its script functions |
| `Dbc` | `src/core/dbc.c`: loading, unloading, finding and decoding |
| `Eds` | `src/core/eds.c`: the parser's callback and the conformance test |
| `Terminal` | the main thread at the prompt and in scripts, over the four above |
| `CodbLine` | what the converter makes of a line of a profile |
| `Convert` | `src/codb2json`: both passes, copies, the JSON document |
| `Ordered` | the elements of a set of numbers in their order, for the properties |
| `InductionLemmas` | induction, folds and order over data, for the proofs |
| `*_proofs` | the proofs about `Pdo` (with the refinement), `SdoClient`, `CanChannel`, `Console`, `Convert` and `Terminal` |
| `MC*` | values of the constants for TLC |

**Pdo.** `pdo`, the table, is a function from slots to records with the fields
of `pdo_t`. A call of `pdo_add` is the actions `pdo_add`, `Find`, `Clear` (one
per field), `RemoveTimer`, `Claim`, `Fill` (one per field), `AddTimer`;
`pdo_del` shares the first four. The timer thread is `TimerExpires`,
`LoadField`, `LoadByte`, `SendFrame`. Stores and loads of plain memory between
two calls may be performed in any order by a build, so the model stores and
loads the fields in any order. An identifier that a slot keeps after its timer
was removed is never read before it is overwritten, and is forgotten. SDL does
not stop a callback that is running when its timer is removed, and neither does
the model. `clean` is a history variable: no store overlapped the callback.

**SdoLink, SdoNode, SdoRead, SdoWrite, SdoClient.** Time is counted in polls:
each turn of the loop of `wait_for_response` that reads nothing of the node
moves `elapsed` by one or more, and the wait ends when it reaches `TIMEOUT`.
A behaviour has one of the `Setups`: a node that is prompt or not, what else goes
wrong, its objects, the calls that are made, and bounds. `Prompt` says that the
node's answer arrives before the time is out; without it an answer may come at
any time, also in a later call. `Faults` are frames lost, transfers aborted,
`can_write` refused, the file of a block download not read. The node is a CiA 301 server: it is not part of the
repository and its actions are external. Text is a sequence of characters; the
bytes of an abort or initiate frame that is taken for a segment count as no
text, and a block acknowledgement counts as having no index. The client is one
program counter `pc`, the request `req`, what the call keeps in local variables
`loc`, and its `result`.

**CanChannel.** One action per access of a shared field, per call of the CAN
library and per test of a loop. Opening an interface that is plugged in
succeeds. `can_update` fails when its interface is not there. A
behaviour keeps to one of `Scheduling`: `interleave` lets the main thread run at
any point of the monitor; without it only while the monitor is in `os_delay`,
which is most of the time.

**Codb, Dictionary, TestReport, Scripts, Console.** The main thread's own state, and the one
thread that still works beside it. `codb_init_ex` is four steps, so that
`codb_deinit` meets it before and after each test of `is_init_cancelled`;
`codb_init` starts the thread in one step and stores the pointer to it in the
next. Without a thread it runs the same steps and the main thread waits.
`codb_deinit` is the cancellation, the wait, which blocks, the store that
forgets the thread, and for each profile the free and the store that forgets
it; `load_codb` is the release of the old profile in the same two steps, the
parsing and the store of the new one. A profile is the number of its file, and
`trees` counts the parsed files that are allocated. A search of `run_script` is
one step per place; a script reports results while it runs and ends well or
not. The report, the results and the scripts change in one action per call.
An interrupt finds the main thread anywhere: between any two of these steps,
inside the wait, between the two halves of a change, in `core_deinit` too. The
thread does not go on with what it was doing, `core_deinit` starts over, and
`exit` ends the program. `interrupted` keeps where the main thread was found.
In `Halfway` are the points where one half of a change is done: the second join
of a thread does not wait, another join or a free of what was freed is
undefined (`UndefinedUse`, a step to `crashed` beside the one on which all goes
well), and a thread whose pointer is not stored is not waited for. Inside the
heap, whose lock is then held, `handle_sigint` may crash at any point.
`DeinitReleasesAll` and `NoTreeLeaked` do not hold for these eight points of
the code and exclude them by name; all other properties hold there too. The
look-ups change nothing and are operators of the state, evaluated in every state
by the invariants that name them; a description is the entry it was taken from,
and a sub-index is what the element of the list says, wherever it stands. The
results are sorted and grouped as the code does it, pair by pair, with `Hash`
for `generate_hash`.

**Command, Nmt, Dbc, Eds, Terminal.** A line is its leading blanks and its
tokens; a token has what `parse_command` looks at, its word, first letter,
length, whether quotes open and close with it, and the number
`convert_token_to_uint` makes of it. A command ends with the call it makes; of
NMT the frame is followed to `can_write`. A DBC file is loaded a line at a time,
so that memory can run out after each; frames and the fields of signals are sets
of bits, which is what shifting and masking make of them. Names are matched by
`Like` (without regard to case, in `dbc_find_id_by_name`) and `HasText` (as they
are, in `dbc_decode`). The names and units that `dbc_load` duplicates without
looking are in `dbc.null` when there was no memory for them; `dbc_find_id_by_name`
ends with a memory error at a null name or where its own copies cannot be made.
`dbc_decode` writes to `ResultSize` characters (4096 in the code): a message and
a signal have the length of their text, what no longer fits is cut, and
`DecodeUndefined` names the frames for which the code writes past the end, does
not return, or prints a null name. The data sheet is the sequence of keys its
parser calls back with; `prev_section` stays from file to file; whether a node
has an object is chosen per object (the reads are `SdoRead`'s). The ranges of an
index are a text of `SubsSize` characters (256 in the code), and index 0xFFFF
stands for no index, as in the code. What a file says of an object is read off
the file alone, from the keys of its section; `Undisturbed` names the sections
for which `parse_eds` keeps to that.

**CodbLine, Convert.** A line is its kind and its fields as far as the converter
tells them apart; `EntryOf` is what one pass over the fields leaves. The first
pass counts, the second reads or copies, `write_json` writes one entry per step,
and every step may fail by an error in the line or for want of memory, where the
code looks. Where it does not look, `lost` keeps what could not be allocated,
`MaxLost` at most: the name of an object, which makes its entry one of a
sub-index; the texts of copies; members of the document. A document whose text
could not be made, or not be written, is `spoiled`, and the program ends well.
`DocumentIsWhole` is about a document that was written with nothing lost, and
compares it with the lines by the numbers their fields have in
`docs/codb2json.md` (`Described`), not with what the converter's own pass makes
of them.

## 3. Runs

| Run | Shows |
| --- | --- |
| `pdo_table` | slots, timers, frames and results of the calls agree: one slot per CAN-ID, timers belong to the slot they read, a clean callback sends the slot's frame, a deleted PDO is gone, an add is refused only when the table is full of other CAN-IDs |
| `pdo_live` | the table implements `PdoMap`; a PDO that stays in the table with its timer is sent again and again |
| `pdo_ids` | (violation) a callback that overlaps `pdo_del` sends a frame with CAN-ID 0 |
| `sdo` | with a prompt node and no faults a read returns the object, what is written is stored (a file up to its last segment), no call fails, nothing is left behind for the next; with late and lost answers, aborts and refused frames an expedited read never returns the value of another index; in both every call returns |
| `sdo_abort` | (violation) an abort during the segments is taken for a segment |
| `sdo_file` | (violation) a block download reports success though the node did not store the file |
| `can` | without interleaving the current interface is open, none is leaked, a switch takes effect or is reported; with any interleaving interfaces that come are taken into use, interfaces that go are given up |
| `can_race` | (violation) a switch that overlaps `find_can_channel` leaves CAN initialised on a channel nobody opened |
| `console` | the database thread at every point of its work, files, threads and memory that fail: profiles are numbered right and released, results are reported once and in their suite, a report opens with every result added since the last, a script that ended well ends the search, the end, asked for or by an interrupt that does not find a change half made, waits for the thread and leaves nothing, and after any interrupt the program ends; in every such state objects are described from the right profile and frames named for their function |
| `dict_position` | (violation) with sub-indices that are not numbered without gaps, another one is described |
| `convert` | both passes over a profile and its copies agree on the room for entries; the document of a grouped profile, if it was written and no allocation failed unnoticed, has every object with what its lines say and its own sub-indices, copies included; an error leaves the JSON file of an earlier conversion |
| `terminal` | whatever was loaded before or failed to load, names and frames are answered from the DBC file loaded last, or memory is said to be short; an undisturbed section of a data sheet has one entry with its own access type, and every entry that can be read is judged once; an NMT frame is the command and node given; a completed line is a command |

**Bounds.** Two slots and three CAN-IDs fill the table, replace a PDO in it and
leave a third out; frames of one byte have three fields that can be torn
already, and `Pdo_proofs` covers every length. Three timer identifiers allow a
callback of a removed timer beside two live ones. `pdo_live` uses CAN-IDs with
an interval only: an interval of 0 ends a timer after its first callback, and
the property then says nothing of that PDO. A segment holds two characters and
a byte of the size six values, so that objects need one, two and three
segments, fill the last one or not, and exceed the size that is kept. Four calls
that read and write texts at a prompt node, three at one that is sent files as
well and three at the node that is late, loses frames and aborts let a leftover
of one call meet the next and the one after. Two interfaces, two switches and three changes
of the hardware let an interface leave and return between two switches. Three
results are the fewest that an incomplete sort leaves ungrouped; four files hold
a profile, the schema, the CiA 301 profile and a broken profile; the number of
commands is not bounded. The profiles define an object each, share one that the
device profile has shorter, and are asked for objects and sub-indices neither
has. Frames are checked for all 11-bit identifiers and lengths.
The converter gets every file of up to two lines of nineteen, of three lines of
nine, and a file of five with up to three more, which copy, copy a copy or start
an object; one allocation fails unnoticed, which is enough to drop an object, a
text or a member. The lines entered are
every command and each of its beginnings, with numbers at and beyond the width
they are cut to; numbers are below 2^31. The DBC files share a CAN-ID and a
name; a frame is 64 bits. A text of 110 characters holds two signals of the longest
message and cuts the third; one name or unit of a database is null. The data
sheets have a gap, a section in common, an object without sub-index and one of
index 0xFFFF; one has the same section twice. Four characters hold one
range and are too few for two.

**Deadlock** is not checked where the system may stop: a client that made its
`MaxCalls` (SDO), a program that quit (CAN, the terminal). In `Console` and `Convert` the end is a step
that changes nothing, and deadlock is checked: the main thread waits for another.

**Fairness.** `Pdo`: a call that has begun, and a callback, run to their end;
SDL serves expired timers in the order of their deadlines, so a live timer is
not passed over for ever (strong fairness per timer). `SdoClient`: the client
thread runs, and a node that has a request handles it, possibly with an answer
that is lost; nothing is assumed of the answers. `CanChannel` and `Console`:
both threads are scheduled, in `Console` the main thread only once it is in
`core_deinit`. `Convert` and `Terminal` have one thread and no liveness property,
and state no fairness. New calls, hardware changes and foreign traffic are never assumed.

Every property of a passing run has a mutant in `PROJECT.json`, a definition of
the module changed as a bug in the code would change it, under which TLC finds
the property violated; the mutants stand before the definitions they replace.

## 4. Proofs

The proofs are about the specifications TLC checks, for every value of the
constants that meets their named assumptions, and use nothing else unless a
theorem states it.

**`Pdo_proofs`**, for every number of slots, frame length, set of arguments
and set of timer identifiers, from `PdoAssumption` (the ranges of the
constants; 0 is a byte, `NoTimer` is not an identifier): `TypeCorrect`,
`OneSlotPerIdCorrect`, `TimersCorrect`, `CleanFrameCorrect`, and the action
property `DeletedPdoCorrect`. None but the first is inductive. Between its
search and its last store a call relies on what it found: `CallInv` says that no
slot but the one a call works on holds its CAN-ID, and which of the slot's
fields are stored already. `SlotIdsValid` is needed because the search for a
free slot looks for CAN-ID 0, which must be no PDO's. `CallbackInv` says that a
clean callback has loaded what its slot still holds; it needs
`TimersBelongToSlots`, or a slot could be filled under a running callback.
`IInv` is the conjunction; there is one lemma per conjunct (`...Step`) with one
step per action, `IInvStep` combines them.

It also has `TableImplementsMap`, that the table implements the map from CAN-IDs
to PDOs, and `AddCorrect`. The refinement maps a slot to an entry
when its fields are stored; `Asked` adds to `IInv` that what a call was asked
for does not change while it works, so that exactly the last store of a call is
a step of the map and all others are stutters. Stating that a full table has as
many entries as slots takes the theorems about cardinalities.

**`CanChannel_proofs`**: `TypeCorrect` for either scheduling, `ChannelIsOpen`
and `NoneLeaked` without interleaving, for any number of interfaces, switches
and changes of the hardware. While the main thread works the monitor is in `os_delay`
(`OneWorks`); then `FlagFits` and `OpenFits` say, for each place in the middle
of an opening or a closing, what the flag and the open interfaces are there
(`InTurn`).

**`InductionLemmas`**. The induction theorems of the library take an operator
as a parameter, which the provers cannot instantiate, but they can be had for
sets: `UpTo` says that a set with 0, and with n + 1 for every n in it, has every
natural number, `HasLeast` and `HasGreatest` follow, and an induction is then
over the set of numbers for which a formula holds. `FoldIsDefined` and
`FoldInSteps` do it for the folds of the community modules, `RankGrows`,
`InOrderIsInverse`, `OneMoreInOrder` and `LastInOrder` for `InOrder`.

**`Console_proofs`**, for any directory, shelf of scripts, and number of
results: `TypeCorrect`, `ActiveIsLoaded`, `TreesCorrect`, `DeinitCorrect`,
`SearchCorrect`. The invariant has a part per component. `CodbInv` counts what
is allocated (`Held`: what is referred to and was not freed), and knows that the
thread stores its profile in its last step, once, and that there is no thread
after it was waited for; that is why an interrupt may start `core_deinit` again
at any point that is not in `Halfway`. For those eight points `CodbInv` keeps
the types, the number of the profile and that nothing is freed that was not
allocated, and claims nothing of a release or of a thread: there the code does
not give it. `TreesCorrect` and `DeinitCorrect` exclude them in their
statements. From it also
`PrintsCorrect`, that what is printed of an object is of the entry described,
and `DescribesCorrect`, under the hypothesis `NumberedWithoutGaps` about the
directory, which `export/codb/ds302.json` does not meet (`dict_position`).
`NamesCorrect`: for each of the 2032 identifiers of the predefined connection
set the first mask that fits is the right one; masks and ranges are the rows of
a table, and a frame is a case of each.
Of the report: `ReportsCorrect`, that every report has the results added since
the last one, each once; sorting exchanges pairs, and a pass over the list, a
fold, keeps it a permutation. `SuitesCorrect`, one suite per name, holds if
`Hash` tells the names apart: the list is sorted by the hashes, so that a suite
is a run of equal ones. A hash of 32 bits does not do so for all names, and two
suites whose names collide are printed in pieces; the theorem states the
hypothesis.

**`Convert_proofs`**, for every set of lines and profiles: `RoomIsExact` with
`TypeCorrect`, `NeverTooMany` (an error message of `read_codb` that no file
produces), and `OldFileIsKept`: the JSON file is opened when all lines are read,
and then none of them has an error. That it is complete when the program ends
well is not so (section 5). What is left to count from a line on is a
cardinality; `LeftStep` is the lemma about one line, `MakeCopies` adds as much
room as it fills. `DocumentCorrect`: up to a line (`ReadTo`) the named entries are
one for each line that started an object, in their order, and the entries of an
index follow its own one after the other, made of its lines or copied from an
object before it (`ObjectIs`, which `ObjectKept` carries past later objects);
one lemma per kind of line (`CommentRead`, `HeaderRead`, `SubIndexRead`,
`CopyRead`). `SubIndicesAre` says that the search for the last entry of an
object finds the end of that block, `CopyWritten` that a copy is written as its
source under another name and index. `ToldAsDescribed` then compares what is
written with the lines: a field is found by its number (`FieldOfNr`), the lines
of an index follow one another (`LinesInOrder`), and for a line that keeps to
the format no number is cut (`DigitsKept`). `ConvertAssumption` says that the name of an
object is not null, by which the code tells objects from sub-indices.

**`SdoClient_proofs`**, for any objects, calls, faults, sizes and times:
`TypeCorrect`, and `IndexCorrect`, that an expedited read never returns what was
never under its index. Every request, answer and object carries a text that was
known under its index, and no segment or block transfer is about an object read
in one frame; that needs the hypothesis `WrittenAsRead`, that calls write those
objects in one frame, which TLC evaluates for the instances as well.

**`SdoDialogue_proofs`**, for any objects, texts, files, segment and block size,
traffic of other nodes and number of calls, in every setup that is `Plain`:
`ReadCorrect`, `WriteCorrect`, `NoneFails` and `NothingLeft`. `Plain` excludes
what the code is known not to survive (section 5): faults, the index 0, texts
that are empty, unprintable, of unknown size or longer than one byte tells, and
a node that changes its block size. The file of a block transfer loses up to its
last segment at the end of the transfer, so `WrittenIsStored` asks for the rest
of it (`Holds`; what is lost is the finding of `sdo_file`), and files of one
segment, which may leave an empty object, are excluded as well. The
invariant `Dialogue` says for each point of a call what is in flight (`Resting`,
`Asked`, `Answered`, `SegmentAsked`, ...), what the server is about, and which
part of the text is where; `Resting` and `Asked` have three forms, because the
confirmation of the last segment of a text is never waited for and reaches the
next call. During a block (`OnTheWay`) the node has the beginning of the file, the
segments in flight carry the next parts, each what is left by those before it
(`Carries`), and the client has the rest; the block is confirmed when the node
has taken as many as it announced (`Received`), so that at every confirmation
what it stored and what is left to send are the file again.
The receive queue is described by its answers alone (`NoneIn`,
`OneIn`, `TwoIn`), so that frames of other nodes change nothing (`Keeps`); as
something is in flight whenever the client waits, it never times out. The first
two setups of the run `sdo` are plain.

**`Terminal_proofs`**, for any words, lines, scripts and files.
`FrameCorrect`: the frame, the command and the line it came from are followed
through parsing, the conversion of both numbers and the limit of the node.
`CompletionCorrect`: what is offered for a command is, token by token, what the
parser takes for it (`WhatIsOffered`, `CompletedFits`), one lemma per command.
`AnswersCorrect`: the messages are those of the lines read, which is by
induction over the lines (`MessagesOfMore`: a line more adds a message, or a
signal to the last, or nothing), and it holds between any two lines, where
memory may run out. A search that ends well then gives the first message that
fits, one that ends without says that none does, or that memory was short, which
it may say wherever memory is allocated (`FindAnswers`). A frame is decoded to
the signals asked for, in their order, or to the first of them if the text is
cut, and it is cut only if they do not fit (`ShowsAll`, `DecodeAnswers`), for
any `ResultSize`; nothing is claimed where `DecodeUndefined` holds.
`ObjectsCorrect`: while the file is read (`ParseInv`) the entries are those that
the code's own rule, with what `prev_section` was before, starts (`StartsAre`),
with the types given so far; this is the inductive invariant, and not what the
theorem says. From it `OneEach`: a section that is undisturbed has one start
(`OneStart`: its keys are together, and between them and any entry before there
is another section) and the types given to its entry are those of its own keys
(`TypesGiven`). While objects are asked for (`AskInv`) the results, and the
ranges printed with the one being collected, have each object as often as it
was missing. A range either grows by one sub-index or a new one begins
(`CollectedOnce`), so that exactly one place more shows the object. A run that
was short of memory is left out, as in the property, and so are the ranges of
indices that have no room for one and of index 0xFFFF.

Model-checked only: everything about liveness, which is out of the prover's
reach as is `ENABLED`: `CyclicPdoKeepsBeingSent`, `EveryCallReturns`,
`Reconnects`, `RemovalIsNoticed`, `SwitchInTurnIsHonoured` and `DeinitReturns`.

## 5. What the code does otherwise than it says

The findings in `PROJECT.json` have a run each. Noticed without one:

- `docs/` speaks of 632 PDOs; `PDO_MAX` is 0x1f8, 504, and `pdo_add` fails at
  the 505th. CAN-IDs 0x200 to 0x27f are accepted though they are RPDOs, and the
  documented 0x000 is not.
- An upload whose size the node does not give returns an empty text, and the
  size of a longer one is taken modulo 256.
- `pdo_add` succeeds when the timer is refused: the PDO is listed and never sent.
- One `can_read` before a request does not empty the receive queue; a late
  answer of an earlier call may still be there.
- An empty text is written as four bytes; the last segment of a download always
  claims seven bytes of data, and its confirmation is not read. A block download
  never takes a larger block size than the first.
- A script that fails in a search path is tried in the next ones, and if none
  has it the log says that it was not found. `is_abort` of a script whose
  window was closed and that ended well, or was run by its path, stays set and
  hides the next such message.
- `load_codb` returns success when the directory cannot be opened, and "not
  found" when the profile does not parse. A device profile is unloaded before
  the new one is known to be readable.
- Every access type but "unspecified" is printed as "const": the type is
  converted to bool. The number of elements printed is the larger one of both
  profiles.
- `dict_lookup_raw` names the SYNC frame 0x080 an emergency, and every frame
  from 0x680 up that is no heartbeat of one byte an SDO request; it returns an
  empty text where the documentation speaks of `nil`.
- The DBC decoder ignores the sign of a signal and does not number the bits of Motorola
  signals as DBC files do; a signal of 64 bits is shifted by its width.
- `test_add_result` reads through a null pointer when it is out of memory.
- An interrupt runs `core_deinit` in the signal handler, in the middle of
  whatever the main thread was doing. If that was the wait of `codb_deinit`
  (`codb.c:182`), the thread is joined a second time: that join does not wait,
  and the profiles are released, and the program ends, while the database thread
  may still be at work. Between a free and the store of NULL after it
  (`codb.c:188-189`, `644-646`) what was freed is freed again, and before the
  pointer of a new thread is stored (`codb.c:89`) that thread is not waited for.
  `lua_close` is called twice, since `scripts_deinit` does not reset the
  state; after it `core` still points to what was freed.
- The monitor thread is detached and may use `core_t` after `core_deinit` freed
  it; its inner loop does not look at `is_running`, so that it never ends
  without an interface.
- With `-b` the main thread spins on `is_can_initialised`, a plain field the
  monitor sets, before it starts the prompt.
- The output buffer is one static buffer, used by the main thread and the
  monitor without a lock.
- NMT: a node of 256 is node 0 and so all nodes, 257 is node 1. A node given as
  "0X10" is 0. A line with two leading blanks is dispatched by the first letter
  of its first word, whatever the word, while completion offers scripts for it;
  `CompletionIsACommand` is about lines with one leading blank at most.
- EDS: an object without sub-index, such as `[1000]`, is never tested, and its
  access type overwrites that of the entry before; docs/README.md:60-62 speaks of
  verifying the object dictionary. The section parsed last is kept from one file
  to the next, so that the first entry of a file is lost if its section is that;
  a section that comes back after another one is an entry again. Objects of
  index 0xFFFF are asked for and counted, and never printed; the ranges of an
  index are cut at 256 characters without a word. The counter of
  entries is 0 again at the 65536th. A file that is missing adds no result and the script gets
  none. `validate_eds` and `list_eds` have no caller.
- DBC: the Python function reads a third argument it does not have. Extended and
  standard CAN-IDs coincide once they are masked. Names and units are duplicated
  without a look at the result: a message without name ends every search that
  comes to it with an error of memory, and `dbc_decode` does
  not return for a message with a signal without name, nor for a signal
  whose name is longer than 35 characters (the padding counts up to an unsigned
  difference). Its text is cut at 4096 characters, about 80 signals, and the
  caller cannot tell; the size passed on is then below 0, and the rest is written
  past the end.
- The converter stores every attribute of a line in that of the object code;
  limits in an attribute lose their last character; "rww" is read as "rw";
  INTEGER56 and UNSIGNED56 are rejected. `docs/codb2json.md` has attributes and
  access types of their own, so `DocumentIsWhole` leaves these out.
- The converter does not look at the duplicates of an object's name
  (`codb2json.c:682`, `566`), of descriptions and units in copies (`584`, `593`),
  at the members of the document, at its text and at what becomes of the file
  (`1126-1137`). Without memory an object, a text or a member is missing, or the
  file says "(null)" or ends early, and the program ends well all the same.

## 6. Not modelled

- **Output buffer and tables**: a property of a buffer that two threads use
  without a lock either fails at once or says nothing, and only wording and
  layout depend on it.
- **What a thread does with freed memory** (`core_t` under the monitor, the
  results after `test_add_result` failed): undefined, the models end there or
  have the crash as an outcome.
- **core_init that fails half way** and the command line of the program: the
  program ends with a message.
- **Windows**: the baud rate (`can_set_baud_rate` does nothing elsewhere), the
  console, its interrupt handler.
- **The interpreters** of Lua and Python: a script is what it calls, in any
  order, and whether it ends well.
- **Wording**: usage texts, tables, names of abort codes, scales of signals, what a
  unit says, drawing of widgets.
- **Integers of 2^31 and more**, lines longer than their buffers, data sheets of
  more than 65535 entries.
