# A TLA+ verification of the base64 library

This directory specifies and verifies the C library and command line tool of
this repository: the streaming encoder and decoder, the bulk loops that the
codecs run inside them, down to the vector instructions, the inline assembly and
the lookup tables, the run-time choice of the codec, the one-shot calls with and
without OpenMP, and the tool's input and output loops. TLC checks every module on small
instances; TLAPS proves the two streams, the codec choice, the one-shot calls and
the tool correct for all values of their constants: every message and chunking,
every admissible bulk loop, any number of threads, any buffer and wrap width.

## 1. The system

| Part | Code | State | Operations |
|---|---|---|---|
| Streaming encoder | `lib/lib.c`, `lib/arch/generic/enc_head.c`, `enc_tail.c` | `struct base64_state` (`bytes`, `carry`) in the caller's hands | `base64_stream_encode_init`, `_encode`, `_encode_final` |
| Streaming decoder | `lib/lib.c`, `lib/arch/generic/dec_head.c`, `dec_tail.c` | the same struct, with `eof` | `base64_stream_decode_init`, `_decode` |
| Bulk loops | the `enc_loop.c`, `enc_loop_asm.c`, `dec_loop.c`, reshuffle and translate files of `lib/arch` | none of their own: four pointers and counts of the call | one per instruction set |
| Codec choice | `lib/codec_choose.c`, `static struct codec codec` in `lib/lib.c` | two function pointers for the whole process | `codec_choose`, called by both inits |
| One-shot API | `lib/lib.c` | none | `base64_encode`, `base64_decode` |
| Parallel one-shot API | `lib/lib_openmp.c` | variables shared by an OpenMP team, the output buffer | `base64_encode_openmp`, `base64_decode_openmp` |
| Command line tool | `bin/base64.c` | two buffers, the column counter, the vectors waiting to be written | `encode`, `decode`, `write_wrapped`, `writev_retry`, ... |
| Tables | `lib/tables` | constants, partly generated | look-ups |

How they interact. The tool and the one-shot calls open a stream, feed it and,
when encoding, finalize it. A stream call goes through the process-wide function
pointer to a codec. Every codec is the same Duff's device, `*_head.c` and
`*_tail.c` textually included around the codec's own bulk loop or loops; the
device enters the loop at the case the last call left in `st.bytes`, and runs the
bulk loops each time it arrives at case 0. The OpenMP calls give each thread a
part of the source, a copy of the initial state and a place in one output buffer.

What is hard here:

* a result depends on where the caller cuts its input, on where in a group of
  three or four that cut falls, and on which bulk loop then has enough input;
* bulk loops load and store more than they consume and produce, and book all
  their rounds before the first, to be given back when a block is not plain data;
* the end of a decoded text is a little state machine of its own (`eof`), and one
  of its transitions happens in another file than the rest;
* the choice of the codec is shared by all threads without a lock;
* the assembly loops have three rounds in flight on six registers, which change
  roles from one macro to the next;
* the vector steps shift and classify bytes in lanes wider than a byte, and the
  tables have their own bit positions for each byte order;
* threads write into one buffer next to each other;
* the system may write a part of a list of vectors, or interrupt the write.

`PROJECT.json` lists these hazards one by one, at their lines, with the
properties that watch them.

### What makes each part correct

* **Encoder**: however the message is cut, the characters held after each call
  are the ones the bytes so far determine, finalizing completes them, a call
  neither reads outside its chunk nor writes more than 4/3 of it.
* **Decoder**: a call is accepted exactly if what was fed so far begins some
  Base64 text; the bytes held are the ones it determines; `bytes = 0` exactly
  when the text is complete; writes stay within 3/4 of the input.
* **Bulk loops**: each block is stored once, in order, as the bytewise code would
  write it; loads stay inside the input; the four results agree.
* **Codec choice**: no call through a NULL pointer, never a codec the machine
  cannot run, the best one it can.
* **Parallel calls**: the same answer as the sequential call.
* **Tool**: stdout is always a beginning of the right output, the exit code tells
  the verdict, and the tool ends.

## 2. Modules

| Module | Contents |
|---|---|
| `Base64` | characters as their classes in `base64_table_dec_8bit`; the reference definition of encoding and decoding, index by index |
| `EncodeStream`, `DecodeStream` | abstract specifications: what the two streams promise to a caller |
| `Encoder`, `Decoder` | the streams as the code runs them, one step per case of the switch or round of a bulk loop |
| `BulkLoops` | the parameters of the bulk loops and which codec runs which |
| `Tables` | the lookup tables, entry by entry, for both byte orders |
| `Vectors` | the vector instructions, lane by lane |
| `VectorEncode`, `VectorDecode` | what a round of each instruction set computes |
| `BulkCode` | the bulk loops as programs: rounds, unrolled sections, assembly pipelines |
| `BulkMachine` | runs such a program on registers and memory |
| `BulkPlan` | what the operations of each section can count on, and the inductive invariant of `BulkMachine` |
| `BulkRounds` | abstract specification: what a bulk loop promises the streams |
| `CodecChoice` | the two pointers, `codec_choose`, racing threads |
| `Parallel` | the one-shot calls, sequential and OpenMP |
| `CliEncode`, `CliDecode` | the tool |
| `Base64Proofs` | lemmas about the reference definitions that several proofs use; theorems about the rounds of `VectorEncode` and `VectorDecode` |
| `EncoderProofs`, `DecoderProofs`, `CodecChoiceProofs`, `ParallelProofs`, `CliEncodeProofs`, `CliDecodeProofs` | theorems about the module of that name |
| `BulkProofs` | theorems about `BulkMachine` |
| `MC*` | values of the constants for the runs, nothing else |

### Encoder and Decoder

The message (the text) is fixed and each `Call(n)` passes the next `n` bytes of
it, so the input pointer `s` is a position in the message, and the caller's chunk
is `base..end`. `state` is the caller's struct, `st` the local copy the code
makes, `slen` and `olen` the counts it keeps beside the pointers. `pc` is the
place in the code: `"kernel"` is the arrival at case 0, where the bulk loops of
the codec have their turn one after the other (`k`); `"bulk"` is inside one.

A bulk loop is a record of numbers: below `guard` it returns at once; it books
`(slen - reserve) / block` rounds (`KernelEnter`) and runs them one by one
(`KernelRound`). The encoder's also have the `width` of a load, the `lag` by
which AVX2 loads before the consumed input, and whether they test their count
before the first round. The decoder's have the `store` of a round, which may
exceed what it produces; `KernelBailOut` is the exit on a block that is not plain
data. `KernelOK` says what such numbers must satisfy, as weakly as the proof of
the load bounds allows; TLC evaluates it for the loops of the source, which are in
`BulkLoops`. Here a round is one step that computes what the table-driven plain
loop does (two characters per 12-bit index, four characters per 24-bit word);
that every loop of the source really runs such rounds is `BulkMachine`'s subject.

`Rechoose` replaces the codec between two calls, which `lib.c` allows: the
pointers are looked up at each call and any init with a FORCE flag changes them.

`Decoder` has one action per way out of the switch: `Drained` (no input left),
`NotInGroup` (first or second character), `PadThenMore`, `PadAtChunkEnd`,
`BadThird` and `EndAtFourth`; `CallAfterEof` is the early return of
`dec_head.c`. `high` records how far anything was ever written, stored zeros
included.

### Bulk loops as code

`Tables` gives the entries of the tables as `table_generator.c` and
`table_enc_12bit.py` compute them; a 32-bit number is the sequence of its bytes,
and `Memory` the order in which a machine stores them. `Base64` speaks of a
character by its class, here characters are ASCII codes. `Vectors` holds the
instructions (saturating subtraction, 16-bit multiplication, PSHUFB and TBL with
their different rules for an index out of range, ...) and is external: it says
what the compiler's intrinsics do. `VectorEncode` and `VectorDecode` put them
together as `enc_reshuffle`, `enc_translate`, `dec_reshuffle` and the inner loops
do. Masks and multiplications keep their lanes: the decoder's shift by four, for
one, is a shift of 32-bit lanes and brings in bits of the next character.

`BulkCode` writes each loop as a program: a sequence of loads, `shuf` (reshuffle),
`tran` (translate), tests, stores and advances on named registers. A C round is
one such sequence, repeated in sections of eight, four, two and one. The assembly
macros are operators with the macros' names (`ROUND_3_INIT`, `ROUND_3`,
`ROUND_3_END`, `ROUND_A`, ...), with the registers they use as temporaries; a
nothing is known of a temporary afterwards. The dispatch of the last five (neon64: three)
rounds by a jump into a fall-through block is modelled by sections of 5, 4, 3, 2
and 1 labels that are tried in order, each of which runs one round.

`BulkMachine` runs a program. `Enter` books the rounds and splits them between the
big loop and the rest; `RunSection`, `NextLabel` and `NoRoundLeft` are the jumps;
`Loading`, `Calculating`, `Passing`, `BailOut`, `Storing` and `Moving` are one
operation each. `mem` is the output buffer, with `Hole` where nothing was written,
and `reg` maps the registers of which anything is known to their bytes. The short inner assembly of neon32
(`enc_loop_neon32_inner_asm`) is its intrinsics version instruction by
instruction and shares its operators. `RoundsSpec` says that every loop
implements `BulkRounds`: the output grows block by block, each block exactly what
the reference makes of the next block of input.

### CodecChoice

`pc[t]` takes a thread through its init (`StreamInit` tests the pointer it needs),
the two stores of `codec_choose` in either order (`StoreOne`, `StoreOther`) and
its calls (`Run`). `Detects` is one branch of the cpuid cascade; `Executable`, in
the properties, says independently of it what runs without an illegal
instruction. Loads and stores of a word are taken to be atomic, as they are on
every supported machine; C itself calls the race undefined.

### Parallel

The one-shot calls of `lib.c` hand a source of `OMP_THRESHOLD` bytes or more to
`lib_openmp.c` (`Fork`) if the library was built with OpenMP, and else code it in
one stream (`Sequential`), which is the caller's part of a team of none.
Source and output are counted in groups; `mem` maps each output cell to the
index of the byte last stored there, so an overwritten or misplaced byte shows.
One step of a thread is one round of a bulk loop, with the zeros it stores past
its output, or one group of the bytewise code. `Offset` computes in `size_t`,
with `WordSize` for SIZE_MAX + 1. A codec that is not compiled in (`stub`)
behaves as the stubs of `codecs.h`; what the decoding stub leaves in `*outlen` is
never used, so the model does not carry it.

### CliEncode and CliDecode

The streams inside the tool are what `EncodeStream` and `DecodeStream` say they
are (both by proof). In `CliEncode`
character `i` of the encoded text is the number `i` and a newline is 0, so any
loss, repetition or reordering is visible. The array of vectors is the symbols
they hold, one after the other (`iov`), with the places where a vector ends
(`cuts`): appending a vector adds a place, a partial write drops the places it
passed and cuts the vector in which it stopped. `WriteSome` and `WriteError` are the
system: it writes any positive number of bytes of the vectors, interrupts before
writing, or fails. On platforms without `writev` the tool emulates it by one
`write` per vector, and an error in a later vector then hides what the earlier
ones wrote: the comment at `bin/base64.c:110` accepts this, and `writev_retry`
writes those vectors again. `WriteError` does the same, `again` counts the
symbols written so, at most `MaxAgain`, and with `MaxAgain` 0 the system has a
`writev`. The properties say that this repetition is the only fault on stdout.
`fread` may come up short because the input fails. In `CliDecode` the modes are the default, `-n` and `-i`;
`Stripped` is the text without the characters that the mode does not keep,
defined by counting the kept ones and so without the buffers of the code.

## 3. Runs

| Run | Question | Bounds and why they are enough |
|---|---|---|
| `encoder` | Does the encoder implement `EncodeStream`, within its buffers, for the loops of all codecs? | Messages of 2 to 120 bytes: no round, one round and several rounds of each loop (AVX-512 consumes 48 per round and needs 64); chunks of 0, 2 and 7 bytes enter at every case, the others are around the guards 16, 32, 64, and 54 leaves AVX2 just its reserve after two rounds |
| `decoder` | Is every exit of the switch right, in every cut, and do bulk loops and bail-outs disturb any of it? | All texts of up to five characters over a value, `=`, an invalid one, in chunks of 0 to 5: a group and the first character after it, which is as far as `eof` looks. Texts of 42, 44, 132 characters in chunks around the guards: no, one and several rounds of each loop up to 64 characters, faults and padding in first, middle and last blocks |
| `decoder_failure` | Does a failed stream stay failed? | violation, see 6 |
| `bulk_machine` | Does every bulk loop do what `Encoder` and `Decoder` take it to do? | All nineteen loops. One block: every six-bit value at every place of a block for each vector encoder, every 12-bit index for the plain ones, every byte at five places of a block for each decoder. Many blocks: every section of the unrolled code alone and after the others (0 to 91 rounds in the pipelines, the big loop twice), with and without leftover input; faults and padding in later blocks of eight and fifteen. Its invariants include `IndInv`, on which the proofs of section 4 rest |
| `codec_choice` | Can the unlocked pointers hurt anybody? | Two threads (the stores of one between test and call of the other), builds and machines of each generation, four flag sets |
| `codec_default` | Is 0 always the default behaviour? | violation |
| `parallel` | Is the parallel answer the sequential one? | Sources below and above the threshold of eight bytes, up to three threads, parts of up to four groups, remainders; faults and padding at each place; loops that over-store by one group and by less |
| `parallel_padding`, `parallel_wrap` | | violations |
| `cli_encode` | Is stdout right under partial, interrupted, failing writes? | Inputs of 0 to 12 bytes in buffers of four, `IOV_MAX` 3, wrap widths below, at and above the buffer's output; up to two symbols repeated by the emulated `writev` (`MaxAgain`), once or in two interruptions |
| `cli_decode` | Are stdout and exit code right wherever buffers end? | All inputs of up to four symbols, longer ones in lines, buffers of four |
| `cli_garbage` | Does `-i` ignore all garbage? | violation |

Named bounds are the constants of the cfg files; no action has a hidden one.
`bulk_machine`, the `parallel` and the `cli_*` runs turn the deadlock check off,
because a call that has returned and a program that has exited stop.

Fairness. `Parallel` assumes that some thread that can go on does
(`WF_vars(Next)`): OpenMP threads are scheduled, and nothing waits but at the
barrier. `CliDecode` assumes it of the one program. `CliEncode` further assumes
`SF_vars(WriteSome)`: a system that interrupted every single `writev` for ever
would keep the tool in its retry loop, which the code accepts. All other
properties are safety properties and use no fairness.

Each property has a mutant in its module, a plausible mistake in one definition
(a comment beside or above it calls it a mutant), with which TLC finds the property
violated.

## 4. Proofs

Eight modules hold proofs, which `tlapm` checks to the last leaf. `Base64Proofs` has
lemmas that the others share, and is about operators. Each of the other
seven is about a model's `Spec` and has the same layout: lemmas about the operators, one
lemma per action that it preserves `IndInv`, and the theorems. Every inductive invariant is
defined at the end of the model it belongs to (for `BulkMachine`, in `BulkPlan`), in
named parts, and was checked by TLC on the model's run before it was proved.

| Module | Theorem | States |
|---|---|---|
| `EncoderProofs` | `TypeCorrect`, `OutputCorrect`, `FinalCorrect`, `LoadsCorrect`, `CountsCorrect`, `CallOutputBounded` | `[]` of `TypeOK`, `OutputIsEncoding`, `FinalIsEncode`, `LoadsInChunk`, `CountsAgree`, `CallFitsBuffer` |
| | `Refinement` | `Spec => StreamSpec`: the encoder implements `EncodeStream` |
| `DecoderProofs` | `TypeCorrect`, `OutputCorrect`, `VerdictCorrect`, `CompleteCorrect`, `WritesBounded`, `CountsCorrect` | `[]` of `TypeOK`, `OutputIsDecoding`, `VerdictIsRight`, `CompleteIsDecode`, `WritesInBuffer`, `CountsAgree` |
| | `Refinement` | `Spec => StreamSpec`: the decoder implements `DecodeStream` |
| `CodecChoiceProofs` | `NeverNull`, `UnforcedRuns`, `AgreedFlags` | `[]` of `NoNullCall`, `UnforcedCallsRun`, `AgreedFlagsRun` |
| `ParallelProofs` | `StubReported` | `Spec => []StubIsReported` |
| | `PartsDisjoint`, `TeamAnswers` | under `NoWrap`, `[]` of `PartsAreDisjoint`, `SameAsSequential` |
| `CliEncodeProofs` | `StdoutCorrect`, `PendingCorrect`, `FailureCorrect` | `[]` of `StdoutIsWrappedText`, `PendingIsNext`, `FailsOnlyOnError` |
| `CliDecodeProofs` | `StdoutCorrect`, `ExitCorrect` | `[]` of `StdoutIsDecodedText`, `ExitTellsVerdict` |
| `BulkProofs` | `PlansAreKept` | every section of the nineteen loops keeps to its plan, operation by operation |
| | `MachineKeepsThePlan`, `LoadsStayInInput`, `LoopsReturnWhatTheyDid` | `[]` of `IndInv`, `LoadsInInput`, `ResultsAgree` |
| | `LoopsImplementRounds` | `Spec => RoundsSpec`: every loop implements `BulkRounds` |
| `Base64Proofs` | `EncodeRound`, `FirstRoundOfAVX2` | what a round of each instruction set computes are the characters of the block in its register |
| | `DecodeRound` | a round's test is that every character is in the alphabet, and what it then stores are their bytes, followed by zeros |

With these, every safety property of every passing run, and each of the three
refinements, is proved for all values of the constants.

### Assumptions

Each proof rests on the named assumption of its model alone, which TLC evaluates
for the values of the runs:

* `EncoderAssumption`, `DecoderAssumption`: messages are byte sequences, texts
  are sequences of character classes, and each bulk loop satisfies `KernelOK`.
  TLC evaluates `KernelOK` for the loops of the source.
* `ChoiceAssumption`: a build is for one architecture, as `codec_choose.c:12` and
  `:166` have it. Nothing is assumed of the number of threads or of their flags.
* `ParallelAssumption`: a bulk loop reads whole groups, and its guard keeps back
  input enough for the zeros that it stores past its output, which
  `lib/arch/avx2/dec_loop.c:63` gives as the guard's reason. The word has any size;
  the two theorems about memory have the hypothesis `NoWrap`, that twelve times
  the number of groups of a source is below `SIZE_MAX + 1`. The run
  `parallel_wrap` shows that some such hypothesis is needed.
* `CliAssumption`: sizes are natural numbers, the buffer and `IOV_MAX` not 0.
* `CallsAssumption`: a call names one of the nineteen loops and passes bytes. The
  loops themselves are definitions, so `BulkProofs` assumes nothing of them.
* The theorems on rounds assume nothing but that registers hold bytes.

### Encoder

`OutputIsEncoding` is not inductive: what the next case writes
depends on the carry. `IndInv` adds, in named parts, that the struct holds the
leftover of the group that `s` bytes end in (`CarryInv`), that the place in the
code agrees with `s % 3` (`PlaceInv`), where the chunk and its output begin
(`PositionInv`, `WrittenInv`), that the counts agree with the pointers
(`CountInv`), and inside a bulk loop that the booked rounds end at a point that
leaves its reserve (`BulkInv`). The bulk loop rests on lemmas that two 12-bit
indices give the four
characters of the reference and that whole groups extend an encoding. The
refinement maps a stream inside a call to the state before the call: `Return` is
`Feed`, `Final` is `Finalize`, `StreamInit` is `StartOver`, every other step a
stutter.

### Decoder

While no call has failed, `StreamInv` says that some `d` of the `s` characters
consumed are data, that the padding after them is what `eof` remembers of it, that
the struct holds the leftover bits of the open group, and that the output is the
decoding of those `d`. `FailedInv` is the half of the verdict that survives
further calls: what the stream was fed begins no text. It is all that can be said
of a failed stream, since one whose third character was invalid may be fed again
and goes on with a carry that means nothing (section 6). The bound on writes
must therefore hold without `StreamInv`: `BudgetInv` counts the
bytes written against the characters consumed and the position in the group,
whatever the struct holds. `BulkInv` ties the booked rounds to the reserve that
covers the zeros a round stores past its output. The bytes rest on the lemma that
the four table words, put together, are the reference's three bytes; the verdict
on `ViableAt`, that a text with a given data prefix is viable exactly if its
padding is right, and `ViableShorter`, that more characters mend nothing.

### Codec choice

`NoNullCall` fails to be inductive at the thread between its two stores and at a
second thread that tests the pointer stored first. `IndInv` says that every
pointer that is not NULL, and every codec that was used, was chosen for flags that
somebody passed (`ChosenInv`, `AskedInv`), and that a thread that has made one of
its stores finds it made when it makes the other (`FilledInv`): pointers never
become NULL again. That the choice for no flags runs on the machine follows from
a case for each instruction set of the cascade against `Executable`.

### Parallel calls

`PartInv` says of each part what its call has read, written and returned so far,
in terms of the part of the source alone; `PhaseInv` where the caller is and whom
the barrier still waits for. The reduction is order-independent: `SumInv` is the
sum over the set of the threads that are done, and the threads but the last have
each filled their part, or the call fails anyway. `MemInv` says which cell of the
output holds which byte; it and the absence of overlap need that no round, with
its zeros, leaves its part, which is where `NoWrap` and the assumption on the
guards enter. The cardinality of the set of threads that are done turns the sum
into a product without an induction.

### Tool

Encoding: the symbols that have left the vectors (`Reported`) and those still in
them are as many as the characters placed and the lines that were filled, with
the newline of the last line (`PlacedInv`), and each is the one that the wrapped
text has at its place (`SymbolInv`); so it does not matter where a write stopped.
`ColumnInv` ties the static column counter to the place in `write_wrapped`,
`CutsInv` keeps the array within `IOV_MAX` and never full at the top of the loop.
The arithmetic is the division of a place in the text by the line width.

Decoding: the characters fed are the first ones of the stripped text, as many as
are kept in the part of the input seen so far (`FedInv`), and what is written and
what this buffer still holds make up their decoding (`OutInv`). A run adds as many
kept characters as its length, the character skipped after it adds none. The
verdict needs that viability is kept by shortening a text.

### Vector rounds

A run can load each byte of a register with a few values; the theorems speak of all
the contents that a register of up to 64 bytes can have. The tables come first, by
ranges of their index (`CharacterOf`, `Lut1`, `LutLo`, `LutHi`, `LutRoll`, `DecLut1`,
`DecLut2`).

Encoding: `HasFields` says that four bytes of a register hold the four fields
of a group of three. `MultiplySplits` shows that of the two multiplications and the
masks, for any three bytes; the shuffle before it puts the bytes of each group there
(`ReshuffleSSSE3`, and for AVX2 with the block four bytes up). AVX512 rests on
`MultiShiftAt`, the eight bits from any place of a lane, NEON on shift-and-insert, the
plain loops on the two 12-bit indices that a group has. The fields are then
`EncChar` of the block (`FieldsAreValues`), and the offset by range is the table
(`OffsetIsRight`).

Decoding: `NibblesShareNothing` is the case analysis over the high nibble that makes the
two 16-byte tables a test for the alphabet; `HighNibbleIs` and
`LowNibbleIs` show that the bit of the neighbouring byte which the mask `0x2F` lets
pass does not reach the lookup. `RollIsRight` and `TableValueIsRight` give the values;
`LaneHasBytes` and `OrHasBytes` put four of them together. In the plain loop,
`OrOfMarks` says that the marker bit of one invalid character survives the other
three words, and that no valid word sets it, for either byte order.

### Bulk loops

No run can tell that a pipeline is right for every number of rounds it is unrolled to
and every input. The proof goes through a plan, which `BulkPlan` gives for each section:
the *point* before each operation lists which register holds which block at which stage
of its way (`facts`), how many blocks are stored or tested, how far the pointers have
moved, and how many rounds the section still has to count. `StepOK` says of one operation
that it leads from a point to the next: it finds what it needs, drops the facts about the
registers it writes or uses up, and adds one. That is a statement about the code and its
plan alone, without any input or state.

`PlansAreKept` is that of every operation. A round of its own is five steps. The
pipelines are put together from the steps of their macros: `Round3Part` does it once for
the macro of three rounds, for any six registers of which a short list (`Unharmed`)
must be distinct, and `Round3SSSE3` and `Round3AVX` show that the list fits the
temporaries of the two dialects; `SectionSSSE3` and `SectionAVX` alternate types A and B
by the parity of the macro's number, for any number of macros. The sections of 36, 18,
9 and 6 rounds, the fall-through rounds, neon64's banks and AVX2's first round are instances.

`IndInv` ties the machine to the plan: the booked rounds are those that fit the
input (`BookedInv`), the rounds left are what the sections ahead will run (`CountInv`),
pointers, registers, output and tests are where the point says, counted from the first
block that is not done (`PointerInv`, `FactsInv`, `OutputInv`), and after the return they
agree (`ReturnedInv`). Without `FactsInv` nothing can be said of a store, and without
`CountInv` nothing of a load, since what is loaded ahead is bounded only by the
rounds still booked. Each action is one lemma, which needs of the section no more than
`StepOK`; that the content of a register advances from stage to stage, and ends as what the
bytewise code makes of the block, are the theorems on rounds. The refinement is then short:
a store that completes a block is a `Round` of `BulkRounds`, and every other step a stutter.

### What the proofs do not reach

Liveness under fairness (`Terminates`, `Ends`) stays with TLC, as does anything
defined by recursion over data: no module uses `RECURSIVE`, and the closed forms of
`Base64`, `WrappedSymbol` and `Stripped` were chosen so that proofs can use
them. Where an induction over numbers is needed, `UpTo` in `CliDecodeProofs` does
it with a set and a cardinality, since the induction theorems of the library take an
operator.

## 5. Only model-checked, not modelled, planned

Only model-checked: `Terminates` and the two `Ends`, which are liveness properties; and
the mutants and violations, which are single behaviours. Between the proofs about
`Encoder` and `Decoder`, which speak of a loop's numbers, and `BulkMachine`, which
runs the
source's loops, the composition is by hand: `BulkRounds` is what `KernelRound`
does to the output.

Not modelled: option parsing, file opening and `main`, which are straight-line
code without state of their own; the table generator's option for another
alphabet; the compiler's side of the inline assembly (operand constraints);
tests, benchmark and build. `PROJECT.json` gives the reasons.

The plan, most important first:

1. *(done)* `Base64`, `EncodeStream`, `Encoder`, `EncoderProofs`: the core and
   its refinement.
2. *(done)* `DecodeStream`, `Decoder`; `CodecChoice`; `Parallel`; `CliEncode`,
   `CliDecode`.
3. *(done)* `Tables`, `Vectors`, `VectorEncode`, `VectorDecode`: the lane
   arithmetic and the generated tables.
4. *(done)* `BulkRounds`, `BulkCode`, `BulkMachine`: the unrolled and the
   interleaved loops implement the rounds.
5. *(done)* the emulated `writev` in `CliEncode`, the threshold in `Parallel`.
6. *(done)* `DecoderProofs`: the verdict, the bounds and the refinement of
   `DecodeStream`.
7. *(done)* `CodecChoiceProofs` and `ParallelProofs`, for any number of threads,
   and `CliEncodeProofs` and `CliDecodeProofs`, for any input and buffer.
8. *(done)* The theorems on rounds of `Base64Proofs`, for every content of a register.
9. *(done)* `BulkPlan` and `BulkProofs`: every loop, pipelined or not, on an input of
   any length.

## 6. Where the code and its documentation disagree

Five runs end in a violation, each of one property that quotes the repository:

* `NothingAfterFailure`: an invalid third character of a group fails the call but
  does not set `st.eof`, so a later call decodes on
  (`lib/arch/generic/dec_tail.c:57` against `dec_head.c:14`).
* `DefaultIsDetected`: flags 0 gives the codec that an earlier stream forced, not
  the detected one (`lib/lib.c:21` against `README.md:236`).
* `AcceptsOnlyWellFormed`: the parallel decoder accepts padding in the middle of
  the source where a thread's part ends (`lib/lib_openmp.c:133`).
* `PartsAreDisjoint` with a small word: `i * len * 4 / 3` wraps before it is
  divided (`lib/lib_openmp.c:56`), on 32-bit machines from 1 GiB on. The `parallel`
  run checks the same property with a word in which nothing wraps.
* `GarbageIsIgnored`: a quote is not garbage to `-i` (`bin/base64.c:379`).

Also noticed, without a run: the buffer of 4/3 of the input that
`include/libbase64.h:67` asks of `base64_encode` does not hold the padding when
the length is not a multiple of three; the tool accepts a truncated text when
decoding (`ExitTellsVerdict` speaks of texts that begin a Base64 text, for this
reason); the early returns of `base64_decode_openmp` and of the decoding stub
leave `*outlen` unset; a stream call with no input returns 0 after the end of the
text, which the tool avoids by not making one; the emulated `writev` repeats
output after an interruption (`bin/base64.c:117`), as its comment admits; the
assembly of `lib/arch/neon64/enc_loop_asm.c:131` subtracts from the register of
`rounds`, which lines 155-156 declare as an input that is not modified.
