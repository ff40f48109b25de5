# gguf-wasm in TLA+

Specifications of the parts of gguf-wasm in which something can go wrong that a
unit test would hardly reach: a checkpoint that is replaced while it is read
over HTTP, a header read in growing prefixes, row addresses computed in
unchecked arithmetic, block formats unpacked by shifts and masks, a parser that
must tell "read more" from "give up", a regular expression written out by hand.
Each module is translated from the source; `PROJECT.json` gives the lines of
every definition.

Everything is run from this directory: `tlc -config X.cfg M` for the runs,
`tlapm M.tla` for the proofs.

## The system

| part | state | operations | talks to |
|---|---|---|---|
| URL source, `fromURL` (js/index.mjs) | `size`, `validator` of one closure, shared by every model opened on it | `prepare`, `read`, each with two awaits | the HTTP server; called by `openGGUF` |
| `openGGUF` (js/index.mjs) | `size` (a copy), the header, the table of tensors | the header loop, `bytes`, `floats`, `rows` | a source; the wasm module |
| `rows` (js/index.mjs) | the loop counter, the result | one read per index, on an array that stays the caller's | `row_range`, the source |
| wasm module (crates/gguf-wasm) | a parsed header | `row_range_json`, `dequantize`, `header_needs_more_bytes`, JSON | the parser, the decoders |
| parser (crates/gguf, reader.rs) | a cursor, the limits | `parse` | none: bytes in, header or error out |
| `GgufReader` (crates/gguf, file.rs) | a file handle, the size at open, the header | `open`, `tensor_bytes`, `rows_f32` | the file system |
| block decoders (crates/gguf-quants) | none | one function per format | none |
| tokenizer (crates/gguf-tokenizer) | vocabulary, ranks, special tokens | `encode`, `decode`, the cut into pieces | none |

Everything is single-threaded; the concurrency is that of asynchronous calls on
one source, and of a server, a file owner and a caller that go on meanwhile.

The behaviours that are hard, by part, with what makes the part correct:

- **URL source.** Between any two reads the object may be replaced, older or
  newer; servers get ranges, validators and lengths wrong in several ways; two
  opens of one source may overlap; an open may be refused after it has written
  half of its state. Correct means: *given a validator, what is read is all
  from one object or it is an error*.
- **openGGUF.** The header, the size and the tensors come from different
  requests. Correct means: the table belongs to the object whose bytes are
  read, lies inside it, and an open ends.
- **rows.** The list of indices is checked once and read again after each
  await. Correct means: the rows named, or an error; and of a list that its
  caller writes meanwhile, rows of the tensor and an end.
- **Row addresses.** Unchecked products whose bounds follow from checks the
  parser made on other products. Correct means: inside the tensor, contiguous,
  whole blocks, and the same in both implementations.
- **Parser.** Its answers must be coherent over the prefixes of one file, or
  the read loops above it loop or give up wrongly. Nothing may be reserved
  before the bytes that back it are known to be there.
- **Block formats.** Twelve layouts read by hand-written offsets, a table of
  sizes that is kept twice, and a list of what is decoded that is kept six
  times. Correct means: every value from the bits its format gives it, no bit
  for nothing, and what is marked readable can be read.
- **Native reader.** The file may change under the handle, between any two of
  the reads that make up one `read_exact`; the one handle stands wherever the
  last read left it; the loop of `open` has three bounds and an edge at each.
  Correct means: every row asked for, each byte from its place, or an error.
- **Tokenizer.** Ordered alternatives, greedy repeats and a look-ahead without
  a backtracking matcher; merges whose order decides; special tokens that
  overlap. Correct means: cut as the pattern cuts, merged as training merged,
  and every byte back again.

The complete list, with lines and the properties that answer it, is under
`hazards` in `PROJECT.json`.

## The modules

| module | models |
|---|---|
| `Objects` | the versions an object may have, and their lengths |
| `Header` | what a prefix of a version parses to, and the next prefix; shared by both readers |
| `PinnedObject` | the abstract promise of `fromURL`: one pin, and only the pinned version is delivered |
| `HttpSource` | `fromURL` and the server |
| `OpenGGUF` | `openGGUF`, composed with `HttpSource` and `Header` (EXTENDS both) |
| `NativeReader` | `GgufReader` over a file that changes, with `Header` |
| `RowRanges` | `row_range_json` and the addresses of `rows_f32`, as operators |
| `RowGather` | `row_range` and `rows()`, over `RowRanges` (EXTENDS it) |
| `Formats` | the table of types, and each decoder as the bits it takes |
| `Blocks` | `floats`, `dequantize` and the loop over blocks, over `Formats` (EXTENDS it) |
| `Parser` | `parse` and its cursor |
| `PreTokenizer` | `piece`, and the regular expressions it stands for |
| `Tokenizer` | `encode` and `decode`, over `PreTokenizer` (EXTENDS it) |
| `HttpSourceProofs`, `OpenGGUFProofs`, `NativeReaderProofs`, `RowGatherProofs`, `ParserProofs`, `BlocksProofs`, `TokenizerProofs` | theorems about the module of that name (`RowGatherProofs`: and about `RowRanges`) |
| `PreTokenizerProofs` | lemmas about `piece`, and that it is the pattern |
| `MC...` | the instances TLC checks |

**HttpSource.** `size` and `validator` are the closure's variables. A call on
the source is `op`, `phase`, `asked` and `reply` of its caller; the phases are
the awaits: `sent` (fetch under way), `replied` (headers there), `body`
(`arrayBuffer` under way). `StartPrepare`/`StartRead` are the code up to the
first await, `Check` the continuation with `checkRange`, `FinishPrepare`,
`FinishRead` and `ShortRead` the continuation after the body, `Lose` a rejected
fetch or body. `prepare` assigns `size` and `validator` before it refuses, and
so does `FinishPrepare`. The server (`Answer`, and `Replace` for the owner of
the object) is outside the repository: it answers from the version it has at
that moment, correctly or with one of the faults `checkRange` names. `ProbeWays`
and `ReadWays` say which validators it shows and whether it compares
`If-Range`. `pinned` and `got` are history.

**OpenGGUF.** Adds `stage`, openGGUF's own `length`, `want` and the version the
header is of. Each step of a caller in `HttpSource` is taken together with what
the continuation does: `HeaderArrives` is a `FinishRead` with the loop body,
which parses, fails or grows. `Header!Parse` stands for the parser.

**NativeReader.** `Rewrite` replaces the file at any time, by one of another
length or content. The handle has one position, `cursor`, and `buffer` is what
`read_exact` has filled so far: `ReadSome` is one read of the system's, of as
many bytes as it likes, so a prefix or a row may hold bytes of several versions.
`PrefixRead` with `PrefixParses`, `PrefixRefused` or `PrefixGrows` is the rest
of an iteration of `open`'s loop; a prefix of one version parses as
`Header!Parse` says, one torn between versions to anything (`Verdicts`).
`Turn` takes a call from one part of the file to the next: the bound and the
seek of `range`, or the end of the call. `tensor_bytes` (and `tensor_f32`, which
decodes the same bytes) is for one part; `rows_f32` for as many as it is given
rows, with an error in any of them the call's. `answer` is what a call returned.

**RowRanges.** All arithmetic that the code does not check is modulo `Word`;
what it checks is a guard. The tensors are those `Admitted` by the parser's
checks. `PlaceOf` says in exact numbers where a row is, and is what properties
compare with.

**RowGather.** `row_range` is the call of that name on its own. `rows` is
the call up to its first await, `RowArrives` from one await to the next,
`CallerWrite` any write to the array in between; each index passes `AsU32`
and then `RowRange`, which may refuse it. The array is one of `Arrays` when it
is passed, and one of `LaterArrays`, which are longer, once it is written. A
row without elements is written past the end of the result without an error,
since there is nothing to write; the properties about how a call ends leave
such tensors out. The repository's README (:107) says that "An index outside the tensor's own row
count is refused". That holds of the array as it was passed; of one that is
written after its check only as far as `row_range` refuses: 2^32 + k is row k
there, and `OnlyRowsOfTensor` allows for it.

**Formats.** A block is bits numbered from its first byte, a decoder the set of
what it writes: a place, and the bits of the quant, of its scale and of its
minimum or offset, each with the way its number is read. Loops with running
offsets, shifts and masks become sets over the loops' counters; `x | (h << n)`
is a concatenation. The arithmetic on the numbers is not there.

**Blocks.** `floats` is the call on a tensor of the table, refused there if the
table does not say `readable`; `CallerDequantize` is a call of `dequantize` with
any name and any length. `dequantize` is everything up to the first block,
`DecodeBlock` one turn of the loop, which ends (`DecodeEnds`) where either slice
has no whole block left. Below the properties' line stands the reference,
`Published`: fields in planes, as ggml packs them, one expression per format and
no loops.

**Parser.** One cursor over the header, on a set of prefixes of one file at
once; each field's content is chosen when the cursor reaches it. `verdict[p]`
is what the prefix of `p` bytes has come to: `short` is
`GgufError::Truncated`, `refused` any other error. So the properties can
compare the answers for two prefixes of the same file, which is what a read
loop does. `reserved` adds up what was allocated, in bytes of the file: an
element at the least it takes there, a tensor at twenty. In memory a `String`
or a `TensorInfo` is larger than that by a constant; the vector of a tensor's
extents is bounded by `max_dims` alone and is not counted. A long string may lie
in bytes that a pending array was reserved for, so the sum may exceed a prefix:
what holds is that it is bytes already read and one array or table in hand, the
rest of which the prefix could hold (`ReservationsBacked`).

**PreTokenizer.** One operator per rule of `piece`, each giving how many
characters the rule takes; a character is a class, and a name where a rule
names it. Below them stands the reference: the alternatives of each pattern as
sequences of items with repeats. A match of one is where each of its items ends
(`Matched`); a backtracking matcher comes first to the one whose earlier items
take most (`Greediest`), of the first alternative that has a match at all
(`ByPattern`). The expressions are those the comments quote and the upstream tokenizers publish.

**Tokenizer.** `Find` is one iteration of `encode`'s loop up to its run, `Cut`
one piece of `split`, `Merge` one iteration of the loop over merges, `Emit` the
ids of the parts. `split` returns all pieces of a run at once and the model cuts
them one by one; nothing else happens in between. A token is its text: ordinary
tokens in visible characters (`Visible`), special ones literally. `RoundTrip`
compares visible characters, of which there is one for each byte.
`SpecialsPlain` and `SpecialsApart` say what two of the promises need of the
special tokens; the texts of the run `Tokenizer` are of that kind, which
`MCTokenizer` has TLC evaluate, and those of `Tokenizer_decode` are not.

Beside some definitions there is a second one, with a slip: a comparison left
out, a bound one off. Nothing uses them; they are what the properties were
tried against, and `PROJECT.json` lists which property notices which.

## The runs

| run | question | bounds |
|---|---|---|
| `HttpSource_pinned` | does the pin hold, and does `fromURL` implement `PinnedObject` | two models, three versions, two ranges, six server faults |
| `HttpSource_unvalidated` | what is left with `allowUnvalidated` | as above, no validators, a server that shifts ranges |
| `HttpSource_race` | two opens of one source at once: violated | as above, no faults |
| `OpenGGUF_url` | table and bytes of one version, tensors inside it, opens end | one model, three versions, `FIRST` 1, `LARGEST` 6 |
| `OpenGGUF_endless` | a header longer than `LARGEST`: violated | as above |
| `NativeReader` | the loop's bounds; whole rows from files that change between two reads | five files, one on each side of each bound, up to 8 bytes; lists of up to 2 rows |
| `RowGather` | row addresses; rows returned are rows named | five-bit words, three-bit indices, about 2,000 tensors asked for rows; 6 of them gathered, arrays of up to 2 of 3 indices, written to up to 4 |
| `Blocks` | values from the right bits; what is listed as readable decodes | all 34 types, 3 tags that are none, real block sizes, up to 512 values, bytes right or one too many |
| `Blocks_sizes` | sizes of the types not decoded are ggml's: violated | as above |
| `Parser` | prefixes agree, reservations backed, table exact | 9 prefixes, two entries or tensors together |
| `Tokenizer` | pieces as the pattern cuts, merges as trained, specials whole, text back | texts of 3 of 10 characters, of 5 of those in special tokens, of 4 of digits and whitespace, of 4 of 2 letters with every trained list of 3 merges |
| `Tokenizer_decode` | a special token with a space comes back: violated | texts of 4 of 2 characters |

Why these are enough. Three versions are what the source can tell apart: two
of one length, two with one weak ETag, one shorter than a range that is read.
Two callers give every overlap of two calls; a third would add a second
bystander. The read loops depend on the order of `FIRST`, `4 * FIRST`, the
size and `LARGEST` only, and the instances have each order. Five-bit words
give products inside and outside the word with every divisibility, and
three-bit indices a matrix with rows past the index. An array is written to up
to two more than any result holds: where rows have elements, a call looks at one
index past its result and no further (`ReadsBounded`). Two rows in a list give a
row read before a failure and one after it, and two calls one after the other
show what the first leaves behind. Block sizes are the
formats' own: what a decoder does with a block does not depend on its bits, so
one pass over one block shows all of it, and two blocks show that the second is
read from its own bytes. The parser's
fields are independent but for the entries and tensors still to come: with two
of them together (`Together`) there is a duplicate, a last one and one that is
not last. Numbers a file may hold are chosen on both sides of each limit, and
the prefixes end before, in and after the fields. The ten characters have every
class and every one that a rule names or folds; no rule looks further than a
run and the character after it, and four digits exceed the run of three that
Llama 3 takes. Three merges on four letters give overlapping pairs, a merge of
merges and ranks against the order of the text.

The runs in the form of a violation each show one disagreement between the code
and what its comments or README say; `findings` in `PROJECT.json` quotes both.

## Fairness

Only `OpenGGUF`, `NativeReader` and `RowGather` state liveness. `OpenGGUF`
assumes weak fairness of each caller's own steps (`Client`): a fetch and a body
settle, with a result or a rejection, and the runtime runs the continuation.
The server is not assumed to answer: a fetch that gets no answer is rejected in
the end (`Lose`). `NativeReader` assumes that a thread inside `open` goes on
(`OpenGoesOn`): its read fills some of the buffer or fails, and what was read is
parsed. `RowGather` assumes that the awaited row arrives (`RowArrives`), and
states `GatherSettles` of rows with elements only: without, a caller that makes
its array longer during every await keeps the call going.
Neither the replacing of objects nor a caller's call is assumed to happen.

## What is proved

In `HttpSourceProofs`, for any sets of callers, versions, ranges, faults and
ways of answering:

- `TypeCorrect`: `Spec => []TypeOK`, without further assumption.
- `PinInvariant`, `OneObjectHolds`, `PinStaysHolds`, `KeepsPromiseHolds`: under
  `ConsistentServer`, the pin holds, a model's bytes are of one version,
  `validator` and `size` do not move, and every behaviour is one of
  `PinnedObject`.

`ConsistentServer` says what the promise takes from outside: opens of one
source do not overlap; a probe shows a validator; no other version carries that
validator; a read is answered by a server that compares `If-Range` or shows a
validator. Without the first, `HttpSource_race` is a counterexample. The third
is one that dates cannot give for certain: `Last-Modified` has a resolution of
a second, and two versions of one length written in the same second are one to
`checkRange`.

`OneObject` is not inductive. The invariant that carries it is `TypeInv` (types,
and what a call in flight carries) with `PinInv`: at most one probe is under
way (`OneProbe`); the validator is one the pinned version shows
(`PinIsValidated`); a reply carries the validators of the version its body is
of, and a 206 was given only if `If-Range` applied (`RepliesGenuine`); a read
sends the validator, and a reply that passed `checkRange` is of the pinned
version (`AcceptedIsPinned`); so is all that was delivered (`GotPinned`). The
hard steps are `Check`, where either the server compared the validator or the
client does, and `FinishPrepare`, where a second open finds the validator it
replaces to be the one it sets.

`AsAskedHolds` and `OneLengthHolds` need less. `AsAskedHolds` has no hypothesis: whatever the
server gets wrong and however calls interleave, a `Content-Range` tells of the
body it comes with (`RangeInv`), and what passes `checkRange` and the count of
bytes is what was asked for. `OneLengthHolds` needs only that opens do not
overlap (`OneOpenAtATime`): then the size does not move once it is set, an
accepted reply has it for its total, and a version that was read has it for its
length (`LengthInv`), whether or not there is a validator.

In `OpenGGUFProofs`, for any objects, headers, bounds of the prefix and models
on one source: a step of openGGUF is a step of the source or none of it
(`ClientMoves`), so the source's invariants hold of the composition.
`OpenTypeCorrect` needs nothing more. Under `ConsistentServer`,
`TableMatchesBytesHolds`, `TensorsInsideObjectHolds` and `RefusedForCauseHolds`
follow from `OpenInv`, which adds to them what each stage knows (`Judged`):
openGGUF's own length is the source's size, `want` is within the loop's bounds,
the table is the pinned version's, and a header that was refused had no longer
prefix to try. `OpenDelivers` gives `OneObject` and `AsAsked` to a model's reads.

In `NativeReaderProofs`, for any files, bounds, headers and lists of rows:
`ReaderTypeCorrect`, `PrefixBoundedHolds`, `RefusedForCauseHolds`,
`WholeTensorsHolds` and `PrefixGrowsOrEndsHolds`, from one inductive invariant.
`Grown(want, size) > want` is the fact the prefix needs where the loop goes on.
`WholeTensors` speaks of a call when it returns; on the way there the buffer
holds its bytes from the first on, each from its place and in the file when it
was read, and the handle stands behind them (`Filling`); the part it is for is
within the measured size (`PartFilling`); and the rows before it are in full
(`RowsInFull`). `FillingGoesOn` is one more read, `TurnKeeps` the way to the
next part, where `Filling` begins anew because `range` seeks.

In `RowGatherProofs`, for any word, any tensors the parser admits, arrays of any
length and a caller that writes at any time; `RowAssumption` and
`GatherAssumption`, which say what kind of values the constants are, are all that
is assumed. The arithmetic comes first: under `Admitted` no product and
no sum in `row_range_json` wraps on the way to an answer (`RangeIsExact`), and the
native reader's row is the same (`SameRow`). `RowsInsideTensorHolds`,
`RowsAbutHolds`, `RowsDecodeHolds` and `NativeAgreesHolds` follow.
`RowsAreThoseNamedHolds`, `OnlyRowsOfTensorHolds` and `ReadsBoundedHolds`, the
latter two whatever the caller writes, are about the loop. The first speaks of a
result when it is returned and is not inductive: `GatherInv` says that the array was checked before
the first await (`Checked`), that an array nobody wrote to is the one that was
checked (`Unwritten`), that the part gathered so far is the rows it names, in
place (`InPlace`), and that whatever is in the result is a row (`OnlyRows`).

In `ParserProofs`, for any file, any set of its prefixes, any limits and any
word: `ParserTypeCorrect`, `PrefixLawHolds`, `ShortIsShortHolds`,
`ReservationsBackedHolds` and `TensorRangesExactHolds`. Every field is read by
`ReadFitting`, so the proof has two halves. One (`GoesKeeps`, `RefusesKeeps`)
says when a field keeps the invariant: the least the header still needs
(`LeastRest`) falls by no more than what is read and is no less than what was
asked to fit, what is reserved is read or outstanding, and a tensor is pushed
only if it was admitted (`Good`). The other shows it of each of the 22 fields,
arithmetic of a case at a time. `fits_in_remaining` divides where the argument
multiplies; `FitsIsProduct` is the bridge. `PrefixLaw` is not inductive without
`Final`, that a verdict other than `short` is also the cursor's.

In `BlocksProofs`, for any lengths, tags and names: `ReadableDecodesHolds`, from
`ListsAgree`, which finds the lists of `is_supported`, `supported_dtypes`,
`dtype_by_name`, the table of types and the decoders to be one; and
`AsLaidOutHolds`, that `dequantize` lays out a result of any number of blocks as
its format publishes. It rests on `OneBlockHolds`: each decoder takes each value
of one block from the published bits, a set over the loops' counters being shown
to be a set over the places, format by format. From one block to many is the
invariant: the blocks decoded so far are laid out, each from its own bytes.

`EveryBitOnceHolds` then counts the bits of such a result. The fields of a plane
of whole chunks tile its bytes (`PlaneTiles`); a field made of two planes, or of
the halves of a packed scale, joins two such tilings place by place; and format
by format the planes, the scales and the minima leave no bit of the block over
(`AllTiled`). Blocks lie end to end, so the tiling repeats (`PartsRepeat`), and
as no two values have a field of their own in common, those fields are as many
as the values (`ManyImages`).

In `PreTokenizerProofs`, for every text, position and pattern: `piece` takes at
least a character and stays in the text, and takes what the pattern takes
(`PieceByPattern`). `GreediestIs` says when a match is the one a greedy matcher
comes to first; the `...Take` lemmas find that match for each form an
alternative has, and then the rules of the code and the alternatives of the
pattern are put side by side in their order. The hard ones are the runs with an
assertion or a line break behind them, where the matcher has to give back what
the code never takes.

In `TokenizerProofs`, for any alphabet, texts, patterns, merge lists,
vocabularies and special tokens:

- `TypeOKHolds`: `Spec => []TypeOK`, by `Typed`, which adds to it what a stage
  knows of the special token found.
- `CutByPatternHolds`: `Spec => []CutByPattern`, inductive with `Typed`, from
  `PieceByPattern`.
- `RoundTripHolds`: `Spec => [](SpecialsPlain(input) => RoundTrip)`. `RoundTrip`
  speaks of the end. What is kept on the way (`Kept`, `RunsOn`) is that the
  tokens so far, with the parts in hand, decode to the text as far as it was
  read: a merge moves no character, a piece is cut without leaving one out, and
  a special token that is found is the text it stands for.
- `SpecialsWholeHolds`: `Spec => [](SpecialsApart(input) => SpecialsWhole)`. The
  invariant (`Seen`) is that the special tokens among the tokens, followed by
  those a reader sees from the end of the run on, are those of the whole text;
  between the cursor and the end of the run there is none, the special found
  being the earliest, and the longest of those.

- `ByPriorityHolds`: `Spec => []ByPriority`. The invariant (`Replays`) is that
  replaying the merge list on the parts comes to what it came to when the piece
  was cut. The merge that is done has the lowest rank there is, and is the
  leftmost of that rank: replayed before it, the list changes nothing, neither
  the parts nor what the merge makes of them, because in a trained list no
  merge before it is made of its result (`MergeReplays`); and at its own turn
  the replay would do it first (`AppliedJoined`). When nothing applies, there is
  nothing left to replay. `Trained` lists are those in which every merge makes a
  token of its own. A list with several merges of one token, as Llama 3's has,
  is not of that kind, and nothing is stated of it.

Without `SpecialsPlain` the theorem on `RoundTrip` is false: the run
`Tokenizer_decode` has a special token of spaces, and loses it. `SpecialsApart`
is needed because the tokens of the model are texts: a special token with the
text of an ordinary one, made of a byte or by a merge, could not be told from
it in the output.

`ConsistentServer`, `OneOpenAtATime`, `SpecialsPlain` and `SpecialsApart` are
hypotheses of the theorems that name them, and a run satisfies each. The other
assumptions are those of the modules on their constants, which the runs
evaluate.

Inductions over a number or a sequence are made with the property as a set
(`Induct`, `SeqInduct`): a set of naturals without a least element is empty.

## What is only model-checked

Liveness (`OpenSettles`, `GatherSettles`) and anything about `ENABLED` are out
of the prover's reach. Every invariant of a run that passes has a theorem.

## What is not modelled

- **The arithmetic of the decoders.** Half and single precision numbers, the
  order in which products are rounded, and the sixteen values of the IQ4 table
  are out of TLC's reach; `Formats` has every bit that goes into them.
- **JSON.** The text of `metadata()` and `tensors()`; what is said of a tensor is
  in `Blocks` and `OpenGGUF`. The metadata accessors, and how `tokenizer()`
  collects its arguments from the metadata, return stored values and change
  nothing.
- **The header writer** serves round-trip tests only, **blob and file-handle
  sources** pass one call to the platform, and **examples and scripts** are
  command lines around the library.
- **Widths.** Numbers past 2^53 in JavaScript, the limit of 2^32 values in
  `floats`, and the narrowing to 32 bits of counts that the limits keep below
  2^32.
- **Unicode tables**: which characters `is_alphabetic` and `is_numeric` take for
  letters and digits, and how that differs from `\p{L}` and `\p{N}`.

## Plan

The modules were written in the order of the table, the most exposed part first,
and each then proved about. What is left: the metadata accessors and the
arguments `tokenizer()` collects, should they come to hold state.
