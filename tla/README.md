# Verification of bcur

`bcur` moves a byte string across a one-way, lossy, unordered channel (usually
an animated QR code) as Uniform Resources. This directory holds TLA+ models of
its transport, TLC configurations that check them on small instances, and
TLAPS proofs for every value of the parameters. Paths below are relative to
`src/crates/`.

    tlc -config MCFountainDecoder_orderings.cfg MCFountainDecoder
    tlapm FountainDecoderProofs.tla

1. Inventory — 2. Modules and how they correspond to the code — 3. Runs —
4. Fairness — 5. Proofs — 6. What disagrees with the documentation —
7. Abstractions — 8. Not modelled — 9. Plan

## 1. Inventory

| Component | State it keeps | Operations | What makes it correct |
|---|---|---|---|
| Fountain encoder, `bcur/src/fountain/mod.rs:138-234` | fragments, header, `current_sequence` | `new`, `next_part`, `complete` | fragments cover the message with less than one fragment of padding; every emitted part is the XOR its header promises; the sequence never wraps or repeats |
| Fountain decoder, `fountain/mod.rs:236-549` | `decoded`, `received`, `buffer`, `queue`, pinned header, `poisoned` | `receive`, `complete`, `resolved_fragment_count`, `validate`, `message` | recovers exactly what the accepted parts determine, in any order; keeps only true fragments; bounded; fails closed |
| Part codec, `fountain/part_cbor.rs` | none | `encode_part`, `decode_part` | round trip; only the shortest form is accepted |
| PRNG and sampler, `rng/` | generator state, alias table | `shuffled`, `choose_degree`, `Weighted::new`, `next` | encoder and decoder pick the same distinct indexes; the table is a distribution |
| Bytewords, `bytewords/mod.rs` | none | `encode`, `decode`, `canonicalize_byteword` | round trip; a damaged body is rejected |
| UR parser, `ur/mod.rs:22-256` | none | `parse`, `decode`, `UrType::new` | case-insensitive; indices are positive |
| UR encoder, `ur/mod.rs:258-354` | fountain encoder, `single_emitted` | `next_part`, `current_index`, `complete` | one fragment means one single-part string, any number of times |
| UR decoder, `ur/mod.rs:356-559` | fountain decoder, `expected_type`, `seen_type`, `single`, `poisoned` | `receive`, `complete`, `message`, progress | one type and one form per session; a failure of the inner decoder reaches the outer one; a complete message never changes |
| Typed layer, `typed/` | a UR encoder or decoder | delegation, `MultipartDecoder::message` | a complete session always has a type |
| CLI encode, `bcur-cli/src/encode.rs` | bounds of the search, encoder | `run`, `fit_fragment_len` | the search ends, what it returns fits and cannot grow; the parts fit the requested length |
| CLI decode, `bcur-cli/src/decode.rs` | a UR decoder, the next line | `run` | the lines of one encoder decide the outcome, not their order; nothing is mixed |
| Terminal, `bcur-cli/src/qr.rs` | screen, raw mode, deadline, waiting keys | `show_static`, `animate_encoder`, `animate_parts`, `AltScreen` | every frame is shown and fits; a request to quit is heeded; the terminal is restored on every exit |
| Errors, CRC-32, constants | none | - | - |

The layers call downwards only, synchronously and on one thread: CLI -> UR ->
fountain, with the part codec and bytewords between UR and fountain. The
encoder's process and the decoder's process share nothing but the channel.
The one place where two parties act at once is the terminal: keys arrive while a
frame is drawn and while its deadline passes. Elsewhere what is hard is not locking but *order*: parts are lost, repeated and
reordered by the channel, every part meets a session with a different history,
and one call runs a cascade of reductions over a map it is changing.

## 2. Modules

| Module | Models | Stands on |
|---|---|---|
| `FountainParts` | the free functions of `fountain/mod.rs` and its `Part`: how a message is cut, which fragments a part mixes, XOR | - |
| `FountainDecoder` | `fountain::Decoder` | `FountainParts` |
| `Peeling` | what a fountain decoder promises, without buffer, stack and limits | - |
| `FountainEncoder` | `fountain::Encoder` | `FountainParts` |
| `PartWire` | the part codec, byte by byte, behind the encoder | `FountainEncoder` |
| `Bytewords` | the text of bytes in all styles, and abbreviated words | - |
| `UriBody` | bodies of URIs: parts and payloads as text and back | `PartWire`, `Bytewords` |
| `Sampler` | `choose_fragments`: the alias table, the draw of a degree, the shuffle | `FountainParts` |
| `UriForms` | the two forms of a URI and their lengths | `FountainParts` |
| `UriSyntax` | strings: `parse`, `decode_indices`, and how a URI is printed | `UriForms` |
| `UrDecoder` | `ur::Decoder` and the limits of the part codec | `FountainDecoder`, `UriForms` |
| `UrSession` | what a UR decoder promises its caller | - |
| `UrEncoder` | `ur::Encoder` | `FountainEncoder`, `UriForms` |
| `UrTransfer` | an encoder, a display, a decoder | `UrEncoder`, `UrDecoder` |
| `CliEncode` | `bcur encode` and its search for a fragment length | `UriForms` |
| `Terminal` | `run_animation`, `AltScreen`, keys and deadlines | - |
| `CliShow` | what `bcur encode --qr` and `bcur qr` show | `CliEncode`, `Terminal` |
| `CliDecode` | `bcur decode` | `UrDecoder`, `UriSyntax` |

A module that models an owner EXTENDS the module of what it owns, as the Rust
struct holds the other one by value. `MC...` modules give the constants their
values for TLC; `...Proofs` hold the proofs.
Definitions named `Faulty...` are seeded faults: wrong forms of the definition
that follows, which show that a property can fail.

**FountainDecoder.** `decoded`, `received`, `buffer`, `queue`, `poisoned` are
the fields of the struct; `meta` is the pinned header (`sequence_count`,
`message_length`, `checksum`, `fragment_length`). One call of `receive` is not
one step. A call that passes the checks (`Accept`) goes through
`phase = "ingest"` (`StripKnown` for each known fragment of a mixed part, then
`IngestNew` or `IngestKnown`) and `phase = "drain"` (`PopSimple`, then `Reduce`
once for every key that was collected, until the stack is empty, then
`Return`). Every early return is an action of its own, and its guard contains
the checks the code makes before it: `Admissible` for instance is nested
inside `DataFits`, `CountFits`, `LengthFits` in the order of the source, which
decides whether a part poisons the session or is only rejected. A failing
`ok_or` or `xor` is `InternalError`; that it cannot happen is a theorem and
not part of the model. `Message` is `Decoder::message`; the errors for padding that is not zero and for a wrong checksum
are one there, because both need a fragment that is not the stream's, and nothing tells the caller's state apart.
The multiplication in `message()` is not checked: a product beyond `usize` is the outcome `"Overflow"`, which the
checked product of `validate_first_part` has to exclude.

**Peeling.** A part is the set of its fragment indexes. A call takes a part,
learns any fragment that is the only unknown one of some part, and may return
only when nothing is left to learn. `FountainDecoder` implements it:
`Peel == INSTANCE Peeling WITH got <- ..., known <- DOMAIN decoded, status <- ...`.

**UrDecoder.** `expected`, `seen`, `single`, `urPoisoned` are the fields;
`call` is the URI whose part the fountain decoder is working on, so the
variables of the fountain decoder move between `CallFountain` and `Conclude`
and the result is read only after it has returned, as in the code
(`ur/mod.rs:499-503`: `Pin`, `Escalate` or `PassOn`). The part codec runs
before the path indices are compared and looks at the limits in its own order;
`PoisonPartData`, `RejectPart`, `PoisonPartCount`, `RejectIndices` keep it.

**FountainEncoder, UrEncoder.** `enc` is the header with `current_sequence`,
`emitted` and `sent` collect what has been handed out, because that is all a
receiver can ever get. `NewResult` lists the exits of `new` in order.

**UrTransfer.** What the encoder has returned stays on show. The receiver may
scan it in any order, any number of times or never (loss), misread it
(bytewords carry a checksum, so a misread body is no body), and scan URIs of
other senders (`Foreign`). `Alone` says of an instance that there are none of these and that the limits have room.

**UrSession.** A session has one content, the payload of a single-part URI or the message
of one stream; it has the type of that content; what can be read stays until a limit
closes the session. `UrDecoder` implements it: `Caller == INSTANCE UrSession WITH ...`, where the
message of a stream is the one of the header that was joined, not whatever `decoded` holds.

**PartWire, Bytewords, UriBody.** A wire is its bytes up to the fragment, and the fragment as a block;
`EncodeHead` and `DecodeHead` are `encode_u32`, `decode_u32` and the heads of the byte string, `Heads` reads the five in a row, and
`DecodePart` returns the errors of `decode_part` in its order. A text of bytewords is a sequence
of characters; the table of words is the source's, and the tables that repeat it (`MINIMALS`,
`BYTES_INDEXED_BY_HASH`) are computed from it, which gives the entries of the source. The bodies of
the parts that the encoder emits go through both.

**Sampler.** A probability is a number of units; `One` of them are 1.0 and every operation on the
table may be off by `Eps`. A random double is `m / Precision`, and its product with a count is rounded to a significand
below `Precision`, which is 2^53 in the code, because a product that rounds up to
the count would be an index out of bounds (`panic`). The two worklists are filled in falling order of the indexes and popped and
pushed as in the source.

**UriSyntax, CliDecode.** A string is cut at the scheme, the first slash and the last one; the path between
them is kept letter by letter, because `str::parse::<u32>` takes a plus sign and leading zeros and
has to overflow. `CliDecode` gives the lines of a text to one session; each early return of `run`
is a `Stop` with what `run` returns, and reading and writing fail or not.

**CliEncode.** `lo`, `hi`, `best` are the locals of `fit_fragment_len`; one step
is one probe. The length of a URI is computed as the encoders produce it, form
by form and CBOR head by CBOR head.

**Terminal, CliShow.** One action is one call of the terminal library, which fails or not; what fails
changes nothing, and what the guard failed to restore is in `stuck`. `left` is the time to the deadline
of the frame; `keys` are the events that wait to be read. `CliShow` takes a frame from the encoder,
the first one having been measured before the animation began, or from the list of
`bcur qr`; the length of a URI decides the version of its QR code and with it whether `check_fits` lets it pass.

## 3. Runs

| Run | Instance | Distinct states | Shows |
|---|---|---|---|
| `fountain_orderings` | 3 fragments with all ordered pairs and two triples, 4 fragments in a chain, in every order; the same with a header whose fragments are a byte too short | 50,171 | the inductive invariant `IInv`; peeling is exact, through cascades of several buffered parts; a complete session yields its message; refinement of `Peeling`; calls return |
| `fountain_limits` | 3 fragments, foreign, re-cut, zero-field and oversized parts; a stream that cannot complete, at the exact capacity of both stores, with a damaged copy of each part | 2,316 | true fragments only, no internal error and no overflow, memory, reductions never poison, redelivery never kills, nothing recovered is replaced |
| `ur_session` | two types, single-part and multi-part URIs, over each limit, mislabelled, garbled | 5,525 | the inductive invariant `UrIInv`; one form and one type per session; refinement of `UrSession` |
| `fountain_encoder` | message lengths 0..10, maxima 0..11, sequence numbers to 9; parts of other encoders and wires of nobody at every width of every field; every byte, altered texts and all pairs of letters | 46,132 | the cut, each number once, `complete()`; the wire carries each part and accepts nothing else; a text or a token has one meaning |
| `sampler` | tables of up to 5 entries, equal and zero weights included, rounding errors of one in a hundred, doubles of 16 significands | 4,862 | each index keeps its share of the draws, the choice is a vector of distinct indexes, the loops end |
| `transfer_alone` | `Alone`: one sender, 1 or 3 fragments, 5 sequence numbers, misreading | 2,384 | nothing is refused; a complete sender has sent enough; every message is read |
| `transfer_foreign` | the same with six foreign URIs of two types, one of them a part of a stream of one fragment | 12,806 | what is read is one sender's message |
| `cli_modes` | 156 command lines, with limits around the lengths at which an encoding grows, on three sizes of terminal, and `bcur qr` with 0, 1 and 3 lines; two keys; every call of the terminal fails or not | 172,831 | the search ends and is locally largest, its slack lasts to part 99,999, text mode prints every fragment; frames fit, none is left out, a request to quit is heeded, the terminal is restored |
| `cli_decode` | texts of up to four lines of one encoder; of its lines and others, other types and 15 strings nobody prints | 74,145 | what is decoded depends on what the lines determine and nothing is mixed; no dead end before it stops |
| `fountain_index_sets`, `cli_largest`, `cli_beyond_slack` | violations | - | see section 6 |

Why the bounds are enough. In the decoder, what can go wrong is an order of
accepting and reducing: with three fragments a buffered triple meets pairs in
both orders of their indexes, a reduction can produce an entry that is
already there, a second value for a known fragment, and another reduction; with
four, a reduction triggers a chain of three. `fountain_limits` has one part on
the far side of every comparison of `receive`, and a header whose fragment length times count exceeds `MaxUsize = 9`; a product that
wrapped would pass the test of the padding. Its second
stream needs exactly what both stores hold. The encoder's lengths include all remainders modulo all maxima up to one above the
longest message, and `MaxU32 = 9` lies below the longest message, so that the exits for
a length and a sequence number that do not fit are taken. The values of a wire's fields are those on both
sides of every width, each field alone, and every form that can hold each of them. An index of the alias table is paired
with at most four others, and `Eps` is large enough for both worklists to be the one that is left over. With 16 significands,
the products of the larger doubles are rounded, up and down, for counts of three and five; none reaches the count. In the command line,
`MaxU32 = 30` makes the tripled number of parts saturate and lets a stream of 24 fragments come to
the last sequence number. The terminals are one of 24 lines, the smallest that shows the same codes, and one too small for any.
Two waiting keys are enough for a request to quit behind another key. Three lines, of which a text can have one twice or none,
and one foreign line at every place, are enough for each pair of lines to meet in both orders. What these instances
suggest is proved without bounds, except where section 5 says otherwise.

`CHECK_DEADLOCK FALSE` is set for the runs of `CliEncode` and `CliShow` only: the command ends.
`CliDecode` has a stuttering `Exit` instead, so that TLC finds a loop that gets stuck.

## 4. Fairness

- `Spec` of the decoder: `WF_vars(Ingest \/ Drain)`. `receive` is a synchronous call
  with `&mut self`; once started it runs to its end. No fairness on being called.
- `UrSpec`: `WF_urVars(Conclude)`, for the same reason.
- `FairTransfer`: weak fairness of `Construct` and `Show` (the sender runs), of
  `Proceed` (calls return), and strong fairness of `Scan(u)` for every URI that is on
  show. Strong, because a call in progress disables scanning over and over.
  `animate_parts` (`bcur-cli/src/qr.rs:82-104`) shows each of its frames again and again until
  somebody quits, and the assumption is that a camera that is pointed at it catches each
  frame once in a while. It is not claimed of `animate_encoder`, which shows each part once.
- `CliSpec`: weak fairness of the whole next-state relation; it is a sequential program.
- `ShowSpec`: weak fairness of `Command` and `Program` (the program runs) and of `Tick` (time passes); strong fairness of
  `HandleKey`: a key that waits is read in some interval. The wait is `poll(remain)`, and the interval is at least one
  millisecond (`Interval`), so a waiting key is missed only if the program is held up between its first look at the clock and
  the poll for all of the interval; it is assumed that this does not happen in every interval. With an interval of zero
  the assumption would not help, as the mutant `FaultyInterval` shows.
- `Spec` of the sampler: weak fairness of `Compute`; it is a loop of a synchronous call.

## 5. Proofs

Assumptions are named where the constants are declared and evaluated by TLC in
every run that has them: `LimitsAssumption` (limits and `usize::MAX` are naturals, of any
size, zero included), `PartsAssumption` (headers of any naturals, any payload),
`MixAssumption` (the sampler returns distinct indexes below the count, at least one; that the model of the sampler does is
`VectorAlwaysOK`),
`UrisAssumption`, `EncoderAssumption`, `RequestsAssumption`, `InputsAssumption` (the kinds of values that are passed),
`TransferAssumption` (the URIs of the decoder include what the encoder sends), `TerminalAssumption` and `ShowAssumption` (there is a
size of the terminal and an interval), `TablesAssumption` (of the 256 words: four small letters each, and no two with the same hash; TLC reads it off
the table, and the proofs use nothing else about the words), `BodyAssumption` (capitals and small letters undo each other; payloads are bytes, altered texts
characters), `PathsAssumption` (a `u32` has at most ten digits; `None` is no number and no path), `WireAssumption` (fields are `u32`; the block of a foreign wire is what follows its
heads, which says only where it is cut), `DoubleAssumption` (every number has a unit in the last place), `SamplerAssumption`
(a table has a weight above zero, and not more entries than a double can count). Exactness of payloads has a
hypothesis, `HonestParts`: every part with the pinned header carries the XOR that the
header announces; parts with other headers may carry anything. Without it only the part about indexes is true.

**Fountain decoder** (`FountainDecoderProofs`). `PeelExact`
says that between calls nothing is left to peel, but in the middle of a call
plenty is left, so it is not inductive. `IInv` adds what holds in the middle:
- `Control`: each phase leaves the variables of the others at rest, and what is on the
  stack or being removed agrees with `decoded`;
- `Pinned`, `SameLength`: an accepted part pins a header whose fragments hold the message, and all
  payloads of a session have one length, hence no XOR fails;
- `Traced`, `AllCovered`: whatever is buffered is an accepted part without some known fragments, and
  no accepted part is forgotten before all its fragments are known;
- `Cascading`: a known fragment inside a buffered entry is waiting on the stack or is the one
  being removed from that very entry;
- `OnlyPeeled`: every set closed under peeling contains what is decoded.

When the call returns, the stack is empty, so by `Cascading` no buffered entry
has a known fragment, none has length one, and by `AllCovered` nothing can be
peeled; with `OnlyPeeled` this is `PeelExact`. Each action has its lemma;
`insert_reduced`, which two actions call, has one (`InsertReducedIInv`).
On top of it: the refinement of `Peeling`, `FragmentsExact` (through `ExactInv`, which follows the
part in flight; `NextTrue` is the step), `MemoryBounded` (through a counting invariant: each accepted
part pays for at most one fragment or entry), `DrainNeverPoisons` (a reduction takes its
entry out before it puts one back), `NoInternalError` (`message()`'s unchecked product included), `CompleteYieldsMessage`, `ProgressKept`, and `RedeliveryNeverPoisons`: what
is recorded, and what is buffered, are vectors that some part of the pinned stream has, each of them once, so that neither store can be asked for
more places than there are vectors. A redelivered part needs no place because a duplicate is recognised before the limits are looked at.

**UR decoder** (`UrDecoderProofs`). `SessionStep`: every step of a session is a step
of the fountain decoder inside or leaves it alone, so `IInv` carries over. `UrIInv` adds
what is known of the fountain decoder's answer before anybody has looked at
it (`AnswerOK`, `InFlight`); the properties speak of the moments between calls.
Proved: `OneForm`, `PinnedWithContent`, `PoisonSurfaces`, `CodecShields`, `TypedComplete`, `OneType`,
`FailClosed`, `MessageKept`, and the refinement of `UrSession` (`SessionRefinement`). It needs no honest parts: `message()` compares the checksum of what it joins with
that of the header, so whatever it returns is the message of the stream that was joined (`YieldsExactly`); that it stays
readable takes a case distinction on what one step of the fountain decoder inside can do to a session (`StaysEmpty`, `Begins`,
`GoesOn`, `Ends`), and `CallerInv` carries the header and the type of the call in progress.

**Encoder** (`FountainPartsProofs`, `FountainEncoderProofs`). The arithmetic of the cut for all
lengths and maxima (the padding is less than a fragment; the fragment length does not
exceed the maximum), then `EncIInv`, `PartsFitDecoder`, `EachOnce`, `CompleteCovers`.

**Transfer** (`UrTransferProofs`). `SenderInv` ties what has been sent to one encoder, one type and its numbers (`OneFormSent`
follows). For `Faithful`, `FromShown` follows what the receiver holds back to what was on show: `single` is the body of a URI
of the pinned type, and the pinned header that of a part of the pinned type; while the first call is in
progress the type is not pinned yet, and the URI is `call`. With `YieldsExactly` this makes what is read one sender's message, for any
set of other senders. `AllTaken` and `CompleteIsEnough` are proved under `Alone`, the hypothesis that nobody else is in view and
the limits have room for what can be sent; the run `transfer_alone` evaluates it. Every check of both decoders is then
shown to pass (`AloneContent`), and `RedeliveryNeverPoisons` closes the limits that are not checked when a part comes in.

**Wire and choice of fragments** (`PartContentProofs`). `EncodeHead(v)` is one of four forms, and the one that is shortest
(`HeadForms`, `FormIs`: the bytes of a `u32` and its value determine each other). What `decode_u32` accepts at a place is that form of the value it returns,
and the other way round (`HeadReads`, `HeadWrites`). Five heads that are laid end to end and fill the bytes between the opening and the
fragment are their concatenation (`LaidConcat`, `LaidUnique`). Hence `ReadsOwn`, for all fields and not only those at the edges of a width, and `Canonical`.
Of the sampler, `VectorOK`: `ScaledBelow` shows that the product of a count and a double below one, rounded to a double, stays
below the count, whatever the precision: the unit in the last place of the exact product is too small to reach it (a product
rounded up by half a unit of twice the size would). `SamplerInv` adds that the worklists and the aliases are indexes of the table, and that
the items that are left and those that were taken are distinct and together as many as the table has.

`MassKept` is a statement about sums over the table at the end of its construction. In the middle (`MassInv`), an entry that has left its worklist has its share, up to
rounding (`Done`); while both worklists have entries, the weight of one that is listed is what its share still lacks, and the weights of all that are listed
add up to 1.0 for each of them, up to one error of each entry and one of each pairing (`Pairing`). When a worklist runs empty, the other one is left with
entries that are all at least 1.0, or all below it, and add up to 1.0 for each: so each of them is 1.0 but for these errors, and setting it to 1.0, as the code
does on either side, gives it its share (`Settling`). `Eps` is at least 1 because
the division by the total, which the model does in integers, is itself off by less than a unit.

**Texts** (`PartContentProofs`). `OneMeaning` has two sides for each style: the text of some data is read as these data (`OwnTextRead`), and a text that
is read as data is the text of these data, but for capitals (`OnlyOwnTextRead`). Both rest on one word: `encoded_byte` accepts
the letters of a byte's word and no others (`EncodedByteExact`), because the table by hash gives at most one byte for two letters and the word is then compared.
Pairs of letters are cut by place; words between separators by a fold, and cutting what was joined gives back the words, as no word has a separator in it
(`SplitWords`), while joining what was cut gives back the text (`SplitJoins`). `FourBytes`, the hypothesis, says that the checksum is four bytes,
which is all that is asked of CRC-32 here: a text is rejected when its last four bytes are not those of the rest, whatever the function.

**Induction** (`FountainPartsProofs`). The library's induction theorems take an operator as a parameter, which the provers cannot instantiate; a set they
can. `Induction` and `SetInduction` are about the set of numbers, or of finite sets, for which a claim holds, and come from
the least element outside of it (`LeastNumber`). With them: that what a fold chooses exists (`FoldExists`, `LeftFold`), sums and their
monotony, and `FlattenSeq`. A fold of the community modules is a function on sets of indexes, of which the proofs only look at the prefixes.

**Command line** (`CliProofs`). `CliIInv` bounds the interval of the bisection by what has
been measured: `best` fits, and `hi + 1` does not, unless it is beyond the payload. `LocallyLargest` follows
when the interval is empty, and needs no monotonicity of the measure, which is
the point: the measure is not monotone. `EarlyPartsFit` needs that five
digits cost four characters and eight letters more than one. `EnoughPrinted` needs only that the saturating
product is not below its argument. `TerminalInv` says at each place of the code what the guard still has to restore;
that what it fails to restore is in `stuck` gives `Restored`, on every way out. `FramesFit` joins both halves: a frame has a length that
was measured, with the slack, against the capacity of the largest code the terminal can show, and the table of capacities grows
with the version (`Growing`), so no part up to number 99,999 is refused.
`OrderInv` keeps the number on the screen with the encoder's, the part that waits in between; with it no frame is left out (`NoneLeftOut`).

**Decode loop** (`CliDecodeProofs`). `DecodePlace` says of each place of `run` what the session inside holds: between lines,
all lines that have been read are of one sender and the session is not complete; during a call the line in flight is the one whose turn it is.
A call that answers `Ok` has taken a line of the same sender or has begun the session with it (`OneSenderWritten`).
The two numbers of a path are read as they were printed (`ReadBack`): a prefix of the digits has the value of the number
divided by the power of ten that the other digits stand for (`DecimalReadBack`), and the path is cut at its only dash (`PathCut`). A string printed for a URI is then read as that URI, in capitals too (`PrintedRead`), so
the lines are the URIs of one encoder (`OwnLines`). For such a text every check of both decoders passes (`OwnLineTaken`): the header and the type agree with
those pinned by the lines before, and a vector that is not yet recorded leaves room, as the recorded ones are fewer than the URIs.
`OwnInv` carries this on, with the payloads true to the stream: it needs only the accepted parts to be honest (`NextTrue`), and
the other parts of the instance may be anything. At the end both directions come from peeling: what is recovered is the least closed set of
the lines that were read (`OnlyPeeled`, `OwnComplete`), and it is closed (`IInvPeelClosed`, `OwnIncomplete`).

`TypeOK`, `ExactInv`, `OneForm`, `PinnedWithContent`, `PoisonSurfaces`, `CodecShields`, `FailClosed`, `EachOnce` and `CliIInv` are
proved, and no run lists them by name: they are conjuncts of an invariant that a run checks, or follow from one.

Only model-checked is liveness (`CallsReturn`, `Transferred`, `Decides`, `QuitHeeded`, `ChoiceEnds`, the first half of `EveryFrameShown`), which
is out of the prover's reach.

## 6. What disagrees with the documentation

Each is a run that ends with a counterexample.

1. `fountain_index_sets`. `DecoderLimits` says "Max unique index-sets recorded in
   `received`" (`bcur/src/fountain/mod.rs:86`). The code records the vector in shuffle order, so one set can be
   recorded, counted against both limits and buffered once per order. Peeling stays exact:
   the second entry of the same set is discarded when it is reduced.
2. `cli_largest`. `fit_fragment_len` is documented to return the "Largest fragment length whose
   first part URI plus slack" fits (`bcur-cli/src/encode.rs:112`). With `--animate` and a payload that fits one
   fragment, the URI of the whole payload is shorter than that of a part with half
   of it; the bisection goes left and fails although a length that fits exists.
3. `cli_beyond_slack`. "Slack for later sequence numbers" is 12, but six digits of sequence number
   cost 13 characters: from part 100,000 on a URI exceeds `--max-chars`.

## 7. Abstractions

- A payload is its length and the set of source fragments XORed into it; XOR is symmetric
  difference. Fragment `i` of the stream with header `m` is the atom `<<m, i>>`, so two messages
  never share one and the checksum test of `message()` sees any wrong fragment: CRC-32
  is taken to tell the messages of an instance apart.
- The PRNG, the degree sampler and the shuffle are the constant `Mix`; TLC's instances assign to
  sequence numbers every vector a shuffle can produce, the proofs take any.
- The known fragments of an ingested part, and the collected keys of a reduction, are taken in any order;
  the code takes the order of the vector and of the map. The model has more behaviours.
- A string is what `parse` and the body codecs make of it: a record with its length, type,
  form, indices and body, or with no body when a checksum or the codec rejects it.
- `u32::MAX` and `usize::MAX` are constants, small in the runs. The decoder compares the
  exact product with `MaxUsize`, as `checked_mul` does.
- `CliEncode` starts where `--max-chars` has a value and the payload has been read; `CliShow` gives it the default that
  the terminal's size makes.
- A QR code is the number of its modules, and its version the smallest that holds the text by the standard's capacities, which
  the crate that renders it follows. The table of `qr.rs`, whose comment names the standard (`bcur-cli/src/qr.rs:19`), gives versions 9 and 10 less
  (177 and 207 instead of 189 and 221), which `FramesFit` allows; more than there is would break it. Beyond version 10, where the table of `qr.rs` ends, it is drawn or refused. The size of
  the terminal does not change during an animation.
- The call that writes a frame, and the one that switches the screen, happen or fail as a whole.
- In `Bytewords`, the checksum is a constant operator; characters are letters, the two separators, and one that is not ASCII.

## 8. Not modelled, and why

- Argument parsing, the reading of payloads, the rendering of QR codes and the texts of errors: I/O and library calls.
- CRC-32: an external crate. dCBOR conversions of the typed layer: library calls on values without state.
- The generator: xoshiro's 256 bits and their seeding from SHA-256. The models allow every sequence of doubles, and
  that encoder and decoder compute the same one from the same seed is taken for granted.
- A resize of the terminal during an animation, signals, panics, and escape sequences that are written half: the code does not
  handle them (a drop of the guard during unwinding restores the terminal as in every other exit).

## 9. Plan

Done, in the order of importance: the fountain decoder with its abstract specification and
proofs; the UR decoder around it, with the session it implements; the encoder; the two composed; the fragment search;
the codecs; the choice of fragments; the terminal; the decode loop.

Every invariant of the passing runs is proved. What would come next is the generator: xoshiro's state and its seeding,
in runs of single steps, as its words are of 64 bits.
