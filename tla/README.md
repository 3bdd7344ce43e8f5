# A verification of ELH

TLA+ specifications of the ELH compression library (`src/`, `include/`) and of
the stateful parts of its HTTP service (`api/app.py`), the TLC runs that check
them on small instances, and TLAPS proofs of the main results for all sizes.
`PROJECT.json` maps every definition to the lines it models and lists the runs,
hazards, findings and theorems.

## 1. Inventory

| Part | State | Operations | Module |
|---|---|---|---|
| Hash table, `elh.c:28-157` | buckets `a1` of up to 4 positions, overflow `a2`, depth `k` and the counters that adapt it | `elh_put`, `elh_get` (scalar and AVX2), the streaming codec's inlined copies | `ElhTable` |
| Streaming codec, `elh.c:313-704` | per stream: hash table, ring `window_buf`, `curPos`; on the other side ring `history`, `histPos` | `elh_stream_new`, `_compress`, `_decompress`, `_reset`, `_bound` | `ElhStream`, `LosslessStream`, `ElhBound` |
| Block codec, `elh.c:159-310, 578-610` | none between calls | `elh_compress`, `elh_decompress`, `elh_compress_bound` | `ElhBlock`, `LosslessBlock`, `ElhBound` |
| Frame container, `elh_frame.c` | none between calls; the frame | `elh_frame_compress`, `_decompress`, `_compress_bound`, `_get_original_size` | `ElhFrame`, `LosslessFrame` |
| Ingest store, `api/app.py:260-379, 588-709` | one frame file per batch, `metadata.jsonl` | two POST handlers, four GET handlers | `IngestStore`, `BatchLog` |
| Rate limiters, `api/app.py:41-104` | timestamps per client, and for all | the middleware | `RateLimiter` |
| Command line tool, `elh_cli.c` | per process its buffers; the files it reads and writes | `-c` and `-d`, with their parameters | `FileTool` |
| Python bindings, `python/*.py` | the loaded library | `compress`, `decompress`, `original_size` | not modelled |
| Compression and benchmark endpoints, `api/app.py` | none | one call of the bindings each | not modelled |
| Benchmarks, examples, tests, vendored LZ4, build files | - | - | not modelled |

**How they interact.** The two streams of the streaming API are separate objects,
usually in two processes; all they share is the sequence of compressed chunks the
caller carries over, and the agreement on the parameters and on resets. A frame is
a sequence of blocks, each made by one call of the block codec or, when that fails
or does not shrink, stored raw. The CLI and the bindings call the frame functions
with buffers of the size the bound functions name; two processes of the CLI meet in
the files they name. The service calls the bindings;
its POST handlers run one at a time on the event loop, its GET handlers in a
thread pool beside them, and the two meet in the files.

**What is hard.** The library has no threads; what is hard in it is that the hash
table, two rings and two counters of two parties have to stay in step over any
sequence of calls, retries and resets, with byte-exact boundary rules (minimum
match, last literals, escapes, ring size) and 32-bit counters. The service adds
concurrency (readers without a lock), crashes between and in the middle of writes,
and a clock that can be set.

**What makes each part correct.**
*Streaming codec*: what is decoded is what was encoded, whatever the chunking, the
parameters, failed and repeated decoder calls and resets; it refuses only for want
of room; calls return; everything sent arrives if the receiver keeps asking.
*Block codec*: the same for one block, and the end-of-block rule of the LZ4 format.
*Bounds*: an output buffer of the size the bound names is never too small, and one that
is too small is never overrun.
*Frame*: what is accepted is the input; a frame that lost a part, has one twice, goes on
or has a changed field is refused (a changed payload, or chunks exchanged, it cannot tell).
*Command line tool*: what it says it has written is a result of the bytes it read,
and an output cut short is never taken for a frame.
*Ingest store*: an acknowledged batch is recorded, listed and replayable.
*Limiters*: no window of time has more than the limit; nobody is refused without cause.

The hazards these properties are for are in `PROJECT.json`, each at its line.

## 2. The modules

### ElhTable

The hash table as operators: `ElhPut` shifts a bucket, and moves the evicted
position to `a2` under the hash of the *new* sequence, as the code does; `ElhGet`
is the scalar lookup; `Near` and `SimdNear` are its acceptance of a candidate, the
latter with the signed comparisons of the AVX2 build. `Adaptation`, `InitialDepth`
and `NextDepth` are the depth `k`. Positions wrap modulo `PosMod` (2^32).

### ElhStream, ElhStreamInv, LosslessStream

An encoder and a decoder, each with an `elh_stream_t`, and the wire in between. The
input is a tape of `N` bytes of which the caller feeds chunks. A call runs through
`pc`: `EncBegin`, then per probe of the search loop `EncHit` or `EncMiss`,
`EncSearchEnd`, `EncEmit` (backward extension, measuring again, the token),
`EncHash` (one insertion of the loop over the match's inside), `EncHashDone`,
`EncLast` (last literals, ring, `curPos`). `DecBegin(c)` starts a decoder call with
`dstCapacity` `c` on the oldest chunk, `DecLits`, `DecMatch`, `DecCopy` (one byte of
a match), `DecReturn`; `Fail` is each of its `return -1`. `ResetEnc` and `ResetDec`
are `elh_stream_reset`; the decoder may be reset where the encoder was, or not at
all. Tokens are records of literals, offset (as the 16-bit field and as the 32-bit
escape) and match length; how many bytes they take is `ElhBound`'s matter.
Reads outside a buffer return the constant `Junk`.

`LosslessStream` is what the codec promises: writes append bytes, a read hands over
the next chunk. `ElhStream` is shown to implement it (`AbstractSpec`). `ElhStreamInv`
holds the inductive invariants of the proofs and the variant `CallLeft`, a bound on the
steps a running call still takes.

### ElhBlock, ElhBlockInv, LosslessBlock

The same for one buffer. It differs from the streaming codec where the code does: a
probe is counted before its result is looked at, evictions from inside a match are
counted, backward extension compares pointers, `calloc` may fail (`EncNoMemory`).
`LosslessBlock` is the contract its callers rely on: a call of `elh_compress` gives a
block or fails for memory, and `elh_decompress` gives the input exactly when its buffer
has room for all of it. `ElhBlock` is shown to implement it (`ContractSpec`), with
`EncLast` (or the early return on an empty input) as `Compress`, and the step with which
the decoder returns as `Decompress`. `ElhBlockInv` holds the invariants of the proofs
and the variant `StepsLeft`.

### ElhBound

Only the output pointer of both encoders, in bytes, with the real constants: a
bound of the size, the check before each part of a token, and an arbitrary choice
of literals and matches. It shows that with the buffer the codec insists on none of
the later `return -1` can be reached, which is why `ElhStream` and `ElhBlock` may
leave the room out. The width of an `int` is a parameter.

### ElhFrame, LosslessFrame

`EncChunk` encodes one chunk with its raw fallback: the block codec either fails
(no memory, or no room left) or gives a payload of any size up to its bound
(`Outcomes`). Between the calls a `Damage` may befall the frame: bad magic, cut
short, bytes added, a chunk lost or repeated, a reserved byte set, a changed raw
size or original size. `DecChunk` makes every check of `elh_frame_decompress` in
order. That a payload decodes to its chunk in a buffer of its size, and in no smaller
one, is the contract `LosslessBlock`; bytes are represented by their index in
the input. The frame's caller gives the decoder a buffer of any capacity, also of
the size the frame records, as the tool and the bindings do. `LosslessFrame` is the
contract of the two functions, which `ElhFrame` is shown to implement (`ContractSpec`):
a frame is made just when the buffer has the size of the bound; what is accepted is the
input and fits its buffer, also after one of these damages; a frame that arrives whole is refused
just for want of room.

### FileTool

Processes of `elh_cli.c`, each with its own command line and program counter
(`Main`, `Open`, `Read`, `Convert`, `Create`, `Write`, `Close`), over files they
share. `Main` parses the arguments into locals; `Convert` is the call of the frame
function with the buffer the tool has allocated; `Create` truncates the output,
which may be the input of another process, or of this one; `Fail` is every path
that ends in `return 1`, and a kill of the process. A file is a sequence of pieces
of what was written into it; `mixed` and `disturbed` record which invocations had one
output open at a time, and whose input was truncated or mixed while they read it.
An invocation is disturbed, too, when it opens what a mixed or a disturbed one wrote.
That is needed: a compression that two others disturb can pack a mix of both, its
output, cut short, can begin with the frame of a file nobody compressed, and a later
decompression that nothing disturbs accepts it. It takes five invocations; of an
output merely cut short `TornIsNoFrame` says that it is refused. What files hold at
the start is arbitrary, and may contain frames: `Data` is what those give
(`DataAssumption`). `Parsed` is the argument loop of `main` as a recursive function
over the words of `argv`.

### IngestStore, BatchLog, IngestProofs

`BeginStore` (the frame verified, its file created), `WriteFrame`, `WriteLine(n)`
(the next pieces of the metadata line become visible), `Reply`; `FailStore` is an
`OSError` anywhere in between, `Crash` a restart on the same directory. `BeginRead`
hands a GET request to a thread, only while the loop is free; `ReadMeta` reads and
parses the file, `LoadFrame` the frame; `Answer` needs the loop again. A line is
three pieces, so that it can be cut inside the object and before its newline.
The file only grows, so what a reader that stops at the end of the file has seen is
the file at that moment: reading is one step. `Entries`, what a listing shows of the
lines read, is a recursive function over them, so that it can be reasoned about.

`BatchLog` is what clients may rely on: a batch is recorded in one step or not at
all, acknowledged only after that, and each fault leaves at most one recorded batch
that its client was not told of. `IngestStore` is shown to implement it
(`AbstractStore`): a batch is recorded once its line is in the file to the newline,
which one step of the appending writes.

### RateLimiter

A request is decided in one step, since the middleware does not await between the
two limiters. `time` is real time, `clock` what `time.time()` says, `SetClock`
makes them differ. `log` records every request and its answer; the properties
count in it. A limiter uses the number and the ages of the timestamps in its list
and nothing else, so it is a set of places in the log. A request refused by the
shared limiter has been counted by the per-IP limiter: the model keeps this.

### Composition

`ElhStream` and `ElhBlock` share `ElhTable`. `ElhBound` discharges what both leave
out. `ElhFrame` uses of a block its contract `LosslessBlock`, which `ElhBlock` is proved
to implement, and that it is no larger than its bound (`WithinBound` of `ElhBound`).
`FileTool` and `IngestStore` use of a frame its contract `LosslessFrame`, which
`ElhFrame` is proved to implement, and that a part of one is refused
(`DamageRejected`).

## 3. The runs

| Run | Question | Instance |
|---|---|---|
| `stream_codec` | types, lossless with retries and resets, offsets, end of block, rings, refinement | every 11-bit tape that begins 0 1 0 1, chunks of 4 and 7 around a ring of 4, six parameter settings, one reset |
| `stream_liveness` | calls return, delivery | 9 bits |
| `block_codec` | types, lossless, end of block, both builds of `elh_get`, the contract, both calls return | every input of 0-5 and 9 bits, half of those of 12 |
| `bound_room` | a buffer of the bound's size is enough, and is kept to when the bound wraps | sizes and lengths on both sides of each threshold of the format |
| `frame_roundtrip` | accepted means equal, modelled damage refused, room, the contract | up to 5 bytes in chunks of 1 to 3, every payload size, one damage |
| `file_tool` | a success is written, a decoded file is what was encoded, torn outputs are no frames, files change only by whole results | 3 invocations, each of either command, on the same or different files, failing or killed anywhere |
| `ingest_store` | ordering, acknowledgements, listings, replays, the abstract record | 3 batches, 1 reader, 2 faults |
| `limiter` | both rates, with a clock that is set back; refusals have a cause | 2 clients, window 2, limits 2 and 3, 7 requests |
| `stream_wrap`, `block_lock`, `ingest_torn`, `ingest_race` | each shows a disagreement (section 6) | |

**Bounds, and why they are enough.** The sizes of the format are scaled down
together, keeping their order: matches of at least 2 bytes for 4, last literals 1
for 5, `MFLimit` 3 or 4 for 13, rings of 4 for 65536 with `DistMax` one less, 2
slots for 4. So a chunk shorter and one longer than the ring, a match that wraps in
the ring, one that runs from history into the chunk, one that overlaps itself, a
bucket that evicts and offsets at the limit all occur in a dozen bytes. The depth `k`
adapts after every probe in `stream_codec`, where it shrinks and grows again within a
call and a slot left stale in between is the candidate taken, and after every second in
`block_codec`, where each of the three adjustments of `NextDepth` occurs. In the stream
all sequences hash to one bucket (`MCHash1`), in a block two share one (`MCTwo`), so
lookups meet collisions; `MCHash2` separates others. Counters have 6 bits (`PosMod` 64;
3 in `stream_wrap`). Two bytes are enough because only equality of bytes matters.
`skipDiv` stands for `2^(acc+2)`: 8 never skips within these lengths, 1 does.
`ElhBound` keeps the sizes of the format; its `int` has 1700 values, so that the bounds
of most sizes fit and that of a stream's 800 bytes wraps. In `ElhFrame` headers take 2
and 1 bytes and a block is at most one byte longer than its input: what matters is that some blocks shrink
and some do not. Three batches let a torn line have stores before and after it and
a listing leave some out; readers do not affect one another, so one is enough (with
two the run takes some minutes and finds nothing else). Three invocations of the
tool let one encode what another has written while a third disturbs either; a third
file that never exists, named like a number, is what the parsing may take for one. The
limiters' limits are such that two clients can reach either first.

Deadlock is not checked where the system stops: the tape is used up, a block or
frame has been decoded, requests or time are used up.

**Fairness.** `FairSpec` of `ElhStream` has weak fairness of the steps of a running
call, since the code is sequential and every step is followed by the next, and
strong fairness of a decoder call with the largest buffer: the code cannot make its
caller read, so delivery is claimed for a caller who keeps trying and who now and
then, as `elh.h` asks, offers enough room. `ElhBlock` has weak fairness of the
running call. Nothing is assumed of resets, smaller buffers, faults or requests.

**Faulty variants.** Definitions marked `FAULTY` are plausible bugs, not part of the
model. `PROJECT.json` lists, for every property, the definition that is replaced by
its faulty variant and the run in which the property then fails.

## 4. The proofs

The theorems hold for all values of the constants that meet the named assumptions
(`TableAssumption`, `StreamAssumption`, `HashAssumption`, `BlockAssumption`,
`BlockHashAssumption`, `BoundAssumption`, `FrameAssumption`, ...), in particular for
those of the code.

* `ElhTableProofs`: `ElhPut` adds one position and no other; `ElhGet` returns an
  entry that was verified, within distance and window; depths stay in range.
* `ElhStreamProofs`, `TypeCorrect`: `Spec => []TypeOK`. Not inductive alone: the
  pointers are bounded by `Shape`, which says where they may stand at each `pc`. Then,
  under the assumption `NoWrap` that the tape is shorter than the range of the counters:
  `InvCorrect`, from it `LosslessCorrect`,
  `FailsOnlyForRoomCorrect`, `WindowCurrentCorrect`, `TableBehindCorrect`.
  `Lossless` speaks of the decoder's output only. To keep it one has to know that
  tokens describe the tape (`GoodWire`), that the decoder's ring is the tape
  (`HistoryCurrent`), that chunks follow one another (`Chain`), and, for resets,
  that no match reaches before the encoder's last one (`GoodToken`, `Counters`). To
  write such tokens the encoder's ring has to be the tape (`WindowCurrent`), table
  entries have to lie behind the search (`TableInv`), and a candidate has to be
  verified (`FoundInv`). `Inv` is the conjunction; the proof has one lemma per
  action and part. `stream_wrap` shows that `NoWrap` is needed.
  On top of it: `EndOfBlockCorrect`, which needs no `NoWrap` (`EndInv` says that the
  last match of a running call began before `MFLimit`, and ends before the last
  literals); `OffsetsInHistoryCorrect`; and `AbstractSpecImplemented`, the refinement
  of `LosslessStream`, in which `EncLast` is a `Write`, `DecReturn` a `Read` and
  every other step a stutter.
  Two more hold without `NoWrap`. `RoomCorrect`: the decoder's output never passes the
  end of its buffer, though the copy loops do not look at it; every token but the last
  of a chunk has a match (`MatchesInv`), so `Len(dout)` and what is left of the match
  stay within what `DecMatch` checked. `CallProgressCorrect`: every step of a call
  lowers `CallLeft`. In the encoder a match leaves `anchor` behind by at least its
  length less its backward extension, and a lap of the outer loop has at most
  `2 * len + 5` steps; in the decoder tokens and room are used up.
* `ElhBoundProofs`: `NeverFailsCorrect`, `WithinBoundCorrect`, for every size; what they
  say of the bound is for the calls whose bound fits an `int` (`BoundFits`), that the
  output stays within the buffer holds of all (`InRoom`). The invariant `PaidInv` says
  that what has been written is at most what the input behind it, each match and each
  escape account for.
* `ElhBlockProofs`: `InvCorrect` (`TypeOK /\ Inv`), `TypeCorrect`, `LosslessCorrect`,
  `FailsOnlyForRoomCorrect`, `EndOfBlockCorrect`, `SimdAgreesCorrect`. The argument
  is that of the stream with the buffer itself for a ring; that positions are below
  half the range of a `U32` makes the signed comparisons of AVX2 agree.
  `ContractImplemented` is the refinement of `LosslessBlock`: that a call which
  succeeds had room for all of the input needs `RoomInv`, that one which fails had not
  is `FailsOnlyForRoom`. `ProgressCorrect`: every step lowers `StepsLeft`, which is
  quadratic in the size of the input.
* `IngestProofs`: `FrameBeforeMetadataCorrect`, `AckedRecordedCorrect`,
  `ReplayIsWholeCorrect`, `NeverMissingCorrect`, for any number of batches, threads
  and faults. `StoreInv` says how far the line of the running store has been written
  (`EndsWith`: its first pieces end the file, the others are still to come; without
  it `Reply` could not be shown to record anything), and of each request that it
  knows of no batch that is not acknowledged and loads only frames that are whole.

  `AbstractStoreImplemented` and `UnackedForFailureCorrect`: the line of a store is
  recorded by one step (`RecordedGrows`), and the batches recorded without an answer
  are counted against the faults. `ReadableWithoutFaultsCorrect`: before the first
  fault the file consists of whole lines, but for what the running store still has
  to write (`LinesInv`), and a file of whole lines parses (`WholeLinesRead`).
  `ListingIsNewestCorrect` and `TypeCorrect`: a listing shows the last entries of the
  file, as many as were asked for or all, and the file has the lines of the
  acknowledged batches in the order in which they were acknowledged.
* `ElhFrameProofs`, for all sizes of inputs, chunks, headers and buffers and any one
  of the modelled damages (section 5): `FrameTypes`, `FrameLossless`, `FrameAccepted`, `FrameDamageRejected`,
  `FrameRecordedSize`, `FrameRoomToTheEnd`, `FrameWithinBound` (the last two as long
  as the bound does not overflow). The invariant knows the layout of the frame
  written so far (`Layout`: chunk after chunk, each the next part of the input), how
  far the decoder has come in it and what it has written by then (`Progress`), and
  that the room still left covers the chunks still to come (`RoomInv`).
  `FrameContract` is the refinement of `LosslessFrame`, under the same condition on the
  bound. `FrameProgress`: every step of a running call lowers `CallLeft`, the bytes still
  to be read or the room still left.
* `RateLimiterProofs`: `TypeCorrect`; `RatesCorrect`, of both limiters,
  when the clock is never set forward (`NeverSetForward`); `RefusedForCauseCorrect`.
  A list of timestamps says nothing of what it dropped. `Remembered` says that what a
  limiter has dropped is a window old, so a window's requests are among those it
  holds, of which there are never more than its limit; `Skew` makes the age it sees at
  most the true one; `Counted` says it holds nothing else, so a full limiter is one
  with a full window.

* `FileToolProofs`: `TypeCorrect`, `SuccessIsWrittenCorrect`, `TornIsNoFrameCorrect`,
  `ChangedByResultCorrect`, `DecodeFaithfulCorrect`, for any number of invocations and
  files. `OwnerInv` says that the invocation that opened a file last has written so far
  the beginning of its result there, as long as no other has the file open, and
  `BeginningIsNoFrame` that no beginning of a frame but the whole is one. Parsing any
  words gives locals the tool can have (`CallsAssumption` says only that `argv` is made
  of words). For `DecodeFaithful` the invariant follows the bytes: what an undisturbed
  invocation has read or written, and what a file holds that no mixed or disturbed one
  wrote last, begins with no frame but that of something compressed or of `Data`
  (`SoundInv`). A compression keeps this since the only frame its result begins with is
  the whole, which gives back what was read; a decompression keeps it since what it gives
is what such a compression has read.

**How induction over data was done.** The induction theorems of the library take an
operator as a parameter, which the provers cannot instantiate. Where a definition is a
recursive function over the naturals (`Entries`, `Parsed`), the least element of the
set of numbers at which a claim fails leads to the contradiction instead.

**Only model-checked:** liveness (`CallsReturn`, `Delivery`, `Terminates`): temporal
reasoning with fairness is out of the prover's reach. The safety half of `CallsReturn`
and `Terminates` is proved, that a call which keeps taking steps cannot take them for
ever (`CallProgressCorrect`, `ProgressCorrect`; for frames `FrameProgress`); that one of
its steps is always enabled is left to TLC (the prover has no `ENABLED`), and so is all
of `Delivery`.

## 5. What is not modelled

Null pointers and negative sizes as arguments (each is one early return before
anything is touched); chunks that no encoder wrote, other than by the damages of
`ElhFrame`, so no changed payloads, chunk flags or exchanged chunks of a frame; bytes of tokens, as opposed to their lengths and fields; the copies of
the parameters in the frame's header, which no function reads; a decoder opened
with other parameters than its encoder; chunks of a stream lost or exchanged on their
way (nothing in the library notices or handles it); several processes of the service on one
directory (the Dockerfile starts one); loss of what the operating system had not
yet written (the store never calls `fsync`); authentication, request parsing and
the numbers in reports. The Python bindings keep no state but the loaded library, and
each is one call with a buffer of the size the library names: that it is enough, and
no larger than makes the decoder strict, is `WithinBound` and `RecordedSizeIsExact` of
`ElhFrame`. The benchmark endpoints and programs time such calls.

## 6. Findings

| Run | What the code does |
|---|---|
| `stream_wrap` | the comparisons with `cstart` and `total_before` go wrong when the 32-bit counters wrap: after 4 GiB decoded bytes can differ |
| `block_lock` | the depth "locked" at 1 adapts again |
| `ingest_torn` | one metadata line cut short makes every batch unreadable |
| `ingest_race` | a GET beside a store can read half a line and fail |

Seen while modelling, without a run: a backward extension makes a position enter its
bucket twice (`elh.c:473-529`), so the slots are not always the k most recent
candidates; the bounds overflow an `int` for inputs near 2 GiB, and the frame's
already for 40 MB in chunks of one byte (`elh.c:161`, `elh_frame.c:70`), hence the
condition `BoundFits` of `ElhBound` and the assumption `NoOverflow` of `ElhFrame`; evictions from inside a match count towards an adaptation
window that counts probes (`elh.c:283`); with the raw fallback disabled a chunk is
still stored raw when `calloc` fails (`elh_frame.c:118`); a clock set forward lets a
client exceed its rate (`app.py:49`), hence `NeverSetForward`; the refusal is
raised inside the middleware, where the exception handler that turns it into a 429
does not run (`app.py:98`); the frame's decoder does
not compare what it wrote with `original_size` when the frame ends, so a larger buffer
accepts a frame whose recorded size was changed (`elh_frame.c:155`, against
`docs/ELH_FRAME_FORMAT.md`), while a buffer of the recorded size, which the tool and
the bindings use, is refused.

## 7. Plan

Done: the library (codec, bounds, blocks, frames), the tool, the store and the
limiters, each with its runs and with proofs of every safety property the runs check.
Left, in order:

1. The output pointer of `ElhBound` tied to the tokens of `ElhBlock`: that the bytes
   `ElhBound` counts are those of the tokens `ElhBlock` makes.
2. A model of several processes of the service on one directory, should it be started so.
