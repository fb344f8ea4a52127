# A verification of the ESP8266 MP3 player

The program plays an internet radio stream on an ESP8266: one task reads the
socket and fills a FIFO in an external SPI RAM, a second one takes the bytes
out again, decodes them with a cut-down libmad and hands the samples to a ring
of DMA buffers that the I2S port empties.  This directory holds TLA+ models of
that program, the TLC configurations that check them, and proofs of the main
results for every size of the buffers.

## 1. Inventory

| Part | Files | State it keeps | Operations |
|---|---|---|---|
| Tasks and start-up | `mp3/user/user_main.c` | `madRunning`, `readBuf`, `bufUnderrunCt`, the connection | `user_init`, `tskconnect`, `tskreader`, `openConn`, `tskmad`, `input` |
| Output of a block, rate control | `mp3/user/user_main.c` 44-198 | `sampErr`, `sampAddDel`, `minFifoFill`, `cnt`, `err`, `i1v`, `i2v`, `outReg`, `oldRate` | `render_sample_block`, `recalcAddDelSamp`, `sampToI2s*`, `set_dac_sample_rate` |
| SPI RAM FIFO | `mp3/user/spiram_fifo.c` | `fifoRpos`, `fifoWpos`, `fifoFill`, two counters, mutex, two binary semaphores | `spiRamFifoInit/Read/Write/Fill/Free/Len`, the counters' getters |
| SPI RAM driver | `mp3/driver/spiram.c` | the chip, the HSPI registers | `spiRamInit/Read/Write/Test` |
| I2S DMA output | `mp3/driver/i2s_freertos.c` | ring of buffers and descriptors, `dmaQueue`, `underrunCnt`, `currDMABuff`, `currDMABuffPos` | `i2sInit`, `slc_isr`, `i2sPushSample`, `i2sSetRate`, `i2sGetUnderrunCnt` |
| MPEG stream and frames | `mp3/mad/stream.c`, `frame.c`, `bit.c` | `bufend`, `skiplen`, `sync`, `freerate`, `this_frame`, `next_frame`, `ptr`, `error` | `mad_stream_*`, `mad_header_decode`, `mad_frame_decode`, `mad_bit_*` |
| Layer III | `mp3/mad/layer3.c`, `huffman.c` | bit reservoir `main_data`, `md_len`, overlap | `mad_layer_III`, side information, scale factors, Huffman data, IMDCT |
| Synthesis | `mp3/mad/synth.c` | `filter`: the vectors of sixteen blocks of two channels, `phase` | `mad_synth_init/mute/frame`, `dct32`, `synth_full`, `scale` |
| Decoder driver | `mp3/mad/decoder.c` | callbacks, `bad_last_frame` | `mad_decoder_run`, `run_sync`, `error_default`; the player has the same loop written out in `tskmad` |
| Timers | `mp3/mad/timer.c` | none | `mad_timer_*`; the player stores the duration of a frame and never reads it |

How they interact: `tskreader` calls `spiRamFifoWrite`; `tskmad` calls
`spiRamFifoFill` and `spiRamFifoRead` from `input`, `mad_frame_decode` from its
loop, and, through `mad_synth_frame` and `render_sample_block`,
`i2sPushSample`.  The FIFO is the only state the two tasks share; the DMA ring
is shared by `tskmad`, the interrupt `slc_isr` and the SLC engine.  The tasks
run under a preemptive FreeRTOS: `tskreader` has priority 11, `tskconnect` 3,
`tskmad` 1.

What is hard: the hand-over of the mutex and the semaphores between the two
tasks; a SPI write that is still under way when the mutex is given back; a ring
that the hardware plays whether or not it was filled; an interrupt that comes
late; the decoder's pointers into a buffer that is moved and refilled under it;
a bit reservoir that spans frames and may be missing after a lost sync; failing
allocations and connections; damaged frames that are replaced by older ones, with
half of every granule and the vectors of sixteen blocks waiting in static
buffers; tables of two thousand entries that no test reads to the end.
`PROJECT.json` lists each of these under
"hazards", with its line and the properties that cover it.

What each part must get right:

* FIFO: bytes come out in the order they went in, whatever chunks, wraps and
  late transfers; the SPI engine has one user at a time; no wake-up is lost and
  no call waits for ever.
* DMA output: samples are heard in order, each once, unless the decoder was
  late; an empty buffer is queued once and in ring order; an underrun is counted
  only when there was one.
* Tasks: one decoder, no leaked socket, no byte lost between FIFO and libmad,
  silence instead of a standstill, and time for the low-priority decoder.
* Stream and frames: never off the track of the frames once on it, never a byte
  read behind the buffer, no clean frame missed, no endless loop.
* Bit reservoir: each frame is decoded from the bytes it was encoded in, and
  main_data never overflows.  The first holds; the second does for all frames
  with a bit rate from the tables, but not for free format (section 7).
* Layer III: every bit is read once, from its own channel's data, within the
  cache and the guard; every bit pattern has one meaning; no walk along the bands
  leaves its table.  Whether the tables of bands are the right ones is not asked.
* Decoder loop and synthesis: what is heard overlaps what was heard before it, a
  damaged frame is repeated at most once, and each vector of the filterbank is
  weighed for its age.
* Rate control: the correction opposes the deviation of the FIFO's fill, and the
  remainder of added and dropped samples stays bounded; the clock the dividers
  give is near enough to the rate for it.

## 2. Plan

In this order, most important first:

| | Modules | What | State |
|---|---|---|---|
| 1 | `ByteChannel`, `SpiRam`, `SpiRamFifo`, `MCSpiRamFifo`, `SpiRamFifoProofs` | the FIFO between the tasks; `ByteChannel` is what it promises, `SpiRamFifo` is shown to implement it | done |
| 2 | `I2sDma`, `I2sDmaProofs` | DMA ring, interrupt, `i2sPushSample` | done |
| 3 | `Player`, `PlayerProofs` | the tasks, composed over `ByteChannel` | done |
| 4 | `MadReservoir`, `MadReservoirProofs` | the bit reservoir | done |
| 5 | `MadStream`, `MCMadStream`, `MadStreamProofs` | finding and following frames | done |
| 6 | `RateControl`, `RateControlProofs` | `recalcAddDelSamp` and `render_sample_block`: the remainder is bounded, the loop opposes deviations | done |
| 7 | `MadBit`, `MadMainData`, `MCMadMainData`, `MadMainDataProofs` | bit pointers; where `III_decode` reads, in bits, and how far ahead | done |
| 8 | `MadSynth`, `MadDecoder`, `MCMadDecoder`, `MadDecoderProofs` | the decoder loops with the overlap and the synthesis; `MadSynth` is what the loop implements as far as the filterbank sees it | done |
| 9 | `MadFrameLength` | the frame length from the header with the real numbers, against READBUFSZ, and the exactness of `free_bitrate` | done |
| 10 | `MadHuffman`, `MadBands` | the Huffman tables and the tables of scale factor bands, and all that walks along them | done |
| 11 | `SampleOut`, `I2sRate`, `MCRateControl` | mixing and the three sample formats; the search for clock dividers, together with the rate control | done |
| 12 | `MadTimer` | arithmetic of `mad_timer_*`, whose result the player never reads | left out |

Abstract specifications: `ByteChannel` for the FIFO, which `SpiRamFifo` is proved
to implement and `Player` uses; `MadSynth` for the filterbank, which the decoder
loop is proved to implement.

## 3. The models

**`SpiRam`** (`driver/spiram.c`) is the chip `ram` and the write under way,
`spi`.  `SpiRamWrite` returns before its bytes are in the chip, `SpiTransferEnd`
puts them there; `spiRamRead` waits.  `SpiRamReadStores` is the set of offsets
the copy loop of `spiRamRead` stores to.

**`SpiRamFifo`** (`user/spiram_fifo.c`) has the file statics under their own
names and a program counter per task.  A step of `ReadTake`, `ReadEmpty`,
`ReadMark`, `ReadWait`, `ReadSpi`, `ReadTransfer`, `ReadUnlock`, `ReadSignal`
(and the `Write...` steps likewise) is what the task does between two points
where the other can see a difference: taking and giving the mutex, giving and
taking a semaphore, programming the SPI engine.  `ReadMark` reads `fifoFill`
without the mutex, as line 76 does.  `FillTake`/`FillGive` and
`FreeTake`/`FreeGive` are `spiRamFifoFill` and `spiRamFifoFree`; after the first,
a reader asks for no more than the answer, as `input()` does.  A byte is its
place in the stream modulo `Names`; `Junk` is what is in the chip or a register
without having been written, `Old` what the caller's buffer held before.

**`I2sDma`** (`driver/i2s_freertos.c`): `DmaWord` and `DmaEof` are the engine,
`slc_isr` the interrupt routine, `PushSample`, `PushReceive`, `PushStore` the
parts of `i2sPushSample`.  `fresh` and `late` record whether the engine came to
a buffer that had not been rewritten; `heard` and `garbled` what came out.  An
interrupt may come so late that the engine has ended the next buffer as well and
one goes uncounted: `missed` counts those.  Within `slc_isr` clearing the status
(line 82) and reading the descriptor (85) are one step: the engine, which spends
more than a millisecond on a buffer, is taken not to end one between two reads of
registers that follow each other.

**`Player`** (`user/user_main.c`) is the composition: `tskconnect` (`conPc`),
`tskreader` (`rdPc`) and `tskmad` (`madPc`) around a `ByteChannel`.  A byte
moves by `Write`/`Read` in pieces of any size, as the FIFO moves it.  Priorities
are in `ReaderBlocked`: `tskmad` steps only while `tskreader` waits for the
network, for the clock or for room in the FIFO.  The state in which
`tskreader` looks up a name counts as running, although `gethostbyname` waits as
well: that gives the decoder less time than it has, so the liveness results do
not depend on it.  Decoding is an advance of `next_frame` by any number of
bytes; at any fill of `readBuf`, a full one included, `DecodeBuflen` may ask for
more, and `input()`, which then has no room to read into, hands the same bytes
over again.  The model is of the build with the SPI RAM; one with
`FAKE_SPI_BUFF` has a FIFO of 1850 bytes, less than `readBuf`, and is left out: the
first refill of its decoder would already count underruns.

**`MadStream`** (`mad/stream.c`, `mad/frame.c`): the buffer is a sequence of
bytes of which only is kept whether a sync word starts there and what
`decode_header` makes of it: nothing, an error, a frame of that length, a frame
of another layer, a frame without a bit rate.  The actions are the exits of
`mad_header_decode`: `SyncLost`, `SearchFails`, `HeaderBad`, `RateUnknown`,
`FrameBuflen` are its `goto fail`, `Bogus` its `goto sync`, `Accept` its
`return 0`.  Its first exit, fewer than `MAD_BUFFER_GUARD` bytes where a frame is
due, is not an action: `GuardHolds` shows that it is never taken.  `Layer` is
the call through `decoder_table`.  `Shift`, `Fill`, `Buffer` are `input()` and
`mad_stream_buffer`.  A padded frame is a frame of another length; the skip of
`mad_stream_skip` is left out since nothing calls it.  A header of kind
`LongLayer` has a frame that `readBuf` cannot hold: `Stands` is the state in which
`tskmad` then calls `input()` and the decoder in turn for ever.

**`MadFrameLength`** (`mad/frame.c`) is the arithmetic that `MadStream` abstracts
from: `decode_header` on the eleven bits that decide, with its four refusals and
both tables, `FrameLength`, and `free_bitrate`.  `TooLong` are the headers whose
frame does not fit in `readBuf`, `Inexact` those whose rate is not found again.

**`MadReservoir`** (`mad/layer3.c`, `mad_layer_III`): a byte of main data is its
place in the stream of main data areas.  `Frame` is a whole call for a frame
with an area of `frame_space` bytes, followed by one that points back `nb`;
`sound` says whether check sum and side information were right.  `gap` is the
place up to which the stream was received without a hole.  `Overflow` is the call
for a frame that does not fit behind the old tail; what is overwritten then
depends on the build, so the model stops there, and all that is said of other
frames is said of runs up to that point.  While translating it
two things were seen in the code: the clip of `extra` (2687) never changes the
result and `md_len = 0` (2697) is never reached.

**`RateControl`** (`user/user_main.c`): `BeginBlock` is `render_sample_block` up
to its loop with the call of `recalcAddDelSamp`, whose returns are `Keep`,
`RecalcSmall` and `RecalcLarge`; `LeaveOut`, `SendTwice`, `SendOnce` are one
turn of the loop.  The FIFO answers any fill each time it is asked, so the
results hold for every network and every clock.  The FIFO's underrun counter is
left out, as it is 0: it counts reads of more bytes than the FIFO holds
(spiram_fifo.c:71-74), and `input()`, the only reader, asks for no more than
`spiRamFifoFill` said (`SilenceNotStandstill`).  The branch of `recalcAddDelSamp` on
underruns is therefore never taken.  `measured` is a history variable.

**`I2sRate`** (`i2sSetRate`, `set_dac_sample_rate`): the three nested loops over
the dividers as the first of the best `Setting`s, for both values of
`ALLOW_VARY_SAMPLE_BITS`, with whatever the uninitialised variables hold when no
setting is better than 0 Hz; and the register they are written to, `i2sconf`.
`MCRateControl` puts it beside the rate control.

**`SampleOut`** (`mad/synth.c`, `user/user_main.c`): `scale`, the sum of two
channels in a short, and `sampToI2s`, `sampToI2sPwm`, `sampToI2sDeltaSigma` as
operators.  Of the words of `fakePwm` only the eleven bits are kept that the next
error is taken from.

**`MadBit`** (`mad/bit.c`) has the four operations that move or compare bit
pointers, on a byte and the number of its bits still to be read.  The bits are
left out.  `left` may be 0, which `mad_bit_skip` leaves behind: the place is the
same as bit 8 of the next byte.

**`MadMainData`** (`mad/layer3.c`, `III_decode`): `SideInfoOK` is what
`III_sideinfo` lets pass, `Part2And3` the scale factors and the head of
`III_huffdecode`.  Each turn of its first loop is `Pair` (the refill), `Hcod`
(the code word), `ValueX`, `ValueY` (linbits and signs, with the refills of
escapes); of its second, `Quad` and `Qcod`.  `PairsEnd` and `QuadsEnd` are the
two checks for an overrun, `NextChannel` the loops of `III_decode`.  A code word
has any length a table may have and stands for any values, so that every stream
of bits is covered, damaged ones too.  `cachesz` and `bits_left` are the
variables of that name; `xr` counts the lines written.  Block types 0, 1 and 3
are one kind, since only short blocks (2) have other scale factors.

**`MadHuffman`** (`mad/huffman.c`): the tables themselves, entry by entry;
`Words` reads everything the lookup of `III_huffdecode` can reach in one, as
values, length and bits.  `IsCode` and `AreAllPairs` say what a code must be.

**`MadBands`** (`mad/layer3.c`): `sfbwidth_table` and all that walks along it:
`III_exponents`, the scale factors, the regions of `III_huffdecode`,
`III_reorder`, the limit of the subbands in `III_decode` and the bands that
`III_stereo` takes for intensity stereo.  The bands are positions; the numbers in
the lines are left out.  Everything is measured by the tables themselves: that the
walks agree with them and lose no line.  The source doubts the tables for short and
mixed blocks at 8000 Hz ("this is probably wrong", layer3.c:294-295, 846, 1290); the
model has them as they are and does not decide whether the doubt is justified.

**`MadSynth`** (`mad/synth.c`): a vector of `dct32` is the number of its block.
`SynthBlock` is one turn of the loop over blocks: the vectors of the channels
stored at the place for `phase`, the window read at `Tap` and, for the mirrored
samples, at `Mirror`, then `phase` turned.  `mad_synth_init` starts afresh.

**`MadDecoder`** (`mad/decoder.c`, `tskmad`, `frame.c`, `layer3.c`): `run_sync`
with any set of callbacks and every answer they may give, and the same loop in
`tskmad`, `loop` telling which.  A granule is a number; `Decode` leaves the
granule, and what waited in the overlap buffer, in `sbsample` and keeps its second
half; a frame may fail before its first granule (`LayerFailed`) or after it
(`LayerFailedLate`).  `error_default` repeats or mutes.  With a `header_func` the
test of `mad_header_decode` is the wrong way round (decoder.c:382); `HeaderRead` and
`HeaderFailed` follow the code.  `attached` is the overlap pointer, which
`mad_frame_init` clears without clearing the static buffer.

## 4. The runs

| Run | Instance | What it shows |
|---|---|---|
| `fifo` | 5 bytes, transfers of 2, calls of up to 3 | order, exclusion, wake-ups, every call returns, and `IsChannel`: the FIFO implements `ByteChannel` |
| `fifo_overread` | registers of 4 bytes | *violation*: one byte too many is stored |
| `i2s_ring` | 3 buffers of 2 words; one interrupt may be missed | order of the samples, the queue as trail, underruns, a push returns |
| `i2s_shared` | 3 buffers of 2 words | *violation*: a late decoder writes in the buffer that is being sent |
| `player` | FIFO 6, buffer 3, pieces of 2; creations and allocations may fail | sockets, bytes, silence, quiet start; the decoder is not starved unless `socket()` fails for ever; with a server that serves, and the memory to start, music plays |
| `reservoir` | begin up to 3, area up to 4, main_data 6, stream 7 | frames are decoded from their data, and refused only if it is not there; one that leaves room for what may be carried over fits |
| `reservoir_overflow` | the same | *violation*: a frame of an area of 4 does not fit behind the 3 bytes carried over |
| `stream` | buffer 7, guard 3, three servers; all headers of `MadFrameLength` | guard, lock, no clean frame missed, no endless loop but for a frame longer than the buffer; and which headers have one |
| `stream_found` | the same | *violation*: after a loss of sync a false header, kept over a refill, is accepted unconfirmed |
| `rate` | a FIFO of 3 bytes that counts as small and one of 8; blocks of 3; all nine sample rates and both builds of `i2sSetRate` | with the large FIFO: the account is settled after every block, the correction opposes the deviation, none is too small; the dividers leave it at most a thirty-second of the FIFO to correct |
| `main_data` | granules of 8 lines; scale factors of 0 and of the most bits; code words of 1, 10 and 19 bits; linbits 0 and 13; the real tables | the cache and the guard bytes suffice, channels begin where they should; every Huffman table is a complete code that fits the cache; the walks along the bands of all nine rates agree with their table and end with it; intensity stereo begins above the right channel |
| `decoder` | granules of 18 blocks; mono frames of two granules and stereo frames of one; three frames, two runs; all answers of the callbacks | what is heard overlaps what was heard before, no frame is heard more than twice, the filterbank weighs every block for its age |

The type invariants are proved for all constants, in the proof modules, except
that of the tables, which have no state.  `RingShape`, `ReadDelivers`,
`OneDecoder` and `SharedAreLong` are lemmas of the proofs and in no run.

Why the bounds are enough.  The FIFO of five bytes is not a multiple of the
transfer size, so that a chunk ends at the end of the chip, of the transfer and
of the call in every combination, and a call of three needs up to three chunks;
the marks of `semCanRead` depend only on comparisons with `fifoFill`, which
takes every value.  Three DMA buffers are the least for which the queue holds
more than one; with two words a buffer can be partly filled when the engine
arrives.  In `MadStream` seven bytes hold a frame, the header of the next and the
guard, and every offset of the buffer's end in a frame occurs; junk of up to
eight bytes is more than a buffer full.  In `MadReservoir` a frame can need
bytes of three frames before it (areas of one byte, begin three), the stream is
long enough for a loss and a recovery, and areas of up to three bytes leave room
for all that may be carried over while those of four do not.  In `MadMainData` three pairs and two
quadruples are enough for a refill of every kind, from every remainder of the
cache that the lengths lead to.  In `MadDecoder` three frames are enough for a
good frame, one that repeats it and one after that, and for a run that finds the
overlap of another; eighteen blocks are those of the code, and more than the
sixteen the filterbank looks back to.  The tables, the headers and the sample rates
are those of the code, all of them.  For the FIFO, the DMA ring, the tasks, the
stream, the reservoir, the rate control, the main data and the filterbank the
proofs below cover all sizes.

Bounds that stand for unbounded numbers: `MaxLen` (bytes of a FIFO call),
`Names` (byte and sample names; more than can be in transit, so that a wrong
byte is never mistaken), `CounterMod` and `MaxUnderrun` (counters that only
count), `StreamLen` (length of the stream), `MaxJunk`, `Silence` (882 samples of
silence), `MaxAddDel` (the correction for a small FIFO, which has no bound in the
code), `MaxMissed` (interrupts missed), `MaxFrames` and `MaxRuns` (frames and runs
of the decoder loop).  `CHECK_DEADLOCK FALSE` is set where the system may stop: `Player`
when a task cannot be created or the RAM is broken, `MadReservoir` at the end of
the stream and behind an overflow, `RateControl` when a small FIFO has reached `MaxAddDel`, `MadStream` after
the call of a decoder that is not there, `MadMainData` when a frame is decoded, `MadDecoder` when the loop has
returned or has called the decoder of layer I or II.

## 5. Fairness

* `SpiRamFifo!Fairness`: both tasks run (`WF` of `ReadStep` and of `WriteCall`);
  the engine ends its transfers.  `SF` of `WriteStep`: the mutex is free again
  and again, not always, and FreeRTOS gives it to the waiting task of the higher
  priority, which is `tskreader`.  `SF` of `ReadCall`: `tskmad` may ask for the
  fill any number of times but then reads.
* `I2sDma!FairSpec`: the engine never stops, the interrupt is taken, a push that
  can go on does.  Nothing is assumed of how often samples are pushed.
* `Player!FairSpec`: tasks that can run do; `SF` of `MadStep`, because the
  decoder is interrupted by the reader but not for ever while the reader
  repeatedly waits.  No more is assumed of the tasks; what the two properties
  need besides are hypotheses they state themselves.  `Understands` says that the
  decoder takes something from its buffer now and then.  `MadStream` shows that it
  does (`Advances`), but for a header whose frame `readBuf` cannot hold: there it
  stands, the FIFO fills and the reader waits for ever.  `Served`, the other
  hypothesis of `MusicPlays`, says that there are sockets and that the server is
  found, accepts connections and sends again and again; besides, nothing may be
  `Broken`: the RAM answers and the two tasks could be created.
  `EveryByteIsTaken` needs none of that, but has an exception, `Spins`: a failing
  `socket()` is retried at once and without a pause at priority 11, and if it
  fails for ever `tskmad` never runs again.
* `MadStream!FairSpec`: `tskmad` runs and the server sends.
* `MCRateControl!MCSpec`: blocks of samples are rendered again and again.

## 6. The proofs

`SpiRamFifoProofs`: `IInv == TypeOK /\ Control /\ Data`.  `Control` ties the
program counters to the mutex, the semaphores, the SPI engine and the lengths:
who holds the mutex, that a waiting task's shortage was real and that a missing
wake-up is owed.  `Data` is the ring: shape, order, what was delivered.  None of
the safety properties is inductive alone: order needs that a transfer fits, which
needs the fill not to have changed since it was compared, which needs the mutex.
Steps that move no bytes (`ControlStep`) are separated from the two that do.
Assumed: `SPIRAMSIZE >= 2 * SPIREADSIZE` (128 KiB, or 1850 bytes, against 64),
from which the tasks are never both asleep, and that there are more names than
bytes in transit.

The second half proves `FifoImplementsChannel`: `SpiRamFifo` implements
`ByteChannel` under the mapping of `MCSpiRamFifo`.  `PipeHolds` says that the
mapped pipe is the next `fifoFill` bytes of the stream, `OutHolds` that what the
reader was given is the run of bytes before them; from these a transfer of the
reader is a `Take`, one of the writer a `Put`, the start of a call a `Request`,
and every other step a stutter (`QuietStepsStutter`).

`OverrunIsBounded` says how bad the first finding of section 7 is.
`ReadStoresOneMore` computes the set of offsets that `spiRamRead` stores to, for
every length and every width of the registers; the byte too many of one transfer
is overwritten by the next one of the same call, so that behind a whole call one
byte at most is changed.

`I2sDmaProofs`: `IInv` adds `Timely` (while no interrupt was missed the pending one
is for the buffer just behind the engine) and `OnTime` (unless the decoder was
late, the buffers on the queue were not rewritten, the one being played was, and
the one in hand is neither).  Interrupts may be as late as they like.  That a full
queue is only met by a late decoder (`FullIsLate`) is a pigeonhole argument: the
buffers of a full queue, the one in hand and the one played would be one more than
there are.  `HeardInOrder` needs more, `HInv`: starting at the word the engine sends,
and going round the ring through rewritten buffers, the words follow each other
(`Chained`); behind the last of them is what the decoder fills now (`Filling`), and
buffers not rewritten hold words that are heard no more unless it is late
(`Stale`); `Seam` is the place where the two meet.  Only then is the next word the
engine takes the successor of the last.

The last part is about waiting.  `OnTime` says that what is on the queue is empty;
`NoneForgotten` is the converse, for as long as no interrupt was missed (a buffer
whose interrupt was missed is on no list until the engine comes round again).
Together they are `EmptiesAccountedFor`, from which `i2sPushSample` blocks only when
the ring is full (`BlocksOnlyWhenFull`).  Under all circumstances it waits for the
rest of one buffer and one interrupt (`WaitIsShort`).

`MadReservoirProofs`: `IInv` says that the tail is the stream just before the
next frame (`TailIsStream`), is long enough (`TailIsEnough`) and not too long
(`CarriesOver`).  `Split` is the case distinction of the preload, `KeptTail` what
is kept of an old tail, `FrameDecodes` and `FrameKeepsTail` the two halves of a
frame.  Assumed: main_data holds the longest area and the farthest begin, each by
itself (2567 against 2106 and 511).  Nothing is assumed of their sum: `JoinFits` is
about the frames whose area leaves room for 511 bytes, and `LengthsAreRight` shows by
the tables that every frame with a bit rate is one of these (`NoneIsOverMainData`).  A
frame in free format need not be; the other results hold beside such frames, as long
as none came that did not fit.

`MadStreamProofs`: `IInv == TypeOK /\ GuardHolds /\ Places /\ Sent /\ Framed /\
Follows /\ Kept`.  `Framed` is the shape of what the network sends, as far as it is
in the buffer: between the start of a frame and its end there is no other start,
and at its end there is one, or it is still to come.  `Follows` says that a
decoder on the track stands at a start, or will go on from one, and knows the
free rate; `Kept` that no frame was passed over.  `LockKept` and `NoFrameMissed`
are not inductive without the shape.  Filling and emptying the buffer (`FillOK`,
`ShiftOK`) must keep the shape; for all other steps `Steadily` leaves the pointers.
That a failed search passes over no frame uses that a set of naturals has a least
element (`Least`).

Two theorems are the safety half of `Advances`.  `StepsToInput` counts what is left
to do in the present buffer, and every step but the call of `input()` lowers it
(`SearchIsBounded`); when `input()` is called there is room for new bytes, or the
decoder stands before a frame that cannot fit (`InputIsOfUse`).  The second needs
an invariant of its own, `Progress`: the buffer is full whenever it is searched, a
free rate that was found leaves room for the guard, and a header that was taken has
a frame of a byte at least.

`LengthsAreRight` is about the numbers themselves, READBUFSZ and the tables of
`frame.c`, without going through the headers one by one.  A frame is the longer the
higher its bit rate and the lower its sample rate (`LengthIsBounded`), so that the
highest rate of each row decides (`FewAreTooLong`).  `free_bitrate` divides twice where
`decode_header` has divided once; what is cut off is less than the slot it adds
before, and with it still less than one kbit/s (`NoneIsInexact`).

Assumed for the stream: the guard is at least two bytes, every frame the
server sends fits in the buffer with the guard, and a server sends free format
always or never.

`PlayerProofs`: `IInv == TypeOK /\ SocketsClosed /\ Started /\ Tasks /\ Reading /\
Filled /\ Places`.  `Places` says which piece of the stream is in the FIFO, in the
hands of `spiRamFifoRead` and in `readBuf`; the `Piece...` lemmas take pieces apart
and put them together, over names modulo `Names`.  `Filled` says that
`spiRamFifoFill` can only have grown since `input()` asked, so that silence is played
instead of a wait.  Assumed: the FIFO holds at least two buffers, and more names
than bytes in transit.  The quiet start rests on the first, which a build with
`FAKE_SPI_BUFF` does not meet.

`Player` has the FIFO as an instance of `ByteChannel`, and `SpiRamFifo` implements
`ByteChannel`; `UsesTheChannel` closes the gap between the two: all that the tasks do
to the FIFO are steps of that specification, with its guards, and
`ChannelKeepsOrder` is what it promises to any user.  `WriterNeverWaitsAlone` is about
start-up: `tskmad`, the only one to make room in the FIFO, is started by `tskreader`,
which must not wait for room before.  Its invariant `RoomAhead` says that without
a decoder half of the FIFO is free whenever a new buffer is read from the network.

`MadDecoderProofs`: the filterbank in general (`FilterbankMeetsAge`): the vector of
block b stands at the place for `(b - 1) % 16` for as long as it is looked at
(`BlockStores`), and `Tap` of a place is the age of what is there (`TapIsAge`), for
every phase.  `DecoderSynthesises` is the refinement of the decoder loop to
`MadSynth`, and `DecoderMeetsAge` follows from the two.

The second half is about what is heard.  `Continuous` relates a granule to the one
heard last, between which there may be any number of frames that failed, were
skipped, repeated or muted; its invariant says where the granule is meanwhile.
Between two frames the second half of the last granule heard waits in the overlap
buffer (`Kept`), which is also the last granule of the frame at hand (`Waits`), so
that repeating or muting that frame finds it there.  After a frame was decoded its
granules are joined to each other and its last one to the buffer (`Joined`), and
its first one to what was heard (`Follows`), until its blocks are reached
(`HeardLast`).  All but `Joined` and `HeardLast` are for runs of one format that began with a
clear buffer, as `Continuous` is.  `RepeatedOnce` needs to know when a granule may
have been heard already: `Plays` allows it once more if the last frame was bad
(`badLast`) and once more when its blocks were reached, and `Outside` that there is
only silence where the format has no granule, or a granule could come back later.

`RateControlProofs`: `IInv == TypeOK /\ Asked /\ Account`.  `Asked` bounds what a
block may add to the account by the samples of a block and ties its sign to the
last measurement; `Account` says that after `i` samples at most
`One + (NoSamples - i) * One` is left and that more than `One` has the sign of the
last measurement.  The results alone are not inductive: that the account is
settled after a block needs the bound within it.  Assumed: the length of a FIFO
times `ADD_DEL_BUFFPERSAMP` is at most the samples of a block (131 072 000
against 268 435 456 for blocks of 16).  The same module proves what `SampleOut`
says of single samples: two channels always fit the short they are added up in
(`MixFits`), louder stays louder (`ScaleIsMonotone`), the PWM table is never indexed
outside (`PwmStaysInTable`), and two facts about the converters that section 7
comes back to.

`SmallDeviationsAddUp` is the safety half of `EveryDeviationCounts`: a large FIFO asks for
a correction in proportion to its deviation (`Proportional`), so that even the
smallest one moves the account in every block, and nothing but a sample left out or
sent twice moves it back; `NothingPilesUp` keeps it between one sample less and one
more.

Its last part is the clock.  The search of `i2sSetRate` goes over some
thousands of settings for each rate; the proof does not.  There is a best setting and a first of the best,
since sets of naturals have least elements (`FirstOf`), and what the search finds is
at least as near to the rate as any setting one can name (`BestIsClosest`); for each
of the nine rates one is named that is near enough (`SomeAreClose`).  The invariant
(`Clocked`) says that the register holds the fields of what was found, which needs
that they were cleared before they were set.  `ClockIsApart` is the step from `RateControl` to
`MCRateControl`: the clock disturbs no result on the rate control.

`MadMainDataProofs`: `IInv == Cached /\ Counted /\ Placed /\ Forms`.  `Cached`
says for each place of `III_huffdecode` how many bits are in the cache and how
far it was read ahead: a code word starts with a bit of part 3 left and is
preceded by one refill (at most 30 bits behind the end), two escapes follow (16
each), 62 in all against the 64 of the guard.  The bound on the loops alone is
not inductive.  `Counted` does the same for the lines, `Placed` for the pointer,
from `ReadMoves`, `SkipMoves` and `LengthIsDistance` on bit pointers.  Assumed:
tables with code words of at most 19 bits and linbits of at most 13, as in
`huffman.c`, and the ranges of the side information's fields.

`DecodingIsBounded` is the termination of `III_decode`: `StepsLeft` puts the channels
still to come before what is left of the present one (`Rest`: four steps for each
pair, two for each quadruple), and every step lowers it.

The second half is about the bands, in two layers.  Below are the tables: `Edged`
says that bands have even widths and end at the edges `p`, from 0 to 576, `Threes`
that the short ones come by threes of equal width, and `LongTables`, `ShortTables`,
`MixedTables` give the edges of every table as a witness (`Fits`), which the
SMT solver only has to add up.  Above them are the walks, for any table that fits: `LinesOf` is an
edge (`LinesAreEdges`), what `sw` counts for a window is a third of the lines between
(`ThreesAre`), so that `III_exponents` ends with the table (`ExponentsEnd`), the walk in
front of a mixed block with the long bands (`LowBandsAre`), and `III_reorder` puts lines
where the table says (`ShortDivides`).  `LinesOf` and `sw` are recursive functions; that
they are what the edges say is shown for the least band where they would differ.
`StereoBands` says which bands are left to intensity stereo for every set of bands that
are not zero, where the run tries all pairs of bands.

Only model-checked: liveness (`CallsReturn`, `PushReturns`, `EveryByteIsTaken`,
`MusicPlays`, `Advances`, `EveryDeviationCounts`), which is out of the prover's
reach.  Where it rests on something that only ever gets less, that is proved
(`WaitIsShort`, `SearchIsBounded` with `InputIsOfUse`, `SmallDeviationsAddUp`), and what is
left to TLC is that fairness makes the steps happen; `CallsReturn`, `EveryByteIsTaken`
and `MusicPlays` go through semaphores and other tasks' steps, of which the proofs
have that no wake-up is lost and not everyone waits (`WakeupsAreNotLost`,
`TasksNeverBothAsleep`, `WriterNeverWaitsAlone`).  The other one is `HuffmanDecides`,
where TLC reads every entry of the Huffman tables: the code words are what a
recursive walk makes of two thousand numbers.  That such a walk has a value at all
would take an induction over data, which no prover here can do, and no lemma
shortens the tables.  Of it, that the cache holds the longest word is proved in the
form `CacheIsEnough`, from the lengths that `MainDataAssumption` allows.
None of the modules that are proved about has a recursive operator: the modules
of proofs reach recursive functions only.

## 7. Findings

* `spiRamRead` stores byte j of a register when `len>=j` instead of `len>j`: one
  byte after the destination is overwritten whenever the length is not a
  multiple of four (`fifo_overread`); never more than one (`OverrunIsBounded`).
* The queue of empty buffers was made one shorter than the ring so that the
  decoder never writes in the buffer being sent; it can, in the buffer it already
  holds (`i2s_shared`).
* `mad_stream_buffer` sets `sync`, "stream sync found", on every refill, the first
  included.  So a candidate header that a search found after a loss, and that was
  kept for the next buffer because its frame reaches past the end of this one, is
  accepted there without the header behind it that the search asks for
  (`stream_found`).  When it was a false one, the decoder loses sync at its end
  and searches again.
* `assert(stream->md_len + md_len - si.main_data_begin <= MAD_BUFFER_MDLEN)`
  (layer3.c:2639, compiled out) need not hold: main_data has room for 511 bytes
  carried over and 2056 more, but a frame in free format may be as long as
  `readBuf`.  At 32 kHz and 464 kbit/s a mono frame has 2088 bytes, of which 2067
  are main data (`reservoir_overflow`).

Seen while modelling, without a run of their own:

* "2106 bytes should be enough for up to 48KHz mp3s" (user_main.c:40).  `LengthsHold`
  confirms it for every header of layer III with a tabulated rate.  A search may
  also fall for what looks like a header of layer II; at 8 kHz, with 128 kbit/s or
  more, that asks for 2304 bytes and more.  `mad_header_decode` then answers
  `MAD_ERROR_BUFLEN` and `input()` has no room to read into: the player stands still
  (`Stands` in `MadStream`; `Advances` holds but for that).
* With a `header_func`, `run_sync` takes a header that was read for an error and shows
  one that was not to the callback (decoder.c:382).  The player gives none.
* `mad_frame_init` does not clear the static overlap buffer, so the first granule
  of a second run overlaps the last of the first (`Continuous` leaves this case out
  by `clean`).
* "This waits for about 200mS" (user_main.c:217): 882 samples last 20 ms at 44.1 kHz.
* What `sampToI2sPwm` carries over is taken from the word it sends, not from the
  sample (user_main.c:77): after any word but the lowest it takes off more than half
  a step (theorem `PwmTakesOffHalfStep`).
* The feedback of `sampToI2sDeltaSigma` is 32767 in both directions and cannot oppose a
  sample of -32768 (theorem `FeedbackOpposes`).
* `prevUdr` in `recalcAddDelSamp` is to hold the underruns of earlier cycles but is
  not static (user_main.c:109).  It has no effect, since the counter it is compared
  with stays 0.
* `i2sSetRate` prints the variables of its loops after the loops, not the dividers it
  chose.

## 8. Not modelled

Of bits and side information only positions, lengths and the fields that decide
how much is read are modelled; the values, the cache byte of a bit pointer and
`mad_bit_crc` are not.  The signal processing (requantisation, stereo, alias
reduction, IMDCT, `dct32`, the sums of the window) is numerical code with nothing to
interleave; what is modelled of it is which data meets which.  `synth_half` is not
asked for by the player.  `MadDecoder`'s claims on the overlap are for streams of one
format.  The asynchronous mode of `decoder.c` is compiled out.  `timer.c` computes
durations that nothing reads.  Layers I and II are not built.
`gpio.c` and `uart.c` are SDK drivers of which the player uses one call.
FreeRTOS, lwIP and the SDK are vendored or binary and appear by what the player
relies on: FIFO queues, binary semaphores, a mutex, priorities, socket calls.
HTTP is left out: the player sends a request and does not read the headers.
The register set-up of `i2sInit` and `spiRamInit` is not modelled.

By far the most lines of the repository are not the player's: headers of the SDK,
lwIP, FreeRTOS, TLS and JSON under `include/` and `extra_include/`.  Of the rest
nearly half are tables: the Huffman tables and the tables of bands are in the
models, those of `rq_table`, the window and the sines are numbers for the signal
processing.
