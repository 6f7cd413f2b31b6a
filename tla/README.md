# Verification of the Smart Sound System

The repository holds a Bluetooth loudspeaker: firmware for an ESP32 that receives an A2DP
stream, equalizes it, splits it into a low and a high channel and plays it through an ES8388
codec (`ESP32/ESP_smartsound_final`), and a touch-screen GUI that drives the listener's
Spotify player (`GUI/`). This directory holds TLA+ models of it, the TLC configurations that
check them and TLAPS proofs about them.

C++ paths without a directory are in `src/ESP32/ESP_smartsound_final/`, Python paths in
`src/GUI/Smartsoundsystem/`. The other `ESP_*` directories hold the six earlier versions of the
same firmware (`ESP_prototype_v1` to `v3`, `ESP_smartsound_v1` to `v3`); `AudioTest` is the bench
program the crossover was tried out with. The models cover the versions where they differ: the
order of start-up, the codec's register writes, the callbacks, the sizes of the chain, the filters.

## 1. Inventory

### Firmware

| part | state | operations |
|---|---|---|
| `Ringbuffer<T>` (`Ringbuffer.h`) | `data_`, `write_pos`, `read_pos`, the atomic `newDataAvailable_`, a binary semaphore (and a mutex nobody takes) | `write`, `add`, `read`, `TakeBinarySemaphore`, `GiveBinarySemaphore` |
| `AudioElement<R,W>` | pointers to the buffer read and the buffer written | `set/getReadBuffer`, `set/getWriteBuffer`, `read`, `write` (forwarders) |
| `Bluetooth` | `prebuffered`, the static `this_`, the scan mode of the controller, the I2S clock | data callback, event callback, `setSampleRate`, init, destructor |
| `Equalizer` | coefficients and the `Ic_eq` memory of eight filters, the task's local buffers | the task, `MonoMix`, three filters, `adjustEqualizer` (called by nobody) |
| `Crossover` | coefficients and the history of two pairs of biquads | the task, `filter_LinkwitzRiley` |
| `AudioCodec` | the task's local buffers | the task, `ShortToBytes` |
| `ESPcontroller` | none of its own; the registers of the ES8388, the I2S driver, NVS | `InitFlash`, `WriteCodecI2C`, `CodecInit`, `I2SInit` |
| `app_main` | three ring buffers, one object of each class | builds the chain and sleeps |
| `AudioProcess.cpp` (`AudioTest`) | a file in memory | bytes to samples, mix, two passes of a filter, samples to bytes |

```
 phone --A2DP--> Bluetooth callbacks (BTC task, core 0)
                    | write                       buffer1: 15360 bytes
                    v give, once 3 packets are buffered
                 EqualizerTask                    read <= 10240 bytes
                    | write, give                 buffer2: 3840 shorts
                    v
                 CrossoverTask                    read <= 2560 shorts
                    | write (twice as many), give buffer3: 3840 shorts
                    v
                 AudioCodecTask --i2s_write--> ES8388
```

The chain has no back pressure. A writer never looks at how much its reader has left, a give
of a semaphore that is already given is lost, and a take is followed by exactly one `read()`.
The tasks are created unpinned with one priority on a dual-core build
(`ESP_prototype_v3/sdkconfig:758`), so the two sides of a buffer really run at the same time.
The one comment that speaks of the discipline is at `Ringbuffer.h:69`: "It is the users
responsibility to make sure that all available bytes are read before a new write is performed".
Nothing in the chain does so.

What is hard: the two sides of a ring buffer interleave inside `read()` and `write()` (the lock
at `Ringbuffer.h:71` is commented out, and `read()` looks at `write_pos` up to three times); full
and empty look alike but for a flag that is written by both sides; three tasks and a callback
exchange counted data through uncounted signals; `prebuffered` is a plain member two callbacks
write; a chunk doubles in size in the crossover while all `short` buffers have one size; the
filters carry state from one chunk to the next.

What makes each part correct:

* ring buffer: no access outside the vector or the caller's buffer whatever the interleaving; what
  is read is what was written, once each and in order; the flag says whether something is unread.
* chain: no write runs over what the next task has not read; the samples reach the driver once
  each and in order; processing starts with three packets in hand; a signal leads to playback.
* filters: the output does not depend on where the stream is cut into chunks.
* start-up: when sound comes in, the driver, the codec and every element are there; a device that
  restarts, for whatever reason, can be found again in the end.
* Bluetooth events: the device is discoverable exactly while no phone is connected; the clock of
  the I2S driver follows the rate agreed on; a write to the driver returns.
* codec setup: a setup that reports success left every register as it should be, whatever an
  earlier, broken-off setup left; until its last write the DAC is muted, and its controls change
  only while it is off.

### GUI

| part | state | operations |
|---|---|---|
| `queue` (`que.py`) | `songs_in_queue`, two lists of labels | `add_song_to_queue`, `remove_song` |
| `spotify_page` (`gui.py`) | `currentsong`, `prev_pressed`, `playing`, the page's `show` | button handlers, `show_page`, `update_info`, `check_changes` every second |
| `search_page` | the last search result | `search`, `add_to_que` |
| `GUI`, `page_template`, other pages | `show` of five pages | `change_page`, `authorize_pressed` |
| `spotify` (`spotify.py`) | access token, headers | one HTTP request per method |
| `http` (`http.py`) | the class attribute `myHandler.code` | `do_GET`, `getinc` |

The GUI is one Tk thread, but it polls a player that other devices drive too: between two
requests the song may change, any request may fail, and every handler swallows the failure
(`except: pass`). What is hard is the bookkeeping that guesses from one poll to the next what
the player did: `prev_pressed` counts presses of "Prev song" to be forgiven, and a change of
song pops the queue.

What makes it correct: the queue on the screen is what is still to be played; going back does
not pop it; the page follows the player; one page is shown at a time, whatever fails in the
middle of a change; nothing but the first page is reached without a login; the session is that of
the user who logged in last; the window answers again, or waits for the user.

### Not modelled

| part | why |
|---|---|
| `Equalizer::adjustEqualizer` | private and called by nobody |
| the formulas of the filter coefficients | real arithmetic: sines and roots of constants |
| pins, DMA sizes and formats passed to ESP-IDF | their effect is inside the IDF, which the repository does not hold |
| the polling codec task of `ESP_prototype_v2` and its ring buffer, which sets the flag in `add()` | a first try, replaced by semaphores in the next version; its start-up and codec setup are modelled |
| sliders, search box, play and pause of the GUI | each sends one request; play/pause flips a flag only it reads |
| `spi.py` | its import is commented out (`gui.py:6`) and the firmware has no other side |
| `Linkwitz.h` | included by nobody |
| `ThreadSyncTest`, `Ringbuffer/ringbuffer.hpp`, `Filter_tester` | experiments: FreeRTOS semaphores tried out, the ring buffer without them, plots |

## 2. Modules

| module | models | extends / instantiates |
|---|---|---|
| `Ringbuffer` | one ring buffer with its writer and its reader, an access to shared state a step | |
| `Fifo` | the abstract specification: a bounded FIFO queue, filled in bursts, read in batches | |
| `MCRingbuffer` | the refinement mapping from `Ringbuffer` to `Fifo` | `Ringbuffer`, `Fifo` |
| `Ringbuffer_proofs` | type, positions and bounds, for every use of the buffer; order, flag and the refinement, for the two orderly ones | `MCRingbuffer`, TLAPS |
| `RingCalls` | one undisturbed call of `write` or `read` as a function | |
| `RingCalls_proofs` | what these functions do to the elements in the buffer | `RingCalls`, TLAPS |
| `AudioPipeline` | the chains of five versions: data callback, event callback, one or three tasks | `RingCalls`, `Fifo` |
| `AudioPipeline_proofs` | types, buffering up, no overrun, order, nothing stranded, the refinement | `AudioPipeline`, `RingCalls_proofs` |
| `CodecSetup` | the register writes of seven versions, with failing transfers and resets | |
| `Firmware` | start-up, Bluetooth events, I2S driver of seven versions, over `CodecSetup` | `CodecSetup` |
| `Firmware_proofs` | a setup is complete and silent; sound finds the chain; clock and scan mode follow the phone | `Firmware`, TLAPS |
| `EqualizerBank` | the filters of the equalizer and the accumulator they share | |
| `CrossoverFilter` | the four biquads and their histories | |
| `OfflineFilter` | the bench program `AudioProcess.cpp` as functions of a file | |
| `FilterChain`, `MCFilterChain` | the filter stages of four versions one behind the other, and integer coefficients | the three above |
| `FilterChain_proofs` | both stages filter the whole stream, however it is cut, and the bench program with them | `FilterChain`, TLAPS |
| `PcmConversion`, `PcmConversion_proofs` | `MonoMix` and `ShortToBytes` | |
| `SongQueue`, `SongQueue_proofs` | the GUI's copy of the player's queue | |
| `Pages`, `Pages_proofs` | the pages of the GUI and the login | |

### The ring buffer: `Ringbuffer`, `RingCalls`

`data`, `wpos`, `rpos`, `newData` and `sem` are the members of the class, `dist` and `front` the
locals `bytesAvailableDist_` and `distanceBW_`, `got` the value `read()` returns. `buf` is the
caller's buffer, `Readlen` slots, and as many slots of memory behind it, which a copy of `read()`
can reach; -1 marks a slot this read has not written. `wpos = Size` is the moment in `add()` when `write_pos` stands on
`data_.end()`. Every action is the code between two accesses to something the other side uses
too; each branch of `read()` has actions of its own (`ReadAhead`, `ReadToEnd`, `ReadFrontPart`,
`ReadFrontAll` with `CatchUp`, `ReadFull`, `ReadFullWrapped`, `ReadFullPart`). Elements are
numbers in the order of writing, so order, loss and repetition can be told from the cells alone.
`read_pos` belongs to the reader and moves together with the copy next to it. `write_pos` and
the cells are plain memory: each access is taken to be atomic and in program order, the weakest
outcome the Xtensa cores give word-sized locations.

What the writer waits for is the constant `Discipline`, because the code leaves it to its users:

* `"none"`: nothing, as in the chain;
* `"drained"`: all has been read and the packet fits one read, the letter of `Ringbuffer.h:69`;
* `"slack"` and `"room"`: packets queue up between two reads, leaving one cell free or none.

`RingCalls` has the same two calls as functions of a record, for the modules in which calls do
not overlap. Its `Misplaces` and `Delivered` keep the branch of `read()` that copies to the
wrong place.

### The chain: `AudioPipeline`

One variable per buffer, semaphore, program counter and local buffer of each task. A call of
`read()` or `write()` is one step here: the races inside them are the subject of `Ringbuffer`,
and what `AudioPipeline` shows is about signals, amounts and order of calls. `Receive`,
`TestPrebuffered`, `SignalNext` and `CountPacket` are `bt_a2d_sink_data_cb` with
`prebuffered++` taken apart; `ResetPrebuffering` is what `bt_a2d_sink_cb` does to it, at any
moment. `Wake`, `Read`, `Write`, `GiveNext` are the loop the tasks share, `Play` the codec's
blocking `i2s_write`. The variable `chain` is the version that runs, one record of `Chains`:
where the stream enters, the cells of the buffers, what each task reads and writes, how many
packets the callback counts before it signals. The prototype has the codec task only.

Sound is counted in units, a fixed share of `buffer1`. A unit of the stream is as many bytes in
`buffer1`, a quarter as many samples in `buffer2` and half as many in `buffer3`; since `buffer1`
has four bytes for each short of the others, all three hold `cells` units and a unit of the
stream takes two of `buffer3`. Requests keep their ratio to the buffers: 6 of 9 for 10240 of
15360 bytes, 2 of 4 for 4096 of 8192. Under `Paced` the source keeps within `Ahead` units of
what has been played, half a buffer or one read, whichever is less: this stands for a phone
that sends at the rate the codec plays, and it is a condition of the properties, not something
the code enforces.

### The filters: `EqualizerBank`, `CrossoverFilter`, `OfflineFilter`, `FilterChain`, `PcmConversion`

The filters are linear recurrences whose correctness lies in the indices, the order of updates
and what is kept between calls, so integers stand for the floats, and small coefficients, all
different, for the computed ones. Truncation is where the code truncates; `percent` is the share
the crossover keeps of a sample, 99 in the first version, 98 in the last. A loop over a chunk is
a recursive function from the samples gone through to the state (`Filtering`, `LowshelfPass`,
`HighshelfPass`, `BellPass`, and `Ring` for the bells of one sample). The accumulator is
kept over chunks, as the local of `EqualizerTask` is. `FilterChain` runs the stages each version
has (`smartsound_v1` only a crossover, `v2` and `v3` only an equalizer, the last both); the
equalizer's chunks come from outside, the crossover's are cut from what the equalizer wrote, at
other places. `PcmConversion` keeps the 16-bit arithmetic, signs and byte order of the
conversions at both ends. `OfflineFilter` is the bench program written as it is, in two passes
over a file; `OfflineAgrees` compares it with the crossover taken over from it.

### The device: `CodecSetup`, `Firmware`

`CodecSetup` has the rows of writes of `CodecInit`, in order, each of which is acknowledged or
fails, and may or may not have reached the codec when it fails. The I2C driver may fail to
install; then nothing arrives. A reset, or new firmware of another version, keeps the codec's
registers.

`Firmware` puts it into the life of the device. `app_main` is a table of the parts it brings up
in each version, and one action for each part; `InitFlash` may find a full flash, erase it and
restart, and every `ESP_ERROR_CHECK` that fails is a `Restart`. A phone connects, agrees on a
rate, starts and stops, loses the link; the stack puts an event for each into `events` and calls
the callback with one after the other, some time later. `setSampleRate` is taken apart into
`i2s_stop`, `i2s_set_clk` and `i2s_start`, with the codec task inside `i2s_write` or not. The
driver is not in the repository: a stopped one does not empty its buffers, so a write that waits
for room waits until it is started again, up to `smartsound_v3` for 100 ticks at most. And its
`i2s_set_clk` takes the lock a writer holds inside `i2s_write`, so it waits for the write to end.
Both are how ESP-IDF behaves, not what this repository shows.

### The GUI: `SongQueue`, `Pages`

In `SongQueue`, `playing`, `upNext` are the player, which is not in the repository and changes
at any moment, inside a handler too; the rest is the GUI. One thread runs all handlers, so a
handler without a second request is one step; `check_changes` is two, `SeeChange` for the
request it compares with and `HandleChange` for the second one and what follows. A request may
fail on its way out or on its way back. A poll that fails, or finds no `currentsong`, ends in
the swallowed exception and changes nothing: it is a stuttering step. `failed`, `hurried`
and `repeats` are history: whether a request has failed; whether something happened before the
page had shown the change before it; how often the player was sent on or back and played the
song it had been playing, as "Prev song" does that only restarts a song.

In `Pages`, `shown` and `packed` are the two things `change_page` does to a page, separately,
because `show_page` of the Spotify page asks the network between them. `pc` is what the one
thread waits for: the browser (`handle_request`), the token (`authorize`), a song (the loop of
`show_page`). `backlog` holds the requests the HTTP server has not handled, stray ones too
(a browser asks for an icon); `code` is the class attribute that keeps its value. Spotify
exchanges a code once. `granted` and `disturbed` are history: the user who granted access last,
and whether a stray request or a lost exchange has put logins and requests out of step.

## 3. Runs

"Bounds" is what keeps the run finite; the last column is the number of distinct states, or that
the run finds its property violated. Mutants of the mapped definitions, kept above the
definitions they change, show for every property that it can fail.

| run | module, bounds | properties | states |
|---|---|---|---|
| `ring_race` | `none`, 3 cells, reads of 2, packets up to 2, 6 elements | `TypeOK`, `AccessesInBounds`, `PositionInv` | 35962 |
| `ring_order` | `drained`, 4 cells, reads and packets up to 4, 10 elements | `FifoOrder`, `FlagMeansUnread`, `OrderInv`, `ImplementsFifo`, `EveryElementRead` | 7554 |
| `ring_full` | `room`, 4 cells, reads of 3, packets up to 4 | `StaysInBuffer` | violated |
| `ring_replay` | `none`, 3 cells, 2 elements | `FullMeansSize` | violated |
| `pipe_paced` | five versions, packets of one unit, paced, 10 units | `TypeOK`, `NoOverrun`, `PlaysInOrder`, `OnlyUnsignalledLeft`, `ChainIsFifo`, `BufferedUp`, `GivenIsPlayed` | 419374 |
| `pipe_overrun` | last version, not paced, 9 units | `NoOverrun` | violated |
| `filter_chunks` | four versions, chunks up to 3, streams up to 5, 3 sample values, 2 bells | `BankIsSumOfFilters`, `StreamFiltered`, `OfflineAgrees` | 48700 |
| `pcm_edges` | frames of the bytes 0, 1, 127, 128, 254, 255 | `MixNearMean`, `BytesReadBack` | 3888 |
| `firmware` | seven versions, 3 moves, 2 rates, 2 waiting events | `OkMeansSetUp`, `SoundFindsChain`, `ClockFollows`, `FoundUnlessTaken`, `SilentUnlessFailed`, `WriteReturns`, `ReachableAgain` | 902100 |
| `queue_player` | 3 songs, list of 2, 5 clicks and song changes | `TypeOK`, `QueueIsNewest`, `NoSongSkipped`, `ListIsPlayersQueue`, `ChangeIsShown` | 1202841 |
| `queue_stuck` | 2 songs, 4 clicks and song changes | `OpenPageUpdates` | violated |
| `gui_pages` | 2 users, 6 clicks, stray requests and changes outside | `TypeOK`, `OnePageVisible`, `LoginForced`, `SessionIsGranted`, `FreeAgain` | 185926 |

Why the bounds are enough:

* Ring buffer. The positions matter only relative to each other and to the end of the vector.
  With three or four cells there is a position at the start, at the end and between; the reads
  are shorter than the buffer (`ring_race`), or as long (`ring_order`); at least twice as many
  elements are written as there are cells, so both positions come round to every offset. The two
  runs take every branch of `read()` between them. `ring_order` checks the discipline of the
  comment; "slack", and every size, request and packet, are covered by the theorems of section 5.
* Chain. Ten units wrap all three buffers, `buffer3` twice. More than one unit in a buffer when
  its task wakes, a wake-up that finds nothing, and a give into a semaphore already given all
  occur. The signalling of the last version needs four packets, and four may be on their way.
* Filters. A history holds two samples, a chunk one to three, so chunks shorter and longer than
  the history follow each other, and a shorter chunk follows a longer one. Two bells are enough
  to be mixed up.
* PCM. The six byte values make the extremes and the sign changes of a 16-bit sample, in every
  combination of the two channels.
* Device. A reset, a connection, a configuration, an erase and an abort cost one move each, a
  failed transfer two: a connection with two configurations, a reset during each of two setups
  and a new connection, a failure followed by a reset all fit. Two events may wait, so the phone
  can be two steps further than the callback.
* Queue. The list fills (two places), is emptied, and is full while songs are skipped and gone
  back to; five events allow two additions with a skip, a step back and a song's end.
* Pages. Two users, so that one session may be taken for another's; six events are two logins
  with their answers and a stray request, or a login, a token's end and changes of page.

Where a run says `CHECK_DEADLOCK FALSE` the system may stop: a stream of bounded length, a phone
that makes no more moves, a user who clicks no more.

## 4. Fairness

* `Ringbuffer`: weak fairness of the writer's steps inside a call and of the reader's steps. A
  task in a call is never blocked in it (no lock is taken), a task whose semaphore is given is
  woken, and all have the highest priority. Nothing makes the writer begin a packet.
* `AudioPipeline`: the same for the tasks and for a data callback that has begun. Nothing makes
  the phone send, and events may reset `prebuffered` for ever. `GivenIsPlayed` is []<>: since
  a behaviour has a bounded number of packets there is a last give, and catching up with it is
  what the property says.
* `Firmware`: `app_main` runs until it sleeps, the stack delivers the events it has, a running
  driver empties its buffers, so that a write to it ends; in the versions that wait 100 ticks at
  most a write ends whatever the driver does (`WriteMustEnd`). The callback goes on when it can,
  not while it waits for the lock of a writer. Nothing makes a phone act, a transfer fail or the
  device reset.
* `SongQueue`: `check_changes` sets its timer again in its `finally`, so it runs again and again
  (weak fairness of `SeeChange`); a request that is repeated for ever is answered at some time
  (strong fairness of a `HandleChange` that gets its answer). The user and the player do as they like.
* `Pages`: a handler that can go on does, once a request or an answer is there (weak fairness of
  `show_page`, `getinc`, `Exchange`). Nobody need click, answer in the browser or start a song.

`FilterChain` and `PcmConversion` are used for safety only and have no fairness.

## 5. Theorems

All proofs are checked by TLAPS to the last leaf. They assume the named assumptions on the
constants (sizes and requests are positive integers, packets are not empty and one of them is the
largest, filter coefficients are integers and samples shorts, `Byte` is a set of bytes, the queue's limit
is less than its labels, as 10 is less than 11, `NoUser` is no user) and nothing else; where a
theorem holds only for an orderly use of the buffer or for a paced source, that is its stated
hypothesis (`Disciplined`, `Paced`).

* `Ringbuffer_proofs`: `TypeCorrect`, `PositionsAgree`, `InBounds`. For every discipline, "none"
  too, every copy of `read()` and every store of `write()` stays inside the vector. Memory behind
  the caller's buffer is written to by one branch only, the one `ring_full` shows: the read of a
  vector taken for full, longer than the request, that moves `read_pos` past the middle of the
  request (`SpillInv`, and `CopiedWithin` for the other copies). `TypeOK` alone is not inductive: a copy is bounded by a distance computed a few
  steps ago from a `write_pos` that has moved since. `PositionInv` says at each program counter
  what the remembered distance still guarantees, whatever the writer has done: `dist` lies
  between the reader's position and the ends of the vector, not that it is current.
  In the second part `OrderKept`, `ReadsInOrder`, `FlagReliable`, `QueueImplemented`: under
  "slack" and "drained" the unread elements lie in order from `rpos` on, every read delivers the
  next ones, and the buffer implements `Fifo`. The inductive invariant `OrderInv` has six parts:
  the two sides take turns, there is room for the packet under way, the unread elements are in
  place, the flag agrees with their number, the measured distances are current, and what has
  been copied is in order. The wrap-around is dealt with once, in lemmas about the index
  function. For the refinement one more fact is needed, that before a read has delivered it has
  returned nothing (`NothingYet`); then queue and batch are both runs of consecutive numbers,
  and a step of the buffer adds one at the end, cuts a prefix off, or changes neither.
* `RingCalls_proofs`: lemmas only. A call of `write` on a buffer with room appends; a call of
  `read` on one that is not full delivers a prefix and leaves the rest; positions stay inside.
* `AudioPipeline_proofs`: `Prebuffers`, for any source; `NeverOverrun`, `OrderedToTheEnd`,
  `NothingStranded`, `ChainIsQueue`, `PipelineTyped`, for a paced one; each for every set of
  versions, every packet size and any number of packets. `Prebuffers` rests on `CountInv`: the
  counter is never ahead of the packets written since the last reset, unless a reset was
  overwritten. The next two rest on `LineInv`: each place of the chain, a buffer or a task's
  hands, holds an interval of the stream, and it is next to the interval of the next place; so
  what is in all places together is what the source is ahead, and that fits the last buffer even
  doubled. Hence `ChainIsQueue`: all that is under way is one stretch of consecutive units
  (`OneStretch`), which a packet lengthens at one end and the codec task's `read()` shortens at
  the other, and every other step leaves alone. `NothingStranded` adds `SignalInv`: what lies in a
  buffer has been signalled to its task, is being read, or is about to be signalled.
  `PipelineTyped`, by `TypeInv`, bounds buffers, local arrays and hands: it takes `LineInv`,
  because what a task holds is bounded by what its buffer held.
* `Firmware_proofs`. `SetUpCorrect`, by `CodecInv`: as long as no error was or-ed in, every
  write passed stands in its register unless a later one of the row changed it. What the device
  does around it, resets and other versions' registers included, leaves that alone. The same
  invariant gives `SetUpInSilence`, with two facts about the rows of writes: up to the unmuting
  write none of them touches the mute, and none changes the DAC before it is switched off.
  `ChainStands`, by `DeviceInv`: in the versions that make the device discoverable last there is
  no phone, no event and no sound until `app_main` has gone through its table.
  `ClockAgrees` and `FoundWhenFree`, by `FollowInv`: the clock need not be right while events
  wait, but the last waiting one of its kind says what the handler will set, and this is what the
  phone agreed on; with none waiting it has been set, or `setSampleRate` is about to set it. The
  same holds for the scan mode and the link.
* `FilterChain_proofs`: `BankKeepsStream`, `CrossoverKeepsStream`, `BenchAgrees`, for all
  coefficients, any number of bells, streams of every length and every way to cut them, twice. The invariant
  `ChainInv` says what the state is after a stream: each filter of the bank has the currents it
  would have had alone (`BankStands`), the four histories of the crossover are the last two
  samples of input, first biquad's and second biquad's output of both filters
  (`CrossoverStands`), and what was written is the reference. Loops and references are recursive
  functions: `Recursion` shows that they exist, `Determined` that their values at n follow from
  those at n - 1, both from `NatSets`, induction as a statement about sets. A loop over a chunk is
  then compared with the reference of the stream so far (`ChunkFiltered`, `BankChunk`), and what
  is still to come changes nothing of the past (`AlonePrefix`, `SumPrefix`, `DirectAppend`). The
  high shelf and the bells add to what the pass before them has put in the accumulator, so the
  three passes are compared place by place; what an earlier chunk left there is overwritten.
  The bench program is compared with the same reference, `FourthOrder` of the whole stream.
  Its loop over a file filters every second sample where it is: after i samples it has filtered
  `Count` of them, remembers the last two (`Remembered`) and has left the others as they were
  (`After`), for any file whose filtered samples carry the stream (`PassIs`). That is used once
  for the low-pass and once, on its result, for the high-pass. Both ends of the file are dealt
  with by arithmetic of bytes (`FileRead`, `MixedBack`, `LastBytes`). `BenchAgrees` needs the
  samples to be shorts, which they stay in a version without equalizer (`SamplesStay`).
* `Pages_proofs`: `PagesTyped`; `PageVisible`, `ForcesLogin`, by `LoginInv`: one page is packed
  and marked, and at most that of Spotify is marked besides; a song is asked for only behind the
  login. `SessionFollows`, by `SessionInv`: browser windows are numbered, no code is of a window
  not yet opened, and without a disturbance program, server and browser are in step (`InStep`).
* `PcmConversion_proofs`: `MixCorrect`, `BytesCorrect`. For all bytes.
* `SongQueue_proofs`, for any number of songs, clicks and changes. `ListFits`, `OldestGoesFirst`,
  by `ListInv`: the list fits the labels and is the newest part of what was added. `ListMatches`,
  by `MatchInv`: if no request failed and nobody hurried, the list is the player's queue with at most
  `repeats` songs before it that have begun. `MatchInv` counts them together with the presses that
  wait to be forgiven (`Even`): a press that changes nothing adds one, and the next change turns it
  into a song left over. From a change until the program sees it there is one more (`Behind`). `NoSkip`: as long as
  no request has failed, the list never loses more songs than the player went forward.
  `NoSongSkipped` is not inductive: what pays for a removal is decided when the change happens,
  and the removal comes polls later. `Balance` adds that a change not yet seen is paid for by a
  step forward or by a press of "Prev song" that still counts.

Every type invariant, safety invariant and action property of the passing runs is proved. Only
model-checked is liveness (`EveryElementRead`, `GivenIsPlayed`, `WriteReturns`, `ReachableAgain`,
`ChangeIsShown`, `FreeAgain`): TLAPS has no rules for fairness and ENABLED here.

No module with a theorem uses a RECURSIVE operator.

## 6. What the runs show

What holds: no interleaving of the two sides of a ring buffer makes them leave the vector;
used with a packet between two reads, the buffer is a FIFO queue; a chain that is kept less
than half full is a FIFO queue too from its two ends, plays each sample once and in order, and
no signal strands audio; the filters do not depend on how the stream is cut, and agree with the
bench program but for its last sample; the conversions never wrap around; a codec setup that
reports success is complete, in all versions and after whatever another one left; in the last
version clock and scan mode follow the phone, if the callback need not wait for a writer for ever;
the song list is ordered, does not lose songs by going back, and, if nobody hurries, is the
player's queue but for songs left over by presses that changed nothing; one page is to be seen and none without a login.

What does not, as runs that find a counterexample:

* `ring_full`. In `ReadFullWrapped` (`Ringbuffer.h:129`) the second copy goes to `buffer + rest`,
  where `rest` is the number of elements it copies, instead of behind the first copy. A full
  buffer read in part across its end comes out in the wrong order, and if fewer than half a
  request's cells are left up to the end, the copy ends behind the caller's buffer. `EqualizerTask`
  reads two thirds of `buffer1` into a local array of just that length, so a full `buffer1` whose
  `read_pos` is past byte 10240 meets this.
* `ring_replay`. `write()` stores and then sets the flag. If the reader takes the elements in
  between, the flag is set for an empty buffer, whose equal positions the next `read()` takes
  for a full one: it delivers the whole buffer again.
* `pipe_overrun`. `buffer3` gets two samples for each one of `buffer2` and has no more cells.
* `queue_stuck`. If the first request of the Spotify page fails, `currentsong` has no value,
  every poll ends in a swallowed exception, and the page shows no song until it is opened again.

Known limits of the code that the properties leave out by name:

* `BufferedUp` says "unless torn": a reset of `prebuffered` that falls into `prebuffered++` of
  the other task is overwritten, and the new stream starts with fewer than three packets.
* The properties of the paced chain need their condition. Packets of 2560 bytes, four of them
  in `buffer1` at the first signal of the last version, are two thirds of it and overrun
  `buffer3` when they come out of the crossover together; so do packets that pile up when a
  stream is stopped and started again before the third one, since each start counts from zero
  and what was counted before stays in the buffer.
* `OnlyUnsignalledLeft`: what was buffered up but never signalled is played before the next stream.
* `SoundFindsChain` leaves out the first two prototypes, which let a phone connect before the
  chain stands; `ClockFollows` and `FoundUnlessTaken` are about the last version. `smartsound_v3`
  takes the rate from a byte of a connection event, where the phone's address is, and from an
  uninitialised local when no bit of it is set; the versions before have one rate.
* `WriteReturns` and `ReachableAgain` leave out `WaitForEachOther`, which the runs reach:
  `setSampleRate` stops the driver (`Bluetooth.cpp:195`) while the codec task waits for room in
  `i2s_write` without a limit (`AudioCodec.cpp:51`), and `i2s_set_clk` then waits for the codec
  task; `i2s_start`, which would end the write, comes after it. That rests on the behaviour of
  ESP-IDF named in section 2.
* `NoSongSkipped` says "~failed": a lost answer to "Prev song" leaves the press uncounted, and
  the change pops the list.
* `ListIsPlayersQueue` says "~hurried": a change first seen by `update_info` when the page is
  opened, or two changes between two polls, leave songs on the list that were played. And it lets
  the list keep a song that has begun for each time in `repeats`: `prev_song` counts every
  press (`gui.py:206`), so one that restarts the song, or is refused by the player, makes
  `check_changes` forgive the next real change, which then pops nothing (`gui.py:243-249`).
* `SessionIsGranted` says "~disturbed": a stray request of the browser stays in the server's
  backlog, or answers a login in place of the real one; from then on a login may take an older code.
* `FreeAgain` counts as waiting for the user: `handle_request`, which blocks the whole window if
  the browser is closed; and the loop for a song, which no song ends once the token has expired,
  since every answer then says so (`gui.py:188`).
* `OnePageVisible` lets the Spotify page be marked as shown without being packed: an exception of
  its `show_page` leaves `show` set. The next `change_page` puts it right only because the
  Spotify page comes first in the list of pages.
* `FlagMeansUnread` is for the orderly disciplines: under "none" `read()` may also clear the
  flag a `write()` has just set, and the elements wait for the next packet.
* `MixNearMean` allows a difference of one: the halves are truncated before the sum.

## 7. Plan

Done: the ring buffer, the chains, the filters and the bench program, the conversions, start-up,
codec setup and Bluetooth events of all versions, the song queue, pages and login. Next:

1. The ring buffer of `ESP_prototype_v2`, which sets its flag in `add()`, with the codec task that
   polls it instead of waiting.
2. The races of `Ringbuffer` inside the chain: `AudioPipeline` with a call of `read()` or `write()`
   that overlaps another, for the two buffers between tasks.
