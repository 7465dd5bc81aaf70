# A verification development for SNES_HX421

TLA+ models of SNES_HX421. Most of them are of the parts whose correctness is a
matter of order and of state: who owns a sample, which frame comes next, which
thread may touch a slot, what a stop or a seek does to something that is under
way. The others are of its algorithms: fixed-point geometry, rasteriser, masks,
mixing, files. Each part has a module translated from the source and a
configuration that model-checks it on a small instance with TLC; twelve parts also
have theorems that TLAPS proves for every value of the constants. `PROJECT.json` maps every
definition to the lines it stands for, and lists runs, mutants, findings,
hazards and theorems.

    cd tla
    tlc -workers 2 -config MCFmvTransport.cfg MCFmvTransport
    tlapm FmvTransportProofs.tla

## 1. The system

HX421 is a coprocessor cartridge for the SNES. It exists twice: as a runtime
library beside an emulator (`src/runtime`, with the audio engine of
`src/engine`) and as a flash cartridge with a microcontroller and an FPGA
(`src/firmware`, `src/fpga`). The console sees a read-only 64 KB window with
frame buffers and a mailbox.

| part | source | state | operations | hard because |
|---|---|---|---|---|
| sample pool | `engine/audio/audio_pool.c` | block bitset and free counter, object table with refcounts and generations | alloc, ref, unref, sweep a VM | long sequences of legal calls, stale handles, generations that wrap |
| track arbiter | `engine/audio/audio_arbiter.c` | track table, generations, active count, a sink | play, play_external, stop, voice_finished, reap, sweep | shares objects with the VMs, voices end on their own |
| ring stream | `engine/audio/audio_ring_stream.c` | frames, two 32-bit cursors, eof | push, read, set_eof, reset | two threads, no lock, cursors that wrap |
| music player | `engine/audio/music_player.c` | segment, offset, pinned head, staging buffer | play, stop, pause, resume, update | stages ahead of what it hands on, switches segments inside a call |
| mixer | `engine/audio/audio_mixer.c` | channels with ring buffers, resamplers | write, render, start, stop | rings that overwrite, varying pops |
| audio service | `engine/service.c`, `hx421_cmd.c` | all of the above, a slot per track | create, load, trigger, stop, feed, render | several steps of which one may fail |
| film transport | `runtime/hx421_runtime.c` | FIFO with two atomic counters, request words, band, pictures | read ahead, FRAME_DONE, seek, pause, scrub | two threads, no lock, both store the read counter |
| frame handshake | `hx421_runtime.c`, `snes/kernel.s` | FRAME_READY, FRAME_DONE, two buffers, mailbox | publish, latch, DMA, strobe | console and host run on their own clocks; reset |
| media service | `firmware/media/hx421_media.c` | slots | play, stop, seek, gain, stop all, service | commands arrive while streams are being filled |
| stream ring arbiter | `firmware/audio/hx421_stream.c` | per stream: ring, write and file position, primed | service: refill the hungriest ring | offloads take time and fail, the mixer reads on |
| media firmware | `firmware/media/hx421_media_fw.c` | open files, mixer set-up | bind the service to SD card and FPGA | commands read byte by byte |
| FPGA mixer | `fpga/cores/mixer/hx_mixer_seq.v` | per channel: active, source position | a frame per tick, prime | renders while everything else happens |
| command mailbox | `fpga/cores/cmdbox/hx_cmdbox.v` | 256 bytes, pending bit | doorbell, ack | posted while it is read |

Interaction on the host: the emulator calls the runtime from its own threads
(cartridge reads and writes, audio pull, step); the runtime calls the audio
service; the film reader feeds the ring stream; the service's render reaps
finished voices, pumps the music players, and mixes. On the cartridge: the game
posts commands into the mailbox, the firmware's loop takes them, enables primed
streams and starts one offload per round; the FPGA reads the rings.

The runtime's pictures come from four producers (bars, a scrolling map, the
film, a rendered scene); the scene's bodies move by a physics tick and are drawn
by camera, rasteriser and tile pool; over the film lie a cursor, bullet holes and
the bars of a spectrum meter. What is left out is under 6, and `PROJECT.json`
says of each part why.

What makes the parts correct, in a sentence each:

- **pool, arbiter**: blocks are neither lost nor shared; an object lives exactly
  as long as somebody refers to it; an old handle never reaches a new object.
- **ring stream**: it is a bounded queue, whatever the two threads' copies do.
- **music player**: the mixer gets each frame once, in order, across the loop.
- **media service**: all layers agree about every slot, a ring holds its own
  source in order, and what is heard is that.
- **film transport**: no frame is torn or taken twice, the screen shows whole
  frames, and the film goes on.
- **frame handshake**: what is on screen is one frame, the buffer in use is left
  alone, frames come in order, and neither side waits for ever.
- **scrolling map**: wherever the camera goes, the screen shows the map there,
  within what a vertical blank can carry.
- **audio service**: voices and the resources behind them never come apart, no
  channel plays another voice's sound, every one-shot ends.
- **mixer**: the interpolator's window and the ring are at the same frame, and
  time is kept; levels, taps and clock correction are what they should be.
- **algorithms**: the fast form answers what the plain one would.

## 2. Modules

| module | models | extends / instantiates |
|---|---|---|
| `AudioPool` | the pool's operations as action fragments, its two state invariants | |
| `AudioArbiter` | the arbiter over the pool, the VMs' references, the sink | `AudioPool`, instance of `ObjectLifetime` |
| `ObjectLifetime` | abstract: an object lives from its first to its last user | |
| `AudioRing` | the two threads of the ring stream, frame by frame | instance of `AudioQueue` |
| `AudioQueue` | abstract: a bounded queue of numbered frames | |
| `MusicPlayer` | player, stream and mixer channel | |
| `MediaService` | service, ring arbiter, firmware and FPGA mixer | |
| `FmvTransport` | reader thread, console thread, pads | |
| `FrameHandshake` | window buffers, picture producers, kernel, video memory, reset | |
| `ScrollMap` | layers, strips and refills of the scrolling map | |
| `AudioService` | the service over arbiter entries, players, channels; both command front ends | |
| `MixerChannel` | ring, window of taps and phase of a channel | |
| `MixerMath` | samples, gains, pan, saturation, taps, clock filter | `CNumbers` |
| `WavFile`, `Spectrum` | WAV writer and parsers; window, transform and bands | `CNumbers` |
| `Bitset`, `PoolBytes` | the free map; chains of blocks, their bytes, pool streams | |
| `SpriteMask`, `Metatile`, `Raster` | pixel masks; map strips; triangles, tiles and their bursts | |
| `Space3d`, `Collision` | vectors, rotations, cameras; three-phase collision, response, physics tick | `SpriteMask` |
| `Overlay` | cursor, bullet holes, band bars, sprite table | `CNumbers` |
| `DevTools` | game loader, arena, terminal, bitstream packer | |
| `Geometry`, `Sounds`, `Films`, `Stores` | the questions put to these algorithms and the references they are held against | those, `Questions` |
| `Algorithms` | all of the questions | those four |
| `MC...` | the instances for TLC | the module of that name |
| `...Proofs` | lemmas, inductive invariant, theorems | the module and `TLAPS`; `AudioArbiterProofs` also `Algorithms`, `FrameHandshakeProofs` also `ScrollMap`, `MixerChannelProofs` an instance of `MixerMath` |

Some modules define a few operators marked "Bug:". They are variants of the
definition that follows them, broken in the way a slip in the code would break
it. The specifications do not use them; put in the place of the right
definition, each makes TLC find one property violated. `PROJECT.json`
("mutants") pairs them.

### Pool and arbiter

All calls run in one service context, so a call is a step. A chain is the set
of its blocks, since nothing in the model reads payload; the block the bitset's
rolling hint would find is any free block. `AllocObject`, `RefObject`,
`DropReferences` (free included) are the pool's functions; `Alloc`, `Ref`,
`Unref` are a VM's calls, which keep `holds`, the handles the VM owns a
reference for. `Play`, `PlayExternal`, `Stop`, `Reap`, `ArbiterSweep` are the
arbiter's functions; `StopTracks` is `stop_track()` on a set of tracks, as reap
and sweep call it. Calls that are declined change nothing and have no action.
`deadObjects` and `deadVoices` remember the last `Generations - 2` generations
that ended, which is as far back as a handle can be told from the current one.
Generations skip 0, so 2^16 - 1 of them are in use (the comment at
audio_pool.c:8-10 counts 65536).

The sweep of a VM drops one reference for each object it created. `Spec` has
the sweep under the contract the header's words imply (the VM owns exactly
those references then); `AnySweepSpec` has it with whatever the VM owns.

### Ring stream

`w` and `r` are cursors modulo `Word`, as the `uint32_t`s are; a slot is a
cursor modulo `Capacity`, which divides `Word`. Each thread loads the other's
cursor once, copies frame by frame, and publishes. `eof` is loaded after the
copy. The memory is sequentially consistent: the code's acquire/release pairs
on the cursors order what the model orders.

### Music player

A frame is its segment and offset. The staging buffer is a sequence, so its
compaction moves nothing. `Pass` is one round of refill, pump and end test;
`AfterEnd` is what `music_update()` does when a segment is over. `Render` pops
from the channel a varying number of frames, as the resampler makes it. The
heads are primed as `music_prime_*()` do, errors ignored as the service does.

### Media service

One loop on the microcontroller: `pc` is the phase of
`hx421_media_service()`. Sizes and positions count stereo frames. The mixer
renders between any two steps, also during an offload. A prime rewinds every
active channel, or is lost if it meets a busy mixer. `psram` holds for each
cell the frame that was copied there, `Stale` if that is of no current stream;
`ahead` and `heard` are history variables for what a channel has to play
before it starves, and what it played.

### Film transport

Every load and store of a word both threads use is a step: `TestFlush` and
`Drop` are separate, so are the pop's two loads, its copy and its store, and a
seek's two stores. A decoded frame is its number. `hidden` and `shown` are the
two pictures as bands; a frame is published band by band. The ring flush at the
end of a scrub is `AudioRing`'s reset. `MaxSeeks` bounds the seeks and
`MaxDecoded` the units decoded; at that bound the reader only waits. The history
`undone` counts the flushes a pop's store undid, one after the other, whose frames
are still queued; a flush at any other time, or a queue that has been used up
before more is read, sets it back. `HasRoom` says that the FIFO has room for a lead
for each of them and one more.

### Frame handshake

`Step` is `hx421_step()` with the reset's hold, the bars and the first kick of a
paced mode; `FrameDone` is the strobe's handler, which flips the buffers and
stages the next burst. The kernel's interrupt is split at every point where the
runtime can run: latch, blank line, each DMA slot of the body, return and strobe,
unblank. A body is a sequence of slots, each naming the cells of video memory it
fills; the two film pictures overlap in `Contested` tiles, as in video memory.
The producer's positions, not the pictures, are the state; a frame is its number
and the tiles it uses.

### Scrolling map

A position is in tiles; the tilemap is a function from slots to map positions,
so a torus wraps as the code's addresses do. `Goto` is `hx_map_layer_goto()` for
one layer: refill, wait, or strips; `Stage` is a field with all its layers in
order and the one refill that fits. The view is the set of positions the screen
can show with the leads the code keeps. The module's initial states, steps and
specification have names of their own (`MapInit`, `MapNext`, `MapSpec`), so that
its proofs can stand beside the handshake's.

### Audio service

The service's state is one record, and every call is a function from it to it,
so that a call that does several things (render: update the players in slot
order, each from what those before it left in the ring, reap, mix) is composed as
in the code. A track's entry, a player and a
channel are reduced to what the service can see; each has its own module. A stream
that is asked for has an outcome: it starts, its file does not open, or no player
is made after the source was opened and ring and channel were reset, and then the
slot and the file are given back (`StreamOpened`, `MusicFailed`). A ring voice fills
its channel up to the cap, with silence where the ring is short. The
three front ends are the command window, the host's calls, and the calls next to
an open film.

### Mixer channel and arithmetic

Frames are numbered by the writer. `Write` follows the caller's contract: into a
channel that has started it writes what is free. With 2 units of phase a frame,
rates 1, 2, 3 are half, equal and one and a half. `MixerMath` has the samples'
own 16 bits; the clock filter has smaller accumulators.

### Algorithms

Each is a set of operators. `Questions` is the frame: `AskInit` chooses a question,
and in `AskNext` an action per algorithm answers it by what the code returns (several steps where
there are several calls: a world's ticks, the pool's calls, the overlay's frames,
keys typed), and an invariant compares the answer with a reference: opaque pixels
of the art, the whole map laid out, weights of a pixel's centre, points inside a
box, the sum of the channels, the bytes put in. Of the overlay's table and the
terminal's output there is as much as can go wrong: a sprite's place, a row's
fill, a prompt as one sign. `AskSpec` has names of its own, so
that the proofs of the pool's bytes can stand beside the pool's. In `PoolBytes` the
calls of a question are fewer than a slot's generations (`StoresAssumption`): when
these come round, an old handle names a new object, which the comment at
audio_pool.c:9 accepts and `AudioPool` models. Fixed point keeps its operations
(which products floor, which divisions cut, what saturates) with fewer bits.

## 3. Runs

Each run asks one question of the system; a property in a run is the conjunction
of the parts named in its definition.

| run | instance | shows |
|---|---|---|
| `arbiter` | 2 blocks, 2 objects, 2 tracks, 2 VMs, 2 generations | block, refcount and track accounting; playing objects live; stale handles rejected |
| `lifetime` | the same with 1 object | pool and arbiter implement `ObjectLifetime`; a finished one-shot is reaped |
| `ring` | 2 slots, 2-bit cursors, batches up to 3 | no slot shared, fill bounded, `AudioQueue` implemented |
| `music` | six configurations | order, no skip, latency cap, end of the intro |
| `media` | two slots, rings of 5 and 4 frames, 9 commands | layers agree, rings hold their sources, playing in order |
| `fmv` | lead 2, FIFO 4, 2 bands, 2 seeks, 5 frames | the FIFO, whole frames, progress |
| `display` | 4 modes, 8 tiles of which 1 is shared, frames of 1 to 3 bursts, 2 resets | one picture on screen, buffers left alone, order, no stall |
| `scrollmap` | 2 layers at two speeds, 3 x 2 tilemaps, 6 x 4 map, 4 areas | the view is the map; a field fits its blank and its buffer |
| `service` | 2 tracks, 1 table entry, channel 3, ring 2, three front ends | resources and voices agree; channels clean; one-shots end |
| `mixer` | ring 4, rates 1/2, 1, 3/2, linear and cubic, 6 frames, 3 calls | window and ring in step, time kept, channels drain |
| `algorithms` | 23 kinds of questions, some 90,000 states | each algorithm answers as its reference |
| `media_seek` | one slot, one command | the violation below |

**Why the bounds are enough.** Two objects, tracks and VMs let a slot be freed
while the other is used, a voice outlive its VM's reference, and an object be
shared; with `Generations = 3` a slot's generations come round after two
objects, so the wrap happens all the time. Cursors of two bits over two slots
wrap every four frames, and batches of three do not fit. The music
configurations are with and without heads, intro and cap, a segment that is all
head, and one shorter than its head; the buffer is shorter than a segment and
not a divisor of it. The media rings are not multiples of the sources' lengths,
so runs are cut by ring end, source end, target and chunk in all combinations;
one channel is left running by the FPGA's boot. In the film the FIFO
has room for one flush that a pop undid, with no room to spare, and two seeks
undo two: the run is within the condition of its properties and past it, and the
frame number passes the FIFO's depth.

In `display` every burst can meet a strobe, a tick or a reset between any two
slots; frames of 0, 2 and 3 tiles with one tile a burst give frames of one, two
and three fields. In `scrollmap` tilemap, lead and jump are such that a move can
cross the torus' seam, need a strip on both axes at once, or be one tile too far
for strips; two layers want to refill in the same field. In `service` two tracks
run out with one stream and one effect, and an effect is longer than its channel.
In `mixer` two or four taps and four ring places meet in every phase, and the six
frames cover filling, overwriting, starving and filling again. The algorithms'
questions are chosen by their edges: boxes that touch, centres on an edge, words
and blocks that are just full, sizes around a padding byte; a reference that
never differs would be caught by the mutants.

**Violation.** `media_seek` checks `StreamPrimes`: a sought stream may look full
for ever and stay silent, although the header says a seek restarts the ring and
a test fails when the stream does not prime again. `PROJECT.json` ("findings")
quotes both.

**Turned boxes.** `CollisionRight` asks that a contact is found exactly where two
bodies overlap only of pairs whose boxes are the same by the rows of their rotations
as by the columns (`SameByRows`: turned by quarters, or cubes turned by an eighth
about one axis). The box test takes the rows for a box's axes where every function
that draws or moves a body takes the columns, so any other box is tested turned the
opposite way. The turns of `algorithms` include such bodies; of them the run says
only that a reported contact's normal and depth part what they belong to. What the
header says of them is `TurnedBoxesFound`, which does not hold (below).

**Known divergences.** Other places where the code does not do what a comment,
a header or a test says. Each is stated in its module, and is seen by changing a
configuration as said.

| where | what is said | what happens | to see it |
|---|---|---|---|
| `audio_pool.c:239` | playing objects survive a VM's sweep (`audio_pool.h:188-192`) | a VM that gave its handle up and dies takes another VM's voice's object along (the service has one VM and never sweeps) | `MCAudioArbiter.cfg` with `SPECIFICATION AnySweepSpec`: `PlayingObjectLives` |
| `audio_ring_stream.c:98` | at eof a read returns what remains (`audio_ring_stream.h:91-92`) | a read that is short and then sees eof may leave the frames pushed in between | `MCAudioRing.cfg` with `EndedMeansDrained` |
| `music_player.c:319` | intro to loop is gap-free (`music_player.h:6-8`) | frames after a pinned head are handed to the mixer twice | `MCMusicPlayer.cfg` with `GapFree` |
| `hx421_media.c:105` | GAIN is a live update (`hx421_media.h:40`) | it rewinds every channel that plays | `MCMediaService.cfg` with `GainIsLive` |
| `hx421_runtime.c:1334` | a seek drops what is queued (`hx421_runtime.c:1289-1291`) | a flush inside a pop is undone by the pop's store | `MCFmvTransport.cfg` with `DroppedStayDropped` |
| `hx421_runtime.c:2975` | a reset hands over to the boot again | FRAME_READY is cleared, the first kick is not repeated, and a kernel that has latched nothing never strobes: a film or a rendered scene stalls after a reset | `MCFrameHandshake.cfg` with `ResetModes = {"fmv"}`: `FramesKeepComing` |
| `hx421_runtime.c:1328` | a slot is copied out and freed "so the worker can reuse it race-free" | once the FIFO has no room for the flushes that pops undid in a row (one with a lead over 24, twelve in 48 slots with the lead of 4), the reader may decode into the slot a pop is copying | `MCFmvTransport.cfg` with `INVARIANT NeverTorn` |
| `hx421_collide.c:81` | the middle phase drops pairs whose oriented boxes do not overlap, "the object's own rotation" (`hx421_collide.h:106-115`) | a brick turned an eighth is tested turned the other way: a contact with an upright cube is reported where they are apart, and missed where they overlap | `MCAlgorithms.cfg` with `TurnsA <- MCTurned`, `TurnsB <- MCUpright`: `TurnedBoxesFound` |
| `hx421_runtime.c:1738`, `service.c:198` | a single push ring is shared by the one live ring voice (`service.c`) | PLAY_MUSIC without a file next to an open film starts a second ring voice, which resets the ring and shares its frames | in `AudioService`, `PlayTone` with `front = "film"` |

## 4. Fairness

- `AudioArbiter`: weak fairness of `Reap`. `hxa_render()` reaps at the start of
  each buffer, and buffers are asked for as long as the host plays.
- `MusicPlayer`: weak fairness of `Update` and `Render`, for the same reason:
  `hxa_render()` pumps every player and renders. Nothing is assumed of the
  controls; who pauses need not resume.
- `MediaService`: weak fairness of the loop and of the mixer, which run for
  ever, and strong fairness of `OffloadDone`: a card that fails at times does
  not fail always. No command need ever arrive.
- `FrameHandshake`: weak fairness of the kernel's next point, of `Step` and of
  the end of a reset: the console's clock runs, and the emulator's audio stream
  calls `hx421_step()`. A reset need never come.
- `AudioService`: weak fairness of `Render`, and `MixerChannel`: of `Render`:
  the output device asks for frames as long as the program runs. Nobody need
  command, load, feed or write anything.
- `ScrollMap` and `Algorithms` have safety properties only.
- `FmvTransport`: weak fairness of each thread, strong fairness of `Decode` for
  a file that can be read at times. Nothing is assumed of the pads.

## 5. Proofs

Each proof module has an inductive invariant (`IInv`), an `Init` lemma, step
lemmas with one case per action, and theorems that combine them. Where a property
needs the contents of a buffer as well as its positions, a second invariant is
built on the first (`PInv`, `SInv`, `RInv`).

- `AudioArbiterProofs`: `IInv` is the properties of the run together with what
  ties them: the generation in a descriptor is its slot's counter, a free
  descriptor has no blocks, a history's i-th last entry is the generation i
  steps back (so none of them equals the current one), and no VM holds a dead
  handle, which exact counts need. The sets of holders and of voices change by
  one element or by the stopped tracks; lemmas about cardinalities of those
  changes carry the counts. From the assumptions on the constants only: finite
  blocks and VMs, more than two generations. The refinement of `ObjectLifetime`
  uses the same invariant: an object is live exactly while its users, read off
  the VMs' and voices' handles, are not empty, and every step is a create, a
  join, some users' leaving, or none of these.
- `AudioArbiterProofs`, on copies. A mask is read as the set of its pixels: the rows'
  words under the two boxes' overlap, shifted and met, have exactly the pixels both
  masks have set there, so the scan's first hit in each order is the extreme of that
  set; a derived mask is the union of its sprites' opaque pixels inside the box. A
  strip is looked up in rows or in transposed columns, which number the same tile,
  wrapped or clamped alike. `CopiesAgree` follows for every question.
- `AudioArbiterProofs`, on the free map. `MapHolds` ties the words and the hint to a
  set of bits: no bit of the ragged last word's padding is set, and below the hint's
  word none is free. It is kept by every call; `FirstClear` then scans to the least
  free bit, and `Ctz` finds the least bit of a word because each halving either
  keeps it in the lower half or moves past a half without it, for any list of halves
  that ends in 1 and at most doubles (`BitsetAssumption`).
- `AudioArbiterProofs`, on the pool's bytes. `PoolHolds` says that each slot in use
  has a chain without repetition, as long as its size needs; that chains do not meet
  and make up the blocks the free map has set; that a slot in use has one live
  object, whose bytes are at its chain's places; and that a handle that was freed is
  older than its slot. An allocation keeps it because a block it links was free, so
  in no chain; a write because the places of different offsets and of different
  chains differ (`PlaceTells`, `PlacesApart`); a free because a chain walked from its
  head is the whole chain. What a read, a music player's frames and the free counter
  give follows; `StreamsKnown` is the same for the two streams' ids.
- `AudioRingProofs`: the fill plus the copy under way never exceeds the
  capacity, in the cursors' modular arithmetic; slots of cursors less than a
  ring apart differ, also across the wrap, because the capacity divides the
  word. No shared slot follows. `CopiesRight` then says what the copies hold:
  behind the published frames lie the next ones of the stream, as many as the
  push has copied, and what a read has copied is the front of the ring; a write
  to one slot leaves the others as they are, since they differ. With the ring's
  contents read as the frames from the read cursor to the write cursor, a
  published write cursor appends, a published read cursor takes the front, and
  every other step is a stutter: the ring implements `AudioQueue`.
- `MusicPlayerProofs`: types with the sizes of buffer and channel, and the
  latency cap of an update. It needs that the player's segment survives a
  pause. For the score, `SInv` walks the way of a frame: from the frame handed over
  last through the rest of the head and the staging buffer each frame follows the
  one before it, and the next refill goes on where the buffer ends. With heads a
  frame may also come again, since the refill goes back by what was played of the
  head; it never goes past the last frame ahead. A segment's end keeps `SInv`
  because nothing is ahead then and the next segment starts at its beginning.
- `MediaServiceProofs`: types with the ranges of all positions, and the
  agreement of the four layers. It needs that an offload's run still fits its
  ring and source when it ends (`JobFits`). `RInv` adds the contents: of the
  cells behind the write position, as many as the ring has been filled with are
  the source's frames up to the file position; a channel is as far behind the
  write position as it has frames to play; and the cells an offload in progress
  writes are ahead of all of these (`JobBehind`), since a ring is filled to one
  chunk short of its end only. What a channel reads next is then the successor of
  what it read before, also where ring or source begins again.
- `FmvTransportProofs`: `w` plus a unit the reader has decided on, minus `r`,
  is at most one lead for every flush that pops undid in a row, and one more; the
  same holds from the counter the console's thread has loaded, which a flush may
  have passed. The number of seeks is not bounded by any assumption: a flush
  outside a pop empties the queue, and when the reader wants another unit and the
  console has caught up (`CaughtUp`), nothing that a flush left is queued, so the
  count starts again. Where the slot being copied is concerned the statements
  have the condition `HasRoom`, that this distance fits the FIFO: then the slot
  copied is not the one being decoded (`NoFrameTorn`), and, as the slots hold the
  last `Depth` frames and the picture is older than the next pop, no frame is
  taken twice (`FramesTakenOnce`). The condition is needed: beyond it a slot is torn
  (`NeverTorn`, above). With the code's numbers (48 slots, a lead of 4 unless set
  otherwise) it means fewer than twelve flushes undone in a row with their
  frames still queued; a lead over 24 leaves room for none. That the bands below the
  current one are of the picture gives whole frames, with no condition. The only
  assumption about sizes is that a lead fits the FIFO.
- `FrameHandshakeProofs`: while nothing is reset, READY is 0 or the published
  buffer, and the published one is not the one the producers stage next: the one
  flips only in `FrameDone`, after the kernel has used the other. It needs that a
  kernel that is held has nothing latched (`Off`), which a reset sets and its end
  keeps. From any modes, frames, tiles, bursts and number of resets. For the modes
  whose frames take several bursts, `PInv` follows a frame: what was sent of the
  hidden picture is in video memory, up to the slot the kernel is at, and the
  front picture is of one frame until its last burst runs. Only that burst
  writes the tiles the two pictures share, and its last slot flips; the frame in
  front is the one before the frame being sent, so pictures are flipped in order.
  After a reset nothing is published and video memory is empty, and no picture is
  on screen while that lasts. What this needs of the film's bands (together they
  are a picture, only the last reaches the other picture's tiles) is part of
  `HandshakeAssumption`, as `fmv_band_run()` has it.
- `FrameHandshakeProofs`, last part, about the picture source `ScrollMap`.
  `MapInv`: the tilemap of a layer that is up to date is, once the staged body
  has run, the map over the window the layer's record names; a field that is not
  black is staged when all layers are, and scrolls to their windows. Strips
  keep it because no two positions of a window share a slot and what entered and
  what stayed make up the new window, strips being no wider than the tilemap
  (`ScrollAssumption`); a refill keeps it because it covers the window; and a
  layer that has to wait is not up to date. `BurstFits` is about the sum over the
  layers. A layer that is up to date is where the camera was a field ago (`Follows`),
  so it moves by a tile at most and asks for a column and a row, unless its camera
  wraps or the area changes: then it is too far for strips (`WrapsFar`, `AreasFar`)
  and asks for a refill, which only the first such layer gets (`OneRefill`). With
  what a blank carries (`BlankCarries`) and the code's two layers the bound follows.
  `MCScrollMap` assumes these of its instance (`MCFits`), so TLC evaluates them.
- `AudioServiceProofs`: the calls are functions of the service's state, so
  there is one lemma per call that it keeps `SvcOK`, and a step composes them.
  Slots in use and streams correspond one to one, so that by the pigeonhole
  principle a stream that has got a track finds a free slot; a file is open
  exactly in a slot in use that reads one, since a start that fails gives slot and
  file back and claims no track; the frames in a channel are of the voice
  that holds its track, because a channel is emptied before its track is given
  again; and a window whose handle is of every stream stops it before it starts
  another. A render takes the slots in order, and what the ring has left for one
  depends on those before it: the proof holds for any such amounts.
- `MixerChannelProofs`: every tap from the current one on is the frame as far into
  the ring, also where it is silence (`InStep`), which writing keeps because it
  appends, and advancing keeps because taps and ring shift by the same number;
  the property then says so of taps that are not silent. For `KeepsTime` the
  theorem assumes that a step passes no more frames than the window holds, that
  is no source over twice the output's rate: beyond, the code's clamp plays slow.
  `QueueInOrder` says what the ring holds: the last frames written, none missing
  or doubled. The last part is about `MixerMath`'s operators, for every sample,
  gain, phase and observation: a rounded fraction of a number lies between it and
  zero (`PartBetween`, `CutBetween`), so gains and pans never amplify, the line lies
  between its taps, and a correction never passes the error it moves toward.

Types are proved for the arbiter, the ring, the music player, the media service,
the film, the frame handshake and the audio service (`TypeCorrect`); the mixer's are
part of its invariant (`Shapes`), and the map's `MapTypeOK` can be checked by naming
it as an INVARIANT of its run.

**Induction over data.** The prover has no induction over an operator, but a set of
numbers that contains 0 and with each number its successor is an ordinary fact. So a
fold is first turned into a table (`FoldTable`, `SumTable`): the function from
0 .. n whose values are those of the partial folds exists, since it can be extended
by one, and the fold is its last value. What is then proved of the table, entry by
entry, holds of the fold. Masks, chains, sums over objects and layers, and the
halvings of `Ctz` are done this way.

**Assumptions on constants** beside those named above are sizes (`MaskAssumption`,
`GeometryAssumption`, `PoolBytesAssumption`, `StoresAssumption`): words and blocks are
not empty, masks are at most a word wide, questions are about whole numbers.

**Only model-checked**: liveness (`FinishedVoiceReaped`, `IntroEnds`,
`FilmPlaysOn`, `FramesKeepComing`, `SfxEnds`, `Drains`), which the prover does
not cover; the map's `MapTypeOK`; and of the algorithms the rasteriser
(`FrameShowsPicture`), collision and rotation (`CollisionRight`, `ShapesKept`), sound
and files (`SoundIsFaithful`, `FilesReadBack`), the overlay (`OverlayShows`) and the
developer's tools (`ToolsCarry`). Their references hold on the questions of the run
because of the numbers there: products of rounded fixed-point factors, tolerances,
and files taken apart by folds over bytes have no bound that holds for all constants,
or one that needs more arithmetic than the provers have. Of the mixer's arithmetic
the theorems above say what does not depend on that.

## 6. What is abstracted and what is not modelled

- In the models of order, samples, tiles and file contents are names and
  numbers. `MixerMath`, `WavFile`, `Spectrum`, `Raster` and the others have the
  data, on small instances: fewer bits, smaller tiles and windows, the operations
  as they are.
- Sizes in `AudioPool` are small numbers of blocks; `PoolBytes` has the bytes.
  The rounding of a size near 2^32 is out of reach: no pool of a run is that big.
- A file source in `MusicPlayer` delivers until its end; reads do not fail.
- `MediaService` takes whole commands; the mailbox they come through is not
  modelled. A lost prime is a choice, not a timing.
- In `FmvTransport` the console strobes after it has used a band; when it does is
  `FrameHandshake`'s. The position in the film (`cur`) is modelled, what is in a
  unit is not. The module is the threaded build.
- `AudioService` runs its calls one after the other. With the WASAPI worker,
  render and feed share a lock, but the audio commands do not take it: the
  interleavings that allows are not modelled, nor is the worker's drift loop.
- `Metered` and `SpriteTick` leave out palettes and the choice of a hole's colour,
  the table leaves out where across the screen a band is, and a shot's sound has its
  side only.
- The kernel's boot, hand-over and pads; the window's boot markers.

Not modelled: the FPGA cores other than the mixer's sequencer (datapaths their
test benches compare bit by bit with C references) and the inherited base; the
emulator bridge (it forwards calls); the host's audio sink; the firmware's mode
switch, an earlier glue over the ring arbiter that `MediaService` models under
its successor; mass storage and bring-up; the film encoder and the other offline
tools.

## 7. Plan

Done: pool, arbiter and lifetime first, since everything that sounds goes through
them; ring, player, media service and film, each with its proofs; then the frame
handshake and the mixer channel with proofs, the scrolling map, the audio service
and the algorithms.

Then the contents behind the positions: what rings, queues and video memory hold,
the refinement of `AudioQueue`, and the theorems of the map and the audio service.

Then what the algorithms' copies and stores hold: masks, maps, the free map and the
pool's bytes, and the bound on a field of the map.

Next proofs, in the modules that hold proofs now: the cubic interpolator's bounds
(`Cubic` with its taps an eighth apart, which needs bounds on products of three
rounded factors); the mix of any number of channels that do not saturate; the
packer's round trip and the loader's bounds (`PackedUnpacks`, `LoadedWhole`), with
the tables that the pool's folds have.

Next models: the command mailbox of `hx_cmdbox.v` with `fw_cmd_poll()`; a source
that fails in `MusicPlayer`; in `FmvTransport` the seek that is erased between
read and clear, and the audio dropped for a frame popped early; the audio
commands against the WASAPI worker.
