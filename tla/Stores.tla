------------------------------- MODULE Stores -------------------------------
(***************************************************************************)
(* Questions to what keeps bytes: the pool of samples and its free map,    *)
(* and a developer's loader, arena, terminal and packer.                   *)
(***************************************************************************)
EXTENDS Questions, PoolBytes, DevTools

CONSTANTS
  MaxCalls,   \* calls of the pool
  Sizes,      \* sizes of objects
  Typed,      \* what is on the line of the terminal at first
  MaxKeys,    \* keys pressed after that
  Keys,
  Lengths     \* of the runs of a bitstream

\* A question ends before the generations of a slot come round: a handle that is
\* older than that may name the slot's object again (audio_pool.c:8-13).
ASSUME StoresAssumption == Sizes \in SUBSET Nat /\ MaxCalls \in Nat /\ MaxCalls <= SlotGens - 2

(***************************************************************************)
(* The free map: any sequence of calls.                                    *)
(***************************************************************************)
BitQuestions == [ask : {"bits"}]
StartBits == [bs |-> BitInit, in |-> {}]

AnswerBits ==
  LET now == IF answer = <<>> THEN StartBits ELSE answer
      found == FirstClear(now.bs)
  IN  /\ question.ask = "bits"
      /\ answer' \in
           {[bs |-> BitSet(now.bs, i), in |-> now.in \cup ({i} \cap 0 .. SetBits - 1)] : i \in 0 .. SetBits}
             \cup {[bs |-> BitClear(now.bs, i), in |-> now.in \ {i}] : i \in 0 .. SetBits}
             \cup {[bs |-> SetAll(now.bs), in |-> 0 .. SetBits - 1],
                   [bs |-> ClearAll(now.bs), in |-> {}],
                   IF found.bit = NoBit THEN now
                   ELSE [bs |-> BitSet(found.bs, found.bit), in |-> now.in \cup {found.bit}]}
      /\ UNCHANGED <<question, answered>>

\* The map finds a free block whenever there is one, and the lowest, wherever
\* the hint is and however ragged the last word; its count and its first block
\* in use are right (bitset_find_first_clear, alloc_one_block's "shouldn't happen").
FreeBitFound ==
  (question.ask = "bits" /\ answer # <<>>) =>
    LET free == 0 .. SetBits - 1 \ answer.in
    IN  /\ FirstClear(answer.bs).bit = IF free = {} THEN NoBit ELSE Min(free)
        /\ FirstSet(answer.bs) = IF answer.in = {} THEN NoBit ELSE Min(answer.in)
        /\ Popcount(answer.bs) = Cardinality(answer.in)
        /\ \A i \in 0 .. SetBits : BitTest(answer.bs, i) <=> i \in answer.in

(***************************************************************************)
(* The pool: objects are loaded, changed and freed.                        *)
(***************************************************************************)
PoolQuestions == [ask : {"pool"}]
StartPool == [pool |-> BytesInit, calls |-> 0, live |-> {}, dead |-> {}]
NowPool == IF answer = <<>> THEN StartPool ELSE answer

\* An object is loaded whole, with bytes that no other has.
LoadObject(now, size) ==
  LET made == AllocBytes(now.pool, size)
      bytes == [i \in 1 .. size |-> 10 * (now.calls + 1) + i]
  IN  IF made.handle = NoHandleHere THEN now
      ELSE [now EXCEPT !.pool = WriteBytes(made.pool, made.handle, 0, bytes),
                       !.live = @ \cup {[handle |-> made.handle, bytes |-> bytes]}]
\* More bytes than there is room for are written into an object.
PatchObject(now, o, offset) ==
  LET patch == [i \in 1 .. BlockSize + 1 |-> 10 * (now.calls + 1) + i]
      kept == [i \in DOMAIN o.bytes |->
                 IF i - offset \in DOMAIN patch THEN patch[i - offset] ELSE o.bytes[i]]
  IN  [now EXCEPT !.pool = WriteBytes(now.pool, o.handle, offset, patch),
                  !.live = (@ \ {o}) \cup {[o EXCEPT !.bytes = kept]}]
DropObject(now, o) ==
  [now EXCEPT !.pool = FreeBytes(now.pool, o.handle), !.live = @ \ {o}, !.dead = @ \cup {o.handle}]

AnswerPool ==
  LET now == NowPool
  IN  /\ question.ask = "pool" /\ now.calls < MaxCalls
      /\ \E after \in {LoadObject(now, size) : size \in Sizes}
                        \cup {PatchObject(now, o, offset) : o \in now.live, offset \in {1, BlockSize}}
                        \cup {DropObject(now, o) : o \in now.live} :
           answer' = [after EXCEPT !.calls = now.calls + 1]
      /\ UNCHANGED <<question, answered>>

\* An object holds what was written into it and not a byte of another, from any
\* offset and across the blocks of its chain, wherever the free map had found
\* them; a freed one reads nothing; and the music player gets its whole frames
\* (audio_pool_write, audio_pool_read, audio_pool_stream_read).
BytesKept ==
  (question.ask = "pool" /\ answer # <<>>) =>
    /\ \A o \in answer.live :
         LET size == Len(o.bytes)
             ctx == Bind(StreamsInit, 7, o.handle)
         IN  \A offset \in 0 .. size, n \in 0 .. size + 1 :
               LET have == SubSeq(o.bytes, offset + 1, Min({offset + n, size}))
                   frames == StreamFrames(answer.pool, ctx, 7, offset, n, FALSE)
               IN  /\ ReadBytes(answer.pool, o.handle, offset, n) = have
                   /\ FlattenSeq(frames) = SubSeq(o.bytes, 2 * offset + 1,
                                             Min({2 * (offset + n), 2 * (size \div 2)}))
    /\ \A h \in answer.dead : ReadBytes(answer.pool, h, 0, 1) = <<>>
    /\ FreeBlocks(answer.pool)
         = SetBits - MapThenSumSet(LAMBDA o : Needed(Len(o.bytes)), answer.live)

(***************************************************************************)
(* The ids of the streams.                                                 *)
(***************************************************************************)
BindQuestions == [ask : {"bind"}]
StreamHandles == {NoHandleHere, [slot |-> 1, gen |-> 1], [slot |-> 2, gen |-> 1]}

AnswerBind ==
  LET now == IF answer = <<>> THEN [ctx |-> StreamsInit, bound |-> [id \in 1 .. 3 |-> NoHandleHere]]
             ELSE answer
      Count == Cardinality({id \in 1 .. 3 : now.bound[id] # NoHandleHere})
  IN  /\ question.ask = "bind"
      /\ \E id \in 1 .. 3, h \in StreamHandles :
           answer' = [ctx |-> Bind(now.ctx, id, h),
                      bound |-> IF now.bound[id] = NoHandleHere /\ Count = 2 THEN now.bound
                                ELSE [now.bound EXCEPT ![id] = h]]
      /\ UNCHANGED <<question, answered>>

\* An id gives the object it was bound to last, and two ids at a time are heard
\* (audio_pool_stream_bind).
StreamsBound ==
  (question.ask = "bind" /\ answer # <<>>) =>
    \A id \in 1 .. 3 : HandleBound(answer.ctx, id) = answer.bound[id]

(***************************************************************************)
(* A game is loaded from memory and from its file.                         *)
(***************************************************************************)
LoadQuestions ==
  [ask : {"load"}, length : 0 .. HeaderSize + Region + 1, pieces : {<<99>>, <<1, 2, 99>>, <<2, 0, 99>>},
   header : [magic : {"HXG1"}, abi : {Abi}, load : 0 .. Region + 1, bss : 0 .. Region, entry : {0, 2}]
              \cup [magic : {"HXG1", "other"}, abi : {Abi, Abi + 1}, load : {2}, bss : {1}, entry : {1}]]
Image(q) == [i \in 1 .. q.length - HeaderSize |-> 10 + i]

AnswerLoad ==
  Answers("load", [memory |-> Place(question.header, question.length, Image(question)),
                   file |-> PlaceStream(question.header, question.length, Image(question),
                                        question.pieces)])

\* A game that runs is whole, its variables zero, its entry in it, and all of it
\* clear of its stack; memory and file agree on it; and nothing else is touched
\* (hx421_loader_place, hx421_loader_place_stream).
LoadedWhole ==
  Answered("load") =>
    LET h == question.header
        image == Image(question)
        fits == h.load + h.bss + Reserve <= Region
        good == h.magic = "HXG1" /\ h.abi = Abi /\ h.entry < h.load /\ fits
                  /\ question.length >= HeaderSize + h.load
    IN  /\ answer.memory.result = "ok" <=> good
        /\ answer.file.result = "ok" <=> good /\ (0 \in ToSet(question.pieces) => h.load <= 2)
        /\ \A placed \in {answer.memory, answer.file} :
             /\ placed.result = "ok" =>
                  \A i \in 0 .. Region - 1 :
                    placed.region[i] = IF i < h.load THEN image[i + 1]
                                       ELSE IF i < h.load + h.bss THEN 0 ELSE Junk
             /\ \A i \in Region - Reserve .. Region - 1 : placed.region[i] = Junk

(***************************************************************************)
(* The arena of a game.                                                    *)
(***************************************************************************)
ArenaQuestions == [ask : {"arena"}]

AnswerArena ==
  LET now == IF answer = <<>> THEN [arena |-> ArenaInit, live |-> {}] ELSE answer
  IN  /\ question.ask = "arena"
      /\ \/ \E n \in {0, 1, 4, 7} :
              LET got == ArenaAlloc(now.arena, n)
              IN  answer' = [arena |-> got.arena,
                             live |-> now.live \cup (IF got.at = NoLast THEN {}
                                                     ELSE {[at |-> got.at, n |-> n]})]
         \/ \E b \in now.live :
              answer' = [arena |-> ArenaFree(now.arena, b.at), live |-> now.live \ {b}]
      /\ UNCHANGED <<question, answered>>

\* The blocks a game holds are apart, aligned and in the arena, and the high mark
\* is above them all (hx421_arena_alloc, hx421_arena_free).
BlocksApart ==
  (question.ask = "arena" /\ answer # <<>>) =>
    \A b \in answer.live :
      /\ b.at % 4 = 0 /\ b.at + b.n <= answer.arena.peak /\ answer.arena.peak <= ArenaSize
      /\ \A c \in answer.live \ {b} : b.at # c.at /\ (b.at < c.at => b.at + b.n <= c.at)

(***************************************************************************)
(* The bitstream, packed.                                                  *)
(***************************************************************************)
RunsOf == {Run, Escape, 0} \X Lengths
PackQuestions == [ask : {"pack"}, runs : (RunsOf \X RunsOf) \cup (RunsOf \X RunsOf \X ({RunLong} \X {1, 5}))]
Bytestream(runs) == FlattenSeq([i \in DOMAIN runs |-> [j \in 1 .. runs[i][2] |-> runs[i][1]]])

AnswerPack ==
  LET in == Bytestream(question.runs)
  IN  Answers("pack", [packed |-> Encode(in), back |-> Decode(Encode(in))])

\* What is packed unpacks to itself on the cartridge, bytes that look like codes
\* and runs of every length included, and fits in the room there is for it
\* (encode, decode, "Worst case is 2 bytes per input byte").
PackedUnpacks ==
  Answered("pack") =>
    LET in == Bytestream(question.runs)
    IN  answer.back = in /\ Len(answer.packed) <= 2 * Len(in)

(***************************************************************************)
(* The terminal.                                                           *)
(***************************************************************************)
KeyQuestions == [ask : {"keys"}, typed : Typed, slow : BOOLEAN]
StartTerm ==
  [t |-> [FoldLeft(TermKey, TermInit, question.typed) EXCEPT !.tx = <<>>], out |-> question.typed,
   heard |-> <<>>, entered |-> FALSE, keys |-> 0]

\* A key, and then the sink takes a byte or all there is.
AnswerKeys ==
  LET now == IF answer = <<>> THEN StartTerm ELSE answer
  IN  /\ question.ask = "keys" /\ now.keys < MaxKeys
      /\ \E key \in Keys :
           LET pressed == TermKey(now.t, key)
               took == IF question.slow THEN Min({1, Len(pressed.tx)}) ELSE Len(pressed.tx)
           IN  answer' = [t |-> TermDrain(pressed, took),
                          out |-> now.out \o SubSeq(pressed.tx, 1, took),
                          heard |-> IF key = "enter" THEN now.t.line ELSE now.heard,
                          entered |-> now.entered \/ key = "enter",
                          keys |-> now.keys + 1]
      /\ UNCHANGED <<question, answered>>

\* A screen that is sent these bytes: the line the cursor is on.
Screen(bytes) ==
  FoldLeft(LAMBDA screen, b :
             CASE b = "newline" -> [screen EXCEPT !.cells = <<>>]
               [] b = "return" -> [screen EXCEPT !.col = 0]
               [] b = "left" -> [screen EXCEPT !.col = @ - 1]
               [] OTHER -> [cells |-> IF screen.col < Len(screen.cells)
                                      THEN [screen.cells EXCEPT ![screen.col + 1] = b]
                                      ELSE Append(screen.cells, b),
                            col |-> screen.col + 1],
           [cells |-> <<>>, col |-> 0], bytes)
NotBlank(line) == SelectSeq(line, LAMBDA c : c # " ")

\* Once all has been sent, the screen shows the line that enter would send, with
\* the cursor behind it, unless bytes were dropped and counted; and the words of
\* a command are those of the line that was entered
\* (hx421_term_rx, hx421_term_write, dispatch).
ScreenShowsLine ==
  (question.ask = "keys" /\ answer # <<>>) =>
    LET line == (IF answer.entered THEN Prompt ELSE <<>>) \o answer.t.line
        screen == Screen(answer.out \o answer.t.tx)
        words == answer.t.words
    IN  /\ answer.t.dropped = 0 =>
             /\ screen.col = Len(line) /\ SubSeq(screen.cells, 1, screen.col) = line
             /\ \A i \in screen.col + 1 .. Len(screen.cells) : screen.cells[i] = " "
        /\ answer.heard # <<>> =>
             /\ FlattenSeq([i \in DOMAIN words |-> NotBlank(words[i])]) = NotBlank(answer.heard)
             /\ \A i \in 1 .. Len(words) - 1 : words[i] # <<>> /\ " " \notin ToSet(words[i])
             /\ NotBlank(answer.heard) # <<>> => words[1][1] # " "

\* The pool gives back the bytes it was given, and finds room while there is any
\* (audio_pool.c, audio_pool_stream.c, bitset.c).
PoolKeepsBytes == FreeBitFound /\ BytesKept /\ StreamsBound

\* A developer's tools do not harm what they carry: a game, its memory, a line, a
\* bitstream (hx421_loader.c, hx421_sysimpl.c, hx421_term.c, hx421_rlepack.c).
ToolsCarry == LoadedWhole /\ BlocksApart /\ PackedUnpacks /\ ScreenShowsLine

AskStores ==
  \/ question \in BitQuestions
  \/ question \in PoolQuestions
  \/ question \in BindQuestions
  \/ question \in LoadQuestions
  \/ question \in ArenaQuestions
  \/ question \in PackQuestions
  \/ question \in KeyQuestions
=============================================================================
