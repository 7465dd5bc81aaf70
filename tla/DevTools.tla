------------------------------ MODULE DevTools ------------------------------
(***************************************************************************)
(* What a developer's cartridge rests on: the loader of a game and the     *)
(* memory it gets (firmware/dev/hx421_loader.c, hx421_sysimpl.c), its      *)
(* terminal (hx421_term.c), and the packer of the FPGA's bitstream         *)
(* (tools/hx421_rlepack.c).                                                *)
(***************************************************************************)
EXTENDS Integers, Sequences, FiniteSets, FiniteSetsExt, SequencesExt, Functions

CONSTANTS
  Abi,         \* HX421_ABI_MAJOR
  Region,      \* bytes of the memory of a game
  Reserve,     \* of which its stack needs
  HeaderSize,  \* sizeof(Hx421GameHeader)
  RunByte,     \* the values of a byte, in the length of a run (256)
  TxSize,      \* HX421_TERM_TX_SIZE
  LineMax,     \* HX421_TERM_LINE_MAX
  MaxArgs,     \* HX421_TERM_MAX_ARGS
  ArenaSize    \* bytes of the arena of a game

(***************************************************************************)
(* hx421_loader.c.                                                         *)
(***************************************************************************)
Junk == -1   \* what was in the memory before
FreshRegion == [i \in 0 .. Region - 1 |-> Junk]

\* The checks on a header, in their order; what the whole file has is known when
\* it is in memory only.
HeaderResult(h, checkLength, length) ==
  CASE checkLength /\ length < HeaderSize -> "short"
    [] h.magic # "HXG1" -> "magic"
    [] h.abi # Abi -> "abi"
    [] checkLength /\ length - HeaderSize < h.load -> "short"
    [] h.load = 0 \/ h.entry >= h.load -> "entry"
    [] h.load > Region \/ h.bss > Region - h.load \/ Reserve > Region - h.load - h.bss -> "big"
    [] OTHER -> "ok"

\* The image copied and the bss cleared; of a short image what there is of it.
Filled(h, image, whole) ==
  [i \in 0 .. Region - 1 |->
     IF i < Min({h.load, Len(image)}) THEN image[i + 1]
     ELSE IF whole /\ i \in h.load .. h.load + h.bss - 1 THEN 0 ELSE Junk]

\* hx421_loader_place().
Place(h, length, image) ==
  LET r == HeaderResult(h, TRUE, length)
  IN  [result |-> r, region |-> IF r = "ok" THEN Filled(h, image, TRUE) ELSE FreshRegion]

\* read_full(): pieces of a file until there are enough or there is no more.
ReadFull(pieces, n) ==
  LET before == {i \in DOMAIN pieces : \A j \in 1 .. i : pieces[j] > 0}
  IN  Min({n, SumFunctionOnSet(pieces, before)})

\* hx421_loader_place_stream(): the image goes where it runs as it is read.
PlaceStream(h, length, image, pieces) ==
  LET r == IF length < HeaderSize THEN "short" ELSE HeaderResult(h, FALSE, length)
      got == Min({Len(image), ReadFull(pieces, h.load)})
  IN  IF r # "ok" THEN [result |-> r, region |-> FreshRegion]
      ELSE [result |-> IF got # h.load THEN "short" ELSE "ok",
            region |-> Filled(h, SubSeq(image, 1, got), got = h.load)]

(***************************************************************************)
(* hx421_sysimpl.c: the arena.                                             *)
(***************************************************************************)
NoLast == -1
ArenaInit == [top |-> 0, last |-> NoLast, peak |-> 0]
Aligned(n) == IF n = 0 THEN 4 ELSE ((n + 3) \div 4) * 4

\* hx421_arena_alloc(): the block it returns, or NoLast.
ArenaAlloc(a, n) ==
  IF Aligned(n) > ArenaSize - a.top THEN [arena |-> a, at |-> NoLast]
  ELSE [arena |-> [top |-> a.top + Aligned(n), last |-> a.top, peak |-> Max({a.peak, a.top + Aligned(n)})],
        at |-> a.top]
\* hx421_arena_free(): only the block that came last is taken back.
ArenaFree(a, at) == IF at = a.last THEN [a EXCEPT !.top = a.last, !.last = NoLast] ELSE a

(***************************************************************************)
(* hx421_rlepack.c.                                                        *)
(***************************************************************************)
Run == 91        \* RLE_RUN
RunLong == 119   \* RLE_RUNLONG
Escape == 155    \* RLE_ESC
LenThresh == 3
LongestRun == RunByte * RunByte - 1

\* Bug: the length is that of the bytes after the first.
CodedRunRest(d, n) ==
  IF n > LenThresh
  THEN IF n < RunByte THEN <<Run, d, n - 1>> ELSE <<RunLong, d, (n - 1) % RunByte, (n - 1) \div RunByte>>
  ELSE (IF d \in {Run, RunLong, Escape} THEN <<Escape>> ELSE <<>>) \o <<d>>

\* encode(): the code of a run of n bytes of d.
CodedRun(d, n) ==
  IF n > LenThresh
  THEN IF n < RunByte THEN <<Run, d, n>> ELSE <<RunLong, d, n % RunByte, n \div RunByte>>
  ELSE (IF d \in {Run, RunLong, Escape} THEN <<Escape>> ELSE <<>>) \o <<d>>

\* The length of the run at a place; a short run is coded a byte at a time.
RunAt(in, i) ==
  Min({LongestRun} \cup {n \in 1 .. Len(in) - i + 1 :
                           i + n > Len(in) \/ in[i + n] # in[i]})
Encode(in) ==
  FoldLeft(LAMBDA c, i :
             IF i < c.at THEN c
             ELSE LET run == RunAt(in, i)
                  IN  [out |-> c.out \o CodedRun(in[i], run),
                       at |-> i + IF run > LenThresh THEN run ELSE 1],
           [out |-> <<>>, at |-> 1], [i \in DOMAIN in |-> i]).out

\* decode(), as the firmware of the cartridge does it: one byte, then the rest.
DecodeStep(in, c) ==
  LET Value(i) == in[c.at + i]
      Rest == CASE in[c.at] = Run -> [data |-> Value(1), rest |-> Value(2) - 1, took |-> 3]
                [] in[c.at] = RunLong ->
                     [data |-> Value(1), rest |-> Value(2) + RunByte * Value(3) - 1, took |-> 4]
                [] in[c.at] = Escape -> [data |-> Value(1), rest |-> 0, took |-> 2]
                [] OTHER -> [data |-> in[c.at], rest |-> 0, took |-> 1]
  IN  [out |-> c.out \o [i \in 1 .. Rest.rest + 1 |-> Rest.data], at |-> c.at + Rest.took]
Decode(in) ==
  FoldLeft(LAMBDA c, i : IF i < c.at THEN c ELSE DecodeStep(in, c),
           [out |-> <<>>, at |-> 1], [i \in DOMAIN in |-> i]).out

(***************************************************************************)
(* hx421_term.c.                                                           *)
(***************************************************************************)
Prompt == <<"prompt">>  \* one cell of the screen stands for it
EraseOnScreen == <<"left", " ", "left">>

TermInit == [tx |-> <<>>, dropped |-> 0, line |-> <<>>, words |-> <<>>]

\* hx421_term_write(): what does not fit is dropped and counted.
TermWrite(t, bytes) ==
  LET n == Min({Len(bytes), TxSize - Len(t.tx)})
  IN  [t EXCEPT !.tx = @ \o SubSeq(bytes, 1, n), !.dropped = @ + Len(bytes) - n]

\* hx421_term_drain(): the sink takes n bytes and then no more.
TermDrain(t, n) == [t EXCEPT !.tx = SubSeq(@, n + 1, Len(@))]

\* dispatch(): words end at a blank; when there are as many as there may be, the
\* last is left with all that follows it.
WordsOf(line) ==
  LET starts == {i \in DOMAIN line : line[i] # " " /\ (i > 1 => line[i - 1] = " ")}
      kth == SetToSortSeq(starts, <)
      EndOf(i) == Min({j \in i .. Len(line) : j = Len(line) \/ line[j + 1] = " "})
  IN  [k \in 1 .. Min({Len(kth), MaxArgs}) |->
         SubSeq(line, kth[k], IF k = MaxArgs THEN Len(line) ELSE EndOf(kth[k]))]

\* hx421_term_rx().
TermKey(t, key) ==
  CASE key = "enter" ->
         LET heard == IF t.line = <<>> THEN t ELSE [t EXCEPT !.words = WordsOf(t.line)]
         IN  TermWrite([TermWrite(heard, <<"return", "newline">>) EXCEPT !.line = <<>>], Prompt)
    [] key = "erase" ->
         IF t.line = <<>> THEN t ELSE TermWrite([t EXCEPT !.line = Front(@)], EraseOnScreen)
    [] key = "kill" ->
         FoldLeft(LAMBDA u, i : TermWrite(u, EraseOnScreen), [t EXCEPT !.line = <<>>], t.line)
    [] OTHER ->
         IF Len(t.line) < LineMax - 1 THEN TermWrite([t EXCEPT !.line = Append(@, key)], <<key>>) ELSE t
=============================================================================
