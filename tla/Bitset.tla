------------------------------- MODULE Bitset -------------------------------
(***************************************************************************)
(* containers/bitset.c, the free map of the sample pool, and the counting  *)
(* of math/bits.h it rests on: words of SetWord bits, of which the last    *)
(* may hold fewer, and a hint, the word where a clear bit was found last.  *)
(*                                                                         *)
(* A word is the set of its one bits.                                      *)
(***************************************************************************)
EXTENDS Integers, Sequences, FiniteSets, FiniteSetsExt, SequencesExt

CONSTANTS
  SetBits,   \* nbits
  SetWord,   \* WORD_BITS
  SetHalves  \* the shifts of a count of zeros: <<SetWord / 2, ..., 2, 1>>

\* Every shift is at least half of what is left to count.
ASSUME BitsetAssumption ==
  /\ SetBits \in Nat \ {0} /\ SetWord \in Nat \ {0}
  /\ SetHalves \in Seq(Nat \ {0}) /\ SetHalves # <<>>
  /\ SetWord <= 2 * SetHalves[1] /\ SetHalves[Len(SetHalves)] = 1
  /\ \A i \in 1 .. Len(SetHalves) - 1 : SetHalves[i] <= 2 * SetHalves[i + 1]

Ones == 0 .. SetWord - 1
Words == 0 .. (SetBits + SetWord - 1) \div SetWord - 1
LastWord == Cardinality(Words) - 1
NoBit == -1

\* tail_mask(): the bits of the last word that count.
TailMask == IF SetBits % SetWord = 0 THEN Ones ELSE 0 .. (SetBits % SetWord) - 1
Valid(w) == IF w = LastWord THEN TailMask ELSE Ones

\* bits_ctz32(): a half that is empty is counted and shifted away.
Ctz(word) ==
  IF word = {} THEN SetWord
  ELSE FoldLeft(LAMBDA c, half :
                  IF c.word \cap (0 .. half - 1) = {}
                  THEN [n |-> c.n + half, word |-> {b - half : b \in c.word}]
                  ELSE c,
                [n |-> 0, word |-> word], SetHalves).n

BitInit == [words |-> [w \in Words |-> {}], hint |-> 0]
ClearAll(bs) == [words |-> [w \in Words |-> {}], hint |-> 0]
SetAll(bs) == [words |-> [w \in Words |-> Valid(w)], hint |-> 0]

BitSet(bs, i) ==
  IF i >= SetBits THEN bs
  ELSE [bs EXCEPT !.words[i \div SetWord] = @ \cup {i % SetWord}]

\* A bit cleared before the hint takes the hint back.
BitClear(bs, i) ==
  IF i >= SetBits THEN bs
  ELSE [words |-> [bs.words EXCEPT ![i \div SetWord] = @ \ {i % SetWord}],
        hint |-> IF i \div SetWord < bs.hint THEN i \div SetWord ELSE bs.hint]

BitTest(bs, i) == i < SetBits /\ (i % SetWord) \in bs.words[i \div SetWord]
Popcount(bs) == MapThenSumSet(LAMBDA w : Cardinality(bs.words[w]), Words)

\* A scan of the words of a range: the first that holds what is looked for.
Scanned(words, Found(_)) ==
  LET hits == {w \in words : Found(w) # {}} IN IF hits = {} THEN NoBit ELSE Min(hits)

FirstSet(bs) ==
  LET w == Scanned(Words, LAMBDA v : bs.words[v])
      i == w * SetWord + Ctz(bs.words[w])
  IN  IF w = NoBit \/ i >= SetBits THEN NoBit ELSE i

\* bitset_find_first_clear(): from the hint to the end, then from the start to
\* the hint; a hit becomes the hint.
FirstClear(bs) ==
  LET Clear(w) == Valid(w) \ bs.words[w]
      ahead == Scanned(bs.hint .. LastWord, Clear)
      w == IF ahead # NoBit THEN ahead ELSE Scanned(0 .. bs.hint - 1, Clear)
  IN  IF w = NoBit THEN [bs |-> bs, bit |-> NoBit]
      ELSE [bs |-> [bs EXCEPT !.hint = w], bit |-> w * SetWord + Ctz(Clear(w))]
=============================================================================
