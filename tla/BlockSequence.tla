---------------------------- MODULE BlockSequence ---------------------------
(***************************************************************************)
(* block_sequence of opt_vbyte: an increasing sequence as its gaps, in one *)
(* stream of codes that the enumerator decodes block_size at a time.  The  *)
(* codes are those of the block codecs; here a stream is its gaps.         *)
(*                                                                         *)
(* cur_block is the number of blocks decoded, so the current one is one    *)
(* less, but move() takes it for the number of the block itself.  It       *)
(* decodes one block too few, without walking to the end of those it       *)
(* leaves, and reads on past the buffer.                                   *)
(***************************************************************************)
EXTENDS UnaryEnumerator, Functions

CONSTANTS
  PvbBlockSize,     \* constants::block_size
  Garbage           \* what lies past the buffer: no sum with it is a value

ASSUME BlockSequenceAssumption == PvbBlockSize \in Nat \ {0} /\ Garbage \in Nat

-----------------------------------------------------------------------------
(* Plausible slips.  The runs replace one definition of the code by one of   *)
(* these and must then find a property violated; no specification uses them. *)
StartAgain(e) == IF e.cur_block = 0 THEN -1 ELSE 0

-----------------------------------------------------------------------------
(* vals has n values, relative to the base of the partition.                 *)
GapsOf(vals, n) == [i \in 0 .. n - 1 |-> IF i = 0 THEN vals[0] ELSE vals[i] - vals[i - 1] - 1]

BlocksOf(s) == (s.n + PvbBlockSize - 1) \div PvbBlockSize

BlockLength(s, block) ==
  IF block < BlocksOf(s) THEN PvbBlockSize ELSE s.n - (BlocksOf(s) - 1) * PvbBlockSize

(* What the first gap of the block after e's is added to.                    *)
SumSoFar(e) == IF e.cur_block = 0 THEN -1 ELSE e.m_value

(* decode_next_block(): the next call of it starts from m_value, which is 0. *)
DecodeNextBlock(s, e) ==
  LET from == e.cur_block * PvbBlockSize
  IN [e EXCEPT !.cur_block = @ + 1, !.pos_in_block = 0, !.m_value = 0,
               !.buffer = [k \in 0 .. BlockLength(s, e.cur_block + 1) - 1 |->
                             s.gaps[from + k] + (IF k = 0 THEN SumSoFar(e) ELSE 0)]]

(* while (m_cur_block < block) decode_next_block(): only the last of several *)
(* is seen, and all but the first start from 0.                              *)
DecodeUpTo(s, e, block) ==
  IF e.cur_block >= block THEN e
  ELSE DecodeNextBlock(s, IF e.cur_block + 1 = block THEN e
                          ELSE [e EXCEPT !.cur_block = block - 1, !.m_value = 0])

(* m_buffer[k], wherever k points.                                           *)
InBuffer(e, k) == IF k \in DOMAIN e.buffer THEN e.buffer[k] ELSE Garbage

PositionOf(e) == (e.cur_block - 1) * PvbBlockSize + e.pos_in_block

Returns(e) == [e EXCEPT !.position = PositionOf(e), !.value = e.m_value]

(* m_value += m_buffer[++m_pos_in_block] + 1, until m_pos_in_block is pos.   *)
WalkInBlock(e, pos) ==
  LET gaps == [k \in e.pos_in_block + 1 .. pos |-> InBuffer(e, k) + 1]
  IN [e EXCEPT !.pos_in_block = pos, !.m_value = @ + SumFunctionOnSet(gaps, DOMAIN gaps)]

(* The constructor.                                                          *)
BSNew(s) ==
  LET e == DecodeNextBlock(s, [position |-> 0, value |-> 0, cur_block |-> 0,
                               pos_in_block |-> 0, m_value |-> 0, buffer |-> <<>>])
  IN Returns([e EXCEPT !.m_value = e.buffer[0] + 1])

(* A position that was passed is looked for behind the buffer.               *)
BSMove(s, e, position) ==
  LET f == DecodeUpTo(s, e, position \div PvbBlockSize)
  IN IF position = s.n THEN [e EXCEPT !.position = s.n, !.value = s.universe]
     ELSE IF position < PositionOf(f) THEN Returns([f EXCEPT !.m_value = Garbage])
     ELSE Returns(WalkInBlock(f, position - (f.cur_block - 1) * PvbBlockSize))

(* One more value: that of the next block if this one is read.               *)
OneOn(s, e) ==
  IF e.pos_in_block + 1 = PvbBlockSize
  THEN LET f == DecodeNextBlock(s, e) IN [f EXCEPT !.m_value = f.buffer[0] + 1]
  ELSE WalkInBlock(e, e.pos_in_block + 1)

BSNext(s, e) ==
  IF PositionOf(e) + 1 < s.n THEN Returns(OneOn(s, e))
  ELSE Returns([e EXCEPT !.pos_in_block = @ + 1, !.m_value = s.universe])

(* Within a partition a bound is never above its last value.                 *)
BSNextGeq(s, e, bound) ==
  LET after[k \in 0 .. s.n] == IF k = 0 THEN e ELSE OneOn(s, after[k - 1])
      stops(k) == after[k].m_value >= bound \/ PositionOf(after[k]) + 1 >= s.n
      f == after[CHOOSE k \in 0 .. s.n : stops(k) /\ \A j \in 0 .. k - 1 : ~stops(j)]
  IN IF f.m_value < bound /\ PositionOf(f) < s.n
     THEN Returns([f EXCEPT !.pos_in_block = @ + 1, !.m_value = s.universe])
     ELSE Returns(IF PositionOf(f) = s.n THEN [f EXCEPT !.m_value = s.universe] ELSE f)
=============================================================================
