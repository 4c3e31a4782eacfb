-------------------------------- MODULE Cost --------------------------------
(***************************************************************************)
(* arch_sim/cost/cost.py: the cycles of an instruction, from its unit and  *)
(* its tensor.  A tensor is its shape and the bytes of an element; a unit a*)
(* pipe with a bandwidth or a compute unit with a throughput and, unless   *)
(* that is Raises (Python's None), a tile (operand_shape).  As a cost,     *)
(* Raises is the exception: ValueError on the wrong rank, ZeroDivisionError*)
(* on a unit that does nothing per cycle.                                  *)
(*                                                                         *)
(* Python divides into a float.  The quotient is rounded down here, which  *)
(* is exact where Whole says so.                                           *)
(***************************************************************************)
EXTENDS Integers, Sequences, Functions, TLAPS

CONSTANT Raises

Product(shape) == FoldFunction(LAMBDA x, y : x * y, 1, shape)

(* Slip: one tile too many for a dimension that is already aligned.        *)
PaddedPast(dim, tile) == (dim \div tile + 1) * tile

(* A dimension, padded up to the tile boundary.                            *)
Padded(dim, tile) == ((dim + tile - 1) \div tile) * tile

(* Slip: a compute unit counts bytes instead of elements. *)
WorkInBytes(unit, t) ==
  t.esize * IF unit.kind = "pipe" \/ unit.tile = Raises THEN Product(t.shape)
            ELSE Product([i \in 1 .. Len(t.shape) |-> Padded(t.shape[i], unit.tile[i])])

Work(unit, t) ==
  IF unit.kind = "pipe" THEN Product(t.shape) * t.esize
  ELSE IF unit.tile = Raises THEN Product(t.shape)
  ELSE Product([i \in 1 .. Len(t.shape) |-> Padded(t.shape[i], unit.tile[i])])

RankFits(unit, t) == unit.kind = "pipe" \/ unit.tile = Raises \/ Len(t.shape) = Len(unit.tile)

(* Instruction.cost(): Move on a pipe, Op on a compute unit.               *)
CostOf(unit, t) ==
  IF RankFits(unit, t) /\ unit.rate # 0 THEN Work(unit, t) \div unit.rate ELSE Raises

Whole(unit, t) == RankFits(unit, t) /\ unit.rate # 0 => Work(unit, t) % unit.rate = 0

-----------------------------------------------------------------------------
(* Padding is tight (cost.py 20): it gives a whole number of tiles that    *)
(* covers the dimension, and no smaller number of tiles does.              *)
Tight(dim, tile) ==
  /\ dim <= Padded(dim, tile) /\ Padded(dim, tile) < dim + tile
  /\ Padded(dim, tile) % tile = 0
  /\ \A k \in 0 .. dim : dim <= k * tile => Padded(dim, tile) <= k * tile

-----------------------------------------------------------------------------
(* Multiplication by a tile keeps order.                                   *)
LEMMA Monotone ==
  ASSUME NEW t \in Nat \ {0}, NEW a \in Int, NEW b \in Int, a <= b
  PROVE  a * t <= b * t
BY SMT

(* Integer division leaves less than one tile over.                        *)
LEMMA Euclid ==
  ASSUME NEW t \in Nat \ {0}, NEW a \in Nat
  PROVE  /\ a \div t \in Nat
         /\ (a \div t) * t <= a
         /\ a < (a \div t) * t + t
BY SMT

(* A number of tiles is a whole number of tiles.                           *)
LEMMA WholeTiles ==
  ASSUME NEW t \in Nat \ {0}, NEW q \in Nat
  PROVE  (q * t) % t = 0
BY SMT

(* cost.Op pads every dimension of an operand to the least number of tiles *)
(* that covers it: the integer arithmetic is right for every dimension and *)
(* tile, the empty dimension and the tile of one element included.         *)
THEOREM TilesCoverOperands ==
  ASSUME NEW dim \in Nat, NEW tile \in Nat \ {0}
  PROVE  Tight(dim, tile)
<1> DEFINE q == (dim + tile - 1) \div tile
<1>1. dim \in Nat /\ tile \in Nat \ {0}
  OBVIOUS
<1>2. dim + tile - 1 \in Nat
  BY <1>1
<1>3. q \in Nat /\ q * tile <= dim + tile - 1 /\ dim + tile - 1 < q * tile + tile
  BY <1>1, <1>2, Euclid
<1>4. Padded(dim, tile) = q * tile
  BY DEF Padded
<1> HIDE DEF q
<1>5. q * tile \in Nat
  BY <1>1, <1>3
<1>6. dim <= q * tile /\ q * tile < dim + tile
  BY <1>1, <1>3, <1>5
<1>7. (q * tile) % tile = 0
  BY <1>1, <1>3, WholeTiles
<1>8. ASSUME NEW k \in 0 .. dim, dim <= k * tile PROVE q * tile <= k * tile
  <2>1. SUFFICES ASSUME k + 1 <= q PROVE FALSE
    BY <1>1, <1>3, Monotone
  <2>2. (k + 1) * tile <= q * tile
    BY <1>1, <1>3, <2>1, Monotone
  <2>3. (k + 1) * tile = k * tile + tile
    BY <1>1
  <2>4. k * tile \in Nat
    BY <1>1
  <2>5. QED
    BY <1>1, <1>3, <1>5, <1>6, <1>8, <2>2, <2>3, <2>4
<1>9. QED
  BY <1>4, <1>6, <1>7, <1>8 DEF Tight
=============================================================================
