-------------------------------- MODULE Fec --------------------------------
(***************************************************************************)
(* The erasure code (fec.rs): bytes are elements of GF(2^8), parity row r  *)
(* of a stripe is a linear combination of its data blocks whose            *)
(* coefficients form a Cauchy matrix, and what is missing is recovered by  *)
(* inverting the part of the matrix it is multiplied with.  The code       *)
(* treats the bytes at each place of the blocks by themselves, so a block  *)
(* is one byte here; a short block may have none at the place.             *)
(***************************************************************************)
EXTENDS Integers, Sequences

Byte == 0..255
NoByte == -1   \* what a packet holds of a block that ends before the byte
GfSize == 255

\* The binary digit of a that weighs w, a power of two.
Bit(a, w) == (a \div w) % 2

\* a ^ b
Xor(a, b) ==
  LET digit(w) == ((Bit(a, w) + Bit(b, w)) % 2) * w
  IN  digit(1) + digit(2) + digit(4) + digit(8) + digit(16) + digit(32) + digit(64) + digit(128)

\* Multiplication by the generator, modulo the polynomial 0x11d.
Double(x) == IF x >= 128 THEN Xor(2 * (x - 128), 29) ELSE 2 * x

Shifted(x, y) ==
  LET high[i \in 0..8] ==
        IF i = 0 THEN 0 ELSE Xor(Double(high[i - 1]), IF Bit(y, 2 ^ (8 - i)) = 1 THEN x ELSE 0)
  IN  high[8]

\* GfExp[i + 1] is power i of the generator.
GfExp ==
  LET powers[k \in 0..8] ==
        IF k = 0 THEN <<1>>
        ELSE LET low  == powers[k - 1]
                 next == Double(low[Len(low)])
             IN  low \o [i \in 1..Len(low) |-> Shifted(low[i], next)]
  IN  powers[8]

GfLog == [x \in 1..GfSize |-> (CHOOSE i \in 1..GfSize : GfExp[i] = x) - 1]

\* What the tables come to: the powers of the generator run through all bytes but 0, and
\* the logarithm is their inverse.
ASSUME GfTables ==
  /\ GfExp[1] = 1
  /\ \A i \in 1..GfSize :
       /\ GfExp[i] \in 1..GfSize /\ GfLog[GfExp[i]] = i - 1
       /\ Double(GfExp[i]) = GfExp[(i % GfSize) + 1]
  /\ \A x \in 1..GfSize : GfLog[x] \in 0..GfSize - 1 /\ GfExp[GfLog[x] + 1] = x

GfMul(x, y) == IF x = 0 \/ y = 0 THEN 0 ELSE GfExp[((GfLog[x] + GfLog[y]) % GfSize) + 1]

GfInverse(x) == IF x \in {0, 1} THEN x ELSE GfExp[GfSize - GfLog[x] + 1]

\* The coefficient of data block col (from 0) in parity row.
Coefficient(row, col) == GfInverse(Xor(row, 128 + col))

\* The sum of a sequence, and of the products of two.
Total(u)  == LET upTo[k \in 0..Len(u)] == IF k = 0 THEN 0 ELSE Xor(upTo[k - 1], u[k])
             IN  upTo[Len(u)]
Dot(c, x) == Total([k \in 1..Len(x) |-> GfMul(c[k], x[k])])

\* fec_encode: parity row of a stripe of data blocks.
Parity(blocks, row) == Dot([j \in 1..Len(blocks) |-> Coefficient(row, j - 1)], blocks)

-----------------------------------------------------------------------------
(* invert_mat, applied to the right-hand sides at once: row i of m holds a   *)
(* row of the matrix and, last, its right-hand side.                        *)

\* Where column col gets its pivot from: the diagonal, or the first row not
\* used that has something there; none means that the matrix is singular.  The
\* code may then take another column, and find none exactly when there is none.
PivotRows(m, col) ==
  IF m = <<>> THEN {}
  ELSE IF m[col][col] # 0 THEN {col}
  ELSE {r \in col + 1..Len(m) : m[r][col] # 0 /\ \A q \in col + 1..r - 1 : m[q][col] = 0}

SwapRows(m, p, q) == [m EXCEPT ![p] = m[q], ![q] = m[p]]
Scale(row, c)     == [k \in 1..Len(row) |-> GfMul(c, row[k])]

\* Row col of m, scaled so that it has a one there, clears the column elsewhere.
Clear(m, col, pivot) ==
  [r \in 1..Len(m) |->
     IF r = col THEN pivot
     ELSE [k \in 1..Len(pivot) |-> Xor(m[r][k], GfMul(m[r][col], pivot[k]))]]

Normalize(m, col) == Clear(m, col, Scale(m[col], GfInverse(m[col][col])))

\* Nothing once the matrix has shown to be singular.
Eliminate(m, col, pivots) ==
  IF pivots = {} THEN <<>>
  ELSE Normalize(SwapRows(m, col, CHOOSE p \in pivots : TRUE), col)

RightHandSide(m) == [r \in 1..Len(m) |-> m[r][Len(m) + 1]]

\* The solution, or nothing when the matrix is singular.
Solve(m) ==
  LET step(a, col) == Eliminate(a, col, PivotRows(a, col))
      after[col \in 0..Len(m)] == IF col = 0 THEN m ELSE step(after[col - 1], col)
  IN  RightHandSide(after[Len(m)])

\* fec_decode: blocks is the stripe with anything in the erased places, erased
\* their indices from 0 in order, parity as many [row, content] as are erased.
\* The erased blocks, or nothing.
FecDecode(blocks, erased, parity) ==
  LET isErased(j) == \E e \in 1..Len(erased) : erased[e] = j - 1
      present == [j \in 1..Len(blocks) |-> IF isErased(j) THEN 0 ELSE blocks[j]]
      reduced(p) == Xor(p.content, Parity(present, p.row))
  IN  Solve([r \in 1..Len(parity) |->
              Append([e \in 1..Len(erased) |-> Coefficient(parity[r].row, erased[e])],
                     reduced(parity[r]))])
=============================================================================
