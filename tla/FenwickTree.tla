----------------------------- MODULE FenwickTree -----------------------------
(***************************************************************************)
(* The tree of partial sums (ftree/src/lib.rs) that the viewers of output  *)
(* keep the sizes of their items in.  inner[i] is the sum of the values    *)
(* from i - lsb(i) + 1 to i; a place of the source, which counts from 0,   *)
(* is the place after it here.                                             *)
(***************************************************************************)
EXTENDS Integers, Sequences, SequencesExt

CONSTANTS
  Value,      \* what may be pushed, added or taken away
  MaxLength   \* bound: values in the tree

VARIABLES
  inner,      \* FenwickTree::inner
  values      \* what it stands for

vars == <<inner, values>>

-----------------------------------------------------------------------------
(* Bits: i | (i + 1) is i + lsb(i + 1) and i & (i - 1) is i - lsb(i). *)

RECURSIVE least_significant_bit(_), most_significant_bit(_)
least_significant_bit(n) == IF n % 2 = 1 THEN 1 ELSE 2 * least_significant_bit(n \div 2)
most_significant_bit(n) == IF n < 2 THEN n ELSE 2 * most_significant_bit(n \div 2)

RECURSIVE prefix_sum(_, _), add_at(_, _, _), Search(_, _, _, _)

\* The sum of the values before place index of the source.
prefix_sum(tree, index) ==
  IF index = 0 THEN 0
  ELSE tree[index] + prefix_sum(tree, index - least_significant_bit(index))

\* sub_at is the same with the difference taken away.
add_at(tree, index, diff) ==
  IF index >= Len(tree) THEN tree
  ELSE add_at([tree EXCEPT ![index + 1] = @ + diff],
              index + least_significant_bit(index + 1), diff)
sub_at(tree, index, diff) == add_at(tree, index, -diff)

from_iter(lengths) ==
  LET Up(tree, i) ==
        LET parent == i + least_significant_bit(i) IN
        IF parent <= Len(tree) THEN [tree EXCEPT ![parent] = @ + tree[i]] ELSE tree
  IN  FoldLeft(Up, <<>> \o lengths, [i \in DOMAIN lengths |-> i])

\* The lower one bits of the new place are those below its least zero.
Bits(n) == {p \in 1 .. n - 1 : most_significant_bit(p) = p}
lower_ones(n) == Bits(least_significant_bit(n))

push(tree, value) ==
  LET n == Len(tree) + 1
      Child(sum, p) == sum + tree[n - p]
  IN  Append(tree, FoldLeft(Child, value, SetToSeq(lower_ones(n))))

pop(tree) ==
  LET n == Len(tree)
  IN  SubSeq(sub_at(tree, n - 1, prefix_sum(tree, n) - prefix_sum(tree, n - 1)), 1, n - 1)

Search(tree, probe, index, sum) ==
  LET lsb == least_significant_bit(probe) IN
  IF probe = 0 THEN <<index, sum>>
  ELSE IF probe <= Len(tree) /\ tree[probe] < sum
  THEN IF lsb = 1 THEN <<probe, sum - tree[probe]>>
       ELSE Search(tree, probe + lsb \div 2, probe, sum - tree[probe])
  ELSE IF lsb = 1 THEN <<index, sum>>
  ELSE Search(tree, probe - lsb \div 2, index, sum)

index_of_with_remainder(tree, sum) ==
  Search(tree, 2 * most_significant_bit(Len(tree)), 0, sum)
index_of(tree, sum) == index_of_with_remainder(tree, sum)[1]

-----------------------------------------------------------------------------
Init == values \in UNION {[1 .. n -> Value] : n \in 0 .. 2} /\ inner = from_iter(values)

Push(v) ==
  /\ Len(inner) < MaxLength
  /\ inner' = push(inner, v) /\ values' = Append(values, v)
Pop ==
  /\ inner # <<>>
  /\ inner' = pop(inner) /\ values' = SubSeq(values, 1, Len(values) - 1)
Add(i, v) ==
  /\ values[i] + v \in Value
  /\ inner' = add_at(inner, i - 1, v) /\ values' = [values EXCEPT ![i] = @ + v]
Sub(i, v) ==
  /\ values[i] - v \in Value
  /\ inner' = sub_at(inner, i - 1, v) /\ values' = [values EXCEPT ![i] = @ - v]

Next ==
  \/ \E v \in Value : Push(v)
  \/ Pop
  \/ \E i \in DOMAIN values, v \in Value : Add(i, v) \/ Sub(i, v)

Spec == Init /\ [][Next]_vars

-----------------------------------------------------------------------------
\* The sum of the first n values, added up one by one.
Before(n) == FoldLeft(LAMBDA a, b : a + b, 0, SubSeq(values, 1, n))

\* After any pushes, pops and changes the tree gives the sums of what it stands for, and finds
\* the place at which a sum is reached: the one before which less than it adds up.
SumsAgree ==
  /\ Len(inner) = Len(values)
  /\ \A n \in 0 .. Len(values) : prefix_sum(inner, n) = Before(n)
  /\ \A sum \in 0 .. Before(Len(values)) + 1 :
       LET found == index_of_with_remainder(inner, sum) IN
       /\ \A n \in 1 .. Len(values) : n <= found[1] <=> Before(n) < sum
       /\ found[2] = sum - Before(found[1])
=============================================================================
