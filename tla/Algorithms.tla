------------------------------- MODULE Algorithms -------------------------------
(***************************************************************************)
(* The small computations of the course: bits (Home_Work_1), the reversal  *)
(* of an array and the snail (Home_Work_2), the length of a line and the   *)
(* search in it (Home_Work_3), the checksum of an IP header                *)
(* (Sockets/Task_4).  A step is one call on one input; the properties      *)
(* compare what it returned with a definition of what it is for.           *)
(***************************************************************************)
EXTENDS Integers, Sequences, FiniteSets, SequencesExt

CONSTANTS
  Width,     \* bits of a word (32 in arrays and bits, 16 in the checksum)
  Arrays, Headers, Strings, Sizes  \* the inputs tried

VARIABLE call \* the last call: what, on what, with which result

NoCall == [what |-> "none", in |-> <<>>, out |-> 0]
Init == call = NoCall

\* 1 shifted to the left; what a word is taken by; a bit of it.
Two[k \in 0 .. Width] == IF k = 0 THEN 1 ELSE 2 * Two[k - 1]
Word == Two[Width]
Bit(x, k) == (x \div Two[k]) % 2

\* The checksum of an IP header adds fewer words than one of them can count.
AlgorithmsAssumption ==
  /\ Width \in Nat /\ Width > 2
  /\ \A a \in Arrays : a \in Seq(0 .. Word - 1)
  /\ \A h \in Headers : h \in Seq(0 .. Word - 1) /\ Len(h) < Word
  /\ \A s \in Strings : s \in Seq(STRING)
  /\ Sizes \subseteq Nat \ {0}

--------------------------------------------------------------------------------
\* Home_Work_1: the top bit is looked at and the number shifted, as often as it has bits.
Shifted(s, k) == [x |-> (2 * s.x) % Word, n |-> s.n + Bit(s.x, Width - 1)]
CountOnes(x) == FoldLeft(Shifted, [x |-> x, n |-> 0], [k \in 1 .. Width |-> k]).n

\* The third bit is flipped when it is not yet what was asked for.
ReplaceBit(x, replace) ==
  CASE Bit(x, 2) = 1 /\ replace = 0 -> x - 4
    [] Bit(x, 2) = 0 /\ replace = 1 -> x + 4
    [] OTHER -> x

\* Two cells are exchanged by sum and differences, which wrap.
Exchanged(a, i) ==
  LET j == Len(a) + 1 - i
      sum == (a[i] + a[j]) % Word
      aj == (sum - a[j]) % Word
  IN  [a EXCEPT ![i] = (sum - aj) % Word, ![j] = aj]

\* i < j, the indices from both ends.
swap_array(a) == FoldLeft(Exchanged, a, [i \in 1 .. Len(a) \div 2 |-> i])

--------------------------------------------------------------------------------
(* The snail: rows and columns from 0, directions 1 right, 2 down, 3 left, 4 up. *)

\* What comes next is the border, or filled.
Blocked(s) ==
  CASE s.dir = 1 -> s.j + 1 = s.n \/ s.res[<<s.i, s.j + 1>>] # -1
    [] s.dir = 2 -> s.i + 1 = s.n \/ s.res[<<s.i + 1, s.j>>] # -1
    [] s.dir = 3 -> s.j = 0 \/ s.res[<<s.i, s.j - 1>>] # -1
    [] s.dir = 4 -> s.i = 0 \/ s.res[<<s.i - 1, s.j>>] # -1

\* One turn of the loop: perhaps a change of direction, a number, a move along the
\* line that flag_i says.
SnailStep(s, num) ==
  LET dir == IF Blocked(s) THEN (s.dir % 4) + 1 ELSE s.dir
      flag_i == IF Blocked(s) THEN ~s.flag_i ELSE s.flag_i
  IN  [n |-> s.n, dir |-> dir, flag_i |-> flag_i,
       res |-> [s.res EXCEPT ![<<s.i, s.j>>] = num],
       i |-> IF ~flag_i THEN s.i ELSE IF dir = 2 THEN s.i + 1 ELSE s.i - 1,
       j |-> IF flag_i THEN s.j ELSE IF dir = 1 THEN s.j + 1 ELSE s.j - 1]

Matrix(n) == (0 .. n - 1) \X (0 .. n - 1)

snail_array(n) ==
  FoldLeft(SnailStep,
           [n |-> n, i |-> 0, j |-> 0, dir |-> 1, flag_i |-> FALSE,
            res |-> [cell \in Matrix(n) |-> -1]],
           [num \in 1 .. n * n |-> num]).res

--------------------------------------------------------------------------------
NL == "\n"

mystrlen(str) ==
  LET ends == {k \in DOMAIN str : str[k] = NL}
  IN  IF ends = {} THEN Len(str) ELSE (CHOOSE k \in ends : \A l \in ends : k <= l) - 1

\* The loop compares up to the end of either string.
Agree(str, sub, at) ==
  \A k \in DOMAIN sub : at + k - 1 <= Len(str) => str[at + k - 1] = sub[k]

\* The first position the loop stops at; 0 stands for NULL.
find_substring(str, sub) ==
  LET stops == {at \in DOMAIN str : Agree(str, sub, at)}
  IN  IF mystrlen(str) < mystrlen(sub) \/ stops = {} THEN 0
      ELSE CHOOSE at \in stops : \A k \in stops : at <= k

--------------------------------------------------------------------------------
\* Mistake: the carries are added once.
FoldedOnce(sum) == (sum % Word) + sum \div Word

\* Until no carry is left: folding what fits a word changes nothing.
CarryAdded(s, k) == (s % Word) + s \div Word
Folded(sum) == FoldLeft(CarryAdded, sum, [k \in 1 .. Width |-> k])

Added(a, b) == a + b

\* The sum of the words with its carries added in, complemented.
calculate_checksum(words) ==
  Word - 1 - (Folded(FoldLeft(Added, 0, words)) % Word)

--------------------------------------------------------------------------------
Did(what, in, out) == call.what = "none" /\ call' = [what |-> what, in |-> in, out |-> out]

Next ==
  \/ \E x \in 0 .. Word - 1 : Did("ones", <<x>>, CountOnes(x))
  \/ \E x \in 0 .. Word - 1, r \in {0, 1} : Did("bit", <<x, r>>, ReplaceBit(x, r))
  \/ \E a \in Arrays : Did("swap", a, swap_array(a))
  \/ \E n \in Sizes : Did("snail", <<n>>, snail_array(n))
  \/ \E s \in Strings : Did("length", s, mystrlen(s))
  \/ \E s, t \in Strings : Did("find", <<s, t>>, find_substring(s, t))
  \/ \E h \in Headers : Did("checksum", h, calculate_checksum(h))

--------------------------------------------------------------------------------
\* Where cell <<i, j>> comes on a snail through n * n cells: the rings outside its
\* own, then round its own.
Spiral(n, i, j) ==
  LET ring == CHOOSE r \in {i, j, n - 1 - i, n - 1 - j} :
                \A q \in {i, j, n - 1 - i, n - 1 - j} : r <= q
      m == n - 2 * ring
      row == i - ring
      col == j - ring
      along == CASE row = 0 -> col
                 [] row # 0 /\ col = m - 1 -> m - 1 + row
                 [] row = m - 1 /\ col # m - 1 -> 2 * (m - 1) + (m - 1 - col)
                 [] OTHER -> 3 * (m - 1) + (m - 1 - row)
  IN  n * n - m * m + along + 1

Occurs(str, sub, at) ==
  at + Len(sub) - 1 <= Len(str) /\ \A k \in DOMAIN sub : str[at + k - 1] = sub[k]

Lines == {s \in Strings : \A k \in DOMAIN s : s[k] # NL}

\* The bits are counted and replaced, the array is reversed though the sums
\* overflow, the snail goes inwards through every cell once, a substring that
\* occurs in a line is found where it occurs first (where the loop ends, lib.c:39-41;
\* the comment in tests/test.c:71, that the last occurrence is returned, is wrong of
\* the code: README, section 5), and a header with its checksum in it sums
\* up to zero however many carries there were (Home_Work_1/src/main3.c:12-18,
\* main4.c:14-27; Home_Work_2/src/main2.c:24-30, main4.c:34-72; Home_Work_3/lib/lib.c:3-47;
\* Sockets/Task_4/client_2.c:10-30).
ComputedRight ==
  LET in == call.in
      out == call.out
  IN
  CASE call.what = "ones" -> out = Cardinality({k \in 0 .. Width - 1 : Bit(in[1], k) = 1})
    [] call.what = "bit" ->
         \A k \in 0 .. Width - 1 : Bit(out, k) = IF k = 2 THEN in[2] ELSE Bit(in[1], k)
    [] call.what = "swap" -> out = Reverse(in)
    [] call.what = "snail" ->
         out = [cell \in Matrix(in[1]) |-> Spiral(in[1], cell[1], cell[2])]
    [] call.what = "length" ->
         /\ out \in 0 .. Len(in) /\ \A k \in 1 .. out : in[k] # NL
         /\ out < Len(in) => in[out + 1] = NL
    [] call.what = "find" /\ in[1] \in Lines /\ in[2] \in Lines ->
         \A at \in DOMAIN in[1] :
           Occurs(in[1], in[2], at) => out \in 1 .. at /\ Occurs(in[1], in[2], out)
    [] call.what = "checksum" -> calculate_checksum(Append(in, out)) = 0
    [] OTHER -> TRUE

\* What the tests expect of the search in a line: nothing is found that is not
\* there (Home_Work_3/tests/test.c:44-46).
FoundIsThere ==
  call.what = "find" /\ call.in[1] \in Lines /\ call.in[2] \in Lines /\ call.out # 0
    => Occurs(call.in[1], call.in[2], call.out)
================================================================================
