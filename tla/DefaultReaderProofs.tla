------------------------ MODULE DefaultReaderProofs ------------------------
(***************************************************************************)
(* What the default frame reader returns, for every size of its buffer and *)
(* every camera.                                                           *)
(*                                                                         *)
(* 1. Induction without an operator parameter: SetInduction and Recursion  *)
(*    make the recursive functions of the readers provable.                *)
(* 2. The search for a marker (SearchFound, SearchNothing, SearchResult),  *)
(*    where the parts lie in the stream (Layout), and the two together: the*)
(*    next image is the first ahead (Ahead), its end is found (SearchEnd). *)
(* 3. The inductive invariant. Reading holds whatever the camera sends;    *)
(*    Whole says that a part that announces its length is taken whole;     *)
(*    InOrder says which frames were returned, and where the reader stands,*)
(*    for a camera whose parts are sound or too short.                     *)
(***************************************************************************)
EXTENDS StreamReaders, TLAPS, SequenceTheorems, WellFoundedInduction

(* A set of naturals that is not empty has a least member: the library's   *)
(* relation on the naturals is well founded.                               *)
LEMMA Least ==
  ASSUME NEW T, T \subseteq Nat, T # {}
  PROVE  \E x \in T : \A y \in T : x <= y
<1> DEFINE Less == OpToRel(<, Nat)
<1>1. IsWellFoundedOn(Less, Nat)
  BY NatLessThanWellFounded
<1>2. \A x, y \in Nat : x < y => <<x, y>> \in Less
  BY Zenon DEF OpToRel
<1> HIDE DEF Less
<1>3. PICK x \in T : \A y \in T : ~(<<y, x>> \in Less)
  BY <1>1, WFMin
<1>4. ASSUME NEW y \in T PROVE x <= y
  <2>1. x \in Nat /\ y \in Nat
    OBVIOUS
  <2>2. ~(y < x)
    BY <1>2, <1>3, <2>1
  <2> QED
    BY <2>1, <2>2
<1> QED
  BY <1>4

(* A bounded set of naturals that is not empty has a greatest member.      *)
LEMMA Greatest ==
  ASSUME NEW n \in Nat, NEW T, T \subseteq 0..n, T # {}
  PROVE  \E x \in T : \A y \in T : x >= y
<1> DEFINE U == {n - y : y \in T}
<1>1. U \subseteq Nat /\ U # {}
  <2>1. ASSUME NEW y \in T PROVE n - y \in Nat
    OBVIOUS
  <2> QED
    BY <2>1
<1>2. PICK u \in U : \A v \in U : u <= v
  <2> HIDE DEF U
  <2> QED
    BY <1>1, Least
<1>3. PICK x \in T : u = n - x
  OBVIOUS
<1>4. ASSUME NEW y \in T PROVE x >= y
  <2>1. n - y \in U
    OBVIOUS
  <2>2. u <= n - y
    BY <1>2, <2>1
  <2> QED
    BY <2>2, <1>3
<1> QED
  BY <1>4

(* Induction with a set in place of a predicate: the library's theorem     *)
(* takes an operator, which the provers cannot instantiate.                *)
LEMMA SetInduction ==
  ASSUME NEW T, 0 \in T, \A n \in Nat : n \in T => n + 1 \in T
  PROVE  Nat \subseteq T
<1> SUFFICES ASSUME Nat \ T # {} PROVE FALSE
  OBVIOUS
<1>1. PICK x \in Nat \ T : \A y \in Nat \ T : x <= y
  BY Least
<1>2. x - 1 \in Nat
  OBVIOUS
<1>3. x - 1 \in T
  BY <1>1, <1>2
<1> QED
  BY <1>2, <1>3

Steps(n, V) == [1..n -> [V -> V]]

Recurs(g, n, V, c, F) ==
  /\ g \in [0..n -> V]
  /\ \A i \in 0..n : g[i] = IF i = 0 THEN c ELSE F[i][g[i - 1]]

(* A recursive definition over 0..n has a solution, where each step maps V *)
(* to V: the CHOOSE behind such a definition can then be used.             *)
LEMMA Recursion ==
  ASSUME NEW n \in Nat, NEW V, NEW c \in V, NEW F \in Steps(n, V)
  PROVE  \E g : Recurs(g, n, V, c, F)
<1> USE DEF Steps, Recurs
<1> DEFINE Defined(m, g) ==
             \A i \in 0..m : g[i] = IF i = 0 THEN c ELSE F[i][g[i - 1]]
           T == {m \in Nat : m <= n => \E g \in [0..m -> V] : Defined(m, g)}
<1>1. 0 \in T
  <2>1. [i \in 0..0 |-> c] \in [0..0 -> V] /\ Defined(0, [i \in 0..0 |-> c])
    OBVIOUS
  <2> QED
    BY <2>1
<1>2. ASSUME NEW m \in Nat, m \in T PROVE m + 1 \in T
  <2> SUFFICES ASSUME m + 1 <= n
               PROVE  \E g \in [0..(m + 1) -> V] : Defined(m + 1, g)
    OBVIOUS
  <2>1. PICK g \in [0..m -> V] : Defined(m, g)
    BY <1>2
  <2> DEFINE h == [i \in 0..(m + 1) |-> IF i <= m THEN g[i] ELSE F[m + 1][g[m]]]
  <2>2. F[m + 1][g[m]] \in V
    OBVIOUS
  <2>3. h \in [0..(m + 1) -> V]
    BY <2>2
  <2>4. ASSUME NEW i \in 0..(m + 1)
        PROVE  h[i] = IF i = 0 THEN c ELSE F[i][h[i - 1]]
    <3>1. CASE i = 0
      BY <2>1, <3>1
    <3>2. CASE i \in 1..m
      <4>1. h[i] = g[i] /\ h[i - 1] = g[i - 1]
        BY <3>2
      <4> QED
        BY <2>1, <3>2, <4>1
    <3>3. CASE i = m + 1
      <4>1. h[i] = F[m + 1][g[m]] /\ h[i - 1] = g[m]
        BY <3>3
      <4> QED
        BY <3>3, <4>1
    <3> QED
      BY <3>1, <3>2, <3>3
  <2> QED
    BY <2>3, <2>4
<1> HIDE DEF T
<1>3. n \in T
  BY <1>1, <1>2, SetInduction
<1> QED
  BY <1>3 DEF T

(* What a recursive function preserves holds of all its values.            *)
LEMMA Typed ==
  ASSUME NEW n \in Nat, NEW V, NEW f, f[0] \in V,
         \A i \in 1..n : f[i - 1] \in V => f[i] \in V
  PROVE  \A i \in 0..n : f[i] \in V
<1> DEFINE T == {i \in Nat : i <= n => f[i] \in V}
<1>1. 0 \in T
  OBVIOUS
<1>2. ASSUME NEW i \in Nat, i \in T PROVE i + 1 \in T
  <2>1. i + 1 <= n => i + 1 \in 1..n /\ (i + 1) - 1 = i
    OBVIOUS
  <2> QED
    BY <1>2, <2>1
<1> HIDE DEF T
<1>3. Nat \subseteq T
  BY <1>1, <1>2, SetInduction
<1> QED
  BY <1>3 DEF T

(* seqIndex, when a pair of different cells is searched for: it is 1 after *)
(* a first cell that does not follow one, else 0                           *)
(* (MjpegInputStreamDefault.java:33-44).                                   *)
LEMMA SeqIndexDef ==
  ASSUME NEW cells \in Seq(Cell), NEW a, NEW b, a # b
  PROVE  LET S == Default!SeqIndex(<<a, b>>, cells) IN
           /\ S[0] = 0
           /\ \A i \in 1..Len(cells) :
                S[i] = IF S[i - 1] = 0 /\ cells[i] = a THEN 1 ELSE 0
<1> DEFINE n == Len(cells)
           Bit == 0..1
           First == 0
           Step(i, v) == IF cells[i] = <<a, b>>[v + 1] THEN (v + 1) % 2 ELSE 0
           F == [i \in 1..n |-> [v \in Bit |-> Step(i, v)]]
           E(g) == [i \in 0..n |-> IF i = 0 THEN 0 ELSE Step(i, g[i - 1])]
<1>1. n \in Nat /\ First \in Bit
  OBVIOUS
<1>2. \A i \in 1..n, v \in Bit : Step(i, v) \in Bit
  OBVIOUS
<1>3. Default!SeqIndex(<<a, b>>, cells) = CHOOSE f : f = E(f)
  BY DEF Default!SeqIndex
<1> HIDE DEF n, Bit, Step, First
<1>4. F \in Steps(n, Bit)
  BY <1>2 DEF Steps
<1>5. \A i \in 1..n, v \in Bit : F[i][v] = Step(i, v)
  OBVIOUS
<1> HIDE DEF F
<1>6. PICK g : Recurs(g, n, Bit, First, F)
  BY <1>1, <1>4, Recursion
<1>7. ASSUME NEW i \in 1..n PROVE g[i] = Step(i, g[i - 1])
  <2>1. i \in 0..n /\ i # 0 /\ i - 1 \in 0..n
    BY <1>1
  <2>2. g[i - 1] \in Bit
    BY <1>6, <2>1 DEF Recurs
  <2> QED
    BY <1>5, <1>6, <2>1, <2>2 DEF Recurs
<1>8. g[0] = 0
  BY <1>1, <1>6 DEF First, Recurs
<1>9. g = E(g)
  BY <1>1, <1>6, <1>7, <1>8 DEF Recurs
<1> DEFINE S == Default!SeqIndex(<<a, b>>, cells)
<1>10. S = E(S)
  BY <1>3, <1>9
<1> HIDE DEF S
<1>11. S[0] = 0 /\ \A i \in 1..n : S[i] = Step(i, S[i - 1])
  <2>1. 0 \in 0..n /\ \A i \in 1..n : i \in 0..n /\ i # 0
    BY <1>1
  <2> QED
    BY <1>10, <2>1
<1>12. \A i \in 0..n : S[i] \in Bit
  <2>1. S[0] \in Bit
    BY <1>11 DEF Bit
  <2> QED
    BY <1>1, <1>2, <1>11, <2>1, Typed
<1>13. ASSUME NEW i \in 1..n
       PROVE  S[i] = IF S[i - 1] = 0 /\ cells[i] = a THEN 1 ELSE 0
  <2>1. S[i - 1] \in 0..1
    BY <1>1, <1>12 DEF Bit
  <2> QED
    BY <1>11, <2>1 DEF Step
<1> QED
  BY <1>11, <1>13 DEF S, n

(* What a search for a pair of cells a b does, in terms of the stream: S   *)
(* is 1 after a cell a that is taken for the beginning of the pair.        *)
Marks(S, from, a) ==
  /\ S[0] = 0
  /\ \A i \in 1..(Len(data) - from) :
       S[i] = IF S[i - 1] = 0 /\ data[from + i] = a THEN 1 ELSE 0

Ends(S, from, limit, b) ==
  {i \in 1..(Len(data) - from) : i <= limit /\ S[i - 1] = 1 /\ data[from + i] = b}

(* The search in terms of those states: the least position that ends a     *)
(* pair the search sees, or the end of the stream, or the limit            *)
(* (MjpegInputStreamDefault.java:33-44).                                   *)
LEMMA SearchStates ==
  ASSUME data \in Seq(Cell), NEW from \in 0..Len(data), NEW limit \in Nat,
         NEW a, NEW b, a # b
  PROVE  \E S :
           LET r == Default!SearchUpTo(<<a, b>>, from, limit)
               ends == Ends(S, from, limit, b)
           IN  /\ Marks(S, from, a)
               /\ ends # {} => /\ r.result = "found"
                               /\ r.read \in ends
                               /\ \A i \in ends : r.read <= i
               /\ ends = {} /\ Len(data) - from < limit =>
                    r.result = "EOFException" /\ r.read = Len(data) - from
               /\ ends = {} /\ ~(Len(data) - from < limit) =>
                    r.result = "-1" /\ r.read = limit
<1> DEFINE cells == SubSeq(data, from + 1, Len(data))
           S == Default!SeqIndex(<<a, b>>, cells)
           ends == Ends(S, from, limit, b)
           old == {i \in 1..Len(cells) :
                     /\ i <= limit
                     /\ S[i - 1] = Len(<<a, b>>) - 1
                     /\ cells[i] = Default!Last(<<a, b>>)}
           r == Default!SearchUpTo(<<a, b>>, from, limit)
<1>1. /\ cells \in Seq(Cell)
      /\ Len(cells) = Len(data) - from
      /\ \A i \in 1..(Len(data) - from) : cells[i] = data[from + i]
  <2>1. CASE from = Len(data)
    <3>1. cells = <<>>
      BY <2>1
    <3> QED
      BY <2>1, <3>1
  <2>2. CASE from < Len(data)
    <3>1. from + 1 \in 1..Len(data)
      BY <2>2
    <3> QED
      BY <3>1, SubSeqProperties
  <2> QED
    BY <2>1, <2>2
<1>2. Marks(S, from, a)
  <2> HIDE DEF cells
  <2>1. /\ S[0] = 0
        /\ \A i \in 1..Len(cells) :
             S[i] = IF S[i - 1] = 0 /\ cells[i] = a THEN 1 ELSE 0
    BY <1>1, SeqIndexDef
  <2> HIDE DEF S
  <2> QED
    BY <1>1, <2>1 DEF Marks
<1>3. Len(<<a, b>>) - 1 = 1 /\ Default!Last(<<a, b>>) = b
  BY DEF Default!Last
<1>4. r = CASE old # {} -> [result |-> "found", read |-> Default!Min(old)]
            [] old = {} /\ Len(cells) < limit
                 -> [result |-> "EOFException", read |-> Len(cells)]
            [] OTHER -> [result |-> "-1", read |-> limit]
  BY DEF Default!SearchUpTo
<1> HIDE DEF S, cells
<1>5. old = ends
  BY <1>1, <1>3 DEF Ends
<1> HIDE DEF r, old
<1>6. ends # {} => Default!Min(ends) \in ends /\ \A i \in ends : Default!Min(ends) <= i
  <2>1. ends \subseteq Nat
    BY DEF Ends
  <2> HIDE DEF ends
  <2>2. ends # {} => \E x \in ends : \A y \in ends : x <= y
    BY <2>1, Least
  <2>3. Default!Min(ends) = CHOOSE x \in ends : \A y \in ends : x <= y
    BY DEF Default!Min
  <2> QED
    BY <2>2, <2>3
<1> HIDE DEF ends
<1>7. /\ ends # {} => /\ r.result = "found"
                      /\ r.read \in ends
                      /\ \A i \in ends : r.read <= i
      /\ ends = {} /\ Len(data) - from < limit =>
           r.result = "EOFException" /\ r.read = Len(data) - from
      /\ ends = {} /\ ~(Len(data) - from < limit) =>
           r.result = "-1" /\ r.read = limit
  BY <1>1, <1>4, <1>5, <1>6
<1> QED
  BY <1>2, <1>7 DEF r, ends

(* A search reads no further than the stream and the limit, and what it    *)
(* finds ends in the pair (MjpegInputStreamDefault.java:33-44).            *)
LEMMA SearchResult ==
  ASSUME data \in Seq(Cell), NEW from \in 0..Len(data), NEW limit \in Nat,
         NEW a, NEW b, a # b
  PROVE  LET r == Default!SearchUpTo(<<a, b>>, from, limit) IN
           /\ r.result \in {"found", "EOFException", "-1"}
           /\ r.read \in 0..limit
           /\ from + r.read <= Len(data)
           /\ r.result = "found" => /\ r.read >= 2
                                    /\ data[from + r.read - 1] = a
                                    /\ data[from + r.read] = b
           /\ r.result = "EOFException" => from + r.read = Len(data)
<1> DEFINE r == Default!SearchUpTo(<<a, b>>, from, limit)
<1>1. PICK S :
        LET ends == Ends(S, from, limit, b) IN
          /\ Marks(S, from, a)
          /\ ends # {} => r.result = "found" /\ r.read \in ends
          /\ ends = {} /\ Len(data) - from < limit =>
               r.result = "EOFException" /\ r.read = Len(data) - from
          /\ ends = {} /\ ~(Len(data) - from < limit) =>
               r.result = "-1" /\ r.read = limit
  BY SearchStates
<1> HIDE DEF r
<1>2. CASE Ends(S, from, limit, b) # {}
  <2>1. /\ r.result = "found" /\ r.read \in 1..(Len(data) - from) /\ r.read <= limit
        /\ S[r.read - 1] = 1 /\ data[from + r.read] = b
    BY <1>1, <1>2 DEF Ends
  <2>2. r.read # 1
    BY <1>1, <2>1 DEF Marks
  <2>3. r.read - 1 \in 1..(Len(data) - from)
    BY <2>1, <2>2
  <2>4. data[from + (r.read - 1)] = a
    <3>1. ASSUME NEW i \in 1..(Len(data) - from), S[i] = 1
          PROVE  data[from + i] = a
      BY <1>1, <3>1 DEF Marks
    <3> QED
      BY <2>1, <2>3, <3>1
  <2>5. from + (r.read - 1) = from + r.read - 1
    BY <2>1
  <2> QED
    BY <2>1, <2>2, <2>4, <2>5 DEF r
<1>3. CASE Ends(S, from, limit, b) = {}
  BY <1>1, <1>3 DEF r
<1> QED
  BY <1>2, <1>3

(* The pair is m cells ahead, it is the first, and the search sees it.     *)
FirstAhead(from, m, a, b) ==
  /\ m \in Nat
  /\ from + m + 2 <= Len(data)
  /\ data[from + m + 1] = a /\ data[from + m + 2] = b
  /\ m > 0 => data[from + m] # a
  /\ \A j \in 1..m : ~(data[from + j] = a /\ data[from + j + 1] = b)

(* The first pair ahead is found, unless a fill cell precedes it or it is  *)
(* beyond the limit (MjpegInputStreamDefault.java:33-44).                  *)
LEMMA SearchFound ==
  ASSUME data \in Seq(Cell), NEW from \in 0..Len(data), NEW limit \in Nat,
         NEW a, NEW b, a # b, NEW m, FirstAhead(from, m, a, b), m + 2 <= limit
  PROVE  LET r == Default!SearchUpTo(<<a, b>>, from, limit) IN
           r.result = "found" /\ r.read = m + 2
<1> DEFINE r == Default!SearchUpTo(<<a, b>>, from, limit)
<1>0. /\ m \in Nat
      /\ from + m + 2 <= Len(data)
      /\ data[from + m + 1] = a /\ data[from + m + 2] = b
      /\ m > 0 => data[from + m] # a
      /\ \A j \in 1..m : ~(data[from + j] = a /\ data[from + j + 1] = b)
  BY DEF FirstAhead
<1>1. PICK S :
        LET ends == Ends(S, from, limit, b) IN
          /\ Marks(S, from, a)
          /\ ends # {} => /\ r.result = "found"
                          /\ r.read \in ends
                          /\ \A i \in ends : r.read <= i
  BY SearchStates
<1> HIDE DEF r
<1>2. S[m] = 0
  BY <1>0, <1>1 DEF Marks
<1>3. S[m + 1] = 1
  <2>1. m + 1 \in 1..(Len(data) - from) /\ (m + 1) - 1 = m
        /\ from + (m + 1) = from + m + 1
    BY <1>0
  <2> QED
    BY <1>0, <1>1, <1>2, <2>1 DEF Marks
<1>4. m + 2 \in Ends(S, from, limit, b)
  <2>1. m + 2 \in 1..(Len(data) - from) /\ (m + 2) - 1 = m + 1
        /\ from + (m + 2) = from + m + 2
    BY <1>0
  <2> QED
    BY <1>0, <1>3, <2>1 DEF Ends
<1>5. r.result = "found" /\ r.read \in Ends(S, from, limit, b) /\ r.read <= m + 2
  BY <1>1, <1>4
<1>6. /\ r.read \in 1..(Len(data) - from)
      /\ S[r.read - 1] = 1 /\ data[from + r.read] = b
  BY <1>5 DEF Ends
<1>7. r.read # 1
  BY <1>1, <1>6 DEF Marks
<1> DEFINE j == r.read - 1
<1>8. j \in 1..(Len(data) - from) /\ from + j + 1 = from + r.read /\ r.read = j + 1
  BY <1>6, <1>7, SMTT(30)
<1>9. data[from + j] = a
  <2>1. S[j] = 1
    BY <1>6
  <2> HIDE DEF j
  <2> QED
    BY <1>1, <1>8, <2>1 DEF Marks
<1>10. ~(j \in 1..m)
  <2>1. data[from + j + 1] = b
    BY <1>6, <1>8
  <2> HIDE DEF j
  <2> QED
    BY <1>0, <1>9, <2>1
<1> QED
  BY <1>0, <1>5, <1>6, <1>8, <1>10, SMTT(30) DEF r

NoneAhead(from, a, b) ==
  \A j \in 1..(Len(data) - from - 1) :
    ~(data[from + j] = a /\ data[from + j + 1] = b)

(* Where no pair is ahead, the search reads to the end of the stream.      *)
LEMMA SearchNothing ==
  ASSUME data \in Seq(Cell), NEW from \in 0..Len(data), NEW limit \in Nat,
         NEW a, NEW b, a # b, Len(data) - from < limit, NoneAhead(from, a, b)
  PROVE  LET r == Default!SearchUpTo(<<a, b>>, from, limit) IN
           r.result = "EOFException" /\ r.read = Len(data) - from
<1> DEFINE r == Default!SearchUpTo(<<a, b>>, from, limit)
<1>1. /\ r.result \in {"found", "EOFException", "-1"}
      /\ r.read \in 0..limit
      /\ from + r.read <= Len(data)
      /\ r.result = "found" => /\ r.read >= 2
                               /\ data[from + r.read - 1] = a
                               /\ data[from + r.read] = b
      /\ r.result = "EOFException" => from + r.read = Len(data)
  BY SearchResult
<1>2. r.result # "-1"
  BY SearchStates
<1> HIDE DEF r
<1>3. ASSUME r.result = "found" PROVE FALSE
  <2>1. /\ r.read - 1 \in 1..(Len(data) - from - 1)
        /\ from + (r.read - 1) = from + r.read - 1
        /\ from + (r.read - 1) + 1 = from + r.read
    BY <1>1, <1>3, SMTT(30)
  <2> QED
    BY <1>1, <1>3, <2>1 DEF NoneAhead
<1> QED
  BY <1>1, <1>2, <1>3 DEF r

(* Where the parts lie in the stream.                                      *)
Part == [head : Seq(Cell), body : Seq(Cell)]
End(k) == IF k = 0 THEN 0 ELSE Default!Body(k).last
Start(k) == Default!Body(k).first - 1

(* The cells of a part: the head, then the body.                           *)
LEMMA CellsOf ==
  ASSUME NEW p \in Part
  PROVE  /\ Len(p.head) \in Nat /\ Len(p.body) \in Nat
         /\ Default!Cells(p) \in Seq(Cell)
         /\ Len(Default!Cells(p)) = Len(p.head) + Len(p.body)
         /\ \A j \in 1..Len(p.head) : Default!Cells(p)[j] = p.head[j]
         /\ \A j \in 1..Len(p.body) : Default!Cells(p)[Len(p.head) + j] = p.body[j]
<1>1. p.head \in Seq(Cell) /\ p.body \in Seq(Cell)
  BY DEF Part
<1> DEFINE head == p.head
           body == p.body
<1>2. head \in Seq(Cell) /\ body \in Seq(Cell) /\ Default!Cells(p) = head \o body
  BY <1>1 DEF Default!Cells
<1> HIDE DEF head, body
<1>3. /\ Len(head) \in Nat /\ Len(body) \in Nat
      /\ head \o body \in Seq(Cell)
      /\ Len(head \o body) = Len(head) + Len(body)
      /\ \A j \in 1..Len(head) : (head \o body)[j] = head[j]
      /\ \A j \in 1..Len(body) : (head \o body)[Len(head) + j] = body[j]
  BY <1>2, ConcatProperties
<1> QED
  BY <1>2, <1>3 DEF head, body

(* The recursive definition of where a body lies: each part begins where   *)
(* the one before it ends.                                                 *)
LEMMA Bodies ==
  ASSUME parts \in Seq(Part)
  PROVE  /\ \A k \in 0..Len(parts) : End(k) \in Nat
         /\ \A k \in 1..Len(parts) :
              /\ parts[k] \in Part
              /\ Default!Body(k) = [first |-> Start(k) + 1, last |-> End(k)]
              /\ Start(k) = End(k - 1) + Len(parts[k].head)
              /\ End(k) = Start(k) + Len(parts[k].body)
              /\ Len(Default!Cells(parts[k])) =
                   Len(parts[k].head) + Len(parts[k].body)
<1> DEFINE n == Len(parts)
           Zero == 0
           H(k) == Len(parts[k].head)
           B(k) == Len(parts[k].body)
           Size(k) == Len(Default!Cells(parts[k]))
           F == [i \in 1..n |-> [v \in Nat |-> v + Size(i)]]
           E(g) == [j \in 0..n |-> IF j = 0 THEN 0 ELSE g[j - 1] + Size(j)]
           Lengths == CHOOSE g : g = E(g)
<1>1. \A k \in 1..n :
        /\ parts[k] \in Part
        /\ H(k) \in Nat
        /\ B(k) \in Nat
        /\ Size(k) = H(k) + B(k)
  <2> TAKE k \in 1..n
  <2>1. parts[k] \in Part
    OBVIOUS
  <2>2. /\ parts[k].head \in Seq(Cell) /\ Len(parts[k].head) \in Nat
        /\ parts[k].body \in Seq(Cell) /\ Len(parts[k].body) \in Nat
    BY <2>1 DEF Part
  <2>3. Size(k) = H(k) + B(k)
    BY <2>2 DEF Default!Cells
  <2> QED
    BY <2>1, <2>2, <2>3
<1>2. \A k \in 1..n :
        Default!Body(k) = [first |-> Lengths[k - 1] + H(k) + 1,
                           last |-> Lengths[k - 1] + H(k) + B(k)]
  BY DEF Default!Body
<1>3. n \in Nat /\ Zero \in Nat
  OBVIOUS
<1> HIDE DEF n, Size, Zero, H, B
<1>4. \A k \in 1..n : Size(k) \in Nat
  BY <1>1
<1>5. F \in Steps(n, Nat)
  BY <1>4 DEF Steps
<1>6. \A i \in 1..n, v \in Nat : F[i][v] = v + Size(i)
  OBVIOUS
<1> HIDE DEF F
<1>7. PICK g : Recurs(g, n, Nat, Zero, F)
  BY <1>3, <1>5, Recursion
<1>8. ASSUME NEW i \in 1..n PROVE g[i] = g[i - 1] + Size(i)
  <2>1. i \in 0..n /\ i # 0 /\ i - 1 \in 0..n
    BY <1>3
  <2>2. g[i - 1] \in Nat
    BY <1>7, <2>1 DEF Recurs
  <2> QED
    BY <1>6, <1>7, <2>1, <2>2 DEF Recurs
<1>9. g[0] = 0
  BY <1>3, <1>7 DEF Zero, Recurs
<1>10. g = E(g)
  BY <1>3, <1>7, <1>8, <1>9 DEF Recurs
<1>11. Lengths = E(Lengths)
  BY <1>10
<1> HIDE DEF Lengths
<1>12. Lengths[0] = 0 /\ \A i \in 1..n : Lengths[i] = Lengths[i - 1] + Size(i)
  <2>1. 0 \in 0..n /\ \A i \in 1..n : i \in 0..n /\ i # 0
    BY <1>3
  <2> QED
    BY <1>11, <2>1
<1> HIDE DEF E
<1>13. \A i \in 0..n : Lengths[i] \in Nat
  <2>1. Lengths[0] \in Nat
    BY <1>12
  <2>2. \A i \in 1..n : Lengths[i - 1] \in Nat => Lengths[i] \in Nat
    BY <1>4, <1>12
  <2> QED
    BY <1>3, <2>1, <2>2, Typed
<1>14. ASSUME NEW k \in 1..n
       PROVE  /\ k - 1 \in 0..n /\ k # 0
              /\ Lengths[k - 1] \in Nat
              /\ Lengths[k] = Lengths[k - 1] + H(k) + B(k)
              /\ Start(k) = Lengths[k - 1] + H(k)
              /\ End(k) = Lengths[k]
  <2>1. k - 1 \in 0..n /\ k # 0
    BY <1>3
  <2>2. /\ Lengths[k - 1] \in Nat
        /\ Lengths[k] = Lengths[k - 1] + H(k) + B(k)
    BY <1>1, <1>12, <1>13, <2>1
  <2>3. /\ Default!Body(k).first = Lengths[k - 1] + H(k) + 1
        /\ Default!Body(k).last = Lengths[k - 1] + H(k) + B(k)
    BY <1>2
  <2> QED
    BY <1>1, <2>1, <2>2, <2>3 DEF End, Start
<1>15. \A k \in 0..n : End(k) = Lengths[k]
  <2> TAKE k \in 0..n
  <2>1. CASE k = 0
    BY <1>12, <2>1 DEF End
  <2>2. CASE k \in 1..n
    BY <1>14, <2>2
  <2> QED
    BY <1>3, <2>1, <2>2
<1>16. ASSUME NEW k \in 1..n
       PROVE  /\ Default!Body(k) = [first |-> Start(k) + 1, last |-> End(k)]
              /\ Start(k) = End(k - 1) + H(k)
              /\ End(k) = Start(k) + B(k)
  BY <1>1, <1>2, <1>14, <1>15
<1> QED
  BY <1>1, <1>13, <1>15, <1>16 DEF n, Size, H, B

(* Sequences laid end to end: L[k] is where the k-th ends.                 *)
Joins(s, n, g, L) ==
  /\ L[0] = 0 /\ g[0] = <<>>
  /\ \A i \in 1..n : /\ s[i] \in Seq(Cell) /\ Len(s[i]) \in Nat
                     /\ L[i] = L[i - 1] + Len(s[i])
                     /\ g[i] = g[i - 1] \o s[i]

Laid(s, m, t, L) ==
  /\ t \in Seq(Cell) /\ L[m] \in Nat /\ Len(t) = L[m]
  /\ \A k \in 1..m :
       /\ L[k - 1] \in Nat /\ L[k] <= L[m]
       /\ \A j \in 1..Len(s[k]) : t[L[k - 1] + j] = s[k][j]

(* One sequence more: what was laid stays where it was.                    *)
LEMMA JoinOne ==
  ASSUME NEW s, NEW n \in Nat, NEW g, NEW L, Joins(s, n, g, L),
         NEW m \in Nat, m + 1 <= n, Laid(s, m, g[m], L)
  PROVE  Laid(s, m + 1, g[m + 1], L)
<1> DEFINE t == g[m]
           u == s[m + 1]
<1>1. m + 1 \in 1..n /\ (m + 1) - 1 = m
  OBVIOUS
<1>2. /\ u \in Seq(Cell) /\ Len(u) \in Nat
      /\ L[m + 1] = L[m] + Len(u)
      /\ g[m + 1] = t \o u
  BY <1>1 DEF Joins
<1>3. t \in Seq(Cell) /\ L[m] \in Nat /\ Len(t) = L[m]
  BY DEF Laid
<1> HIDE DEF t, u
<1>4. /\ t \o u \in Seq(Cell)
      /\ Len(t \o u) = L[m + 1]
      /\ \A j \in 1..L[m] : (t \o u)[j] = t[j]
      /\ \A j \in 1..Len(u) : (t \o u)[L[m] + j] = u[j]
  <2>1. /\ t \o u \in Seq(Cell)
        /\ Len(t \o u) = Len(t) + Len(u)
        /\ \A i \in 1..(Len(t) + Len(u)) :
             (t \o u)[i] = IF i <= Len(t) THEN t[i] ELSE u[i - Len(t)]
    BY <1>2, <1>3, ConcatProperties
  <2>2. \A j \in 1..Len(u) : /\ L[m] + j \in 1..(Len(t) + Len(u))
                             /\ ~(L[m] + j <= Len(t)) /\ (L[m] + j) - Len(t) = j
    BY <1>2, <1>3
  <2>3. \A j \in 1..L[m] : j \in 1..(Len(t) + Len(u)) /\ j <= Len(t)
    BY <1>2, <1>3
  <2> QED
    BY <1>2, <1>3, <2>1, <2>2, <2>3
<1>5. ASSUME NEW k \in 1..m
      PROVE  /\ L[k - 1] \in Nat /\ L[k] <= L[m + 1]
             /\ \A j \in 1..Len(s[k]) : (t \o u)[L[k - 1] + j] = s[k][j]
  <2>1. /\ L[k - 1] \in Nat /\ L[k] <= L[m]
        /\ \A j \in 1..Len(s[k]) : t[L[k - 1] + j] = s[k][j]
    BY DEF Laid, t
  <2>2. k \in 1..n
    BY <1>1
  <2>3. L[k] = L[k - 1] + Len(s[k]) /\ Len(s[k]) \in Nat
    BY <2>2 DEF Joins
  <2> DEFINE e == L[k - 1]
             c == Len(s[k])
             v == L[m]
             w == L[m + 1]
             x == L[k]
             y == Len(u)
  <2>4. e \in Nat /\ c \in Nat /\ v \in Nat /\ y \in Nat
        /\ x = e + c /\ x <= v /\ w = v + y
    BY <1>2, <1>3, <2>1, <2>3
  <2>5. /\ \A j \in 1..v : (t \o u)[j] = t[j]
        /\ \A j \in 1..c : t[e + j] = s[k][j]
    BY <1>4, <2>1
  <2> HIDE DEF e, c, v, w, x, y
  <2>6. x <= w /\ \A j \in 1..c : e + j \in 1..v
    BY <2>4
  <2>7. \A j \in 1..c : (t \o u)[e + j] = s[k][j]
    BY <2>5, <2>6
  <2> QED
    BY <2>4, <2>6, <2>7 DEF e, c, w, x
<1>6. \A k \in 1..(m + 1) : k \in 1..m \/ k = m + 1
  OBVIOUS
<1>7. L[m + 1] \in Nat /\ L[m + 1] <= L[m + 1]
  BY <1>2, <1>3
<1>8. ASSUME NEW k \in 1..(m + 1)
      PROVE  /\ L[k - 1] \in Nat /\ L[k] <= L[m + 1]
             /\ \A j \in 1..Len(s[k]) : (t \o u)[L[k - 1] + j] = s[k][j]
  <2>1. CASE k \in 1..m
    BY <1>5, <2>1
  <2>2. CASE k = m + 1
    BY <1>1, <1>3, <1>4, <1>7, <2>2 DEF u
  <2> QED
    BY <1>6, <2>1, <2>2
<1> QED
  BY <1>2, <1>4, <1>7, <1>8, ZenonT(40) DEF Laid

(* All sequences are laid where L says, by induction on their number.      *)
LEMMA JoinAll ==
  ASSUME NEW s, NEW n \in Nat, NEW g, NEW L, Joins(s, n, g, L)
  PROVE  Laid(s, n, g[n], L)
<1> DEFINE T == {m \in Nat : m <= n => Laid(s, m, g[m], L)}
<1>1. 0 \in T
  <2>1. Laid(s, 0, g[0], L)
    <3>1. L[0] = 0 /\ g[0] = <<>>
      BY DEF Joins
    <3> QED
      BY <3>1 DEF Laid
  <2> QED
    BY <2>1
<1>2. ASSUME NEW m \in Nat, m \in T PROVE m + 1 \in T
  <2>1. m + 1 <= n => m <= n
    OBVIOUS
  <2> QED
    BY <1>2, <2>1, JoinOne
<1> HIDE DEF T
<1>3. n \in T
  BY <1>1, <1>2, SetInduction
<1> QED
  BY <1>3 DEF T

(* FlattenSeq lays its sequences end to end.                               *)
LEMMA Flattened ==
  ASSUME NEW n \in Nat, NEW s \in [1..n -> Seq(Cell)], NEW L,
         L[0] = 0, \A i \in 1..n : L[i] = L[i - 1] + Len(s[i])
  PROVE  Laid(s, n, Default!FlattenSeq(s), L)
<1> DEFINE E(g) == [i \in 1..n |-> IF i = 1 THEN s[i] ELSE g[i - 1] \o s[i]]
           flatten == CHOOSE g : g = E(g)
           Empty == <<>>
           All == Seq(Cell)
           F == [i \in 1..n |-> [v \in All |-> v \o s[i]]]
<1>1. Len(s) = n
  OBVIOUS
<1>2. Default!FlattenSeq(s) = IF n = 0 THEN s ELSE flatten[n]
  <2>1. Default!FlattenSeq(s) =
          IF Len(s) = 0 THEN s
          ELSE (CHOOSE g : g = [i \in 1..Len(s) |->
                  IF i = 1 THEN s[i] ELSE g[i - 1] \o s[i]])[Len(s)]
    BY DEF Default!FlattenSeq
  <2> QED
    BY <1>1, <2>1
<1>3. Empty \in All /\ \A v \in All : Empty \o v = v
  OBVIOUS
<1>4. F \in Steps(n, All)
  BY DEF Steps
<1>5. \A i \in 1..n, v \in All : F[i][v] = v \o s[i]
  OBVIOUS
<1> HIDE DEF F, Empty
<1>6. PICK h : Recurs(h, n, All, Empty, F)
  <2> HIDE DEF All
  <2> QED
    BY <1>3, <1>4, Recursion
<1>7. ASSUME NEW i \in 1..n
      PROVE  h[i] = h[i - 1] \o s[i] /\ h[i - 1] \in All
  <2>1. i \in 0..n /\ i # 0 /\ i - 1 \in 0..n
    OBVIOUS
  <2>2. h[i - 1] \in All
    BY <1>6, <2>1 DEF Recurs
  <2> QED
    BY <1>5, <1>6, <2>1, <2>2 DEF Recurs
<1>8. h[0] = Empty
  BY <1>6 DEF Recurs
<1> DEFINE f == [i \in 1..n |-> h[i]]
<1>9. ASSUME NEW i \in 1..n
      PROVE  h[i] = IF i = 1 THEN s[i] ELSE f[i - 1] \o s[i]
  <2>1. CASE i = 1
    <3>1. h[i] = h[0] \o s[i] /\ s[i] \in All
      BY <1>7, <2>1
    <3> QED
      BY <1>3, <1>8, <2>1, <3>1
  <2>2. CASE i # 1
    <3>1. i - 1 \in 1..n
      BY <2>2
    <3> QED
      BY <1>7, <2>2, <3>1
  <2> QED
    BY <2>1, <2>2
<1>10. f = E(f)
  BY <1>9
<1> HIDE DEF f
<1>11. flatten = E(flatten)
  BY <1>10
<1> HIDE DEF flatten
<1> DEFINE g == [i \in 0..n |-> IF i = 0 THEN <<>> ELSE flatten[i]]
<1>12. ASSUME NEW i \in 1..n PROVE g[i] = g[i - 1] \o s[i]
  <2>1. i \in 0..n /\ i - 1 \in 0..n /\ i # 0 /\ (i - 1 = 0 <=> i = 1)
    OBVIOUS
  <2>2. flatten[i] = IF i = 1 THEN s[i] ELSE flatten[i - 1] \o s[i]
    BY <1>11
  <2>3. g[i] = flatten[i] /\ g[i - 1] = IF i = 1 THEN <<>> ELSE flatten[i - 1]
    BY <2>1
  <2>4. <<>> \o s[i] = s[i]
    OBVIOUS
  <2> HIDE DEF g
  <2> QED
    BY <2>2, <2>3, <2>4
<1>13. g[0] = <<>> /\ g[n] = IF n = 0 THEN <<>> ELSE flatten[n]
  OBVIOUS
<1> HIDE DEF g
<1>14. Joins(s, n, g, L)
  <2>1. \A i \in 1..n : s[i] \in Seq(Cell) /\ Len(s[i]) \in Nat
    OBVIOUS
  <2> QED
    BY <1>12, <1>13, <2>1 DEF Joins
<1>15. Laid(s, n, g[n], L)
  BY <1>14, JoinAll
<1>16. n = 0 => s = <<>>
  OBVIOUS
<1> QED
  BY <1>2, <1>13, <1>15, <1>16

Bytes == [i \in DOMAIN parts |-> Default!Cells(parts[i])]

(* The stream: part k lies between End(k - 1) and End(k), its body after   *)
(* Start(k).                                                               *)
LEMMA Layout ==
  ASSUME parts \in Seq(Part), data = Default!FlattenSeq(Bytes)
  PROVE  /\ data \in Seq(Cell)
         /\ Len(data) = End(Len(parts))
         /\ \A k \in 1..Len(parts) :
              /\ End(k) <= Len(data)
              /\ \A j \in 1..Len(parts[k].head) :
                   data[End(k - 1) + j] = parts[k].head[j]
              /\ \A j \in 1..Len(parts[k].body) :
                   data[Start(k) + j] = parts[k].body[j]
<1> DEFINE n == Len(parts)
           L == [k \in 0..n |-> End(k)]
<1>1. n \in Nat /\ DOMAIN parts = 1..n
  OBVIOUS
<1>2. ASSUME NEW k \in 1..n
      PROVE  /\ parts[k] \in Part
             /\ Bytes[k] = Default!Cells(parts[k])
             /\ Bytes[k] \in Seq(Cell)
             /\ Len(Bytes[k]) = Len(parts[k].head) + Len(parts[k].body)
             /\ Start(k) = End(k - 1) + Len(parts[k].head)
             /\ End(k) = Start(k) + Len(parts[k].body)
             /\ End(k - 1) \in Nat
  <2>1. k - 1 \in 0..n
    BY <1>1
  <2>2. parts[k] \in Part /\ Bytes[k] = Default!Cells(parts[k])
    BY <1>1 DEF Bytes
  <2> QED
    BY <2>1, <2>2, CellsOf, Bodies
<1>3. Bytes \in [1..n -> Seq(Cell)]
  BY <1>1, <1>2 DEF Bytes
<1> HIDE DEF n
<1>4. ASSUME NEW k \in 0..n PROVE L[k] = End(k)
  OBVIOUS
<1>5. L[0] = 0
  BY <1>1 DEF End
<1>6. ASSUME NEW k \in 1..n PROVE L[k] = L[k - 1] + Len(Bytes[k])
  <2>1. k \in 0..n /\ k - 1 \in 0..n
    BY <1>1
  <2> DEFINE h == Len(parts[k].head)
             b == Len(parts[k].body)
  <2>2. h \in Nat /\ b \in Nat
    BY <1>2, CellsOf
  <2>3. /\ Len(Bytes[k]) = h + b /\ End(k) = (End(k - 1) + h) + b
        /\ End(k - 1) \in Nat
    BY <1>2
  <2>4. L[k] = End(k) /\ L[k - 1] = End(k - 1)
    BY <1>4, <2>1
  <2> HIDE DEF h, b, L
  <2> QED
    BY <2>2, <2>3, <2>4
<1> HIDE DEF L
<1>7. Laid(Bytes, n, data, L)
  BY <1>1, <1>3, <1>5, <1>6, Flattened
<1>8. data \in Seq(Cell) /\ Len(data) = End(n)
  BY <1>1, <1>4, <1>7 DEF Laid
<1>9. ASSUME NEW k \in 1..n
      PROVE  /\ End(k) <= Len(data)
             /\ \A j \in 1..Len(parts[k].head) :
                  data[End(k - 1) + j] = parts[k].head[j]
             /\ \A j \in 1..Len(parts[k].body) :
                  data[Start(k) + j] = parts[k].body[j]
  <2> DEFINE h == Len(parts[k].head)
             b == Len(parts[k].body)
             e == End(k - 1)
  <2>1. k \in 0..n /\ k - 1 \in 0..n
    BY <1>1
  <2>2. /\ h \in Nat /\ b \in Nat
        /\ \A j \in 1..h : Bytes[k][j] = parts[k].head[j]
        /\ \A j \in 1..b : Bytes[k][h + j] = parts[k].body[j]
    BY <1>2, CellsOf, ZenonT(40)
  <2>3. End(k) <= Len(data) /\ \A j \in 1..Len(Bytes[k]) : data[e + j] = Bytes[k][j]
    BY <1>4, <1>7, <1>8, <2>1 DEF Laid
  <2>4. e \in Nat /\ Start(k) = e + h /\ Len(Bytes[k]) = h + b
    BY <1>2
  <2> HIDE DEF h, b, e
  <2>5. \A j \in 1..h : j \in 1..Len(Bytes[k])
    BY <2>2, <2>4
  <2>6. \A j \in 1..b : h + j \in 1..Len(Bytes[k]) /\ e + (h + j) = e + h + j
    BY <2>2, <2>4
  <2>7. \A j \in 1..h : data[e + j] = parts[k].head[j]
    BY <2>2, <2>3, <2>5
  <2>8. \A j \in 1..b : data[Start(k) + j] = parts[k].body[j]
    BY <2>2, <2>3, <2>4, <2>6
  <2> QED
    BY <2>3, <2>7, <2>8 DEF h, b, e
<1> QED
  BY <1>8, <1>9 DEF n

-----------------------------------------------------------------------------
(* Occurrences of a pair, cell by cell.                                    *)
LEMMA OccurrencesOf ==
  ASSUME NEW s \in Seq(Cell), NEW a, NEW b
  PROVE  Default!Occurrences(<<a, b>>, s) =
           {i \in 1..(Len(s) - 1) : s[i] = a /\ s[i + 1] = b}
<1>1. ASSUME NEW i \in 1..(Len(s) - 1)
      PROVE  SubSeq(s, i, i + 1) = <<a, b>> <=> s[i] = a /\ s[i + 1] = b
  <2>1. i \in 1..Len(s) /\ i + 1 \in 1..Len(s)
    OBVIOUS
  <2>2. SubSeq(s, i, i + 1) = <<s[i], s[i + 1]>>
    <3> DEFINE t == SubSeq(s, i, i + 1)
               u == <<s[i], s[i + 1]>>
    <3>1. t \in Seq(Cell) /\ Len(t) = 2 /\ t[1] = s[i] /\ t[2] = s[i + 1]
      <4>1. /\ t \in Seq(Cell)
            /\ Len(t) = (i + 1) - i + 1
            /\ \A j \in 1..((i + 1) - i + 1) : t[j] = s[i + j - 1]
        BY <2>1, SubSeqProperties
      <4>2. (i + 1) - i + 1 = 2 /\ i + 1 - 1 = i /\ i + 2 - 1 = i + 1
        OBVIOUS
      <4> HIDE DEF t
      <4>3. 1 \in 1..2 /\ 2 \in 1..2
        OBVIOUS
      <4> QED
        BY <4>1, <4>2, <4>3
    <3>2. u \in Seq(Cell) /\ Len(u) = 2 /\ u[1] = s[i] /\ u[2] = s[i + 1]
      BY <2>1
    <3> HIDE DEF t, u
    <3>3. \A j \in 1..Len(t) : t[j] = u[j]
      BY <3>1, <3>2
    <3>4. t = u
      BY <3>1, <3>2, <3>3, SeqEqual
    <3> QED
      BY <3>4 DEF t, u
  <2> QED
    BY <2>2
<1>2. Default!Occurrences(<<a, b>>, s) =
        {i \in 1..(Len(s) - 1) : SubSeq(s, i, i + 1) = <<a, b>>}
  BY DEF Default!Occurrences
<1> QED
  BY <1>1, <1>2

(* What IsImage says, cell by cell: one start marker, at the beginning,    *)
(* one end marker, at the end, and a head of text.                         *)
LEMMA ImageFacts ==
  ASSUME NEW p \in Part, Default!IsImage(p)
  PROVE  /\ Len(p.body) >= 2
         /\ p.body[1] = "FF" /\ p.body[2] = "D8"
         /\ p.body[Len(p.body) - 1] = "FF" /\ p.body[Len(p.body)] = "D9"
         /\ \A j \in 1..(Len(p.body) - 1) : p.body[j] = "FF" =>
              /\ p.body[j + 1] = "D8" => j = 1
              /\ p.body[j + 1] = "D9" => j = Len(p.body) - 1
         /\ \A j \in 1..Len(p.head) : p.head[j] \notin {"FF", Malformed}
<1> DEFINE b == p.body
           n == Len(b)
<1>1. b \in Seq(Cell) /\ p.head \in Seq(Cell) /\ n \in Nat
  BY DEF Part
<1>2. /\ Default!Occurrences(<<"FF", "D8">>, b) = {1}
      /\ Default!Occurrences(<<"FF", "D9">>, b) = {n - 1}
      /\ \A j \in 1..Len(p.head) : p.head[j] \notin {"FF", Malformed}
  BY <1>1 DEF Default!IsImage, Default!SOI_MARKER, Default!EOF_MARKER
<1> HIDE DEF b
<1>3. /\ {i \in 1..(n - 1) : b[i] = "FF" /\ b[i + 1] = "D8"} = {1}
      /\ {i \in 1..(n - 1) : b[i] = "FF" /\ b[i + 1] = "D9"} = {n - 1}
  <2>1. \A x, y : Default!Occurrences(<<x, y>>, b) =
                   {i \in 1..(Len(b) - 1) : b[i] = x /\ b[i + 1] = y}
    BY <1>1, OccurrencesOf
  <2> QED
    BY <1>2, <2>1
<1> HIDE DEF n
<1>4. 1 \in 1..(n - 1) /\ b[1] = "FF" /\ b[1 + 1] = "D8"
  BY <1>3
<1>5. n - 1 \in 1..(n - 1) /\ b[n - 1] = "FF" /\ b[(n - 1) + 1] = "D9"
  BY <1>3
<1>6. \A j \in 1..(n - 1) : b[j] = "FF" =>
        /\ b[j + 1] = "D8" => j = 1
        /\ b[j + 1] = "D9" => j = n - 1
  BY <1>3
<1>7. n >= 2 /\ (n - 1) + 1 = n /\ 1 + 1 = 2
  BY <1>1, <1>4 DEF n
<1> QED
  BY <1>2, <1>4, <1>5, <1>6, <1>7 DEF b, n

(* HasNoFill, cell by cell.                                                *)
LEMMA NoFill ==
  ASSUME NEW p \in Part, Default!HasNoFill(p)
  PROVE  \A j \in 1..(Len(p.body) - 1) : ~(p.body[j] = "FF" /\ p.body[j + 1] = "FF")
<1> DEFINE b == p.body
<1>1. b \in Seq(Cell)
  BY DEF Part
<1>2. Default!Occurrences(<<"FF", "FF">>, b) = {}
  BY DEF Default!HasNoFill
<1> HIDE DEF b
<1>3. {i \in 1..(Len(b) - 1) : b[i] = "FF" /\ b[i + 1] = "FF"} = {}
  BY <1>1, <1>2, OccurrencesOf
<1> QED
  BY <1>3 DEF b

(* parseContentLength takes the number of the last line there is           *)
(* (MjpegInputStreamDefault.java:51-56).                                   *)
LEMMA Latest ==
  ASSUME NEW s \in Seq(Cell)
  PROVE  LET A == Default!Announcements(s) IN
           /\ A = {i \in 1..Len(s) : s[i] \in DOMAIN ContentLength}
           /\ A = {} => Default!ParseContentLength(s) = NotANumber
           /\ A # {} => \E x \in A :
                /\ \A y \in A : x >= y
                /\ Default!ParseContentLength(s) = ContentLength[s[x]]
<1> DEFINE A == Default!Announcements(s)
<1>1. A = {i \in 1..Len(s) : s[i] \in DOMAIN ContentLength}
  BY DEF Default!Announcements
<1>2. Default!ParseContentLength(s) =
        IF A = {} THEN NotANumber
        ELSE ContentLength[s[CHOOSE x \in A : \A y \in A : x >= y]]
  BY DEF Default!ParseContentLength, Default!Max
<1>3. A \subseteq 0..Len(s) /\ Len(s) \in Nat
  BY <1>1
<1> HIDE DEF A
<1>4. A # {} => \E x \in A : \A y \in A : x >= y
  BY <1>3, Greatest
<1> QED
  BY <1>1, <1>2, <1>4 DEF A

(* A header that ends as `head' does.                                      *)
LEMMA LastLine ==
  ASSUME NEW header \in Seq(Cell), NEW head \in Seq(Cell), NEW r \in Int,
         Len(header) = Len(head) + r,
         \A y \in 1..Len(header) : y - r >= 1 => header[y] = head[y - r]
  PROVE  LET parsed == Default!ParseContentLength(header)
             whole == Default!ParseContentLength(head)
         IN  /\ whole # NotANumber => parsed \in {NotANumber, whole}
             /\ whole # NotANumber /\ r >= 0 => parsed = whole
             /\ r >= 0 /\ (\A y \in 1..r : header[y] \notin DOMAIN ContentLength) =>
                  parsed = whole
<1> DEFINE A == Default!Announcements(header)
           H == Default!Announcements(head)
           parsed == Default!ParseContentLength(header)
           whole == Default!ParseContentLength(head)
           n == Len(header)
           m == Len(head)
<1>1. /\ A = {i \in 1..n : header[i] \in DOMAIN ContentLength}
      /\ A = {} => parsed = NotANumber
      /\ A # {} => \E x \in A : /\ \A y \in A : x >= y
                                /\ parsed = ContentLength[header[x]]
  BY Latest
<1>2. /\ H = {i \in 1..m : head[i] \in DOMAIN ContentLength}
      /\ H = {} => whole = NotANumber
      /\ H # {} => \E x \in H : /\ \A y \in H : x >= y
                                /\ whole = ContentLength[head[x]]
  BY Latest
<1>3. n \in Nat /\ m \in Nat /\ n = m + r
      /\ \A y \in 1..n : y - r >= 1 => header[y] = head[y - r]
  OBVIOUS
<1> HIDE DEF A, H, parsed, whole, n, m
<1>4. ASSUME NEW y \in A, y - r >= 1 PROVE y - r \in H /\ header[y] = head[y - r]
  BY <1>1, <1>2, <1>3, <1>4
<1>5. ASSUME NEW x \in H, x + r >= 1 PROVE x + r \in A
  <2>1. x \in 1..m /\ x + r \in 1..n /\ (x + r) - r = x /\ (x + r) - r >= 1
    BY <1>2, <1>3, <1>5
  <2>2. header[x + r] = head[x]
    BY <1>3, <2>1
  <2> QED
    BY <1>1, <1>2, <2>1, <2>2
<1>6. ASSUME A # {}, H # {} PROVE parsed = whole
  <2>1. PICK x \in A : (\A y \in A : x >= y) /\ parsed = ContentLength[header[x]]
    BY <1>1, <1>6
  <2>2. PICK z \in H : (\A y \in H : z >= y) /\ whole = ContentLength[head[z]]
    BY <1>2, <1>6
  <2>3. x \in Int /\ x >= 1 /\ z \in Int /\ z >= 1
    BY <1>1, <1>2
  <2>4. CASE z + r >= 1
    <3>1. x >= z + r
      BY <1>5, <2>1, <2>4
    <3>2. x - r >= 1
      BY <2>3, <3>1
    <3>3. x - r \in H /\ header[x] = head[x - r]
      BY <1>4, <3>2
    <3>4. z >= x - r
      BY <2>2, <3>3
    <3>5. x - r = z
      BY <2>3, <3>1, <3>4
    <3> QED
      BY <2>1, <2>2, <3>3, <3>5
  <2>5. CASE ~(z + r >= 1)
    <3>1. x - r >= 1 /\ x - r > z
      BY <2>3, <2>5
    <3>2. x - r \in H
      BY <1>4, <3>1
    <3> QED
      BY <2>2, <2>3, <3>1, <3>2
  <2> QED
    BY <2>4, <2>5
<1>7. H # {} /\ r >= 0 => A # {}
  <2> SUFFICES ASSUME NEW x \in H, r >= 0 PROVE A # {}
    OBVIOUS
  <2>1. x + r >= 1
    BY <1>2
  <2> QED
    BY <1>5, <2>1
<1>8. ASSUME r >= 0, \A y \in 1..r : header[y] \notin DOMAIN ContentLength, A # {}
      PROVE  H # {}
  <2>1. PICK y \in A : TRUE
    BY <1>8
  <2>2. y \in 1..n /\ ~(y \in 1..r)
    BY <1>1, <1>8
  <2>3. y - r >= 1
    BY <1>8, <2>2
  <2> QED
    BY <1>4, <2>3
<1> QED
  BY <1>1, <1>2, <1>6, <1>7, <1>8 DEF parsed, whole

Streamed == parts \in Seq(Part) /\ data = Default!FlattenSeq(Bytes)

(* Part k of the stream, and where each cell of it lies.                   *)
LEMMA PartAt ==
  ASSUME Streamed, NEW k \in 1..Len(parts)
  PROVE  LET h == Len(parts[k].head)
             b == Len(parts[k].body)
         IN  /\ parts[k] \in Part
             /\ h \in Nat /\ b \in Nat
             /\ End(k - 1) \in Nat
             /\ Start(k) = End(k - 1) + h
             /\ End(k) = Start(k) + b
             /\ End(k) <= Len(data)
             /\ Len(data) \in Nat
             /\ Len(data) = End(Len(parts))
             /\ data \in Seq(Cell)
             /\ Default!Body(k) = [first |-> Start(k) + 1, last |-> End(k)]
             /\ Len(Default!Cells(parts[k])) = h + b
             /\ \A j \in 1..h : data[End(k - 1) + j] = parts[k].head[j]
             /\ \A j \in 1..b : data[Start(k) + j] = parts[k].body[j]
<1>1. parts \in Seq(Part)
  BY DEF Streamed
<1>2. k - 1 \in 0..Len(parts)
  BY <1>1
<1>3. parts[k] \in Part /\ End(k - 1) \in Nat
  BY <1>1, <1>2, Bodies
<1>4. Len(parts[k].head) \in Nat /\ Len(parts[k].body) \in Nat
  BY <1>3, CellsOf
<1>5. data \in Seq(Cell) /\ Len(data) = End(Len(parts)) /\ Len(data) \in Nat
  BY Layout DEF Streamed
<1> QED
  BY <1>1, <1>3, <1>4, <1>5, Bodies, Layout DEF Streamed

(* From the start of an image the end marker is not found too early, and   *)
(* without fill bytes it is found exactly                                  *)
(* (MjpegInputStreamDefault.java:33-44).                                   *)
LEMMA SearchEnd ==
  ASSUME Streamed, NEW k \in 1..Len(parts), Default!IsImage(parts[k]), NEW limit \in Nat
  PROVE  LET r == Default!SearchUpTo(<<"FF", "D9">>, Start(k), limit)
             b == Len(parts[k].body)
         IN  /\ r.result = "found" => r.read >= b
             /\ Default!HasNoFill(parts[k]) /\ b <= limit =>
                  r.result = "found" /\ r.read = b
<1> DEFINE from == Start(k)
           body == parts[k].body
           b == Len(body)
           ff == "FF"
           d9 == "D9"
           r == Default!SearchUpTo(<<ff, d9>>, from, limit)
<1>1. /\ from \in Nat /\ b \in Nat /\ Len(data) \in Nat
      /\ from + b <= Len(data)
  <2>1. /\ End(k - 1) \in Nat /\ Len(parts[k].head) \in Nat
        /\ from = End(k - 1) + Len(parts[k].head)
        /\ b \in Nat /\ Len(data) \in Nat
        /\ End(k) = from + b /\ End(k) <= Len(data)
    BY PartAt
  <2> HIDE DEF from, b
  <2> QED
    BY <2>1
<1>a. /\ data \in Seq(Cell) /\ parts[k] \in Part
      /\ \A j \in 1..b : data[from + j] = body[j]
  BY PartAt
<1>2. /\ b >= 2
      /\ body[b - 1] = ff /\ body[b] = d9
      /\ \A j \in 1..(b - 1) : body[j] = ff /\ body[j + 1] = d9 => j = b - 1
  BY <1>a, ImageFacts
<1>3. ff # d9
  OBVIOUS
<1> HIDE DEF from, body, b, ff, d9, r
<1>4. from \in 0..Len(data)
  BY <1>1
<1>5. /\ r.read \in 0..limit
      /\ r.result = "found" => /\ r.read >= 2
                               /\ data[from + r.read - 1] = ff
                               /\ data[from + r.read] = d9
  BY <1>a, <1>3, <1>4, SearchResult DEF r
<1>6. ASSUME r.result = "found", ~(r.read >= b) PROVE FALSE
  <2> DEFINE q == r.read
             j == q - 1
  <2>a. q \in Nat /\ q >= 2 /\ ~(q >= b)
    BY <1>5, <1>6
  <2> HIDE DEF q
  <2>1. /\ j \in 1..(b - 1) /\ j \in 1..b /\ j + 1 \in 1..b /\ j # b - 1
        /\ from + j = from + q - 1 /\ from + (j + 1) = from + q
    BY <1>1, <2>a
  <2>2. body[j] = ff /\ body[j + 1] = d9
    BY <1>a, <1>5, <1>6, <2>1 DEF q
  <2> QED
    BY <1>2, <2>1, <2>2
<1>7. ASSUME Default!HasNoFill(parts[k]), b <= limit
      PROVE  r.result = "found" /\ r.read = b
  <2> DEFINE m == b - 2
  <2>1. /\ m \in Nat /\ m + 2 = b /\ from + m + 2 <= Len(data)
        /\ m + 1 = b - 1 /\ m + 1 \in 1..b /\ b \in 1..b
        /\ from + m + 1 = from + (b - 1) /\ from + m + 2 = from + b
    BY <1>1, <1>2
  <2>2. data[from + m + 1] = ff /\ data[from + m + 2] = d9
    BY <1>a, <1>2, <2>1
  <2> HIDE DEF m
  <2>3. ASSUME NEW j \in 1..m
        PROVE  /\ j \in 1..b /\ j + 1 \in 1..b /\ j \in 1..(b - 1)
               /\ j # b - 1 /\ from + (j + 1) = from + j + 1
    BY <1>1, <2>1
  <2>4. ASSUME NEW j \in 1..m PROVE ~(data[from + j] = ff /\ data[from + j + 1] = d9)
    <3>1. data[from + j] = body[j] /\ data[from + j + 1] = body[j + 1]
      BY <1>a, <2>3
    <3> QED
      BY <1>2, <2>3, <3>1
  <2>5. m > 0 => data[from + m] # ff
    <3> SUFFICES ASSUME m > 0, data[from + m] = ff PROVE FALSE
      OBVIOUS
    <3>1. m \in 1..b /\ m \in 1..(b - 1)
      BY <2>1
    <3>2. body[m] = ff /\ body[m + 1] = ff
      BY <1>a, <1>2, <2>1, <3>1
    <3>3. \A j \in 1..(b - 1) : ~(body[j] = ff /\ body[j + 1] = ff)
      BY <1>a, <1>7, NoFill DEF body, b, ff
    <3> QED
      BY <3>1, <3>2, <3>3
  <2>6. r.result = "found" /\ r.read = m + 2
    <3>1. m + 2 <= limit /\ m \in Nat /\ from + m + 2 <= Len(data)
      BY <1>7, <2>1
    <3>2. data \in Seq(Cell)
      BY <1>a
    <3>3. \A j \in 1..m : ~(data[from + j] = ff /\ data[from + j + 1] = d9)
      BY <2>4
    <3>4. FirstAhead(from, m, ff, d9)
      BY <2>2, <2>5, <3>1, <3>3 DEF FirstAhead
    <3> QED
      BY <1>3, <1>4, <3>1, <3>2, <3>4, SearchFound DEF r
  <2> QED
    BY <2>1, <2>6
<1> QED
  BY <1>6, <1>7 DEF r, from, b, body, ff, d9

-----------------------------------------------------------------------------
(* Cameras whose parts are sound or announce too little.                   *)
Confined ==
  /\ \A i \in DOMAIN parts : Default!IsSound(parts[i]) \/ Default!IsShort(parts[i])
  /\ \A k \in DOMAIN parts :
       Default!IsShort(parts[k]) /\ k < Len(parts) => Default!RestFits(k)

(* How much of the body of part k is taken, and where that leaves off.     *)
Taken(k) ==
  IF Default!Announces(parts[k]) THEN Default!ParseContentLength(parts[k].head)
  ELSE Len(parts[k].body)
Reached(k) == IF k = 0 THEN 0 ELSE Start(k) + Taken(k)

(* The parts of a confined camera: what is taken of each.                  *)
LEMMA Kinds ==
  ASSUME Streamed, Confined, NEW k \in 1..Len(parts)
  PROVE  /\ Default!IsImage(parts[k])
         /\ Len(parts[k].head) + Len(parts[k].body) <= DefaultMaxLength
         /\ Taken(k) \in 2..Len(parts[k].body)
         /\ Taken(k) # Len(parts[k].body) => Default!IsShort(parts[k])
         /\ Default!Announces(parts[k]) =>
              Default!ParseContentLength(parts[k].head) = Taken(k)
         /\ ~Default!Announces(parts[k]) =>
              Default!HasNoFill(parts[k]) /\ Taken(k) = Len(parts[k].body)
<1> DEFINE p == parts[k]
           b == Len(p.body)
<1>1. /\ p \in Part /\ b \in Nat
      /\ Len(Default!Cells(p)) = Len(p.head) + b
  BY PartAt
<1>2. Default!IsSound(p) \/ Default!IsShort(p)
  <2>1. k \in DOMAIN parts
    BY DEF Streamed
  <2> QED
    BY <2>1 DEF Confined
<1>3. Default!IsImage(p) /\ Len(Default!Cells(p)) <= DefaultMaxLength
  BY <1>2 DEF Default!IsSound, Default!IsShort, Default!Fits
<1>4. b >= 2
  BY <1>1, <1>3, ImageFacts
<1>5. Taken(k) = IF Default!Announces(p) THEN Default!ParseContentLength(p.head) ELSE b
  BY DEF Taken
<1> DEFINE t == Taken(k)
           parsed == Default!ParseContentLength(p.head)
           h == Len(p.head)
           announces == Default!Announces(p)
           fill == ~Default!HasNoFill(p)
           short == Default!IsShort(p)
<1>a. h + b <= DefaultMaxLength
  BY <1>1, <1>3
<1> HIDE DEF p, b, t, parsed, h, announces, fill, short
<1>6. CASE Default!IsShort(p)
  <2>1. Default!Announces(p) /\ Default!ParseContentLength(p.head) \in 2..(b - 1)
    BY <1>6 DEF Default!IsShort, b
  <2>2. announces /\ parsed \in 2..(b - 1) /\ short
    BY <1>6, <2>1 DEF announces, parsed, short
  <2>3. t = IF announces THEN parsed ELSE b
    BY <1>5 DEF announces, parsed, t
  <2>4. /\ t \in 2..b
        /\ t # b => short
        /\ announces => parsed = t
        /\ ~announces => ~fill /\ t = b
    BY <1>1, <2>2, <2>3
  <2> QED
    BY <1>3, <1>a, <2>4 DEF p, b, t, parsed, h, announces, fill, short
<1>7. CASE Default!IsSound(p)
  <2>1. IF Default!Announces(p) THEN Default!ParseContentLength(p.head) = b
        ELSE Default!HasNoFill(p)
    BY <1>7 DEF Default!IsSound, b
  <2>2. IF announces THEN parsed = b ELSE ~fill
    BY <2>1 DEF announces, parsed, fill
  <2>3. t = IF announces THEN parsed ELSE b
    BY <1>5 DEF announces, parsed, t
  <2>4. /\ t \in 2..b
        /\ t # b => short
        /\ announces => parsed = t
        /\ ~announces => ~fill /\ t = b
    BY <1>1, <1>4, <2>2, <2>3
  <2> QED
    BY <1>3, <1>a, <2>4 DEF p, b, t, parsed, h, announces, fill, short
<1> QED
  BY <1>2, <1>6, <1>7

(* What is left of part k: nothing, or the rest of a short body.           *)
LEMMA RestOf ==
  ASSUME Streamed, Confined, NEW k \in 0..Len(parts), DefaultMaxLength \in Nat \ {0}
  PROVE  LET from == Reached(k)
             r == End(k) - from
         IN  /\ from \in Nat /\ r \in Nat /\ from + r = End(k)
             /\ r < DefaultMaxLength
             /\ r > 0 => data[from + r] = "D9"
             /\ r > 0 /\ k < Len(parts) =>
                  r + Len(Default!Cells(parts[k + 1])) <= DefaultMaxLength
             /\ \A j \in 1..r : data[from + j] \notin {Malformed} \cup DOMAIN ContentLength
             /\ \A j \in 1..(r - 1) : ~(data[from + j] = "FF" /\ data[from + j + 1] = "D8")
<1>1. CASE k = 0
  BY <1>1 DEF Reached, End
<1>2. CASE k \in 1..Len(parts)
  <2> DEFINE p == parts[k]
             body == p.body
             b == Len(body)
             t == Taken(k)
             start == Start(k)
             from == Reached(k)
             r == End(k) - from
  <2>1. /\ p \in Part /\ b \in Nat /\ End(k) = start + b
        /\ \A j \in 1..b : data[start + j] = body[j]
    BY <1>2, PartAt
  <2>2. start \in Nat
    <3>1. /\ End(k - 1) \in Nat /\ Len(p.head) \in Nat
          /\ start = End(k - 1) + Len(p.head)
      BY <1>2, PartAt
    <3> QED
      BY <3>1
  <2>3. /\ Default!IsImage(p) /\ t \in 2..b
        /\ Len(p.head) + b <= DefaultMaxLength
        /\ t # b => Default!IsShort(p)
    BY <1>2, Kinds
  <2>4. b < DefaultMaxLength + 1
    <3> DEFINE h == Len(p.head)
    <3>1. h \in Nat /\ b \in Nat /\ h + b <= DefaultMaxLength
      BY <1>2, <2>3, PartAt
    <3> HIDE DEF h, b
    <3> QED
      BY <3>1
  <2>5. from = start + t
    BY <1>2 DEF Reached
  <2>6. t # b => /\ t = Default!ParseContentLength(p.head)
                 /\ Default!Announcements(body) = {}
                 /\ \A i \in DOMAIN body : body[i] # Malformed
    <3>1. Default!IsShort(p) => /\ Default!Announces(p)
                                /\ Default!Announcements(body) = {}
                                /\ \A i \in DOMAIN body : body[i] # Malformed
      BY DEF Default!IsShort
    <3>2. Default!Announces(p) => t = Default!ParseContentLength(p.head)
      BY DEF Taken
    <3> QED
      BY <2>3, <3>1, <3>2
  <2>7. body \in Seq(Cell)
    BY <2>1 DEF Part
  <2>8. /\ body[b] = "D9"
        /\ \A j \in 1..(b - 1) : body[j] = "FF" /\ body[j + 1] = "D8" => j = 1
    BY <2>1, <2>3, ImageFacts
  <2>9. t # b => \A i \in 1..b : body[i] \notin {Malformed} \cup DOMAIN ContentLength
    BY <2>6, <2>7 DEF Default!Announcements
  <2>10. t # b /\ k < Len(parts) =>
           b - t + Len(Default!Cells(parts[k + 1])) <= DefaultMaxLength
    <3>1. k \in DOMAIN parts
      BY <1>2 DEF Streamed
    <3> QED
      BY <2>3, <2>6, <3>1 DEF Confined, Default!RestFits
  <2>11. from \in Nat /\ r \in Nat /\ r = b - t /\ from + r = End(k)
         /\ r < DefaultMaxLength /\ (r > 0 => t # b)
    <3> DEFINE e == End(k)
    <3>1. e = start + b /\ b \in Nat /\ start \in Nat /\ t \in 2..b
          /\ b < DefaultMaxLength + 1 /\ from = start + t /\ r = e - from
      BY <2>1, <2>2, <2>3, <2>4, <2>5
    <3> HIDE DEF b, t, start, from, e, r
    <3>2. from \in Nat /\ r \in Nat /\ r = b - t /\ from + r = e
          /\ r < DefaultMaxLength /\ (r > 0 => t # b)
      BY <3>1
    <3> QED
      BY <3>2 DEF e
  <2>12. ASSUME NEW j \in 1..r
         PROVE  /\ t + j \in 1..b /\ from + j = start + (t + j)
                /\ t + j # 1 /\ t # b
    <3>1. b \in Nat /\ start \in Nat /\ t \in 2..b /\ from = start + t /\ r = b - t
      BY <2>1, <2>2, <2>3, <2>5, <2>11
    <3> HIDE DEF b, t, start, from, r
    <3> QED
      BY <3>1
  <2>13. ASSUME NEW j \in 1..r
         PROVE  data[from + j] = body[t + j]
    BY <2>1, <2>12
  <2> HIDE DEF b, t, start, from, r, body
  <2>14. r > 0 => data[from + r] = "D9"
    <3>1. r > 0 => r \in 1..r /\ t + r = b
      BY <2>1, <2>3, <2>11, SMTT(30)
    <3> QED
      BY <2>8, <2>13, <3>1
  <2>15. ASSUME NEW j \in 1..r
         PROVE  data[from + j] \notin {Malformed} \cup DOMAIN ContentLength
    BY <2>9, <2>12, <2>13
  <2>16. ASSUME NEW j \in 1..(r - 1)
         PROVE  ~(data[from + j] = "FF" /\ data[from + j + 1] = "D8")
    <3>1. /\ j \in 1..r /\ j + 1 \in 1..r /\ from + (j + 1) = from + j + 1
          /\ t + (j + 1) = (t + j) + 1 /\ t + j \in 1..(b - 1) /\ t + j # 1
      BY <2>1, <2>3, <2>11
    <3>2. data[from + j] = body[t + j] /\ data[from + j + 1] = body[(t + j) + 1]
      BY <2>13, <3>1
    <3> QED
      BY <2>8, <3>1, <3>2
  <2>17. r > 0 /\ k < Len(parts) =>
           r + Len(Default!Cells(parts[k + 1])) <= DefaultMaxLength
    BY <2>10, <2>11
  <2> QED
    BY <2>11, <2>14, <2>15, <2>16, <2>17 DEF r, from
<1> QED
  BY <1>1, <1>2

(* From where a part was left to the next image: its start marker is the   *)
(* first, and what comes before it is a header that says what the head of  *)
(* the next part says.                                                     *)
LEMMA Ahead ==
  ASSUME Streamed, Confined, NEW k \in 1..Len(parts), DefaultMaxLength \in Nat \ {0}
  PROVE  LET from == Reached(k - 1)
             m == Start(k) - from
             h == Len(parts[k].head)
         IN  /\ from \in 0..Len(data) /\ m \in Nat /\ h \in Nat /\ h <= m
             /\ m + Len(parts[k].body) <= DefaultMaxLength
             /\ FirstAhead(from, m, "FF", "D8")
             /\ \A j \in 1..m : data[from + j] # Malformed
             /\ \A j \in 1..(m - h) : data[from + j] \notin DOMAIN ContentLength
             /\ \A j \in 1..h : data[from + (m - h + j)] = parts[k].head[j]
<1> DEFINE from == Reached(k - 1)
           m == Start(k) - from
           head == parts[k].head
           body == parts[k].body
           h == Len(head)
           b == Len(body)
           r == End(k - 1) - from
           start == Start(k)
           before == End(k - 1)
<1>1. /\ parts[k] \in Part
      /\ h \in Nat /\ b \in Nat /\ before \in Nat
      /\ start = before + h /\ End(k) = start + b /\ End(k) <= Len(data)
      /\ Len(data) \in Nat
      /\ Len(Default!Cells(parts[k])) = h + b
  BY PartAt
<1>2. /\ \A j \in 1..h : data[before + j] = head[j]
      /\ \A j \in 1..b : data[start + j] = body[j]
  BY PartAt
<1>3. k - 1 \in 0..Len(parts) /\ k - 1 < Len(parts) /\ (k - 1) + 1 = k
  BY DEF Streamed
<1>4. /\ from \in Nat /\ r \in Nat /\ from + r = before
      /\ r > 0 => data[from + r] = "D9" /\ r + (h + b) <= DefaultMaxLength
      /\ \A j \in 1..r : data[from + j] \notin {Malformed} \cup DOMAIN ContentLength
      /\ \A j \in 1..(r - 1) : ~(data[from + j] = "FF" /\ data[from + j + 1] = "D8")
  BY <1>1, <1>3, RestOf
<1>5. /\ Default!IsImage(parts[k])
      /\ h + b <= DefaultMaxLength
  BY Kinds
<1>6. /\ b >= 2 /\ body[1] = "FF" /\ body[2] = "D8"
      /\ \A j \in 1..h : head[j] \notin {"FF", Malformed}
  BY <1>1, <1>5, ImageFacts
<1>7. m = r + h
  <2> HIDE DEF from, h, start, before, r
  <2>1. m = start - from /\ r = before - from
    BY DEF start, r, before
  <2> QED
    BY <1>1, <1>4, <2>1
<1>8. /\ from \in 0..Len(data) /\ m \in Nat /\ h <= m /\ m - h = r
      /\ from + m = start /\ start + b <= Len(data) /\ start \in Nat
  <2>1. start = before + h /\ start + b <= Len(data) /\ from + r = before
    BY <1>1, <1>4
  <2> HIDE DEF from, h, start, before, r, m, b
  <2> QED
    BY <1>1, <1>4, <1>7, <2>1
<1>9. m + b <= DefaultMaxLength
  <2> HIDE DEF from, h, start, before, r, m, b
  <2> QED
    BY <1>1, <1>4, <1>5, <1>7
<1>10. \A j \in 1..h : data[from + (r + j)] = head[j]
  <2>1. \A j \in 1..h : from + (r + j) = before + j
    <3> HIDE DEF from, h, before, r
    <3> QED
      BY <1>1, <1>4
  <2> QED
    BY <1>2, <2>1
<1> HIDE DEF from, h, start, before, r, m, b, head, body
<1>11. \A j \in 1..m : j \in 1..r \/ \E i \in 1..h : j = r + i
  <2> SUFFICES ASSUME NEW j \in 1..m, ~(j \in 1..r) PROVE \E i \in 1..h : j = r + i
    OBVIOUS
  <2>1. j - r \in 1..h /\ j = r + (j - r)
    BY <1>1, <1>4, <1>7
  <2> QED
    BY <2>1
<1>12. ASSUME NEW j \in 1..m, ~(j \in 1..r) PROVE data[from + j] \notin {"FF", Malformed}
  BY <1>6, <1>10, <1>11, <1>12
<1>13. \A j \in 1..m : data[from + j] # Malformed
  BY <1>4, <1>12
<1>14. FirstAhead(from, m, "FF", "D8")
  <2>1. /\ from + m + 2 <= Len(data)
        /\ from + m + 1 = start + 1 /\ from + m + 2 = start + 2
        /\ 1 \in 1..b /\ 2 \in 1..b
    BY <1>1, <1>6, <1>8
  <2>2. data[from + m + 1] = "FF" /\ data[from + m + 2] = "D8"
    BY <1>2, <1>6, <2>1
  <2>3. m > 0 => data[from + m] # "FF"
    <3> SUFFICES ASSUME m > 0 PROVE data[from + m] # "FF"
      OBVIOUS
    <3>1. m \in 1..m /\ (m \in 1..r => m = r /\ r > 0)
      BY <1>1, <1>4, <1>7
    <3> QED
      BY <1>4, <1>12, <3>1
  <2>4. ASSUME NEW j \in 1..m
        PROVE  ~(data[from + j] = "FF" /\ data[from + j + 1] = "D8")
    <3>1. j \in 1..r => j \in 1..(r - 1) \/ (j = r /\ r > 0)
      BY <1>4
    <3> QED
      BY <1>4, <1>12, <3>1
  <2> QED
    BY <1>8, <2>1, <2>2, <2>3, <2>4 DEF FirstAhead
<1> QED
  BY <1>1, <1>4, <1>8, <1>9, <1>10, <1>13, <1>14 DEF from, h, m, b, head, body, start

(* After the last part no image is ahead.                                  *)
LEMMA Behind ==
  ASSUME Streamed, Confined, DefaultMaxLength \in Nat \ {0}
  PROVE  LET from == Reached(Len(parts))
         IN  /\ from \in 0..Len(data)
             /\ Len(data) - from < DefaultMaxLength
             /\ NoneAhead(from, "FF", "D8")
<1>1. Len(parts) \in 0..Len(parts)
  BY DEF Streamed
<1>2. Len(data) = End(Len(parts)) /\ Len(data) \in Nat
  BY Layout DEF Streamed
<1> DEFINE from == Reached(Len(parts))
           r == End(Len(parts)) - from
<1>3. /\ from \in Nat /\ r \in Nat /\ from + r = Len(data) /\ r < DefaultMaxLength
      /\ \A j \in 1..(r - 1) : ~(data[from + j] = "FF" /\ data[from + j + 1] = "D8")
  BY <1>1, <1>2, RestOf
<1>4. r = Len(data) - from
  BY <1>2
<1> HIDE DEF from
<1>5. from \in 0..Len(data)
  BY <1>2, <1>3, <1>4
<1> QED
  BY <1>3, <1>4, <1>5 DEF from, NoneAhead

-----------------------------------------------------------------------------
StartsAt(i) == i + 2 <= Len(data) /\ data[i + 1] = "FF" /\ data[i + 2] = "D8"
Frame == [first : Nat \ {0}, last : Nat]

(* The default reader, whatever the camera sends.                          *)
Reading ==
  /\ Streamed
  /\ Default!TypeOK
  /\ frames \in Seq(Frame)
  /\ \A i \in 1..Len(frames) : StartsAt(frames[i].first - 1)
  /\ step # "idle" => StartsAt(mark + headerLen)
  /\ step = "header" => pos = mark
  /\ step \in {"length", "frame"} => pos = mark + headerLen

(* Of a part that announces its length, the whole is about to be read, and *)
(* was.                                                                    *)
Covers(i, start, length) ==
  Default!IsSound(parts[i]) /\ Default!Announces(parts[i]) /\ start = Start(i) =>
    /\ length >= Len(parts[i].body)
    /\ Default!HasNoFill(parts[i]) => length = Len(parts[i].body)

Whole ==
  /\ step = "frame" =>
       \A i \in 1..Len(parts) : Covers(i, mark + headerLen, mContentLength)
  /\ \A i \in 1..Len(parts), j \in 1..Len(frames) :
       Covers(i, frames[j].first - 1, frames[j].last - (frames[j].first - 1))

(* Of a confined camera, the first parts were read, and the next is being  *)
(* read.                                                                   *)
InOrder ==
  LET n == Len(frames)
  IN  /\ n <= Len(parts)
      /\ \A i \in 1..n : frames[i] = [first |-> Start(i) + 1, last |-> Reached(i)]
      /\ outcome # "crash"
      /\ outcome = "IOException" => step = "idle" /\ n = Len(parts) /\ pos = Len(data)
      /\ step = "idle" /\ outcome # "IOException" => pos = Reached(n)
      /\ step # "idle" => /\ n < Len(parts)
                          /\ mark = Reached(n)
                          /\ mark + headerLen = Start(n + 1)
      /\ step = "length" => ~Default!Announces(parts[n + 1])
      /\ step = "frame" => mContentLength = Taken(n + 1)

DefaultInv == Reading /\ Whole /\ (Confined => InOrder)

(* The assumptions on the constants, and the type of a parsed length.      *)
LEMMA Assumed ==
  /\ DefaultMaxLength \in Nat \ {0}
  /\ NativeMaxLength \in Nat \ {0}
  /\ NotANumber \notin Int
  /\ DefaultCameras \subseteq Seq(Part)
  /\ NativeCameras \subseteq Seq(Part)
  /\ \A s \in Seq(Cell) : Default!ParseContentLength(s) \in Int \cup {NotANumber}
<1>1. /\ DefaultMaxLength \in Nat \ {0}
      /\ NotANumber \notin Int
      /\ \A camera \in DefaultCameras : camera \in Seq(Part)
      /\ \A line \in DOMAIN ContentLength :
           ContentLength[line] \in Int \cup {NotANumber}
  BY ReadersAssumption DEF Default!StreamAssumption, Part
<1>2. /\ NativeMaxLength \in Nat \ {0}
      /\ \A camera \in NativeCameras : camera \in Seq(Part)
  BY ReadersAssumption DEF Native!Default!StreamAssumption, Part
<1>3. ASSUME NEW s \in Seq(Cell)
      PROVE  Default!ParseContentLength(s) \in Int \cup {NotANumber}
  <2> DEFINE A == Default!Announcements(s)
  <2>1. /\ A = {i \in 1..Len(s) : s[i] \in DOMAIN ContentLength}
        /\ A = {} => Default!ParseContentLength(s) = NotANumber
        /\ A # {} => \E x \in A : Default!ParseContentLength(s) = ContentLength[s[x]]
    BY Latest
  <2> HIDE DEF A
  <2> QED
    BY <1>1, <2>1
<1> QED
  BY <1>1, <1>2, <1>3

(* A piece of the stream, cell by cell.                                    *)
LEMMA Slice ==
  ASSUME data \in Seq(Cell), NEW from \in Nat, NEW n \in Nat, from + n <= Len(data)
  PROVE  LET s == SubSeq(data, from + 1, from + n)
         IN  /\ s \in Seq(Cell) /\ Len(s) = n
             /\ \A j \in 1..n : s[j] = data[from + j]
<1>1. CASE n = 0
  <2>1. SubSeq(data, from + 1, from + n) = <<>>
    BY <1>1
  <2> QED
    BY <1>1, <2>1
<1>2. CASE n > 0
  <2>1. from + 1 \in 1..Len(data) /\ from + n \in 1..Len(data)
        /\ (from + n) - (from + 1) + 1 = n
        /\ \A j \in 1..n : from + 1 + j - 1 = from + j
    BY <1>2
  <2> DEFINE s == SubSeq(data, from + 1, from + n)
  <2>2. /\ s \in Seq(Cell)
        /\ Len(s) = (from + n) - (from + 1) + 1
        /\ \A j \in 1..((from + n) - (from + 1) + 1) : s[j] = data[from + 1 + j - 1]
    BY <2>1, <1>2, SubSeqProperties
  <2> HIDE DEF s
  <2>3. s \in Seq(Cell) /\ Len(s) = n /\ \A j \in 1..n : s[j] = data[from + j]
    BY <2>1, <2>2
  <2> QED
    BY <2>3 DEF s
<1> QED
  BY <1>1, <1>2

(* What depends on the camera alone does not change.                       *)
LEMMA Same ==
  ASSUME parts' = parts, data' = data
  PROVE  /\ Streamed' <=> Streamed
         /\ Confined' <=> Confined
         /\ \A k : /\ Start(k)' = Start(k) /\ End(k)' = End(k)
                   /\ Taken(k)' = Taken(k) /\ Reached(k)' = Reached(k)
         /\ \A i : StartsAt(i)' <=> StartsAt(i)
         /\ \A i, start, length : Covers(i, start, length)' <=> Covers(i, start, length)
<1>1. \A k : Start(k)' = Start(k) /\ End(k)' = End(k) /\ Taken(k)' = Taken(k)
  BY DEF Start, End, Taken, Default!Body
<1>2. \A k : Reached(k)' = Reached(k)
  BY <1>1 DEF Reached
<1>3. Streamed' <=> Streamed
  BY DEF Streamed, Bytes
<1>4. Confined' <=> Confined
  BY DEF Confined, Default!RestFits
<1>5. \A i : StartsAt(i)' <=> StartsAt(i)
  BY DEF StartsAt
<1>6. \A i, start, length : Covers(i, start, length)' <=> Covers(i, start, length)
  BY <1>1 DEF Covers
<1> QED
  BY <1>1, <1>2, <1>3, <1>4, <1>5, <1>6

(* What the first search of a call finds.                                  *)
LEMMA StartSearch ==
  ASSUME DefaultInv, step = "idle"
  PROVE  LET soi == Default!SearchUpTo(<<"FF", "D8">>, pos, DefaultMaxLength)
             n == Len(frames)
         IN  /\ soi.result \in {"found", "EOFException", "-1"}
             /\ soi.read \in 0..DefaultMaxLength
             /\ pos + soi.read <= Len(data)
             /\ soi.result = "found" => soi.read >= 2 /\ StartsAt(pos + (soi.read - 2))
             /\ soi.result = "EOFException" => pos + soi.read = Len(data)
             /\ Confined => /\ soi.result # "-1"
                            /\ soi.result = "EOFException" => n = Len(parts)
                            /\ soi.result = "found" =>
                                /\ n < Len(parts) /\ pos = Reached(n)
                                /\ pos + (soi.read - 2) = Start(n + 1)
<1> DEFINE ff == "FF"
           d8 == "D8"
           soi == Default!SearchUpTo(<<ff, d8>>, pos, DefaultMaxLength)
           n == Len(frames)
<1>1. /\ Streamed /\ pos \in 0..Len(data) /\ n \in Nat
      /\ data \in Seq(Cell) /\ Len(data) \in Nat /\ Len(parts) \in Nat
  BY Layout DEF DefaultInv, Reading, Default!TypeOK, Streamed
<1>2. DefaultMaxLength \in Nat \ {0} /\ DefaultMaxLength \in Nat
  BY Assumed
<1>3. ff # d8
  OBVIOUS
<1> HIDE DEF ff, d8, soi, n
<1>4. /\ soi.result \in {"found", "EOFException", "-1"}
      /\ soi.read \in 0..DefaultMaxLength
      /\ pos + soi.read <= Len(data)
      /\ soi.result = "found" => /\ soi.read >= 2
                                 /\ data[pos + soi.read - 1] = ff
                                 /\ data[pos + soi.read] = d8
      /\ soi.result = "EOFException" => pos + soi.read = Len(data)
  BY <1>1, <1>2, <1>3, SearchResult DEF soi
<1>5. soi.result = "found" => StartsAt(pos + (soi.read - 2))
  <2> DEFINE q == soi.read
  <2>1. q \in Nat
    BY <1>4
  <2> HIDE DEF q
  <2>2. /\ pos + (q - 2) + 1 = pos + q - 1
        /\ pos + (q - 2) + 2 = pos + q
    BY <1>1, <2>1
  <2> QED
    BY <1>4, <2>2 DEF StartsAt, q, ff, d8
<1>6. ASSUME Len(data) - pos < DefaultMaxLength, NoneAhead(pos, ff, d8)
      PROVE  soi.result = "EOFException"
  BY <1>1, <1>2, <1>3, <1>6, SearchNothing DEF soi
<1>7. ASSUME Confined
      PROVE  \/ n = Len(parts) /\ soi.result = "EOFException"
             \/ /\ n < Len(parts) /\ pos = Reached(n)
                /\ soi.result = "found" /\ pos + (soi.read - 2) = Start(n + 1)
  <2>1. /\ n <= Len(parts)
        /\ outcome = "IOException" => n = Len(parts) /\ pos = Len(data)
        /\ outcome # "IOException" => pos = Reached(n)
    BY <1>7 DEF DefaultInv, InOrder, n
  <2>2. CASE outcome = "IOException"
    <3>1. Len(data) - pos = 0
      BY <1>1, <2>1, <2>2
    <3>2. NoneAhead(pos, ff, d8)
      BY <3>1 DEF NoneAhead
    <3> QED
      BY <1>2, <1>6, <2>1, <2>2, <3>1, <3>2
  <2>3. CASE outcome # "IOException" /\ n = Len(parts)
    BY <1>1, <1>2, <1>6, <1>7, <2>1, <2>3, Behind DEF ff, d8
  <2>4. CASE outcome # "IOException" /\ n < Len(parts)
    <3> DEFINE k == n + 1
               start == Start(k)
               m == start - pos
               b == Len(parts[k].body)
    <3>1. k \in 1..Len(parts) /\ k - 1 = n
      BY <1>1, <2>4
    <3>2. pos = Reached(k - 1)
      BY <2>1, <2>4, <3>1
    <3> HIDE DEF k
    <3>3. m \in Nat /\ m + b <= DefaultMaxLength /\ FirstAhead(pos, m, ff, d8)
      BY <1>1, <1>2, <1>7, <3>1, <3>2, Ahead DEF ff, d8
    <3>4. b \in Nat /\ b >= 2 /\ start \in Nat
      <4>1. parts[k] \in Part /\ Default!IsImage(parts[k])
        BY <1>1, <1>7, <3>1, Kinds, PartAt
      <4>2. /\ End(k - 1) \in Nat /\ Len(parts[k].head) \in Nat
            /\ start = End(k - 1) + Len(parts[k].head) /\ b \in Nat
        BY <1>1, <3>1, PartAt
      <4> QED
        BY <4>1, <4>2, ImageFacts
    <3> HIDE DEF b
    <3>5. m + 2 <= DefaultMaxLength
      <4> HIDE DEF m
      <4> QED
        BY <1>2, <3>3, <3>4
    <3>6. soi.result = "found" /\ soi.read = m + 2
      <4> HIDE DEF m
      <4> QED
        BY <1>1, <1>2, <1>3, <3>3, <3>5, SearchFound DEF soi
    <3>7. pos + (soi.read - 2) = start
      BY <1>1, <3>4, <3>6
    <3> QED
      BY <2>1, <2>4, <3>6, <3>7 DEF k
  <2> QED
    BY <1>1, <2>1, <2>2, <2>3, <2>4
<1> QED
  BY <1>4, <1>5, <1>7 DEF soi, n, ff, d8

(* The step to the start marker preserves the invariant                    *)
(* (MjpegInputStreamDefault.java:60-62).                                   *)
LEMMA DefaultFindStart ==
  ASSUME DefaultInv, Default!FindStart
  PROVE  DefaultInv'
<1> DEFINE soi == Default!SearchUpTo(<<"FF", "D8">>, pos, DefaultMaxLength)
           n == Len(frames)
<1>1. /\ step = "idle" /\ mark' = pos /\ parts' = parts /\ data' = data
      /\ frames' = frames /\ mContentLength' = mContentLength
      /\ \/ /\ soi.result = "found" /\ headerLen' = soi.read - 2 /\ step' = "header"
            /\ pos' = pos /\ outcome' = outcome
         \/ /\ soi.result = "EOFException" /\ step' = "idle" /\ outcome' = "IOException"
            /\ pos' = pos + soi.read /\ headerLen' = headerLen
         \/ /\ soi.result = "-1" /\ step' = "idle" /\ outcome' = "crash"
            /\ pos' = pos /\ headerLen' = headerLen
  BY DEF Default!FindStart, Default!Fail, Default!FailKnowing, Default!Search, Default!Start,
         Default!SOI_MARKER
<1>2. /\ soi.result \in {"found", "EOFException", "-1"}
      /\ soi.read \in 0..DefaultMaxLength
      /\ pos + soi.read <= Len(data)
      /\ soi.result = "found" => soi.read >= 2 /\ StartsAt(pos + (soi.read - 2))
      /\ soi.result = "EOFException" => pos + soi.read = Len(data)
      /\ Confined => /\ soi.result # "-1"
                     /\ soi.result = "EOFException" => n = Len(parts)
                     /\ soi.result = "found" =>
                         /\ n < Len(parts) /\ pos = Reached(n)
                         /\ pos + (soi.read - 2) = Start(n + 1)
  BY <1>1, StartSearch
<1> HIDE DEF soi
<1>3. Reading /\ Whole /\ (Confined => InOrder)
  BY DEF DefaultInv
<1>4. DefaultMaxLength \in Nat /\ pos \in Nat /\ Len(data) \in Nat
  BY <1>3, Assumed, Layout DEF Reading, Default!TypeOK, Streamed
<1>5. pos' \in 0..Len(data) /\ mark' \in 0..pos' /\ headerLen' \in 0..DefaultMaxLength
  <2>1. pos \in 0..Len(data) /\ headerLen \in 0..DefaultMaxLength
    BY <1>3 DEF Reading, Default!TypeOK
  <2> QED
    BY <1>1, <1>2, <1>4, <2>1
<1>6. Reading'
  <2>1. Default!TypeOK'
    BY <1>1, <1>3, <1>5 DEF Reading, Default!TypeOK
  <2>2. Streamed' /\ \A i : StartsAt(i)' <=> StartsAt(i)
    BY <1>1, <1>3, Same DEF Reading
  <2>3. /\ frames' \in Seq(Frame)
        /\ \A i \in 1..Len(frames') : StartsAt(frames'[i].first - 1)
    BY <1>1, <1>3 DEF Reading
  <2>4. /\ step' # "idle" => StartsAt(mark' + headerLen')
        /\ step' = "header" => pos' = mark'
        /\ step' \notin {"length", "frame"}
    BY <1>1, <1>2
  <2> QED
    BY <1>1, <2>1, <2>2, <2>3, <2>4 DEF Reading
<1>7. Whole'
  <2>1. \A i, start, length : Covers(i, start, length)' <=> Covers(i, start, length)
    BY <1>1, Same
  <2> QED
    BY <1>1, <1>3, <2>1 DEF Whole
<1>8. ASSUME Confined PROVE InOrder'
  <2>0. /\ soi.result \in {"found", "EOFException"}
        /\ soi.result = "EOFException" => n = Len(parts)
        /\ soi.result = "found" =>
             /\ n < Len(parts) /\ pos = Reached(n)
             /\ pos + (soi.read - 2) = Start(n + 1)
    <3>1. soi.result # "-1"
      BY <1>2, <1>8
    <3>2. soi.result = "EOFException" => n = Len(parts)
      BY <1>2, <1>8
    <3>3. soi.result = "found" =>
             /\ n < Len(parts) /\ pos = Reached(n)
             /\ pos + (soi.read - 2) = Start(n + 1)
      BY <1>2, <1>8
    <3>4. soi.result \in {"found", "EOFException", "-1"}
      BY <1>2
    <3> QED
      BY <3>1, <3>2, <3>3, <3>4
  <2>1. \A k : Start(k)' = Start(k) /\ Taken(k)' = Taken(k) /\ Reached(k)' = Reached(k)
    BY <1>1, Same
  <2>2. InOrder
    BY <1>3, <1>8
  <2>3. soi.result = "found" => outcome # "IOException"
    BY <1>1, <1>2, <2>0, <2>2 DEF InOrder
  <2>4. CASE soi.result = "found"
    <3>1. /\ step' = "header" /\ outcome' = outcome
          /\ n < Len(parts) /\ mark' = Reached(n)
          /\ mark' + headerLen' = Start(n + 1)
      BY <1>1, <2>0, <2>4
    <3> QED
      BY <1>1, <2>1, <2>2, <2>3, <3>1 DEF InOrder
  <2>5. CASE soi.result = "EOFException"
    <3>1. /\ step' = "idle" /\ outcome' = "IOException"
          /\ n = Len(parts) /\ pos' = Len(data)
      BY <1>1, <1>2, <2>0, <2>5
    <3> QED
      BY <1>1, <2>1, <2>2, <3>1 DEF InOrder
  <2> QED
    BY <2>0, <2>4, <2>5
<1>9. Confined' <=> Confined
  BY <1>1, Same
<1> QED
  BY <1>6, <1>7, <1>8, <1>9 DEF DefaultInv

(* The types, for the steps below.                                         *)
LEMMA Types ==
  ASSUME Reading
  PROVE  /\ DefaultMaxLength \in Nat /\ Len(data) \in Nat /\ Len(parts) \in Nat
         /\ data \in Seq(Cell)
         /\ pos \in 0..Len(data) /\ pos \in Nat
         /\ mark \in 0..pos /\ mark \in Nat
         /\ headerLen \in 0..DefaultMaxLength /\ headerLen \in Nat
         /\ mContentLength \in Int
         /\ frames \in Seq(Frame) /\ Len(frames) \in Nat
<1>1. DefaultMaxLength \in Nat
  BY Assumed
<1>2. data \in Seq(Cell)
  BY Layout DEF Reading, Streamed
<1>3. pos \in Nat /\ mark \in Nat /\ headerLen \in Nat
  BY <1>1, <1>2 DEF Reading, Default!TypeOK
<1> QED
  BY <1>1, <1>2, <1>3 DEF Reading, Default!TypeOK, Streamed

(* The header says of a part that announces its length what its head says, *)
(* or nothing; of a confined camera, what the head says in every case.     *)
LEMMA HeaderOf ==
  ASSUME DefaultInv, step = "header"
  PROVE  LET header == SubSeq(data, mark + 1, mark + headerLen)
             length == Default!ParseContentLength(header)
             n == Len(frames)
         IN  /\ length \in Int \cup {NotANumber}
             /\ length # NotANumber =>
                  \A i \in 1..Len(parts) : Covers(i, mark + headerLen, length)
             /\ Confined =>
                  /\ \A j \in DOMAIN header : header[j] # Malformed
                  /\ length = Default!ParseContentLength(parts[n + 1].head)
<1> DEFINE header == SubSeq(data, mark + 1, mark + headerLen)
           length == Default!ParseContentLength(header)
           n == Len(frames)
<1>1. Reading /\ Streamed
  BY DEF DefaultInv, Reading
<1>2. /\ data \in Seq(Cell) /\ mark \in Nat /\ headerLen \in Nat /\ Len(data) \in Nat
      /\ n \in Nat /\ Len(parts) \in Nat
  BY <1>1, Types
<1>3. mark + headerLen <= Len(data)
  <2>1. mark + headerLen + 2 <= Len(data)
    BY <1>1 DEF Reading, StartsAt
  <2> QED
    BY <1>2, <2>1
<1>4. /\ header \in Seq(Cell) /\ Len(header) = headerLen
      /\ \A j \in 1..headerLen : header[j] = data[mark + j]
  BY <1>2, <1>3, Slice
<1> HIDE DEF header, n
<1>5. length \in Int \cup {NotANumber}
  BY <1>4, Assumed
<1>6. ASSUME NEW i \in 1..Len(parts), length # NotANumber
      PROVE  Covers(i, mark + headerLen, length)
  <2> DEFINE head == parts[i].head
             h == Len(head)
             r == headerLen - h
             e == End(i - 1)
             start == Start(i)
             b == Len(parts[i].body)
             whole == Default!ParseContentLength(head)
  <2> SUFFICES ASSUME Default!IsSound(parts[i]), Default!Announces(parts[i]),
                      mark + headerLen = start
               PROVE  /\ length >= b
                      /\ Default!HasNoFill(parts[i]) => length = b
    BY DEF Covers
  <2>1. /\ h \in Nat /\ e \in Nat /\ start = e + h /\ b \in Nat
        /\ \A j \in 1..h : data[e + j] = head[j]
        /\ parts[i] \in Part
    BY <1>1, PartAt
  <2>2. head \in Seq(Cell)
    BY <2>1 DEF Part
  <2>3. whole # NotANumber /\ whole = b
    BY DEF Default!IsSound, Default!Announces
  <2> HIDE DEF head, e, start, b, whole
  <2>4. r \in Int /\ headerLen = h + r
    <3> HIDE DEF h
    <3> QED
      BY <1>2, <2>1
  <2>5. ASSUME NEW y \in 1..headerLen, y - r >= 1
        PROVE  header[y] = head[y - r]
    <3>1. y - r \in 1..h /\ mark + y = e + (y - r)
      <4> HIDE DEF h
      <4> QED
        BY <1>2, <2>1, <2>4, <2>5
    <3> QED
      BY <1>4, <2>1, <3>1
  <2>6. length \in {NotANumber, whole}
    <3> HIDE DEF r, length
    <3>1. Len(header) = Len(head) + r
      BY <1>4, <2>4
    <3>2. \A y \in 1..Len(header) : y - r >= 1 => header[y] = head[y - r]
      BY <1>4, <2>5
    <3> QED
      BY <1>4, <2>2, <2>3, <2>4, <3>1, <3>2, LastLine DEF length, whole
  <2> QED
    BY <1>6, <2>1, <2>3, <2>6
<1>7. ASSUME Confined
      PROVE  /\ \A j \in DOMAIN header : header[j] # Malformed
             /\ length = Default!ParseContentLength(parts[n + 1].head)
  <2> DEFINE k == n + 1
             from == Reached(k - 1)
             m == Start(k) - from
             head == parts[k].head
             h == Len(head)
             r == m - h
  <2>1. n < Len(parts) /\ mark = Reached(n) /\ mark + headerLen = Start(n + 1)
    BY <1>7 DEF DefaultInv, InOrder, n
  <2>2. k \in 1..Len(parts) /\ k - 1 = n
    BY <1>2, <2>1
  <2>3. DefaultMaxLength \in Nat \ {0}
    BY Assumed
  <2>4. /\ m \in Nat /\ h \in Nat /\ h <= m
        /\ \A j \in 1..m : data[from + j] # Malformed
        /\ \A j \in 1..r : data[from + j] \notin DOMAIN ContentLength
        /\ \A j \in 1..h : data[from + (r + j)] = head[j]
    BY <1>1, <1>7, <2>2, <2>3, Ahead
  <2>5. head \in Seq(Cell)
    BY <1>1, <2>2, PartAt DEF Part
  <2>6. from = mark /\ m = headerLen
    BY <1>2, <2>1, <2>2
  <2>7. /\ \A j \in 1..headerLen : header[j] # Malformed
        /\ \A j \in 1..r : header[j] \notin DOMAIN ContentLength
        /\ \A j \in 1..h : header[r + j] = head[j]
    <3> HIDE DEF from, m, h
    <3>1. /\ \A j \in 1..r : j \in 1..headerLen
          /\ \A j \in 1..h : r + j \in 1..headerLen
      BY <2>4, <2>6
    <3> HIDE DEF r
    <3> QED
      BY <1>4, <2>4, <2>6, <3>1
  <2>8. \A j \in DOMAIN header : header[j] # Malformed
    BY <1>4, <2>7
  <2>9. /\ r \in Int /\ r >= 0 /\ Len(header) = Len(head) + r
        /\ \A y \in 1..Len(header) : y - r >= 1 => header[y] = head[y - r]
    <3>1. r \in Int /\ r >= 0 /\ headerLen = h + r
      <4> HIDE DEF from, m, h
      <4> QED
        BY <2>4, <2>6
    <3> HIDE DEF r, head
    <3>2. ASSUME NEW y \in 1..headerLen, y - r >= 1
          PROVE  header[y] = head[y - r]
      <4>1. y - r \in 1..h /\ r + (y - r) = y
        BY <2>4, <3>1, <3>2
      <4> QED
        BY <2>7, <4>1
    <3> QED
      BY <1>4, <3>1, <3>2
  <2>10. length = Default!ParseContentLength(head)
    <3> HIDE DEF head, r, length
    <3> QED
      BY <1>4, <2>5, <2>7, <2>9, LastLine DEF length
  <2> QED
    BY <2>8, <2>10
<1> QED
  BY <1>5, <1>6, <1>7 DEF header, n

(* The step that parses the header preserves the invariant                 *)
(* (MjpegInputStreamDefault.java:63-69).                                   *)
LEMMA DefaultReadHeader ==
  ASSUME DefaultInv, Default!ReadHeader
  PROVE  DefaultInv'
<1> DEFINE header == SubSeq(data, mark + 1, mark + headerLen)
           length == Default!ParseContentLength(header)
           n == Len(frames)
<1>1. /\ step = "header" /\ mark' = mark /\ headerLen' = headerLen
      /\ parts' = parts /\ data' = data /\ frames' = frames
      /\ pos' = mark + headerLen
      /\ \/ /\ \E j \in DOMAIN header : header[j] = Malformed
            /\ step' = "idle" /\ outcome' = "crash" /\ mContentLength' = mContentLength
         \/ /\ length = NotANumber /\ step' = "length" /\ outcome' = outcome
            /\ mContentLength' = mContentLength
         \/ /\ length # NotANumber /\ step' = "frame" /\ outcome' = outcome
            /\ mContentLength' = length
  BY DEF Default!ReadHeader, Default!Fail, Default!FailKnowing
<1>2. /\ length \in Int \cup {NotANumber}
      /\ length # NotANumber =>
           \A i \in 1..Len(parts) : Covers(i, mark + headerLen, length)
      /\ Confined =>
           /\ \A j \in DOMAIN header : header[j] # Malformed
           /\ length = Default!ParseContentLength(parts[n + 1].head)
  BY <1>1, HeaderOf
<1> HIDE DEF header, length
<1>3. Reading /\ Whole /\ (Confined => InOrder)
  BY DEF DefaultInv
<1>4. /\ Len(data) \in Nat /\ mark \in Nat /\ headerLen \in Nat
      /\ mark + headerLen <= Len(data)
  <2>1. Len(data) \in Nat /\ mark \in Nat /\ headerLen \in Nat
    BY <1>3, Types
  <2>2. mark + headerLen + 2 <= Len(data)
    BY <1>1, <1>3 DEF Reading, StartsAt
  <2> QED
    BY <2>1, <2>2
<1>5. pos' \in 0..Len(data) /\ mark' \in 0..pos'
  BY <1>1, <1>4
<1>6. Reading'
  <2>1. Default!TypeOK'
    BY <1>1, <1>2, <1>3, <1>5 DEF Reading, Default!TypeOK
  <2>2. Streamed' /\ \A i : StartsAt(i)' <=> StartsAt(i)
    BY <1>1, <1>3, Same DEF Reading
  <2>3. /\ frames' \in Seq(Frame)
        /\ \A i \in 1..Len(frames') : StartsAt(frames'[i].first - 1)
    BY <1>1, <1>3 DEF Reading
  <2>4. /\ step' # "idle" => StartsAt(mark' + headerLen')
        /\ step' # "header"
        /\ pos' = mark' + headerLen'
    BY <1>1, <1>3 DEF Reading
  <2> QED
    BY <1>1, <2>1, <2>2, <2>3, <2>4 DEF Reading
<1>7. Whole'
  <2>1. \A i, start, size : Covers(i, start, size)' <=> Covers(i, start, size)
    BY <1>1, Same
  <2>2. step' = "frame" =>
          \A i \in 1..Len(parts) : Covers(i, mark' + headerLen', mContentLength')
    BY <1>1, <1>2
  <2>3. \A i \in 1..Len(parts'), j \in 1..Len(frames') :
          Covers(i, frames'[j].first - 1, frames'[j].last - (frames'[j].first - 1))
    BY <1>1, <1>3 DEF Whole
  <2> QED
    BY <1>1, <2>1, <2>2, <2>3 DEF Whole
<1>8. ASSUME Confined PROVE InOrder'
  <2>1. \A k : Start(k)' = Start(k) /\ Taken(k)' = Taken(k) /\ Reached(k)' = Reached(k)
    BY <1>1, Same
  <2>2. InOrder /\ n < Len(parts)
    BY <1>1, <1>3, <1>8 DEF InOrder
  <2>3. /\ \A j \in DOMAIN header : header[j] # Malformed
        /\ length = Default!ParseContentLength(parts[n + 1].head)
    BY <1>2, <1>8
  <2>4. step' \in {"length", "frame"} /\ outcome' = outcome
    BY <1>1, <2>3
  <2>5. step' = "length" => ~Default!Announces(parts[n + 1])
    BY <1>1, <2>3, <2>4 DEF Default!Announces
  <2>6. step' = "frame" => mContentLength' = Taken(n + 1)
    BY <1>1, <2>3, <2>4 DEF Default!Announces, Taken
  <2>7. outcome \notin {"crash", "IOException"}
    BY <1>1, <2>2 DEF InOrder
  <2> QED
    BY <1>1, <2>1, <2>2, <2>4, <2>5, <2>6, <2>7 DEF InOrder
<1>9. Confined' <=> Confined
  BY <1>1, Same
<1> QED
  BY <1>6, <1>7, <1>8, <1>9 DEF DefaultInv

(* Where the image ends that does not announce its length.                 *)
LEMMA EndSearch ==
  ASSUME DefaultInv, step = "length"
  PROVE  LET eof == Default!SearchUpTo(<<"FF", "D9">>, pos, DefaultMaxLength)
             n == Len(frames)
         IN  /\ eof.result \in {"found", "EOFException", "-1"}
             /\ eof.read \in Nat
             /\ pos + eof.read <= Len(data)
             /\ eof.result = "found" =>
                  \A i \in 1..Len(parts) : Covers(i, mark + headerLen, eof.read)
             /\ Confined => /\ eof.result = "found"
                            /\ eof.read = Taken(n + 1)
                            /\ Default!MarkedAt(pos + eof.read)
<1> DEFINE ff == "FF"
           d9 == "D9"
           eof == Default!SearchUpTo(<<ff, d9>>, pos, DefaultMaxLength)
           n == Len(frames)
<1>1. Reading /\ Streamed
  BY DEF DefaultInv, Reading
<1>2. /\ data \in Seq(Cell) /\ pos \in 0..Len(data) /\ DefaultMaxLength \in Nat
      /\ mark \in Nat /\ headerLen \in Nat /\ n \in Nat /\ Len(parts) \in Nat
  BY <1>1, Types
<1>3. ff # d9 /\ pos = mark + headerLen
  BY <1>1 DEF Reading
<1> HIDE DEF ff, d9, eof, n
<1>4. /\ eof.result \in {"found", "EOFException", "-1"}
      /\ eof.read \in 0..DefaultMaxLength
      /\ pos + eof.read <= Len(data)
  BY <1>2, <1>3, SearchResult DEF eof
<1>5. ASSUME NEW k \in 1..Len(parts), Default!IsImage(parts[k]), pos = Start(k)
      PROVE  /\ eof.result = "found" => eof.read >= Len(parts[k].body)
             /\ Default!HasNoFill(parts[k]) /\ Len(parts[k].body) <= DefaultMaxLength =>
                  eof.result = "found" /\ eof.read = Len(parts[k].body)
  BY <1>1, <1>2, <1>5, SearchEnd DEF eof, ff, d9
<1>6. ASSUME NEW k \in 1..Len(parts), Default!Fits(parts[k])
      PROVE  Len(parts[k].body) <= DefaultMaxLength
  <2> DEFINE h == Len(parts[k].head)
             b == Len(parts[k].body)
  <2>1. h \in Nat /\ b \in Nat /\ h + b <= DefaultMaxLength
    BY <1>1, <1>6, PartAt DEF Default!Fits
  <2> HIDE DEF h, b
  <2>2. b <= DefaultMaxLength
    BY <1>2, <2>1
  <2> QED
    BY <2>2 DEF b
<1>7. ASSUME eof.result = "found", NEW i \in 1..Len(parts)
      PROVE  Covers(i, mark + headerLen, eof.read)
  BY <1>3, <1>5, <1>6, <1>7 DEF Covers, Default!IsSound
<1>8. ASSUME Confined
      PROVE  /\ eof.result = "found"
             /\ eof.read = Taken(n + 1)
             /\ Default!MarkedAt(pos + eof.read)
  <2> DEFINE k == n + 1
             b == Len(parts[k].body)
             start == Start(k)
             m == start - mark
  <2>1. /\ n < Len(parts) /\ mark = Reached(n) /\ mark + headerLen = Start(n + 1)
        /\ ~Default!Announces(parts[n + 1])
    BY <1>8 DEF DefaultInv, InOrder, n
  <2>2. k \in 1..Len(parts) /\ k - 1 = n
    BY <1>2, <2>1
  <2>3. /\ Default!IsImage(parts[k]) /\ Default!HasNoFill(parts[k])
        /\ Taken(k) = b
    BY <1>1, <1>8, <2>1, <2>2, Kinds
  <2>4. DefaultMaxLength \in Nat \ {0}
    BY Assumed
  <2>5. m + b <= DefaultMaxLength /\ m \in Nat
    <3>1. mark = Reached(k - 1)
      BY <2>1, <2>2
    <3> HIDE DEF k
    <3> QED
      BY <1>1, <1>8, <2>2, <2>4, <3>1, Ahead
  <2>6. b \in Nat
    BY <1>1, <2>2, PartAt
  <2>7. pos = start
    BY <1>3, <2>1
  <2>8. b <= DefaultMaxLength /\ pos + b - mark = m + b
    <3>1. m = start - mark /\ start \in Nat
      BY <1>2, <2>7
    <3> HIDE DEF b, start, m
    <3> QED
      BY <1>2, <2>5, <2>6, <2>7, <3>1
  <2>9. eof.result = "found" /\ eof.read = b
    BY <1>5, <2>2, <2>3, <2>7, <2>8
  <2>10. Default!MarkedAt(pos + eof.read)
    <3>1. (pos + b) - mark <= DefaultMaxLength
      <4> HIDE DEF b, m
      <4> QED
        BY <1>2, <2>5, <2>6, <2>8
    <3> HIDE DEF b, m
    <3>2. Default!MarkedAt(pos + b)
      BY <3>1 DEF Default!MarkedAt
    <3> QED
      BY <2>9, <3>2
  <2> QED
    BY <2>3, <2>9, <2>10
<1> QED
  BY <1>2, <1>4, <1>7, <1>8 DEF eof, n, ff, d9

(* The search for the end marker preserves the invariant                   *)
(* (MjpegInputStreamDefault.java:67-70).                                   *)
LEMMA DefaultFindEnd ==
  ASSUME DefaultInv, Default!FindEnd
  PROVE  DefaultInv'
<1> DEFINE eof == Default!SearchUpTo(<<"FF", "D9">>, pos, DefaultMaxLength)
           n == Len(frames)
<1>1. /\ step = "length" /\ mark' = mark /\ headerLen' = headerLen
      /\ parts' = parts /\ data' = data /\ frames' = frames
      /\ \/ /\ eof.result = "found" /\ mContentLength' = eof.read /\ step' = "frame"
            /\ pos' = pos /\ outcome' = outcome
         \/ /\ ~(eof.result = "found" /\ Default!MarkedAt(pos + eof.read))
            /\ step' = "idle" /\ mContentLength' \in {mContentLength, eof.read, -1}
            /\ outcome' \in {"IOException", "crash"}
            /\ pos' \in {pos + eof.read, mark}
  BY DEF Default!FindEnd, Default!Fail, Default!FailKnowing, Default!Search, Default!EOF_MARKER
<1>2. /\ eof.read \in Nat
      /\ pos + eof.read <= Len(data)
      /\ eof.result = "found" =>
           \A i \in 1..Len(parts) : Covers(i, mark + headerLen, eof.read)
      /\ Confined => /\ eof.result = "found"
                     /\ eof.read = Taken(n + 1)
                     /\ Default!MarkedAt(pos + eof.read)
  BY <1>1, EndSearch
<1> HIDE DEF eof
<1>3. Reading /\ Whole /\ (Confined => InOrder)
  BY DEF DefaultInv
<1>4. pos' \in 0..Len(data) /\ mark' \in 0..pos'
  <2>1. Len(data) \in Nat /\ pos \in Nat /\ mark \in 0..pos /\ pos \in 0..Len(data)
    BY <1>3, Types
  <2> QED
    BY <1>1, <1>2, <2>1
<1>5. Reading'
  <2>1. Default!TypeOK'
    BY <1>1, <1>2, <1>3, <1>4 DEF Reading, Default!TypeOK
  <2>2. Streamed' /\ \A i : StartsAt(i)' <=> StartsAt(i)
    BY <1>1, <1>3, Same DEF Reading
  <2>3. /\ frames' \in Seq(Frame)
        /\ \A i \in 1..Len(frames') : StartsAt(frames'[i].first - 1)
    BY <1>1, <1>3 DEF Reading
  <2>4. /\ step' # "idle" => StartsAt(mark' + headerLen')
        /\ step' # "header"
        /\ step' = "frame" => pos' = mark' + headerLen'
        /\ step' # "length"
    BY <1>1, <1>3 DEF Reading
  <2> QED
    BY <1>1, <2>1, <2>2, <2>3, <2>4 DEF Reading
<1>6. Whole'
  <2>1. \A i, start, size : Covers(i, start, size)' <=> Covers(i, start, size)
    BY <1>1, Same
  <2>2. step' = "frame" =>
          \A i \in 1..Len(parts) : Covers(i, mark' + headerLen', mContentLength')
    BY <1>1, <1>2
  <2>3. \A i \in 1..Len(parts'), j \in 1..Len(frames') :
          Covers(i, frames'[j].first - 1, frames'[j].last - (frames'[j].first - 1))
    BY <1>1, <1>3 DEF Whole
  <2> QED
    BY <1>1, <2>1, <2>2, <2>3 DEF Whole
<1>7. ASSUME Confined PROVE InOrder'
  <2>1. \A k : Start(k)' = Start(k) /\ Taken(k)' = Taken(k) /\ Reached(k)' = Reached(k)
    BY <1>1, Same
  <2>2. InOrder /\ n < Len(parts) /\ outcome \notin {"crash", "IOException"}
    BY <1>1, <1>3, <1>7 DEF InOrder
  <2>3. /\ step' = "frame" /\ outcome' = outcome
        /\ mContentLength' = Taken(n + 1)
    BY <1>1, <1>2, <1>7
  <2> QED
    BY <1>1, <2>1, <2>2, <2>3 DEF InOrder
<1>8. Confined' <=> Confined
  BY <1>1, Same
<1> QED
  BY <1>5, <1>6, <1>7, <1>8 DEF DefaultInv

(* The step that reads the frame preserves the invariant                   *)
(* (MjpegInputStreamDefault.java:70-74).                                   *)
LEMMA DefaultReadFrame ==
  ASSUME DefaultInv, Default!ReadFrame
  PROVE  DefaultInv'
<1> DEFINE n == Len(frames)
           start == mark + headerLen
           end == start + mContentLength
           frame == [first |-> start + 1, last |-> end]
<1>1. /\ step = "frame" /\ mark' = mark /\ headerLen' = headerLen /\ step' = "idle"
      /\ parts' = parts /\ data' = data /\ mContentLength' = mContentLength
      /\ \/ /\ mContentLength >= 0 /\ end <= Len(data)
            /\ frames' = Append(frames, frame)
            /\ pos' = end /\ outcome' = "frame"
         \/ /\ mContentLength >= 0 /\ end > Len(data)
            /\ frames' = frames /\ pos' = Len(data) /\ outcome' = "IOException"
         \/ /\ mContentLength < 0
            /\ frames' = frames /\ pos' = mark /\ outcome' = "crash"
  BY DEF Default!ReadFrame, Default!Fail, Default!FailKnowing
<1>2. Reading /\ Whole /\ (Confined => InOrder)
  BY DEF DefaultInv
<1>3. /\ Len(data) \in Nat /\ Len(parts) \in Nat /\ n \in Nat
      /\ mark \in Nat /\ headerLen \in Nat /\ mContentLength \in Int
      /\ mark \in 0..pos /\ pos \in 0..Len(data)
      /\ frames \in Seq(Frame)
  BY <1>2, Types
<1>4. /\ start \in Nat /\ StartsAt(start)
  BY <1>1, <1>2, <1>3 DEF Reading
<1> HIDE DEF n
<1>5. pos' \in 0..Len(data) /\ mark' \in 0..pos'
  <2>1. /\ mContentLength >= 0 => start <= end /\ end \in Nat
        /\ mark <= start
    BY <1>3
  <2> HIDE DEF start, end
  <2> QED
    BY <1>1, <1>3, <1>4, <2>1
<1>6. CASE /\ mContentLength >= 0 /\ end <= Len(data)
           /\ frames' = Append(frames, frame)
           /\ pos' = end /\ outcome' = "frame"
  <2>1. frame \in Frame /\ frame.first - 1 = start /\ frame.last - start = mContentLength
    <3>1. start + 1 \in Nat \ {0} /\ end \in Nat /\ (start + 1) - 1 = start
          /\ end - start = mContentLength
      BY <1>3, <1>4, <1>6
    <3> HIDE DEF start, end
    <3> QED
      BY <3>1 DEF Frame
  <2> HIDE DEF frame
  <2>2. /\ frames' \in Seq(Frame) /\ Len(frames') = n + 1
        /\ \A i \in 1..n : frames'[i] = frames[i]
        /\ frames'[n + 1] = frame
    BY <1>3, <1>6, <2>1 DEF n
  <2>3. \A i \in 1..(n + 1) : i \in 1..n \/ i = n + 1
    BY <1>3
  <2> HIDE DEF start, end
  <2>4. Reading'
    <3>1. \A i \in DOMAIN frames' : {frames'[i].first, frames'[i].last} \subseteq Nat
      <4>1. \A i \in DOMAIN frames' : frames'[i] \in Frame
        BY <2>2
      <4> QED
        BY <4>1 DEF Frame
    <3>2. Default!TypeOK'
      BY <1>1, <1>2, <1>5, <1>6, <3>1 DEF Reading, Default!TypeOK
    <3>3. Streamed' /\ \A i : StartsAt(i)' <=> StartsAt(i)
      BY <1>1, <1>2, Same DEF Reading
    <3>4. \A i \in 1..Len(frames') : StartsAt(frames'[i].first - 1)
      <4>1. \A i \in 1..n : StartsAt(frames[i].first - 1)
        BY <1>2 DEF Reading, n
      <4> QED
        BY <1>4, <2>1, <2>2, <2>3, <4>1
    <3> QED
      BY <1>1, <2>2, <3>2, <3>3, <3>4 DEF Reading
  <2>5. Whole'
    <3>1. \A i, from, size : Covers(i, from, size)' <=> Covers(i, from, size)
      BY <1>1, Same
    <3>2. ASSUME NEW i \in 1..Len(parts), NEW j \in 1..(n + 1)
          PROVE  Covers(i, frames'[j].first - 1, frames'[j].last - (frames'[j].first - 1))
      <4>1. CASE j \in 1..n
        BY <1>2, <2>2, <4>1 DEF Whole, n
      <4>2. CASE j = n + 1
        <5>1. Covers(i, start, mContentLength)
          BY <1>1, <1>2 DEF Whole, start
        <5> QED
          BY <2>1, <2>2, <4>2, <5>1
      <4> QED
        BY <2>3, <4>1, <4>2
    <3> QED
      BY <1>1, <2>2, <3>1, <3>2 DEF Whole
  <2>6. ASSUME Confined PROVE InOrder'
    <3>1. \A k : Start(k)' = Start(k) /\ Taken(k)' = Taken(k) /\ Reached(k)' = Reached(k)
      BY <1>1, Same
    <3>2. /\ InOrder /\ n < Len(parts) /\ start = Start(n + 1)
          /\ mContentLength = Taken(n + 1)
      BY <1>1, <1>2, <2>6 DEF InOrder, n, start
    <3>3. end = Reached(n + 1)
      BY <1>3, <3>2 DEF Reached, end
    <3>4. frames'[n + 1] = [first |-> Start(n + 1) + 1, last |-> Reached(n + 1)]
      BY <2>2, <3>2, <3>3 DEF frame
    <3>5. \A i \in 1..(n + 1) : frames'[i] = [first |-> Start(i) + 1, last |-> Reached(i)]
      BY <2>2, <2>3, <3>2, <3>4 DEF InOrder, n
    <3>6. n + 1 <= Len(parts)
      BY <1>3, <3>2
    <3> QED
      BY <1>1, <1>6, <2>2, <3>1, <3>3, <3>5, <3>6 DEF InOrder
  <2>7. Confined' <=> Confined
    BY <1>1, Same
  <2> QED
    BY <2>4, <2>5, <2>6, <2>7 DEF DefaultInv
<1>7. CASE /\ frames' = frames
           /\ \/ mContentLength >= 0 /\ end > Len(data) /\ outcome' = "IOException"
              \/ mContentLength < 0 /\ outcome' = "crash"
  <2>1. Reading'
    <3>1. Default!TypeOK'
      BY <1>1, <1>2, <1>5, <1>7 DEF Reading, Default!TypeOK
    <3>2. Streamed' /\ \A i : StartsAt(i)' <=> StartsAt(i)
      BY <1>1, <1>2, Same DEF Reading
    <3>3. /\ frames' \in Seq(Frame)
          /\ \A i \in 1..Len(frames') : StartsAt(frames'[i].first - 1)
      BY <1>2, <1>7 DEF Reading
    <3> QED
      BY <1>1, <3>1, <3>2, <3>3 DEF Reading
  <2>2. Whole'
    <3>1. \A i, from, size : Covers(i, from, size)' <=> Covers(i, from, size)
      BY <1>1, Same
    <3>2. \A i \in 1..Len(parts'), j \in 1..Len(frames') :
            Covers(i, frames'[j].first - 1, frames'[j].last - (frames'[j].first - 1))
      BY <1>1, <1>2, <1>7 DEF Whole
    <3> QED
      BY <1>1, <3>1, <3>2 DEF Whole
  <2>3. ASSUME Confined PROVE FALSE
    <3> DEFINE k == n + 1
               b == Len(parts[k].body)
               e == End(k)
               t == Taken(k)
    <3>1. n < Len(parts) /\ start = Start(k) /\ mContentLength = t
      BY <1>1, <1>2, <2>3 DEF InOrder, n, start
    <3>2. k \in 1..Len(parts)
      BY <1>3, <3>1
    <3>3. b \in Nat /\ e = start + b /\ e <= Len(data)
      BY <1>2, <3>1, <3>2, PartAt DEF Reading
    <3>4. t \in 2..b
      BY <1>2, <2>3, <3>2, Kinds DEF Reading
    <3> HIDE DEF b, e, t, k, start
    <3>5. mContentLength >= 0 /\ start + mContentLength <= Len(data)
      BY <1>3, <1>4, <3>1, <3>3, <3>4
    <3> QED
      BY <1>3, <1>4, <1>7, <3>5
  <2>4. Confined' <=> Confined
    BY <1>1, Same
  <2> QED
    BY <2>1, <2>2, <2>3, <2>4 DEF DefaultInv
<1> QED
  BY <1>1, <1>6, <1>7

(* The invariant holds when the connection is opened.                      *)
LEMMA DefaultInit ==
  ASSUME Default!Init
  PROVE  DefaultInv
<1>1. /\ parts \in DefaultCameras /\ data = Default!FlattenSeq(Bytes)
      /\ pos = 0 /\ mark = 0 /\ step = "idle" /\ headerLen = 0 /\ mContentLength = -1
      /\ frames = <<>> /\ outcome = "none"
  BY DEF Default!Init, Bytes
<1>2. Streamed /\ DefaultMaxLength \in Nat
  BY <1>1, Assumed DEF Streamed
<1>3. Len(data) \in Nat /\ Len(parts) \in Nat
  BY <1>2, Layout DEF Streamed
<1>4. Reading
  <2>1. Default!TypeOK
    BY <1>1, <1>2, <1>3 DEF Default!TypeOK
  <2> QED
    BY <1>1, <1>2, <2>1 DEF Reading
<1>5. Whole
  BY <1>1 DEF Whole
<1>6. InOrder
  BY <1>1, <1>3 DEF InOrder, Reached
<1> QED
  BY <1>4, <1>5, <1>6 DEF DefaultInv

(* Every step of the default reader preserves it.                          *)
LEMMA DefaultNext ==
  ASSUME DefaultInv, Default!Next
  PROVE  DefaultInv'
BY DefaultFindStart, DefaultReadHeader, DefaultFindEnd, DefaultReadFrame
   DEF Default!Next

(* The whole body of a sound part is taken.                                *)
LEMMA SoundIsTaken ==
  ASSUME Streamed, NEW k \in 1..Len(parts), Default!IsSound(parts[k])
  PROVE  Reached(k) = End(k)
<1>1. Taken(k) = Len(parts[k].body)
  BY DEF Taken, Default!IsSound
<1>2. End(k) = Start(k) + Len(parts[k].body)
  BY PartAt
<1>3. k # 0
  BY DEF Streamed
<1> QED
  BY <1>1, <1>2, <1>3 DEF Reached

(* What the frames begin with, in the words of the specification.          *)
LEMMA Starts ==
  ASSUME frames \in Seq(Frame), data \in Seq(Cell),
         \A i \in 1..Len(frames) : StartsAt(frames[i].first - 1)
  PROVE  Default!FramesStartAtMarker
<1>1. Len(data) \in Nat /\ DOMAIN frames = 1..Len(frames)
  OBVIOUS
<1>2. SUFFICES ASSUME NEW i \in 1..Len(frames)
               PROVE  SubSeq(data, frames[i].first, frames[i].first + 1)
                        = <<"FF", "D8">>
  BY <1>1 DEF Default!FramesStartAtMarker, Default!SOI_MARKER
<1> DEFINE f == frames[i].first
<1>3. f \in Nat \ {0} /\ StartsAt(f - 1)
  <2>1. frames[i] \in Frame
    BY <1>2
  <2> QED
    BY <1>2, <2>1 DEF Frame
<1> HIDE DEF f
<1>4. /\ f \in 1..(Len(data) - 1) /\ data[f] = "FF" /\ data[f + 1] = "D8"
  <2>1. (f - 1) + 1 = f /\ (f - 1) + 2 = f + 1
    BY <1>3
  <2> QED
    BY <1>1, <1>3, <2>1 DEF StartsAt
<1>5. f \in Default!Occurrences(<<"FF", "D8">>, data)
  <2>1. \A a, b : Default!Occurrences(<<a, b>>, data) =
                    {j \in 1..(Len(data) - 1) : data[j] = a /\ data[j + 1] = b}
    BY OccurrencesOf
  <2> QED
    BY <1>4, <2>1
<1> QED
  BY <1>5 DEF Default!Occurrences, f

(* What the invariant says in the words of the specification.              *)
LEMMA DefaultKeeps ==
  ASSUME DefaultInv
  PROVE  /\ Default!TypeOK
         /\ Default!ExactlyTheImages
         /\ Default!FramesStartAtMarker
         /\ Default!AnnouncedFramesAreWhole
         /\ Default!ShortLengthLosesOneImage
<1> DEFINE n == Len(frames)
<1>1. Reading /\ Streamed /\ Whole /\ (Confined => InOrder)
  BY DEF DefaultInv, Reading
<1>2. /\ frames \in Seq(Frame) /\ n \in Nat /\ DOMAIN frames = 1..n
      /\ Len(parts) \in Nat /\ DOMAIN parts = 1..Len(parts)
      /\ Len(data) \in Nat /\ data \in Seq(Cell)
  BY <1>1, Types DEF Streamed
<1> HIDE DEF n
<1>3. Default!FramesStartAtMarker
  BY <1>1, <1>2, Starts DEF Reading
<1>4. Default!AnnouncedFramesAreWhole
  <2> SUFFICES ASSUME NEW i \in 1..Len(parts), NEW j \in 1..n,
                      Default!IsSound(parts[i]), Default!Announces(parts[i]),
                      frames[j].first = Default!Body(i).first
               PROVE  /\ frames[j].last >= Default!Body(i).last
                      /\ Default!HasNoFill(parts[i]) => frames[j] = Default!Body(i)
    BY <1>2 DEF Default!AnnouncedFramesAreWhole
  <2> DEFINE b == Len(parts[i].body)
             start == Start(i)
             e == End(i)
             f == frames[j]
             last == f.last
  <2>1. /\ Default!Body(i) = [first |-> start + 1, last |-> e]
        /\ e = start + b /\ b \in Nat
    BY <1>1, PartAt
  <2>2. start \in Nat
    <3>1. /\ End(i - 1) \in Nat /\ Len(parts[i].head) \in Nat
          /\ start = End(i - 1) + Len(parts[i].head)
      BY <1>1, PartAt
    <3> QED
      BY <3>1
  <2>3. f \in [first : Nat \ {0}, last : Nat]
    <3>1. f \in Frame
      BY <1>2
    <3> QED
      BY <3>1 DEF Frame
  <2>4. Covers(i, f.first - 1, last - (f.first - 1))
    BY <1>1 DEF Whole, n
  <2>5. f.first = start + 1 /\ f.first - 1 = start
    BY <2>1, <2>2
  <2>6. /\ last - start >= b
        /\ Default!HasNoFill(parts[i]) => last - start = b
    BY <2>4, <2>5 DEF Covers
  <2>7. last \in Nat
    BY <2>3
  <2> HIDE DEF b, start, e, last
  <2>8. last >= e /\ (Default!HasNoFill(parts[i]) => last = e)
    BY <2>1, <2>2, <2>6, <2>7
  <2>9. last = e => f = [first |-> start + 1, last |-> e]
    BY <2>3, <2>5 DEF last
  <2> QED
    BY <2>1, <2>8, <2>9 DEF last
<1>5. Default!ShortLengthLosesOneImage
  <2> SUFFICES ASSUME Confined
               PROVE  /\ outcome # "crash"
                      /\ outcome = "IOException" =>
                           \A i \in DOMAIN parts : Default!IsSound(parts[i]) =>
                             \E j \in DOMAIN frames : frames[j] = Default!Body(i)
    BY DEF Default!ShortLengthLosesOneImage, Confined
  <2>1. InOrder
    BY <1>1
  <2>2. ASSUME outcome = "IOException", NEW i \in 1..Len(parts), Default!IsSound(parts[i])
        PROVE  i \in 1..n /\ frames[i] = Default!Body(i)
    <3>1. i \in 1..n /\ frames[i] = [first |-> Start(i) + 1, last |-> Reached(i)]
      BY <2>1, <2>2 DEF InOrder, n
    <3>2. Reached(i) = End(i)
      BY <1>1, <1>2, <2>2, SoundIsTaken
    <3>3. Default!Body(i) = [first |-> Start(i) + 1, last |-> End(i)]
      BY <1>1, PartAt
    <3> QED
      BY <3>1, <3>2, <3>3
  <2> QED
    BY <1>2, <2>1, <2>2 DEF InOrder
<1>6. Default!ExactlyTheImages
  <2> SUFFICES ASSUME \A i \in 1..Len(parts) : Default!IsSound(parts[i])
               PROVE  /\ frames = [i \in 1..n |-> Default!Body(i)]
                      /\ outcome = "IOException" => n = Len(parts)
                      /\ outcome # "crash"
    BY <1>2 DEF Default!ExactlyTheImages, n
  <2>1. Confined
    <3>1. ASSUME NEW k \in 1..Len(parts) PROVE ~Default!IsShort(parts[k])
      <4> DEFINE length == Default!ParseContentLength(parts[k].head)
                 b == Len(parts[k].body)
      <4>1. b \in Nat /\ (Default!Announces(parts[k]) => length = b)
        BY <1>1, PartAt DEF Default!IsSound
      <4>2. Default!IsShort(parts[k]) =>
              Default!Announces(parts[k]) /\ length \in 2..(b - 1)
        BY DEF Default!IsShort
      <4> HIDE DEF length, b
      <4> QED
        BY <4>1, <4>2
    <3> QED
      BY <1>2, <3>1 DEF Confined
  <2>2. InOrder
    BY <1>1, <2>1
  <2>3. ASSUME NEW i \in 1..n PROVE frames[i] = Default!Body(i)
    <3>1. i \in 1..Len(parts) /\ frames[i] = [first |-> Start(i) + 1, last |-> Reached(i)]
      <4>1. n <= Len(parts)
        BY <2>2 DEF InOrder, n
      <4>2. i \in 1..Len(parts)
        BY <1>2, <4>1
      <4> QED
        BY <2>2, <4>2 DEF InOrder, n
    <3>2. Reached(i) = End(i)
      BY <1>1, <1>2, <3>1, SoundIsTaken
    <3>3. Default!Body(i) = [first |-> Start(i) + 1, last |-> End(i)]
      BY <1>1, <3>1, PartAt
    <3> QED
      BY <3>1, <3>2, <3>3
  <2>4. frames = [i \in 1..n |-> Default!Body(i)]
    BY <1>2, <2>3
  <2> QED
    BY <2>2, <2>4 DEF InOrder, n
<1> QED
  BY <1>1, <1>3, <1>4, <1>5, <1>6 DEF Reading
=============================================================================
