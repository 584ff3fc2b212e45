---------------------------- MODULE ParserProofs ----------------------------
(***************************************************************************)
(* What holds of parse() for every source: three passes are enough, the    *)
(* verdict tells whether every name is bound, the state keeps its types,   *)
(* and a source whose symbols have settled is assembled as they ask.       *)
(*                                                                         *)
(* The passes (PassInv): the table never forgets a name, and what a line   *)
(* binds does not depend on what is known when it is read. So the first    *)
(* pass binds every name there is (BindsKept), every later pass records    *)
(* the same references, those to names nothing binds (RecordsRight), and   *)
(* the count the second pass leaves for the third is that of the third     *)
(* itself (CountRight): a third pass is accepted or given up.              *)
(*                                                                         *)
(* The types (TypeInv): along the tokens of an expression the stack is as  *)
(* high as the grammar has it, and holds numbers; a line then has a value  *)
(* for each of its ends (EvaluatedTyped and what follows it). That this is *)
(* so behind every token is shown from a first one where it is not, which  *)
(* there must be if there is any (NatMinimum).                             *)
(*                                                                         *)
(* The code (ConvInv): a line is computed with what the table has when it  *)
(* is read. If no name is missing and no symbol has another value at the   *)
(* end, that is what the final symbols give (TablesRight, LinesRight), and *)
(* what it stored is still there if no other line has its place.           *)
(***************************************************************************)
EXTENDS Parser, OperatorLemmas, FiniteSetTheorems, TLAPS

-----------------------------------------------------------------------------
(* Shifts *)

IsWeights(w, n) == w = [k \in 0 .. n |-> IF k = 0 THEN 1 ELSE 2 * w[k - 1]]

LEMMA WeightsExist == ASSUME NEW n \in Nat PROVE \E w : IsWeights(w, n)
<1> DEFINE T == {m \in Nat : ~\E w : IsWeights(w, m)}
<1>1. SUFFICES ASSUME T # {} PROVE FALSE
  OBVIOUS
<1>2. PICK m \in T : \A y \in T : m <= y
  <2>1. T \in SUBSET Nat
    OBVIOUS
  <2> HIDE DEF T
  <2> QED BY <1>1, <2>1, NatMinimum
<1>3. m # 0
  <2>1. IsWeights([k \in {0} |-> 1], 0)
    BY DEF IsWeights
  <2> QED BY <2>1
<1>4. m - 1 \in Nat /\ m - 1 \notin T
  BY <1>2, <1>3
<1>5. PICK w : IsWeights(w, m - 1)
  BY <1>4
<1> DEFINE v == [k \in 0 .. m |-> IF k = m THEN 2 * w[m - 1] ELSE w[k]]
<1>6. IsWeights(v, m)
  <2>1. \A k \in 0 .. m - 1 : w[k] = IF k = 0 THEN 1 ELSE 2 * w[k - 1]
    BY <1>5 DEF IsWeights
  <2>2. ASSUME NEW k \in 0 .. m PROVE v[k] = IF k = 0 THEN 1 ELSE 2 * v[k - 1]
    BY <1>3, <2>1
  <2> QED BY <2>2 DEF IsWeights
<1> QED BY <1>6

LEMMA WeightPositive == ASSUME NEW n \in Nat PROVE Weight(n) \in Nat \ {0}
<1> DEFINE w == CHOOSE v : IsWeights(v, n)
<1>1. IsWeights(w, n)
  BY WeightsExist
<1>2. Weight(n) = w[n]
  BY DEF Weight, IsWeights
<1> HIDE DEF w
<1>3. \A k \in 0 .. n : w[k] = IF k = 0 THEN 1 ELSE 2 * w[k - 1]
  BY <1>1 DEF IsWeights
<1> DEFINE T == {k \in 0 .. n : w[k] \notin Nat \ {0}}
<1>4. T = {}
  <2>1. SUFFICES ASSUME T # {} PROVE FALSE
    OBVIOUS
  <2>2. PICK m \in T : \A y \in T : m <= y
    <3>1. T \in SUBSET Nat
      OBVIOUS
    <3> HIDE DEF T
    <3> QED BY <2>1, <3>1, NatMinimum
  <2>3. m # 0
    BY <1>3
  <2>4. m - 1 \in 0 .. n /\ m - 1 \notin T
    BY <2>2, <2>3
  <2> QED BY <1>3, <2>3, <2>4
<1> QED BY <1>2, <1>4

-----------------------------------------------------------------------------
(* Expressions *)

\* How many of the first n tokens are of the kinds given.
Counted(tokens, kinds, n) == Cardinality({k \in 1 .. n : tokens[k].t \in kinds})

LEMMA CountStep ==
    ASSUME NEW tokens, NEW kinds, NEW n \in Nat \ {0}
    PROVE  /\ Counted(tokens, kinds, n - 1) \in Nat
           /\ Counted(tokens, kinds, n) =
                 Counted(tokens, kinds, n - 1) + (IF tokens[n].t \in kinds THEN 1 ELSE 0)
<1> DEFINE S == {k \in 1 .. n - 1 : tokens[k].t \in kinds}
           S1 == {k \in 1 .. n : tokens[k].t \in kinds}
<1>1. IsFiniteSet(1 .. n - 1) /\ S \subseteq 1 .. n - 1
  BY FS_Interval
<1>2. IsFiniteSet(S) /\ Cardinality(S) \in Nat
  BY <1>1, FS_Subset, FS_CardinalityType
<1>3. n \notin S
  OBVIOUS
<1>6. /\ Counted(tokens, kinds, n - 1) = Cardinality(S)
      /\ Counted(tokens, kinds, n) = Cardinality(S1)
  BY DEF Counted
<1>4. CASE tokens[n].t \in kinds
  <2>1. S1 = S \cup {n}
    BY <1>4
  <2> HIDE DEF S, S1
  <2>2. Cardinality(S1) = Cardinality(S) + 1
    BY <1>2, <1>3, <2>1, FS_AddElement
  <2> QED BY <1>2, <1>4, <1>6, <2>2
<1>5. CASE tokens[n].t \notin kinds
  <2>1. S1 = S
    BY <1>5
  <2> HIDE DEF S, S1
  <2> QED BY <1>2, <1>5, <1>6, <2>1
<1> QED BY <1>4, <1>5

LEMMA CountNone == ASSUME NEW tokens, NEW kinds PROVE Counted(tokens, kinds, 0) = 0
<1>1. {k \in 1 .. 0 : tokens[k].t \in kinds} = {}
  OBVIOUS
<1> QED BY <1>1, FS_EmptySet DEF Counted

Constants == {"num", "sym"}
Takers == {"op", "end"}

LEMMA DepthIs == ASSUME NEW tokens, NEW n PROVE
    Depth(tokens, n) = Counted(tokens, Constants, n) - Counted(tokens, Takers, n)
BY DEF Depth, Counted, Constants, Takers

\* What a token does to the number of values on the stack.
LEMMA DepthStep ==
    ASSUME NEW tokens, NEW n \in Nat \ {0}
    PROVE  /\ Depth(tokens, n - 1) \in Int
           /\ tokens[n].t \in {"num", "sym"} => Depth(tokens, n) = Depth(tokens, n - 1) + 1
           /\ tokens[n].t \in {"op", "end"} => Depth(tokens, n) = Depth(tokens, n - 1) - 1
           /\ tokens[n].t \notin {"num", "sym", "op", "end"} => Depth(tokens, n) = Depth(tokens, n - 1)
<1>1. /\ Depth(tokens, n) = Counted(tokens, Constants, n) - Counted(tokens, Takers, n)
      /\ Depth(tokens, n - 1) = Counted(tokens, Constants, n - 1) - Counted(tokens, Takers, n - 1)
  BY DepthIs
<1> DEFINE c == Counted(tokens, Constants, n - 1)
           d == Counted(tokens, Takers, n - 1)
<1>2. /\ c \in Nat /\ d \in Nat
      /\ Counted(tokens, Constants, n) = c + (IF tokens[n].t \in Constants THEN 1 ELSE 0)
      /\ Counted(tokens, Takers, n) = d + (IF tokens[n].t \in Takers THEN 1 ELSE 0)
  BY CountStep
<1> HIDE DEF c, d
<1>3. Depth(tokens, n - 1) = c - d
  BY <1>1 DEF c, d
<1> QED BY <1>1, <1>2, <1>3 DEF Constants, Takers

LEMMA DepthZero == ASSUME NEW tokens PROVE Depth(tokens, 0) = 0
BY DepthIs, CountNone

-----------------------------------------------------------------------------

\* A course up to token n.
IsCourseTo(after, n, tokens, look, pc, kept) ==
    after = [k \in 0 .. n |->
                IF k = 0 THEN Start(kept) ELSE Consume(after[k - 1], tokens[k], look, pc)]

LEMMA CourseExists ==
    ASSUME NEW tokens, NEW look, NEW pc, NEW kept, NEW n \in Nat
    PROVE  \E after : IsCourseTo(after, n, tokens, look, pc, kept)
<1> DEFINE Is(f, m) == IsCourseTo(f, m, tokens, look, pc, kept)
           T == {m \in Nat : ~\E f : Is(f, m)}
<1>1. SUFFICES ASSUME T # {} PROVE FALSE
  OBVIOUS
<1>2. PICK m \in T : \A y \in T : m <= y
  <2>1. T \in SUBSET Nat
    OBVIOUS
  <2> HIDE DEF T
  <2> QED BY <1>1, <2>1, NatMinimum
<1>3. m # 0
  <2>1. Is([k \in {0} |-> Start(kept)], 0)
    BY DEF IsCourseTo
  <2> QED BY <2>1
<1>4. m - 1 \in Nat /\ m - 1 \notin T
  BY <1>2, <1>3
<1>5. PICK f : Is(f, m - 1)
  BY <1>4
<1> DEFINE g == [k \in 0 .. m |-> IF k = m THEN Consume(f[m - 1], tokens[m], look, pc) ELSE f[k]]
<1>6. Is(g, m)
  <2>1. \A k \in 0 .. m - 1 :
           f[k] = IF k = 0 THEN Start(kept) ELSE Consume(f[k - 1], tokens[k], look, pc)
    BY <1>5 DEF IsCourseTo
  <2>2. ASSUME NEW k \in 0 .. m
        PROVE  g[k] = IF k = 0 THEN Start(kept) ELSE Consume(g[k - 1], tokens[k], look, pc)
    BY <1>3, <2>1
  <2> QED BY <2>2 DEF IsCourseTo
<1> QED BY <1>6

\* An expression is evaluated token by token.
Follows(after, tokens, look, pc, kept) ==
    /\ after[0] = Start(kept)
    /\ \A k \in 1 .. Len(tokens) : after[k] = Consume(after[k - 1], tokens[k], look, pc)
    /\ Evaluated(tokens, look, pc, kept) = after[Len(tokens)]

LEMMA Course ==
    ASSUME NEW tokens, NEW look, NEW pc, NEW kept, Len(tokens) \in Nat
    PROVE  \E after : Follows(after, tokens, look, pc, kept)
<1> DEFINE f == CHOOSE after : IsCourseTo(after, Len(tokens), tokens, look, pc, kept)
<1>1. IsCourseTo(f, Len(tokens), tokens, look, pc, kept)
  BY CourseExists
<1>2. Evaluated(tokens, look, pc, kept) = f[Len(tokens)]
  BY DEF Evaluated, IsCourseTo
<1> HIDE DEF f
<1>3. \A k \in 0 .. Len(tokens) :
         f[k] = IF k = 0 THEN Start(kept) ELSE Consume(f[k - 1], tokens[k], look, pc)
  BY <1>1 DEF IsCourseTo
<1>4. f[0] = Start(kept) /\ \A k \in 1 .. Len(tokens) : f[k] = Consume(f[k - 1], tokens[k], look, pc)
  BY <1>3
<1> QED BY <1>2, <1>4 DEF Follows

-----------------------------------------------------------------------------
(* Types *)

LEMMA ComposeIsInt ==
    ASSUME NEW a \in Int, NEW b \in Int
    PROVE  And16(a, b) \in Int /\ Or16(a, b) \in Int
<1>1. ASSUME NEW x \in Int, NEW y \in Int PROVE BitAnd(x, y) \in Int /\ BitOr(x, y) \in Int
  BY DEF BitAnd, BitOr, Compose
<1>2. lo(a) \in Int /\ lo(b) \in Int /\ hi(a) \in Int /\ hi(b) \in Int
  BY DEF lo, hi
<1>3. /\ BitAnd(lo(a), lo(b)) \in Int /\ BitAnd(hi(a), hi(b)) \in Int
      /\ BitOr(lo(a), lo(b)) \in Int /\ BitOr(hi(a), hi(b)) \in Int
  BY <1>1, <1>2
<1> QED BY <1>3 DEF And16, Or16, to_adr

LEMMA UnsignedIsNat == ASSUME NEW n \in Int PROVE Unsigned(n) \in Nat
BY DEF Unsigned

LEMMA ResultIsInt ==
    ASSUME NEW o \in ops, NEW a \in Int, NEW b \in Int, o = "%" => Unsigned(b) # 0
    PROVE  Result(o, a, b) \in Int
<1>1. CASE o \in {"+", "-", "*"}
  BY <1>1 DEF Result
<1>2. CASE o = "%"
  <2>1. Remainder(a, b) \in Int
    <3>1. Unsigned(a) \in Nat /\ Unsigned(b) \in Nat /\ Unsigned(b) # 0
      BY <1>2, UnsignedIsNat
    <3> QED BY <3>1 DEF Remainder
  <2> QED BY <1>2, <2>1 DEF Result
<1>3. CASE o \in {"&", "|"}
  BY <1>3, ComposeIsInt DEF Result
<1>4. CASE o \in {"&&", "||"}
  BY <1>4 DEF Result, Truth
<1>5. CASE o \in {">>", "<<"}
  <2> DEFINE w == Weight(b % 32)
  <2>1. w \in Nat \ {0}
    <3>1. b % 32 \in Nat
      OBVIOUS
    <3> QED BY <3>1, WeightPositive
  <2> DEFINE u == Unsigned(a)
  <2>2. Result(o, a, b) = IF o = ">>" THEN u \div w ELSE Unsigned(u * w)
    BY <1>5 DEF Result
  <2>3. u \in Nat
    BY UnsignedIsNat
  <2> HIDE DEF w, u
  <2>4. u \div w \in Int /\ u * w \in Int
    BY <2>1, <2>3
  <2> QED BY <2>2, <2>4, UnsignedIsNat
<1> QED BY <1>1, <1>2, <1>3, <1>4, <1>5 DEF ops

Kept == [negate : BOOLEAN, val : Int]

\* A machine that has consumed k tokens.
Typed(m, tokens, k) ==
    /\ m \in [stack : Seq(Int), e : Kept, values : Seq(Int), thrown : BOOLEAN]
    /\ Len(m.stack) = Depth(tokens, k)
    /\ Len(m.values) = Counted(tokens, {"end"}, k)

KnownInts(look) == \A c \in DOMAIN look : look[c] \in Int

LEMMA StartTyped ==
    ASSUME NEW tokens, NEW kept \in Kept
    PROVE  Typed(Start(kept), tokens, 0)
BY DepthZero, CountNone DEF Start, Typed

LEMMA ConsumeTyped ==
    ASSUME NEW tokens, WellFormed(tokens), NEW k \in 1 .. Len(tokens),
           NEW look, KnownInts(look), NEW pc \in Int, NEW m, Typed(m, tokens, k - 1)
    PROVE  Typed(Consume(m, tokens[k], look, pc), tokens, k)
<1> DEFINE token == tokens[k]
           d == Depth(tokens, k - 1)
           c == Counted(tokens, {"end"}, k - 1)
<1>1. Len(tokens) \in Nat /\ TokenOK(tokens, k)
  <2> DEFINE S == {tokens[i] : i \in DOMAIN tokens}
  <2>1. tokens \in Seq(S)
    BY DEF WellFormed
  <2> HIDE DEF S
  <2>2. k \in DOMAIN tokens /\ Len(tokens) \in Nat
    BY <2>1
  <2> QED BY <2>2 DEF WellFormed
<1>2. k \in Nat \ {0} /\ k - 1 \in Nat
  BY <1>1
<1>3. /\ token.t \in {"num", "sym"} => Depth(tokens, k) = d + 1
      /\ token.t \in {"op", "end"} => Depth(tokens, k) = d - 1
      /\ token.t \notin {"num", "sym", "op", "end"} => Depth(tokens, k) = d
  BY <1>2, DepthStep
<1>4. c \in Nat /\ Counted(tokens, {"end"}, k) = c + (IF token.t = "end" THEN 1 ELSE 0)
  BY <1>2, CountStep
<1>5. /\ m \in [stack : Seq(Int), e : Kept, values : Seq(Int), thrown : BOOLEAN]
      /\ Len(m.stack) = d /\ Len(m.values) = c
  BY DEF Typed
<1>6. /\ token.t = "num" => token.n \in Int
      /\ token.t = "op" => d >= 2
      /\ token.t = "end" => d = 1
      /\ token.t \in {"num", "neg", "op", "end", "sym"}
  BY <1>1 DEF TokenOK
<1> HIDE DEF token, d, c
<1> DEFINE n == Consume(m, token, look, pc)
<1>7. CASE token.t \in {"num", "sym"}
  <2>1. PICK v \in Int : n = fpushnum([m EXCEPT !.e.val = v])
    <3>1. CASE token.t = "num"
      BY <3>1, <1>6 DEF Consume, fsetnum
    <3>2. CASE token.t = "sym" /\ (token.s = "$" \/ Class[token.s] \in DOMAIN look)
      BY <3>2 DEF Consume, fsetnum, fsym, KnownInts
    <3>3. CASE token.t = "sym" /\ token.s # "$" /\ Class[token.s] \notin DOMAIN look
      <4>1. n = fpushnum(m)
        BY <3>3 DEF Consume, fsym
      <4>2. m = [m EXCEPT !.e.val = m.e.val] /\ m.e.val \in Int
        BY <1>5 DEF Kept
      <4> QED BY <4>1, <4>2
    <3> QED BY <1>7, <3>1, <3>2, <3>3
  <2> DEFINE u == [m EXCEPT !.e.val = v]
             w == IF u.e.negate THEN -u.e.val ELSE u.e.val
  <2>2. /\ u \in [stack : Seq(Int), e : Kept, values : Seq(Int), thrown : BOOLEAN]
        /\ u.stack = m.stack /\ u.values = m.values /\ w \in Int
    BY <1>5, <2>1 DEF Kept
  <2>3. n = [u EXCEPT !.stack = Append(@, w), !.e = [negate |-> FALSE, val |-> Placeholder]]
    BY <2>1 DEF fpushnum
  <2> HIDE DEF u, w, n
  <2>4. /\ Append(u.stack, w) \in Seq(Int) /\ Len(Append(u.stack, w)) = d + 1
        /\ [negate |-> FALSE, val |-> Placeholder] \in Kept
    <3>1. u.stack \in Seq(Int) /\ Len(u.stack) = d
      BY <1>5, <2>2
    <3>2. [negate |-> FALSE, val |-> Placeholder] \in Kept
      BY DEF Kept, Placeholder
    <3> QED BY <2>2, <3>1, <3>2
  <2>5. /\ n \in [stack : Seq(Int), e : Kept, values : Seq(Int), thrown : BOOLEAN]
        /\ Len(n.stack) = d + 1 /\ n.values = m.values
    BY <2>2, <2>3, <2>4
  <2> QED BY <1>3, <1>4, <1>5, <1>7, <2>5 DEF Typed, n, token
<1>8. CASE token.t = "neg"
  <2>1. n = [m EXCEPT !.e.negate = TRUE]
    BY <1>8 DEF Consume, fnegate
  <2> HIDE DEF n
  <2>2. /\ n \in [stack : Seq(Int), e : Kept, values : Seq(Int), thrown : BOOLEAN]
        /\ n.stack = m.stack /\ n.values = m.values
    BY <1>5, <2>1 DEF Kept
  <2> QED BY <1>3, <1>4, <1>5, <1>8, <2>2 DEF Typed, n, token
<1>9. CASE token.t = "op"
  <2> DEFINE o == token.o
             v0 == m.stack[d - 1]
             v1 == m.stack[d]
  <2>1. d \in Nat /\ d >= 2 /\ v0 \in Int /\ v1 \in Int
    BY <1>5, <1>6, <1>9
  <2>2. n = IF m.thrown \/ o \notin ops \/ (o = "%" /\ Unsigned(v1) = 0)
            THEN [m EXCEPT !.thrown = TRUE, !.stack = SubSeq(@, 1, d - 1)]
            ELSE [m EXCEPT !.stack = Append(SubSeq(@, 1, d - 2), Result(o, v0, v1))]
    BY <1>5, <1>9 DEF Consume, fop
  <2> HIDE DEF o, v0, v1, n
  <2>3. SubSeq(m.stack, 1, d - 1) \in Seq(Int) /\ Len(SubSeq(m.stack, 1, d - 1)) = d - 1
    BY <1>5, <2>1
  <2>4. SubSeq(m.stack, 1, d - 2) \in Seq(Int) /\ Len(SubSeq(m.stack, 1, d - 2)) = d - 2
    BY <1>5, <2>1
  <2>5. CASE m.thrown \/ o \notin ops \/ (o = "%" /\ Unsigned(v1) = 0)
    <3>1. n = [m EXCEPT !.thrown = TRUE, !.stack = SubSeq(m.stack, 1, d - 1)]
      BY <2>2, <2>5
    <3>2. /\ n \in [stack : Seq(Int), e : Kept, values : Seq(Int), thrown : BOOLEAN]
          /\ Len(n.stack) = d - 1 /\ n.values = m.values
      BY <1>5, <2>3, <3>1
    <3> QED BY <1>3, <1>4, <1>5, <1>9, <3>2 DEF Typed, n, token
  <2>6. CASE ~(m.thrown \/ o \notin ops \/ (o = "%" /\ Unsigned(v1) = 0))
    <3> DEFINE r == Result(o, v0, v1)
    <3>1. r \in Int
      BY <2>1, <2>6, ResultIsInt
    <3>2. n = [m EXCEPT !.stack = Append(SubSeq(m.stack, 1, d - 2), r)]
      BY <2>2, <2>6
    <3> HIDE DEF r
    <3>3. /\ Append(SubSeq(m.stack, 1, d - 2), r) \in Seq(Int)
          /\ Len(Append(SubSeq(m.stack, 1, d - 2), r)) = d - 1
      BY <2>1, <2>4, <3>1
    <3>4. /\ n \in [stack : Seq(Int), e : Kept, values : Seq(Int), thrown : BOOLEAN]
          /\ Len(n.stack) = d - 1 /\ n.values = m.values
      BY <1>5, <3>2, <3>3
    <3> QED BY <1>3, <1>4, <1>5, <1>9, <3>4 DEF Typed, n, token
  <2> QED BY <2>5, <2>6
<1>10. CASE token.t = "end"
  <2>1. n = [m EXCEPT !.values = Append(@, m.stack[d]), !.stack = SubSeq(@, 1, d - 1)]
    BY <1>5, <1>10 DEF Consume, fexpression
  <2> HIDE DEF n
  <2>2. d = 1 /\ m.stack[d] \in Int
    BY <1>5, <1>6, <1>10
  <2>3. SubSeq(m.stack, 1, d - 1) \in Seq(Int) /\ Len(SubSeq(m.stack, 1, d - 1)) = d - 1
    BY <1>5, <2>2
  <2>4. Append(m.values, m.stack[d]) \in Seq(Int) /\ Len(Append(m.values, m.stack[d])) = c + 1
    BY <1>5, <2>2
  <2>5. /\ n \in [stack : Seq(Int), e : Kept, values : Seq(Int), thrown : BOOLEAN]
        /\ Len(n.stack) = d - 1 /\ Len(n.values) = c + 1
    BY <1>5, <2>1, <2>3, <2>4
  <2> QED BY <1>3, <1>4, <1>10, <2>5 DEF Typed, n, token
<1> QED BY <1>6, <1>7, <1>8, <1>9, <1>10 DEF token

LEMMA TokensLen ==
    ASSUME NEW tokens, WellFormed(tokens)
    PROVE  Len(tokens) \in Nat /\ DOMAIN tokens = 1 .. Len(tokens)
<1> DEFINE S == {tokens[i] : i \in DOMAIN tokens}
<1>1. tokens \in Seq(S)
  BY DEF WellFormed
<1> HIDE DEF S
<1> QED BY <1>1

\* The values of expressions are numbers, as many as there are ends.
LEMMA EvaluatedTyped ==
    ASSUME NEW tokens, WellFormed(tokens), NEW look, KnownInts(look), NEW pc \in Int,
           NEW kept \in Kept
    PROVE  Typed(Evaluated(tokens, look, pc, kept), tokens, Len(tokens))
<1>1. Len(tokens) \in Nat
  BY TokensLen
<1>0. PICK after : Follows(after, tokens, look, pc, kept)
  BY <1>1, Course
<1>2. /\ after[0] = Start(kept)
      /\ \A k \in 1 .. Len(tokens) : after[k] = Consume(after[k - 1], tokens[k], look, pc)
      /\ Evaluated(tokens, look, pc, kept) = after[Len(tokens)]
  BY <1>0 DEF Follows
<1> DEFINE T == {k \in 0 .. Len(tokens) : ~Typed(after[k], tokens, k)}
<1>3. T = {}
  <2>1. SUFFICES ASSUME T # {} PROVE FALSE
    OBVIOUS
  <2>2. PICK k \in T : \A y \in T : k <= y
    <3>1. T \in SUBSET Nat
      BY <1>1
    <3> HIDE DEF T
    <3> QED BY <2>1, <3>1, NatMinimum
  <2>3. k # 0
    BY <1>2, StartTyped
  <2>4. k \in 1 .. Len(tokens) /\ Typed(after[k - 1], tokens, k - 1)
    BY <1>1, <2>2, <2>3
  <2>5. Typed(after[k], tokens, k)
    BY <1>2, <2>4, ConsumeTyped
  <2> QED BY <2>5
<1>4. Typed(after[Len(tokens)], tokens, Len(tokens))
  BY <1>1, <1>3
<1> QED BY <1>2, <1>4

\* A minus sign counts for the constant behind it.
LEMMA ConsumeSpends ==
    ASSUME NEW tokens, WellFormed(tokens), NEW k \in 1 .. Len(tokens),
           NEW look, NEW pc, NEW m, Typed(m, tokens, k - 1),
           m.e.negate => k # 1 /\ tokens[k - 1].t = "neg",
           Consume(m, tokens[k], look, pc).e.negate
    PROVE  tokens[k].t = "neg"
<1>1. Len(tokens) \in Nat /\ DOMAIN tokens = 1 .. Len(tokens) /\ TokenOK(tokens, k)
  BY TokensLen DEF WellFormed
<1>2. m.e.negate => tokens[k].t \in {"num", "sym"}
  <2>1. SUFFICES ASSUME m.e.negate PROVE tokens[k].t \in {"num", "sym"}
    OBVIOUS
  <2>2. k - 1 \in 1 .. Len(tokens) /\ TokenOK(tokens, k - 1) /\ (k - 1) + 1 = k
    BY <1>1, <2>1 DEF WellFormed
  <2> QED BY <2>1, <2>2 DEF TokenOK
<1>3. tokens[k].t \in {"num", "neg", "op", "end", "sym"}
  BY <1>1 DEF TokenOK
<1>4. m \in [stack : Seq(Int), e : Kept, values : Seq(Int), thrown : BOOLEAN]
  BY DEF Typed
<1> DEFINE token == tokens[k]
           n == Consume(m, token, look, pc)
<1>5. CASE token.t \in {"num", "sym"}
  <2>1. PICK u : n = fpushnum(u) /\ "e" \in DOMAIN u
    BY <1>4, <1>5 DEF Consume, fsetnum, fsym
  <2> HIDE DEF n
  <2>2. n.e = [negate |-> FALSE, val |-> Placeholder]
    BY <2>1 DEF fpushnum
  <2> QED BY <2>2 DEF n
<1>6. CASE token.t \in {"op", "end"}
  <2>1. n.e = m.e
    BY <1>4, <1>6 DEF Consume, fop, fexpression
  <2> QED BY <1>2, <1>6, <2>1
<1> QED BY <1>3, <1>5, <1>6

\* No minus sign is left over from whole expressions.
LEMMA NegateSpent ==
    ASSUME NEW tokens, WellFormed(tokens), NEW look, KnownInts(look), NEW pc \in Int,
           NEW kept \in Kept, kept.negate = FALSE
    PROVE  Evaluated(tokens, look, pc, kept).e.negate = FALSE
<1>1. Len(tokens) \in Nat /\ DOMAIN tokens = 1 .. Len(tokens)
  BY TokensLen
<1>0. PICK after : Follows(after, tokens, look, pc, kept)
  BY <1>1, Course
<1>2. /\ after[0] = Start(kept)
      /\ \A k \in 1 .. Len(tokens) : after[k] = Consume(after[k - 1], tokens[k], look, pc)
      /\ Evaluated(tokens, look, pc, kept) = after[Len(tokens)]
  BY <1>0 DEF Follows
<1> DEFINE Right(k) == /\ Typed(after[k], tokens, k)
                       /\ after[k].e.negate => k # 0 /\ tokens[k].t = "neg"
           T == {k \in 0 .. Len(tokens) : ~Right(k)}
<1>3. T = {}
  <2>1. SUFFICES ASSUME T # {} PROVE FALSE
    OBVIOUS
  <2>2. PICK k \in T : \A y \in T : k <= y
    <3>1. T \in SUBSET Nat
      BY <1>1
    <3> HIDE DEF T
    <3> QED BY <2>1, <3>1, NatMinimum
  <2>3. k # 0
    BY <1>2, StartTyped DEF Start
  <2>4. k \in 1 .. Len(tokens) /\ Right(k - 1)
    BY <1>1, <2>2, <2>3
  <2>5. after[k] = Consume(after[k - 1], tokens[k], look, pc)
    BY <1>2, <2>4
  <2>6. Typed(after[k], tokens, k)
    BY <2>4, <2>5, ConsumeTyped
  <2>7. after[k].e.negate => tokens[k].t = "neg"
    BY <2>4, <2>5, ConsumeSpends
  <2> QED BY <2>3, <2>6, <2>7
<1>4. Right(Len(tokens))
  BY <1>1, <1>3
<1>5. after[Len(tokens)].e.negate \in BOOLEAN
  BY <1>4 DEF Typed, Kept
<1>6. CASE tokens = <<>>
  BY <1>2, <1>6 DEF Start
<1>7. CASE tokens # <<>>
  BY <1>2, <1>4, <1>5, <1>7 DEF WellFormed
<1> QED BY <1>6, <1>7

\* Two tables that agree on the names in an expression, all of which they
\* know, give it the same values, whatever e.val was.
Agree(tokens, look, other) ==
    \A k \in References(tokens) :
        /\ Class[tokens[k].s] \in DOMAIN look /\ Class[tokens[k].s] \in DOMAIN other
        /\ look[Class[tokens[k].s]] = other[Class[tokens[k].s]]

Alike(m, n) == m.stack = n.stack /\ m.values = n.values /\ m.thrown = n.thrown
               /\ m.e.negate = n.e.negate

LEMMA ConsumeAlike ==
    ASSUME NEW tokens, WellFormed(tokens), NEW k \in 1 .. Len(tokens),
           NEW look, NEW other, Agree(tokens, look, other), NEW pc,
           NEW m, Typed(m, tokens, k - 1), NEW n, Typed(n, tokens, k - 1), Alike(m, n)
    PROVE  Alike(Consume(m, tokens[k], look, pc), Consume(n, tokens[k], other, pc))
<1>1. k \in DOMAIN tokens /\ tokens[k].t \in {"num", "neg", "op", "end", "sym"}
  BY TokensLen DEF WellFormed, TokenOK
<1>2. /\ m \in [stack : Seq(Int), e : Kept, values : Seq(Int), thrown : BOOLEAN]
      /\ n \in [stack : Seq(Int), e : Kept, values : Seq(Int), thrown : BOOLEAN]
  BY DEF Typed
<1> DEFINE token == tokens[k]
           m1 == Consume(m, token, look, pc)
           n1 == Consume(n, token, other, pc)
<1>3. CASE token.t \in {"num", "sym"}
  <2>1. PICK v : m1 = fpushnum([m EXCEPT !.e.val = v]) /\ n1 = fpushnum([n EXCEPT !.e.val = v])
    <3>1. CASE token.t = "num"
      BY <3>1 DEF Consume, fsetnum
    <3>2. CASE token.t = "sym" /\ token.s = "$"
      BY <3>2 DEF Consume, fsetnum, fsym
    <3>3. CASE token.t = "sym" /\ token.s # "$"
      <4>1. k \in References(tokens)
        BY <1>1, <3>3 DEF References
      <4>2. /\ m1 = fpushnum(fsetnum(m, look[Class[token.s]]))
            /\ n1 = fpushnum(fsetnum(n, look[Class[token.s]]))
        BY <3>3, <4>1 DEF Consume, fsym, Agree
      <4> QED BY <4>2 DEF fsetnum
    <3> QED BY <1>3, <3>1, <3>2, <3>3
  <2> DEFINE w == IF m.e.negate THEN -v ELSE v
  <2>2. /\ m1 = [m EXCEPT !.stack = Append(@, w), !.e = [negate |-> FALSE, val |-> Placeholder]]
    BY <1>2, <2>1 DEF fpushnum, Kept
  <2>3. /\ n1 = [n EXCEPT !.stack = Append(@, w), !.e = [negate |-> FALSE, val |-> Placeholder]]
    BY <1>2, <2>1 DEF fpushnum, Kept, Alike
  <2> HIDE DEF w, m1, n1
  <2> QED BY <1>2, <2>2, <2>3 DEF Alike, m1, n1
<1>4. CASE token.t = "neg"
  BY <1>2, <1>4 DEF Consume, fnegate, Alike, Kept
<1>5. CASE token.t = "op"
  BY <1>2, <1>5 DEF Consume, fop, Alike
<1>6. CASE token.t = "end"
  BY <1>2, <1>6 DEF Consume, fexpression, Alike
<1> QED BY <1>1, <1>3, <1>4, <1>5, <1>6

LEMMA EvaluatedAlike ==
    ASSUME NEW tokens, WellFormed(tokens), NEW look, KnownInts(look), NEW other, KnownInts(other),
           Agree(tokens, look, other), NEW pc \in Int,
           NEW kept \in Kept, NEW f \in Kept, kept.negate = f.negate
    PROVE  Alike(Evaluated(tokens, look, pc, kept), Evaluated(tokens, other, pc, f))
<1>1. Len(tokens) \in Nat
  BY TokensLen
<1>0. PICK after : Follows(after, tokens, look, pc, kept)
  BY <1>1, Course
<1>2. /\ after[0] = Start(kept)
      /\ \A k \in 1 .. Len(tokens) : after[k] = Consume(after[k - 1], tokens[k], look, pc)
      /\ Evaluated(tokens, look, pc, kept) = after[Len(tokens)]
  BY <1>0 DEF Follows
<1>7. PICK then : Follows(then, tokens, other, pc, f)
  BY <1>1, Course
<1>3. /\ then[0] = Start(f)
      /\ \A k \in 1 .. Len(tokens) : then[k] = Consume(then[k - 1], tokens[k], other, pc)
      /\ Evaluated(tokens, other, pc, f) = then[Len(tokens)]
  BY <1>7 DEF Follows
<1> DEFINE Right(k) == /\ Typed(after[k], tokens, k) /\ Typed(then[k], tokens, k)
                       /\ Alike(after[k], then[k])
           T == {k \in 0 .. Len(tokens) : ~Right(k)}
<1>4. T = {}
  <2>1. SUFFICES ASSUME T # {} PROVE FALSE
    OBVIOUS
  <2>2. PICK k \in T : \A y \in T : k <= y
    <3>1. T \in SUBSET Nat
      BY <1>1
    <3> HIDE DEF T
    <3> QED BY <2>1, <3>1, NatMinimum
  <2>3. k # 0
    <3>1. Alike(Start(kept), Start(f))
      BY DEF Start, Alike
    <3> QED BY <1>2, <1>3, <3>1, StartTyped
  <2>4. k \in 1 .. Len(tokens) /\ Right(k - 1)
    BY <1>1, <2>2, <2>3
  <2>5. Typed(after[k], tokens, k) /\ Typed(then[k], tokens, k)
    BY <1>2, <1>3, <2>4, ConsumeTyped
  <2>6. Alike(after[k], then[k])
    BY <1>2, <1>3, <2>4, ConsumeAlike
  <2> QED BY <2>5, <2>6
<1>5. Right(Len(tokens))
  BY <1>1, <1>4
<1> QED BY <1>2, <1>3, <1>5

-----------------------------------------------------------------------------
(* Names over the passes *)

\* The references up to line n that no line binds, and all references there.
UnresolvableTo(n) == {r \in (1 .. n) \X Nat : r[2] \in Unresolvable(r[1])}
Lost == UnresolvableTo(Len(source))

SourceOK == source \in Sources /\ before \in BOOLEAN /\ at \in 1 .. Len(source) + 1

\* The lines whose names are bound: those read, from the second pass on all.
ReadTo == IF passes = 1 THEN at - 1 ELSE Len(source)

BindsKept ==
    /\ BoundIn(symbols) \subseteq Known
    /\ Class["PI"] \in BoundIn(symbols)
    /\ \A i \in 1 .. ReadTo : Binds(i) \subseteq BoundIn(symbols)

RecordsRight ==
    /\ UnresolvableTo(at - 1) \subseteq undefined
    /\ passes # 1 => undefined = UnresolvableTo(at - 1)
    /\ IsFiniteSet(undefined)

CountRight ==
    /\ passes \in 1 .. 3
    /\ passes = 1 => ucount = -1
    /\ passes = 3 => ucount = Cardinality(Lost)

PassInv == SourceOK /\ BindsKept /\ RecordsRight /\ CountRight /\ VerdictRight

-----------------------------------------------------------------------------
(* The table of symbols *)

LEMMA StoredBinds ==
    ASSUME NEW table, NEW n, NEW v
    PROVE  BoundIn(Stored(table, n, v)) = BoundIn(table) \cup {Class[n]}
BY DEF BoundIn, Stored

LEMMA TableBinds ==
    ASSUME NEW i, NEW table, NEW o
    PROVE  /\ Labelled(i) => BoundIn(Table(i, table, o)) = BoundIn(table) \cup {Class[source[i].label]}
           /\ ~Labelled(i) => BoundIn(Table(i, table, o)) = BoundIn(table)
BY StoredBinds DEF Table

LEMMA BindsAre ==
    ASSUME NEW i
    PROVE  /\ Labelled(i) => Class[source[i].label] \in Binds(i)
           /\ source[i].kind = "def" => Class[source[i].name] \in Binds(i)
           /\ \A c \in Binds(i) :
                 \/ Labelled(i) /\ c = Class[source[i].label]
                 \/ source[i].kind = "def" /\ c = Class[source[i].name]
BY DEF Binds

LEMMA BindsKnown ==
    ASSUME NEW i \in DOMAIN source
    PROVE  Binds(i) \subseteq Known
BY DEF Known

\* Every name known is bound once all lines are read.
LEMMA AllBound ==
    ASSUME SourceOK, BindsKept, ReadTo = Len(source)
    PROVE  BoundIn(symbols) = Known
<1>1. DOMAIN source = 1 .. Len(source)
  BY ParserAssumption DEF SourcesOK, SourceOK
<1>2. ASSUME NEW c \in Known PROVE c \in BoundIn(symbols)
  BY <1>1, <1>2 DEF Known, BindsKept
<1> QED BY <1>2 DEF BindsKept

-----------------------------------------------------------------------------
(* Lines and references *)

LEMMA SourceSeq ==
    ASSUME SourceOK
    PROVE  /\ Len(source) \in Nat /\ DOMAIN source = 1 .. Len(source)
           /\ \A i \in DOMAIN source : LineOK(source[i])
<1> DEFINE S == {source[i] : i \in DOMAIN source}
<1>1. source \in Seq(S) /\ \A i \in DOMAIN source : LineOK(source[i])
  BY ParserAssumption DEF SourcesOK, SourceOK
<1> HIDE DEF S
<1>2. Len(source) \in Nat /\ DOMAIN source = 1 .. Len(source)
  BY <1>1
<1> QED BY <1>1, <1>2

LEMMA ReferencesAreNat ==
    ASSUME SourceOK, NEW i \in DOMAIN source
    PROVE  /\ References(source[i].tokens) \subseteq Nat
           /\ IsFiniteSet(References(source[i].tokens))
<1> DEFINE t == source[i].tokens
<1>1. t \in Seq({t[k] : k \in DOMAIN t})
  BY SourceSeq DEF LineOK, WellFormed
<1> HIDE DEF t
<1>2. DOMAIN t = 1 .. Len(t) /\ Len(t) \in Nat
  BY <1>1
<1>3. IsFiniteSet(1 .. Len(t))
  BY <1>2, FS_Interval
<1>4. References(t) \subseteq 1 .. Len(t)
  BY <1>2 DEF References
<1>5. IsFiniteSet(References(t))
  BY <1>3, <1>4, FS_Subset
<1>6. References(t) \subseteq Nat
  BY <1>2, <1>4
<1> QED BY <1>5, <1>6 DEF t

\* A pass that misses all names but the known ones records those lost.
LEMMA UnresolvableNext ==
    ASSUME SourceOK, at \in DOMAIN source
    PROVE  UnresolvableTo(at) =
              UnresolvableTo(at - 1) \cup {<<at, k>> : k \in Unresolvable(at)}
<1>1. at \in Nat /\ at >= 1
  BY DEF SourceOK
<1>2. Unresolvable(at) \subseteq Nat
  BY ReferencesAreNat DEF Unresolvable, Missing
<1>3. UnresolvableTo(at) \subseteq
        UnresolvableTo(at - 1) \cup {<<at, k>> : k \in Unresolvable(at)}
  BY <1>1 DEF UnresolvableTo
<1>4. UnresolvableTo(at - 1) \subseteq UnresolvableTo(at)
  BY <1>1 DEF UnresolvableTo
<1>5. {<<at, k>> : k \in Unresolvable(at)} \subseteq UnresolvableTo(at)
  BY <1>1, <1>2 DEF UnresolvableTo
<1> QED BY <1>3, <1>4, <1>5

LEMMA LostResolves ==
    ASSUME SourceOK
    PROVE  Lost = {} <=> \A i \in DOMAIN source : Unresolvable(i) = {}
<1>1. \A i \in DOMAIN source : Unresolvable(i) \subseteq Nat
  BY ReferencesAreNat DEF Unresolvable, Missing
<1>2. ASSUME Lost = {}, NEW i \in DOMAIN source PROVE Unresolvable(i) = {}
  <2>1. SUFFICES ASSUME NEW k \in Unresolvable(i) PROVE FALSE
    OBVIOUS
  <2>2. <<i, k>> \in Lost
    BY <1>1, SourceSeq DEF Lost, UnresolvableTo
  <2> QED BY <1>2, <2>2
<1>3. ASSUME \A i \in DOMAIN source : Unresolvable(i) = {} PROVE Lost = {}
  BY <1>3, SourceSeq DEF Lost, UnresolvableTo
<1> QED BY <1>2, <1>3

\* What lines bind and miss is a matter of the source.
LEMMA SameSource ==
    ASSUME source' = source, before' = before
    PROVE  /\ \A i : Binds(i)' = Binds(i)
           /\ Known' = Known
           /\ \A i : Unresolvable(i)' = Unresolvable(i)
           /\ Lost' = Lost
<1>1. ASSUME NEW i PROVE Labelled(i)' <=> Labelled(i)
  BY DEF Labelled
<1>2. ASSUME NEW i PROVE Binds(i)' = Binds(i)
  BY <1>1 DEF Binds
<1>3. Known' = Known
  BY <1>2 DEF Known
<1>4. ASSUME NEW i PROVE Unresolvable(i)' = Unresolvable(i)
  BY <1>3 DEF Unresolvable
<1>5. Lost' = Lost
  BY <1>4 DEF Lost, UnresolvableTo
<1> QED BY <1>2, <1>3, <1>4, <1>5

-----------------------------------------------------------------------------
(* The steps *)

\* A line that was read and bound its names keeps the invariant.
LEMMA LineStep ==
    ASSUME PassInv, Reading, Done,
           BoundIn(symbols') = BoundIn(symbols) \cup Binds(at)
    PROVE  PassInv'
<1> DEFINE B == BoundIn(Table(at, symbols, org))
           New == {<<at, k>> : k \in Missing(line.tokens, B)}
<1>1. SourceOK /\ at \in DOMAIN source /\ at \in Nat /\ at >= 1
  BY SourceSeq DEF PassInv, SourceOK, Reading
<1>2. at' = at + 1 /\ source' = source /\ before' = before /\ ucount' = ucount
      /\ verdict' = "parsing" /\ passes' = passes /\ undefined' = undefined \cup New
  BY DEF Done, Reading
<1>3. SourceOK'
  BY <1>1, <1>2, SourceSeq DEF SourceOK
<1>4. /\ \A i : Binds(i)' = Binds(i)
      /\ Known' = Known
      /\ \A i : Unresolvable(i)' = Unresolvable(i)
      /\ Lost' = Lost
  BY <1>2, SameSource
<1>8. BindsKept'
  <2>1. BoundIn(symbols)' \subseteq Known
    BY <1>1, BindsKnown DEF PassInv, BindsKept
  <2>2. Class["PI"] \in BoundIn(symbols)'
    BY DEF PassInv, BindsKept
  <2>3. ASSUME NEW i \in 1 .. ReadTo' PROVE Binds(i)' \subseteq BoundIn(symbols)'
    <3>1. i \in 1 .. ReadTo \/ i = at
      BY <1>1, <1>2, SourceSeq DEF ReadTo
    <3> QED BY <1>4, <3>1 DEF PassInv, BindsKept
  <2> QED BY <1>4, <2>1, <2>2, <2>3 DEF BindsKept
<1>9. RecordsRight'
  <2>1. BoundIn(symbols) \subseteq B /\ B \subseteq BoundIn(symbols) \cup Binds(at)
    BY TableBinds, BindsAre
  <2>2. B \subseteq Known
    BY <2>1, <1>1, BindsKnown DEF PassInv, BindsKept
  <2>3. {<<at, k>> : k \in Unresolvable(at)} \subseteq New
    BY <2>2 DEF Unresolvable, Missing, line
  <2>4. ASSUME passes # 1 PROVE New = {<<at, k>> : k \in Unresolvable(at)}
    <3>1. BoundIn(symbols) = Known
      BY <1>1, <2>4, AllBound DEF PassInv, ReadTo
    <3>2. B = Known
      BY <2>1, <2>2, <3>1
    <3> QED BY <3>2 DEF Unresolvable, line
  <2>5. UnresolvableTo(at - 1)' = UnresolvableTo(at)
    <3>1. at' - 1 = at
      BY <1>1, <1>2
    <3> QED BY <1>4, <3>1 DEF UnresolvableTo
  <2>6. UnresolvableTo(at) = UnresolvableTo(at - 1) \cup {<<at, k>> : k \in Unresolvable(at)}
    BY <1>1, UnresolvableNext
  <2>7. IsFiniteSet(New)
    <3>1. IsFiniteSet(References(line.tokens))
      BY <1>1, ReferencesAreNat DEF line
    <3>2. IsFiniteSet({at} \X References(line.tokens))
      BY <3>1, FS_Singleton, FS_Product
    <3>3. New \subseteq {at} \X References(line.tokens)
      BY DEF Missing
    <3> QED BY <3>2, <3>3, FS_Subset
  <2>8. IsFiniteSet(undefined')
    BY <1>2, <2>7, FS_Union DEF PassInv, RecordsRight
  <2>9. UnresolvableTo(at - 1)' \subseteq undefined'
    BY <1>2, <2>3, <2>5, <2>6 DEF PassInv, RecordsRight
  <2>10. ASSUME passes' # 1 PROVE undefined' = UnresolvableTo(at - 1)'
    BY <1>2, <2>4, <2>5, <2>6, <2>10 DEF PassInv, RecordsRight
  <2> QED BY <2>8, <2>9, <2>10 DEF RecordsRight
<1>10. CountRight'
  BY <1>2, <1>4 DEF PassInv, CountRight
<1>11. VerdictRight'
  BY <1>2 DEF VerdictRight
<1> QED BY <1>3, <1>8, <1>9, <1>10, <1>11 DEF PassInv

\* A verdict that claims nothing about names leaves the rest as it is.
LEMMA EndStep ==
    ASSUME PassInv, NEW how, Ends(how),
           how = "accepted" => \A i \in DOMAIN source : Unresolvable(i) = {},
           how = "unresolved" => \E i \in DOMAIN source : Unresolvable(i) # {}
    PROVE  PassInv'
<1>1. /\ at' = at /\ source' = source /\ before' = before /\ ucount' = ucount
      /\ verdict' = how /\ passes' = passes /\ undefined' = undefined /\ symbols' = symbols
  BY DEF Ends
<1>2. /\ \A i : Binds(i)' = Binds(i)
      /\ Known' = Known
      /\ \A i : Unresolvable(i)' = Unresolvable(i)
      /\ Lost' = Lost
  BY <1>1, SameSource
<1>3. UnresolvableTo(at - 1)' = UnresolvableTo(at - 1)
  BY <1>1, <1>2 DEF UnresolvableTo
<1>5. SourceOK' /\ BindsKept'
  BY <1>1, <1>2 DEF PassInv, SourceOK, BindsKept, ReadTo
<1>6. RecordsRight'
  BY <1>1, <1>3 DEF PassInv, RecordsRight
<1>7. CountRight'
  BY <1>1, <1>2 DEF PassInv, CountRight
<1>8. VerdictRight'
  BY <1>1, <1>2 DEF VerdictRight
<1> QED BY <1>5, <1>6, <1>7, <1>8 DEF PassInv

\* What holds of a pass that has read all lines.
LEMMA AtTheEnd ==
    ASSUME PassInv, PassEnds
    PROVE  /\ at - 1 = Len(source)
           /\ Lost \subseteq undefined
           /\ passes # 1 => undefined = Lost
           /\ Cardinality(undefined) \in Nat
<1>1. SourceOK /\ Len(source) \in Nat
  BY SourceSeq DEF PassInv
<1>2. at - 1 = Len(source)
  BY <1>1 DEF PassEnds, SourceOK
<1>3. Cardinality(undefined) \in Nat
  BY FS_CardinalityType DEF PassInv, RecordsRight
<1> QED BY <1>2, <1>3 DEF PassInv, RecordsRight, Lost

LEMMA NextPassStep ==
    ASSUME PassInv, NextPass
    PROVE  PassInv'
<1>1. /\ at' = 1 /\ source' = source /\ before' = before /\ verdict' = "parsing"
      /\ ucount' = Cardinality(undefined) /\ undefined' = {} /\ symbols' = symbols
      /\ PassEnds /\ ~NoProgress
  BY DEF NextPass, PassEnds
<1>2. SourceOK /\ Len(source) \in Nat
  BY SourceSeq DEF PassInv
<1>3. /\ at - 1 = Len(source)
      /\ passes # 1 => undefined = Lost
      /\ Cardinality(undefined) \in Nat
  BY <1>1, AtTheEnd
<1>4. passes \in {1, 2} /\ passes' = passes + 1
  <2>1. ASSUME passes = 3 PROVE NoProgress
    BY <1>3, <2>1 DEF PassInv, CountRight, NoProgress
  <2>2. passes \in {1, 2}
    BY <1>1, <2>1 DEF PassInv, CountRight
  <2> QED BY <2>2 DEF NextPass
<1>5. /\ \A i : Binds(i)' = Binds(i)
      /\ Known' = Known
      /\ Lost' = Lost
  BY <1>1, SameSource
<1>8. SourceOK'
  BY <1>1, <1>2 DEF SourceOK
<1>9. BindsKept'
  <2>1. ReadTo = Len(source)
    BY <1>3 DEF ReadTo
  <2>2. ReadTo' = Len(source)
    BY <1>1, <1>4 DEF ReadTo
  <2> QED BY <1>1, <1>5, <2>1, <2>2 DEF PassInv, BindsKept
<1>10. RecordsRight'
  <2>1. UnresolvableTo(at - 1)' = {}
    <3>1. at' - 1 = 0
      BY <1>1
    <3>2. 1 .. (at' - 1) = {}
      BY <3>1
    <3> QED BY <3>2 DEF UnresolvableTo
  <2> QED BY <1>1, <2>1, FS_EmptySet DEF RecordsRight
<1>11. CountRight'
  <2>1. passes' # 1 /\ passes' \in 1 .. 3
    BY <1>4
  <2>2. passes' = 3 => passes # 1
    BY <1>4
  <2> QED BY <1>1, <1>3, <1>5, <2>1, <2>2 DEF CountRight
<1>12. VerdictRight'
  BY <1>1 DEF VerdictRight
<1> QED BY <1>8, <1>9, <1>10, <1>11, <1>12 DEF PassInv

LEMMA AcceptStep ==
    ASSUME PassInv, Accept
    PROVE  PassInv'
<1>1. Lost = {}
  BY AtTheEnd DEF Accept
<1> QED BY <1>1, LostResolves, EndStep DEF Accept, PassInv

LEMMA GiveUpStep ==
    ASSUME PassInv, GiveUp
    PROVE  PassInv'
<1>1. passes # 1
  BY DEF GiveUp, NoProgress, PassInv, CountRight
<1>2. Lost # {}
  BY <1>1, AtTheEnd DEF GiveUp
<1> QED BY <1>2, LostResolves, EndStep DEF GiveUp, PassInv

LEMMA InitPass == Init => PassInv
<1> SUFFICES ASSUME Init PROVE PassInv
  OBVIOUS
<1>1. SourceOK
  <2>1. source \in Sources /\ before \in BOOLEAN /\ at = 1
    BY DEF Init
  <2>2. source \in Seq({source[i] : i \in DOMAIN source})
    BY <2>1, ParserAssumption DEF SourcesOK
  <2>3. Len(source) \in Nat
    <3> DEFINE S == {source[i] : i \in DOMAIN source}
    <3>1. source \in Seq(S)
      BY <2>2
    <3> HIDE DEF S
    <3> QED BY <3>1
  <2> QED BY <2>1, <2>3 DEF SourceOK
<1>2. BindsKept
  <2>1. BoundIn(symbols) = {Class["PI"]}
    BY DEF Init, BoundIn, Predefined
  <2>2. ReadTo = 0
    BY DEF Init, ReadTo
  <2> QED BY <2>1, <2>2 DEF BindsKept, Known
<1>3. RecordsRight
  BY FS_EmptySet DEF Init, RecordsRight, UnresolvableTo
<1>4. CountRight /\ VerdictRight
  BY DEF Init, CountRight, VerdictRight
<1> QED BY <1>1, <1>2, <1>3, <1>4 DEF PassInv

\* What each kind of line binds.
LEMMA ReadStep ==
    ASSUME PassInv, EmptyLine \/ StringLine \/ AsmLine \/ DataLine \/ DefLine \/ OrgLine \/ MetaLine
    PROVE  PassInv'
<1>1. Reading /\ Done
  BY DEF EmptyLine, StringLine, AsmLine, DataLine, DefLine, OrgLine, MetaLine, Reads
<1>2. at \in DOMAIN source /\ LineOK(line)
  BY <1>1, SourceSeq DEF PassInv, SourceOK, Reading, line
<1>3. BoundIn(symbols') = BoundIn(symbols) \cup Binds(at)
  <2>1. CASE EmptyLine \/ StringLine \/ AsmLine \/ DataLine
    <3>1. symbols' = Table(at, symbols, org) /\ source[at].kind # "def"
      BY <2>1 DEF EmptyLine, StringLine, AsmLine, DataLine, Reads, line
    <3> QED BY <3>1, TableBinds, BindsAre
  <2>2. CASE DefLine
    <3>1. PICK v : symbols' = Stored(Table(at, symbols, org), source[at].name, v)
      BY <2>2 DEF DefLine, line
    <3>2. source[at].kind = "def"
      BY <2>2 DEF DefLine, Reads, line
    <3> QED BY <3>1, <3>2, StoredBinds, TableBinds, BindsAre
  <2>3. CASE OrgLine \/ MetaLine
    <3>1. symbols' = symbols /\ source[at].kind \in {"org", "meta"}
      BY <2>3 DEF OrgLine, MetaLine, Reads, line
    <3>2. ~Labelled(at)
      BY <1>2, <3>1 DEF LineOK, line, Labelled
    <3> QED BY <3>1, <3>2, BindsAre
  <2> QED BY <2>1, <2>2, <2>3
<1> QED BY <1>1, <1>3, LineStep

LEMMA NextKeepsPass == PassInv /\ [Next]_vars => PassInv'
<1> SUFFICES ASSUME PassInv, [Next]_vars PROVE PassInv'
  OBVIOUS
<1>1. CASE EmptyLine \/ StringLine \/ AsmLine \/ DataLine \/ DefLine \/ OrgLine \/ MetaLine
  BY <1>1, ReadStep
<1>2. CASE BadAsmLine \/ ThrowingLine \/ Overrun \/ SyntaxError
  <2>1. PICK how \in {"error", "thrown", "overrun"} : Ends(how)
    BY <1>2 DEF BadAsmLine, ThrowingLine, Overrun, SyntaxError
  <2> QED BY <2>1, EndStep
<1>3. CASE Accept
  BY <1>3, AcceptStep
<1>4. CASE GiveUp
  BY <1>4, GiveUpStep
<1>5. CASE NextPass
  BY <1>5, NextPassStep
<1>6. CASE Returned \/ UNCHANGED vars
  <2>1. UNCHANGED vars
    BY <1>6 DEF Returned
  <2>2. Ends(verdict)
    BY <2>1 DEF Ends, vars
  <2> QED BY <2>2, EndStep DEF PassInv, VerdictRight
<1> QED BY <1>1, <1>2, <1>3, <1>4, <1>5, <1>6 DEF Next, Parse, ReadLine

\* In every reachable state the bookkeeping of the passes is right: nothing is
\* forgotten, and what is recorded is what no line binds (parser.cpp:381-417).
THEOREM PassesRight == Spec => []PassInv
<1> QED BY InitPass, NextKeepsPass, PTL DEF Spec

\* parse() never reads a source more than three times, whatever its lines are
\* and however long it is, although it stops only when a pass leaves as many
\* names unknown as the one before (parser.cpp:406).
THEOREM ThreePasses == Spec => []PassesBounded
<1>1. PassInv => PassesBounded
  BY DEF PassInv, CountRight, PassesBounded
<1> QED BY <1>1, PassesRight, PTL

\* A source is accepted only if every name in it is bound by some line, and
\* given up only if some name is not (parser.cpp:403-415).
THEOREM VerdictIsRight == Spec => []VerdictRight
<1>1. PassInv => VerdictRight
  BY DEF PassInv
<1> QED BY <1>1, PassesRight, PTL

-----------------------------------------------------------------------------
(* Types *)

\* A table of symbols: a number for each of its names.
IsTable(table) == table \in [DOMAIN table -> Int]

\* What an expression leaves for the next one: no minus sign.
Tables ==
    /\ IsTable(symbols) /\ IsTable(settled)
    /\ e \in Kept /\ e.negate = FALSE

TypeInv == PassInv /\ TypeOK /\ Tables

\* What a line of a source is, as far as the proofs look at it.
LEMMA LineFacts ==
    ASSUME SourceOK, NEW i \in DOMAIN source
    PROVE  /\ WellFormed(source[i].tokens)
           /\ Labelled(i) => source[i].label \in Names
           /\ source[i].kind = "def" =>
                 source[i].name \in Names /\ (Labelled(i) => source[i].label = source[i].name)
           /\ source[i].kind \in {"org", "meta"} => ~Labelled(i)
           /\ source[i].kind \in {"empty", "string", "meta"} => source[i].tokens = <<>>
<1>1. LineOK(source[i])
  BY SourceSeq
<1> QED BY <1>1, Zenon DEF LineOK, Labelled

\* How many values the expressions of a line have.
LEMMA LineCounts ==
    ASSUME SourceOK, NEW i \in DOMAIN source
    PROVE  LET t == source[i].tokens
               n == Counted(t, {"end"}, Len(t))
           IN  /\ source[i].kind \in {"def", "org"} => n = 1
               /\ source[i].kind = "asm" => source[i].arg = NoArg \/ n = 1
<1> DEFINE l == source[i]
           t == l.tokens
           n == Cardinality({k \in DOMAIN t : t[k].t = "end"})
<1>1. LineOK(l)
  BY SourceSeq
<1>2. DOMAIN t = 1 .. Len(t)
  BY LineFacts, TokensLen
<1>3. Counted(t, {"end"}, Len(t)) = n
  <2>1. {k \in 1 .. Len(t) : t[k].t \in {"end"}} = {k \in DOMAIN t : t[k].t = "end"}
    BY <1>2
  <2> QED BY <2>1 DEF Counted
<1>4. /\ l.kind \in {"def", "org"} => n = 1
      /\ l.kind = "asm" => NotationOK(l.arg, n)
  BY <1>1, Zenon DEF LineOK
<1>5. NotationOK(l.arg, n) => l.arg = NoArg \/ n = 1
  BY Zenon DEF NotationOK
<1> QED BY <1>3, <1>4, <1>5

\* A name that is looked up has the value one of its forms is bound to.
LEMMA LookedUp ==
    ASSUME NEW table, NEW look \in Lookups(table)
    PROVE  /\ DOMAIN look = BoundIn(table)
           /\ \A c \in BoundIn(table) : \E n \in DOMAIN table : Class[n] = c /\ look[c] = table[n]
<1> DEFINE Takes(first, c, n) == Class[n] = c /\ (n \in first \/ \A m \in first : Class[m] # c)
<1>1. PICK first \in SUBSET Ambiguous(table) :
         look = [c \in BoundIn(table) |-> table[CHOOSE n \in DOMAIN table : Takes(first, c, n)]]
  BY DEF Lookups
<1>2. ASSUME NEW c \in BoundIn(table)
      PROVE  \E n \in DOMAIN table : Class[n] = c /\ look[c] = table[n]
  <2>1. \E n \in DOMAIN table : Takes(first, c, n)
    <3>1. CASE \E m \in first : Class[m] = c
      BY <3>1 DEF Ambiguous
    <3>2. CASE \A m \in first : Class[m] # c
      BY <3>2 DEF BoundIn
    <3> QED BY <3>1, <3>2
  <2> DEFINE n == CHOOSE n \in DOMAIN table : Takes(first, c, n)
  <2>2. n \in DOMAIN table /\ Takes(first, c, n)
    BY <2>1
  <2>3. look[c] = table[n]
    BY <1>1
  <2> QED BY <2>2, <2>3
<1>3. DOMAIN look = BoundIn(table)
  BY <1>1
<1> QED BY <1>2, <1>3

LEMMA LookupsExist == ASSUME NEW table PROVE \E look : look \in Lookups(table)
<1> DEFINE Look(first) ==
             [c \in BoundIn(table) |->
                table[CHOOSE n \in DOMAIN table :
                         Class[n] = c /\ (n \in first \/ \A m \in first : Class[m] # c)]]
<1>1. Lookups(table) = {Look(first) : first \in SUBSET Ambiguous(table)}
  BY DEF Lookups
<1> HIDE DEF Look
<1>2. Look({}) \in Lookups(table)
  BY <1>1
<1> QED BY <1>2

LEMMA LookupsKnown ==
    ASSUME NEW table, IsTable(table), NEW look \in Lookups(table)
    PROVE  KnownInts(look)
<1>1. ASSUME NEW c \in DOMAIN look PROVE look[c] \in Int
  <2>1. PICK n \in DOMAIN table : look[c] = table[n]
    BY LookedUp
  <2> QED BY <2>1 DEF IsTable
<1> QED BY <1>1 DEF KnownInts

LEMMA StoredTyped ==
    ASSUME NEW table, IsTable(table), NEW n, NEW v \in Int
    PROVE  /\ IsTable(Stored(table, n, v))
           /\ DOMAIN Stored(table, n, v) = DOMAIN table \cup {n}
BY DEF IsTable, Stored

LEMMA TableTyped ==
    ASSUME NEW table, IsTable(table), NEW i, NEW o \in Int
    PROVE  /\ IsTable(Table(i, table, o))
           /\ DOMAIN Table(i, table, o) =
                 IF Labelled(i) THEN DOMAIN table \cup {source[i].label} ELSE DOMAIN table
<1>1. CASE Labelled(i)
  <2> DEFINE n == source[i].label
             s == Stored(table, n, o)
  <2>1. Table(i, table, o) = s
    BY <1>1 DEF Table
  <2>2. IsTable(s) /\ DOMAIN s = DOMAIN table \cup {n}
    BY StoredTyped
  <2> HIDE DEF s, n
  <2> QED BY <1>1, <2>1, <2>2 DEF n
<1>2. CASE ~Labelled(i)
  BY <1>2 DEF Table
<1> QED BY <1>1, <1>2


\* A line of the source as the pass reads it.
LEMMA AtLine ==
    ASSUME SourceOK, Reading
    PROVE  at \in DOMAIN source /\ at \in Nat /\ line = source[at]
BY SourceSeq DEF SourceOK, Reading, line

LEMMA EvaluationsTyped ==
    ASSUME SourceOK, Reading, Tables, org \in Int, NEW x \in Evaluations
    PROVE  /\ x.values \in Seq(Int) /\ x.e \in Kept /\ x.e.negate = FALSE
           /\ Len(x.values) \in Nat
           /\ line.kind \in {"def", "org"} => x.values[1] \in Int
           /\ line.kind = "asm" => line.arg = NoArg \/ x.values[1] \in Int
<1> DEFINE t == line.tokens
           T == Table(at, symbols, org)
<1>1. at \in DOMAIN source /\ line = source[at] /\ WellFormed(t)
  BY AtLine, LineFacts
<1>2. PICK look \in Lookups(T) : x = Evaluated(t, look, org, e)
  BY DEF Evaluations
<1>3. IsTable(T)
  BY TableTyped DEF Tables
<1>4. KnownInts(look)
  BY <1>3, LookupsKnown
<1> HIDE DEF T, t
<1>5. e \in Kept /\ e.negate = FALSE
  BY DEF Tables
<1>6. Typed(x, t, Len(t)) /\ x.e.negate = FALSE
  BY <1>1, <1>2, <1>4, <1>5, EvaluatedTyped, NegateSpent
<1>7. /\ x \in [stack : Seq(Int), e : Kept, values : Seq(Int), thrown : BOOLEAN]
      /\ Len(x.values) = Counted(t, {"end"}, Len(t))
  BY <1>6 DEF Typed
<1> DEFINE n == Counted(t, {"end"}, Len(t))
<1>8. /\ line.kind \in {"def", "org"} => n = 1
      /\ line.kind = "asm" => line.arg = NoArg \/ n = 1
  BY <1>1, LineCounts DEF t
<1> HIDE DEF n
<1>9. x.values \in Seq(Int) /\ Len(x.values) = n /\ x.e \in Kept
  BY <1>7 DEF n
<1>10. n = 1 => x.values[1] \in Int
  BY <1>9
<1> QED BY <1>6, <1>8, <1>9, <1>10

\* The bytes of an instruction, whatever its operand.
LEMMA AssembledBytes ==
    ASSUME NEW l, NEW x, NEW o \in Int, l.arg = NoArg \/ x.values[1] \in Int
    PROVE  Assembled(l, x, o) \in Seq(Byte)
<1> DEFINE a == Operand(l, x.values)
<1>1. a = NoArg \/ a.val \in Int
  BY Zenon DEF Operand
<1>2. o % 65536 \in Int
  OBVIOUS
<1> HIDE DEF a
<1> QED BY <1>1, <1>2, BytesOfLine DEF Assembled, a

\* A block of bytes in memory.
LEMMA BlockTyped ==
    ASSUME NEW o \in Int, NEW data \in Seq(Byte)
    PROVE  RamOK(DataAt(o, data))
<1> DEFINE D == {(o + i) % 65536 : i \in 0 .. Len(data) - 1}
<1>1. ASSUME NEW a \in D PROVE a \in Adr /\ data[((a - o) % 65536) + 1] \in Byte
  <2>1. PICK i \in 0 .. Len(data) - 1 : a = (o + i) % 65536
    OBVIOUS
  <2>2. Len(data) \in Nat /\ i \in Nat /\ i < Len(data)
    OBVIOUS
  <2>3. (a - o) % 65536 = i % 65536 /\ a \in Adr
    <3>1. \A k \in Int, b \in Int : (((b + k) % 65536) - b) % 65536 = k % 65536
      OBVIOUS
    <3>3. i \in Int /\ o + i \in Int
      BY <2>2
    <3>4. (o + i) % 65536 \in Adr
      BY <3>3, ModAdr
    <3> QED BY <2>1, <3>1, <3>3, <3>4
  <2>4. i % 65536 \in 0 .. i
    BY <2>2
  <2>5. ((a - o) % 65536) + 1 \in 1 .. Len(data)
    BY <2>2, <2>3, <2>4
  <2> QED BY <2>3, <2>5
<1>2. /\ DOMAIN DataAt(o, data) = D
      /\ \A a \in D : DataAt(o, data)[a] = data[((a - o) % 65536) + 1]
  BY DEF DataAt
<1> HIDE DEF D
<1>3. D \subseteq Adr
  BY <1>1
<1> QED BY <1>1, <1>2, <1>3 DEF RamOK, Block

LEMMA OverlaidTyped ==
    ASSUME NEW data, RamOK(data), NEW block, RamOK(block)
    PROVE  RamOK(Overlaid(data, block))
BY DEF RamOK, Block, Overlaid


LEMMA GrownTyped ==
    ASSUME maxOrg \in Nat, NEW o \in Nat, Grown(o)
    PROVE  maxOrg' \in Nat
BY DEF Grown

\* What the lines do to the machine.
LEMMA EncodeTyped ==
    ASSUME RamOK(ram), maxOrg \in Nat, DOMAIN breaks \subseteq Adr, org \in Int,
           \/ \E data \in Seq(Byte) : encodeData(org, data) \/ encodeLine(org, data)
           \/ \E reqs : encodeMeta(org, reqs)
           \/ UNCHANGED encoded
    PROVE  RamOK(ram') /\ DOMAIN breaks' \subseteq Adr /\ maxOrg' \in Nat
<1>1. org % 65536 \in Int /\ org % 65536 \in Nat /\ org % 65536 \in Adr
  <2>1. org % 65536 \in Adr
    BY ModAdr
  <2>2. org % 65536 \in Nat
    OBVIOUS
  <2> QED BY <2>1, <2>2
<1> DEFINE o == org % 65536
<1> HIDE DEF o
<1>2. ASSUME NEW data \in Seq(Byte), ram' = Overlaid(ram, DataAt(o, data)),
             Grown(o + Len(data)), breaks' = breaks
      PROVE  RamOK(ram') /\ DOMAIN breaks' \subseteq Adr /\ maxOrg' \in Nat
  <2>1. RamOK(ram')
    BY <1>1, <1>2, BlockTyped, OverlaidTyped DEF o
  <2>2. o + Len(data) \in Nat
    BY <1>1 DEF o
  <2>3. maxOrg' \in Nat
    BY <1>2, <2>2, GrownTyped
  <2> QED BY <1>2, <2>1, <2>3
<1>3. CASE \E data \in Seq(Byte) : encodeData(org, data) \/ encodeLine(org, data)
  <2>1. PICK data \in Seq(Byte) : encodeData(org, data) \/ encodeLine(org, data)
    BY <1>3
  <2>2. ram' = Overlaid(ram, DataAt(o, data)) /\ Grown(o + Len(data)) /\ breaks' = breaks
    BY <2>1 DEF encodeData, encodeLine, o
  <2> QED BY <1>2, <2>2
<1>4. CASE \E reqs : encodeMeta(org, reqs)
  <2>1. PICK reqs : encodeMeta(org, reqs)
    BY <1>4
  <2>2. /\ ram' = ram /\ maxOrg' = maxOrg
        /\ DOMAIN breaks' = DOMAIN breaks \cup {o}
    BY <2>1 DEF encodeMeta, Stored, o
  <2> QED BY <1>1, <2>2 DEF o
<1>5. CASE UNCHANGED encoded
  BY <1>5 DEF encoded
<1> QED BY <1>3, <1>4, <1>5

LEMMA LineTyped ==
    ASSUME TypeInv, Reading, Done, PassInv', org' \in Int,
           IsTable(symbols'), DOMAIN symbols' \subseteq Names,
           e' \in Kept, e'.negate = FALSE,
           RamOK(ram') /\ DOMAIN breaks' \subseteq Adr /\ maxOrg' \in Nat
    PROVE  TypeInv'
<1>1. /\ at' = at + 1 /\ source' = source /\ ucount' = ucount /\ settled' = settled
      /\ verdict' = "parsing" /\ passes' = passes
      /\ undefined' = undefined \cup
            {<<at, k>> : k \in Missing(line.tokens, BoundIn(Table(at, symbols, org)))}
  BY DEF Done, Reading
<1>2. SourceOK'
  BY DEF PassInv
<1>3. at \in 1 .. Len(source)
  BY SourceSeq DEF TypeInv, PassInv, SourceOK, Reading
<1>4. \A r \in undefined' : r[1] \in 1 .. Len(source')
  BY <1>1, <1>3 DEF TypeInv, TypeOK
<1>5. ucount' \in Int /\ passes' \in 1 .. 4 /\ verdict' \in Verdicts \cup {"parsing"}
  BY <1>1 DEF TypeInv, TypeOK
<1>6. TypeOK'
  BY <1>2, <1>4, <1>5 DEF TypeOK, SourceOK
<1>7. Tables'
  BY <1>1 DEF TypeInv, Tables
<1> QED BY <1>6, <1>7 DEF TypeInv

LEMMA TableNames ==
    ASSUME SourceOK, NEW i \in DOMAIN source, NEW table, IsTable(table),
           DOMAIN table \subseteq Names, NEW o \in Int
    PROVE  IsTable(Table(i, table, o)) /\ DOMAIN Table(i, table, o) \subseteq Names
<1>1. Labelled(i) => source[i].label \in Names
  BY LineFacts
<1> DEFINE T == Table(i, table, o)
<1>2. IsTable(T) /\ DOMAIN T = IF Labelled(i) THEN DOMAIN table \cup {source[i].label} ELSE DOMAIN table
  BY TableTyped
<1> HIDE DEF T
<1>3. DOMAIN T \subseteq Names
  BY <1>1, <1>2
<1> QED BY <1>2, <1>3 DEF T

LEMMA ReadTyped ==
    ASSUME TypeInv, PassInv', EmptyLine \/ StringLine \/ AsmLine \/ DataLine \/ DefLine \/ OrgLine \/ MetaLine
    PROVE  TypeInv'
<1>1. Reading /\ Done
  BY DEF EmptyLine, StringLine, AsmLine, DataLine, DefLine, OrgLine, MetaLine, Reads
<1>2. SourceOK /\ at \in DOMAIN source /\ line = source[at] /\ Tables /\ org \in Int
  BY <1>1, AtLine DEF TypeInv, PassInv, TypeOK
<1>3. /\ IsTable(symbols) /\ DOMAIN symbols \subseteq Names
      /\ e \in Kept /\ e.negate = FALSE
      /\ RamOK(ram) /\ DOMAIN breaks \subseteq Adr /\ maxOrg \in Nat
  BY DEF TypeInv, TypeOK, Tables
<1>4. ASSUME NEW x \in Evaluations
      PROVE  /\ x.values \in Seq(Int) /\ x.e \in Kept /\ x.e.negate = FALSE
             /\ Len(x.values) \in Nat
             /\ line.kind \in {"def", "org"} => x.values[1] \in Int
             /\ line.kind = "asm" => line.arg = NoArg \/ x.values[1] \in Int
  BY <1>1, <1>2, EvaluationsTyped
<1> DEFINE T == Table(at, symbols, org)
<1>5. IsTable(T) /\ DOMAIN T \subseteq Names
  BY <1>2, <1>3, TableNames
<1> HIDE DEF T
<1>6. CASE EmptyLine
  <2>1. symbols' = T /\ org' = org /\ e' = e /\ UNCHANGED encoded
    BY <1>6 DEF EmptyLine, T
  <2> QED BY <1>1, <1>2, <1>3, <1>5, <2>1, EncodeTyped, LineTyped
<1>12. CASE StringLine
  <2>1. symbols' = T /\ org' = org /\ e' = e /\ encodeData(org, <<>>)
    BY <1>12 DEF StringLine, T
  <2>2. <<>> \in Seq(Byte)
    OBVIOUS
  <2> QED BY <1>1, <1>2, <1>3, <1>5, <2>1, <2>2, EncodeTyped, LineTyped
<1>7. CASE AsmLine
  <2>1. PICK x \in Evaluations :
           /\ encodeLine(org, Assembled(line, x, org))
           /\ org' = org + Len(Assembled(line, x, org)) /\ e' = x.e
    BY <1>7 DEF AsmLine
  <2>2. line.kind = "asm" /\ symbols' = T
    BY <1>7 DEF AsmLine, Reads, T
  <2>3. Assembled(line, x, org) \in Seq(Byte)
    BY <1>2, <1>4, <2>2, AssembledBytes
  <2>4. org' \in Int
    BY <1>2, <2>1, <2>3
  <2>5. RamOK(ram') /\ DOMAIN breaks' \subseteq Adr /\ maxOrg' \in Nat
    BY <1>2, <1>3, <2>1, <2>3, EncodeTyped
  <2> QED BY <1>1, <1>3, <1>4, <1>5, <2>1, <2>2, <2>4, <2>5, LineTyped
<1>8. CASE DataLine
  <2>1. PICK x \in Evaluations :
           /\ encodeData(org, [i \in DOMAIN x.values |-> lo(x.values[i])])
           /\ org' = org + Len(x.values) /\ e' = x.e
    BY <1>8 DEF DataLine
  <2>2. symbols' = T
    BY <1>8 DEF DataLine, T
  <2>3. [i \in DOMAIN x.values |-> lo(x.values[i])] \in Seq(Byte)
    <3>1. \A v \in Int : lo(v) \in Byte
      BY DEF lo, Byte
    <3>2. x.values \in Seq(Int)
      BY <1>4
    <3> HIDE DEF lo
    <3> QED BY <3>1, <3>2
  <2>4. org' \in Int
    BY <1>2, <1>4, <2>1
  <2>5. RamOK(ram') /\ DOMAIN breaks' \subseteq Adr /\ maxOrg' \in Nat
    BY <1>2, <1>3, <2>1, <2>3, EncodeTyped
  <2> QED BY <1>1, <1>3, <1>4, <1>5, <2>1, <2>2, <2>4, <2>5, LineTyped
<1>9. CASE DefLine
  <2>1. PICK x \in Evaluations : symbols' = Stored(T, line.name, x.values[1]) /\ e' = x.e
    BY <1>9 DEF DefLine, T
  <2>2. line.kind = "def" /\ org' = org /\ UNCHANGED encoded
    BY <1>9 DEF DefLine, Reads
  <2>3. line.name \in Names
    BY <1>2, <2>2, LineFacts
  <2>4. x.values[1] \in Int
    BY <1>4, <2>2
  <2>5. IsTable(symbols') /\ DOMAIN symbols' \subseteq Names
    <3> DEFINE n == line.name
               v == x.values[1]
               s == Stored(T, n, v)
    <3>1. v \in Int
      BY <2>4
    <3> HIDE DEF v, n
    <3>2. IsTable(s) /\ DOMAIN s = DOMAIN T \cup {n}
      BY <1>5, <3>1, StoredTyped
    <3> HIDE DEF s
    <3>3. symbols' = s /\ n \in Names
      BY <2>1, <2>3 DEF s, n, v
    <3> QED BY <1>5, <3>2, <3>3
  <2> QED BY <1>1, <1>2, <1>3, <1>4, <2>1, <2>2, <2>5, EncodeTyped, LineTyped
<1>10. CASE OrgLine
  <2>1. PICK x \in Evaluations : org' = x.values[1] /\ e' = x.e
    BY <1>10 DEF OrgLine
  <2>2. line.kind = "org" /\ symbols' = symbols /\ UNCHANGED encoded
    BY <1>10 DEF OrgLine, Reads
  <2>3. org' \in Int
    BY <1>4, <2>1, <2>2
  <2> QED BY <1>1, <1>2, <1>3, <1>4, <2>1, <2>2, <2>3, EncodeTyped, LineTyped
<1>11. CASE MetaLine
  <2>1. encodeMeta(org, line.reqs) /\ org' = org /\ symbols' = symbols /\ e' = e
    BY <1>11 DEF MetaLine
  <2> QED BY <1>1, <1>2, <1>3, <2>1, EncodeTyped, LineTyped
<1> QED BY <1>6, <1>7, <1>8, <1>9, <1>10, <1>11, <1>12

LEMMA InitTyped == Init => TypeInv
<1> SUFFICES ASSUME Init PROVE TypeInv
  OBVIOUS
<1>1. PassInv
  BY InitPass
<1>2. Tables
  <2>1. symbols = Predefined /\ settled = Predefined /\ e \in [negate : {FALSE}, val : GarbageValues]
    BY DEF Init
  <2>2. GarbageValues \subseteq Int
    BY ParserAssumption DEF SourcesOK
  <2>3. IsTable(Predefined)
    BY DEF IsTable, Predefined
  <2> QED BY <2>1, <2>2, <2>3 DEF Tables, Kept
<1>3. TypeOK
  <2>1. SourceOK
    BY <1>1 DEF PassInv
  <2>2. DOMAIN symbols \subseteq Names
    BY ParserAssumption DEF SourcesOK, Init, Predefined
  <2>3. org \in Int /\ undefined = {} /\ ucount \in Int /\ passes \in 1 .. 4 /\ verdict = "parsing"
    BY DEF Init, orgStart
  <2>4. ram = <<>> /\ breaks = <<>> /\ maxOrg \in Nat
    BY DEF Init, EncoderInit
  <2>5. RamOK(ram) /\ DOMAIN breaks \subseteq Adr
    BY <2>4 DEF RamOK, Block
  <2> QED BY <2>1, <2>2, <2>3, <2>4, <2>5 DEF TypeOK, SourceOK
<1> QED BY <1>1, <1>2, <1>3 DEF TypeInv

LEMMA NextKeepsTypes == TypeInv /\ [Next]_vars => TypeInv'
<1> SUFFICES ASSUME TypeInv, [Next]_vars PROVE TypeInv'
  OBVIOUS
<1>1. PassInv'
  BY NextKeepsPass DEF TypeInv
<1>2. SourceOK'
  BY <1>1 DEF PassInv
<1>3. CASE EmptyLine \/ StringLine \/ AsmLine \/ DataLine \/ DefLine \/ OrgLine \/ MetaLine
  BY <1>1, <1>3, ReadTyped
<1>4. ASSUME NEW how \in Verdicts \cup {"parsing"}, Ends(how) PROVE TypeInv'
  <2>1. /\ verdict' \in Verdicts \cup {"parsing"}
        /\ UNCHANGED <<source, before, at, org, symbols, undefined, ucount, e,
                       passes, settled, ram, breaks, maxOrg>>
    BY <1>4 DEF Ends
  <2> QED BY <1>1, <2>1 DEF TypeInv, TypeOK, Tables
<1>5. CASE BadAsmLine \/ ThrowingLine \/ Overrun \/ SyntaxError \/ Accept \/ GiveUp
  <2>1. PICK how \in Verdicts : Ends(how)
    BY <1>5 DEF BadAsmLine, ThrowingLine, Overrun, SyntaxError, Accept, GiveUp, Verdicts
  <2> QED BY <1>4, <2>1
<1>6. CASE NextPass
  <2>1. /\ settled' = symbols /\ org' = orgStart /\ undefined' = {} /\ verdict' = verdict
        /\ ucount' = Cardinality(undefined)
        /\ UNCHANGED <<symbols, e, ram, breaks, maxOrg>>
    BY <1>6 DEF NextPass
  <2>2. ucount' \in Int
    BY <1>6, <2>1, AtTheEnd DEF TypeInv, NextPass
  <2>3. passes' \in 1 .. 4
    BY <1>1 DEF PassInv, CountRight
  <2>4. org' \in Int
    BY <2>1 DEF orgStart
  <2> QED BY <1>1, <1>2, <2>1, <2>2, <2>3, <2>4 DEF TypeInv, TypeOK, Tables, SourceOK
<1>7. CASE Returned \/ UNCHANGED vars
  <2>1. UNCHANGED vars
    BY <1>7 DEF Returned
  <2>2. Ends(verdict) /\ verdict \in Verdicts \cup {"parsing"}
    BY <2>1 DEF Ends, vars, TypeInv, TypeOK
  <2> QED BY <1>4, <2>2
<1> QED BY <1>3, <1>5, <1>6, <1>7 DEF Next, Parse, ReadLine

\* The variables of the parser keep to what the code's have room for: every
\* name, value and address an expression or a line produces, for any source
\* (parser.cpp AsmState).
THEOREM TypeCorrect == Spec => []TypeOK
<1>1. Spec => []TypeInv
  BY InitTyped, NextKeepsTypes, PTL DEF Spec
<1>2. TypeInv => TypeOK
  BY DEF TypeInv
<1> QED BY <1>1, <1>2, PTL


-----------------------------------------------------------------------------
(* Sources whose symbols have settled *)

\* The names line i stores, and those stored by the first k lines.
Stores(i) ==
    {n \in Names : \/ Labelled(i) /\ n = source[i].label
                   \/ source[i].kind = "def" /\ n = source[i].name}
StoredTo(k) == {"PI"} \cup UNION {Stores(i) : i \in 1 .. k}

\* A name that no line of this pass has stored has the value of the pass before.
TablesRight ==
    /\ DOMAIN symbols = StoredTo(ReadTo)
    /\ passes # 1 =>
          /\ DOMAIN settled = DOMAIN symbols
          /\ \A n \in DOMAIN symbols :
                (\A i \in 1 .. at - 1 : n \notin Stores(i)) => symbols[n] = settled[n]
    /\ DOMAIN placed = 1 .. at - 1 /\ \A i \in 1 .. at - 1 : placed[i] \in Int

\* So far no name was missing, and none has another value than it ends with.
Converging == BoundOnce /\ undefined = {} /\ (passes = 1 \/ settled = symbols)

Resolved(i) == Missing(source[i].tokens, BoundIn(Seen(i))) = {}
DefRight(i) == \A x \in Final(i) : source[i].kind = "def" => symbols[source[i].name] = x.values[1]
InRam(i) ==
    \A x \in Final(i) :
        LET block == DataAt(placed[i] % 65536, Code(i, x))
        IN  \A a \in DOMAIN block : At(ram, a) = block[a]
Apart(k) == \A i, j \in 1 .. k : i # j => Span(i) \cap Span(j) = {}

\* Then every line read is as the symbols now ask for.
LinesRight ==
    Converging =>
        /\ \A i \in 1 .. at - 1 : Resolved(i) /\ DefRight(i)
        /\ Apart(at - 1) => \A i \in 1 .. at - 1 : InRam(i)

EndRight == verdict = "accepted" => at = Len(source) + 1 /\ undefined = {}

ConvInv == TypeInv /\ TablesRight /\ LinesRight /\ EndRight

-----------------------------------------------------------------------------
(* Names that are stored once *)

LEMMA StoresOne ==
    ASSUME SourceOK, NEW i \in DOMAIN source, NEW n \in Stores(i)
    PROVE  Class[n] \in Binds(i) /\ \A m \in Stores(i) : m = n
<1>1. source[i].kind = "def" => (Labelled(i) => source[i].label = source[i].name)
  BY LineFacts
<1>2. Class[n] \in Binds(i)
  BY BindsAre DEF Stores
<1> QED BY <1>1, <1>2 DEF Stores

LEMMA StoresApart ==
    ASSUME SourceOK, BoundOnce, NEW i \in DOMAIN source, NEW j \in DOMAIN source, i # j,
           NEW n \in Stores(i)
    PROVE  n \notin Stores(j)
BY StoresOne DEF BoundOnce

LEMMA OneClass ==
    ASSUME SourceOK, BoundOnce, NEW m \in StoredTo(Len(source)), NEW n \in StoredTo(Len(source)),
           Class[m] = Class[n]
    PROVE  m = n
<1>1. DOMAIN source = 1 .. Len(source)
  BY SourceSeq
<1>2. ASSUME NEW i \in DOMAIN source, NEW k \in Stores(i) PROVE Class[k] # Class["PI"]
  BY <1>2, StoresOne DEF BoundOnce
<1>3. ASSUME NEW i \in DOMAIN source, NEW j \in DOMAIN source, m \in Stores(i), n \in Stores(j)
      PROVE  m = n
  <2>1. Class[m] \in Binds(i) /\ Class[n] \in Binds(j)
    BY <1>3, StoresOne
  <2>2. i = j
    BY <2>1 DEF BoundOnce
  <2> QED BY <1>3, <2>2, StoresOne
<1>4. m = "PI" \/ \E i \in DOMAIN source : m \in Stores(i)
  BY <1>1 DEF StoredTo
<1>5. n = "PI" \/ \E i \in DOMAIN source : n \in Stores(i)
  BY <1>1 DEF StoredTo
<1> QED BY <1>2, <1>3, <1>4, <1>5

\* A table of such names is looked up in one way.
LEMMA OneLookup ==
    ASSUME SourceOK, BoundOnce, NEW table, DOMAIN table \subseteq StoredTo(Len(source)),
           NEW look \in Lookups(table), NEW n \in DOMAIN table
    PROVE  Class[n] \in DOMAIN look /\ look[Class[n]] = table[n]
<1>1. Class[n] \in BoundIn(table)
  BY DEF BoundIn
<1>2. PICK m \in DOMAIN table : Class[m] = Class[n] /\ look[Class[n]] = table[m]
  BY <1>1, LookedUp
<1>3. m = n
  BY <1>2, OneClass
<1> QED BY <1>1, <1>2, <1>3, LookedUp

\* table, with more names.
Extends(table, more) ==
    DOMAIN table \subseteq DOMAIN more /\ \A n \in DOMAIN table : more[n] = table[n]

LEMMA LooksAgree ==
    ASSUME SourceOK, BoundOnce, NEW table, NEW more, Extends(table, more),
           DOMAIN more \subseteq StoredTo(Len(source)),
           NEW look \in Lookups(table), NEW other \in Lookups(more),
           NEW tokens, Missing(tokens, BoundIn(table)) = {}
    PROVE  Agree(tokens, look, other)
<1>1. ASSUME NEW k \in References(tokens)
      PROVE  /\ Class[tokens[k].s] \in DOMAIN look /\ Class[tokens[k].s] \in DOMAIN other
             /\ look[Class[tokens[k].s]] = other[Class[tokens[k].s]]
  <2>1. Class[tokens[k].s] \in BoundIn(table)
    BY <1>1 DEF Missing
  <2>2. PICK n \in DOMAIN table : Class[n] = Class[tokens[k].s]
    BY <2>1 DEF BoundIn
  <2>3. n \in DOMAIN more /\ more[n] = table[n] /\ DOMAIN table \subseteq StoredTo(Len(source))
    BY DEF Extends
  <2>4. Class[n] \in DOMAIN look /\ look[Class[n]] = table[n]
    BY <2>3, OneLookup
  <2>5. Class[n] \in DOMAIN other /\ other[Class[n]] = more[n]
    BY <2>3, OneLookup
  <2> QED BY <2>2, <2>3, <2>4, <2>5
<1> QED BY <1>1 DEF Agree


\* The bytes of a line, their place, and its expressions, in any state.
Bytes(l, x, o) ==
    CASE l.kind = "asm"  -> Assembled(l, x, o)
      [] l.kind = "data" -> [k \in DOMAIN x.values |-> lo(x.values[k])]
      [] OTHER           -> <<>>
BlockAt(i, x, o) == DataAt(o % 65536, Bytes(source[i], x, o))
FinalAt(i, table, o, kept) ==
    {Evaluated(source[i].tokens, look, o, kept) : look \in Lookups(Table(i, table, o))}

LEMMA FinalExists == ASSUME NEW i, NEW table, NEW o, NEW kept PROVE FinalAt(i, table, o, kept) # {}
BY LookupsExist DEF FinalAt

LEMMA SameBlock ==
    ASSUME NEW i, NEW x, NEW y, x.values = y.values, NEW o
    PROVE  BlockAt(i, x, o) = BlockAt(i, y, o)
<1>1. Bytes(source[i], x, o) = Bytes(source[i], y, o)
  BY DEF Bytes, Assembled
<1> QED BY <1>1 DEF BlockAt

\* Line i in two tables, the second with more names.
Growing(i, table, more, o, kept, later) ==
    /\ i \in DOMAIN source /\ IsTable(table) /\ IsTable(more) /\ o \in Int
    /\ Extends(Table(i, table, o), Table(i, more, o))
    /\ DOMAIN Table(i, more, o) \subseteq StoredTo(Len(source))
    /\ Missing(source[i].tokens, BoundIn(Table(i, table, o))) = {}
    /\ kept \in Kept /\ kept.negate = FALSE /\ later \in Kept /\ later.negate = FALSE
SameIn(i, table, more, o, kept, later) ==
    \A x \in FinalAt(i, table, o, kept), y \in FinalAt(i, more, o, later) : x.values = y.values

\* A line that misses nothing has the same values in both.
LEMMA SameValues ==
    ASSUME SourceOK, BoundOnce, NEW i, NEW table, NEW more, NEW o, NEW kept, NEW later,
           Growing(i, table, more, o, kept, later)
    PROVE  SameIn(i, table, more, o, kept, later)
<1> DEFINE T == Table(i, table, o)
           M == Table(i, more, o)
           t == source[i].tokens
<1> SUFFICES ASSUME NEW x \in FinalAt(i, table, o, kept), NEW y \in FinalAt(i, more, o, later)
             PROVE  x.values = y.values
  BY DEF SameIn
<1>1. PICK look \in Lookups(T) : x = Evaluated(t, look, o, kept)
  BY DEF FinalAt
<1>2. PICK other \in Lookups(M) : y = Evaluated(t, other, o, later)
  BY DEF FinalAt
<1>3. IsTable(T) /\ IsTable(M)
  BY TableTyped DEF Growing
<1>4. WellFormed(t)
  BY LineFacts DEF Growing
<1>5. /\ Extends(T, M) /\ DOMAIN M \subseteq StoredTo(Len(source)) /\ Missing(t, BoundIn(T)) = {}
      /\ o \in Int /\ kept \in Kept /\ kept.negate = FALSE /\ later \in Kept /\ later.negate = FALSE
  BY DEF Growing
<1> HIDE DEF T, M, t
<1>6. KnownInts(look) /\ KnownInts(other)
  BY <1>1, <1>2, <1>3, LookupsKnown
<1>7. Agree(t, look, other)
  BY <1>1, <1>2, <1>5, LooksAgree
<1>8. Alike(x, y)
  BY <1>1, <1>2, <1>4, <1>5, <1>6, <1>7, EvaluatedAlike
<1> QED BY <1>8 DEF Alike

\* A table that has grown, seen from a line.
LEMMA TableExtends ==
    ASSUME NEW i, NEW o \in Int, NEW table, IsTable(table), NEW more, IsTable(more),
           Extends(table, more)
    PROVE  Extends(Table(i, table, o), Table(i, more, o))
<1>1. CASE Labelled(i)
  <2> DEFINE n == source[i].label
  <2>1. Table(i, table, o) = Stored(table, n, o) /\ Table(i, more, o) = Stored(more, n, o)
    BY <1>1 DEF Table
  <2> HIDE DEF n
  <2>2. Extends(Stored(table, n, o), Stored(more, n, o))
    BY DEF Stored, Extends
  <2> QED BY <2>1, <2>2
<1>2. CASE ~Labelled(i)
  BY <1>2 DEF Table
<1> QED BY <1>1, <1>2

LEMMA ExtendsBound ==
    ASSUME NEW table, NEW more, Extends(table, more)
    PROVE  BoundIn(table) \subseteq BoundIn(more)
BY DEF Extends, BoundIn

\* The names a line may look up are names the source stores.
LEMMA TableStores ==
    ASSUME SourceOK, NEW i \in DOMAIN source, NEW o \in Int, NEW table, IsTable(table)
    PROVE  /\ DOMAIN table \subseteq DOMAIN Table(i, table, o)
           /\ DOMAIN Table(i, table, o) \subseteq DOMAIN table \cup Stores(i)
           /\ \A n \in DOMAIN table : (Labelled(i) /\ n = source[i].label) \/ Table(i, table, o)[n] = table[n]
           /\ Labelled(i) => Table(i, table, o)[source[i].label] = o
<1>1. Labelled(i) => source[i].label \in Names
  BY LineFacts
<1>2. CASE Labelled(i)
  <2> DEFINE n == source[i].label
  <2>1. Table(i, table, o) = Stored(table, n, o) /\ n \in Stores(i)
    BY <1>1, <1>2 DEF Table, Stores
  <2> HIDE DEF n
  <2>2. /\ DOMAIN Stored(table, n, o) = DOMAIN table \cup {n}
        /\ Stored(table, n, o)[n] = o
        /\ \A m \in DOMAIN table : m = n \/ Stored(table, n, o)[m] = table[m]
    BY DEF Stored
  <2> QED BY <1>2, <2>1, <2>2 DEF n
<1>3. CASE ~Labelled(i)
  <2>1. Table(i, table, o) = table
    BY <1>3 DEF Table
  <2> QED BY <1>3, <2>1
<1> QED BY <1>2, <1>3


\* The parts of the invariant by what they depend on.
LEMMA LinesAre ==
    ASSUME NEW i
    PROVE  /\ Final(i) = FinalAt(i, symbols, placed[i], e)
           /\ \A x : DataAt(placed[i] % 65536, Code(i, x)) = BlockAt(i, x, placed[i])
           /\ Span(i) = UNION {DOMAIN BlockAt(i, x, placed[i]) : x \in Final(i)}
           /\ Resolved(i) <=> Missing(source[i].tokens, BoundIn(Table(i, symbols, placed[i]))) = {}
<1>1. Final(i) = FinalAt(i, symbols, placed[i], e)
  BY DEF Final, FinalAt, Seen
<1>2. ASSUME NEW x PROVE DataAt(placed[i] % 65536, Code(i, x)) = BlockAt(i, x, placed[i])
  BY DEF Code, BlockAt, Bytes
<1>3. Span(i) = UNION {DOMAIN BlockAt(i, x, placed[i]) : x \in Final(i)}
  BY <1>2 DEF Span
<1>4. Resolved(i) <=> Missing(source[i].tokens, BoundIn(Table(i, symbols, placed[i]))) = {}
  BY DEF Resolved, Seen
<1> QED BY <1>1, <1>2, <1>3, <1>4

\* The same of the next state, of the same source.
LEMMA LinesNext ==
    ASSUME source' = source, before' = before
    PROVE  /\ BoundOnce' <=> BoundOnce
           /\ \A i : Stores(i)' = Stores(i)
           /\ \A i : (Labelled(i)' <=> Labelled(i))
           /\ \A i : /\ Final(i)' = FinalAt(i, symbols', placed'[i], e')
                     /\ Resolved(i)' <=> Missing(source[i].tokens, BoundIn(Table(i, symbols', placed'[i]))) = {}
                     /\ Span(i)' = UNION {DOMAIN BlockAt(i, x, placed'[i]) : x \in Final(i)'}
<1>1. ASSUME NEW i PROVE Labelled(i)' <=> Labelled(i)
  BY DEF Labelled
<1>2. ASSUME NEW i PROVE Stores(i)' = Stores(i)
  BY <1>1 DEF Stores
<1>3. BoundOnce' <=> BoundOnce
  BY SameSource DEF BoundOnce
<1>4. ASSUME NEW i PROVE Seen(i)' = Table(i, symbols', placed'[i])
  BY <1>1 DEF Seen, Table
<1>5. ASSUME NEW i PROVE Final(i)' = FinalAt(i, symbols', placed'[i], e')
  BY <1>4 DEF Final, FinalAt
<1>6. ASSUME NEW i
      PROVE  Resolved(i)' <=> Missing(source[i].tokens, BoundIn(Table(i, symbols', placed'[i]))) = {}
  BY <1>4 DEF Resolved
<1>7. ASSUME NEW i, NEW x PROVE Code(i, x)' = Bytes(source[i], x, placed'[i])
  BY DEF Code, Bytes
<1>8. ASSUME NEW i PROVE Span(i)' = UNION {DOMAIN BlockAt(i, x, placed'[i]) : x \in Final(i)'}
  BY <1>7 DEF Span, BlockAt
<1> QED BY <1>1, <1>2, <1>3, <1>5, <1>6, <1>8

\* What a line that is read does to symbols and memory.
LineDoes(look, x) ==
    /\ look \in Lookups(Table(at, symbols, org))
    /\ x = Evaluated(line.tokens, look, org, e)
    /\ e' = x.e
    /\ symbols' = IF line.kind = "def" THEN Stored(Table(at, symbols, org), line.name, x.values[1])
                  ELSE Table(at, symbols, org)
    /\ \A a : At(ram', a) = IF a \in DOMAIN BlockAt(at, x, org) THEN BlockAt(at, x, org)[a]
                            ELSE At(ram, a)
    /\ Done

LEMMA NothingEvaluated ==
    ASSUME NEW look, NEW pc, NEW kept
    PROVE  Evaluated(<<>>, look, pc, kept).e = kept
<1>1. Len(<<>>) = 0
  OBVIOUS
<1>2. PICK after : Follows(after, <<>>, look, pc, kept)
  BY <1>1, Course
<1> QED BY <1>1, <1>2 DEF Follows, Start

LEMMA NoBlock == ASSUME NEW o PROVE DOMAIN DataAt(o, <<>>) = {}
<1>1. Len(<<>>) = 0
  OBVIOUS
<1>2. 0 .. Len(<<>>) - 1 = {}
  BY <1>1
<1> QED BY <1>2 DEF DataAt

LEMMA OverlaidAt ==
    ASSUME NEW data, NEW block
    PROVE  \A a : At(Overlaid(data, block), a) = IF a \in DOMAIN block THEN block[a] ELSE At(data, a)
BY DEF At, Overlaid

LEMMA LineDone ==
    ASSUME TypeInv, EmptyLine \/ StringLine \/ AsmLine \/ DataLine \/ DefLine \/ OrgLine \/ MetaLine
    PROVE  \E look, x : LineDoes(look, x)
<1>1. Reading /\ Done
  BY DEF EmptyLine, StringLine, AsmLine, DataLine, DefLine, OrgLine, MetaLine, Reads
<1>2. SourceOK /\ at \in DOMAIN source /\ line = source[at]
  BY <1>1, AtLine DEF TypeInv, PassInv
<1> DEFINE T == Table(at, symbols, org)
           Writes(x) == \A a : At(ram', a) = IF a \in DOMAIN BlockAt(at, x, org)
                                              THEN BlockAt(at, x, org)[a] ELSE At(ram, a)
<1>3. ASSUME line.kind \notin {"asm", "data"}, \A a : At(ram', a) = At(ram, a), NEW x PROVE Writes(x)
  <2>1. Bytes(source[at], x, org) = <<>>
    BY <1>2, <1>3 DEF Bytes
  <2>2. DOMAIN BlockAt(at, x, org) = {}
    BY <2>1, NoBlock DEF BlockAt
  <2> QED BY <1>3, <2>2
<1>4. ASSUME NEW x \in Evaluations PROVE \E look \in Lookups(T) : x = Evaluated(line.tokens, look, org, e)
  BY <1>4 DEF Evaluations
<1>5. CASE EmptyLine \/ StringLine \/ MetaLine
  <2>1. line.kind \in {"empty", "string", "meta"}
    BY <1>5 DEF EmptyLine, StringLine, MetaLine, Reads
  <2>2. e' = e /\ \A a : At(ram', a) = At(ram, a)
    <3>1. CASE EmptyLine \/ MetaLine
      BY <3>1 DEF EmptyLine, MetaLine, encoded, encodeMeta
    <3>2. CASE StringLine
      <4>1. e' = e /\ ram' = Overlaid(ram, DataAt(org % 65536, <<>>))
        BY <3>2 DEF StringLine, encodeData
      <4> QED BY <4>1, NoBlock, OverlaidAt
    <3> QED BY <1>5, <3>1, <3>2
  <2>3. symbols' = T
    <3>1. CASE EmptyLine \/ StringLine
      BY <3>1 DEF EmptyLine, StringLine
    <3>2. CASE MetaLine
      <4>1. line.kind = "meta" /\ symbols' = symbols
        BY <3>2 DEF MetaLine, Reads
      <4>2. ~Labelled(at)
        BY <1>2, <4>1, LineFacts
      <4> QED BY <4>1, <4>2 DEF Table
    <3> QED BY <1>5, <3>1, <3>2
  <2>4. PICK look : look \in Lookups(T)
    BY LookupsExist
  <2>5. line.tokens = <<>>
    BY <1>2, <2>1, LineFacts
  <2> DEFINE x == Evaluated(line.tokens, look, org, e)
  <2>6. x.e = e
    BY <2>5, NothingEvaluated
  <2>7. Writes(x)
    BY <1>3, <2>1, <2>2
  <2>8. LineDoes(look, x)
    BY <1>1, <2>1, <2>2, <2>3, <2>4, <2>6, <2>7 DEF LineDoes
  <2> QED BY <2>8
<1>6. CASE OrgLine
  <2>1. PICK x \in Evaluations : e' = x.e
    BY <1>6 DEF OrgLine
  <2>2. line.kind = "org" /\ symbols' = symbols /\ ram' = ram
    BY <1>6 DEF OrgLine, Reads, encoded
  <2>3. ~Labelled(at)
    BY <1>2, <2>2, LineFacts
  <2>4. symbols' = T
    BY <2>2, <2>3 DEF Table
  <2>5. PICK look \in Lookups(T) : x = Evaluated(line.tokens, look, org, e)
    BY <1>4
  <2>6. Writes(x)
    BY <1>3, <2>2
  <2>7. LineDoes(look, x)
    BY <1>1, <2>1, <2>2, <2>4, <2>5, <2>6 DEF LineDoes
  <2> QED BY <2>7
<1>7. CASE DefLine
  <2>1. PICK x \in Evaluations : symbols' = Stored(T, line.name, x.values[1]) /\ e' = x.e
    BY <1>7 DEF DefLine
  <2>2. line.kind = "def" /\ ram' = ram
    BY <1>7 DEF DefLine, Reads, encoded
  <2>3. PICK look \in Lookups(T) : x = Evaluated(line.tokens, look, org, e)
    BY <1>4
  <2>4. Writes(x)
    BY <1>3, <2>2
  <2>5. LineDoes(look, x)
    BY <1>1, <2>1, <2>2, <2>3, <2>4 DEF LineDoes
  <2> QED BY <2>5
<1>8. CASE AsmLine \/ DataLine
  <2>1. line.kind \in {"asm", "data"} /\ symbols' = T
    BY <1>8 DEF AsmLine, DataLine, Reads
  <2>2. PICK x \in Evaluations :
           e' = x.e /\ ram' = Overlaid(ram, DataAt(org % 65536, Bytes(line, x, org)))
    <3>1. CASE AsmLine
      <4>1. line.kind = "asm"
        BY <3>1 DEF AsmLine, Reads
      <4>2. PICK x \in Evaluations : e' = x.e /\ encodeLine(org, Assembled(line, x, org))
        BY <3>1 DEF AsmLine
      <4>3. Bytes(line, x, org) = Assembled(line, x, org)
        BY <4>1 DEF Bytes
      <4>4. ram' = Overlaid(ram, DataAt(org % 65536, Assembled(line, x, org)))
        BY <4>2 DEF encodeLine
      <4> QED BY <4>2, <4>3, <4>4
    <3>2. CASE DataLine
      <4>1. line.kind = "data"
        BY <3>2 DEF DataLine, Reads
      <4>2. PICK x \in Evaluations :
               e' = x.e /\ encodeData(org, [i \in DOMAIN x.values |-> lo(x.values[i])])
        BY <3>2 DEF DataLine
      <4>3. Bytes(line, x, org) = [i \in DOMAIN x.values |-> lo(x.values[i])]
        BY <4>1 DEF Bytes
      <4>4. ram' = Overlaid(ram, DataAt(org % 65536, [i \in DOMAIN x.values |-> lo(x.values[i])]))
        BY <4>2 DEF encodeData
      <4> QED BY <4>2, <4>3, <4>4
    <3> QED BY <1>8, <3>1, <3>2
  <2>3. PICK look \in Lookups(T) : x = Evaluated(line.tokens, look, org, e)
    BY <1>4
  <2>4. ram' = Overlaid(ram, BlockAt(at, x, org))
    BY <1>2, <2>2 DEF BlockAt
  <2>5. Writes(x)
    BY <2>4, OverlaidAt
  <2>6. LineDoes(look, x)
    BY <1>1, <2>1, <2>2, <2>3, <2>5 DEF LineDoes
  <2> QED BY <2>6
<1> QED BY <1>5, <1>6, <1>7, <1>8


\* What a line that is read does to the tables.
LEMMA SymbolsStep ==
    ASSUME SourceOK, Reading, at \in DOMAIN source, IsTable(symbols), org \in Int,
           NEW look, NEW x, LineDoes(look, x)
    PROVE  /\ DOMAIN symbols' = DOMAIN symbols \cup Stores(at)
           /\ \A n \in DOMAIN symbols : n \notin Stores(at) => symbols'[n] = symbols[n]
           /\ source[at].kind = "def" => symbols'[source[at].name] = x.values[1]
<1> DEFINE T == Table(at, symbols, org)
           name == source[at].name
           v == x.values[1]
<1>1. line = source[at]
  BY DEF line
<1>2. symbols' = IF source[at].kind = "def" THEN Stored(T, name, v) ELSE T
  BY <1>1 DEF LineDoes
<1>3. /\ DOMAIN symbols \subseteq DOMAIN T /\ DOMAIN T \subseteq DOMAIN symbols \cup Stores(at)
      /\ \A n \in DOMAIN symbols : n \notin Stores(at) => T[n] = symbols[n]
      /\ Labelled(at) => source[at].label \in DOMAIN T
  <2>1. Labelled(at) => source[at].label \in Stores(at)
    BY LineFacts DEF Stores
  <2>2. Labelled(at) => source[at].label \in DOMAIN T
    BY DEF Table, Stored
  <2> HIDE DEF T
  <2>3. /\ DOMAIN symbols \subseteq DOMAIN T /\ DOMAIN T \subseteq DOMAIN symbols \cup Stores(at)
        /\ \A n \in DOMAIN symbols : (Labelled(at) /\ n = source[at].label) \/ T[n] = symbols[n]
    BY TableStores DEF T
  <2> QED BY <2>1, <2>2, <2>3
<1>4. /\ source[at].kind = "def" => name \in Stores(at) /\ Stores(at) \subseteq DOMAIN T \cup {name}
      /\ source[at].kind # "def" => Stores(at) \subseteq DOMAIN T
  BY <1>3, LineFacts DEF Stores
<1> HIDE DEF T, name, v
<1>5. CASE source[at].kind = "def"
  <2>1. /\ DOMAIN Stored(T, name, v) = DOMAIN T \cup {name}
        /\ Stored(T, name, v)[name] = v
        /\ \A m \in DOMAIN T : m = name \/ Stored(T, name, v)[m] = T[m]
    BY DEF Stored
  <2>2. symbols' = Stored(T, name, v)
    BY <1>2, <1>5
  <2> QED BY <1>3, <1>4, <1>5, <2>1, <2>2 DEF name, v
<1>6. CASE source[at].kind # "def"
  BY <1>2, <1>3, <1>4, <1>6
<1> QED BY <1>5, <1>6

LEMMA PlacedStep ==
    ASSUME at \in Nat, at >= 1, Done, DOMAIN placed = 1 .. at - 1, org \in Int,
           \A i \in 1 .. at - 1 : placed[i] \in Int
    PROVE  /\ DOMAIN placed' = 1 .. at /\ \A i \in 1 .. at : placed'[i] \in Int
           /\ placed'[at] = org
           /\ \A i \in 1 .. at - 1 : placed'[i] = placed[i]
<1>1. placed' = Stored(placed, at, org)
  BY DEF Done
<1>2. /\ DOMAIN Stored(placed, at, org) = DOMAIN placed \cup {at}
      /\ Stored(placed, at, org)[at] = org
      /\ \A i \in DOMAIN placed : i # at => Stored(placed, at, org)[i] = placed[i]
  BY DEF Stored
<1> QED BY <1>1, <1>2

LEMMA StoredToNext ==
    ASSUME NEW k \in Nat \ {0} PROVE StoredTo(k) = StoredTo(k - 1) \cup Stores(k)
<1>1. 1 .. k = (1 .. k - 1) \cup {k}
  OBVIOUS
<1> QED BY <1>1 DEF StoredTo

LEMMA StoredToWithin ==
    ASSUME NEW k \in Nat, NEW i \in 1 .. k PROVE Stores(i) \subseteq StoredTo(k)
BY DEF StoredTo

LEMMA TablesStep ==
    ASSUME TypeInv, TablesRight, Reading, NEW look, NEW x, LineDoes(look, x)
    PROVE  TablesRight'
<1>1. SourceOK /\ at \in DOMAIN source /\ at \in Nat \ {0} /\ at \in 1 .. Len(source) /\ Len(source) \in Nat
  BY AtLine, SourceSeq DEF TypeInv, PassInv
<1>2. IsTable(symbols) /\ org \in Int
  BY DEF TypeInv, Tables, TypeOK
<1>3. Done
  BY DEF LineDoes
<1>4. source' = source /\ before' = before /\ passes' = passes /\ settled' = settled /\ at' = at + 1
  BY <1>3 DEF Done
<1>5. \A i : Stores(i)' = Stores(i)
  BY <1>4, LinesNext
<1>6. /\ DOMAIN symbols' = DOMAIN symbols \cup Stores(at)
      /\ \A n \in DOMAIN symbols : n \notin Stores(at) => symbols'[n] = symbols[n]
  BY <1>1, <1>2, SymbolsStep
<1>7. StoredTo(ReadTo)' = StoredTo(ReadTo) \cup Stores(at)
  <2>1. ReadTo' = IF passes = 1 THEN at ELSE Len(source)
    BY <1>1, <1>4 DEF ReadTo
  <2>2. \A k : StoredTo(k)' = StoredTo(k')
    BY <1>5 DEF StoredTo
  <2>3. StoredTo(ReadTo)' = {"PI"} \cup UNION {Stores(i) : i \in 1 .. ReadTo'}
    BY <1>5 DEF StoredTo
  <2>4. StoredTo(ReadTo)' = StoredTo(ReadTo')
    BY <2>3 DEF StoredTo
  <2>5. CASE passes = 1
    BY <1>1, <2>1, <2>4, <2>5, StoredToNext DEF ReadTo
  <2>6. CASE passes # 1
    BY <1>1, <2>1, <2>4, <2>6, StoredToWithin DEF ReadTo
  <2> QED BY <2>5, <2>6
<1>8. DOMAIN symbols' = StoredTo(ReadTo)'
  BY <1>6, <1>7 DEF TablesRight
<1>9. ASSUME passes # 1
      PROVE  /\ DOMAIN settled = DOMAIN symbols'
             /\ \A n \in DOMAIN symbols' :
                   (\A i \in 1 .. at : n \notin Stores(i)) => symbols'[n] = settled[n]
  <2>1. Stores(at) \subseteq DOMAIN symbols
    BY <1>1, <1>9, StoredToWithin DEF TablesRight, ReadTo
  <2>2. DOMAIN settled = DOMAIN symbols'
    BY <1>6, <1>9, <2>1 DEF TablesRight
  <2>3. ASSUME NEW n \in DOMAIN symbols', \A i \in 1 .. at : n \notin Stores(i)
        PROVE  symbols'[n] = settled[n]
    <3>1. n \in DOMAIN symbols /\ n \notin Stores(at) /\ \A i \in 1 .. at - 1 : n \notin Stores(i)
      BY <1>1, <1>6, <2>1, <2>3
    <3> QED BY <1>6, <1>9, <3>1 DEF TablesRight
  <2> QED BY <2>2, <2>3
<1>10. DOMAIN placed' = 1 .. at /\ \A i \in 1 .. at : placed'[i] \in Int
  BY <1>1, <1>2, <1>3, PlacedStep DEF TablesRight
<1>11. at' - 1 = at
  BY <1>1, <1>4
<1> QED BY <1>4, <1>5, <1>8, <1>9, <1>10, <1>11 DEF TablesRight

-----------------------------------------------------------------------------
(* A line of a source that converges *)

\* What is known of a line that is read.
LineContext(look, x) ==
    /\ TypeInv /\ TypeInv' /\ TablesRight /\ TablesRight'
    /\ Reading /\ LineDoes(look, x) /\ Converging'

LEMMA LineContextFacts ==
    ASSUME NEW look, NEW x, LineContext(look, x)
    PROVE  /\ SourceOK /\ at \in DOMAIN source /\ at \in Nat \ {0} /\ at \in 1 .. Len(source)
           /\ Len(source) \in Nat /\ DOMAIN source = 1 .. Len(source)
           /\ source' = source /\ before' = before /\ passes' = passes /\ settled' = settled
           /\ at' = at + 1 /\ BoundOnce /\ org \in Int
           /\ IsTable(symbols) /\ IsTable(symbols') /\ IsTable(settled)
           /\ e \in Kept /\ e.negate = FALSE /\ e' \in Kept /\ e'.negate = FALSE
<1>1. SourceOK /\ at \in DOMAIN source /\ at \in Nat \ {0} /\ at \in 1 .. Len(source)
  BY AtLine, SourceSeq DEF TypeInv, PassInv, LineContext
<1>2. Len(source) \in Nat /\ DOMAIN source = 1 .. Len(source)
  BY <1>1, SourceSeq
<1>3. /\ source' = source /\ before' = before /\ passes' = passes /\ settled' = settled
      /\ at' = at + 1
  BY DEF LineContext, LineDoes, Done
<1>4. BoundOnce
  BY <1>3, LinesNext DEF LineContext, Converging
<1>5. org \in Int /\ Tables /\ Tables'
  BY DEF LineContext, TypeInv, TypeOK
<1>6. /\ IsTable(symbols) /\ IsTable(symbols') /\ IsTable(settled)
      /\ e \in Kept /\ e.negate = FALSE /\ e' \in Kept /\ e'.negate = FALSE
  BY <1>5 DEF Tables, IsTable
<1> QED BY <1>1, <1>2, <1>3, <1>4, <1>5, <1>6

LEMMA ConvergesBack ==
    ASSUME NEW look, NEW x, LineContext(look, x)
    PROVE  Converging /\ Extends(symbols, symbols')
<1>1. /\ SourceOK /\ at \in DOMAIN source /\ at \in Nat \ {0} /\ BoundOnce
      /\ DOMAIN source = 1 .. Len(source) /\ at \in 1 .. Len(source) /\ Len(source) \in Nat
      /\ passes' = passes /\ settled' = settled
      /\ IsTable(symbols) /\ IsTable(symbols') /\ IsTable(settled) /\ org \in Int
  BY LineContextFacts
<1>2. undefined = {}
  BY DEF LineContext, Converging, LineDoes, Done
<1>3. /\ DOMAIN symbols \subseteq DOMAIN symbols'
      /\ \A n \in DOMAIN symbols : n \notin Stores(at) => symbols'[n] = symbols[n]
  BY <1>1, SymbolsStep DEF LineContext
<1>4. CASE passes = 1
  <2>1. ASSUME NEW n \in DOMAIN symbols PROVE n \notin Stores(at)
    <3>1. n \in StoredTo(at - 1)
      BY <1>4 DEF LineContext, TablesRight, ReadTo
    <3>2. CASE n = "PI"
      BY <1>1, <3>2, StoresOne DEF BoundOnce
    <3>3. CASE n # "PI"
      <4>1. PICK i \in 1 .. at - 1 : n \in Stores(i)
        BY <3>1, <3>3 DEF StoredTo
      <4>2. i \in DOMAIN source /\ i # at
        BY <1>1
      <4> QED BY <1>1, <4>1, <4>2, StoresApart
    <3> QED BY <3>2, <3>3
  <2>2. Extends(symbols, symbols')
    BY <1>3, <2>1 DEF Extends
  <2> QED BY <1>1, <1>2, <1>4, <2>2 DEF Converging
<1>5. CASE passes # 1
  <2>1. settled = symbols'
    BY <1>1, <1>5 DEF LineContext, Converging
  <2>2. ASSUME NEW n \in DOMAIN symbols PROVE symbols'[n] = symbols[n]
    <3>1. CASE n \in Stores(at)
      <4>1. ASSUME NEW i \in 1 .. at - 1 PROVE n \notin Stores(i)
        BY <1>1, <3>1, StoresApart
      <4>2. symbols[n] = settled[n]
        BY <1>5, <4>1 DEF LineContext, TablesRight
      <4> QED BY <2>1, <4>2
    <3>2. CASE n \notin Stores(at)
      BY <1>3, <3>2
    <3> QED BY <3>1, <3>2
  <2>3. DOMAIN settled = DOMAIN symbols
    BY <1>5 DEF LineContext, TablesRight
  <2>4. settled = symbols
    BY <1>1, <2>1, <2>2, <2>3 DEF IsTable
  <2> QED BY <1>1, <1>2, <1>3, <2>2, <2>4 DEF Converging, Extends
<1> QED BY <1>4, <1>5

\* The names of a line are names of the source.
LEMMA TableWithin ==
    ASSUME NEW look, NEW x, LineContext(look, x), NEW i \in DOMAIN source, NEW o \in Int
    PROVE  DOMAIN Table(i, symbols', o) \subseteq StoredTo(Len(source))
<1>1. /\ SourceOK /\ Len(source) \in Nat /\ DOMAIN source = 1 .. Len(source)
      /\ source' = source /\ before' = before /\ passes' = passes /\ at' = at + 1
      /\ at \in 1 .. Len(source) /\ IsTable(symbols')
  BY LineContextFacts
<1>2. DOMAIN symbols' = StoredTo(ReadTo)'
  BY DEF LineContext, TablesRight
<1>3. \A j : Stores(j)' = Stores(j)
  BY <1>1, LinesNext
<1>4. ReadTo' \in Nat /\ ReadTo' <= Len(source)
  BY <1>1 DEF ReadTo
<1>5. StoredTo(ReadTo)' = {"PI"} \cup UNION {Stores(j) : j \in 1 .. ReadTo'}
  BY <1>3 DEF StoredTo
<1>6. 1 .. ReadTo' \subseteq 1 .. Len(source)
  BY <1>1, <1>4
<1>7. StoredTo(ReadTo)' \subseteq StoredTo(Len(source))
  BY <1>5, <1>6 DEF StoredTo
<1>8. Stores(i) \subseteq StoredTo(Len(source))
  BY <1>1, StoredToWithin
<1>9. DOMAIN Table(i, symbols', o) \subseteq DOMAIN symbols' \cup Stores(i)
  BY <1>1, TableStores
<1> QED BY <1>2, <1>7, <1>8, <1>9

\* A line that is already read stands as it did.
LEMMA EarlierLine ==
    ASSUME NEW look, NEW x, LineContext(look, x), LinesRight, NEW i \in 1 .. at - 1
    PROVE  /\ placed'[i] = placed[i] /\ placed[i] \in Int
           /\ \A y \in Final(i), z \in Final(i)' : y.values = z.values
           /\ Resolved(i)' /\ DefRight(i)'
<1>1. /\ SourceOK /\ at \in Nat \ {0} /\ BoundOnce /\ i \in DOMAIN source /\ i # at /\ at \in DOMAIN source
      /\ source' = source /\ before' = before /\ org \in Int
      /\ IsTable(symbols) /\ IsTable(symbols')
      /\ e \in Kept /\ e.negate = FALSE /\ e' \in Kept /\ e'.negate = FALSE
  <2>1. /\ at \in Nat \ {0} /\ at \in 1 .. Len(source) /\ Len(source) \in Nat
        /\ DOMAIN source = 1 .. Len(source)
    BY LineContextFacts
  <2>2. i \in DOMAIN source /\ i # at
    BY <2>1
  <2> QED BY <2>2, LineContextFacts
<1>2. Extends(symbols, symbols') /\ Resolved(i) /\ DefRight(i)
  BY ConvergesBack DEF LinesRight
<1>3. placed'[i] = placed[i] /\ placed[i] \in Int
  BY <1>1, PlacedStep DEF LineContext, TablesRight, LineDoes
<1> DEFINE o == placed[i]
<1>4. Extends(Table(i, symbols, o), Table(i, symbols', o))
  BY <1>1, <1>2, <1>3, TableExtends
<1>5. DOMAIN Table(i, symbols', o) \subseteq StoredTo(Len(source))
  BY <1>1, <1>3, TableWithin
<1>6. Missing(source[i].tokens, BoundIn(Table(i, symbols, o))) = {}
  BY <1>2, LinesAre
<1>7. Final(i) = FinalAt(i, symbols, o, e) /\ Final(i)' = FinalAt(i, symbols', o, e')
  BY <1>1, <1>3, LinesAre, LinesNext
<1>8. ASSUME NEW y \in Final(i), NEW z \in Final(i)' PROVE y.values = z.values
  <2>1. Growing(i, symbols, symbols', o, e, e')
    BY <1>1, <1>3, <1>4, <1>5, <1>6 DEF Growing
  <2>2. SameIn(i, symbols, symbols', o, e, e')
    BY <1>1, <2>1, SameValues
  <2> QED BY <1>7, <2>2 DEF SameIn
<1>9. Resolved(i)'
  <2>1. Resolved(i)' <=> Missing(source[i].tokens, BoundIn(Table(i, symbols', o))) = {}
    BY <1>1, <1>3, LinesNext
  <2>2. BoundIn(Table(i, symbols, o)) \subseteq BoundIn(Table(i, symbols', o))
    BY <1>4, ExtendsBound
  <2> QED BY <1>6, <2>1, <2>2 DEF Missing
<1>10. DefRight(i)'
  <2> SUFFICES ASSUME NEW z \in Final(i)', source[i].kind = "def"
               PROVE  symbols'[source[i].name] = z.values[1]
    BY <1>1 DEF DefRight
  <2>1. PICK y : y \in Final(i)
    BY <1>7, FinalExists
  <2>2. y.values = z.values /\ symbols[source[i].name] = y.values[1]
    BY <1>2, <1>8, <2>1 DEF DefRight
  <2>3. source[i].name \in DOMAIN symbols
    <3>1. source[i].name \in Stores(i)
      BY <1>1, LineFacts DEF Stores
    <3>2. DOMAIN symbols = StoredTo(ReadTo) /\ i \in 1 .. ReadTo /\ ReadTo \in Nat
      BY <1>1, LineContextFacts DEF LineContext, TablesRight, ReadTo
    <3> QED BY <3>1, <3>2, StoredToWithin
  <2>4. symbols'[source[i].name] = symbols[source[i].name]
    BY <1>2, <2>3 DEF Extends
  <2> QED BY <2>2, <2>4
<1> QED BY <1>3, <1>8, <1>9, <1>10

\* The line that is read: from now on it has the values it was read with.
LEMMA ThisLine ==
    ASSUME NEW look, NEW x, LineContext(look, x), NEW n, n = at
    PROVE  /\ placed'[n] = org
           /\ \A z \in Final(n)' : x.values = z.values
           /\ Resolved(n)' /\ DefRight(n)'
<1>0. at = n
  OBVIOUS
<1>1. /\ SourceOK /\ at \in Nat \ {0} /\ BoundOnce /\ n \in DOMAIN source
      /\ source' = source /\ before' = before /\ org \in Int
      /\ IsTable(symbols) /\ IsTable(symbols')
      /\ e \in Kept /\ e.negate = FALSE /\ e' \in Kept /\ e'.negate = FALSE
  BY LineContextFacts
<1>2. Extends(symbols, symbols')
  BY ConvergesBack
<1>3. placed'[n] = org
  BY <1>1, <1>0, PlacedStep DEF LineContext, TablesRight, LineDoes
<1> DEFINE T == Table(n, symbols, org)
           M == Table(n, symbols', org)
<1>4. Extends(T, M)
  BY <1>1, <1>2, TableExtends
<1>5. DOMAIN M \subseteq StoredTo(Len(source))
  BY <1>1, TableWithin
<1>6. line = source[n]
  BY DEF line
<1>7. Missing(source[n].tokens, BoundIn(T)) = {}
  <2> DEFINE lost == Missing(source[n].tokens, BoundIn(T))
  <2>1. undefined' = undefined \cup {<<at, k>> : k \in lost}
    BY <1>6 DEF LineContext, LineDoes, Done
  <2>2. undefined' = {}
    BY DEF LineContext, Converging
  <2> HIDE DEF lost
  <2>3. lost = {}
    BY <2>1, <2>2
  <2> QED BY <2>3 DEF lost
<1>8. x \in FinalAt(n, symbols, org, e)
  BY <1>6 DEF LineContext, LineDoes, FinalAt
<1>9. Final(n)' = FinalAt(n, symbols', org, e')
  BY <1>1, <1>3, LinesNext
<1>10. SameIn(n, symbols, symbols', org, e, e')
  <2>1. Growing(n, symbols, symbols', org, e, e')
    BY <1>1, <1>4, <1>5, <1>7 DEF Growing
  <2> QED BY <1>1, <2>1, SameValues
<1>11. \A z \in Final(n)' : x.values = z.values
  BY <1>8, <1>9, <1>10 DEF SameIn
<1>12. Resolved(n)'
  <2>1. Resolved(n)' <=> Missing(source[n].tokens, BoundIn(M)) = {}
    BY <1>1, <1>3, LinesNext
  <2>2. BoundIn(T) \subseteq BoundIn(M)
    BY <1>4, ExtendsBound
  <2> QED BY <1>7, <2>1, <2>2 DEF Missing
<1>13. DefRight(n)'
  <2> SUFFICES ASSUME NEW z \in Final(n)', source[n].kind = "def"
               PROVE  symbols'[source[n].name] = z.values[1]
    BY <1>1 DEF DefRight
  <2>1. symbols'[source[n].name] = x.values[1]
    BY <1>1, SymbolsStep DEF LineContext
  <2> QED BY <1>11, <2>1
<1> QED BY <1>3, <1>11, <1>12, <1>13

\* Where a line is, and where it was before.
LEMMA SameSpan ==
    ASSUME NEW i, NEW o, NEW P, NEW Q, P # {}, Q # {}, \A y \in P, z \in Q : y.values = z.values
    PROVE  UNION {DOMAIN BlockAt(i, y, o) : y \in P} = UNION {DOMAIN BlockAt(i, z, o) : z \in Q}
<1>1. \A y \in P, z \in Q : DOMAIN BlockAt(i, y, o) = DOMAIN BlockAt(i, z, o)
  BY SameBlock
<1> QED BY <1>1

LEMMA RamStep ==
    ASSUME NEW look, NEW x, LineContext(look, x), LinesRight, NEW n, n = at, Apart(n)'
    PROVE  \A i \in 1 .. n : InRam(i)'
<1>1. /\ n \in Nat \ {0} /\ n = at /\ source' = source /\ before' = before
  BY LineContextFacts
<1> DEFINE written == BlockAt(n, x, org)
<1>2. \A a : At(ram', a) = IF a \in DOMAIN written THEN written[a] ELSE At(ram, a)
  BY DEF LineContext, LineDoes
<1>3. placed'[n] = org /\ \A z \in Final(n)' : BlockAt(n, z, org) = written
  BY ThisLine, SameBlock
<1> HIDE DEF written
<1>4. ASSUME NEW i
      PROVE  InRam(i)' <=> \A z \in Final(i)' : \A a \in DOMAIN BlockAt(i, z, placed'[i]) :
                               At(ram', a) = BlockAt(i, z, placed'[i])[a]
  <2>1. ASSUME NEW z PROVE DataAt(placed'[i] % 65536, Code(i, z)') = BlockAt(i, z, placed'[i])
    BY <1>1 DEF Code, BlockAt, Bytes
  <2> QED BY <2>1 DEF InRam
<1>5. InRam(n)'
  BY <1>2, <1>3, <1>4
<1>6. DOMAIN written \subseteq Span(n)'
  <2>1. PICK z : z \in Final(n)'
    BY <1>1, FinalExists, LinesNext
  <2>2. Span(n)' = UNION {DOMAIN BlockAt(n, y, placed'[n]) : y \in Final(n)'}
    BY <1>1, LinesNext
  <2> QED BY <1>3, <2>1, <2>2
<1>7. ASSUME NEW i \in 1 .. n - 1
      PROVE  /\ placed'[i] = placed[i] /\ Span(i)' = Span(i)
             /\ \A y \in Final(i), z \in Final(i)' : y.values = z.values
  <2>1. placed'[i] = placed[i] /\ \A y \in Final(i), z \in Final(i)' : y.values = z.values
    BY EarlierLine
  <2>2. Final(i) # {} /\ Final(i)' # {}
    <3>1. Final(i) # {}
      BY FinalExists, LinesAre
    <3>2. Final(i)' = FinalAt(i, symbols', placed'[i], e')
      BY <1>1, LinesNext
    <3> QED BY <3>1, <3>2, FinalExists
  <2>3. Span(i)' = UNION {DOMAIN BlockAt(i, z, placed[i]) : z \in Final(i)'}
    BY <1>1, <2>1, LinesNext
  <2>4. Span(i) = UNION {DOMAIN BlockAt(i, y, placed[i]) : y \in Final(i)}
    BY LinesAre
  <2>5. Span(i)' = Span(i)
    <3> DEFINE P == Final(i)
               Q == Final(i)'
               o == placed[i]
    <3>1. P # {} /\ Q # {} /\ \A y \in P, z \in Q : y.values = z.values
      BY <2>1, <2>2
    <3>2. Span(i) = UNION {DOMAIN BlockAt(i, y, o) : y \in P}
      BY <2>4
    <3>3. Span(i)' = UNION {DOMAIN BlockAt(i, z, o) : z \in Q}
      BY <2>3
    <3> HIDE DEF P, Q, o
    <3> QED BY <3>1, <3>2, <3>3, SameSpan
  <2> QED BY <2>1, <2>5
<1>8. \A i \in 1 .. n, j \in 1 .. n : i # j => Span(i)' \cap Span(j)' = {}
  BY DEF Apart
<1>9. Apart(n - 1)
  BY <1>1, <1>7, <1>8 DEF Apart
<1>10. \A i \in 1 .. n - 1 : InRam(i)
  BY <1>9, ConvergesBack DEF LinesRight
<1>11. ASSUME NEW i \in 1 .. n - 1 PROVE InRam(i)'
  <2> SUFFICES ASSUME NEW z \in Final(i)', NEW a \in DOMAIN BlockAt(i, z, placed[i])
               PROVE  At(ram', a) = BlockAt(i, z, placed[i])[a]
    BY <1>4, <1>7
  <2>1. PICK y : y \in Final(i)
    BY FinalExists, LinesAre
  <2>2. BlockAt(i, z, placed[i]) = BlockAt(i, y, placed[i])
    BY <1>7, <2>1, SameBlock
  <2>3. DataAt(placed[i] % 65536, Code(i, y)) = BlockAt(i, y, placed[i])
    BY LinesAre
  <2>4. At(ram, a) = BlockAt(i, y, placed[i])[a]
    BY <1>10, <2>1, <2>2, <2>3 DEF InRam
  <2>5. a \in Span(i)'
    BY <1>7, <2>1, <2>2, LinesAre
  <2>6. a \notin DOMAIN written
    BY <1>1, <1>6, <1>8, <2>5
  <2> QED BY <1>2, <2>2, <2>4, <2>6
<1> QED BY <1>1, <1>5, <1>11

LEMMA LinesStep ==
    ASSUME TypeInv, TypeInv', TablesRight, TablesRight', LinesRight, Reading,
           NEW look, NEW x, LineDoes(look, x)
    PROVE  LinesRight'
<1>1. SUFFICES ASSUME Converging' PROVE /\ \A i \in 1 .. at' - 1 : Resolved(i)' /\ DefRight(i)'
                                        /\ Apart(at - 1)' => \A i \in 1 .. at' - 1 : InRam(i)'
  BY DEF LinesRight
<1>2. LineContext(look, x)
  BY <1>1 DEF LineContext
<1>3. PICK n \in Nat \ {0} : n = at /\ at' - 1 = n
  <2>1. at \in Nat \ {0} /\ at' = at + 1
    BY <1>2, LineContextFacts
  <2> QED BY <2>1
<1>4. ASSUME NEW i \in 1 .. n PROVE Resolved(i)' /\ DefRight(i)'
  BY <1>2, <1>3, EarlierLine, ThisLine
<1>5. Apart(at - 1)' => Apart(n)'
  BY <1>3 DEF Apart
<1> QED BY <1>2, <1>3, <1>4, <1>5, RamStep

-----------------------------------------------------------------------------
(* The other steps *)

LEMMA NextPassConv ==
    ASSUME ConvInv, TypeInv', NextPass
    PROVE  ConvInv'
<1>1. /\ at' = 1 /\ source' = source /\ before' = before /\ verdict' = "parsing"
      /\ undefined' = {} /\ symbols' = symbols /\ settled' = symbols /\ placed' = <<>> /\ PassEnds
  BY DEF NextPass, PassEnds
<1>2. PassInv /\ Len(source) \in Nat /\ SourceOK
  BY SourceSeq DEF ConvInv, TypeInv, PassInv
<1>3. at - 1 = Len(source) /\ passes' # 1
  BY <1>1, <1>2, AtTheEnd DEF NextPass, PassInv, CountRight
<1>4. TablesRight'
  <2>1. \A i : Stores(i)' = Stores(i)
    BY <1>1, LinesNext
  <2>2. ReadTo = Len(source) /\ ReadTo' = Len(source)
    BY <1>1, <1>3 DEF ReadTo
  <2>3. StoredTo(ReadTo)' = StoredTo(ReadTo)
    BY <2>1, <2>2 DEF StoredTo
  <2>4. DOMAIN symbols' = StoredTo(ReadTo)' /\ DOMAIN settled' = DOMAIN symbols'
    BY <1>1, <2>3 DEF ConvInv, TablesRight
  <2>5. \A n \in DOMAIN symbols' : symbols'[n] = settled'[n]
    BY <1>1
  <2>6. DOMAIN placed' = 1 .. at' - 1 /\ \A i \in 1 .. at' - 1 : placed'[i] \in Int
    <3>1. 1 .. at' - 1 = {}
      BY <1>1
    <3>2. DOMAIN placed' = {}
      BY <1>1
    <3> QED BY <3>1, <3>2
  <2> QED BY <2>4, <2>5, <2>6 DEF TablesRight
<1>5. LinesRight'
  <2>1. 1 .. at' - 1 = {}
    BY <1>1
  <2> QED BY <2>1 DEF LinesRight
<1>6. EndRight'
  BY <1>1 DEF EndRight
<1> QED BY <1>4, <1>5, <1>6 DEF ConvInv

LEMMA EndConv ==
    ASSUME ConvInv, TypeInv', NEW how, Ends(how),
           how = "accepted" => at = Len(source) + 1 /\ undefined = {}
    PROVE  ConvInv'
<1>1. /\ verdict' = how
      /\ at' = at /\ source' = source /\ before' = before /\ undefined' = undefined /\ ram' = ram
      /\ symbols' = symbols /\ settled' = settled /\ placed' = placed /\ passes' = passes /\ e' = e
  BY DEF Ends
<1>2. \A i : Stores(i)' = Stores(i)
  BY <1>1, LinesNext
<1>3. TablesRight'
  <2>1. ReadTo' = ReadTo
    BY <1>1 DEF ReadTo
  <2>2. StoredTo(ReadTo)' = StoredTo(ReadTo)
    BY <1>2, <2>1 DEF StoredTo
  <2> QED BY <1>1, <1>2, <2>2 DEF ConvInv, TablesRight
<1>4. ASSUME NEW i
      PROVE  /\ Final(i)' = Final(i) /\ (Resolved(i)' <=> Resolved(i)) /\ Span(i)' = Span(i)
             /\ (DefRight(i)' <=> DefRight(i)) /\ (InRam(i)' <=> InRam(i))
  <2>0. /\ Final(i)' = FinalAt(i, symbols', placed'[i], e')
        /\ Resolved(i)' <=> Missing(source[i].tokens, BoundIn(Table(i, symbols', placed'[i]))) = {}
        /\ Span(i)' = UNION {DOMAIN BlockAt(i, x, placed'[i]) : x \in Final(i)'}
    BY <1>1, LinesNext
  <2>1. Final(i)' = Final(i) /\ (Resolved(i)' <=> Resolved(i))
    BY <1>1, <2>0, LinesAre
  <2>2. Span(i)' = Span(i)
    BY <1>1, <2>0, <2>1, LinesAre
  <2>3. DefRight(i)' <=> DefRight(i)
    BY <1>1, <2>1 DEF DefRight
  <2>4. ASSUME NEW x PROVE Code(i, x)' = Code(i, x)
    BY <1>1 DEF Code
  <2>5. InRam(i)' <=> InRam(i)
    BY <1>1, <2>1, <2>4 DEF InRam
  <2> QED BY <2>1, <2>2, <2>3, <2>5
<1>5. LinesRight'
  <2>1. Converging' <=> Converging
    BY <1>1, LinesNext DEF Converging
  <2>2. Apart(at - 1)' <=> Apart(at - 1)
    BY <1>1, <1>4 DEF Apart
  <2> QED BY <1>1, <1>4, <2>1, <2>2 DEF ConvInv, LinesRight
<1>6. EndRight'
  BY <1>1 DEF EndRight
<1> QED BY <1>3, <1>5, <1>6 DEF ConvInv

LEMMA InitConv == Init => ConvInv
<1> SUFFICES ASSUME Init PROVE ConvInv
  OBVIOUS
<1>1. TypeInv
  BY InitTyped
<1>2. at = 1 /\ passes = 1 /\ symbols = Predefined /\ placed = <<>> /\ verdict = "parsing"
  BY DEF Init
<1>3. 1 .. at - 1 = {}
  BY <1>2
<1>4. TablesRight
  <2>1. ReadTo = 0
    BY <1>2 DEF ReadTo
  <2>2. StoredTo(0) = {"PI"}
    <3>1. 1 .. 0 = {}
      OBVIOUS
    <3> QED BY <3>1 DEF StoredTo
  <2>3. DOMAIN symbols = {"PI"} /\ DOMAIN placed = {}
    BY <1>2 DEF Predefined
  <2> QED BY <1>2, <1>3, <2>1, <2>2, <2>3 DEF TablesRight
<1>5. LinesRight /\ EndRight
  BY <1>2, <1>3 DEF LinesRight, EndRight
<1> QED BY <1>1, <1>4, <1>5 DEF ConvInv

LEMMA NextKeepsConv == ConvInv /\ [Next]_vars => ConvInv'
<1> SUFFICES ASSUME ConvInv, [Next]_vars PROVE ConvInv'
  OBVIOUS
<1>1. TypeInv /\ TypeInv'
  BY NextKeepsTypes DEF ConvInv
<1>2. CASE EmptyLine \/ StringLine \/ AsmLine \/ DataLine \/ DefLine \/ OrgLine \/ MetaLine
  <2>1. PICK look, x : LineDoes(look, x)
    BY <1>1, <1>2, LineDone
  <2>2. Reading
    BY <1>2 DEF EmptyLine, StringLine, AsmLine, DataLine, DefLine, OrgLine, MetaLine, Reads
  <2>3. TablesRight'
    BY <1>1, <2>1, <2>2, TablesStep DEF ConvInv
  <2>4. LinesRight'
    BY <1>1, <2>1, <2>2, <2>3, LinesStep DEF ConvInv
  <2>5. EndRight'
    BY <2>1, <2>2 DEF EndRight, LineDoes, Done, Reading
  <2> QED BY <1>1, <2>3, <2>4, <2>5 DEF ConvInv
<1>3. CASE BadAsmLine \/ ThrowingLine \/ Overrun \/ SyntaxError \/ GiveUp
  <2>1. PICK how : Ends(how) /\ how # "accepted"
    BY <1>3 DEF BadAsmLine, ThrowingLine, Overrun, SyntaxError, GiveUp
  <2> QED BY <1>1, <2>1, EndConv
<1>4. CASE Accept
  <2>1. at = Len(source) + 1 /\ undefined = {} /\ Ends("accepted")
    <3>1. at - 1 = Len(source) /\ at \in Int /\ Len(source) \in Nat
      BY <1>1, <1>4, AtTheEnd, SourceSeq DEF TypeInv, PassInv, SourceOK, Accept
    <3> QED BY <1>4, <3>1 DEF Accept
  <2> QED BY <1>1, <2>1, EndConv
<1>5. CASE NextPass
  BY <1>1, <1>5, NextPassConv
<1>6. CASE Returned \/ UNCHANGED vars
  <2>1. Ends(verdict)
    BY <1>6 DEF Returned, Ends, vars
  <2>2. verdict = "accepted" => at = Len(source) + 1 /\ undefined = {}
    BY DEF ConvInv, EndRight
  <2> QED BY <1>1, <2>1, <2>2, EndConv
<1> QED BY <1>2, <1>3, <1>4, <1>5, <1>6 DEF Next, Parse, ReadLine

LEMMA ConvergedAtEnd == ConvInv => ConvergedIsConsistent
<1> SUFFICES ASSUME ConvInv,
                    verdict = "accepted", BoundOnce, passes = 1 \/ settled = symbols,
                    \A i, j \in DOMAIN source : i # j => Span(i) \cap Span(j) = {},
                    NEW i \in DOMAIN source
             PROVE  \E x \in Final(i) :
                       LET block == DataAt(placed[i] % 65536, Code(i, x))
                       IN  /\ \A a \in DOMAIN block : At(ram, a) = block[a]
                           /\ source[i].kind = "def" => symbols[source[i].name] = x.values[1]
  BY DEF ConvergedIsConsistent
<1>1. DOMAIN source = 1 .. Len(source) /\ Len(source) \in Nat
  BY SourceSeq DEF ConvInv, TypeInv, PassInv
<1>2. at - 1 = Len(source) /\ undefined = {}
  BY <1>1 DEF ConvInv, EndRight
<1>3. Converging /\ Apart(at - 1)
  BY <1>1, <1>2 DEF Converging, Apart
<1>4. DefRight(i) /\ InRam(i)
  BY <1>1, <1>2, <1>3 DEF ConvInv, LinesRight
<1>5. PICK x : x \in Final(i)
  BY FinalExists, LinesAre
<1> QED BY <1>4, <1>5 DEF DefRight, InRam

\* A source that is accepted in a pass that moved no symbol, each of its names
\* bound by one line and no line written over another, is in memory as the
\* final symbols ask for, line by line, and every definition has its value:
\* what the multi-pass loop is for (parser.cpp:381-417, compile.h:92-101).
THEOREM ConvergedIsRight == Spec => []ConvergedIsConsistent
<1>1. Spec => []ConvInv
  BY InitConv, NextKeepsConv, PTL DEF Spec
<1> QED BY <1>1, ConvergedAtEnd, PTL

=============================================================================
