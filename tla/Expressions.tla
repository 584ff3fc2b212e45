---------------------------- MODULE Expressions ----------------------------
(***************************************************************************)
(* The expressions of src/parser.cpp: the stack machine that the semantic  *)
(* actions of the grammar drive.  An expression is the sequence of tokens  *)
(* in the order their actions fire:                                        *)
(*   [t |-> "num", n |-> 5]      a number or a character                   *)
(*   [t |-> "neg"]               the minus sign of the constant behind it  *)
(*   [t |-> "sym", s |-> "foo"]  a name, "$" for the address of the line   *)
(*   [t |-> "op", o |-> "+"]     an operator, behind its operands          *)
(*   [t |-> "end"]               the end of an expression                  *)
(* fop reads the operator from the text, up to the first character that    *)
(* none has: `4-1` gives "-", but `4--1` gives "--".                       *)
(*                                                                         *)
(* The code computes with doubles.  Here numbers are whole, without "/",   *)
(* and the bits of "&" and "|" are those of 16-bit numbers.                *)
(***************************************************************************)
EXTENDS Words, Sequences, FiniteSets

CONSTANT Class   \* for each name, the name in upper case

\* What an undefined name counts as: 1234.5678, without the fraction.
Placeholder == 1234

And16(a, b) == to_adr(BitAnd(lo(a), lo(b)), BitAnd(hi(a), hi(b)))
Or16(a, b)  == to_adr(BitOr(lo(a), lo(b)), BitOr(hi(a), hi(b)))
Truth(P)    == IF P THEN 1 ELSE 0

\* (unsigned)n, of 32 bits.  (TLC's numbers end at 2^31 - 1: it evaluates
\* this for the numbers that stay as they are.)
Unsigned(n) == IF 0 <= n /\ n <= 2147483647 THEN n ELSE n % (65536 * 65536)

Remainder(a, b) == Unsigned(a) % Unsigned(b)

\* The weight of bit n.  A shift takes the last five bits of its count.
Weight(n) ==
    LET w[k \in 0 .. n] == IF k = 0 THEN 1 ELSE 2 * w[k - 1]
    IN  w[n]

\* The grammar has more operators ("<", "==", "^", ...) than this table.
ops == {"+", "-", "*", "%", "&", "|", "&&", "||", ">>", "<<"}

Result(o, a, b) ==
    CASE o = "+"  -> a + b
      [] o = "-"  -> a - b
      [] o = "*"  -> a * b
      [] o = "%"  -> Remainder(a, b)
      [] o = "&"  -> And16(a, b)
      [] o = "|"  -> Or16(a, b)
      [] o = "&&" -> Truth(Unsigned(a) # 0 /\ Unsigned(b) # 0)
      [] o = "||" -> Truth(Unsigned(a) # 0 \/ Unsigned(b) # 0)
      [] o = ">>" -> Unsigned(a) \div Weight(b % 32)
      [] o = "<<" -> Unsigned(Unsigned(a) * Weight(b % 32))

\* The state of the machine: valstack, e, and the values of the expressions
\* evaluated so far.  An operator that is not in the table is an empty
\* function, whose call throws, and a modulo by zero ends the program too.
Start(e) == [stack |-> <<>>, e |-> e, values |-> <<>>, thrown |-> FALSE]

fnegate(m)     == [m EXCEPT !.e.negate = TRUE]
fsetnum(m, n)  == [m EXCEPT !.e.val = n]
fpushnum(m)    == [m EXCEPT !.stack = Append(@, IF m.e.negate THEN -m.e.val ELSE m.e.val),
                            !.e = [negate |-> FALSE, val |-> Placeholder]]
fexpression(m) == [m EXCEPT !.values = Append(@, m.stack[Len(m.stack)]),
                            !.stack = SubSeq(@, 1, Len(@) - 1)]
fop(m, o) ==
    LET n  == Len(m.stack)
        v0 == m.stack[n - 1]
        v1 == m.stack[n]
    IN  IF m.thrown \/ o \notin ops \/ (o = "%" /\ Unsigned(v1) = 0)
           THEN [m EXCEPT !.thrown = TRUE, !.stack = SubSeq(@, 1, n - 1)]
           ELSE [m EXCEPT !.stack = Append(SubSeq(@, 1, n - 2), Result(o, v0, v1))]

\* `look` maps the names that are bound, in upper case, to their values.
\* A name that is not leaves e.val as it was.
fsym(m, s, look, org) ==
    CASE s = "$"                                   -> fsetnum(m, org)
      [] s # "$" /\ Class[s] \in DOMAIN look       -> fsetnum(m, look[Class[s]])
      [] s # "$" /\ Class[s] \notin DOMAIN look    -> m

Consume(m, token, look, org) ==
    CASE token.t = "num" -> fpushnum(fsetnum(m, token.n))
      [] token.t = "sym" -> fpushnum(fsym(m, token.s, look, org))
      [] token.t = "neg" -> fnegate(m)
      [] token.t = "op"  -> fop(m, token.o)
      [] token.t = "end" -> fexpression(m)

Evaluated(tokens, look, org, e) ==
    LET after[k \in 0 .. Len(tokens)] ==
            IF k = 0 THEN Start(e) ELSE Consume(after[k - 1], tokens[k], look, org)
    IN  after[Len(tokens)]

\* What the grammar lets an expression be: a minus sign stands before a
\* constant, an operator behind two values, and the end behind one.
Depth(tokens, n) ==
    LET Of(kinds) == Cardinality({k \in 1 .. n : tokens[k].t \in kinds})
    IN  Of({"num", "sym"}) - Of({"op", "end"})

TokenOK(tokens, k) ==
    CASE tokens[k].t = "num" -> tokens[k].n \in Int
      [] tokens[k].t = "neg" -> k < Len(tokens) /\ tokens[k + 1].t \in {"num", "sym"}
      [] tokens[k].t = "op"  -> Depth(tokens, k - 1) >= 2
      [] tokens[k].t = "end" -> Depth(tokens, k - 1) = 1
      [] OTHER               -> tokens[k].t = "sym"

WellFormed(tokens) ==
    /\ tokens \in Seq({tokens[k] : k \in DOMAIN tokens})
    /\ \A k \in DOMAIN tokens : TokenOK(tokens, k)
    /\ tokens # <<>> => tokens[Len(tokens)].t = "end"

\* The places of names in an expression, and of those nothing is known of.
References(tokens) == {k \in DOMAIN tokens : tokens[k].t = "sym" /\ tokens[k].s # "$"}
Missing(tokens, bound) == {k \in References(tokens) : Class[tokens[k].s] \notin bound}

=============================================================================
