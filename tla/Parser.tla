------------------------------- MODULE Parser -------------------------------
(***************************************************************************)
(* The multi-pass assembler, parse() of src/parser.cpp.  A pass reads the  *)
(* lines of the source in order; names that are not yet known count as a   *)
(* placeholder and are recorded, and the source is read again until none   *)
(* is recorded or a pass records as many as the pass before.               *)
(*                                                                         *)
(* A source is the sequence of its lines, each of them as the grammar      *)
(* takes it apart:                                                         *)
(*   kind     "empty", "data", "string", "asm", "def", "org" or "meta", or *)
(*            "bad" for a line no rule takes: a last line without a line   *)
(*            end, say, since the copy of the text that has one is unused  *)
(*   label    the label, or "", and `colon` if one ends it; without one a  *)
(*            label starts in the first column, and so does the name of a  *)
(*            definition that is also its label                            *)
(*   tokens   the expressions of the line                                  *)
(*   op, arg  of "asm": the instruction, and the notation of its operand,  *)
(*            `blank` if there is a blank outside the expression           *)
(*   name     of "def": the defined name                                   *)
(*   reqs     of "meta": the checks, as <<what, value>>; empty if a number *)
(*            in them cannot be read                                       *)
(***************************************************************************)
EXTENDS Encoder, Expressions

CONSTANTS
    Sources,
    GarbageValues  \* what e.val may hold, which nothing initialises

VARIABLES
    source,
    before,     \* the byte in front of the text, a[-1] there, is a line end
    at,         \* the number of the line the pass is at
    org,        \* state.org
    symbols,    \* state.symbols
    undefined,  \* state.undefined: <<line, token>> of each name not found
    ucount,
    e,          \* what the grammar keeps from one expression to the next
    verdict,    \* "parsing", or how parse() ended
    passes,     \* counts the passes, up to 4
    settled,    \* the symbols at the end of the pass before
    placed      \* for each line of this pass, the org it was read at

vars == <<source, before, at, org, symbols, undefined, ucount, e, verdict,
          passes, settled, placed, ram, breaks, maxOrg>>

orgStart == \h1000
Names == DOMAIN Class

NotationOK(arg, n) ==
    IF arg = NoArg THEN n = 0
    ELSE /\ n = 1 /\ {arg.hash, arg.close, arg.outer, arg.blank} \subseteq BOOLEAN
         /\ arg.index \in {"", "x", "y"}
         /\ arg.outer => arg.close
         /\ arg.hash => ~arg.close

LineOK(l) ==
    LET n == Cardinality({k \in DOMAIN l.tokens : l.tokens[k].t = "end"})
    IN  /\ l.kind \in {"empty", "data", "string", "asm", "def", "org", "meta", "bad"}
        /\ l.label \in Names \cup {""} /\ l.colon \in BOOLEAN
        /\ WellFormed(l.tokens)
        /\ l.kind \in {"org", "meta", "bad"} => l.label = ""
        /\ \A k \in References(l.tokens) : l.tokens[k].s \in Names
        /\ l.kind \in {"def", "org"} => n = 1
        /\ l.kind = "def" => l.name \in Names /\ l.label \in {"", l.name} /\ ~l.colon
        /\ l.kind = "data" => n > 0
        /\ l.kind = "asm" => NotationOK(l.arg, n)
        /\ l.kind \in {"empty", "string", "meta", "bad"} => l.tokens = <<>>

\* Sources as the grammar gives them.
SourcesOK ==
    /\ "PI" \in Names
    /\ GarbageValues \subseteq Int
    /\ \A s \in Sources : s \in Seq({s[i] : i \in DOMAIN s}) /\ \A i \in DOMAIN s : LineOK(s[i])

ASSUME ParserAssumption == SourcesOK

\* "PI" is a symbol the grammar starts with.
Predefined == [n \in {"PI"} |-> 3]

Init ==
    /\ source \in Sources /\ before \in BOOLEAN
    /\ at = 1 /\ org = orgStart
    /\ symbols = Predefined
    /\ undefined = {} /\ ucount = -1
    /\ e \in [negate : {FALSE}, val : GarbageValues]
    /\ verdict = "parsing"
    /\ passes = 1 /\ settled = symbols /\ placed = <<>>
    /\ EncoderInit

-----------------------------------------------------------------------------
(* Reading a line *)

line == source[at]
Reading == verdict = "parsing" /\ at <= Len(source)

\* fsol looks at the character before the label, on the first line at one
\* before the text: a label there without a colon may not be taken for one.
Labelled(i) ==
    source[i].label # "" /\ (source[i].colon \/ i > 1 \/ before)

\* Such a line then starts with something that is no instruction.
Misread == line.label # "" /\ line.kind # "def" /\ ~Labelled(at)

Reads(kind) == Reading /\ line.kind = kind /\ ~Misread

\* flabel: the label is stored before the rest of the line is read, by rules
\* that fail as well: the name of a definition in the first column first
\* gets the address of its line.
Table(i, table, o) ==
    IF Labelled(i) THEN Stored(table, source[i].label, o) ELSE table

\* Names compare without case.  Of several that are equal then, the one an
\* unordered_map has first is found, which may be any.
BoundIn(table) == {Class[n] : n \in DOMAIN table}
Ambiguous(table) == {n \in DOMAIN table : \E m \in DOMAIN table : m # n /\ Class[m] = Class[n]}
Lookups(table) ==
    {[c \in BoundIn(table) |->
        table[CHOOSE n \in DOMAIN table :
                 Class[n] = c /\ (n \in first \/ \A m \in first : Class[m] # c)]] :
        first \in SUBSET Ambiguous(table)}

\* The expressions of the line, for every way to look up its names.
Evaluations ==
    {Evaluated(line.tokens, look, org, e) : look \in Lookups(Table(at, symbols, org))}

\* The operand as text: a minus sign or a blank left in it make it unclean.
Operand(l, values) ==
    IF l.arg = NoArg THEN NoArg
    ELSE [hash |-> l.arg.hash, val |-> values[1], index |-> l.arg.index,
          close |-> l.arg.close, outer |-> l.arg.outer,
          clean |-> values[1] >= 0 /\ ~l.arg.blank]

Assembled(l, x, o) == assembleLine(l.op, Operand(l, x.values), o % 65536)

\* What every line that was read leaves behind.
Done ==
    /\ at' = at + 1
    /\ undefined' = undefined \cup
          {<<at, k>> : k \in Missing(line.tokens, BoundIn(Table(at, symbols, org)))}
    /\ placed' = Stored(placed, at, org)
    /\ UNCHANGED <<source, before, ucount, verdict, passes, settled>>

Ends(how) ==
    /\ verdict' = how
    /\ UNCHANGED <<source, before, at, org, symbols, undefined, ucount, e,
                   passes, settled, placed, ram, breaks, maxOrg>>

-----------------------------------------------------------------------------
(* The kinds of lines *)

EmptyLine ==
    /\ Reads("empty")
    /\ symbols' = Table(at, symbols, org)
    /\ Done
    /\ UNCHANGED <<org, e, encoded>>

\* A string is read, but fstrdata encodes `data`, which is empty: no byte is
\* written, though maxOrg grows up to the line.
StringLine ==
    /\ Reads("string")
    /\ encodeData(org, <<>>)
    /\ symbols' = Table(at, symbols, org)
    /\ Done
    /\ UNCHANGED <<org, e>>

AsmLine ==
    /\ Reads("asm")
    /\ \E x \in Evaluations :
          LET bytes == Assembled(line, x, org)
          IN  /\ ~x.thrown /\ bytes # <<>>
              /\ encodeLine(org, bytes)
              /\ org' = org + Len(bytes)
              /\ e' = x.e
    /\ symbols' = Table(at, symbols, org)
    /\ Done

DataLine ==
    /\ Reads("data")
    /\ \E x \in Evaluations :
          /\ ~x.thrown
          /\ encodeData(org, [i \in DOMAIN x.values |-> lo(x.values[i])])
          /\ org' = org + Len(x.values)
          /\ e' = x.e
    /\ symbols' = Table(at, symbols, org)
    /\ Done

DefLine ==
    /\ Reads("def")
    /\ \E x \in Evaluations :
          /\ ~x.thrown
          /\ symbols' = Stored(Table(at, symbols, org), line.name, x.values[1])
          /\ e' = x.e
    /\ Done
    /\ UNCHANGED <<org, encoded>>

\* "* = ..." and "$ = ...".
OrgLine ==
    /\ Reads("org")
    /\ \E x \in Evaluations : ~x.thrown /\ org' = x.values[1] /\ e' = x.e
    /\ Done
    /\ UNCHANGED <<symbols, encoded>>

MetaLine ==
    /\ Reads("meta") /\ line.reqs # {}
    /\ encodeMeta(org, line.reqs)
    /\ Done
    /\ UNCHANGED <<org, symbols, e>>

\* assemble() has no bytes for the line: parser_error, caught in parse().
BadAsmLine ==
    /\ Reads("asm")
    /\ \E x \in Evaluations : ~x.thrown /\ Assembled(line, x, org) = <<>>
    /\ Ends("error")

\* Nobody catches what the call of an empty function or stol throws.
ThrowingLine ==
    /\ Reading /\ ~Misread
    /\ \/ \E x \in Evaluations : x.thrown
       \/ line.kind = "meta" /\ line.reqs = {}
    /\ Ends("thrown")

\* An instruction that does not fit below the end of memory is written
\* behind the array.
Overrun ==
    /\ Reads("asm")
    /\ \E x \in Evaluations : ~x.thrown /\ ~Fits(org, Assembled(line, x, org))
    /\ Ends("overrun")

SyntaxError ==
    /\ Reading
    /\ line.kind = "bad" \/ Misread
    /\ Ends("error")

-----------------------------------------------------------------------------
(* The end of a pass *)

PassEnds == verdict = "parsing" /\ at > Len(source)

Accept == PassEnds /\ undefined = {} /\ Ends("accepted")

\* Mutant: one more try when as many names are left.
NoProgressStrict == ucount >= 0 /\ Cardinality(undefined) > ucount

\* Mutant: ucount starts at 0.
NoProgressFromZero == Cardinality(undefined) >= (IF ucount < 0 THEN 0 ELSE ucount)

NoProgress == ucount >= 0 /\ Cardinality(undefined) >= ucount

GiveUp == PassEnds /\ undefined # {} /\ NoProgress /\ Ends("unresolved")

NextPass ==
    /\ PassEnds /\ undefined # {} /\ ~NoProgress
    /\ ucount' = Cardinality(undefined)
    /\ undefined' = {}
    /\ at' = 1 /\ org' = orgStart
    /\ passes' = (IF passes < 4 THEN passes + 1 ELSE 4) /\ settled' = symbols /\ placed' = <<>>
    /\ UNCHANGED <<source, before, symbols, e, verdict, ram, breaks, maxOrg>>

ReadLine == EmptyLine \/ StringLine \/ AsmLine \/ DataLine \/ DefLine \/ OrgLine \/ MetaLine
            \/ BadAsmLine \/ ThrowingLine \/ Overrun \/ SyntaxError
Parse == ReadLine \/ Accept \/ GiveUp \/ NextPass

\* The caller has the verdict.
Returned == verdict # "parsing" /\ UNCHANGED vars

Next == Parse \/ Returned

\* parse() is a loop in its caller's thread: while it has no verdict it goes
\* on.  This is WF_vars(Parse), Parse being enabled until there is a verdict.
Fairness == []<>(verdict # "parsing") \/ []<><<Parse>>_vars

Spec == Init /\ [][Next]_vars /\ Fairness

-----------------------------------------------------------------------------
(* Properties *)

Verdicts == {"accepted", "unresolved", "error", "thrown", "overrun"}

\* The variables hold what the code's have room for (parser.cpp AsmState).
TypeOK ==
    /\ source \in Sources /\ before \in BOOLEAN
    /\ at \in 1 .. Len(source) + 1
    /\ org \in Int
    /\ DOMAIN symbols \subseteq Names
    /\ \A r \in undefined : r[1] \in 1 .. Len(source)
    /\ ucount \in Int /\ passes \in 1 .. 4
    /\ verdict \in Verdicts \cup {"parsing"}
    /\ RamOK(ram) /\ DOMAIN breaks \subseteq Adr /\ maxOrg \in Nat

\* Two passes bind every name that any line binds, and the third finds
\* nothing new: parse() never reads a source more than three times, although
\* it stops only when a pass leaves as many names as the one before
\* (parser.cpp:381-417).
PassesBounded == passes <= 3

\* The names line i binds, in upper case, and those some line binds.
Binds(i) ==
    {Class[source[i].label] : x \in {y \in {1} : Labelled(i)}}
    \cup {Class[source[i].name] : x \in {y \in {1} : source[i].kind = "def"}}
Known == {Class["PI"]} \cup UNION {Binds(i) : i \in DOMAIN source}
Unresolvable(i) == Missing(source[i].tokens, Known)

\* A source is accepted only if every name in it is bound somewhere, and
\* given up as unresolved only if some name is not (parser.cpp:403-415).
VerdictRight ==
    /\ verdict = "accepted" => \A i \in DOMAIN source : Unresolvable(i) = {}
    /\ verdict = "unresolved" => \E i \in DOMAIN source : Unresolvable(i) # {}

\* Each name is bound by one line at most.
BoundOnce ==
    \A i, j \in DOMAIN source : Class["PI"] \notin Binds(i) /\ (i # j => Binds(i) \cap Binds(j) = {})

\* The line as it reads under the symbols the parse ended with.
Seen(i) == Table(i, symbols, placed[i])
Final(i) == {Evaluated(source[i].tokens, look, placed[i], e) : look \in Lookups(Seen(i))}
Code(i, x) ==
    CASE source[i].kind = "asm"  -> Assembled(source[i], x, placed[i])
      [] source[i].kind = "data" -> [k \in DOMAIN x.values |-> lo(x.values[k])]
      [] OTHER                   -> <<>>
Span(i) == UNION {DOMAIN DataAt(placed[i] % 65536, Code(i, x)) : x \in Final(i)}

\* When a source is accepted and its last pass has not moved any symbol, its
\* code is the one the final symbols ask for: at the place of every line are
\* the bytes its instruction or its data have under these symbols, no other
\* line wrote there, in this pass or an earlier one, and every definition
\* has its value.  It is the fixed point parse() is after, though it does
\* not wait for it (parser.cpp:403, :416; compile.h).
ConvergedIsConsistent ==
    /\ verdict = "accepted" /\ BoundOnce
    /\ passes = 1 \/ settled = symbols
    /\ \A i, j \in DOMAIN source : i # j => Span(i) \cap Span(j) = {}
    => \A i \in DOMAIN source : \E x \in Final(i) :
          LET block == DataAt(placed[i] % 65536, Code(i, x))
          IN  /\ \A a \in DOMAIN block : At(ram, a) = block[a]
              /\ source[i].kind = "def" => symbols[source[i].name] = x.values[1]

\* Every parse ends (parser.cpp:381-417).
ParseEnds == <>(verdict # "parsing")

\* A branch to a label, with the label in its reach, is assembled to go
\* there: opcodes.txt:85 `Syntax is "Bxx Displacement" or (better) "Bxx Label"`.
BranchesReachLabels ==
    verdict = "accepted" =>
        \A i, j \in DOMAIN source :
            /\ source[i].kind = "asm" /\ source[i].op \in {"bcc", "beq", "bne"}
            /\ source[i].tokens = <<[t |-> "sym", s |-> source[j].label], [t |-> "end"]>>
            /\ Labelled(j) /\ BoundOnce
            /\ placed[j] - placed[i] \in -126 .. 129
            => placed[i] + 2 + Signed8(At(ram, placed[i] + 1)) = placed[j]

=============================================================================
