------------------------------- MODULE MCTables -------------------------------
EXTENDS Reads

IntCell(v)  == [int |-> TRUE, val |-> v]
TextCell(n) == [int |-> FALSE, text |-> n]

MCNames == {<<1, 2>>}
MCWords == << <<1>>, <<2, 1>>, <<1, 1, 2>>, <<2, 2, 1>> >>

\* Integers only, symbols only, one of each, and two lines that contradict
\* each other in the second column after the first was read.
MCFiles ==
  LET s == TextCell(<<1, 2>>)
  IN {<< <<IntCell(1), IntCell(2)>> >>,
      << <<s, s>> >>,
      << <<IntCell(2), s>> >>,
      << <<IntCell(1), IntCell(1)>>, <<IntCell(2), s>> >>}

MCTxnRows == {<<1, 1>>, <<1, 2>>}

MCRuleKinds == {<<KIND_UNKNOWN, KIND_SYM>>, <<KIND_INT, KIND_UNKNOWN>>}

\* Content 1 has two terms, content 2 only the second.
MCTokens == <<{1, 2}, {2}>>

\* Every operator over every class, and operators over operators.
Classes == {[op |-> "class", set |-> S] : S \in {{1}, {2}, {1, 2}}} \cup {[op |-> "empty"]}
Posts(E)    == {[op |-> o, e |-> x] : o \in {"star", "plus", "opt"}, x \in E}
Pairs(E, F) == {[op |-> o, l |-> x, r |-> y] : o \in {"cat", "alt"}, x \in E, y \in F}
MCExprs ==
  LET a == {[op |-> "class", set |-> {1}]}
      b == {[op |-> "class", set |-> {2}]}
  IN Classes \cup Posts(Classes) \cup Posts(Posts(a)) \cup Posts(Pairs(a, b))
       \cup Pairs(Posts(a), b \cup Posts(a \cup b)) \cup Pairs(Pairs(a, b), a)

\* Rules.  A positive number is a variable, C(n) a constant.
C(n) == -n
Tok(n) == IF n > 0 THEN [kind |-> "var", val |-> n] ELSE [kind |-> "int", val |-> -n]
Atom(pred, args) == [pred |-> pred, args |-> [j \in DOMAIN args |-> Tok(args[j])],
                     negated |-> FALSE, agg |-> "", arith |-> "", over |-> ""]
Not(pred, args)  == [Atom(pred, args) EXCEPT !.negated = TRUE]
Agg(op, args)    == [Atom("", args) EXCEPT !.agg = op]
Let(x, op, l, r) == [Atom("=", <<x, l, r>>) EXCEPT !.arith = op]
Rng(x, lo, hi)   == [Atom("range", <<x, lo, hi>>) EXCEPT !.over = "p"]
Rule(head, body) == [head |-> Atom("h", head), body |-> body]

\* Variables are numbered 1 to 5.
MCRuleTexts ==
  LET p(a, b) == Atom("p", <<a, b>>)
      q(a, b) == Atom("q", <<a, b>>)
      u(a)    == Atom("u", <<a>>)
  IN { Rule(<<2, 1>>, <<p(1, 2)>>),
       Rule(<<1>>, <<p(1, 1)>>),
       Rule(<<1, C(2)>>, <<p(1, C(1))>>),
       Rule(<<1, 3>>, <<p(1, 2), p(2, 3)>>),
       Rule(<<1, 3>>, <<p(1, 2), q(3, 2)>>),
       Rule(<<1, 3>>, <<p(1, 2), q(3, 1), u(3)>>),
       Rule(<<1, 2>>, <<u(1), u(2)>>),
       Rule(<<1, 2>>, <<p(1, 2), Not("p", <<2, 1>>)>>),
       Rule(<<1>>, <<p(1, 2), Not("p", <<5, 1>>)>>),
       Rule(<<1>>, <<u(1), p(1, 2), Not("p", <<2, 5>>), Not("p", <<1, C(1)>>)>>),
       Rule(<<1, 3>>, <<p(1, 2), Atom("=", <<3, 2>>), Atom("=", <<C(1), 1>>)>>),
       Rule(<<3, 4>>, <<p(1, 2), Let(3, "-", 1, C(1)), Let(4, "/", 2, 3)>>),
       Rule(<<1, 3>>, <<Let(3, "-", 1, 2), p(1, 2), Let(3, "*", 1, C(3))>>),
       Rule(<<1, 2>>, <<Atom("<", <<1, 2>>), p(1, 2), Atom("!=", <<2, C(1)>>)>>),
       Rule(<<1, 3>>, <<p(1, 2), Agg("count", <<3>>)>>),
       Rule(<<3, 2>>, <<p(1, 2), q(2, 4), Agg("sum", <<3, 4>>)>>),
       Rule(<<3>>, <<p(1, 2), Agg("min", <<3, 2>>)>>),
       Rule(<<1, 3>>, <<p(1, 2), Let(4, "+", 1, 2), Agg("max", <<3, 4>>)>>),
       Rule(<<1, 3>>, <<u(1), Rng(3, 1, C(3))>>),
       Rule(<<1, 2>>, <<p(1, 2), Rng(2, C(1), 1)>>),
       Rule(<<1, 3>>, <<p(1, 2), p(2, 3), q(3, 4), q(4, 1)>>),
       Rule(<<1, 2, 3>>, <<p(1, 2), u(1), p(2, 3), u(3)>>),
       Rule(<<1, 4>>, <<u(1), u(2), u(3), u(4)>>),
       Rule(<<1, 5>>, <<p(1, 2), p(2, 3), u(3), Rng(5, 1, 3)>>) }
===============================================================================
