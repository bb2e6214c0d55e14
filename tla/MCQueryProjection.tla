------------------------- MODULE MCQueryProjection --------------------------
(***************************************************************************)
(* Statements for CreateQPFromSelect: columns a, b and t.b (t a table     *)
(* qualifier, b also used as an alias), count(a), the malformed           *)
(* aggregates count(a, b) and count(distinct a), ifnull(count(a), 0)      *)
(* hiding an aggregate, and '*'.  Select lists of one or two items; at    *)
(* most two ORDER BY items and two GROUP BY keys.                          *)
(***************************************************************************)
EXTENDS QueryProjection

CONSTANTS a, b, t, none

MCNames == {a, b, t}

Col(q, n) == [kind |-> "col", qual |-> q, name |-> n]
Int(v) == [kind |-> "lit", type |-> "int", val |-> v]
Str == [kind |-> "lit", type |-> "str", val |-> 1]
Func(aggr, n, d, inner) ==
    [kind |-> "func", aggregate |-> aggr, nargs |-> n, distinct |-> d,
     argAggr |-> inner]
ColA == Col(none, a)
ColB == Col(none, b)
ColTB == Col(t, b)
CountA == Func(TRUE, 1, FALSE, FALSE)

As(e, n) == [kind |-> "aliased", expr |-> e, as |-> n]
Star == [kind |-> "star"]
Asc(e) == [expr |-> e, dir |-> "asc"]
Desc(e) == [expr |-> e, dir |-> "desc"]

SeqsOf(S, lo, hi) == UNION {[1..n -> S] : n \in lo..hi}

SelectList ==
    {Star, As(ColA, none), As(ColA, b), As(ColB, none), As(CountA, none),
     As(CountA, b), As(Func(TRUE, 2, FALSE, FALSE), none),
     As(Func(TRUE, 1, TRUE, FALSE), none), As(Func(FALSE, 1, FALSE, TRUE), none)}

(* The statements of the passing run; GROUP BY 0 panics.                  *)
MCSelects ==
    [selectExprs : SeqsOf(SelectList, 1, 2),
     groupBy : SeqsOf({ColA, ColB, ColTB, Int(1), Int(0)}, 0, 2),
     orderBy : SeqsOf({Asc(ColA), Desc(ColB), Asc(ColTB), Desc(Int(1)),
                       Asc(Int(2)), Asc(Str), Desc(CountA)}, 0, 2)]

(* ORDER BY and GROUP BY offsets 0 and 3 around a two-item select list.   *)
MCOffsetSelects ==
    [selectExprs : {<<As(ColA, none), As(ColB, b)>>},
     groupBy : SeqsOf({ColA, Int(0), Int(3)}, 0, 1),
     orderBy : SeqsOf({Asc(ColA), Asc(Int(0)), Asc(Int(3))}, 0, 1)]

(* Grouped statements with an ORDER BY on the aggregate.                   *)
MCGroupedSelects ==
    [selectExprs : {<<As(ColA, none), As(CountA, none)>>},
     groupBy : {<<ColA>>},
     orderBy : SeqsOf({Desc(CountA), Asc(ColA)}, 0, 1)]

(* A select list whose first item is the integer literal 2, grouped by   *)
(* offset 2 (column a) and ordered by offset 1 (the literal).              *)
MCLiteralSelects ==
    [selectExprs : {<<As(Int(2), none), As(ColA, none)>>},
     groupBy : SeqsOf({Int(2), ColA}, 0, 1),
     orderBy : SeqsOf({Asc(Int(1)), Asc(ColA)}, 0, 1)]

=============================================================================
