--------------------------- MODULE QueryProjection ---------------------------
(***************************************************************************)
(* CreateQPFromSelect and addOrderBy                                       *)
(* (src/go/vt/vtgate/planbuilder/abstract/queryprojection.go): the gen4    *)
(* planner turns the select list, GROUP BY and ORDER BY of a parsed SELECT *)
(* into a QueryProjection.  Each iteration of the code's loops is one      *)
(* step, so the early returns and the loop exits keep their place; the     *)
(* statement is chosen in Init from the set Selects.                       *)
(*                                                                         *)
(* Expressions are records, compared by value as sqlparser.EqualsExpr      *)
(* compares them:                                                          *)
(*   ColName    [kind |-> "col", qual, name]  (qual = NoName: unqualified) *)
(*   Literal    [kind |-> "lit", type, val]   (type "int": an IntVal; val  *)
(*              is what strconv.Atoi returns for its digits)               *)
(*   FuncExpr   [kind |-> "func", aggregate, nargs, distinct, argAggr]     *)
(*              (argAggr: an argument contains an aggregate)               *)
(* A select item is [kind |-> "star"] or an AliasedExpr                    *)
(* [kind |-> "aliased", expr, as]; an ORDER BY item is [expr, dir].        *)
(* Identifiers are model values compared by identity (the code compares    *)
(* aliases case-insensitively; case is not modelled).  The parser gives    *)
(* sel.GroupBy = nil exactly when there is no GROUP BY: the empty sequence.*)
(***************************************************************************)
EXTENDS Naturals, Sequences

CONSTANTS
    Names,     \* identifiers: column names, aliases, table qualifiers
    NoName,    \* the empty ColIdent / TableIdent
    Selects    \* the parsed statements CreateQPFromSelect may be given

ColNames == [kind : {"col"}, qual : Names \cup {NoName}, name : Names]
Literals == [kind : {"lit"}, type : {"int", "str"}, val : Nat]
FuncExprs == [kind : {"func"}, aggregate : BOOLEAN, nargs : Nat,
              distinct : BOOLEAN, argAggr : BOOLEAN]
Expr == ColNames \cup Literals \cup FuncExprs

AliasedExprs == [kind : {"aliased"}, expr : Expr, as : Names \cup {NoName}]
SelectItems == AliasedExprs \cup [kind : {"star"}]
Orders == [expr : Expr, dir : {"asc", "desc"}]
OrderEntries == [inner : Orders, weight : Expr]    \* an OrderBy of the projection
SelectStmts == [selectExprs : Seq(SelectItems), groupBy : Seq(Expr),
                orderBy : Seq(Orders)]

ASSUME QueryProjectionAssumption ==
    /\ NoName \notin Names
    /\ Selects \subseteq SelectStmts
    /\ Selects # {}

VARIABLES
    sel,           \* the *sqlparser.Select argument
    pc,            \* where CreateQPFromSelect is
    i,             \* index of the outer loop (select list, ORDER BY, GROUP BY)
    j,             \* index of the inner loop (alias search, order search)
    hasNonAggr,
    selectExprs,   \* qp.SelectExprs
    hasAggr,       \* qp.HasAggr
    groupByExprs,  \* qp.GroupByExprs
    orderExprs,    \* qp.OrderExprs
    order,         \* the argument of the running addOrderBy
    ret,           \* the loop addOrderBy returns to
    err            \* the error returned

vars == <<sel, pc, i, j, hasNonAggr, selectExprs, hasAggr, groupByExprs,
          orderExprs, order, ret, err>>

Errors == {"none", "unsupported", "aggrArgs", "distinctAggr", "complexAggr",
           "mixedAggr"}
Terminated == {"done", "error", "panic"}
PCs == {"select", "order", "aliasScan", "group", "groupScan"} \cup Terminated

(* fExpr.IsAggregate() on a *sqlparser.FuncExpr                          *)
IsAggregateFunc(e) == e.kind = "func" /\ e.aggregate

(* sqlparser.ContainsAggregation: the expression or a subexpression is an  *)
(* aggregate function.                                                     *)
ContainsAggregation(e) == e.kind = "func" /\ (e.aggregate \/ e.argAggr)

IsIntLiteral(e) == e.kind = "lit" /\ e.type = "int"
IsUnqualifiedCol(e) == e.kind = "col" /\ e.qual = NoName

(* The ColName{Name: as} built for an aliased column.                      *)
AliasCol(as) == [kind |-> "col", qual |-> NoName, name |-> as]

(* The argument of addOrderBy before its first call.                       *)
NoOrder == [expr |-> [kind |-> "none"], dir |-> "asc"]

-----------------------------------------------------------------------------
Init ==
    /\ sel \in Selects
    /\ pc = "select"
    /\ i = 1
    /\ j = 1
    /\ hasNonAggr = FALSE
    /\ selectExprs = <<>>
    /\ hasAggr = FALSE
    /\ groupByExprs = <<>>
    /\ orderExprs = <<>>
    /\ order = NoOrder
    /\ ret = "order"
    /\ err = "none"

(* return nil, e                                                           *)
Fail(e) ==
    /\ pc' = "error"
    /\ err' = e
    /\ UNCHANGED <<sel, i, j, hasNonAggr, selectExprs, hasAggr, groupByExprs,
                   orderExprs, order, ret>>

(* The select list holds something other than an AliasedExpr (a '*').     *)
SelectNotAliased ==
    /\ pc = "select"
    /\ i <= Len(sel.selectExprs)
    /\ sel.selectExprs[i].kind # "aliased"
    /\ Fail("unsupported")

(* Mutant of SelectAggregate: the 'continue' is missing, so an aggregate   *)
(* reaches the ContainsAggregation check.                                  *)
SelectAggregateNoContinue ==
    /\ pc = "select"
    /\ i <= Len(sel.selectExprs)
    /\ LET exp == sel.selectExprs[i] IN
         /\ exp.kind = "aliased"
         /\ IsAggregateFunc(exp.expr)
         /\ \/ exp.expr.nargs # 1 /\ Fail("aggrArgs")
            \/ exp.expr.nargs = 1 /\ exp.expr.distinct /\ Fail("distinctAggr")
            \/ exp.expr.nargs = 1 /\ ~exp.expr.distinct /\ Fail("complexAggr")

(* An aggregate function in the select list: it takes one argument and no  *)
(* DISTINCT, and is appended with Aggr set.                                *)
SelectAggregate ==
    /\ pc = "select"
    /\ i <= Len(sel.selectExprs)
    /\ LET exp == sel.selectExprs[i] IN
         /\ exp.kind = "aliased"
         /\ IsAggregateFunc(exp.expr)
         /\ \/ exp.expr.nargs # 1 /\ Fail("aggrArgs")
            \/ exp.expr.nargs = 1 /\ exp.expr.distinct /\ Fail("distinctAggr")
            \/ /\ exp.expr.nargs = 1
               /\ ~exp.expr.distinct
               /\ hasAggr' = TRUE
               /\ selectExprs' = Append(selectExprs, [col |-> exp, aggr |-> TRUE])
               /\ i' = i + 1
               /\ UNCHANGED <<sel, pc, j, hasNonAggr, groupByExprs, orderExprs,
                              order, ret, err>>

(* Any other expression: one that hides an aggregate is refused, the rest  *)
(* are appended as plain columns.                                          *)
SelectNonAggregate ==
    /\ pc = "select"
    /\ i <= Len(sel.selectExprs)
    /\ LET exp == sel.selectExprs[i] IN
         /\ exp.kind = "aliased"
         /\ ~IsAggregateFunc(exp.expr)
         /\ \/ ContainsAggregation(exp.expr) /\ Fail("complexAggr")
            \/ /\ ~ContainsAggregation(exp.expr)
               /\ hasNonAggr' = TRUE
               /\ selectExprs' = Append(selectExprs, [col |-> exp, aggr |-> FALSE])
               /\ i' = i + 1
               /\ UNCHANGED <<sel, pc, j, hasAggr, groupByExprs, orderExprs,
                              order, ret, err>>

(* After the select list: aggregates mixed with plain columns need a GROUP *)
(* BY; then GroupByExprs is taken from the statement.                      *)
SelectDone ==
    /\ pc = "select"
    /\ i > Len(sel.selectExprs)
    /\ \/ hasNonAggr /\ hasAggr /\ sel.groupBy = <<>> /\ Fail("mixedAggr")
       \/ /\ ~(hasNonAggr /\ hasAggr /\ sel.groupBy = <<>>)
          /\ groupByExprs' = sel.groupBy
          /\ pc' = "order"
          /\ i' = 1
          /\ UNCHANGED <<sel, j, hasNonAggr, selectExprs, hasAggr, orderExprs,
                         order, ret, err>>

(* Mutant of AddOrderBy: the '!' of !aliasedExpr.As.IsEmpty() is lost.    *)
AddOrderByAliasTestInverted(o, r) ==
    \/ /\ IsIntLiteral(o.expr)
       /\ o.expr.val \notin 1..Len(selectExprs)
       /\ pc' = "panic"
       /\ UNCHANGED <<j, orderExprs, order, ret>>
    \/ /\ IsIntLiteral(o.expr)
       /\ o.expr.val \in 1..Len(selectExprs)
       /\ LET aliased == selectExprs[o.expr.val].col
              expr == IF aliased.as = NoName THEN AliasCol(aliased.as)
                                             ELSE aliased.expr
          IN  orderExprs' = Append(orderExprs,
                                   [inner |-> [expr |-> expr, dir |-> o.dir],
                                    weight |-> aliased.expr])
       /\ pc' = r
       /\ UNCHANGED <<j, order, ret>>
    \/ /\ ~IsIntLiteral(o.expr)
       /\ IsUnqualifiedCol(o.expr)
       /\ pc' = "aliasScan"
       /\ j' = 1
       /\ order' = o
       /\ ret' = r
       /\ UNCHANGED orderExprs
    \/ /\ ~IsIntLiteral(o.expr)
       /\ ~IsUnqualifiedCol(o.expr)
       /\ orderExprs' = Append(orderExprs, [inner |-> o, weight |-> o.expr])
       /\ pc' = r
       /\ UNCHANGED <<j, order, ret>>

(* Mutant of AddOrderBy: WeightStrExpr of an offset is taken on the      *)
(* expression ordered by, the alias column when the item has an alias.     *)
AddOrderByOffsetWeightAlias(o, r) ==
    \/ /\ IsIntLiteral(o.expr)
       /\ o.expr.val \notin 1..Len(selectExprs)
       /\ pc' = "panic"
       /\ UNCHANGED <<j, orderExprs, order, ret>>
    \/ /\ IsIntLiteral(o.expr)
       /\ o.expr.val \in 1..Len(selectExprs)
       /\ LET aliased == selectExprs[o.expr.val].col
              expr == IF aliased.as # NoName THEN AliasCol(aliased.as)
                                             ELSE aliased.expr
          IN  orderExprs' = Append(orderExprs,
                                   [inner |-> [expr |-> expr, dir |-> o.dir],
                                    weight |-> expr])
       /\ pc' = r
       /\ UNCHANGED <<j, order, ret>>
    \/ /\ ~IsIntLiteral(o.expr)
       /\ IsUnqualifiedCol(o.expr)
       /\ pc' = "aliasScan"
       /\ j' = 1
       /\ order' = o
       /\ ret' = r
       /\ UNCHANGED orderExprs
    \/ /\ ~IsIntLiteral(o.expr)
       /\ ~IsUnqualifiedCol(o.expr)
       /\ orderExprs' = Append(orderExprs, [inner |-> o, weight |-> o.expr])
       /\ pc' = r
       /\ UNCHANGED <<j, order, ret>>

(* addOrderBy(o) called from loop r, up to its alias search.  An integer  *)
(* literal is a 1-based offset into SelectExprs, indexed without a bounds *)
(* check (out of range: a runtime panic); an unqualified column starts    *)
(* the alias search; anything else orders by itself.                      *)
AddOrderBy(o, r) ==
    \/ /\ IsIntLiteral(o.expr)
       /\ o.expr.val \notin 1..Len(selectExprs)
       /\ pc' = "panic"
       /\ UNCHANGED <<j, orderExprs, order, ret>>
    \/ /\ IsIntLiteral(o.expr)
       /\ o.expr.val \in 1..Len(selectExprs)
       /\ LET aliased == selectExprs[o.expr.val].col
              expr == IF aliased.as # NoName THEN AliasCol(aliased.as)
                                             ELSE aliased.expr
          IN  orderExprs' = Append(orderExprs,
                                   [inner |-> [expr |-> expr, dir |-> o.dir],
                                    weight |-> aliased.expr])
       /\ pc' = r
       /\ UNCHANGED <<j, order, ret>>
    \/ /\ ~IsIntLiteral(o.expr)
       /\ IsUnqualifiedCol(o.expr)
       /\ pc' = "aliasScan"
       /\ j' = 1
       /\ order' = o
       /\ ret' = r
       /\ UNCHANGED orderExprs
    \/ /\ ~IsIntLiteral(o.expr)
       /\ ~IsUnqualifiedCol(o.expr)
       /\ orderExprs' = Append(orderExprs, [inner |-> o, weight |-> o.expr])
       /\ pc' = r
       /\ UNCHANGED <<j, order, ret>>

(* The loop over sel.OrderBy.                                              *)
OrderLoop ==
    /\ pc = "order"
    /\ \/ /\ i <= Len(sel.orderBy)
          /\ i' = i + 1
          /\ AddOrderBy(sel.orderBy[i], "order")
       \/ /\ i > Len(sel.orderBy)
          /\ pc' = "group"
          /\ i' = 1
          /\ UNCHANGED <<j, orderExprs, order, ret>>
    /\ UNCHANGED <<sel, hasNonAggr, selectExprs, hasAggr, groupByExprs, err>>

(* Mutant of AliasScan: the 'return' after a match is missing.             *)
AliasScanNoReturn ==
    /\ pc = "aliasScan"
    /\ \/ /\ j <= Len(selectExprs)
          /\ LET col == selectExprs[j].col IN
             \/ /\ col.as # NoName /\ col.as = order.expr.name
                /\ orderExprs' = Append(orderExprs, [inner |-> order,
                                                     weight |-> col.expr])
                /\ j' = j + 1
                /\ UNCHANGED pc
             \/ /\ ~(col.as # NoName /\ col.as = order.expr.name)
                /\ j' = j + 1
                /\ UNCHANGED <<pc, orderExprs>>
       \/ /\ j > Len(selectExprs)
          /\ orderExprs' = Append(orderExprs, [inner |-> order,
                                               weight |-> order.expr])
          /\ pc' = ret
          /\ UNCHANGED j
    /\ UNCHANGED <<sel, i, hasNonAggr, selectExprs, hasAggr, groupByExprs,
                   order, ret, err>>

(* One iteration of addOrderBy's search of the select list for an alias   *)
(* equal to the ORDER BY column; the first match orders by the expression *)
(* behind the alias, and no match orders by the column itself.            *)
AliasScan ==
    /\ pc = "aliasScan"
    /\ \/ /\ j <= Len(selectExprs)
          /\ LET col == selectExprs[j].col IN
             \/ /\ col.as # NoName /\ col.as = order.expr.name
                /\ orderExprs' = Append(orderExprs, [inner |-> order,
                                                     weight |-> col.expr])
                /\ pc' = ret
                /\ UNCHANGED j
             \/ /\ ~(col.as # NoName /\ col.as = order.expr.name)
                /\ j' = j + 1
                /\ UNCHANGED <<pc, orderExprs>>
       \/ /\ j > Len(selectExprs)
          /\ orderExprs' = Append(orderExprs, [inner |-> order,
                                               weight |-> order.expr])
          /\ pc' = ret
          /\ UNCHANGED j
    /\ UNCHANGED <<sel, i, hasNonAggr, selectExprs, hasAggr, groupByExprs,
                   order, ret, err>>

(* The loop over GroupByExprs: each key starts a search of OrderExprs.     *)
GroupLoop ==
    /\ pc = "group"
    /\ \/ i <= Len(groupByExprs) /\ pc' = "groupScan" /\ j' = 1
       \/ i > Len(groupByExprs) /\ pc' = "done" /\ UNCHANGED j
    /\ UNCHANGED <<sel, i, hasNonAggr, selectExprs, hasAggr, groupByExprs,
                   orderExprs, order, ret, err>>

(* Mutant of GroupScan: the key is compared with WeightStrExpr.            *)
GroupScanWeight ==
    /\ pc = "groupScan"
    /\ \/ /\ j <= Len(orderExprs)
          /\ orderExprs[j].weight = groupByExprs[i]
          /\ i' = i + 1
          /\ pc' = "group"
          /\ UNCHANGED <<j, orderExprs, order, ret>>
       \/ /\ j <= Len(orderExprs)
          /\ orderExprs[j].weight # groupByExprs[i]
          /\ j' = j + 1
          /\ UNCHANGED <<pc, i, orderExprs, order, ret>>
       \/ /\ j > Len(orderExprs)
          /\ i' = i + 1
          /\ AddOrderBy([expr |-> groupByExprs[i], dir |-> "asc"], "group")
    /\ UNCHANGED <<sel, hasNonAggr, selectExprs, hasAggr, groupByExprs, err>>

(* One iteration of the search of OrderExprs for the grouping key: found  *)
(* breaks and the key is skipped; not found appends an ascending ordering *)
(* on the key through addOrderBy.                                          *)
GroupScan ==
    /\ pc = "groupScan"
    /\ \/ /\ j <= Len(orderExprs)
          /\ orderExprs[j].inner.expr = groupByExprs[i]
          /\ i' = i + 1
          /\ pc' = "group"
          /\ UNCHANGED <<j, orderExprs, order, ret>>
       \/ /\ j <= Len(orderExprs)
          /\ orderExprs[j].inner.expr # groupByExprs[i]
          /\ j' = j + 1
          /\ UNCHANGED <<pc, i, orderExprs, order, ret>>
       \/ /\ j > Len(orderExprs)
          /\ i' = i + 1
          /\ AddOrderBy([expr |-> groupByExprs[i], dir |-> "asc"], "group")
    /\ UNCHANGED <<sel, hasNonAggr, selectExprs, hasAggr, groupByExprs, err>>

-----------------------------------------------------------------------------
Next ==
    \/ SelectNotAliased
    \/ SelectAggregate
    \/ SelectNonAggregate
    \/ SelectDone
    \/ OrderLoop
    \/ AliasScan
    \/ GroupLoop
    \/ GroupScan

Spec == Init /\ [][Next]_vars

-----------------------------------------------------------------------------
(* Type invariant.                                                         *)
TypeOK ==
    /\ sel \in SelectStmts
    /\ pc \in PCs
    /\ i \in Nat \ {0}
    /\ j \in Nat \ {0}
    /\ hasNonAggr \in BOOLEAN
    /\ selectExprs \in Seq([col : AliasedExprs, aggr : BOOLEAN])
    /\ hasAggr \in BOOLEAN
    /\ groupByExprs \in Seq(Expr)
    /\ orderExprs \in Seq(OrderEntries)
    /\ order \in Orders \cup {NoOrder}
    /\ ret \in {"order", "group"}
    /\ err \in Errors

(***************************************************************************)
(* What the result should be, stated over the statement rather than the   *)
(* loops.                                                                  *)
(***************************************************************************)
Items == sel.selectExprs
GroupKeys == {sel.groupBy[k] : k \in DOMAIN sel.groupBy}

(* A select item CreateQPFromSelect refuses, and the error it returns.     *)
Offending(item) ==
    \/ item.kind # "aliased"
    \/ IsAggregateFunc(item.expr) /\ (item.expr.nargs # 1 \/ item.expr.distinct)
    \/ ~IsAggregateFunc(item.expr) /\ ContainsAggregation(item.expr)
ErrorOf(item) ==
    CASE item.kind # "aliased" -> "unsupported"
      [] item.kind = "aliased" /\ IsAggregateFunc(item.expr)
           /\ item.expr.nargs # 1 -> "aggrArgs"
      [] item.kind = "aliased" /\ IsAggregateFunc(item.expr)
           /\ item.expr.nargs = 1 -> "distinctAggr"
      [] item.kind = "aliased" /\ ~IsAggregateFunc(item.expr) -> "complexAggr"
Refused == {k \in DOMAIN Items : Offending(Items[k])}
FirstOf(S) == CHOOSE k \in S : \A m \in S : k <= m
Mixed ==
    /\ \E k \in DOMAIN Items : IsAggregateFunc(Items[k].expr)
    /\ \E k \in DOMAIN Items : ~IsAggregateFunc(Items[k].expr)
    /\ sel.groupBy = <<>>
ExpectedError ==
    IF Refused # {} THEN ErrorOf(Items[FirstOf(Refused)])
    ELSE IF Mixed THEN "mixedAggr" ELSE "none"

(* The ordering an ORDER BY item o denotes: an integer n is the n-th      *)
(* select item (ordered by its alias when it has one, its weight string   *)
(* taken on the expression); an unqualified name that is the alias of     *)
(* some select item is the expression of the first such item; anything    *)
(* else is itself.                                                        *)
AliasIndexes(n) == {k \in DOMAIN Items : Items[k].as = n}
RefOrderBy(o) ==
    CASE IsIntLiteral(o.expr) ->
           LET c == Items[o.expr.val] IN
             [inner |-> [expr |-> IF c.as = NoName THEN c.expr ELSE AliasCol(c.as),
                         dir |-> o.dir],
              weight |-> c.expr]
      [] IsUnqualifiedCol(o.expr) /\ AliasIndexes(o.expr.name) # {} ->
           [inner |-> o, weight |-> Items[FirstOf(AliasIndexes(o.expr.name))].expr]
      [] OTHER -> [inner |-> o, weight |-> o.expr]
GroupOrder(g) == RefOrderBy([expr |-> g, dir |-> "asc"])

(* The select list (lines 50-82): a statement is refused exactly when an  *)
(* item is not an aliased expression, an aggregate has other than one     *)
(* argument or a DISTINCT, an expression hides an aggregate, or           *)
(* aggregates are mixed with plain columns without GROUP BY -- with the   *)
(* error of the first refused item -- and otherwise SelectExprs is the    *)
(* select list with Aggr marking the aggregates, HasAggr is set iff one   *)
(* is, and GroupByExprs is the GROUP BY.                                  *)
SelectListFaithful ==
    pc \in {"done", "error"} =>
      /\ err = ExpectedError
      /\ pc = "done" =>
           /\ selectExprs = [k \in DOMAIN Items |->
                               [col |-> Items[k],
                                aggr |-> IsAggregateFunc(Items[k].expr)]]
           /\ hasAggr = \E k \in DOMAIN Items : IsAggregateFunc(Items[k].expr)
           /\ groupByExprs = sel.groupBy

(* ORDER BY (addOrderBy, lines 105-150): OrderExprs starts with one entry *)
(* per ORDER BY item, in order, each with the item's direction and the    *)
(* weight string expression the comment at line 129 asks for: the        *)
(* expression behind an alias or an offset, never the alias.              *)
OrderByFaithful ==
    pc = "done" =>
      /\ Len(orderExprs) >= Len(sel.orderBy)
      /\ \A k \in 1..Len(sel.orderBy) : orderExprs[k] = RefOrderBy(sel.orderBy[k])

(* Grouping (lines 88-101): every grouping key is ordered on, and what    *)
(* follows the ORDER BY items is only ascending orderings on grouping     *)
(* keys.                                                                  *)
GroupKeysOrdered ==
    pc = "done" =>
      /\ \A g \in GroupKeys :
           \E k \in DOMAIN orderExprs : orderExprs[k].inner.expr = GroupOrder(g).inner.expr
      /\ \A k \in DOMAIN orderExprs :
           k > Len(sel.orderBy) => \E g \in GroupKeys : orderExprs[k] = GroupOrder(g)

(* addOrderBy (lines 105-150) as a step: every step that changes          *)
(* OrderExprs appends one entry, and that entry is the resolution of the   *)
(* item addOrderBy is running on -- ORDER BY item i, the column of the     *)
(* running alias search, or the ascending ordering on GROUP BY key i --    *)
(* also on runs that go on to panic.  The alias search has to have passed  *)
(* every earlier select item without a match for this to hold.            *)
AppendResolved ==
    orderExprs' # orderExprs =>
      \/ pc = "order" /\ orderExprs' = Append(orderExprs, RefOrderBy(sel.orderBy[i]))
      \/ pc = "aliasScan" /\ orderExprs' = Append(orderExprs, RefOrderBy(order))
      \/ pc = "groupScan" /\ orderExprs' = Append(orderExprs, GroupOrder(sel.groupBy[i]))
OrderExprsResolved == [][AppendResolved]_vars

(* CreateQPFromSelect returns a projection or an error for every parsed   *)
(* statement: ORDER BY n (and GROUP BY n) never panics.                   *)
NoPanic == pc # "panic"

(* The comment at line 89: on a multi-shard query the results must be     *)
(* ordered by the grouping keys, so rows of one group are adjacent: the   *)
(* orderings on grouping keys come before any other ordering.             *)
IsGroupOrdering(o) == o.inner.expr \in {GroupOrder(g).inner.expr : g \in GroupKeys}
GroupKeysLead ==
    pc = "done" =>
      \A k, m \in DOMAIN orderExprs :
        k < m /\ IsGroupOrdering(orderExprs[m]) => IsGroupOrdering(orderExprs[k])

=============================================================================
