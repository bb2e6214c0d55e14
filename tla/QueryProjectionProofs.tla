------------------------- MODULE QueryProjectionProofs -------------------------
(***************************************************************************)
(* Proofs about CreateQPFromSelect for every statement, whatever the      *)
(* length of its select list, ORDER BY and GROUP BY.                      *)
(***************************************************************************)
EXTENDS QueryProjection, SequenceTheorems, TLAPS

USE QueryProjectionAssumption

(* TypeOK is not inductive by itself: the alias search reads order.expr   *)
(* and the order-list search reads groupByExprs[i].                       *)
ScanInv ==
    /\ pc = "aliasScan" => order \in Orders
    /\ pc = "groupScan" => i \in 1..Len(groupByExprs)

TInv == TypeOK /\ ScanInv

(* What addOrderBy leaves behind, for an ORDER BY item o and a loop r.    *)
LEMMA AddOrderByType ==
    ASSUME TypeOK, NEW o \in Orders, NEW r \in {"order", "group"},
           AddOrderBy(o, r)
    PROVE  /\ orderExprs' \in Seq(OrderEntries)
           /\ pc' \in {"panic", r, "aliasScan"}
           /\ j' \in Nat \ {0}
           /\ order' \in Orders \cup {NoOrder}
           /\ ret' \in {"order", "group"}
           /\ pc' = "aliasScan" => order' \in Orders
<1>1. CASE IsIntLiteral(o.expr) /\ o.expr.val \notin 1..Len(selectExprs)
  BY <1>1 DEF AddOrderBy, TypeOK
<1>2. CASE IsIntLiteral(o.expr) /\ o.expr.val \in 1..Len(selectExprs)
  <2> DEFINE aliased == selectExprs[o.expr.val].col
             expr == IF aliased.as # NoName THEN AliasCol(aliased.as)
                                            ELSE aliased.expr
             entry == [inner |-> [expr |-> expr, dir |-> o.dir],
                       weight |-> aliased.expr]
  <2>0. selectExprs[o.expr.val] \in [col : AliasedExprs, aggr : BOOLEAN]
    <3>1. selectExprs \in Seq([col : AliasedExprs, aggr : BOOLEAN])
      BY DEF TypeOK
    <3>2. o.expr.val \in 1..Len(selectExprs)
      BY <1>2
    <3>. QED  BY <3>1, <3>2, ElementOfSeq
  <2>1. aliased \in AliasedExprs
    BY <2>0, Zenon DEF aliased
  <2>2. expr \in Expr
    BY <2>1 DEF AliasedExprs, AliasCol, Expr, ColNames, expr
  <2>3. entry \in OrderEntries
    BY <2>1, <2>2 DEF OrderEntries, Orders, AliasedExprs, entry
  <2>4. orderExprs' = Append(orderExprs, entry)
    BY <1>2 DEF AddOrderBy, IsIntLiteral, aliased, expr, entry
  <2>5. orderExprs' \in Seq(OrderEntries)
    BY <2>3, <2>4, AppendProperties DEF TypeOK
  <2>. QED  BY <1>2, <2>5 DEF AddOrderBy, TypeOK
<1>3. CASE ~IsIntLiteral(o.expr) /\ IsUnqualifiedCol(o.expr)
  BY <1>3 DEF AddOrderBy, TypeOK
<1>4. CASE ~IsIntLiteral(o.expr) /\ ~IsUnqualifiedCol(o.expr)
  <2>1. [inner |-> o, weight |-> o.expr] \in OrderEntries
    BY DEF OrderEntries, Orders
  <2>2. orderExprs' = Append(orderExprs, [inner |-> o, weight |-> o.expr])
    BY <1>4 DEF AddOrderBy
  <2>3. orderExprs' \in Seq(OrderEntries)
    BY <2>1, <2>2, AppendProperties DEF TypeOK
  <2>. QED  BY <1>4, <2>3 DEF AddOrderBy, TypeOK
<1>. QED  BY <1>1, <1>2, <1>3, <1>4

(* The select list's i-th item, for i in its domain.                      *)
LEMMA SelectItemType ==
    ASSUME TypeOK, i \in 1..Len(sel.selectExprs)
    PROVE  sel.selectExprs[i] \in SelectItems
<1>1. sel.selectExprs \in Seq(SelectItems)
  BY DEF TypeOK, SelectStmts
<1>. QED  BY <1>1, ElementOfSeq

(* An item of the select list whose kind is "aliased" is an AliasedExpr.  *)
LEMMA AliasedItemType ==
    ASSUME NEW exp \in SelectItems, exp.kind = "aliased"
    PROVE  exp \in AliasedExprs
BY DEF SelectItems

(* The initial state satisfies TInv.                                      *)
LEMMA QPInitType == Init => TInv
<1> SUFFICES ASSUME Init PROVE TInv
  OBVIOUS
<1>1. sel \in SelectStmts
  BY DEF Init
<1>2. /\ selectExprs \in Seq([col : AliasedExprs, aggr : BOOLEAN])
      /\ groupByExprs \in Seq(Expr)
      /\ orderExprs \in Seq(OrderEntries)
  BY EmptySeq DEF Init
<1>3. hasNonAggr \in BOOLEAN /\ hasAggr \in BOOLEAN
  BY Zenon DEF Init
<1>. QED  BY <1>1, <1>2, <1>3 DEF Init, TInv, TypeOK, ScanInv, PCs, Terminated, Errors

(* Appending a column of the select list keeps SelectExprs well typed.    *)
LEMMA AppendColumnType ==
    ASSUME TypeOK, NEW exp \in AliasedExprs, NEW b \in BOOLEAN
    PROVE  Append(selectExprs, [col |-> exp, aggr |-> b])
             \in Seq([col : AliasedExprs, aggr : BOOLEAN])
BY AppendProperties DEF TypeOK

(* return nil, e keeps the invariant: only pc and err change.             *)
LEMMA FailType ==
    ASSUME TInv, NEW e \in Errors, Fail(e)
    PROVE  TInv'
<1>1. pc' \in PCs /\ err' \in Errors /\ pc' # "aliasScan" /\ pc' # "groupScan"
  BY DEF Fail, PCs, Terminated
<1>2. /\ sel' \in SelectStmts
      /\ i' \in Nat \ {0}
      /\ j' \in Nat \ {0}
      /\ selectExprs' \in Seq([col : AliasedExprs, aggr : BOOLEAN])
      /\ groupByExprs' \in Seq(Expr)
      /\ orderExprs' \in Seq(OrderEntries)
      /\ order' \in Orders \cup {NoOrder}
      /\ ret' \in {"order", "group"}
  BY DEF Fail, TInv, TypeOK
<1>3. hasNonAggr' \in BOOLEAN /\ hasAggr' \in BOOLEAN
  BY Zenon DEF Fail, TInv, TypeOK
<1>. QED  BY <1>1, <1>2, <1>3 DEF TInv, TypeOK, ScanInv

(* Every step of CreateQPFromSelect keeps TInv.                          *)
LEMMA QPTypeStep == TInv /\ [Next]_vars => TInv'
<1> SUFFICES ASSUME TInv, [Next]_vars PROVE TInv'
  OBVIOUS
<1>0. TypeOK
  BY DEF TInv
<1>1. CASE SelectNotAliased
  BY <1>1, FailType DEF SelectNotAliased, Errors
<1>2. CASE SelectAggregate
  <2> DEFINE exp == sel.selectExprs[i]
  <2>1. exp \in AliasedExprs
    <3>1. i \in 1..Len(sel.selectExprs)
      BY <1>2, <1>0 DEF SelectAggregate, TypeOK, SelectStmts
    <3>2. exp \in SelectItems /\ exp.kind = "aliased"
      BY <1>2, <3>1, <1>0, SelectItemType DEF SelectAggregate
    <3>. QED  BY <3>2, AliasedItemType
  <2>2. CASE exp.expr.nargs # 1 \/ exp.expr.distinct
    BY <1>2, <2>2, FailType DEF SelectAggregate, Errors
  <2>3. CASE exp.expr.nargs = 1 /\ ~exp.expr.distinct
    <3>1. selectExprs' = Append(selectExprs, [col |-> exp, aggr |-> TRUE])
      BY <1>2, <2>3 DEF SelectAggregate
    <3>2. selectExprs' \in Seq([col : AliasedExprs, aggr : BOOLEAN])
      BY <3>1, <2>1, <1>0, AppendColumnType
    <3>3. i' \in Nat \ {0} /\ pc' = "select"
      BY <1>2, <2>3, <1>0 DEF SelectAggregate, TypeOK
    <3>4. hasAggr' \in BOOLEAN /\ hasNonAggr' \in BOOLEAN
      BY <1>2, <2>3, <1>0, Zenon DEF SelectAggregate, TypeOK
    <3>5. UNCHANGED <<sel, j, groupByExprs, orderExprs, order, ret, err>>
      BY <1>2, <2>3 DEF SelectAggregate
    <3>. QED  BY <3>2, <3>3, <3>4, <3>5, <1>0 DEF TInv, TypeOK, ScanInv, PCs
  <2>. QED  BY <2>2, <2>3
<1>3. CASE SelectNonAggregate
  <2> DEFINE exp == sel.selectExprs[i]
  <2>1. exp \in AliasedExprs
    <3>1. i \in 1..Len(sel.selectExprs)
      BY <1>3, <1>0 DEF SelectNonAggregate, TypeOK, SelectStmts
    <3>2. exp \in SelectItems /\ exp.kind = "aliased"
      BY <1>3, <3>1, <1>0, SelectItemType DEF SelectNonAggregate
    <3>. QED  BY <3>2, AliasedItemType
  <2>2. CASE ContainsAggregation(exp.expr)
    BY <1>3, <2>2, FailType DEF SelectNonAggregate, Errors
  <2>3. CASE ~ContainsAggregation(exp.expr)
    <3>1. selectExprs' = Append(selectExprs, [col |-> exp, aggr |-> FALSE])
      BY <1>3, <2>3 DEF SelectNonAggregate
    <3>2. selectExprs' \in Seq([col : AliasedExprs, aggr : BOOLEAN])
      BY <3>1, <2>1, <1>0, AppendColumnType
    <3>3. i' \in Nat \ {0} /\ pc' = "select"
      BY <1>3, <2>3, <1>0 DEF SelectNonAggregate, TypeOK
    <3>4. hasAggr' \in BOOLEAN /\ hasNonAggr' \in BOOLEAN
      BY <1>3, <2>3, <1>0, Zenon DEF SelectNonAggregate, TypeOK
    <3>5. UNCHANGED <<sel, j, groupByExprs, orderExprs, order, ret, err>>
      BY <1>3, <2>3 DEF SelectNonAggregate
    <3>. QED  BY <3>2, <3>3, <3>4, <3>5, <1>0 DEF TInv, TypeOK, ScanInv, PCs
  <2>. QED  BY <2>2, <2>3
<1>4. CASE SelectDone
  <2>1. CASE hasNonAggr /\ hasAggr /\ sel.groupBy = <<>> /\ Fail("mixedAggr")
    BY <2>1, FailType DEF Errors
  <2>2. CASE /\ groupByExprs' = sel.groupBy
             /\ pc' = "order"
             /\ i' = 1
             /\ UNCHANGED <<sel, j, hasNonAggr, selectExprs, hasAggr, orderExprs,
                            order, ret, err>>
    <3>1. groupByExprs' \in Seq(Expr)
      BY <2>2, <1>0 DEF TypeOK, SelectStmts
    <3>2. hasAggr' \in BOOLEAN /\ hasNonAggr' \in BOOLEAN
      BY <2>2, <1>0, Zenon DEF TypeOK
    <3>. QED  BY <2>2, <3>1, <3>2, <1>0 DEF TInv, TypeOK, ScanInv, PCs
  <2>. QED  BY <1>4, <2>1, <2>2 DEF SelectDone
<1>5. CASE OrderLoop
  <2>0. UNCHANGED <<sel, hasNonAggr, selectExprs, hasAggr, groupByExprs, err>>
    BY <1>5 DEF OrderLoop
  <2>1. hasAggr' \in BOOLEAN /\ hasNonAggr' \in BOOLEAN
    BY <2>0, <1>0, Zenon DEF TypeOK
  <2>2. CASE i <= Len(sel.orderBy)
    <3>1. sel.orderBy[i] \in Orders
      BY <2>2, <1>0, ElementOfSeq DEF TypeOK, SelectStmts
    <3>2. AddOrderBy(sel.orderBy[i], "order") /\ i' = i + 1
      BY <1>5, <2>2, <1>0 DEF OrderLoop, TypeOK, SelectStmts
    <3>3. /\ orderExprs' \in Seq(OrderEntries)
          /\ pc' \in {"panic", "order", "aliasScan"}
          /\ j' \in Nat \ {0}
          /\ order' \in Orders \cup {NoOrder}
          /\ ret' \in {"order", "group"}
          /\ pc' = "aliasScan" => order' \in Orders
      BY <3>1, <3>2, <1>0, AddOrderByType
    <3>. QED  BY <2>0, <2>1, <3>2, <3>3, <1>0 DEF TInv, TypeOK, ScanInv, PCs,
                                                  Terminated
  <2>3. CASE i > Len(sel.orderBy)
    <3>1. pc' = "group" /\ i' = 1 /\ UNCHANGED <<j, orderExprs, order, ret>>
      BY <1>5, <2>3, <1>0 DEF OrderLoop, TypeOK, SelectStmts
    <3>. QED  BY <2>0, <2>1, <3>1, <1>0 DEF TInv, TypeOK, ScanInv, PCs
  <2>. QED  BY <2>2, <2>3, <1>0 DEF TypeOK, SelectStmts
<1>6. CASE AliasScan
  <2>0. UNCHANGED <<sel, i, hasNonAggr, selectExprs, hasAggr, groupByExprs,
                    order, ret, err>>
    BY <1>6 DEF AliasScan
  <2>1. order \in Orders
    BY <1>6 DEF AliasScan, TInv, ScanInv
  <2>2. hasAggr' \in BOOLEAN /\ hasNonAggr' \in BOOLEAN
    BY <2>0, <1>0, Zenon DEF TypeOK
  <2>4. pc = "aliasScan"
    BY <1>6 DEF AliasScan
  <2>3. /\ orderExprs' \in Seq(OrderEntries)
        /\ j' \in Nat \ {0}
        /\ pc' \in {"aliasScan", ret}
    <3>1. CASE j <= Len(selectExprs)
      <4> DEFINE col == selectExprs[j].col
      <4>0. selectExprs[j] \in [col : AliasedExprs, aggr : BOOLEAN]
        <5>1. j \in 1..Len(selectExprs)
          BY <3>1, <1>0 DEF TypeOK
        <5>. QED  BY <5>1, <1>0, ElementOfSeq DEF TypeOK
      <4>1. col \in AliasedExprs
        BY <4>0, Zenon DEF col
      <4>2. [inner |-> order, weight |-> col.expr] \in OrderEntries
        BY <2>1, <4>1 DEF OrderEntries, AliasedExprs
      <4>3. Append(orderExprs, [inner |-> order, weight |-> col.expr])
              \in Seq(OrderEntries)
        BY <4>2, <1>0, AppendProperties DEF TypeOK
      <4>4. \/ /\ orderExprs' = Append(orderExprs, [inner |-> order,
                                                      weight |-> col.expr])
               /\ pc' = ret /\ j' = j
            \/ orderExprs' = orderExprs /\ pc' = pc /\ j' = j + 1
        BY <1>6, <3>1, <1>0 DEF AliasScan, TypeOK, col
      <4>5. CASE /\ orderExprs' = Append(orderExprs, [inner |-> order,
                                                      weight |-> col.expr])
                 /\ pc' = ret /\ j' = j
        BY <4>5, <4>3, <1>0 DEF TypeOK
      <4>6. CASE orderExprs' = orderExprs /\ pc' = pc /\ j' = j + 1
        BY <4>6, <2>4, <1>0 DEF TypeOK
      <4>. QED  BY <4>4, <4>5, <4>6
    <3>2. CASE j > Len(selectExprs)
      <4>1. [inner |-> order, weight |-> order.expr] \in OrderEntries
        BY <2>1 DEF OrderEntries, Orders
      <4>2. Append(orderExprs, [inner |-> order, weight |-> order.expr])
              \in Seq(OrderEntries)
        BY <4>1, <1>0, AppendProperties DEF TypeOK
      <4>3. /\ orderExprs' = Append(orderExprs, [inner |-> order,
                                                   weight |-> order.expr])
            /\ pc' = ret /\ j' = j
        BY <1>6, <3>2, <1>0 DEF AliasScan, TypeOK
      <4>. QED  BY <4>2, <4>3, <1>0 DEF TypeOK
    <3>. QED  BY <3>1, <3>2, <1>0 DEF TypeOK
  <2>. QED  BY <2>0, <2>1, <2>2, <2>3, <1>0 DEF TInv, TypeOK, ScanInv, PCs
<1>7. CASE GroupLoop
  <2>0. UNCHANGED <<sel, i, hasNonAggr, selectExprs, hasAggr, groupByExprs,
                    orderExprs, order, ret, err>>
    BY <1>7 DEF GroupLoop
  <2>1. hasAggr' \in BOOLEAN /\ hasNonAggr' \in BOOLEAN
    BY <2>0, <1>0, Zenon DEF TypeOK
  <2>2. \/ i <= Len(groupByExprs) /\ pc' = "groupScan" /\ j' = 1
        \/ pc' = "done" /\ j' = j
    BY <1>7 DEF GroupLoop
  <2>. QED  BY <2>0, <2>1, <2>2, <1>0 DEF TInv, TypeOK, ScanInv, PCs,
                                          Terminated
<1>8. CASE GroupScan
  <2>0. UNCHANGED <<sel, hasNonAggr, selectExprs, hasAggr, groupByExprs, err>>
    BY <1>8 DEF GroupScan
  <2>1. i \in 1..Len(groupByExprs)
    BY <1>8 DEF GroupScan, TInv, ScanInv
  <2>2. hasAggr' \in BOOLEAN /\ hasNonAggr' \in BOOLEAN
    BY <2>0, <1>0, Zenon DEF TypeOK
  <2>3. CASE j <= Len(orderExprs)
    <3>1. \/ i' = i + 1 /\ pc' = "group" /\ UNCHANGED <<j, orderExprs, order, ret>>
          \/ j' = j + 1 /\ UNCHANGED <<pc, i, orderExprs, order, ret>>
      BY <1>8, <2>3, <1>0 DEF GroupScan, TypeOK
    <3>. QED  BY <2>0, <2>1, <2>2, <3>1, <1>0 DEF TInv, TypeOK, ScanInv, PCs
  <2>4. CASE j > Len(orderExprs)
    <3>1. [expr |-> groupByExprs[i], dir |-> "asc"] \in Orders
      BY <2>1, <1>0, ElementOfSeq DEF TypeOK, Orders
    <3>2. AddOrderBy([expr |-> groupByExprs[i], dir |-> "asc"], "group")
          /\ i' = i + 1
      BY <1>8, <2>4, <1>0 DEF GroupScan, TypeOK
    <3>3. /\ orderExprs' \in Seq(OrderEntries)
          /\ pc' \in {"panic", "group", "aliasScan"}
          /\ j' \in Nat \ {0}
          /\ order' \in Orders \cup {NoOrder}
          /\ ret' \in {"order", "group"}
          /\ pc' = "aliasScan" => order' \in Orders
      BY <3>1, <3>2, <1>0, AddOrderByType
    <3>. QED  BY <2>0, <2>1, <2>2, <3>2, <3>3, <1>0 DEF TInv, TypeOK, ScanInv,
                                                        PCs, Terminated
  <2>. QED  BY <2>3, <2>4, <1>0 DEF TypeOK
<1>9. CASE UNCHANGED vars
  <2>0. UNCHANGED <<sel, pc, i, j, selectExprs, groupByExprs, orderExprs,
                    order, ret, err>> /\ UNCHANGED <<hasNonAggr, hasAggr>>
    BY <1>9 DEF vars
  <2>1. hasAggr' \in BOOLEAN /\ hasNonAggr' \in BOOLEAN
    BY <2>0, <1>0, Zenon DEF TypeOK
  <2>. QED  BY <2>0, <2>1 DEF TInv, TypeOK, ScanInv
<1>. QED  BY <1>1, <1>2, <1>3, <1>4, <1>5, <1>6, <1>7, <1>8, <1>9 DEF Next

(* The type invariant of CreateQPFromSelect: for every select list, ORDER *)
(* BY and GROUP BY, the projection's SelectExprs, GroupByExprs and        *)
(* OrderExprs stay lists of well-formed entries, so every index the code  *)
(* takes past its guards lands on an element of the right shape.          *)
THEOREM QPTypeCorrect == Spec => []TypeOK
<1>1. TInv => TypeOK
  BY DEF TInv
<1>. QED  BY QPInitType, QPTypeStep, <1>1, PTL DEF Spec

-----------------------------------------------------------------------------
(* The select loop, as an invariant: while it runs, the items before i    *)
(* were accepted and copied, and HasAggr/hasNonAggr summarise them; once  *)
(* it is over nothing was refused and the columns are fixed; an error     *)
(* stop carries the error the statement calls for.                        *)
Accepted(n) == [k \in 1..n |-> [col |-> Items[k],
                                aggr |-> IsAggregateFunc(Items[k].expr)]]

AfterSelect == {"order", "aliasScan", "group", "groupScan", "done", "panic"}

SelInv ==
    /\ pc = "select" =>
         /\ i \in 1..Len(Items) + 1
         /\ \A k \in 1..i-1 : ~Offending(Items[k])
         /\ selectExprs = Accepted(i-1)
         /\ hasAggr = \E k \in 1..i-1 : IsAggregateFunc(Items[k].expr)
         /\ hasNonAggr = \E k \in 1..i-1 : ~IsAggregateFunc(Items[k].expr)
         /\ err = "none"
    /\ pc \in AfterSelect =>
         /\ Refused = {}
         /\ ~Mixed
         /\ err = "none"
         /\ selectExprs = Accepted(Len(Items))
         /\ hasAggr = \E k \in DOMAIN Items : IsAggregateFunc(Items[k].expr)
         /\ groupByExprs = sel.groupBy
    /\ pc = "error" => err = ExpectedError

(* FirstOf picks the least element of a set of indexes.                   *)
LEMMA FirstOfLeast ==
    ASSUME NEW S \in SUBSET Nat, NEW n \in S, \A m \in S : n <= m
    PROVE  FirstOf(S) = n
<1>1. \E k \in S : \A m \in S : k <= m
  OBVIOUS
<1>2. FirstOf(S) \in S /\ \A m \in S : FirstOf(S) <= m
  BY <1>1 DEF FirstOf
<1>3. FirstOf(S) \in Nat /\ FirstOf(S) <= n /\ n <= FirstOf(S)
  BY <1>2
<1>. QED  BY <1>3

(* Accepting one more item appends its column.                             *)
LEMMA AcceptedAppend ==
    ASSUME NEW n \in Nat
    PROVE  Accepted(n + 1) =
             Append(Accepted(n), [col |-> Items[n + 1],
                                  aggr |-> IsAggregateFunc(Items[n + 1].expr)])
BY DEF Accepted

(* The statement alone fixes the expected error.                           *)
LEMMA ExpectedUnchanged ==
    ASSUME sel' = sel
    PROVE  /\ Items' = Items
           /\ Refused' = Refused
           /\ Mixed' = Mixed
           /\ ExpectedError' = ExpectedError
<1>1. Items' = Items
  BY DEF Items
<1>2. Refused' = Refused /\ Mixed' = Mixed
  BY <1>1 DEF Refused, Mixed
<1>. QED  BY <1>1, <1>2 DEF ExpectedError

(* The statement's select list is a sequence of select items.             *)
LEMMA ItemsType ==
    ASSUME TypeOK
    PROVE  /\ Items \in Seq(SelectItems)
           /\ DOMAIN Items = 1..Len(Items)
<1>1. Items \in Seq(SelectItems)
  BY DEF TypeOK, SelectStmts, Items
<1>. QED  BY <1>1

(* Before the select loop nothing is accepted and no error is set.       *)
LEMMA SelInitInv == Init => SelInv
<1> SUFFICES ASSUME Init PROVE SelInv
  OBVIOUS
<1>1. TypeOK
  BY QPInitType DEF TInv
<1>2. Len(Items) \in Nat
  BY <1>1, ItemsType
<1>3. selectExprs = Accepted(1 - 1)
  BY DEF Init, Accepted
<1>4. 1..1-1 = {}
  OBVIOUS
<1>5. /\ hasAggr = \E k \in 1..1-1 : IsAggregateFunc(Items[k].expr)
      /\ hasNonAggr = \E k \in 1..1-1 : ~IsAggregateFunc(Items[k].expr)
  BY <1>4, Zenon DEF Init
<1>. QED  BY <1>2, <1>3, <1>5 DEF Init, SelInv, AfterSelect

(* While the select loop runs, the item at i is refused only if it is the *)
(* first refused item: the error is the one ExpectedError names.          *)
LEMMA FirstRefused ==
    ASSUME TypeOK, SelInv, pc = "select", i \in 1..Len(Items),
           Offending(Items[i])
    PROVE  ExpectedError = ErrorOf(Items[i])
<1>1. DOMAIN Items = 1..Len(Items)
  BY ItemsType
<1>2. i \in Refused
  BY <1>1 DEF Refused
<1>3. \A m \in Refused : i <= m
  <2> SUFFICES ASSUME NEW m \in Refused, m < i PROVE FALSE
    BY <1>1 DEF Refused
  <2>1. m \in 1..i-1 /\ Offending(Items[m])
    BY <1>1 DEF Refused
  <2>. QED  BY <2>1 DEF SelInv
<1>4. FirstOf(Refused) = i
  BY <1>1, <1>2, <1>3, FirstOfLeast DEF Refused
<1>. QED  BY <1>2, <1>4 DEF ExpectedError

(* The orderings and the grouping loop touch none of what SelInv is about. *)
LEMMA AfterSelectStep ==
    ASSUME SelInv, pc \in AfterSelect, pc' \in AfterSelect,
           UNCHANGED <<sel, selectExprs, hasAggr, groupByExprs, err>>
    PROVE  SelInv'
<1>1. /\ Items' = Items
      /\ Refused' = Refused
      /\ Mixed' = Mixed
  BY ExpectedUnchanged
<1>2. Accepted(Len(Items))' = Accepted(Len(Items))
  BY <1>1 DEF Accepted
<1>3. pc' # "select" /\ pc' # "error"
  BY DEF AfterSelect
<1>. QED  BY <1>1, <1>2, <1>3 DEF SelInv

(* addOrderBy stops, goes back to its loop or starts the alias search.    *)
LEMMA AddOrderByPc ==
    ASSUME NEW o, NEW r, AddOrderBy(o, r)
    PROVE  pc' \in {"panic", r, "aliasScan"}
BY DEF AddOrderBy

(* One step of the select loop at an item that is accepted.               *)
LEMMA AcceptStep ==
    ASSUME TypeOK, SelInv, pc = "select", i \in 1..Len(Items),
           ~Offending(Items[i]),
           NEW b \in BOOLEAN, b = IsAggregateFunc(Items[i].expr),
           pc' = "select", i' = i + 1, sel' = sel, err' = err,
           selectExprs' = Append(selectExprs, [col |-> Items[i], aggr |-> b]),
           hasAggr' = (hasAggr \/ b), hasNonAggr' = (hasNonAggr \/ ~b)
    PROVE  SelInv'
<1>1. Items' = Items
  BY ExpectedUnchanged
<1>2. i' \in 1..Len(Items') + 1 /\ i' - 1 = i /\ (i - 1) + 1 = i
  BY <1>1
<1>3. \A k \in 1..i'-1 : ~Offending(Items'[k])
  <2>1. \A k \in 1..i-1 : ~Offending(Items[k])
    BY DEF SelInv
  <2>2. 1..i'-1 = (1..i-1) \cup {i}
    BY <1>2
  <2>. QED  BY <1>1, <2>1, <2>2
<1>4. selectExprs' = (Accepted(i-1))'
  <2>1. selectExprs = Accepted(i-1)
    BY DEF SelInv
  <2>2. Accepted(i) = Append(Accepted(i-1), [col |-> Items[i], aggr |-> b])
    BY <1>2, AcceptedAppend
  <2>3. (Accepted(i-1))' = Accepted(i)
    BY <1>1, <1>2 DEF Accepted
  <2>. QED  BY <2>1, <2>2, <2>3
<1>5. /\ hasAggr' = \E k \in 1..i'-1 : IsAggregateFunc(Items'[k].expr)
      /\ hasNonAggr' = \E k \in 1..i'-1 : ~IsAggregateFunc(Items'[k].expr)
  <2>1. /\ hasAggr = \E k \in 1..i-1 : IsAggregateFunc(Items[k].expr)
        /\ hasNonAggr = \E k \in 1..i-1 : ~IsAggregateFunc(Items[k].expr)
    BY DEF SelInv
  <2>2. 1..i'-1 = (1..i-1) \cup {i}
    BY <1>2
  <2>. QED  BY <1>1, <2>1, <2>2
<1>6. err' = "none"
  BY DEF SelInv
<1>. QED  BY <1>2, <1>3, <1>4, <1>5, <1>6 DEF SelInv, AfterSelect

(* Every step of CreateQPFromSelect keeps SelInv.                        *)
LEMMA SelStep == TInv /\ SelInv /\ [Next]_vars => SelInv'
<1> SUFFICES ASSUME TInv, SelInv, [Next]_vars PROVE SelInv'
  OBVIOUS
<1>0. TypeOK /\ Len(Items) \in Nat
  BY ItemsType DEF TInv
<1>1. ASSUME pc = "select", i <= Len(Items)
      PROVE  i \in 1..Len(Items)
  BY <1>0, <1>1 DEF SelInv
<1>2. ASSUME pc = "select", i <= Len(Items), Offending(Items[i]),
             NEW e, ErrorOf(Items[i]) = e, Fail(e)
      PROVE  SelInv'
  <2>1. ExpectedError = e
    BY <1>0, <1>1, <1>2, FirstRefused
  <2>2. ExpectedError' = ExpectedError
    BY <1>2, ExpectedUnchanged DEF Fail
  <2>. QED  BY <1>2, <2>1, <2>2 DEF Fail, SelInv, AfterSelect
<1>3. CASE SelectNotAliased
  <2> DEFINE exp == Items[i]
  <2>1. pc = "select" /\ i <= Len(Items) /\ exp.kind # "aliased"
    BY <1>3 DEF SelectNotAliased, Items
  <2>2. Offending(exp) /\ ErrorOf(exp) = "unsupported"
    BY <2>1 DEF Offending, ErrorOf
  <2>. QED  BY <1>3, <2>1, <2>2, <1>2 DEF SelectNotAliased
<1>4. CASE SelectAggregate
  <2> DEFINE exp == Items[i]
  <2>1. /\ pc = "select" /\ i <= Len(Items)
        /\ exp.kind = "aliased" /\ IsAggregateFunc(exp.expr)
    BY <1>4 DEF SelectAggregate, Items
  <2>2. CASE exp.expr.nargs # 1
    <3>1. Offending(exp) /\ ErrorOf(exp) = "aggrArgs"
      BY <2>1, <2>2 DEF Offending, ErrorOf
    <3>2. Fail("aggrArgs")
      BY <1>4, <2>2 DEF SelectAggregate, Items
    <3>. QED  BY <2>1, <3>1, <3>2, <1>2
  <2>3. CASE exp.expr.nargs = 1 /\ exp.expr.distinct
    <3>1. Offending(exp) /\ ErrorOf(exp) = "distinctAggr"
      BY <2>1, <2>3 DEF Offending, ErrorOf
    <3>2. Fail("distinctAggr")
      BY <1>4, <2>3 DEF SelectAggregate, Items
    <3>. QED  BY <2>1, <3>1, <3>2, <1>2
  <2>4. CASE exp.expr.nargs = 1 /\ ~exp.expr.distinct
    <3>1. ~Offending(exp)
      BY <2>1, <2>4 DEF Offending
    <3>2. /\ pc' = "select" /\ i' = i + 1 /\ sel' = sel /\ err' = err
          /\ selectExprs' = Append(selectExprs, [col |-> exp, aggr |-> TRUE])
          /\ hasAggr' = (hasAggr \/ TRUE) /\ hasNonAggr' = (hasNonAggr \/ ~TRUE)
      BY <1>4, <2>4, <1>0 DEF SelectAggregate, Items, TypeOK
    <3>. QED  BY <1>0, <1>1, <2>1, <3>1, <3>2, AcceptStep
  <2>. QED  BY <2>2, <2>3, <2>4
<1>5. CASE SelectNonAggregate
  <2> DEFINE exp == Items[i]
  <2>1. /\ pc = "select" /\ i <= Len(Items)
        /\ exp.kind = "aliased" /\ ~IsAggregateFunc(exp.expr)
    BY <1>5 DEF SelectNonAggregate, Items
  <2>2. CASE ContainsAggregation(exp.expr)
    <3>1. Offending(exp) /\ ErrorOf(exp) = "complexAggr"
      BY <2>1, <2>2 DEF Offending, ErrorOf
    <3>2. Fail("complexAggr")
      BY <1>5, <2>2 DEF SelectNonAggregate, Items
    <3>. QED  BY <2>1, <3>1, <3>2, <1>2
  <2>3. CASE ~ContainsAggregation(exp.expr)
    <3>1. ~Offending(exp)
      BY <2>1, <2>3 DEF Offending
    <3>2. /\ pc' = "select" /\ i' = i + 1 /\ sel' = sel /\ err' = err
          /\ selectExprs' = Append(selectExprs, [col |-> exp, aggr |-> FALSE])
          /\ hasAggr' = (hasAggr \/ FALSE) /\ hasNonAggr' = (hasNonAggr \/ ~FALSE)
      BY <1>5, <2>3, <1>0 DEF SelectNonAggregate, Items, TypeOK
    <3>3. FALSE = IsAggregateFunc(exp.expr)
      BY <2>1
    <3>. QED  BY <1>0, <1>1, <2>1, <3>1, <3>2, <3>3, AcceptStep
  <2>. QED  BY <2>2, <2>3
<1>6. CASE SelectDone
  <2>1. pc = "select" /\ i = Len(Items) + 1
    BY <1>6, <1>0 DEF SelectDone, SelInv, Items
  <2>2. DOMAIN Items = 1..i-1
    BY <2>1, <1>0, ItemsType
  <2>3. Refused = {}
    BY <2>1, <2>2 DEF SelInv, Refused
  <2>4. Mixed = (hasNonAggr /\ hasAggr /\ sel.groupBy = <<>>)
    BY <2>1, <2>2 DEF SelInv, Mixed
  <2>5. CASE hasNonAggr /\ hasAggr /\ sel.groupBy = <<>> /\ Fail("mixedAggr")
    <3>1. ExpectedError' = "mixedAggr"
      BY <2>3, <2>4, <2>5, ExpectedUnchanged DEF ExpectedError, Fail
    <3>. QED  BY <2>5, <3>1 DEF Fail, SelInv, AfterSelect
  <2>6. CASE /\ ~(hasNonAggr /\ hasAggr /\ sel.groupBy = <<>>)
             /\ groupByExprs' = sel.groupBy
             /\ pc' = "order"
             /\ i' = 1
             /\ UNCHANGED <<sel, j, hasNonAggr, selectExprs, hasAggr, orderExprs,
                            order, ret, err>>
    <3>1. Items' = Items /\ Refused' = Refused /\ Mixed' = Mixed
      BY <2>6, ExpectedUnchanged
    <3>2. Accepted(Len(Items))' = Accepted(i-1)
      BY <2>1, <3>1 DEF Accepted
    <3>3. hasAggr' = \E k \in DOMAIN Items' : IsAggregateFunc(Items'[k].expr)
      BY <2>1, <2>2, <2>6, <3>1 DEF SelInv
    <3>. QED  BY <2>1, <2>3, <2>4, <2>6, <3>1, <3>2, <3>3 DEF SelInv, AfterSelect
  <2>. QED  BY <1>6, <2>5, <2>6 DEF SelectDone
<1>7. CASE OrderLoop
  <2>1. pc' \in AfterSelect
    BY <1>7, AddOrderByPc DEF OrderLoop, AfterSelect
  <2>. QED  BY <1>7, <2>1, AfterSelectStep DEF OrderLoop, AfterSelect
<1>8. CASE AliasScan
  <2>1. pc' \in AfterSelect
    BY <1>0, <1>8 DEF AliasScan, AfterSelect, TypeOK
  <2>. QED  BY <1>8, <2>1, AfterSelectStep DEF AliasScan, AfterSelect
<1>9. CASE GroupLoop
  <2>1. pc' \in AfterSelect
    BY <1>9 DEF GroupLoop, AfterSelect
  <2>. QED  BY <1>9, <2>1, AfterSelectStep DEF GroupLoop, AfterSelect
<1>10. CASE GroupScan
  <2>1. pc' \in AfterSelect
    BY <1>10, AddOrderByPc DEF GroupScan, AfterSelect
  <2>. QED  BY <1>10, <2>1, AfterSelectStep DEF GroupScan, AfterSelect
<1>11. CASE UNCHANGED vars
  <2>1. Items' = Items /\ Refused' = Refused /\ Mixed' = Mixed
        /\ ExpectedError' = ExpectedError
    BY <1>11, ExpectedUnchanged DEF vars
  <2>2. \A n : Accepted(n)' = Accepted(n)
    BY <2>1 DEF Accepted
  <2>. QED  BY <1>11, <2>1, <2>2 DEF vars, SelInv
<1>. QED  BY <1>3, <1>4, <1>5, <1>6, <1>7, <1>8, <1>9, <1>10, <1>11 DEF Next

(* The select list of CreateQPFromSelect, for every statement: it returns *)
(* the error of the first refused item (or of aggregates mixed with plain *)
(* columns without GROUP BY) exactly when one is refused, and otherwise a *)
(* projection whose SelectExprs, HasAggr and GroupByExprs are the select  *)
(* list, its aggregates and the GROUP BY.                                 *)
THEOREM SelectListCorrect == Spec => []SelectListFaithful
<1> DEFINE FInv == TInv /\ SelInv
<1>1. Init => FInv
  BY QPInitType, SelInitInv
<1>2. FInv /\ [Next]_vars => FInv'
  BY QPTypeStep, SelStep
<1>3. FInv => SelectListFaithful
  <2> SUFFICES ASSUME FInv, pc \in {"done", "error"} PROVE SelectListFaithful
    BY DEF SelectListFaithful
  <2>1. CASE pc = "error"
    BY <2>1 DEF SelInv, SelectListFaithful
  <2>2. CASE pc = "done"
    <3>1. DOMAIN Items = 1..Len(Items)
      BY ItemsType DEF TInv
    <3>2. ExpectedError = "none"
      BY <2>2 DEF SelInv, AfterSelect, ExpectedError
    <3>. QED  BY <2>2, <3>1, <3>2 DEF SelInv, AfterSelect, Accepted,
                                     SelectListFaithful
  <2>. QED  BY <2>1, <2>2
<1>. QED  BY <1>1, <1>2, <1>3, PTL DEF Spec

=============================================================================
