---------------------- MODULE QueryProjectionOrderProofs ----------------------
(***************************************************************************)
(* Proofs about the ORDER BY and grouping loops of CreateQPFromSelect:    *)
(* every ORDER BY item becomes the ordering it denotes, and every        *)
(* grouping key is ordered on.                                            *)
(***************************************************************************)
EXTENDS QueryProjectionProofs

USE QueryProjectionAssumption

OB == sel.orderBy
GB == sel.groupBy

(* The first n entries of OrderExprs are the ORDER BY items, resolved.     *)
OrderedUpTo(n) == \A k \in 1..n : orderExprs[k] = RefOrderBy(OB[k])

(* Inside addOrderBy's alias search: the items before j carry another alias. *)
AliasScanInv ==
    pc = "aliasScan" =>
      /\ order \in Orders
      /\ IsUnqualifiedCol(order.expr)
      /\ j \in 1..Len(Items) + 1
      /\ \A m \in 1..j-1 : Items[m].as # order.expr.name

InGroupPhase == \/ pc \in {"group", "groupScan", "done"}
                \/ pc = "aliasScan" /\ ret = "group"

(* The ORDER BY loop: the items before i are in OrderExprs, resolved.      *)
OrdInv ==
    /\ pc = "select" => orderExprs = <<>>
    /\ pc = "order" =>
         /\ i \in 1..Len(OB) + 1
         /\ Len(orderExprs) = i - 1
         /\ OrderedUpTo(Len(orderExprs))
    /\ pc = "aliasScan" /\ ret = "order" =>
         /\ i \in 2..Len(OB) + 1
         /\ order = OB[i - 1]
         /\ Len(orderExprs) = i - 2
         /\ OrderedUpTo(Len(orderExprs))
    /\ InGroupPhase =>
         /\ Len(orderExprs) >= Len(OB)
         /\ OrderedUpTo(Len(OB))

(* A select item that is a bare integer literal: SELECT 2, a ... .         *)
NoLiteralColumns ==
    \A k \in DOMAIN Items :
      ~(Items[k].kind = "aliased" /\ IsIntLiteral(Items[k].expr))

(* Some entry of OrderExprs orders on what the grouping key g denotes.    *)
Covered(g) ==
    \E k \in DOMAIN orderExprs : orderExprs[k].inner.expr = GroupOrder(g).inner.expr

(* Where the grouping loop is: i is the key being handled, or one past    *)
(* it once GroupScan has moved on to the alias search.                     *)
GroupBounds ==
    /\ pc = "aliasScan" /\ ret = "group" =>
         /\ i \in 2..Len(GB) + 1
         /\ order = [expr |-> GB[i - 1], dir |-> "asc"]
    /\ pc = "group" => i \in 1..Len(GB) + 1
    /\ pc = "groupScan" => i \in 1..Len(GB)
    /\ pc = "done" => i = Len(GB) + 1

(* The entries past the ORDER BY items order on keys before i.             *)
GroupEntries ==
    InGroupPhase =>
      \A k \in DOMAIN orderExprs :
        k > Len(OB) => \E m \in 1..i-1 : orderExprs[k] = GroupOrder(GB[m])

(* No entry orders on an integer literal.                                  *)
NoIntEntries ==
    \A k \in DOMAIN orderExprs : ~IsIntLiteral(orderExprs[k].inner.expr)

(* The keys the grouping loop is done with are covered.                    *)
KeysCovered ==
    /\ pc = "aliasScan" /\ ret = "group" => \A m \in 1..i-2 : Covered(GB[m])
    /\ pc \in {"group", "groupScan", "done"} => \A m \in 1..i-1 : Covered(GB[m])

(* The grouping loop; when no select item is a bare integer, no entry     *)
(* orders on an integer and the keys handled so far are covered.          *)
GroupInv ==
    /\ GroupBounds
    /\ GroupEntries
    /\ NoLiteralColumns => NoIntEntries /\ KeysCovered

-----------------------------------------------------------------------------
(* After the select loop every select item is an aliased expression, and  *)
(* SelectExprs is the select list.                                        *)
LEMMA PostSelect ==
    ASSUME TInv, SelInv, pc \in AfterSelect
    PROVE  /\ DOMAIN Items = 1..Len(Items)
           /\ \A k \in DOMAIN Items : Items[k] \in AliasedExprs
           /\ selectExprs = Accepted(Len(Items))
           /\ Len(selectExprs) = Len(Items)
           /\ \A k \in 1..Len(Items) : selectExprs[k].col = Items[k]
<1>1. DOMAIN Items = 1..Len(Items) /\ Items \in Seq(SelectItems)
  BY ItemsType DEF TInv
<1>2. Refused = {} /\ selectExprs = Accepted(Len(Items))
  BY DEF SelInv
<1>3. \A k \in DOMAIN Items : Items[k] \in AliasedExprs
  <2> SUFFICES ASSUME NEW k \in DOMAIN Items PROVE Items[k] \in AliasedExprs
    OBVIOUS
  <2>1. ~Offending(Items[k])
    BY <1>2 DEF Refused
  <2>2. Items[k] \in SelectItems /\ Items[k].kind = "aliased"
    BY <1>1, <2>1, ElementOfSeq DEF Offending
  <2>. QED  BY <2>2, AliasedItemType
<1>4. Len(selectExprs) = Len(Items)
  BY <1>1, <1>2 DEF Accepted
<1>. QED  BY <1>1, <1>2, <1>3, <1>4 DEF Accepted

(* A column expression is a ColName.                                       *)
LEMMA ColKind ==
    ASSUME NEW e \in Expr, e.kind = "col"
    PROVE  e \in ColNames /\ e.name \in Names
BY DEF Expr, ColNames, Literals, FuncExprs

(* The references depend on the statement only.                            *)
LEMMA RefUnchanged ==
    ASSUME sel' = sel
    PROVE  /\ OB' = OB /\ GB' = GB /\ Items' = Items
           /\ \A o : RefOrderBy(o)' = RefOrderBy(o)
<1>1. Items' = Items /\ OB' = OB /\ GB' = GB
  BY DEF Items, OB, GB
<1>2. \A n : AliasIndexes(n)' = AliasIndexes(n)
  BY <1>1 DEF AliasIndexes
<1>. QED  BY <1>1, <1>2 DEF RefOrderBy

(* addOrderBy after the select loop: it panics, appends the ordering the  *)
(* item denotes, or starts the alias search for an unqualified column.    *)
LEMMA AddOrderByRef ==
    ASSUME TInv, SelInv, pc \in AfterSelect, NEW o \in Orders, NEW r,
           AddOrderBy(o, r)
    PROVE  \/ pc' = "panic" /\ orderExprs' = orderExprs
           \/ /\ pc' = r
              /\ orderExprs' = Append(orderExprs, RefOrderBy(o))
              /\ IsIntLiteral(o.expr) => o.expr.val \in 1..Len(Items)
           \/ /\ pc' = "aliasScan" /\ order' = o /\ ret' = r /\ j' = 1
              /\ IsUnqualifiedCol(o.expr)
              /\ orderExprs' = orderExprs
<1>0. /\ \A k \in DOMAIN Items : Items[k] \in AliasedExprs
      /\ Len(selectExprs) = Len(Items)
      /\ \A k \in 1..Len(Items) : selectExprs[k].col = Items[k]
  BY PostSelect
<1>1. CASE IsIntLiteral(o.expr) /\ o.expr.val \notin 1..Len(selectExprs)
  BY <1>1 DEF AddOrderBy
<1>2. CASE IsIntLiteral(o.expr) /\ o.expr.val \in 1..Len(selectExprs)
  <2> DEFINE c == Items[o.expr.val]
  <2>1. selectExprs[o.expr.val].col = c
    BY <1>0, <1>2
  <2>2. RefOrderBy(o) =
          [inner |-> [expr |-> IF c.as = NoName THEN c.expr ELSE AliasCol(c.as),
                      dir |-> o.dir],
           weight |-> c.expr]
    BY <1>2 DEF RefOrderBy, IsIntLiteral, IsUnqualifiedCol
  <2>3. orderExprs' =
          Append(orderExprs,
                 [inner |-> [expr |-> IF c.as # NoName THEN AliasCol(c.as)
                                                        ELSE c.expr,
                             dir |-> o.dir],
                  weight |-> c.expr])
    BY <1>2, <2>1 DEF AddOrderBy
  <2>4. pc' = r
    BY <1>2 DEF AddOrderBy
  <2>. QED  BY <1>0, <1>2, <2>2, <2>3, <2>4
<1>3. CASE ~IsIntLiteral(o.expr) /\ IsUnqualifiedCol(o.expr)
  BY <1>3 DEF AddOrderBy
<1>4. CASE ~IsIntLiteral(o.expr) /\ ~IsUnqualifiedCol(o.expr)
  <2>1. RefOrderBy(o) = [inner |-> o, weight |-> o.expr]
    BY <1>4 DEF RefOrderBy
  <2>. QED  BY <1>4, <2>1 DEF AddOrderBy
<1>. QED  BY <1>1, <1>2, <1>3, <1>4

(* One step of the alias search: the first item carrying the alias ends   *)
(* it with the ordering RefOrderBy gives; so does the end of the list.    *)
LEMMA AliasScanRef ==
    ASSUME TInv, SelInv, AliasScanInv, AliasScan
    PROVE  \/ /\ pc' = ret
              /\ orderExprs' = Append(orderExprs, RefOrderBy(order))
           \/ /\ pc' = "aliasScan" /\ j' = j + 1 /\ orderExprs' = orderExprs
              /\ j \in 1..Len(Items) /\ Items[j].as # order.expr.name
<1>0. pc = "aliasScan" /\ pc \in AfterSelect
  BY DEF AliasScan, AfterSelect
<1>1. /\ DOMAIN Items = 1..Len(Items)
      /\ \A k \in DOMAIN Items : Items[k] \in AliasedExprs
      /\ Len(selectExprs) = Len(Items)
      /\ \A k \in 1..Len(Items) : selectExprs[k].col = Items[k]
  BY <1>0, PostSelect
<1>2. /\ order \in Orders /\ IsUnqualifiedCol(order.expr)
      /\ j \in 1..Len(Items) + 1
      /\ \A m \in 1..j-1 : Items[m].as # order.expr.name
  BY <1>0 DEF AliasScanInv
<1>3. order.expr.name \in Names /\ NoName \notin Names
  <2>1. order.expr \in Expr /\ order.expr.kind = "col"
    BY <1>2 DEF Orders, IsUnqualifiedCol
  <2>. QED  BY <2>1, ColKind
<1>4. ~IsIntLiteral(order.expr)
  BY <1>2 DEF IsIntLiteral, IsUnqualifiedCol
<1>5. CASE j <= Len(Items) /\ Items[j].as = order.expr.name
  <2>1. j \in AliasIndexes(order.expr.name)
        /\ \A m \in AliasIndexes(order.expr.name) : j <= m
    BY <1>1, <1>2, <1>5 DEF AliasIndexes
  <2>2. FirstOf(AliasIndexes(order.expr.name)) = j
    BY <1>1, <2>1, FirstOfLeast DEF AliasIndexes
  <2>3. RefOrderBy(order) = [inner |-> order, weight |-> Items[j].expr]
    BY <1>2, <1>4, <2>1, <2>2 DEF RefOrderBy
  <2>4. selectExprs[j].col = Items[j] /\ j <= Len(selectExprs)
    BY <1>1, <1>2, <1>5
  <2>5. selectExprs[j].col.as # NoName /\ selectExprs[j].col.as = order.expr.name
    BY <1>3, <1>5, <2>4
  <2>6. /\ orderExprs' = Append(orderExprs, [inner |-> order,
                                             weight |-> selectExprs[j].col.expr])
        /\ pc' = ret
    BY <1>0, <1>2, <2>4, <2>5 DEF AliasScan
  <2>. QED  BY <2>3, <2>4, <2>6
<1>6. CASE j <= Len(Items) /\ Items[j].as # order.expr.name
  <2>1. selectExprs[j].col = Items[j] /\ j <= Len(selectExprs)
    BY <1>1, <1>2, <1>6
  <2>. QED  BY <1>0, <1>2, <1>6, <2>1 DEF AliasScan
<1>7. CASE j > Len(Items)
  <2>1. AliasIndexes(order.expr.name) = {}
    BY <1>1, <1>2, <1>7 DEF AliasIndexes
  <2>2. RefOrderBy(order) = [inner |-> order, weight |-> order.expr]
    BY <1>4, <2>1 DEF RefOrderBy
  <2>3. /\ orderExprs' = Append(orderExprs, [inner |-> order,
                                             weight |-> order.expr])
        /\ pc' = ret
    BY <1>0, <1>1, <1>2, <1>7 DEF AliasScan
  <2>. QED  BY <2>2, <2>3
<1>. QED  BY <1>2, <1>5, <1>6, <1>7

(* Every step leaves the statement alone.                                  *)
LEMMA SelConst == [Next]_vars => sel' = sel
BY DEF Next, vars, SelectNotAliased, SelectAggregate, SelectNonAggregate,
       SelectDone, OrderLoop, AliasScan, GroupLoop, GroupScan, Fail

(* Appending an entry keeps the entries before it.                        *)
LEMMA OrderedKeep ==
    ASSUME orderExprs \in Seq(OrderEntries), sel' = sel,
           \E x : orderExprs' = Append(orderExprs, x)
    PROVE  /\ \A n \in 0..Len(orderExprs) : OrderedUpTo(n) => OrderedUpTo(n)'
           /\ Len(OB) <= Len(orderExprs) /\ OrderedUpTo(Len(OB))
              => OrderedUpTo(Len(OB))'
<1>1. OB' = OB /\ \A o : RefOrderBy(o)' = RefOrderBy(o)
  BY RefUnchanged
<1>2. PICK x : orderExprs' = Append(orderExprs, x)
  OBVIOUS
<1>3. \A k \in 1..Len(orderExprs) : orderExprs'[k] = orderExprs[k]
  BY <1>2
<1>. QED  BY <1>1, <1>3 DEF OrderedUpTo

(* Appending the next ORDER BY item, resolved, extends OrderedUpTo.        *)
LEMMA OrderedExtend ==
    ASSUME orderExprs \in Seq(OrderEntries), sel' = sel,
           OrderedUpTo(Len(orderExprs)),
           orderExprs' = Append(orderExprs, RefOrderBy(OB[Len(orderExprs) + 1]))
    PROVE  /\ OrderedUpTo(Len(orderExprs))'
           /\ Len(orderExprs') = Len(orderExprs) + 1
<1>1. OB' = OB /\ \A o : RefOrderBy(o)' = RefOrderBy(o)
  BY RefUnchanged
<1>2. /\ Len(orderExprs') = Len(orderExprs) + 1
      /\ \A k \in 1..Len(orderExprs) : orderExprs'[k] = orderExprs[k]
      /\ orderExprs'[Len(orderExprs) + 1] = RefOrderBy(OB[Len(orderExprs) + 1])
  OBVIOUS
<1>3. \A k \in 1..Len(orderExprs) : orderExprs'[k] = RefOrderBy(OB[k])
  BY <1>2 DEF OrderedUpTo
<1>4. \A k \in 1..Len(orderExprs) + 1 : orderExprs'[k] = RefOrderBy(OB[k])
  BY <1>2, <1>3
<1>5. OrderedUpTo(Len(orderExprs))'
  BY <1>1, <1>2, <1>4 DEF OrderedUpTo
<1>. QED  BY <1>2, <1>5

(* Leaving OrderExprs alone keeps OrderedUpTo.                             *)
LEMMA OrderedUnchanged ==
    ASSUME orderExprs' = orderExprs, sel' = sel
    PROVE  /\ \A n : OrderedUpTo(n)' = OrderedUpTo(n)
           /\ OrderedUpTo(Len(orderExprs))' = OrderedUpTo(Len(orderExprs))
           /\ OrderedUpTo(Len(OB))' = OrderedUpTo(Len(OB))
<1>1. OB' = OB /\ \A o : RefOrderBy(o)' = RefOrderBy(o)
  BY RefUnchanged
<1>. QED  BY <1>1 DEF OrderedUpTo

OInv == AliasScanInv /\ OrdInv

(* A step of the select loop leaves OrderExprs empty.                       *)
LEMMA OrdSelectStep ==
    ASSUME OInv, pc = "select", pc' \in {"select", "error"},
           orderExprs' = orderExprs
    PROVE  OInv'
BY DEF OInv, OrdInv, AliasScanInv, InGroupPhase

(* A step of the ORDER BY and grouping loops that appends or changes      *)
(* nothing of the ORDER BY part: group-phase facts carry over.            *)
LEMMA OrdGroupStep ==
    ASSUME TInv, OInv, InGroupPhase, InGroupPhase', sel' = sel,
           pc' # "aliasScan",
           \/ orderExprs' = orderExprs
           \/ orderExprs' = Append(orderExprs, RefOrderBy(order))
           \/ \E o : orderExprs' = Append(orderExprs, RefOrderBy(o))
    PROVE  OInv'
<1>0. orderExprs \in Seq(OrderEntries) /\ Len(OB) \in Nat
      /\ Len(orderExprs) >= Len(OB) /\ OrderedUpTo(Len(OB))
  BY DEF TInv, TypeOK, OInv, OrdInv, SelectStmts, OB
<1>1. OB' = OB
  BY RefUnchanged
<1>2. Len(orderExprs') >= Len(OB') /\ OrderedUpTo(Len(OB))'
  <2>1. CASE orderExprs' = orderExprs
    <3>1. OrderedUpTo(Len(OB))' = OrderedUpTo(Len(OB))
      BY <1>0, <2>1, OrderedUnchanged
    <3>. QED  BY <1>0, <1>1, <2>1, <3>1
  <2>2. CASE \E o : orderExprs' = Append(orderExprs, RefOrderBy(o))
    <3>1. PICK o : orderExprs' = Append(orderExprs, RefOrderBy(o))
      BY <2>2
    <3>2. Len(orderExprs') = Len(orderExprs) + 1
      BY <1>0, <3>1
    <3>3. OrderedUpTo(Len(OB))'
      <4>1. \E x : orderExprs' = Append(orderExprs, x)
        BY <3>1
      <4>. QED  BY <1>0, <4>1, OrderedKeep
    <3>. QED  BY <1>0, <1>1, <3>2, <3>3
  <2>. QED  BY <2>1, <2>2
<1>. QED  BY <1>2 DEF OInv, OrdInv, AliasScanInv, InGroupPhase

LEMMA OrdStep == TInv /\ SelInv /\ OInv /\ [Next]_vars => OInv'
<1> SUFFICES ASSUME TInv, SelInv, OInv, [Next]_vars PROVE OInv'
  OBVIOUS
<1>0. /\ TypeOK /\ sel' = sel /\ Len(OB) \in Nat
      /\ orderExprs \in Seq(OrderEntries)
      /\ OB' = OB /\ Items' = Items
  BY SelConst, RefUnchanged DEF TInv, TypeOK, SelectStmts, OB
<1>1. CASE SelectNotAliased \/ SelectAggregate \/ SelectNonAggregate
  <2>1. pc = "select" /\ pc' \in {"select", "error"} /\ orderExprs' = orderExprs
    BY <1>1 DEF SelectNotAliased, SelectAggregate, SelectNonAggregate, Fail
  <2>. QED  BY <2>1, OrdSelectStep
<1>2. CASE SelectDone
  <2>1. CASE pc' = "error"
    <3>1. pc = "select" /\ orderExprs' = orderExprs
      BY <1>2 DEF SelectDone, Fail
    <3>. QED  BY <2>1, <3>1, OrdSelectStep
  <2>2. CASE pc' # "error"
    <3>1. pc = "select" /\ pc' = "order" /\ i' = 1 /\ orderExprs' = orderExprs
      BY <1>2, <2>2 DEF SelectDone, Fail
    <3>2. orderExprs = <<>>
      BY <3>1 DEF OInv, OrdInv
    <3>3. OrderedUpTo(Len(orderExprs))'
      BY <3>1, <3>2 DEF OrderedUpTo
    <3>. QED  BY <1>0, <3>1, <3>2, <3>3 DEF OInv, OrdInv, AliasScanInv,
                                           InGroupPhase
  <2>. QED  BY <2>1, <2>2
<1>3. CASE OrderLoop
  <2>0. /\ pc = "order" /\ i \in 1..Len(OB) + 1 /\ Len(orderExprs) = i - 1
        /\ OrderedUpTo(Len(orderExprs))
    BY <1>3 DEF OrderLoop, OInv, OrdInv
  <2>1. CASE i <= Len(OB)
    <3>1. OB[i] \in Orders
      BY <1>0, <2>0, <2>1, ElementOfSeq DEF TypeOK, SelectStmts, OB
    <3>2. AddOrderBy(OB[i], "order") /\ i' = i + 1
      <4>1. ~(i > Len(sel.orderBy))
        BY <1>0, <2>0, <2>1 DEF OB
      <4>. QED  BY <1>3, <4>1, Zenon DEF OrderLoop, OB
    <3>3. pc \in AfterSelect
      BY <2>0 DEF AfterSelect
    <3>4. CASE pc' = "panic"
      BY <3>4 DEF OInv, OrdInv, AliasScanInv, InGroupPhase
    <3>5. CASE /\ pc' = "order"
               /\ orderExprs' = Append(orderExprs, RefOrderBy(OB[i]))
      <4>0. orderExprs' = Append(orderExprs, RefOrderBy(OB[Len(orderExprs) + 1]))
        BY <2>0, <3>5
      <4>1. Len(orderExprs') = i /\ OrderedUpTo(Len(orderExprs))'
        <5>1. OrderedUpTo(Len(orderExprs))'
              /\ Len(orderExprs') = Len(orderExprs) + 1
          BY <1>0, <2>0, <4>0, OrderedExtend
        <5>. QED  BY <2>0, <5>1
      <4>. QED  BY <1>0, <2>0, <2>1, <3>2, <3>5, <4>1
                DEF OInv, OrdInv, AliasScanInv, InGroupPhase
    <3>6. CASE /\ pc' = "aliasScan" /\ order' = OB[i] /\ ret' = "order"
               /\ j' = 1 /\ IsUnqualifiedCol(OB[i].expr)
               /\ orderExprs' = orderExprs
      <4>1. OrderedUpTo(Len(orderExprs))' /\ Len(Items) \in Nat
        <5>1. OrderedUpTo(Len(orderExprs))' = OrderedUpTo(Len(orderExprs))
          BY <1>0, <3>6, OrderedUnchanged
        <5>2. Len(Items) \in Nat
          BY <1>0, ItemsType
        <5>. QED  BY <2>0, <5>1, <5>2
      <4>. QED  BY <1>0, <2>0, <2>1, <3>1, <3>2, <3>6, <4>1
                DEF OInv, OrdInv, AliasScanInv, InGroupPhase
    <3>. QED  BY <3>1, <3>2, <3>3, <3>4, <3>5, <3>6, AddOrderByRef
  <2>2. CASE i > Len(OB)
    <3>1. pc' = "group" /\ orderExprs' = orderExprs
      BY <1>0, <1>3, <2>0, <2>2 DEF OrderLoop, OB
    <3>2. Len(orderExprs) = Len(OB) /\ OrderedUpTo(Len(OB))'
      <4>1. Len(orderExprs) = Len(OB)
        BY <1>0, <2>0, <2>2
      <4>2. OrderedUpTo(Len(OB))
        BY <2>0, <4>1
      <4>3. OrderedUpTo(Len(OB))' = OrderedUpTo(Len(OB))
        BY <1>0, <3>1, OrderedUnchanged
      <4>. QED  BY <4>1, <4>2, <4>3
    <3>. QED  BY <1>0, <3>1, <3>2 DEF OInv, OrdInv, AliasScanInv, InGroupPhase
  <2>. QED  BY <1>0, <2>0, <2>1, <2>2
<1>4. CASE AliasScan
  <2>0. pc = "aliasScan" /\ UNCHANGED <<i, order, ret>> /\ ret \in {"order", "group"}
    BY <1>0, <1>4 DEF AliasScan, TypeOK
  <2>1. CASE /\ pc' = ret
             /\ orderExprs' = Append(orderExprs, RefOrderBy(order))
    <3>1. CASE ret = "order"
      <4>1. /\ i \in 2..Len(OB) + 1 /\ order = OB[i - 1]
            /\ Len(orderExprs) = i - 2 /\ OrderedUpTo(Len(orderExprs))
        BY <2>0, <3>1 DEF OInv, OrdInv
      <4>2. orderExprs' = Append(orderExprs, RefOrderBy(OB[Len(orderExprs) + 1]))
        BY <2>1, <4>1
      <4>3. Len(orderExprs') = i - 1 /\ OrderedUpTo(Len(orderExprs))'
        <5>1. OrderedUpTo(Len(orderExprs))'
              /\ Len(orderExprs') = Len(orderExprs) + 1
          BY <1>0, <4>1, <4>2, OrderedExtend
        <5>. QED  BY <4>1, <5>1
      <4>. QED  BY <1>0, <2>0, <2>1, <3>1, <4>1, <4>3
                DEF OInv, OrdInv, AliasScanInv, InGroupPhase
    <3>2. CASE ret = "group"
      BY <1>0, <2>0, <2>1, <3>2, OrdGroupStep DEF InGroupPhase
    <3>. QED  BY <2>0, <3>1, <3>2
  <2>2. CASE /\ pc' = "aliasScan" /\ j' = j + 1 /\ orderExprs' = orderExprs
             /\ j \in 1..Len(Items) /\ Items[j].as # order.expr.name
    <3>1. /\ OrderedUpTo(Len(orderExprs))' = OrderedUpTo(Len(orderExprs))
          /\ OrderedUpTo(Len(OB))' = OrderedUpTo(Len(OB))
      BY <1>0, <2>2, OrderedUnchanged
    <3>2. AliasScanInv'
      BY <1>0, <2>0, <2>2 DEF OInv, AliasScanInv
    <3>. QED  BY <1>0, <2>0, <2>2, <3>1, <3>2 DEF OInv, OrdInv, InGroupPhase
  <2>. QED  BY <1>4, <2>1, <2>2, AliasScanRef DEF OInv
<1>5. CASE GroupLoop
  <2>1. /\ pc = "group" /\ pc' \in {"groupScan", "done"}
        /\ orderExprs' = orderExprs
    BY <1>5 DEF GroupLoop
  <2>. QED  BY <1>0, <2>1, OrdGroupStep DEF InGroupPhase
<1>6. CASE GroupScan
  <2>0. pc = "groupScan" /\ pc \in AfterSelect
    BY <1>6 DEF GroupScan, AfterSelect
  <2>1. CASE j <= Len(orderExprs)
    <3>1. pc' \in {"group", "groupScan"} /\ orderExprs' = orderExprs
      BY <1>0, <1>6, <2>1 DEF GroupScan, TypeOK
    <3>. QED  BY <1>0, <2>0, <3>1, OrdGroupStep DEF InGroupPhase
  <2>2. CASE j > Len(orderExprs)
    <3> DEFINE o == [expr |-> groupByExprs[i], dir |-> "asc"]
    <3>1. i \in 1..Len(groupByExprs) /\ groupByExprs \in Seq(Expr)
      BY <2>0 DEF TInv, ScanInv, TypeOK
    <3>2. o \in Orders
      BY <3>1, ElementOfSeq DEF Orders
    <3>3. AddOrderBy(o, "group") /\ UNCHANGED groupByExprs
      BY <1>0, <1>6, <2>2 DEF GroupScan, TypeOK
    <3>4. CASE pc' = "panic"
      BY <3>4 DEF OInv, OrdInv, AliasScanInv, InGroupPhase
    <3>5. CASE pc' = "group" /\ orderExprs' = Append(orderExprs, RefOrderBy(o))
      BY <1>0, <2>0, <3>5, OrdGroupStep DEF InGroupPhase
    <3>6. CASE /\ pc' = "aliasScan" /\ order' = o /\ ret' = "group"
               /\ j' = 1 /\ IsUnqualifiedCol(o.expr)
               /\ orderExprs' = orderExprs
      <4>1. /\ OrderedUpTo(Len(orderExprs))' = OrderedUpTo(Len(orderExprs))
            /\ OrderedUpTo(Len(OB))' = OrderedUpTo(Len(OB))
        BY <1>0, <3>6, OrderedUnchanged
      <4>2. Len(Items) \in Nat
        BY <1>0, ItemsType
      <4>. QED  BY <1>0, <2>0, <3>2, <3>6, <4>1, <4>2
                DEF OInv, OrdInv, AliasScanInv, InGroupPhase
    <3>. QED  BY <2>0, <3>2, <3>3, <3>4, <3>5, <3>6, AddOrderByRef
  <2>. QED  BY <1>0, <2>1, <2>2 DEF TypeOK
<1>7. CASE UNCHANGED vars
  <2>1. /\ OrderedUpTo(Len(orderExprs))' = OrderedUpTo(Len(orderExprs))
        /\ OrderedUpTo(Len(OB))' = OrderedUpTo(Len(OB))
    BY <1>0, <1>7, OrderedUnchanged DEF vars
  <2>. QED  BY <1>0, <1>7, <2>1 DEF vars, OInv, OrdInv, AliasScanInv,
                                    InGroupPhase
<1>. QED  BY <1>1, <1>2, <1>3, <1>4, <1>5, <1>6, <1>7 DEF Next

(* The initial state has an empty OrderExprs and is in the select loop.   *)
LEMMA OrdInitInv == Init => OInv
BY DEF Init, OInv, OrdInv, AliasScanInv, InGroupPhase

(* ORDER BY (addOrderBy, queryprojection.go:84-86 and 105-150): on every   *)
(* input statement, once CreateQPFromSelect returns, OrderExprs begins    *)
(* with one entry per ORDER BY item, in order, each the item resolved as  *)
(* addOrderBy resolves it: an offset to the select item it names, an      *)
(* alias to the weight of the expression behind it.                       *)
THEOREM OrderByCorrect == Spec => []OrderByFaithful
<1> DEFINE FInv == TInv /\ SelInv /\ OInv
<1>1. Init => FInv
  BY QPInitType, SelInitInv, OrdInitInv
<1>2. FInv /\ [Next]_vars => FInv'
  BY QPTypeStep, SelStep, OrdStep
<1>3. FInv => OrderByFaithful
  BY DEF OInv, OrdInv, InGroupPhase, OrderedUpTo, OB, OrderByFaithful
<1>. QED  BY <1>1, <1>2, <1>3, PTL DEF Spec

-----------------------------------------------------------------------------
(* GroupOrder on a key that is not an integer orders on the key itself.   *)
LEMMA GroupOrderInner ==
    ASSUME NEW g, ~IsIntLiteral(g)
    PROVE  GroupOrder(g).inner.expr = g
<1> DEFINE o == [expr |-> g, dir |-> "asc"]
<1>1. ~IsIntLiteral(o.expr)
  BY DEF o
<1>2. RefOrderBy(o).inner = o
  BY <1>1 DEF RefOrderBy
<1>. QED  BY <1>2 DEF GroupOrder, o

(* When no select item is a bare integer, no ordering addOrderBy builds   *)
(* orders on an integer: an offset resolves to the item or its alias.      *)
LEMMA RefNotLit ==
    ASSUME TInv, SelInv, pc \in AfterSelect, NoLiteralColumns,
           NEW o \in Orders,
           IsIntLiteral(o.expr) => o.expr.val \in 1..Len(Items)
    PROVE  ~IsIntLiteral(RefOrderBy(o).inner.expr)
<1>0. /\ DOMAIN Items = 1..Len(Items)
      /\ \A k \in DOMAIN Items : Items[k] \in AliasedExprs
  BY PostSelect
<1>1. CASE IsIntLiteral(o.expr)
  <2> DEFINE c == Items[o.expr.val]
  <2>1. c \in AliasedExprs /\ ~IsIntLiteral(c.expr)
    BY <1>0, <1>1 DEF NoLiteralColumns, AliasedExprs, c
  <2>2. RefOrderBy(o).inner.expr =
          IF c.as = NoName THEN c.expr ELSE AliasCol(c.as)
    BY <1>1 DEF RefOrderBy, c, IsIntLiteral, IsUnqualifiedCol
  <2>3. ~IsIntLiteral(AliasCol(c.as))
    BY DEF AliasCol, IsIntLiteral
  <2>. QED  BY <2>1, <2>2, <2>3
<1>2. CASE ~IsIntLiteral(o.expr)
  <2>1. RefOrderBy(o).inner = o
    BY <1>2 DEF RefOrderBy
  <2>. QED  BY <1>2, <2>1
<1>. QED  BY <1>1, <1>2

(* The grouping orderings depend on the statement only.                    *)
LEMMA GroupUnchanged ==
    ASSUME sel' = sel
    PROVE  /\ GB' = GB /\ OB' = OB
           /\ NoLiteralColumns' = NoLiteralColumns
           /\ \A g : GroupOrder(g)' = GroupOrder(g)
<1>1. GB' = GB /\ OB' = OB /\ Items' = Items
      /\ \A o : RefOrderBy(o)' = RefOrderBy(o)
  BY RefUnchanged
<1>2. NoLiteralColumns' = NoLiteralColumns
  BY <1>1 DEF NoLiteralColumns
<1>3. \A g : GroupOrder(g)' = GroupOrder(g)
  BY <1>1 DEF GroupOrder
<1>. QED  BY <1>1, <1>2, <1>3

(* Appending to OrderExprs, or leaving it alone, keeps what it covers.    *)
LEMMA CoveredKeep ==
    ASSUME orderExprs \in Seq(OrderEntries), sel' = sel,
           \/ orderExprs' = orderExprs
           \/ \E x : orderExprs' = Append(orderExprs, x)
    PROVE  \A g : Covered(g) => Covered(g)'
<1>1. \A g : GroupOrder(g)' = GroupOrder(g)
  BY GroupUnchanged
<1>2. \A k \in DOMAIN orderExprs :
        k \in DOMAIN orderExprs' /\ orderExprs'[k] = orderExprs[k]
  <2>1. CASE orderExprs' = orderExprs
    BY <2>1
  <2>2. CASE \E x : orderExprs' = Append(orderExprs, x)
    <3>1. PICK x : orderExprs' = Append(orderExprs, x)
      BY <2>2
    <3>. QED  BY <3>1
  <2>. QED  BY <2>1, <2>2
<1>. QED  BY <1>1, <1>2 DEF Covered

(* Appending an entry that orders on no integer keeps NoIntEntries.        *)
LEMMA NoIntKeep ==
    ASSUME orderExprs \in Seq(OrderEntries), NoIntEntries,
           \/ orderExprs' = orderExprs
           \/ \E x : orderExprs' = Append(orderExprs, x)
                     /\ ~IsIntLiteral(x.inner.expr)
    PROVE  NoIntEntries'
<1>1. CASE orderExprs' = orderExprs
  BY <1>1 DEF NoIntEntries
<1>2. CASE \E x : orderExprs' = Append(orderExprs, x)
                  /\ ~IsIntLiteral(x.inner.expr)
  <2>1. PICK x : orderExprs' = Append(orderExprs, x)
                 /\ ~IsIntLiteral(x.inner.expr)
    BY <1>2
  <2>. QED  BY <2>1 DEF NoIntEntries
<1>. QED  BY <1>1, <1>2

(* A step that moves only j, or nothing, keeps GroupInv.                   *)
LEMMA GroupInvUnchanged ==
    ASSUME GroupInv, sel' = sel, orderExprs \in Seq(OrderEntries),
           UNCHANGED <<pc, i, order, ret, orderExprs>>
    PROVE  GroupInv'
<1>1. GB' = GB /\ OB' = OB /\ NoLiteralColumns' = NoLiteralColumns
      /\ \A g : GroupOrder(g)' = GroupOrder(g)
  BY GroupUnchanged
<1>2. \A g : Covered(g)' = Covered(g)
  BY <1>1 DEF Covered
<1>. QED  BY <1>1, <1>2 DEF GroupInv, GroupBounds, GroupEntries, NoIntEntries,
                          KeysCovered, InGroupPhase

(* The facts about the statement every step of the ORDER BY and grouping *)
(* loops relies on.                                                        *)
LEMMA GroupFacts ==
    ASSUME TInv, SelInv, pc \in AfterSelect, sel' = sel
    PROVE  /\ GB' = GB /\ OB' = OB
           /\ NoLiteralColumns' = NoLiteralColumns
           /\ \A g : GroupOrder(g)' = GroupOrder(g)
           /\ GB \in Seq(Expr) /\ Len(GB) \in Nat /\ Len(OB) \in Nat
           /\ groupByExprs = GB
           /\ orderExprs \in Seq(OrderEntries)
<1>1. GB' = GB /\ OB' = OB /\ NoLiteralColumns' = NoLiteralColumns
      /\ \A g : GroupOrder(g)' = GroupOrder(g)
  BY GroupUnchanged
<1>2. groupByExprs = GB
  BY DEF SelInv, GB
<1>. QED  BY <1>1, <1>2 DEF TInv, TypeOK, SelectStmts, GB, OB

(* A step of the select phase: OrderExprs is still empty.                  *)
LEMMA GroupSelectStep ==
    ASSUME pc' \in {"select", "error", "order"}, orderExprs' = <<>>
    PROVE  GroupInv'
BY DEF GroupInv, GroupBounds, GroupEntries, NoIntEntries, KeysCovered,
       InGroupPhase

(* A step of the ORDER BY loop: what it appends orders on no integer, and *)
(* when it ends no entry is past the ORDER BY items yet.                   *)
LEMMA GroupOrderLoopStep ==
    ASSUME TInv, SelInv, OInv, GroupInv, OrderLoop
    PROVE  GroupInv'
<1>0. /\ pc = "order" /\ pc \in AfterSelect /\ sel' = sel
      /\ i \in 1..Len(OB) + 1 /\ Len(orderExprs) = i - 1
  BY DEF OrderLoop, AfterSelect, OInv, OrdInv
<1>1. /\ GB' = GB /\ OB' = OB /\ NoLiteralColumns' = NoLiteralColumns
      /\ Len(GB) \in Nat /\ Len(OB) \in Nat
      /\ orderExprs \in Seq(OrderEntries)
  BY <1>0, GroupFacts
<1>2. NoLiteralColumns => NoIntEntries
  BY DEF GroupInv
<1>3. CASE i <= Len(OB)
  <2>1. OB[i] \in Orders
    BY <1>0, <1>1, <1>3, ElementOfSeq DEF TInv, TypeOK, SelectStmts, OB
  <2>2. AddOrderBy(OB[i], "order")
    <3>1. ~(i > Len(sel.orderBy))
      BY <1>0, <1>1, <1>3 DEF OB
    <3>. QED  BY <3>1, Zenon DEF OrderLoop, OB
  <2>3. CASE pc' = "panic" /\ orderExprs' = orderExprs
    <3>1. NoLiteralColumns => NoIntEntries'
      BY <1>1, <1>2, <2>3, NoIntKeep
    <3>. QED  BY <1>1, <2>3, <3>1 DEF GroupInv, GroupBounds, GroupEntries,
                                     KeysCovered, InGroupPhase
  <2>4. CASE /\ pc' = "order"
             /\ orderExprs' = Append(orderExprs, RefOrderBy(OB[i]))
             /\ IsIntLiteral(OB[i].expr) => OB[i].expr.val \in 1..Len(Items)
    <3>1. NoLiteralColumns => ~IsIntLiteral(RefOrderBy(OB[i]).inner.expr)
      BY <1>0, <2>1, <2>4, RefNotLit
    <3>2. NoLiteralColumns => NoIntEntries'
      BY <1>1, <1>2, <2>4, <3>1, NoIntKeep
    <3>. QED  BY <1>1, <2>4, <3>2 DEF GroupInv, GroupBounds, GroupEntries,
                                     KeysCovered, InGroupPhase
  <2>5. CASE pc' = "aliasScan" /\ ret' = "order" /\ orderExprs' = orderExprs
    <3>1. NoLiteralColumns => NoIntEntries'
      BY <1>1, <1>2, <2>5, NoIntKeep
    <3>. QED  BY <1>1, <2>5, <3>1 DEF GroupInv, GroupBounds, GroupEntries,
                                     KeysCovered, InGroupPhase
  <2>. QED  BY <1>0, <2>1, <2>2, <2>3, <2>4, <2>5, AddOrderByRef
<1>4. CASE i > Len(OB)
  <2>1. pc' = "group" /\ i' = 1 /\ orderExprs' = orderExprs
    BY <1>0, <1>1, <1>4 DEF OrderLoop, OB
  <2>2. Len(orderExprs) = Len(OB)
    BY <1>0, <1>1, <1>4
  <2>3. GroupBounds'
    BY <1>1, <2>1 DEF GroupBounds
  <2>4. GroupEntries'
    BY <1>1, <2>1, <2>2 DEF GroupEntries
  <2>5. NoLiteralColumns => NoIntEntries'
    BY <1>1, <1>2, <2>1, NoIntKeep
  <2>6. KeysCovered'
    BY <2>1 DEF KeysCovered
  <2>. QED  BY <1>1, <2>3, <2>4, <2>5, <2>6 DEF GroupInv
<1>. QED  BY <1>0, <1>1, <1>3, <1>4

(* A step of the grouping loop's head: it moves on to the search or ends, *)
(* with i and OrderExprs left alone.                                      *)
LEMMA GroupLoopStep ==
    ASSUME TInv, SelInv, GroupInv, GroupLoop
    PROVE  GroupInv'
<1>0. /\ pc = "group" /\ pc \in AfterSelect /\ sel' = sel
      /\ UNCHANGED <<i, orderExprs, order, ret>>
  BY DEF GroupLoop, AfterSelect
<1>1. /\ GB' = GB /\ OB' = OB /\ NoLiteralColumns' = NoLiteralColumns
      /\ \A g : GroupOrder(g)' = GroupOrder(g)
      /\ Len(GB) \in Nat /\ groupByExprs = GB
  BY <1>0, GroupFacts
<1>2. i \in 1..Len(GB) + 1
  BY <1>0 DEF GroupInv, GroupBounds
<1>3. \/ pc' = "groupScan" /\ i <= Len(GB)
      \/ pc' = "done" /\ i > Len(GB)
  BY <1>1 DEF GroupLoop
<1>4. GroupBounds'
  BY <1>0, <1>1, <1>2, <1>3 DEF GroupBounds
<1>5. \A g : Covered(g)' = Covered(g)
  BY <1>0, <1>1 DEF Covered
<1>. QED  BY <1>0, <1>1, <1>3, <1>4, <1>5
          DEF GroupInv, GroupEntries, NoIntEntries, KeysCovered, InGroupPhase

(* Appending the ordering on the key being handled, GB[n], while the loop *)
(* is at i: the new entry is one of the grouping orderings and covers the *)
(* key, and the entries before it keep what they had.                      *)
LEMMA GroupAppend ==
    ASSUME TInv, SelInv, OInv, GroupInv, pc \in AfterSelect, sel' = sel,
           InGroupPhase
    PROVE  \A n \in 1..Len(GB) :
             i - 1 <= n /\ orderExprs' = Append(orderExprs, GroupOrder(GB[n])) =>
               /\ \A k \in DOMAIN orderExprs' :
                    k > Len(OB) => \E m \in 1..n : orderExprs'[k] = GroupOrder(GB[m])
               /\ \A g : Covered(g) => Covered(g)'
               /\ Covered(GB[n])'
<1> SUFFICES ASSUME NEW n \in 1..Len(GB), i - 1 <= n,
                    orderExprs' = Append(orderExprs, GroupOrder(GB[n]))
             PROVE  /\ \A k \in DOMAIN orderExprs' :
                         k > Len(OB) => \E m \in 1..n : orderExprs'[k] = GroupOrder(GB[m])
                    /\ \A g : Covered(g) => Covered(g)'
                    /\ Covered(GB[n])'
  OBVIOUS
<1>1. /\ \A g : GroupOrder(g)' = GroupOrder(g)
      /\ GB' = GB
      /\ orderExprs \in Seq(OrderEntries)
  BY GroupFacts
<1>2. /\ DOMAIN orderExprs' = 1..Len(orderExprs) + 1
      /\ \A k \in 1..Len(orderExprs) : orderExprs'[k] = orderExprs[k]
      /\ orderExprs'[Len(orderExprs) + 1] = GroupOrder(GB[n])
  BY <1>1
<1>3. \A k \in DOMAIN orderExprs :
        k > Len(OB) => \E m \in 1..i-1 : orderExprs[k] = GroupOrder(GB[m])
  BY DEF GroupInv, GroupEntries
<1>4. \A g : Covered(g) => Covered(g)'
  BY <1>1, CoveredKeep
<1>5. Covered(GB[n])'
  BY <1>1, <1>2 DEF Covered
<1>6. i \in Nat
  BY DEF TInv, TypeOK
<1>. QED  BY <1>1, <1>2, <1>3, <1>4, <1>5, <1>6

(* A step of the alias search: it appends the ordering on the key it was *)
(* started for, or moves j on.                                            *)
LEMMA GroupAliasStep ==
    ASSUME TInv, SelInv, OInv, GroupInv, AliasScan
    PROVE  GroupInv'
<1>0. /\ pc = "aliasScan" /\ pc \in AfterSelect /\ sel' = sel
      /\ UNCHANGED <<i, order, ret>> /\ ret \in {"order", "group"}
      /\ order \in Orders /\ ~IsIntLiteral(order.expr)
  BY DEF AliasScan, AfterSelect, TInv, TypeOK, OInv, AliasScanInv,
         IsUnqualifiedCol, IsIntLiteral
<1>1. /\ GB' = GB /\ OB' = OB /\ NoLiteralColumns' = NoLiteralColumns
      /\ \A g : GroupOrder(g)' = GroupOrder(g)
      /\ Len(GB) \in Nat /\ Len(OB) \in Nat
      /\ orderExprs \in Seq(OrderEntries)
  BY <1>0, GroupFacts
<1>2. NoLiteralColumns => ~IsIntLiteral(RefOrderBy(order).inner.expr)
  BY <1>0, RefNotLit
<1>3. CASE pc' = ret /\ orderExprs' = Append(orderExprs, RefOrderBy(order))
  <2>1. NoLiteralColumns => NoIntEntries'
    BY <1>1, <1>2, <1>3, NoIntKeep DEF GroupInv
  <2>2. CASE ret = "order"
    BY <1>0, <1>1, <1>3, <2>1, <2>2 DEF GroupInv, GroupBounds, GroupEntries,
                                         KeysCovered, InGroupPhase
  <2>3. CASE ret = "group"
    <3>1. i \in 2..Len(GB) + 1 /\ order = [expr |-> GB[i - 1], dir |-> "asc"]
      BY <1>0, <2>3 DEF GroupInv, GroupBounds
    <3>2. orderExprs' = Append(orderExprs, GroupOrder(GB[i - 1]))
      BY <1>3, <3>1 DEF GroupOrder
    <3>3. i - 1 \in 1..Len(GB) /\ InGroupPhase
      BY <1>0, <1>1, <2>3, <3>1 DEF InGroupPhase
    <3>4. /\ \A k \in DOMAIN orderExprs' :
               k > Len(OB) => \E m \in 1..i-1 : orderExprs'[k] = GroupOrder(GB[m])
          /\ \A g : Covered(g) => Covered(g)'
          /\ \A m \in 1..i-1 : m = i - 1 => Covered(GB[m])'
      <4>1. i \in Nat
        BY DEF TInv, TypeOK
      <4>. QED  BY <1>0, <3>2, <3>3, <4>1, GroupAppend
    <3>5. GroupBounds'
      BY <1>0, <1>1, <1>3, <2>3, <3>1 DEF GroupBounds
    <3>6. GroupEntries'
      BY <1>0, <1>1, <3>4 DEF GroupEntries
    <3>7. NoLiteralColumns => KeysCovered'
      <4>1. NoLiteralColumns => \A m \in 1..i-2 : Covered(GB[m])
        BY <1>0, <2>3 DEF GroupInv, KeysCovered
      <4>2. NoLiteralColumns => \A m \in 1..i-1 : Covered(GB[m])'
        BY <1>1, <3>1, <3>4, <4>1
      <4>. QED  BY <1>0, <1>1, <1>3, <2>3, <4>2 DEF KeysCovered
    <3>. QED  BY <1>1, <2>1, <3>5, <3>6, <3>7 DEF GroupInv
  <2>. QED  BY <1>0, <2>2, <2>3
<1>4. CASE pc' = "aliasScan" /\ j' = j + 1 /\ orderExprs' = orderExprs
  BY <1>0, <1>1, <1>4, GroupInvUnchanged
<1>. QED  BY <1>3, <1>4, AliasScanRef DEF OInv

(* A step of the search of OrderExprs for the key GB[i]: found moves on, *)
(* covered by the entry found; not found appends the key's ordering or    *)
(* starts its alias search.                                                *)
LEMMA GroupScanStep ==
    ASSUME TInv, SelInv, OInv, GroupInv, GroupScan
    PROVE  GroupInv'
<1>0. /\ pc = "groupScan" /\ pc \in AfterSelect /\ sel' = sel
      /\ j \in Nat \ {0} /\ InGroupPhase
  BY DEF GroupScan, AfterSelect, TInv, TypeOK, InGroupPhase
<1>1. /\ GB' = GB /\ OB' = OB /\ NoLiteralColumns' = NoLiteralColumns
      /\ \A g : GroupOrder(g)' = GroupOrder(g)
      /\ GB \in Seq(Expr) /\ Len(GB) \in Nat /\ Len(OB) \in Nat
      /\ groupByExprs = GB
      /\ orderExprs \in Seq(OrderEntries)
  BY <1>0, GroupFacts
<1>2. i \in 1..Len(GB)
  BY <1>0 DEF GroupInv, GroupBounds
<1>3. /\ NoLiteralColumns => NoIntEntries
      /\ NoLiteralColumns => \A m \in 1..i-1 : Covered(GB[m])
      /\ \A k \in DOMAIN orderExprs :
           k > Len(OB) => \E m \in 1..i-1 : orderExprs[k] = GroupOrder(GB[m])
  BY <1>0 DEF GroupInv, KeysCovered, GroupEntries
<1>4. CASE j <= Len(orderExprs) /\ orderExprs[j].inner.expr = GB[i]
  <2>1. i' = i + 1 /\ pc' = "group" /\ UNCHANGED <<orderExprs, order, ret>>
    BY <1>0, <1>1, <1>4 DEF GroupScan
  <2>2. \A g : Covered(g)' = Covered(g)
    BY <1>1, <2>1 DEF Covered
  <2>3. NoLiteralColumns => Covered(GB[i])
    <3> SUFFICES ASSUME NoLiteralColumns PROVE Covered(GB[i])
      OBVIOUS
    <3>1. j \in DOMAIN orderExprs
      BY <1>0, <1>1, <1>4
    <3>2. ~IsIntLiteral(GB[i])
      BY <1>3, <1>4, <3>1 DEF NoIntEntries
    <3>3. GroupOrder(GB[i]).inner.expr = GB[i]
      BY <3>2, GroupOrderInner
    <3>. QED  BY <1>4, <3>1, <3>3 DEF Covered
  <2>4. GroupBounds'
    BY <1>1, <1>2, <2>1 DEF GroupBounds
  <2>5. GroupEntries'
    BY <1>1, <1>2, <1>3, <2>1 DEF GroupEntries
  <2>6. NoLiteralColumns => NoIntEntries' /\ KeysCovered'
    BY <1>1, <1>2, <1>3, <2>1, <2>2, <2>3 DEF NoIntEntries, KeysCovered
  <2>. QED  BY <2>4, <2>5, <2>6, <1>1 DEF GroupInv
<1>5. CASE j <= Len(orderExprs) /\ orderExprs[j].inner.expr # GB[i]
  <2>1. UNCHANGED <<pc, i, order, ret, orderExprs>>
    BY <1>0, <1>1, <1>5 DEF GroupScan
  <2>. QED  BY <1>0, <1>1, <2>1, GroupInvUnchanged
<1>6. CASE j > Len(orderExprs)
  <2> DEFINE o == [expr |-> GB[i], dir |-> "asc"]
  <2>1. o \in Orders /\ RefOrderBy(o) = GroupOrder(GB[i])
    BY <1>1, <1>2, ElementOfSeq DEF Orders, GroupOrder, o
  <2>2. AddOrderBy(o, "group") /\ i' = i + 1
    BY <1>0, <1>1, <1>6 DEF GroupScan, o
  <2>3. CASE pc' = "panic" /\ orderExprs' = orderExprs
    <3>1. NoLiteralColumns => NoIntEntries'
      BY <1>1, <1>3, <2>3, NoIntKeep
    <3>. QED  BY <1>1, <2>3, <3>1 DEF GroupInv, GroupBounds, GroupEntries,
                                     KeysCovered, InGroupPhase
  <2>4. CASE /\ pc' = "group"
             /\ orderExprs' = Append(orderExprs, RefOrderBy(o))
             /\ IsIntLiteral(o.expr) => o.expr.val \in 1..Len(Items)
    <3>1. orderExprs' = Append(orderExprs, GroupOrder(GB[i]))
      BY <2>1, <2>4
    <3>2. /\ \A k \in DOMAIN orderExprs' :
               k > Len(OB) => \E m \in 1..i : orderExprs'[k] = GroupOrder(GB[m])
          /\ \A g : Covered(g) => Covered(g)'
          /\ \A m \in 1..i : m = i => Covered(GB[m])'
      <4>1. i \in Nat
        BY DEF TInv, TypeOK
      <4>. QED  BY <1>0, <1>2, <3>1, <4>1, GroupAppend
    <3>3. NoLiteralColumns => ~IsIntLiteral(RefOrderBy(o).inner.expr)
      BY <1>0, <2>1, <2>4, RefNotLit
    <3>4. NoLiteralColumns => NoIntEntries'
      BY <1>1, <1>3, <2>4, <3>3, NoIntKeep
    <3>5. GroupBounds'
      BY <1>1, <1>2, <2>2, <2>4 DEF GroupBounds
    <3>6. GroupEntries'
      BY <1>1, <1>2, <2>2, <3>2 DEF GroupEntries
    <3>7. NoLiteralColumns => KeysCovered'
      <4>1. NoLiteralColumns => \A m \in 1..i : Covered(GB[m])'
        BY <1>1, <1>2, <1>3, <3>2
      <4>. QED  BY <1>1, <1>2, <2>2, <2>4, <4>1 DEF KeysCovered
    <3>. QED  BY <1>1, <3>4, <3>5, <3>6, <3>7 DEF GroupInv
  <2>5. CASE /\ pc' = "aliasScan" /\ order' = o /\ ret' = "group"
             /\ orderExprs' = orderExprs
    <3>1. \A g : Covered(g)' = Covered(g)
      BY <1>1, <2>5 DEF Covered
    <3>2. GroupBounds'
      BY <1>1, <1>2, <2>2, <2>5 DEF GroupBounds, o
    <3>3. GroupEntries'
      BY <1>1, <1>2, <1>3, <2>2, <2>5 DEF GroupEntries, InGroupPhase
    <3>4. NoLiteralColumns => NoIntEntries' /\ KeysCovered'
      BY <1>1, <1>2, <1>3, <2>2, <2>5, <3>1 DEF NoIntEntries, KeysCovered
    <3>. QED  BY <1>1, <3>2, <3>3, <3>4 DEF GroupInv
  <2>. QED  BY <1>0, <2>1, <2>2, <2>3, <2>4, <2>5, AddOrderByRef
<1>. QED  BY <1>0, <1>1, <1>4, <1>5, <1>6

(* Every step keeps GroupInv.                                             *)
LEMMA GroupStep == TInv /\ SelInv /\ OInv /\ GroupInv /\ [Next]_vars => GroupInv'
<1> SUFFICES ASSUME TInv, SelInv, OInv, GroupInv, [Next]_vars PROVE GroupInv'
  OBVIOUS
<1>1. CASE SelectNotAliased \/ SelectAggregate \/ SelectNonAggregate \/ SelectDone
  <2>1. /\ pc = "select" /\ pc' \in {"select", "error", "order"}
        /\ orderExprs' = orderExprs
    BY <1>1 DEF SelectNotAliased, SelectAggregate, SelectNonAggregate,
                SelectDone, Fail
  <2>2. orderExprs = <<>>
    BY <2>1 DEF OInv, OrdInv
  <2>. QED  BY <2>1, <2>2, GroupSelectStep
<1>2. CASE OrderLoop
  BY <1>2, GroupOrderLoopStep
<1>3. CASE AliasScan
  BY <1>3, GroupAliasStep
<1>4. CASE GroupLoop
  BY <1>4, GroupLoopStep
<1>5. CASE GroupScan
  BY <1>5, GroupScanStep
<1>6. CASE UNCHANGED vars
  BY <1>6, GroupInvUnchanged DEF vars, TInv, TypeOK
<1>. QED  BY <1>1, <1>2, <1>3, <1>4, <1>5, <1>6 DEF Next

(* The initial state: the grouping loop has not started.                   *)
LEMMA GroupInitInv == Init => GroupInv
BY DEF Init, GroupInv, GroupBounds, GroupEntries, NoIntEntries, KeysCovered,
       InGroupPhase

(* Grouping (queryprojection.go:88-101): on every statement none of whose *)
(* select items is a bare integer literal, once CreateQPFromSelect        *)
(* returns, some entry of OrderExprs orders on what each GROUP BY key     *)
(* denotes, and every entry past the ORDER BY items is the ascending      *)
(* ordering addOrderBy builds for a GROUP BY key.  The found check at     *)
(* line 92 compares the key as written with the entries as resolved; the *)
(* restriction is what makes the two agree.                               *)
THEOREM GroupKeysCorrect == Spec => [](NoLiteralColumns => GroupKeysOrdered)
<1> DEFINE FInv == TInv /\ SelInv /\ OInv /\ GroupInv
<1>1. Init => FInv
  BY QPInitType, SelInitInv, OrdInitInv, GroupInitInv
<1>2. FInv /\ [Next]_vars => FInv'
  BY QPTypeStep, SelStep, OrdStep, GroupStep
<1>3. FInv => (NoLiteralColumns => GroupKeysOrdered)
  <2> SUFFICES ASSUME FInv, NoLiteralColumns, pc = "done"
               PROVE  GroupKeysOrdered
    BY DEF GroupKeysOrdered
  <2>1. /\ i = Len(GB) + 1
        /\ \A m \in 1..i-1 : Covered(GB[m])
        /\ \A k \in DOMAIN orderExprs :
             k > Len(OB) => \E m \in 1..i-1 : orderExprs[k] = GroupOrder(GB[m])
    BY DEF GroupInv, GroupBounds, GroupEntries, KeysCovered, InGroupPhase
  <2>2. GB \in Seq(Expr)
    BY DEF TInv, TypeOK, SelectStmts, GB
  <2>3. GroupKeys = {GB[m] : m \in 1..Len(GB)}
    BY <2>2 DEF GroupKeys, GB
  <2>. QED  BY <2>1, <2>3 DEF GroupKeysOrdered, Covered, OB
<1>. QED  BY <1>1, <1>2, <1>3, PTL DEF Spec

-----------------------------------------------------------------------------
(* Every step keeps OrderExprs or appends the resolution of the item the *)
(* running addOrderBy was called with.                                    *)
LEMMA ResolvedStep ==
    TInv /\ SelInv /\ OInv /\ [Next]_vars => [AppendResolved]_vars
<1> SUFFICES ASSUME TInv, SelInv, OInv, [Next]_vars
             PROVE  [AppendResolved]_vars
  OBVIOUS
<1>0. sel' = sel /\ Len(OB) \in Nat
  BY SelConst DEF TInv, TypeOK, SelectStmts, OB
<1>1. CASE SelectNotAliased \/ SelectAggregate \/ SelectNonAggregate \/ SelectDone
  <2>1. orderExprs' = orderExprs
    BY <1>1 DEF SelectNotAliased, SelectAggregate, SelectNonAggregate,
                SelectDone, Fail
  <2>. QED  BY <2>1 DEF AppendResolved
<1>2. CASE OrderLoop
  <2>0. pc = "order" /\ pc \in AfterSelect /\ i \in Nat
    BY <1>2 DEF OrderLoop, AfterSelect, TInv, TypeOK
  <2>1. CASE i <= Len(OB)
    <3>1. OB[i] \in Orders
      BY <1>0, <2>0, <2>1, ElementOfSeq DEF TInv, TypeOK, SelectStmts, OB
    <3>2. AddOrderBy(OB[i], "order")
      <4>1. ~(i > Len(sel.orderBy))
        BY <1>0, <2>0, <2>1 DEF OB
      <4>. QED  BY <1>2, <4>1, Zenon DEF OrderLoop, OB
    <3>3. \/ orderExprs' = orderExprs
          \/ orderExprs' = Append(orderExprs, RefOrderBy(OB[i]))
      BY <2>0, <3>1, <3>2, AddOrderByRef
    <3>. QED  BY <2>0, <3>3 DEF AppendResolved, OB
  <2>2. CASE i > Len(OB)
    <3>1. orderExprs' = orderExprs
      BY <1>0, <1>2, <2>0, <2>2 DEF OrderLoop, OB
    <3>. QED  BY <3>1 DEF AppendResolved
  <2>. QED  BY <1>0, <2>0, <2>1, <2>2
<1>3. CASE AliasScan
  <2>1. pc = "aliasScan"
    BY <1>3 DEF AliasScan
  <2>2. \/ orderExprs' = orderExprs
        \/ orderExprs' = Append(orderExprs, RefOrderBy(order))
    BY <1>3, AliasScanRef DEF OInv
  <2>. QED  BY <2>1, <2>2 DEF AppendResolved
<1>4. CASE GroupLoop
  <2>1. orderExprs' = orderExprs
    BY <1>4 DEF GroupLoop
  <2>. QED  BY <2>1 DEF AppendResolved
<1>5. CASE GroupScan
  <2>0. /\ pc = "groupScan" /\ pc \in AfterSelect
        /\ i \in 1..Len(GB) /\ groupByExprs = GB /\ GB \in Seq(Expr)
        /\ j \in Nat /\ orderExprs \in Seq(OrderEntries)
    BY <1>5 DEF GroupScan, AfterSelect, TInv, TypeOK, ScanInv, SelInv, GB,
                SelectStmts
  <2>1. CASE j <= Len(orderExprs)
    <3>1. orderExprs' = orderExprs
      BY <1>5, <2>0, <2>1 DEF GroupScan
    <3>. QED  BY <3>1 DEF AppendResolved
  <2>2. CASE j > Len(orderExprs)
    <3> DEFINE o == [expr |-> GB[i], dir |-> "asc"]
    <3>1. o \in Orders /\ RefOrderBy(o) = GroupOrder(GB[i])
      BY <2>0, ElementOfSeq DEF Orders, GroupOrder, o
    <3>2. AddOrderBy(o, "group")
      BY <1>5, <2>0, <2>2 DEF GroupScan, o
    <3>3. \/ orderExprs' = orderExprs
          \/ orderExprs' = Append(orderExprs, GroupOrder(GB[i]))
      BY <2>0, <3>1, <3>2, AddOrderByRef
    <3>. QED  BY <2>0, <3>3 DEF AppendResolved, GB
  <2>. QED  BY <2>0, <2>1, <2>2
<1>6. CASE UNCHANGED vars
  BY <1>6 DEF vars
<1>. QED  BY <1>1, <1>2, <1>3, <1>4, <1>5, <1>6 DEF Next

(* addOrderBy as a step (queryprojection.go:105-150, called at 85 and     *)
(* 99): on every statement, every step of CreateQPFromSelect that changes *)
(* OrderExprs appends exactly the reference resolution of the ORDER BY    *)
(* item, alias-search column or GROUP BY key being handled.               *)
THEOREM OrderExprsResolvedCorrect == Spec => OrderExprsResolved
<1> DEFINE FInv == TInv /\ SelInv /\ OInv
<1>1. Init => FInv
  BY QPInitType, SelInitInv, OrdInitInv
<1>2. FInv /\ [Next]_vars => FInv'
  BY QPTypeStep, SelStep, OrdStep
<1>3. FInv /\ [Next]_vars => [AppendResolved]_vars
  BY ResolvedStep
<1>. QED  BY <1>1, <1>2, <1>3, PTL DEF Spec, OrderExprsResolved

=============================================================================
