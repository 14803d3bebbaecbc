---------------------------- MODULE MCKeyedJoins ----------------------------
(* Customers, known by id, and orders, with an id and a customer, whose cells *)
(* are NULL or one of two values.                                            *)
EXTENDS KeyedJoins

CONSTANTS one, two

MCValue == {one, two}
MCText == [x \in MCValue |-> IF x = one THEN "1" ELSE "2"]
MCHolds ==
  [op \in {"=", "<"} |-> IF op = "=" THEN {<<one, one>>, <<two, two>>} ELSE {<<one, two>>}]

Customer == [side |-> "left", column |-> "id"]
OrderId == [side |-> "right", column |-> "id"]
OrderCustomer == [side |-> "right", column |-> "customer"]

Compare(op, left, right) == [op |-> op, a |-> left, b |-> right]

\* The conditions whose columns joinKey finds on the side they are meant for.
MCInOrder ==
  {NoCondition, Compare("=", Customer, OrderCustomer), Compare("=", Customer, OrderId),
   Compare("=", OrderId, Customer)}

Faults == {<<"none", "none">>, <<"open", "none">>, <<"next", "none">>, <<"none", "open">>,
           <<"none", "next">>, <<"next", "next">>}

\* Up to n and m rows; children fail only where there are few of them.
JoinsOf(types, n, m, left, right, condition) ==
  {j \in UNION {[type : types, left : [1 .. a -> left], right : [1 .. b -> right],
                 condition : condition, leftFault : {f[1]}, rightFault : {f[2]}] :
                a \in 0 .. n, b \in 0 .. m, f \in Faults} :
     \/ j.leftFault = "none" /\ j.rightFault = "none"
     \/ Len(j.left) + Len(j.right) <= 2}

Customers(cells) == [LeftColumns -> cells]
Orders(cells) == [RightColumns -> cells]

\* Orders whose id plays no part.
PlainOrders(cells) == {o \in Orders(cells) : o["id"] = o["customer"]}

MCHashJoins == JoinsOf({"inner", "left"}, 2, 2, Customers(Cell), Orders(Cell), MCInOrder)

MCByCustomer == Compare("=", Customer, OrderCustomer)

MCMergeJoins ==
  JoinsOf({"inner", "left", "right"}, 2, 2, Customers(Value), PlainOrders(Value), {NoCondition})
  \union {j \in JoinsOf({"inner", "left", "right"}, 3, 3, Customers(Cell), PlainOrders(Cell), {MCByCustomer}) :
            Mergeable(j)}

MCAllJoins == MCHashJoins \union MCMergeJoins

\* The joins are such that KeyedJoinsAnswer (MergeJoinProofs) speaks of them.
ASSUME MCMeantAssumption ==
  /\ DisplayTells /\ ValuesOrdered
  /\ \A j \in MCAllJoins : KeysMeant(j)
  /\ \A j \in MCMergeJoins : Mergeable(j)
=============================================================================
