-------------------------- MODULE StatementsProofs --------------------------
(***************************************************************************)
(* What holds of the statements for every plan: Execute takes every        *)
(* operator through its life cycle and leaves none open.  Of the values    *)
(* they compute with, for every width of the integers: the overflow guards *)
(* of catalog/types.go refuse exactly the results that do not fit, and AND *)
(* can be taken apart and simplified the way the rules do.                 *)
(***************************************************************************)
EXTENDS Statements, TLAPS, SequenceTheorems, WellFoundedInduction

-----------------------------------------------------------------------------
(* The inductive invariant.  Of the frames of a statement each is for the    *)
(* child that the one below it is at; the operator of a frame is in a state  *)
(* its method may find it in, and its children are in the states the step    *)
(* leaves them in; an operator without a frame is at rest.                   *)

Steps == {"enter", "open", "drain", "close", "abort", "pull", "values", "register", "create", "fetch", "storage"}
CallFrame == [node : Nat, method : {"open", "next", "close"}, step : Steps, kid : Nat]

\* What a method returns, or "none" before it has, and the state its operator is then in.
Replies ==
  {<<"open", "none", "new">>, <<"open", "ok", "open">>, <<"open", "error", "failed">>,
   <<"next", "none", "open">>, <<"next", "row", "open">>, <<"next", "eof", "spent">>,
   <<"next", "error", "spent">>,
   <<"close", "none", "open">>, <<"close", "none", "spent">>, <<"close", "ok", "closed">>}

\* The steps of a method of a node.
Reaches(node, method, step) ==
  \/ step = "enter"
  \/ /\ method = "open"
     /\ \/ step = "open" /\ node.kind \in Streaming \union Draining \union {"insert", "create"}
        \/ step = "drain" /\ node.kind \in Draining
        \/ step = "close" /\ node.kind \in Draining \ {"window"}
        \/ step = "abort" /\ node.kind = "window"
        \/ step \in {"pull", "register", "create"} /\ node.kind = "create"
        \/ step = "fetch" /\ node.kind = "create" /\ node.kids # <<>>
        \/ step = "storage" /\ node.kind \in Definitions \ {"create"}
  \/ /\ method = "next"
     /\ \/ step = "pull" /\ node.kind \in Streaming \union {"insert"}
        \/ step = "values" /\ node.kind = "insert" /\ node.kids = <<>>
  \/ method = "close" /\ step = "close" /\ ClosesChild(node)

\* The children of an operator that is in state, with its counter at pos, and of
\* which no method has got beyond its entry.
Rests(nodes, op, n, state, pos) ==
  LET node == nodes[n]
      Kids(states) == \A k \in DOMAIN node.kids : op[node.kids[k]].state \in states
  IN  /\ state = "new" => Kids({"new"})
      /\ state \in {"open", "spent"} => Kids(IF ClosesChild(node) THEN {"open", "spent"} ELSE {"new", "closed"})
      /\ state = "open" /\ (node.kind \in Streaming \/ (node.kind = "insert" /\ pos # 1)) => Kids({"open"})
      /\ state = "closed" => Kids({"new", "closed"})

AtRest(nodes, op, n) == Rests(nodes, op, n, op[n].state, op[n].pos)

\* The children of an operator whose method has got to a step, and got an answer.
Underway(nodes, op, f, answered) ==
  LET kids == nodes[f.node].kids
      State(k) == op[kids[k]].state
  IN  /\ f.step \in DOMAIN MethodAt =>
           /\ f.kid \in DOMAIN kids
           /\ <<MethodAt[f.step], answered, State(f.kid)>> \in Replies
      /\ f.step \notin DOMAIN MethodAt => answered = "none"
      /\ f.step = "open" => \A k \in DOMAIN kids : /\ k < f.kid => State(k) = "open"
                                                   /\ k > f.kid => State(k) = "new"
      /\ f.step \in {"drain", "close"} =>
           \A k \in DOMAIN kids : /\ k < f.kid => State(k) = "closed"
                                  /\ k > f.kid => State(k) = "open"
      /\ f.step \in {"register", "create", "fetch"} => \A k \in DOMAIN kids : State(k) = "open"

\* One frame: its operator's own state and its children's.
InFrame(nodes, op, f, answered) ==
  /\ f.node \in DOMAIN nodes
  /\ Reaches(nodes[f.node], f.method, f.step)
  /\ <<f.method, "none", op[f.node].state>> \in Replies
  /\ Underway(nodes, op, f, answered)
  /\ f.step = "enter" => AtRest(nodes, op, f.node)
  /\ f.step = "pull" /\ nodes[f.node].kind = "insert" => op[f.node].pos = 1

\* The frames of a statement, each for the child that the one below it is at.
Linked(nodes, frames) ==
  /\ \A i \in 1 .. Len(frames) - 1 :
       /\ frames[i + 1].step \in DOMAIN MethodAt
       /\ frames[i].node = nodes[frames[i + 1].node].kids[frames[i + 1].kid]
       /\ frames[i].method = MethodAt[frames[i + 1].step]
  /\ \A i, j \in 1 .. Len(frames) : i < j => frames[i].node > frames[j].node

Answered(frames, i, r) == IF i = 1 THEN r.kind ELSE "none"

Runs(nodes, frames, r, op) ==
  /\ IsPlan(nodes)
  /\ frames \in Seq(CallFrame)
  /\ DOMAIN op = DOMAIN nodes
  /\ \A n \in DOMAIN nodes : {"state", "pos"} \subseteq DOMAIN op[n]
  /\ Linked(nodes, frames)
  /\ \A i \in 1 .. Len(frames) : InFrame(nodes, op, frames[i], Answered(frames, i, r))
  /\ \A n \in DOMAIN nodes : (\A i \in 1 .. Len(frames) : frames[i].node # n) => AtRest(nodes, op, n)

\* What Execute has called of the root.
Calls == [opening |-> "open", pulling |-> "next", answering |-> "close", failing |-> "close",
          expiring |-> "close"]

RootCalled(label, frames, r, op) ==
  /\ <<Calls[label], IF frames = <<>> THEN r.kind ELSE "none", op[1].state>> \in Replies
  /\ frames # <<>> => frames[Len(frames)].node = 1 /\ frames[Len(frames)].method = Calls[label]

Left == {"answered", "failed", "expired"}

Lives(nodes, label, frames, r, op) ==
  /\ label \in {"absent", "idle", "rejected", "open failed", "panicked"} \union Left \union DOMAIN Calls
  /\ label \notin DOMAIN Calls => frames = <<>>
  /\ label \in {"idle"} \union DOMAIN Calls \union Left => Runs(nodes, frames, r, op)
  /\ label = "idle" => \A n \in DOMAIN nodes : op[n] = Blank
  /\ label \in DOMAIN Calls => RootCalled(label, frames, r, op)
  /\ label \in Left => op[1].state = "closed"

LifeInv ==
  /\ script \in Scenarios
  /\ DOMAIN pc = Stmt /\ DOMAIN stack = Stmt /\ DOMAIN reply = Stmt /\ DOMAIN ops = Stmt
  /\ \A s \in Stmt : Lives(script[s].nodes, pc[s], stack[s], reply[s], ops[s])

\* What the plan says of children: each has one parent, before it.
LEMMA PlanKids ==
  ASSUME NEW nodes, IsPlan(nodes)
  PROVE  /\ 1 \in DOMAIN nodes /\ DOMAIN nodes \subseteq Nat \ {0}
         /\ \A n \in DOMAIN nodes : \A k \in DOMAIN nodes[n].kids :
              nodes[n].kids[k] \in DOMAIN nodes /\ nodes[n].kids[k] > n /\ nodes[n].kids[k] # 1
         /\ \A n, p \in DOMAIN nodes : \A k \in DOMAIN nodes[n].kids, j \in DOMAIN nodes[p].kids :
              nodes[n].kids[k] = nodes[p].kids[j] => n = p /\ k = j
<1>1. Len(nodes) \in Nat \ {0} /\ DOMAIN nodes = 1 .. Len(nodes)
  BY DEF IsPlan
<1>2. \A n \in DOMAIN nodes : \A k \in DOMAIN nodes[n].kids : nodes[n].kids[k] \in n + 1 .. Len(nodes)
  <2>1. \A n \in DOMAIN nodes : nodes[n].kids \in Seq(n + 1 .. Len(nodes))
    BY DEF IsPlan
  <2>2. QED
    BY <2>1
<1>3. \A n, p \in DOMAIN nodes : \A k \in DOMAIN nodes[n].kids, j \in DOMAIN nodes[p].kids :
        nodes[n].kids[k] = nodes[p].kids[j] => n = p /\ k = j
  BY DEF IsPlan
<1>4. QED
  BY <1>1, <1>2, <1>3

LEMMA OneParent ==
  ASSUME NEW nodes, IsPlan(nodes), NEW n \in DOMAIN nodes, NEW p \in DOMAIN nodes,
         NEW k \in DOMAIN nodes[n].kids, NEW j \in DOMAIN nodes[p].kids,
         nodes[n].kids[k] = nodes[p].kids[j]
  PROVE  n = p /\ k = j
  BY PlanKids

\* What the children of a node are is told by their states alone.
LEMMA RestsSame ==
  ASSUME NEW nodes, NEW op, NEW op2, NEW n, NEW state, NEW pos, Rests(nodes, op, n, state, pos),
         \A k \in DOMAIN nodes[n].kids :
           op2[nodes[n].kids[k]].state = op[nodes[n].kids[k]].state
  PROVE  Rests(nodes, op2, n, state, pos)
  BY DEF Rests

-----------------------------------------------------------------------------
(* Frames are pushed, replaced and popped.                                  *)

LEMMA FramesTyped ==
  ASSUME NEW frames \in Seq(CallFrame), NEW i \in 1 .. Len(frames)
  PROVE  frames[i] \in CallFrame /\ frames[i].node \in Nat
<1>1. frames[i] \in CallFrame
  OBVIOUS
<1>2. QED
  BY <1>1 DEF CallFrame

\* A step's children are looked at by their states alone.
LEMMA UnderwaySame ==
  ASSUME NEW nodes, NEW op, NEW op2, NEW f, NEW answered,
         Underway(nodes, op, f, answered),
         \A k \in DOMAIN nodes[f.node].kids :
           op2[nodes[f.node].kids[k]].state = op[nodes[f.node].kids[k]].state
  PROVE  Underway(nodes, op2, f, answered)
<1> DEFINE kids == nodes[f.node].kids
<1>1. f.step \in DOMAIN MethodAt =>
        f.kid \in DOMAIN kids /\ <<MethodAt[f.step], answered, op2[kids[f.kid]].state>> \in Replies
  BY DEF Underway
<1>2. f.step = "open" => \A k \in DOMAIN kids : /\ k < f.kid => op2[kids[k]].state = "open"
                                                /\ k > f.kid => op2[kids[k]].state = "new"
  BY DEF Underway
<1>3. f.step \in {"drain", "close"} =>
        \A k \in DOMAIN kids : /\ k < f.kid => op2[kids[k]].state = "closed"
                               /\ k > f.kid => op2[kids[k]].state = "open"
  BY DEF Underway
<1>4. f.step \in {"register", "create", "fetch"} => \A k \in DOMAIN kids : op2[kids[k]].state = "open"
  BY DEF Underway
<1>5. f.step \notin DOMAIN MethodAt => answered = "none"
  BY DEF Underway
<1>6. QED
  BY <1>1, <1>2, <1>3, <1>4, <1>5 DEF Underway

\* The top frame has been taken to another step, and its operator's other state
\* to what it is in op2.
LEMMA FrameGoesOn ==
  ASSUME NEW nodes, NEW frames, NEW r, NEW op, NEW op2, NEW f,
         Runs(nodes, frames, r, op), frames # <<>>,
         f \in CallFrame, f.node = frames[1].node, f.method = frames[1].method,
         f.step # "enter", Reaches(nodes[f.node], f.method, f.step),
         DOMAIN op2 = DOMAIN op,
         \A n \in DOMAIN op : n # f.node => op2[n] = op[n],
         {"state", "pos"} \subseteq DOMAIN op2[f.node],
         op2[f.node].state = op[f.node].state,
         f.step = "pull" /\ nodes[f.node].kind = "insert" => op2[f.node].pos = 1,
         Underway(nodes, op, f, "none")
  PROVE  Runs(nodes, [frames EXCEPT ![1] = f], NoReply, op2)
<1> DEFINE frames2 == [frames EXCEPT ![1] = f]
<1>1. /\ frames \in Seq(CallFrame) /\ IsPlan(nodes) /\ DOMAIN op = DOMAIN nodes
      /\ Len(frames) \in Nat \ {0}
      /\ \A n \in DOMAIN nodes : {"state", "pos"} \subseteq DOMAIN op[n]
      /\ Linked(nodes, frames)
      /\ \A i \in 1 .. Len(frames) : InFrame(nodes, op, frames[i], Answered(frames, i, r))
      /\ \A n \in DOMAIN nodes :
           (\A i \in 1 .. Len(frames) : frames[i].node # n) => AtRest(nodes, op, n)
  BY DEF Runs
<1>2. /\ frames2 \in Seq(CallFrame) /\ Len(frames2) = Len(frames) /\ frames2[1] = f
      /\ \A i \in 1 .. Len(frames) : /\ frames2[i].node = frames[i].node
                                     /\ frames2[i].method = frames[i].method
                                     /\ i # 1 => frames2[i] = frames[i]
  BY <1>1
<1> HIDE DEF frames2
<1>3. \A n \in DOMAIN nodes : op2[n].state = op[n].state
  BY <1>1
<1>4. Linked(nodes, frames2)
  <2>1. \A i \in 1 .. Len(frames2) - 1 :
          /\ i \in 1 .. Len(frames) - 1 /\ i \in 1 .. Len(frames)
          /\ frames2[i + 1] = frames[i + 1]
    BY <1>1, <1>2
  <2>2. \A i \in 1 .. Len(frames2) - 1 :
          /\ frames2[i + 1].step \in DOMAIN MethodAt
          /\ frames2[i].node = nodes[frames2[i + 1].node].kids[frames2[i + 1].kid]
          /\ frames2[i].method = MethodAt[frames2[i + 1].step]
    BY <1>1, <1>2, <2>1 DEF Linked
  <2>3. \A i, j \in 1 .. Len(frames2) : i < j => frames2[i].node > frames2[j].node
    BY <1>1, <1>2 DEF Linked
  <2>4. QED
    BY <2>2, <2>3 DEF Linked
<1>5. \A n \in DOMAIN nodes : \A k \in DOMAIN nodes[n].kids : nodes[n].kids[k] \in DOMAIN nodes
  BY <1>1, PlanKids
<1>6. ASSUME NEW n \in DOMAIN nodes, n # f.node, AtRest(nodes, op, n)
      PROVE  AtRest(nodes, op2, n)
  <2>1. op2[n] = op[n] /\ \A k \in DOMAIN nodes[n].kids : op2[nodes[n].kids[k]].state = op[nodes[n].kids[k]].state
    BY <1>1, <1>3, <1>5, <1>6
  <2>2. QED
    BY <1>6, <2>1 DEF AtRest, Rests
<1>7. ASSUME NEW g, g.node \in DOMAIN nodes, NEW a, Underway(nodes, op, g, a)
      PROVE  Underway(nodes, op2, g, a)
  <2>1. \A k \in DOMAIN nodes[g.node].kids :
          op2[nodes[g.node].kids[k]].state = op[nodes[g.node].kids[k]].state
    BY <1>3, <1>5, <1>7
  <2>2. QED
    BY <1>7, <2>1, UnderwaySame
<1>8. ASSUME NEW i \in 1 .. Len(frames2)
      PROVE  InFrame(nodes, op2, frames2[i], Answered(frames2, i, NoReply))
  <2>1. InFrame(nodes, op, frames[i], Answered(frames, i, r))
    BY <1>1, <1>2
  <2>2. CASE i = 1
    <3>1. Answered(frames2, i, NoReply) = "none"
      BY <2>2 DEF Answered, NoReply
    <3>2. Underway(nodes, op2, f, "none")
      BY <1>7, <2>1, <2>2 DEF InFrame
    <3>3. QED
      BY <1>2, <1>3, <2>1, <2>2, <3>1, <3>2 DEF InFrame
  <2>3. CASE i # 1
    <3>1. frames2[i] = frames[i] /\ frames[i].node # f.node
      <4>1. 1 < i /\ 1 \in 1 .. Len(frames) /\ i \in 1 .. Len(frames)
        BY <1>1, <1>2, <2>3
      <4>2. frames[1].node > frames[i].node
        BY <1>1, <4>1 DEF Linked
      <4>3. frames[1].node \in Nat /\ frames[i].node \in Nat
        BY <1>1, <4>1, FramesTyped
      <4>4. QED
        BY <1>2, <2>3, <4>1, <4>2, <4>3
    <3>2. Answered(frames2, i, NoReply) = "none" /\ Answered(frames, i, r) = "none"
      BY <2>3 DEF Answered
    <3>3. Underway(nodes, op2, frames[i], "none")
      BY <1>7, <2>1, <3>2 DEF InFrame
    <3>4. frames[i].node \in DOMAIN nodes /\ op2[frames[i].node] = op[frames[i].node]
      BY <1>1, <2>1, <3>1 DEF InFrame
    <3>5. QED
      BY <1>6, <2>1, <3>1, <3>2, <3>3, <3>4 DEF InFrame
  <2>4. QED
    BY <2>2, <2>3
<1>9. ASSUME NEW n \in DOMAIN nodes, \A i \in 1 .. Len(frames2) : frames2[i].node # n
      PROVE  AtRest(nodes, op2, n)
  <2>1. \A i \in 1 .. Len(frames) : frames[i].node # n
    BY <1>2, <1>9
  <2>2. n # f.node
    BY <1>1, <2>1
  <2>3. QED
    BY <1>1, <1>6, <2>1, <2>2
<1>10. \A n \in DOMAIN nodes : {"state", "pos"} \subseteq DOMAIN op2[n]
  BY <1>1
<1>11. QED
  BY <1>1, <1>2, <1>4, <1>8, <1>9, <1>10 DEF Runs, frames2

\* The child the top frame is at has been called.
LEMMA FramePushed ==
  ASSUME NEW nodes, NEW frames, NEW r, NEW op, NEW f,
         Runs(nodes, frames, r, op), frames # <<>>,
         frames[1].step \in DOMAIN MethodAt, r.kind = "none",
         f = [node |-> nodes[frames[1].node].kids[frames[1].kid],
              method |-> MethodAt[frames[1].step], step |-> "enter", kid |-> 1]
  PROVE  /\ Runs(nodes, <<f>> \o frames, NoReply, op)
         /\ f.node \in DOMAIN nodes
         /\ <<f.method, "none", op[f.node].state>> \in Replies
<1> DEFINE frames2 == <<f>> \o frames
<1>1. /\ frames \in Seq(CallFrame) /\ IsPlan(nodes) /\ DOMAIN op = DOMAIN nodes
      /\ Len(frames) \in Nat \ {0}
      /\ \A n \in DOMAIN nodes : {"state", "pos"} \subseteq DOMAIN op[n]
      /\ Linked(nodes, frames)
      /\ \A i \in 1 .. Len(frames) : InFrame(nodes, op, frames[i], Answered(frames, i, r))
      /\ \A n \in DOMAIN nodes :
           (\A i \in 1 .. Len(frames) : frames[i].node # n) => AtRest(nodes, op, n)
  BY DEF Runs
<1>2. InFrame(nodes, op, frames[1], "none") /\ frames[1] \in CallFrame
  BY <1>1 DEF Answered
<1>3. /\ frames[1].node \in DOMAIN nodes
      /\ frames[1].kid \in DOMAIN nodes[frames[1].node].kids
      /\ <<MethodAt[frames[1].step], "none", op[f.node].state>> \in Replies
  BY <1>2 DEF InFrame, Underway
<1>4. /\ f.node \in DOMAIN nodes /\ f.node \in Nat /\ frames[1].node \in Nat
      /\ f.node > frames[1].node
  <2>1. frames[1].node \in Nat
    BY <1>2 DEF CallFrame
  <2>2. f.node \in DOMAIN nodes /\ f.node > frames[1].node /\ DOMAIN nodes \subseteq Nat
    BY <1>1, <1>3, PlanKids
  <2>3. QED
    BY <2>1, <2>2
<1>5. f \in CallFrame
  BY <1>4 DEF CallFrame, MethodAt, Steps
<1>6. /\ frames2 \in Seq(CallFrame) /\ Len(frames2) = Len(frames) + 1 /\ frames2[1] = f
      /\ \A i \in 1 .. Len(frames) : frames2[i + 1] = frames[i]
      /\ \A i \in 2 .. Len(frames2) : frames2[i] = frames[i - 1] /\ i - 1 \in 1 .. Len(frames)
  BY <1>1, <1>5
<1> HIDE DEF frames2
<1>7. \A i \in 1 .. Len(frames) : frames[i].node \in Nat /\ f.node > frames[i].node
  <2> SUFFICES ASSUME NEW i \in 1 .. Len(frames)
               PROVE  frames[i].node \in Nat /\ f.node > frames[i].node
    OBVIOUS
  <2>1. frames[i].node \in Nat
    BY <1>1, FramesTyped
  <2>2. i = 1 \/ frames[1].node > frames[i].node
    BY <1>1 DEF Linked
  <2>3. QED
    BY <1>4, <2>1, <2>2
<1>8. Linked(nodes, frames2)
  <2>1. ASSUME NEW i \in 1 .. Len(frames2) - 1
        PROVE  /\ frames2[i + 1].step \in DOMAIN MethodAt
               /\ frames2[i].node = nodes[frames2[i + 1].node].kids[frames2[i + 1].kid]
               /\ frames2[i].method = MethodAt[frames2[i + 1].step]
    <3>1. i \in 1 .. Len(frames) /\ frames2[i + 1] = frames[i]
      BY <1>1, <1>6, <2>1
    <3>2. CASE i = 1
      BY <1>6, <3>1, <3>2
    <3>3. CASE i # 1
      <4>1. i - 1 \in 1 .. Len(frames) - 1 /\ frames2[i] = frames[i - 1] /\ (i - 1) + 1 = i
        BY <1>1, <1>6, <2>1, <3>3
      <4>2. QED
        BY <1>1, <3>1, <4>1 DEF Linked
    <3>4. QED
      BY <3>2, <3>3
  <2>2. ASSUME NEW i \in 1 .. Len(frames2), NEW j \in 1 .. Len(frames2), i < j
        PROVE  frames2[i].node > frames2[j].node
    <3>1. frames2[j] = frames[j - 1] /\ j - 1 \in 1 .. Len(frames)
      BY <1>1, <1>6, <2>2
    <3>2. CASE i = 1
      BY <1>6, <1>7, <3>1, <3>2
    <3>3. CASE i # 1
      <4>1. frames2[i] = frames[i - 1] /\ i - 1 \in 1 .. Len(frames) /\ i - 1 < j - 1
        BY <1>1, <1>6, <2>2, <3>3
      <4>2. QED
        BY <1>1, <3>1, <4>1 DEF Linked
    <3>4. QED
      BY <3>2, <3>3
  <2>3. QED
    BY <2>1, <2>2 DEF Linked
<1>9. AtRest(nodes, op, f.node)
  <2>1. \A i \in 1 .. Len(frames) : frames[i].node # f.node
    BY <1>4, <1>7
  <2>2. QED
    BY <1>1, <1>4, <2>1
<1>10. ASSUME NEW i \in 1 .. Len(frames2)
       PROVE  InFrame(nodes, op, frames2[i], Answered(frames2, i, NoReply))
  <2>1. CASE i = 1
    <3>1. Answered(frames2, i, NoReply) = "none"
      BY <2>1 DEF Answered, NoReply
    <3>2. f.step = "enter" /\ f.method = MethodAt[frames[1].step]
      OBVIOUS
    <3>3. Underway(nodes, op, f, "none")
      BY <3>2 DEF Underway, MethodAt
    <3>4. QED
      BY <1>3, <1>4, <1>6, <1>9, <2>1, <3>1, <3>2, <3>3 DEF InFrame, Reaches
  <2>2. CASE i # 1
    <3>1. frames2[i] = frames[i - 1] /\ i - 1 \in 1 .. Len(frames)
      BY <1>1, <1>6, <2>2
    <3>2. Answered(frames2, i, NoReply) = "none" /\ Answered(frames, i - 1, r) = "none"
      BY <2>2 DEF Answered
    <3>3. QED
      BY <1>1, <3>1, <3>2
  <2>3. QED
    BY <2>1, <2>2
<1>11. ASSUME NEW n \in DOMAIN nodes, \A i \in 1 .. Len(frames2) : frames2[i].node # n
       PROVE  AtRest(nodes, op, n)
  <2>1. ASSUME NEW i \in 1 .. Len(frames) PROVE frames[i].node # n
    <3>1. i + 1 \in 1 .. Len(frames2) /\ frames2[i + 1] = frames[i]
      BY <1>1, <1>6
    <3>2. QED
      BY <1>11, <3>1
  <2>2. QED
    BY <1>1, <2>1
<1>12. QED
  BY <1>1, <1>3, <1>4, <1>6, <1>8, <1>10, <1>11 DEF Runs, frames2

\* The method of the top frame has returned.
LEMMA FramePopped ==
  ASSUME NEW nodes, NEW frames, NEW r, NEW op, NEW r2, NEW op2, NEW label,
         Runs(nodes, frames, r, op), frames # <<>>, RootCalled(label, frames, r, op),
         DOMAIN op2 = DOMAIN op,
         \A n \in DOMAIN op : n # frames[1].node => op2[n] = op[n],
         {"state", "pos"} \subseteq DOMAIN op2[frames[1].node],
         <<frames[1].method, r2.kind, op2[frames[1].node].state>> \in Replies,
         Rests(nodes, op, frames[1].node, op2[frames[1].node].state, op2[frames[1].node].pos)
  PROVE  Runs(nodes, Tail(frames), r2, op2) /\ RootCalled(label, Tail(frames), r2, op2)
<1> DEFINE frames2 == Tail(frames)
           top == frames[1].node
<1>1. /\ frames \in Seq(CallFrame) /\ IsPlan(nodes) /\ DOMAIN op = DOMAIN nodes
      /\ Len(frames) \in Nat \ {0}
      /\ \A n \in DOMAIN nodes : {"state", "pos"} \subseteq DOMAIN op[n]
      /\ Linked(nodes, frames)
      /\ \A i \in 1 .. Len(frames) : InFrame(nodes, op, frames[i], Answered(frames, i, r))
      /\ \A n \in DOMAIN nodes :
           (\A i \in 1 .. Len(frames) : frames[i].node # n) => AtRest(nodes, op, n)
  BY DEF Runs
<1>2. /\ frames2 \in Seq(CallFrame) /\ Len(frames2) = Len(frames) - 1
      /\ \A i \in 1 .. Len(frames2) : frames2[i] = frames[i + 1] /\ i + 1 \in 2 .. Len(frames)
      /\ \A i \in 2 .. Len(frames) : frames2[i - 1] = frames[i] /\ i - 1 \in 1 .. Len(frames2)
  BY <1>1
<1> HIDE DEF frames2
<1>3. \A i \in 1 .. Len(frames) : frames[i].node \in DOMAIN nodes /\ frames[i].node \in Nat
  BY <1>1, FramesTyped DEF InFrame
<1>4. \A i \in 2 .. Len(frames) : frames[i].node # top
  <2> SUFFICES ASSUME NEW i \in 2 .. Len(frames) PROVE frames[i].node # top
    OBVIOUS
  <2>1. frames[1].node > frames[i].node
    BY <1>1 DEF Linked
  <2>2. QED
    BY <1>1, <1>3, <2>1
<1>5. /\ top \in DOMAIN nodes
      /\ Len(frames) = 1 => top = 1
      /\ Len(frames) = 1 \/ Len(frames) > 1
  <2>1. Len(frames) \in Nat \ {0}
    BY <1>1
  <2>2. top \in DOMAIN nodes /\ (Len(frames) = 1 => top = 1)
    BY <1>3, <2>1 DEF RootCalled
  <2>3. \A m \in Nat \ {0} : m = 1 \/ m > 1
    OBVIOUS
  <2>4. Len(frames) = 1 \/ Len(frames) > 1
    BY <2>1, <2>3
  <2>5. QED
    BY <2>2, <2>4
\* The operator that has returned is a child of the frame below alone.
<1>6. ASSUME NEW n \in DOMAIN nodes, Len(frames) > 1 => n # frames[2].node,
             NEW k \in DOMAIN nodes[n].kids
      PROVE  nodes[n].kids[k] # top
  <2>1. CASE Len(frames) = 1
    BY <1>1, <1>5, <2>1, PlanKids
  <2>2. CASE Len(frames) > 1
    <3>1. /\ frames[2].node \in DOMAIN nodes /\ frames[2].step \in DOMAIN MethodAt
          /\ top = nodes[frames[2].node].kids[frames[2].kid]
          /\ InFrame(nodes, op, frames[2], Answered(frames, 2, r))
      <4>1. 1 \in 1 .. Len(frames) - 1 /\ 2 \in 1 .. Len(frames) /\ 1 + 1 = 2
        BY <1>1, <2>2
      <4>2. QED
        BY <1>1, <1>3, <4>1 DEF Linked
    <3>2. frames[2].kid \in DOMAIN nodes[frames[2].node].kids
      BY <3>1 DEF InFrame, Underway
    <3>3. IsPlan(nodes) /\ n # frames[2].node
      BY <1>1, <1>6, <2>2
    <3>4. ASSUME nodes[n].kids[k] = nodes[frames[2].node].kids[frames[2].kid] PROVE FALSE
      <4>1. n = frames[2].node
        BY <1>6, <3>1, <3>2, <3>3, <3>4, OneParent
      <4>2. QED
        BY <3>3, <4>1
    <3>5. QED
      BY <3>1, <3>4
  <2>3. QED
    BY <1>5, <2>1, <2>2
<1>7. \A n \in DOMAIN nodes : \A k \in DOMAIN nodes[n].kids : nodes[n].kids[k] \in DOMAIN op
  BY <1>1, PlanKids
<1>8. Linked(nodes, frames2)
  <2>1. \A i \in 1 .. Len(frames2) - 1 :
          /\ i + 1 \in 1 .. Len(frames) - 1
          /\ frames2[i] = frames[i + 1] /\ frames2[i + 1] = frames[(i + 1) + 1]
    BY <1>1, <1>2
  <2>2. \A i \in 1 .. Len(frames2) - 1 :
          /\ frames2[i + 1].step \in DOMAIN MethodAt
          /\ frames2[i].node = nodes[frames2[i + 1].node].kids[frames2[i + 1].kid]
          /\ frames2[i].method = MethodAt[frames2[i + 1].step]
    BY <1>1, <2>1 DEF Linked
  <2>3. ASSUME NEW i \in 1 .. Len(frames2), NEW j \in 1 .. Len(frames2), i < j
        PROVE  frames2[i].node > frames2[j].node
    <3>1. /\ frames2[i] = frames[i + 1] /\ frames2[j] = frames[j + 1] /\ i + 1 < j + 1
          /\ i + 1 \in 1 .. Len(frames) /\ j + 1 \in 1 .. Len(frames)
      BY <1>1, <1>2, <2>3
    <3>2. QED
      BY <1>1, <3>1 DEF Linked
  <2>4. QED
    BY <2>2, <2>3 DEF Linked
<1>9. ASSUME NEW i \in 1 .. Len(frames2)
      PROVE  InFrame(nodes, op2, frames2[i], Answered(frames2, i, r2))
  <2> DEFINE f == frames2[i]
             kids == nodes[f.node].kids
  <2>1. /\ f = frames[i + 1] /\ i + 1 \in 2 .. Len(frames) /\ i + 1 \in 1 .. Len(frames)
        /\ Answered(frames, i + 1, r) = "none"
    BY <1>1, <1>2 DEF Answered
  <2>2. InFrame(nodes, op, f, "none") /\ f.node # top /\ f.node \in DOMAIN op /\ op2[f.node] = op[f.node]
    BY <1>1, <1>3, <1>4, <2>1
  <2>3. f.step # "enter" \/ i # 1
    <3>1. i = 1 => f.step \in DOMAIN MethodAt
      BY <1>1, <2>1 DEF Linked
    <3>2. QED
      BY <3>1 DEF MethodAt
  <2>4. CASE i = 1
    <3>1. f.step \in DOMAIN MethodAt /\ top = kids[f.kid] /\ frames[1].method = MethodAt[f.step]
      BY <1>1, <2>1, <2>4 DEF Linked
    <3>2. f.kid \in DOMAIN kids /\ Underway(nodes, op, f, "none")
      BY <2>2, <3>1 DEF InFrame, Underway
    <3>3. \A k \in DOMAIN kids : k # f.kid => op2[kids[k]] = op[kids[k]]
      <4> SUFFICES ASSUME NEW k \in DOMAIN kids, k # f.kid PROVE op2[kids[k]] = op[kids[k]]
        OBVIOUS
      <4>1. kids[k] # top
        <5>1. IsPlan(nodes) /\ f.node \in DOMAIN nodes
          BY <1>1, <2>2
        <5>2. ASSUME nodes[f.node].kids[k] = nodes[f.node].kids[f.kid] PROVE FALSE
          <6>1. k = f.kid
            BY <3>2, <5>1, <5>2, OneParent
          <6>2. QED
            BY <6>1
        <5>3. QED
          BY <3>1, <5>2
      <4>2. QED
        BY <1>1, <1>7, <2>2, <4>1
    <3>4. Answered(frames2, i, r2) = r2.kind
      BY <2>4 DEF Answered
    <3>5. <<MethodAt[f.step], r2.kind, op2[kids[f.kid]].state>> \in Replies
      BY <3>1
    <3>6. f.step \notin {"enter", "register", "create", "fetch"}
      BY <3>1 DEF MethodAt
    <3>7. f.kid \in Nat /\ \A k \in DOMAIN kids : k \in Nat
      <4>1. f \in CallFrame
        BY <1>1, <2>1, FramesTyped
      <4>2. kids \in Seq(f.node + 1 .. Len(nodes))
        BY <1>1, <2>2 DEF IsPlan
      <4>3. QED
        BY <4>1, <4>2 DEF CallFrame
    <3>8. \A k \in DOMAIN kids : (k < f.kid => k # f.kid) /\ (k > f.kid => k # f.kid)
      BY <3>7
    <3>9. f.step = "open" => \A k \in DOMAIN kids : /\ k < f.kid => op2[kids[k]].state = "open"
                                                    /\ k > f.kid => op2[kids[k]].state = "new"
      BY <3>2, <3>3, <3>8 DEF Underway
    <3>10. f.step \in {"drain", "close"} =>
             \A k \in DOMAIN kids : /\ k < f.kid => op2[kids[k]].state = "closed"
                                    /\ k > f.kid => op2[kids[k]].state = "open"
      BY <3>2, <3>3, <3>8 DEF Underway
    <3>11. Underway(nodes, op2, f, r2.kind)
      BY <3>1, <3>2, <3>5, <3>6, <3>9, <3>10 DEF Underway
    <3>12. QED
      BY <2>2, <3>4, <3>6, <3>11 DEF InFrame
  <2>5. CASE i # 1
    <3>1. Len(frames) > 1 => f.node # frames[2].node
      <4>1. Len(frames) > 1 => 2 < i + 1 /\ 2 \in 1 .. Len(frames)
        BY <1>1, <2>1, <2>5
      <4>2. Len(frames) > 1 => frames[2].node > f.node
        BY <1>1, <2>1, <4>1 DEF Linked
      <4>3. QED
        BY <1>3, <2>1, <4>1, <4>2
    <3>2. \A k \in DOMAIN kids : op2[kids[k]] = op[kids[k]]
      BY <1>1, <1>6, <1>7, <2>2, <3>1
    <3>3. Underway(nodes, op2, f, "none")
      BY <2>2, <3>2, UnderwaySame DEF InFrame
    <3>4. AtRest(nodes, op, f.node) => AtRest(nodes, op2, f.node)
      BY <2>2, <3>2, RestsSame DEF AtRest
    <3>5. Answered(frames2, i, r2) = "none"
      BY <2>5 DEF Answered
    <3>6. QED
      BY <2>2, <3>3, <3>4, <3>5 DEF InFrame
  <2>6. QED
    BY <2>4, <2>5
<1>10. ASSUME NEW n \in DOMAIN nodes, \A i \in 1 .. Len(frames2) : frames2[i].node # n
       PROVE  AtRest(nodes, op2, n)
  <2>1. Len(frames) > 1 => n # frames[2].node
    <3>1. Len(frames) > 1 => 1 \in 1 .. Len(frames2) /\ frames2[1] = frames[2]
      BY <1>1, <1>2
    <3>2. QED
      BY <1>10, <3>1
  <2>2. \A k \in DOMAIN nodes[n].kids : op2[nodes[n].kids[k]] = op[nodes[n].kids[k]]
    BY <1>1, <1>6, <1>7, <2>1
  <2>3. CASE n = top
    BY <2>2, <2>3, RestsSame DEF AtRest
  <2>4. CASE n # top
    <3>1. \A i \in 1 .. Len(frames) : frames[i].node # n
      <4> SUFFICES ASSUME NEW i \in 1 .. Len(frames) PROVE frames[i].node # n
        OBVIOUS
      <4>1. CASE i = 1
        BY <2>4, <4>1
      <4>2. CASE i # 1
        <5>1. i \in 2 .. Len(frames)
          BY <1>1, <4>2
        <5>2. QED
          BY <1>2, <1>10, <5>1
      <4>3. QED
        BY <4>1, <4>2
    <3>2. AtRest(nodes, op, n) /\ op2[n] = op[n]
      BY <1>1, <2>4, <3>1
    <3>3. QED
      BY <2>2, <3>2, RestsSame DEF AtRest
  <2>5. QED
    BY <2>3, <2>4
<1>11. \A n \in DOMAIN nodes : {"state", "pos"} \subseteq DOMAIN op2[n]
  BY <1>1
<1>12. Runs(nodes, frames2, r2, op2)
  BY <1>1, <1>2, <1>8, <1>9, <1>10, <1>11 DEF Runs
<1>13. RootCalled(label, frames2, r2, op2)
  <2>1. CASE Len(frames) = 1
    <3>1. frames2 = <<>> /\ top = 1 /\ frames[1].method = Calls[label]
      BY <1>1, <1>2, <1>5, <2>1 DEF RootCalled
    <3>2. <<Calls[label], r2.kind, op2[1].state>> \in Replies
      BY <3>1
    <3>3. QED
      BY <3>1, <3>2 DEF RootCalled
  <2>2. CASE Len(frames) > 1
    <3>1. /\ frames2 # <<>> /\ Len(frames2) \in 1 .. Len(frames2) /\ Len(frames2) + 1 = Len(frames)
          /\ Len(frames) \in 2 .. Len(frames)
      BY <1>1, <1>2, <2>2
    <3>2. frames2[Len(frames2)] = frames[Len(frames)]
      BY <1>2, <3>1
    <3>3. frames[Len(frames)].node = 1 /\ frames[Len(frames)].method = Calls[label]
      BY DEF RootCalled
    <3>4. op2[1] = op[1]
      BY <1>1, <1>3, <1>4, <3>1, <3>3
    <3>5. QED
      BY <3>1, <3>2, <3>3, <3>4 DEF RootCalled
  <2>3. QED
    BY <1>5, <2>1, <2>2
<1>14. QED
  BY <1>12, <1>13 DEF frames2

-----------------------------------------------------------------------------
(* One step of one statement.                                               *)

LEMMA RepliesTell ==
  ASSUME NEW x
  PROVE  /\ <<"open", "none", x>> \in Replies <=> x = "new"
         /\ <<"open", "ok", x>> \in Replies <=> x = "open"
         /\ <<"open", "error", x>> \in Replies <=> x = "failed"
         /\ <<"next", "none", x>> \in Replies <=> x = "open"
         /\ <<"next", "row", x>> \in Replies <=> x = "open"
         /\ <<"next", "eof", x>> \in Replies <=> x = "spent"
         /\ <<"next", "error", x>> \in Replies <=> x = "spent"
         /\ <<"close", "none", x>> \in Replies <=> x \in {"open", "spent"}
         /\ <<"close", "ok", x>> \in Replies <=> x = "closed"
  BY DEF Replies

LEMMA KidsCounted ==
  ASSUME NEW nodes, IsPlan(nodes), NEW n \in DOMAIN nodes
  PROVE  LET kind == nodes[n].kind
             kids == nodes[n].kids
         IN  /\ kind \in Kinds
             /\ DOMAIN kids = 1 .. Len(kids) /\ Len(kids) \in 0 .. 2
             /\ kids = <<>> <=> Len(kids) = 0
             /\ kind = "setop" => Len(kids) = 2
             /\ kind \in (Streaming \union Draining) \ {"setop"} => Len(kids) = 1
             /\ kind \in {"insert", "create"} => Len(kids) < 2
             /\ kind \in {"scan", "constant", "empty", "update", "delete"} \union (Definitions \ {"create"})
                  => Len(kids) = 0
<1> DEFINE kind == nodes[n].kind
           kids == nodes[n].kids
<1>1. kind \in Kinds /\ Len(kids) \in Arities(kind) /\ kids \in Seq(n + 1 .. Len(nodes))
  BY DEF IsPlan
<1>2. DOMAIN kids = 1 .. Len(kids) /\ Len(kids) \in Nat /\ (kids = <<>> <=> Len(kids) = 0)
  BY <1>1
<1> HIDE DEF kids, kind
<1>3. kind = "setop" => Len(kids) = 2
  BY <1>1 DEF Arities, Streaming, Draining, Definitions
<1>4. kind \in (Streaming \union Draining) \ {"setop"} => Len(kids) = 1
  BY <1>1 DEF Arities, Streaming, Draining, Definitions
<1>5. kind \in {"insert", "create"} => Len(kids) \in {0, 1}
  BY <1>1 DEF Arities, Streaming, Draining, Definitions
<1>6. kind \in {"scan", "constant", "empty", "update", "delete"} \union (Definitions \ {"create"})
        => Len(kids) = 0
  BY <1>1 DEF Arities, Streaming, Draining, Definitions
<1>7. /\ Len(kids) \in 0 .. 2
      /\ kind \in {"insert", "create"} => Len(kids) < 2
  <2>1. \/ kind \in {"insert", "create"}
        \/ kind = "setop" \/ kind \in (Streaming \union Draining) \ {"setop"}
        \/ kind \in {"scan", "constant", "empty", "update", "delete"} \union (Definitions \ {"create"})
    BY <1>1 DEF Kinds
  <2>2. Len(kids) \in {0, 1, 2} /\ (kind \in {"insert", "create"} => Len(kids) \in {0, 1})
    BY <1>3, <1>4, <1>5, <1>6, <2>1
  <2>3. QED
    BY <2>2
<1>8. QED
  BY <1>1, <1>2, <1>3, <1>4, <1>6, <1>7 DEF kids, kind

Plan(s) == script[s].nodes
Sound(s) == Lives(Plan(s), pc[s], stack[s], reply[s], ops[s])

\* Only s has moved.
Alone(s) ==
  /\ script' = script
  /\ DOMAIN pc' = Stmt /\ DOMAIN stack' = Stmt /\ DOMAIN reply' = Stmt /\ DOMAIN ops' = Stmt
  /\ \A t \in Stmt \ {s} : /\ pc'[t] = pc[t] /\ stack'[t] = stack[t]
                           /\ reply'[t] = reply[t] /\ ops'[t] = ops[t]

Fine(s) == Alone(s) /\ Sound(s)' /\ Lawful(s)

\* The children of the operator that runs: none is at another step's place.
LEMMA TopFrame ==
  ASSUME LifeInv, NEW s \in Stmt, stack[s] # <<>>
  PROVE  /\ pc[s] \in DOMAIN Calls
         /\ Runs(Plan(s), stack[s], reply[s], ops[s])
         /\ RootCalled(pc[s], stack[s], reply[s], ops[s])
         /\ Top(s) = stack[s][1] /\ Top(s) \in CallFrame
         /\ InFrame(Plan(s), ops[s], Top(s), reply[s].kind)
         /\ Top(s).node \in DOMAIN Plan(s) /\ DOMAIN ops[s] = DOMAIN Plan(s)
         /\ IsPlan(Plan(s))
         /\ Node(s) = Plan(s)[Top(s).node]
         /\ {"state", "pos"} \subseteq DOMAIN Op(s)
         /\ Len(stack[s]) \in Nat \ {0}
<1>1. Sound(s)
  BY DEF LifeInv, Sound, Plan
<1>2. pc[s] \in DOMAIN Calls
  BY <1>1 DEF Sound, Lives
<1>3. Runs(Plan(s), stack[s], reply[s], ops[s]) /\ RootCalled(pc[s], stack[s], reply[s], ops[s])
  BY <1>1, <1>2 DEF Sound, Lives
<1>4. stack[s] \in Seq(CallFrame) /\ Len(stack[s]) \in Nat \ {0} /\ Top(s) = stack[s][1]
      /\ 1 \in 1 .. Len(stack[s])
  BY <1>3 DEF Runs, Top
<1>5. Top(s) \in CallFrame
  BY <1>4
<1>6. InFrame(Plan(s), ops[s], stack[s][1], Answered(stack[s], 1, reply[s]))
  BY <1>3, <1>4 DEF Runs
<1>7. InFrame(Plan(s), ops[s], Top(s), reply[s].kind)
  BY <1>4, <1>6 DEF Answered
<1>8. Top(s).node \in DOMAIN Plan(s) /\ DOMAIN ops[s] = DOMAIN Plan(s) /\ IsPlan(Plan(s))
  BY <1>3, <1>7 DEF Runs, InFrame
<1>9. Node(s) = Plan(s)[Top(s).node] /\ {"state", "pos"} \subseteq DOMAIN Op(s)
  BY <1>3, <1>8 DEF Node, Plan, Op, Runs
<1>10. QED
  BY <1>2, <1>3, <1>4, <1>5, <1>7, <1>8, <1>9

\* The frame goes on at another step, in another state of its operator or the same.
LEMMA Goes ==
  ASSUME LifeInv, NEW s \in Stmt, stack[s] # <<>>, NEW step \in Steps, NEW kid \in Nat, NEW op,
         Goto(s, step, kid), UNCHANGED <<script, pc>>,
         ops' = [ops EXCEPT ![s][Top(s).node] = op] \/ (ops' = ops /\ op = Op(s)),
         {"state", "pos"} \subseteq DOMAIN op, op.state = Op(s).state,
         step # "enter", Reaches(Node(s), Top(s).method, step),
         step = "pull" /\ Node(s).kind = "insert" => op.pos = 1,
         Underway(Plan(s), ops[s], [Top(s) EXCEPT !.step = step, !.kid = kid], "none")
  PROVE  Fine(s)
<1> DEFINE f == [Top(s) EXCEPT !.step = step, !.kid = kid]
<1>1. /\ Runs(Plan(s), stack[s], reply[s], ops[s]) /\ Top(s) = stack[s][1] /\ Top(s) \in CallFrame
      /\ Top(s).node \in DOMAIN Plan(s) /\ DOMAIN ops[s] = DOMAIN Plan(s)
      /\ pc[s] \in DOMAIN Calls /\ RootCalled(pc[s], stack[s], reply[s], ops[s])
      /\ Node(s) = Plan(s)[Top(s).node] /\ Len(stack[s]) \in Nat \ {0}
  BY TopFrame
<1>2. /\ DOMAIN pc = Stmt /\ DOMAIN stack = Stmt /\ DOMAIN reply = Stmt /\ DOMAIN ops = Stmt
  BY DEF LifeInv
<1>3. /\ f \in CallFrame /\ f.node = Top(s).node /\ f.method = Top(s).method
      /\ f.step = step /\ f.kid = kid
  BY <1>1 DEF CallFrame
<1>4. /\ stack'[s] = [stack[s] EXCEPT ![1] = f]
      /\ reply'[s] = NoReply
      /\ DOMAIN stack' = Stmt /\ DOMAIN reply' = Stmt
      /\ \A t \in Stmt \ {s} : stack'[t] = stack[t] /\ reply'[t] = reply[t]
  BY <1>1, <1>2 DEF Goto
<1>5. /\ DOMAIN ops' = Stmt /\ \A t \in Stmt \ {s} : ops'[t] = ops[t]
      /\ DOMAIN ops'[s] = DOMAIN ops[s]
      /\ ops'[s][f.node] = op
      /\ \A n \in DOMAIN ops[s] : n # f.node => ops'[s][n] = ops[s][n]
  BY <1>1, <1>2, <1>3 DEF Op
<1>6. op.state = ops[s][f.node].state
  BY <1>3 DEF Op
<1> HIDE DEF f
<1>7. Runs(Plan(s), stack'[s], NoReply, ops'[s])
  <2>1. Runs(Plan(s), [stack[s] EXCEPT ![1] = f], NoReply, ops'[s])
    <3>1. Reaches(Plan(s)[f.node], f.method, f.step)
      BY <1>1, <1>3
    <3>2. f.step = "pull" /\ Plan(s)[f.node].kind = "insert" => ops'[s][f.node].pos = 1
      BY <1>1, <1>3, <1>5
    <3>3. {"state", "pos"} \subseteq DOMAIN ops'[s][f.node] /\ ops'[s][f.node].state = ops[s][f.node].state
      BY <1>5, <1>6
    <3>4. Underway(Plan(s), ops[s], f, "none")
      BY DEF f
    <3>5. f.node = stack[s][1].node /\ f.method = stack[s][1].method /\ f.step # "enter"
      BY <1>1, <1>3
    <3>6. QED
      BY <1>1, <1>3, <1>5, <3>1, <3>2, <3>3, <3>4, <3>5, FrameGoesOn
  <2>2. QED
    BY <1>4, <2>1
<1>8. RootCalled(pc[s], stack'[s], NoReply, ops'[s])
  <2>1. /\ stack'[s] # <<>> /\ Len(stack'[s]) = Len(stack[s])
        /\ \A i \in 1 .. Len(stack[s]) : stack'[s][i].node = stack[s][i].node
                                         /\ stack'[s][i].method = stack[s][i].method
    BY <1>1, <1>3, <1>4 DEF Runs
  <2>2. ops'[s][1].state = ops[s][1].state
    BY <1>1, <1>5, <1>6, PlanKids DEF Runs
  <2>3. Len(stack[s]) \in 1 .. Len(stack[s])
    BY <1>1
  <2>4. QED
    BY <1>1, <2>1, <2>2, <2>3 DEF RootCalled
<1>9. Sound(s)'
  <2>1. pc'[s] = pc[s] /\ Plan(s)' = Plan(s)
    BY DEF Plan
  <2>2. Lives(Plan(s), pc[s], stack'[s], NoReply, ops'[s])
    BY <1>1, <1>7, <1>8 DEF Lives, Calls, Left
  <2>3. QED
    BY <1>4, <2>1, <2>2 DEF Sound
<1>10. Lawful(s)
  <2>1. Len(stack'[s]) = Len(stack[s])
    BY <1>1, <1>4 DEF Runs
  <2>2. QED
    BY <1>1, <2>1 DEF Lawful
<1>11. Alone(s)
  BY <1>2, <1>4, <1>5 DEF Alone
<1>12. QED
  BY <1>9, <1>10, <1>11 DEF Fine

\* The method of the top frame returns.
LEMMA Returns ==
  ASSUME LifeInv, NEW s \in Stmt, stack[s] # <<>>, NEW op, NEW r, NEW state,
         ReturnWith(s, op, r), UNCHANGED <<script, pc>>,
         {"state", "pos"} \subseteq DOMAIN op, op.state = Op(s).state,
         state = StateAfter(Top(s).method, r, Op(s).state),
         <<Top(s).method, r.kind, state>> \in Replies,
         Rests(Plan(s), ops[s], Top(s).node, state, op.pos)
  PROVE  Fine(s)
<1>1. /\ Runs(Plan(s), stack[s], reply[s], ops[s]) /\ Top(s) = stack[s][1] /\ Top(s) \in CallFrame
      /\ Top(s).node \in DOMAIN Plan(s) /\ DOMAIN ops[s] = DOMAIN Plan(s)
      /\ pc[s] \in DOMAIN Calls /\ RootCalled(pc[s], stack[s], reply[s], ops[s])
      /\ Len(stack[s]) \in Nat \ {0}
  BY TopFrame
<1>2. /\ DOMAIN pc = Stmt /\ DOMAIN stack = Stmt /\ DOMAIN reply = Stmt /\ DOMAIN ops = Stmt
  BY DEF LifeInv
<1> DEFINE new == [op EXCEPT !.state = StateAfter(Top(s).method, r, @)]
<1>3. new.state = state /\ new.pos = op.pos /\ {"state", "pos"} \subseteq DOMAIN new
  OBVIOUS
<1>4. /\ stack'[s] = Tail(stack[s])
      /\ reply'[s] = r
      /\ DOMAIN stack' = Stmt /\ DOMAIN reply' = Stmt
      /\ \A t \in Stmt \ {s} : stack'[t] = stack[t] /\ reply'[t] = reply[t]
  BY <1>2 DEF ReturnWith
<1>5. ops' = [ops EXCEPT ![s][Top(s).node] = new]
  BY DEF ReturnWith
<1> HIDE DEF new
<1>6. /\ DOMAIN ops' = Stmt /\ \A t \in Stmt \ {s} : ops'[t] = ops[t]
      /\ DOMAIN ops'[s] = DOMAIN ops[s]
      /\ ops'[s][Top(s).node] = new
      /\ \A n \in DOMAIN ops[s] : n # Top(s).node => ops'[s][n] = ops[s][n]
  BY <1>1, <1>2, <1>5
<1>7. Runs(Plan(s), Tail(stack[s]), r, ops'[s]) /\ RootCalled(pc[s], Tail(stack[s]), r, ops'[s])
  <2>1. <<stack[s][1].method, r.kind, ops'[s][stack[s][1].node].state>> \in Replies
    BY <1>1, <1>3, <1>6
  <2>2. Rests(Plan(s), ops[s], stack[s][1].node, ops'[s][stack[s][1].node].state, ops'[s][stack[s][1].node].pos)
    BY <1>1, <1>3, <1>6
  <2>3. {"state", "pos"} \subseteq DOMAIN ops'[s][stack[s][1].node]
    BY <1>1, <1>3, <1>6
  <2>4. \A n \in DOMAIN ops[s] : n # stack[s][1].node => ops'[s][n] = ops[s][n]
    BY <1>1, <1>6
  <2>5. QED
    <3>1. DOMAIN ops'[s] = DOMAIN ops[s]
      BY <1>6
    <3>2. Runs(Plan(s), stack[s], reply[s], ops[s]) /\ RootCalled(pc[s], stack[s], reply[s], ops[s])
      BY <1>1
    <3>3. QED
      BY <2>1, <2>2, <2>3, <2>4, <3>1, <3>2, FramePopped
<1>8. Sound(s)'
  <2>1. pc'[s] = pc[s] /\ Plan(s)' = Plan(s)
    BY DEF Plan
  <2>2. Lives(Plan(s), pc[s], Tail(stack[s]), r, ops'[s])
    BY <1>1, <1>7 DEF Lives, Calls, Left
  <2>3. QED
    BY <1>4, <2>1, <2>2 DEF Sound
<1>9. Lawful(s)
  <2>1. Len(stack'[s]) = Len(stack[s]) - 1
    BY <1>1, <1>4 DEF Runs
  <2>2. QED
    BY <1>1, <2>1 DEF Lawful
<1>10. Alone(s)
  BY <1>2, <1>4, <1>6 DEF Alone
<1>11. QED
  BY <1>8, <1>9, <1>10 DEF Fine

-----------------------------------------------------------------------------
(* What is known at a step, and what is to be shown of the next, in terms of *)
(* the children of the operator that runs.                                   *)

Kids(s) == Node(s).kids
Under(s, k) == ops[s][Kids(s)[k]].state

\* Rests, of the operator that runs.
Resting(s, state, pos) ==
  /\ state = "new" => \A k \in DOMAIN Kids(s) : Under(s, k) = "new"
  /\ state \in {"open", "spent"} /\ ClosesChild(Node(s)) =>
       \A k \in DOMAIN Kids(s) : Under(s, k) \in {"open", "spent"}
  /\ state \in {"open", "spent"} /\ ~ClosesChild(Node(s)) =>
       \A k \in DOMAIN Kids(s) : Under(s, k) \in {"new", "closed"}
  /\ state = "open" /\ (Node(s).kind \in Streaming \/ (Node(s).kind = "insert" /\ pos # 1)) =>
       \A k \in DOMAIN Kids(s) : Under(s, k) = "open"
  /\ state = "closed" => \A k \in DOMAIN Kids(s) : Under(s, k) \in {"new", "closed"}

\* Underway, of the operator that runs.
Going(s, step, kid, answered) ==
  /\ step \in DOMAIN MethodAt =>
       kid \in DOMAIN Kids(s) /\ <<MethodAt[step], answered, Under(s, kid)>> \in Replies
  /\ step \notin DOMAIN MethodAt => answered = "none"
  /\ step = "open" => \A k \in DOMAIN Kids(s) : /\ k < kid => Under(s, k) = "open"
                                                /\ k > kid => Under(s, k) = "new"
  /\ step \in {"drain", "close"} =>
       \A k \in DOMAIN Kids(s) : /\ k < kid => Under(s, k) = "closed"
                                 /\ k > kid => Under(s, k) = "open"
  /\ step \in {"register", "create", "fetch"} => \A k \in DOMAIN Kids(s) : Under(s, k) = "open"

LEMMA RestsOf ==
  ASSUME LifeInv, NEW s \in Stmt, stack[s] # <<>>, NEW state, NEW pos
  PROVE  Rests(Plan(s), ops[s], Top(s).node, state, pos) <=> Resting(s, state, pos)
<1>1. Kids(s) = Plan(s)[Top(s).node].kids /\ Node(s) = Plan(s)[Top(s).node]
  BY TopFrame DEF Kids
<1>2. QED
  BY <1>1 DEF Rests, Resting, Under

LEMMA UnderwayOf ==
  ASSUME LifeInv, NEW s \in Stmt, stack[s] # <<>>, NEW f, f.node = Top(s).node, NEW answered
  PROVE  Underway(Plan(s), ops[s], f, answered) <=> Going(s, f.step, f.kid, answered)
<1>1. Kids(s) = Plan(s)[f.node].kids
  BY TopFrame DEF Kids
<1>2. QED
  BY <1>1 DEF Underway, Going, Under

\* What is known of the operator that runs.
LEMMA TopTells ==
  ASSUME LifeInv, NEW s \in Stmt, stack[s] # <<>>
  PROVE  /\ Reaches(Node(s), Top(s).method, Top(s).step)
         /\ <<Top(s).method, "none", Op(s).state>> \in Replies
         /\ Going(s, Top(s).step, Top(s).kid, reply[s].kind)
         /\ Top(s).step = "enter" => Resting(s, Op(s).state, Op(s).pos)
         /\ Top(s).step = "pull" /\ Node(s).kind = "insert" => Op(s).pos = 1
         /\ Top(s).kid \in Nat
<1>1. /\ Top(s).node \in DOMAIN Plan(s) /\ Top(s) \in CallFrame
      /\ InFrame(Plan(s), ops[s], Top(s), reply[s].kind) /\ Node(s) = Plan(s)[Top(s).node]
  BY TopFrame
<1>2. Going(s, Top(s).step, Top(s).kid, reply[s].kind)
  BY <1>1, UnderwayOf DEF InFrame
<1>3. Top(s).step = "enter" => Resting(s, Op(s).state, Op(s).pos)
  BY <1>1, RestsOf DEF InFrame, AtRest, Op
<1>4. QED
  BY <1>1, <1>2, <1>3 DEF InFrame, Op, CallFrame

LEMMA NodeKids ==
  ASSUME LifeInv, NEW s \in Stmt, stack[s] # <<>>
  PROVE  /\ Node(s).kind \in Kinds
         /\ DOMAIN Kids(s) = 1 .. Len(Kids(s)) /\ Len(Kids(s)) \in 0 .. 2
         /\ Kids(s) = <<>> <=> Len(Kids(s)) = 0
         /\ Node(s).kind = "setop" => Len(Kids(s)) = 2
         /\ Node(s).kind \in (Streaming \union Draining) \ {"setop"} => Len(Kids(s)) = 1
         /\ Node(s).kind \in {"insert", "create"} => Len(Kids(s)) < 2
         /\ Node(s).kind \in {"scan", "constant", "empty", "update", "delete"} \union (Definitions \ {"create"})
              => Len(Kids(s)) = 0
<1>1. IsPlan(Plan(s)) /\ Top(s).node \in DOMAIN Plan(s) /\ Node(s) = Plan(s)[Top(s).node]
  BY TopFrame
<1>2. QED
  BY <1>1, KidsCounted DEF Kids

\* An operator with one child: the step is at that one.
LEMMA OnlyKid ==
  ASSUME LifeInv, NEW s \in Stmt, stack[s] # <<>>, Node(s).kind # "setop",
         Top(s).step \in DOMAIN MethodAt
  PROVE  DOMAIN Kids(s) = {1} /\ Top(s).kid = 1 /\ Len(Kids(s)) = 1
<1>1. Top(s).kid \in DOMAIN Kids(s)
  BY TopTells DEF Going
<1>2. Len(Kids(s)) \in {0, 1} \/ (Node(s).kind \in {"insert", "create"} /\ Len(Kids(s)) < 2)
  <2>1. \/ Node(s).kind \in {"insert", "create"}
        \/ Node(s).kind \in (Streaming \union Draining) \ {"setop"}
        \/ Node(s).kind \in {"scan", "constant", "empty", "update", "delete"} \union (Definitions \ {"create"})
    BY NodeKids DEF Kinds
  <2>2. QED
    BY <2>1, NodeKids
<1>3. QED
  BY <1>1, <1>2, NodeKids

LEMMA GoesOn ==
  ASSUME LifeInv, NEW s \in Stmt, stack[s] # <<>>, NEW step \in Steps \ {"enter"}, NEW kid \in Nat, NEW op,
         Goto(s, step, kid), UNCHANGED <<script, pc>>,
         ops' = [ops EXCEPT ![s][Top(s).node] = op] \/ (ops' = ops /\ op = Op(s)),
         {"state", "pos"} \subseteq DOMAIN op, op.state = Op(s).state,
         Reaches(Node(s), Top(s).method, step),
         step = "pull" /\ Node(s).kind = "insert" => op.pos = 1,
         Going(s, step, kid, "none")
  PROVE  Fine(s)
<1> DEFINE f == [Top(s) EXCEPT !.step = step, !.kid = kid]
<1>1. f.node = Top(s).node /\ f.step = step /\ f.kid = kid
  BY TopFrame DEF CallFrame
<1>2. Underway(Plan(s), ops[s], f, "none")
  BY <1>1, UnderwayOf
<1>3. QED
  BY <1>2, Goes

LEMMA ReturnsNow ==
  ASSUME LifeInv, NEW s \in Stmt, stack[s] # <<>>, NEW op, NEW r, NEW state,
         ReturnWith(s, op, r), UNCHANGED <<script, pc>>,
         {"state", "pos"} \subseteq DOMAIN op, op.state = Op(s).state,
         state = StateAfter(Top(s).method, r, Op(s).state),
         <<Top(s).method, r.kind, state>> \in Replies,
         Resting(s, state, op.pos)
  PROVE  Fine(s)
  BY RestsOf, Returns

-----------------------------------------------------------------------------
(* The operators that read.                                                  *)

LEMMA CallChildFine ==
  ASSUME LifeInv, NEW s \in Stmt, CallChild(s)
  PROVE  Fine(s)
<1> DEFINE f == [node |-> Kid(s), method |-> MethodAt[Top(s).step], step |-> "enter", kid |-> 1]
           frames == stack[s]
<1>1. frames # <<>> /\ Top(s).step \in DOMAIN MethodAt /\ reply[s].kind = "none"
      /\ script' = script /\ pc' = pc /\ ops' = ops
  BY DEF CallChild, Got
<1>2. /\ Runs(Plan(s), frames, reply[s], ops[s]) /\ Top(s) = frames[1]
      /\ pc[s] \in DOMAIN Calls /\ RootCalled(pc[s], frames, reply[s], ops[s])
      /\ Node(s) = Plan(s)[Top(s).node] /\ Len(frames) \in Nat \ {0}
  BY <1>1, TopFrame
<1>3. /\ DOMAIN pc = Stmt /\ DOMAIN stack = Stmt /\ DOMAIN reply = Stmt /\ DOMAIN ops = Stmt
  BY DEF LifeInv
<1>4. /\ stack'[s] = <<f>> \o frames /\ reply'[s] = NoReply
      /\ DOMAIN stack' = Stmt /\ DOMAIN reply' = Stmt
      /\ \A t \in Stmt \ {s} : stack'[t] = stack[t] /\ reply'[t] = reply[t]
  BY <1>3 DEF CallChild, Call, Called
<1>5. f = [node |-> Plan(s)[frames[1].node].kids[frames[1].kid],
           method |-> MethodAt[frames[1].step], step |-> "enter", kid |-> 1]
  BY <1>2 DEF Kid
<1>6. /\ Runs(Plan(s), <<f>> \o frames, NoReply, ops[s])
      /\ <<f.method, "none", ops[s][f.node].state>> \in Replies
  BY <1>1, <1>2, <1>5, FramePushed
<1> HIDE DEF f, frames
<1>7. /\ Len(<<f>> \o frames) = Len(frames) + 1 /\ <<f>> \o frames # <<>> /\ Head(<<f>> \o frames) = f
      /\ (<<f>> \o frames)[Len(frames) + 1] = frames[Len(frames)]
  BY <1>2 DEF Runs
<1>8. RootCalled(pc[s], <<f>> \o frames, NoReply, ops[s])
  <2>1. frames # <<>>
    BY <1>1 DEF frames
  <2>2. QED
    BY <1>2, <1>7, <2>1 DEF RootCalled
<1>9. Sound(s)'
  <2>1. pc'[s] = pc[s] /\ Plan(s)' = Plan(s) /\ ops'[s] = ops[s]
    BY <1>1 DEF Plan
  <2>2. Lives(Plan(s), pc[s], <<f>> \o frames, NoReply, ops[s])
    BY <1>2, <1>6, <1>8 DEF Lives, Calls, Left
  <2>3. QED
    BY <1>4, <2>1, <2>2 DEF Sound
<1>10. Lawful(s)
  <2>1. f.method \in {"open", "next", "close"}
    BY <1>1 DEF f, MethodAt
  <2>2. Head(stack'[s]) = f
    BY <1>4, <1>7
  <2>3. QED
    BY <1>6, <2>1, <2>2, RepliesTell DEF Lawful
<1>11. Alone(s)
  BY <1>1, <1>3, <1>4 DEF Alone
<1>12. QED
  BY <1>9, <1>10, <1>11 DEF Fine

\* The states that the returns lead to.
LEMMA KindsOf ==
  Ok.kind = "ok" /\ Eof.kind = "eof" /\ Error.kind = "error" /\ NoReply.kind = "none" /\ Error # Ok
<1>1. Ok.kind = "ok" /\ Eof.kind = "eof" /\ Error.kind = "error" /\ NoReply.kind = "none"
  BY DEF Ok, Eof, Error, NoReply
<1>2. QED
  BY <1>1

LEMMA AfterOpen ==
  ASSUME NEW state
  PROVE  StateAfter("open", Ok, state) = "open" /\ StateAfter("open", Error, state) = "failed"
  BY KindsOf DEF StateAfter

LEMMA AfterNext ==
  ASSUME NEW state, NEW r
  PROVE  /\ r.kind = "row" => StateAfter("next", r, state) = state
         /\ r.kind \in {"eof", "error"} => StateAfter("next", r, state) = "spent"
  BY DEF StateAfter

LEMMA AfterClose ==
  ASSUME NEW state, NEW r
  PROVE  StateAfter("close", r, state) = "closed"
  BY DEF StateAfter

LEMMA OpensOk ==
  ASSUME LifeInv, NEW s \in Stmt, stack[s] # <<>>, NEW op, ReturnWith(s, op, Ok),
         UNCHANGED <<script, pc>>, {"state", "pos"} \subseteq DOMAIN op, op.state = Op(s).state,
         Top(s).method = "open", Resting(s, "open", op.pos)
  PROVE  Fine(s)
<1>1. /\ "open" = StateAfter(Top(s).method, Ok, Op(s).state)
      /\ <<Top(s).method, Ok.kind, "open">> \in Replies
  BY KindsOf, AfterOpen, RepliesTell
<1>2. QED
  BY <1>1, ReturnsNow

LEMMA OpenFails ==
  ASSUME LifeInv, NEW s \in Stmt, stack[s] # <<>>, Return(s, Error),
         UNCHANGED <<script, pc>>, Top(s).method = "open"
  PROVE  Fine(s)
<1>1. /\ "failed" = StateAfter(Top(s).method, Error, Op(s).state)
      /\ <<Top(s).method, Error.kind, "failed">> \in Replies
  BY KindsOf, AfterOpen, RepliesTell
<1>2. Resting(s, "failed", Op(s).pos) /\ {"state", "pos"} \subseteq DOMAIN Op(s)
  BY TopFrame DEF Resting
<1>3. QED
  BY <1>1, <1>2, ReturnsNow DEF Return

LEMMA NextEnds ==
  ASSUME LifeInv, NEW s \in Stmt, stack[s] # <<>>, NEW op, NEW r, ReturnWith(s, op, r),
         UNCHANGED <<script, pc>>, {"state", "pos"} \subseteq DOMAIN op, op.state = Op(s).state,
         Top(s).method = "next", r.kind \in {"eof", "error"}, Resting(s, "spent", op.pos)
  PROVE  Fine(s)
<1>1. "spent" = StateAfter(Top(s).method, r, Op(s).state)
  BY AfterNext
<1>2. <<Top(s).method, r.kind, "spent">> \in Replies
  BY DEF Replies
<1>3. QED
  BY <1>1, <1>2, ReturnsNow

LEMMA NextRow ==
  ASSUME LifeInv, NEW s \in Stmt, stack[s] # <<>>, NEW op, NEW r, ReturnWith(s, op, r),
         UNCHANGED <<script, pc>>, {"state", "pos"} \subseteq DOMAIN op, op.state = Op(s).state,
         Top(s).method = "next", r.kind = "row", Resting(s, "open", op.pos)
  PROVE  Fine(s)
<1>1. Op(s).state = "open"
  BY TopTells, RepliesTell
<1>2. "open" = StateAfter(Top(s).method, r, Op(s).state)
  BY <1>1, AfterNext
<1>3. <<Top(s).method, r.kind, "open">> \in Replies
  BY DEF Replies
<1>4. QED
  BY <1>2, <1>3, ReturnsNow

LEMMA ClosesOk ==
  ASSUME LifeInv, NEW s \in Stmt, stack[s] # <<>>, NEW op, ReturnWith(s, op, Ok),
         UNCHANGED <<script, pc>>, {"state", "pos"} \subseteq DOMAIN op, op.state = Op(s).state,
         Top(s).method = "close", Resting(s, "closed", op.pos)
  PROVE  Fine(s)
<1>1. /\ "closed" = StateAfter(Top(s).method, Ok, Op(s).state)
      /\ <<Top(s).method, Ok.kind, "closed">> \in Replies
  BY KindsOf, AfterClose, RepliesTell
<1>2. QED
  BY <1>1, ReturnsNow

\* On its first entry to a method, what an operator's children are.
LEMMA Entered ==
  ASSUME LifeInv, NEW s \in Stmt, stack[s] # <<>>, Top(s).step = "enter"
  PROVE  /\ Top(s).method = "open" => \A k \in DOMAIN Kids(s) : Under(s, k) = "new"
         /\ Top(s).method = "next" => Op(s).state = "open" /\ Resting(s, "open", Op(s).pos)
         /\ Top(s).method = "close" => /\ Op(s).state \in {"open", "spent"}
                                       /\ Resting(s, Op(s).state, Op(s).pos)
<1>1. Resting(s, Op(s).state, Op(s).pos) /\ <<Top(s).method, "none", Op(s).state>> \in Replies
  BY TopTells
<1>2. QED
  BY <1>1, RepliesTell DEF Resting

\* A counter apart, an open operator's end leaves its children where they are.
LEMMA SpentAfterOpen ==
  ASSUME NEW s, NEW pos, NEW pos2, Resting(s, "open", pos)
  PROVE  Resting(s, "spent", pos2)
  BY DEF Resting

LEMMA OpenScanFine ==
  ASSUME LifeInv, NEW s \in Stmt, OpenScan(s)
  PROVE  Fine(s)
<1>1. /\ stack[s] # <<>> /\ Top(s).method = "open" /\ Node(s).kind = "scan"
      /\ UNCHANGED <<script, pc>>
  BY DEF OpenScan, Enters, In
<1>2. {"state", "pos"} \subseteq DOMAIN Op(s)
  BY <1>1, TopFrame
<1>3. CASE Return(s, Error)
  BY <1>1, <1>3, OpenFails
<1>4. ASSUME NEW schema, NEW found, ReturnWith(s, [Op(s) EXCEPT !.schema = schema, !.rows = found], Ok)
      PROVE  Fine(s)
  <2> DEFINE op == [Op(s) EXCEPT !.schema = schema, !.rows = found]
  <2>1. {"state", "pos"} \subseteq DOMAIN op /\ op.state = Op(s).state /\ ReturnWith(s, op, Ok)
    BY <1>2, <1>4
  <2> HIDE DEF op
  <2>2. DOMAIN Kids(s) = {}
    BY <1>1, NodeKids
  <2>3. Resting(s, "open", op.pos)
    BY <2>2 DEF Resting
  <2>4. QED
    BY <1>1, <2>1, <2>3, OpensOk
<1>5. QED
  BY <1>3, <1>4 DEF OpenScan

LEMMA OpenLeafFine ==
  ASSUME LifeInv, NEW s \in Stmt, OpenLeaf(s)
  PROVE  Fine(s)
<1>1. /\ stack[s] # <<>> /\ Top(s).method = "open" /\ Top(s).step = "enter"
      /\ Node(s).kind \in {"constant", "empty", "explain"} /\ UNCHANGED <<script, pc>>
  BY DEF OpenLeaf, Enters, In
<1>2. {"state", "pos"} \subseteq DOMAIN Op(s)
  BY <1>1, TopFrame
<1>3. Resting(s, "open", Op(s).pos)
  <2>1. ~ClosesChild(Node(s)) /\ Node(s).kind \notin Streaming \union {"insert"}
    BY <1>1 DEF ClosesChild, Streaming
  <2>2. \A k \in DOMAIN Kids(s) : Under(s, k) = "new"
    BY <1>1, Entered
  <2>3. QED
    BY <2>1, <2>2 DEF Resting
<1>4. CASE ReturnWith(s, [Op(s) EXCEPT !.rows = <<Tuple(<<>>, <<>>)>>], Ok)
  <2> DEFINE op == [Op(s) EXCEPT !.rows = <<Tuple(<<>>, <<>>)>>]
  <2>1. {"state", "pos"} \subseteq DOMAIN op /\ op.state = Op(s).state /\ op.pos = Op(s).pos
    BY <1>2
  <2>2. QED
    BY <1>1, <1>3, <1>4, <2>1, OpensOk
<1>5. CASE ReturnWith(s, [Op(s) EXCEPT !.schema = Node(s).cols], Ok)
  <2> DEFINE op == [Op(s) EXCEPT !.schema = Node(s).cols]
  <2>1. {"state", "pos"} \subseteq DOMAIN op /\ op.state = Op(s).state /\ op.pos = Op(s).pos
    BY <1>2
  <2>2. QED
    BY <1>1, <1>3, <1>5, <2>1, OpensOk
<1>6. CASE Return(s, Ok)
  BY <1>1, <1>2, <1>3, <1>6, OpensOk DEF Return
<1>7. QED
  BY <1>4, <1>5, <1>6 DEF OpenLeaf

LEMMA OpenChildrenFine ==
  ASSUME LifeInv, NEW s \in Stmt, OpenChildren(s)
  PROVE  Fine(s)
<1>1. /\ stack[s] # <<>> /\ Top(s).method = "open" /\ Top(s).step = "enter"
      /\ Node(s).kind \in Streaming \union Draining
      /\ Goto(s, "open", 1) /\ UNCHANGED <<script, pc>> /\ ops' = ops
  BY DEF OpenChildren, Enters, In
<1>2. 1 \in DOMAIN Kids(s) /\ \A k \in DOMAIN Kids(s) : Under(s, k) = "new" /\ ~(k < 1)
  BY <1>1, NodeKids, Entered
<1>3. Going(s, "open", 1, "none")
  BY <1>2, RepliesTell DEF Going, MethodAt
<1>4. Reaches(Node(s), Top(s).method, "open")
  BY <1>1 DEF Reaches
<1>5. QED
  BY <1>1, <1>3, <1>4, TopFrame, GoesOn DEF Steps

LEMMA ChildOpenFailedFine ==
  ASSUME LifeInv, NEW s \in Stmt, ChildOpenFailed(s)
  PROVE  Fine(s)
  BY OpenFails DEF ChildOpenFailed, In

LEMMA ChildOpenedFine ==
  ASSUME LifeInv, NEW s \in Stmt, ChildOpened(s)
  PROVE  Fine(s)
<1> DEFINE opened == [Op(s) EXCEPT !.schema = OutputSchema(Node(s), KidSchema(s, 1))]
           k == Top(s).kid
<1>1. /\ stack[s] # <<>> /\ Top(s).method = "open" /\ Top(s).step = "open" /\ reply[s].kind = "ok"
      /\ Node(s).kind \in Streaming \union Draining /\ UNCHANGED <<script, pc>>
  BY DEF ChildOpened, In, Got
<1>2. \/ k < Len(Kids(s)) /\ Goto(s, "open", k + 1) /\ UNCHANGED ops
      \/ k = Len(Kids(s)) /\ Return(s, Error)
      \/ k = Len(Kids(s)) /\ Node(s).kind \in Streaming /\ ReturnWith(s, opened, Ok)
      \/ k = Len(Kids(s)) /\ Node(s).kind \in Draining /\ GotoWith(s, opened, "drain", 1)
  BY DEF ChildOpened, Kids
<1>3. /\ {"state", "pos"} \subseteq DOMAIN Op(s)
      /\ {"state", "pos"} \subseteq DOMAIN opened /\ opened.state = Op(s).state
  BY <1>1, TopFrame
<1> HIDE DEF opened
<1>4. /\ k \in DOMAIN Kids(s) /\ Under(s, k) = "open" /\ k \in Nat
      /\ \A i \in DOMAIN Kids(s) : (i < k => Under(s, i) = "open") /\ (i > k => Under(s, i) = "new")
      /\ DOMAIN Kids(s) = 1 .. Len(Kids(s)) /\ Len(Kids(s)) \in Nat
  <2>1. Going(s, "open", k, "ok") /\ k \in Nat
    BY <1>1, TopTells
  <2>2. k \in DOMAIN Kids(s) /\ <<"open", "ok", Under(s, k)>> \in Replies
    BY <2>1 DEF Going, MethodAt
  <2>3. \A i \in DOMAIN Kids(s) : (i < k => Under(s, i) = "open") /\ (i > k => Under(s, i) = "new")
    BY <2>1 DEF Going
  <2>4. Under(s, k) = "open"
    BY <2>2, RepliesTell
  <2>5. DOMAIN Kids(s) = 1 .. Len(Kids(s)) /\ Len(Kids(s)) \in Nat
    BY <1>1, NodeKids
  <2>6. QED
    BY <2>1, <2>2, <2>3, <2>4, <2>5
<1>5. CASE k < Len(Kids(s)) /\ Goto(s, "open", k + 1) /\ UNCHANGED ops
  <2>1. /\ k + 1 \in DOMAIN Kids(s) /\ k + 1 \in Nat /\ Under(s, k + 1) = "new"
        /\ \A i \in DOMAIN Kids(s) : /\ i < k + 1 => Under(s, i) = "open"
                                     /\ i > k + 1 => Under(s, i) = "new"
    BY <1>4, <1>5
  <2>2. Going(s, "open", k + 1, "none")
    BY <2>1, RepliesTell DEF Going, MethodAt
  <2>3. Reaches(Node(s), Top(s).method, "open")
    BY <1>1 DEF Reaches
  <2>4. QED
    BY <1>1, <1>3, <1>5, <2>1, <2>2, <2>3, GoesOn DEF Steps
<1>6. CASE k = Len(Kids(s)) /\ Return(s, Error)
  BY <1>1, <1>6, OpenFails
<1>7. k = Len(Kids(s)) => \A i \in DOMAIN Kids(s) : Under(s, i) = "open"
  BY <1>4
<1>8. CASE k = Len(Kids(s)) /\ Node(s).kind \in Streaming /\ ReturnWith(s, opened, Ok)
  <2>1. Resting(s, "open", opened.pos)
    BY <1>7, <1>8 DEF Resting, ClosesChild
  <2>2. QED
    BY <1>1, <1>3, <1>8, <2>1, OpensOk
<1>9. CASE k = Len(Kids(s)) /\ Node(s).kind \in Draining /\ GotoWith(s, opened, "drain", 1)
  <2>1. 1 \in DOMAIN Kids(s) /\ \A i \in DOMAIN Kids(s) : ~(i < 1)
    BY <1>4, <1>9
  <2>2. Going(s, "drain", 1, "none")
    BY <1>7, <1>9, <2>1, RepliesTell DEF Going, MethodAt
  <2>3. Reaches(Node(s), Top(s).method, "drain")
    BY <1>1, <1>9 DEF Reaches
  <2>4. QED
    BY <1>1, <1>3, <1>9, <2>2, <2>3, GoesOn DEF Steps, GotoWith
<1>10. QED
  BY <1>2, <1>5, <1>6, <1>8, <1>9

\* The child that a step is at, once it has answered.
LEMMA CalledKid ==
  ASSUME LifeInv, NEW s \in Stmt, stack[s] # <<>>, Top(s).step \in DOMAIN MethodAt
  PROVE  LET k == Top(s).kid
         IN  /\ k \in DOMAIN Kids(s) /\ k \in Nat
             /\ DOMAIN Kids(s) = 1 .. Len(Kids(s)) /\ Len(Kids(s)) \in Nat
             /\ <<MethodAt[Top(s).step], reply[s].kind, Under(s, k)>> \in Replies
             /\ Top(s).step \in {"drain", "close"} =>
                  \A i \in DOMAIN Kids(s) : (i < k => Under(s, i) = "closed") /\ (i > k => Under(s, i) = "open")
<1>1. Going(s, Top(s).step, Top(s).kid, reply[s].kind) /\ Top(s).kid \in Nat
  BY TopTells
<1>2. DOMAIN Kids(s) = 1 .. Len(Kids(s)) /\ Len(Kids(s)) \in Nat
  BY NodeKids
<1>3. QED
  BY <1>1, <1>2 DEF Going

LEMMA DrainRowFine ==
  ASSUME LifeInv, NEW s \in Stmt, DrainRow(s)
  PROVE  Fine(s)
<1>1. /\ stack[s] # <<>> /\ Top(s).method = "open" /\ Top(s).step = "drain" /\ reply[s].kind = "row"
      /\ Node(s).kind \in Draining /\ UNCHANGED <<script, pc>>
  BY DEF DrainRow, In, Got
<1>2. {"state", "pos"} \subseteq DOMAIN Op(s) /\ Top(s).step \in DOMAIN MethodAt
  BY <1>1, TopFrame DEF MethodAt
<1>3. CASE Return(s, Error)
  BY <1>1, <1>3, OpenFails
<1>4. ASSUME NEW op, GotoWith(s, op, "drain", Top(s).kid), op.state = Op(s).state,
             {"state", "pos"} \subseteq DOMAIN op
      PROVE  Fine(s)
  <2>1. Top(s).kid \in DOMAIN Kids(s) /\ Top(s).kid \in Nat /\ Under(s, Top(s).kid) = "open"
    <3>1. <<"next", "row", Under(s, Top(s).kid)>> \in Replies
      BY <1>1, <1>2, CalledKid DEF MethodAt
    <3>2. QED
      BY <1>1, <1>2, <3>1, RepliesTell, CalledKid
  <2>2. <<MethodAt["drain"], "none", Under(s, Top(s).kid)>> \in Replies
    BY <2>1, RepliesTell DEF MethodAt
  <2>3. Going(s, "drain", Top(s).kid, "none")
    BY <1>1, <1>2, <2>1, <2>2, CalledKid DEF Going, MethodAt
  <2>4. Reaches(Node(s), Top(s).method, "drain")
    BY <1>1 DEF Reaches
  <2>5. QED
    BY <1>1, <1>4, <2>1, <2>3, <2>4, GoesOn DEF Steps, GotoWith
<1> DEFINE grouped == [Op(s) EXCEPT !.groups = Grouped(@, GroupVals(s, reply[s].tuple), Node(s).aggs, reply[s].tuple)]
           counted == [Op(s) EXCEPT !.count = @ + 1]
           appended == [Op(s) EXCEPT !.rows = Append(@, reply[s].tuple)]
<1>5. /\ grouped.state = Op(s).state /\ {"state", "pos"} \subseteq DOMAIN grouped
      /\ counted.state = Op(s).state /\ {"state", "pos"} \subseteq DOMAIN counted
      /\ appended.state = Op(s).state /\ {"state", "pos"} \subseteq DOMAIN appended
  BY <1>2
<1>6. \/ Return(s, Error)
      \/ GotoWith(s, grouped, "drain", Top(s).kid)
      \/ GotoWith(s, counted, "drain", Top(s).kid)
      \/ GotoWith(s, appended, "drain", Top(s).kid)
  BY DEF DrainRow
<1> HIDE DEF grouped, counted, appended
<1>7. QED
  BY <1>3, <1>4, <1>5, <1>6

LEMMA DrainFailedFine ==
  ASSUME LifeInv, NEW s \in Stmt, DrainFailed(s)
  PROVE  Fine(s)
<1>1. /\ stack[s] # <<>> /\ Top(s).method = "open" /\ Top(s).step = "drain" /\ reply[s].kind = "error"
      /\ Node(s).kind \in Draining /\ UNCHANGED <<script, pc>>
  BY DEF DrainFailed, In, Got
<1>2. {"state", "pos"} \subseteq DOMAIN Op(s) /\ Top(s).step \in DOMAIN MethodAt
  BY <1>1, TopFrame DEF MethodAt
<1>3. CASE Return(s, Error)
  BY <1>1, <1>3, OpenFails
<1>4. CASE Node(s).kind = "window" /\ Goto(s, "abort", 1) /\ UNCHANGED ops
  <2>1. <<"next", "error", Under(s, Top(s).kid)>> \in Replies
    BY <1>1, <1>2, CalledKid DEF MethodAt
  <2>2. Top(s).kid = 1 /\ 1 \in DOMAIN Kids(s)
    BY <1>1, <1>2, <1>4, OnlyKid
  <2>3. Under(s, 1) = "spent"
    BY <2>1, <2>2, RepliesTell
  <2>4. Going(s, "abort", 1, "none")
    BY <2>2, <2>3, RepliesTell DEF Going, MethodAt
  <2>5. Reaches(Node(s), Top(s).method, "abort")
    BY <1>1, <1>4 DEF Reaches
  <2>6. QED
    BY <1>1, <1>2, <1>4, <2>4, <2>5, GoesOn DEF Steps
<1>5. QED
  BY <1>3, <1>4 DEF DrainFailed

LEMMA CloseDrainedFine ==
  ASSUME LifeInv, NEW s \in Stmt, CloseDrained(s)
  PROVE  Fine(s)
<1>1. /\ stack[s] # <<>> /\ Top(s).method = "open" /\ Top(s).step = "drain" /\ reply[s].kind = "eof"
      /\ Node(s).kind \in Draining \ {"window"} /\ UNCHANGED <<script, pc>>
      /\ Goto(s, "close", Top(s).kid) /\ ops' = ops
  BY DEF CloseDrained, DrainedAll, In, Got
<1>2. {"state", "pos"} \subseteq DOMAIN Op(s) /\ Top(s).step \in DOMAIN MethodAt
  BY <1>1, TopFrame DEF MethodAt
<1>3. <<"next", "eof", Under(s, Top(s).kid)>> \in Replies
  BY <1>1, <1>2, CalledKid DEF MethodAt
<1>4. <<MethodAt["close"], "none", Under(s, Top(s).kid)>> \in Replies
  BY <1>3, RepliesTell DEF MethodAt
<1>5. Going(s, "close", Top(s).kid, "none") /\ Top(s).kid \in Nat
  BY <1>1, <1>2, <1>4, CalledKid DEF Going, MethodAt
<1>6. Reaches(Node(s), Top(s).method, "close")
  BY <1>1 DEF Reaches
<1>7. QED
  BY <1>1, <1>2, <1>5, <1>6, GoesOn DEF Steps

LEMMA ChildDrainedFine ==
  ASSUME LifeInv, NEW s \in Stmt, ChildDrained(s)
  PROVE  Fine(s)
<1> DEFINE k == Top(s).kid
           next == [Op(s) EXCEPT !.left = Op(s).rows, !.rows = <<>>]
           full == [Op(s) EXCEPT !.rows = Buffered(s), !.left = <<>>, !.groups = <<>>]
<1>1. /\ stack[s] # <<>> /\ Top(s).method = "open" /\ Top(s).step = "close" /\ reply[s].kind = "ok"
      /\ UNCHANGED <<script, pc>>
  BY DEF ChildDrained, In, Got
<1>2. \/ k < Len(Kids(s)) /\ GotoWith(s, next, "drain", k + 1)
      \/ k = Len(Kids(s)) /\ ReturnWith(s, full, Ok)
  BY DEF ChildDrained, Kids
<1>3. /\ {"state", "pos"} \subseteq DOMAIN Op(s) /\ Top(s).step \in DOMAIN MethodAt
      /\ {"state", "pos"} \subseteq DOMAIN next /\ next.state = Op(s).state
      /\ {"state", "pos"} \subseteq DOMAIN full /\ full.state = Op(s).state
  BY <1>1, TopFrame DEF MethodAt
<1> HIDE DEF next, full
<1>4. Node(s).kind \in Draining \ {"window"}
  BY <1>1, TopTells DEF Reaches
<1>5. <<"close", "ok", Under(s, k)>> \in Replies
  BY <1>1, <1>3, CalledKid DEF MethodAt
<1>6. /\ k \in DOMAIN Kids(s) /\ k \in Nat /\ Under(s, k) = "closed"
      /\ DOMAIN Kids(s) = 1 .. Len(Kids(s)) /\ Len(Kids(s)) \in Nat
      /\ \A i \in DOMAIN Kids(s) : (i < k => Under(s, i) = "closed") /\ (i > k => Under(s, i) = "open")
  <2>1. Under(s, k) = "closed"
    BY <1>5, RepliesTell
  <2>2. QED
    BY <1>1, <1>3, <2>1, CalledKid
<1>7. CASE k < Len(Kids(s)) /\ GotoWith(s, next, "drain", k + 1)
  <2>1. /\ k + 1 \in DOMAIN Kids(s) /\ k + 1 \in Nat /\ Under(s, k + 1) = "open"
        /\ \A i \in DOMAIN Kids(s) : /\ i < k + 1 => Under(s, i) = "closed"
                                     /\ i > k + 1 => Under(s, i) = "open"
    BY <1>6, <1>7
  <2>2. Going(s, "drain", k + 1, "none")
    BY <2>1, RepliesTell DEF Going, MethodAt
  <2>3. Reaches(Node(s), Top(s).method, "drain")
    BY <1>1, <1>4 DEF Reaches
  <2>4. QED
    BY <1>1, <1>3, <1>7, <2>1, <2>2, <2>3, GoesOn DEF Steps, GotoWith
<1>8. CASE k = Len(Kids(s)) /\ ReturnWith(s, full, Ok)
  <2>1. \A i \in DOMAIN Kids(s) : Under(s, i) = "closed"
    BY <1>6, <1>8
  <2>2. ~ClosesChild(Node(s)) /\ Node(s).kind \notin Streaming \union {"insert"}
    BY <1>4 DEF ClosesChild, Streaming, Draining
  <2>3. Resting(s, "open", full.pos)
    BY <2>1, <2>2 DEF Resting
  <2>4. QED
    BY <1>1, <1>3, <1>8, <2>3, OpensOk
<1>9. QED
  BY <1>2, <1>7, <1>8

LEMMA AbortedFine ==
  ASSUME LifeInv, NEW s \in Stmt, Aborted(s)
  PROVE  Fine(s)
  BY OpenFails DEF Aborted, In

\* A panic takes all the frames away.
LEMMA PanicFine ==
  ASSUME LifeInv, NEW s \in Stmt, stack[s] # <<>>, Panic(s), UNCHANGED script
  PROVE  Fine(s)
<1>1. /\ stack' = [stack EXCEPT ![s] = <<>>] /\ reply' = [reply EXCEPT ![s] = NoReply]
      /\ pc' = [pc EXCEPT ![s] = "panicked"] /\ ops' = ops
  BY DEF Panic
<1>2. /\ DOMAIN pc = Stmt /\ DOMAIN stack = Stmt /\ DOMAIN reply = Stmt /\ DOMAIN ops = Stmt
  BY DEF LifeInv
<1>3. Alone(s) /\ stack'[s] = <<>> /\ pc'[s] = "panicked"
  BY <1>1, <1>2 DEF Alone
<1>4. Sound(s)'
  BY <1>3 DEF Sound, Lives, Calls, Left
<1>5. Lawful(s)
  <2>1. Len(stack[s]) \in Nat /\ Len(stack[s]) > 0
    BY TopFrame
  <2>2. ~(Len(stack'[s]) > Len(stack[s]))
    BY <1>3, <2>1
  <2>3. QED
    BY <2>2 DEF Lawful
<1>6. QED
  BY <1>3, <1>4, <1>5 DEF Fine

LEMMA ComputeWindowsFine ==
  ASSUME LifeInv, NEW s \in Stmt, ComputeWindows(s)
  PROVE  Fine(s)
<1>1. /\ stack[s] # <<>> /\ Top(s).method = "open" /\ Top(s).step = "drain" /\ reply[s].kind = "eof"
      /\ Node(s).kind = "window" /\ script' = script
  BY DEF ComputeWindows, DrainedAll, In, Got
<1>2. {"state", "pos"} \subseteq DOMAIN Op(s) /\ Top(s).step \in DOMAIN MethodAt /\ Len(stack[s]) \in Nat
  BY <1>1, TopFrame DEF MethodAt
<1>3. <<"next", "eof", Under(s, Top(s).kid)>> \in Replies
  BY <1>1, <1>2, CalledKid DEF MethodAt
<1>4. DOMAIN Kids(s) = {1} /\ Top(s).kid = 1
  BY <1>1, <1>2, OnlyKid
<1>5. Under(s, 1) = "spent"
  BY <1>3, <1>4, RepliesTell
<1>6. ASSUME NEW wide, ReturnWith(s, [Op(s) EXCEPT !.rows = wide], Ok), UNCHANGED pc
      PROVE  Fine(s)
  <2> DEFINE op == [Op(s) EXCEPT !.rows = wide]
  <2>1. {"state", "pos"} \subseteq DOMAIN op /\ op.state = Op(s).state /\ ReturnWith(s, op, Ok)
    BY <1>2, <1>6
  <2> HIDE DEF op
  <2>2. ClosesChild(Node(s)) /\ Node(s).kind \notin Streaming \union {"insert"}
    BY <1>1 DEF ClosesChild, Streaming
  <2>3. Resting(s, "open", op.pos)
    BY <1>4, <1>5, <2>2 DEF Resting
  <2>4. QED
    BY <1>1, <1>6, <2>1, <2>3, OpensOk
<1>7. CASE Goto(s, "abort", 1) /\ UNCHANGED <<ops, pc>>
  <2>1. Going(s, "abort", 1, "none")
    BY <1>4, <1>5, RepliesTell DEF Going, MethodAt
  <2>2. Reaches(Node(s), Top(s).method, "abort")
    BY <1>1 DEF Reaches
  <2>3. QED
    BY <1>1, <1>2, <1>7, <2>1, <2>2, GoesOn DEF Steps
<1>8. CASE Panic(s)
  BY <1>1, <1>8, PanicFine
<1>9. QED
  BY <1>6, <1>7, <1>8 DEF ComputeWindows, Computed

LEMMA NextBufferedFine ==
  ASSUME LifeInv, NEW s \in Stmt, NextBuffered(s)
  PROVE  Fine(s)
<1> DEFINE op == [Op(s) EXCEPT !.pos = @ + 1]
<1>1. /\ stack[s] # <<>> /\ Top(s).method = "next" /\ Top(s).step = "enter"
      /\ Node(s).kind \in Draining \union {"scan", "constant", "empty"} /\ UNCHANGED <<script, pc>>
  BY DEF NextBuffered, Enters, In
<1>2. /\ {"state", "pos"} \subseteq DOMAIN Op(s)
      /\ {"state", "pos"} \subseteq DOMAIN op /\ op.state = Op(s).state
  BY <1>1, TopFrame
<1>3. Return(s, Eof) \/ \E t : ReturnWith(s, op, Row(t))
  BY DEF NextBuffered
<1> HIDE DEF op
<1>4. Resting(s, "open", Op(s).pos)
  BY <1>1, Entered
<1>5. CASE Return(s, Eof)
  BY <1>1, <1>2, <1>4, <1>5, SpentAfterOpen, NextEnds, KindsOf DEF Return
<1>6. ASSUME NEW t, ReturnWith(s, op, Row(t))
      PROVE  Fine(s)
  <2>1. Node(s).kind \notin Streaming \union {"insert"}
    BY <1>1 DEF Streaming, Draining
  <2>2. Resting(s, "open", op.pos)
    BY <1>4, <2>1 DEF Resting
  <2>3. Row(t).kind = "row"
    BY DEF Row
  <2>4. QED
    BY <1>1, <1>2, <1>6, <2>2, <2>3, NextRow
<1>7. QED
  BY <1>3, <1>5, <1>6

LEMMA NextStreamingFine ==
  ASSUME LifeInv, NEW s \in Stmt, NextStreaming(s)
  PROVE  Fine(s)
<1>1. /\ stack[s] # <<>> /\ Top(s).method = "next" /\ Top(s).step = "enter"
      /\ Node(s).kind \in Streaming /\ UNCHANGED <<script, pc>>
  BY DEF NextStreaming, Enters, In
<1>2. {"state", "pos"} \subseteq DOMAIN Op(s)
  BY <1>1, TopFrame
<1>3. Resting(s, "open", Op(s).pos)
  BY <1>1, Entered
<1>4. CASE Return(s, Eof)
  BY <1>1, <1>2, <1>3, <1>4, SpentAfterOpen, NextEnds, KindsOf DEF Return
<1>5. CASE Goto(s, "pull", 1) /\ UNCHANGED ops
  <2>1. 1 \in DOMAIN Kids(s) /\ Under(s, 1) = "open"
    <3>1. Node(s).kind \in (Streaming \union Draining) \ {"setop"}
      BY <1>1 DEF Streaming
    <3>2. Len(Kids(s)) = 1 /\ DOMAIN Kids(s) = 1 .. Len(Kids(s))
      BY <1>1, <3>1, NodeKids
    <3>3. QED
      BY <1>1, <1>3, <3>2 DEF Resting
  <2>2. Going(s, "pull", 1, "none")
    BY <2>1, RepliesTell DEF Going, MethodAt
  <2>3. Reaches(Node(s), Top(s).method, "pull") /\ Node(s).kind # "insert"
    BY <1>1 DEF Reaches, Streaming
  <2>4. QED
    BY <1>1, <1>2, <1>5, <2>2, <2>3, GoesOn DEF Steps
<1>6. QED
  BY <1>4, <1>5 DEF NextStreaming

\* The child of a streaming operator that has pulled from it.
LEMMA Pulled ==
  ASSUME LifeInv, NEW s \in Stmt, In(s, "next", "pull")
  PROVE  /\ stack[s] # <<>> /\ Top(s).method = "next" /\ Top(s).step = "pull"
         /\ Node(s).kind \in Streaming \union {"insert"} /\ ClosesChild(Node(s))
         /\ DOMAIN Kids(s) = {1} /\ Top(s).kid = 1
         /\ reply[s].kind = "row" => Under(s, 1) = "open"
         /\ reply[s].kind \in {"eof", "error"} => Under(s, 1) = "spent"
         /\ {"state", "pos"} \subseteq DOMAIN Op(s)
<1>1. stack[s] # <<>> /\ Top(s).method = "next" /\ Top(s).step = "pull"
  BY DEF In
<1>2. {"state", "pos"} \subseteq DOMAIN Op(s) /\ Top(s).step \in DOMAIN MethodAt
  BY <1>1, TopFrame DEF MethodAt
<1>3. Node(s).kind \in Streaming \union {"insert"}
  BY <1>1, TopTells DEF Reaches
<1>4. DOMAIN Kids(s) = {1} /\ Top(s).kid = 1 /\ Len(Kids(s)) = 1
  BY <1>1, <1>2, <1>3, OnlyKid DEF Streaming
<1>5. <<"next", reply[s].kind, Under(s, 1)>> \in Replies
  BY <1>1, <1>2, <1>4, CalledKid DEF MethodAt
<1>6. ClosesChild(Node(s))
  <2>1. Kids(s) # <<>>
    BY <1>1, <1>4, NodeKids
  <2>2. QED
    BY <1>3, <2>1 DEF ClosesChild, Kids
<1>7. reply[s].kind = "row" => Under(s, 1) = "open"
  BY <1>5, RepliesTell
<1>8. reply[s].kind \in {"eof", "error"} => Under(s, 1) = "spent"
  BY <1>5, RepliesTell
<1>9. QED
  BY <1>1, <1>2, <1>3, <1>4, <1>6, <1>7, <1>8

LEMMA PulledEndFine ==
  ASSUME LifeInv, NEW s \in Stmt, PulledEnd(s)
  PROVE  Fine(s)
<1>1. /\ In(s, "next", "pull") /\ reply[s].kind \in {"eof", "error"} /\ Return(s, reply[s])
      /\ UNCHANGED <<script, pc>>
  BY DEF PulledEnd, Got
<1>2. Resting(s, "spent", Op(s).pos)
  BY <1>1, Pulled DEF Resting
<1>3. QED
  BY <1>1, <1>2, Pulled, NextEnds DEF Return

LEMMA PulledRowFine ==
  ASSUME LifeInv, NEW s \in Stmt, PulledRow(s)
  PROVE  Fine(s)
<1> DEFINE seen == [Op(s) EXCEPT !.seen = @ \union {TupleKey(reply[s].tuple)}]
           skipped == [Op(s) EXCEPT !.pos = @ + 1]
           counted == [Op(s) EXCEPT !.count = @ + 1]
<1>1. /\ In(s, "next", "pull") /\ reply[s].kind = "row" /\ Node(s).kind \in Streaming
      /\ UNCHANGED <<script, pc>>
  BY DEF PulledRow, Got
<1>2. /\ stack[s] # <<>> /\ Top(s).method = "next" /\ ClosesChild(Node(s))
      /\ DOMAIN Kids(s) = {1} /\ Under(s, 1) = "open"
      /\ {"state", "pos"} \subseteq DOMAIN Op(s)
  BY <1>1, Pulled
<1>3. /\ {"state", "pos"} \subseteq DOMAIN seen /\ seen.state = Op(s).state
      /\ {"state", "pos"} \subseteq DOMAIN skipped /\ skipped.state = Op(s).state
      /\ {"state", "pos"} \subseteq DOMAIN counted /\ counted.state = Op(s).state
  BY <1>2
<1>4. \/ Return(s, Error)
      \/ \E op \in {seen, skipped, counted, Op(s)} :
           GotoWith(s, op, "pull", 1) \/ \E t : ReturnWith(s, op, Row(t))
  BY DEF PulledRow
<1> HIDE DEF seen, skipped, counted
<1>5. \A state \in {"open", "spent"} : \A pos : Resting(s, state, pos)
  BY <1>2 DEF Resting
<1>6. CASE Return(s, Error)
  BY <1>1, <1>2, <1>5, <1>6, NextEnds, KindsOf DEF Return
<1>7. ASSUME NEW op, op \in {seen, skipped, counted, Op(s)}, GotoWith(s, op, "pull", 1)
      PROVE  Fine(s)
  <2>1. Going(s, "pull", 1, "none")
    BY <1>2, RepliesTell DEF Going, MethodAt
  <2>2. Reaches(Node(s), Top(s).method, "pull") /\ Node(s).kind # "insert"
    BY <1>1, <1>2 DEF Reaches, Streaming
  <2>3. {"state", "pos"} \subseteq DOMAIN op /\ op.state = Op(s).state
    BY <1>2, <1>3, <1>7
  <2>4. QED
    BY <1>1, <1>2, <1>7, <2>1, <2>2, <2>3, GoesOn DEF Steps, GotoWith
<1>8. ASSUME NEW op, op \in {seen, skipped, counted, Op(s)}, NEW t, ReturnWith(s, op, Row(t))
      PROVE  Fine(s)
  <2>1. {"state", "pos"} \subseteq DOMAIN op /\ op.state = Op(s).state /\ Resting(s, "open", op.pos)
    BY <1>2, <1>3, <1>5, <1>8
  <2>2. Row(t).kind = "row"
    BY DEF Row
  <2>3. QED
    BY <1>1, <1>2, <1>8, <2>1, <2>2, NextRow
<1>9. QED
  BY <1>4, <1>6, <1>7, <1>8

LEMMA CloseFine ==
  ASSUME LifeInv, NEW s \in Stmt, Close(s)
  PROVE  Fine(s)
<1> DEFINE op == [Op(s) EXCEPT !.rows = <<>>]
<1>1. /\ stack[s] # <<>> /\ Top(s).method = "close" /\ Top(s).step = "enter" /\ UNCHANGED <<script, pc>>
      /\ \/ ClosesChild(Node(s)) /\ Goto(s, "close", 1) /\ ops' = ops
         \/ ~ClosesChild(Node(s)) /\ ReturnWith(s, op, Ok)
  BY DEF Close, In
<1>2. /\ {"state", "pos"} \subseteq DOMAIN Op(s)
      /\ {"state", "pos"} \subseteq DOMAIN op /\ op.state = Op(s).state
  BY <1>1, TopFrame
<1> HIDE DEF op
<1>3. Op(s).state \in {"open", "spent"} /\ Resting(s, Op(s).state, Op(s).pos)
  BY <1>1, Entered
<1>4. CASE ClosesChild(Node(s)) /\ Goto(s, "close", 1) /\ ops' = ops
  <2>1. DOMAIN Kids(s) = {1}
    <3>1. Len(Kids(s)) = 1 /\ DOMAIN Kids(s) = 1 .. Len(Kids(s))
      <4>1. \/ Node(s).kind \in (Streaming \union Draining) \ {"setop"}
            \/ Node(s).kind \in {"insert", "create"} /\ Kids(s) # <<>>
        BY <1>4 DEF ClosesChild, Streaming, Draining, Kids
      <4>2. Len(Kids(s)) \in 0 .. 2 /\ DOMAIN Kids(s) = 1 .. Len(Kids(s))
            /\ (Kids(s) = <<>> <=> Len(Kids(s)) = 0)
        BY <1>1, NodeKids
      <4>3. CASE Node(s).kind \in (Streaming \union Draining) \ {"setop"}
        BY <1>1, <4>2, <4>3, NodeKids
      <4>4. CASE Node(s).kind \in {"insert", "create"} /\ Kids(s) # <<>>
        BY <1>1, <4>2, <4>4, NodeKids
      <4>5. QED
        BY <4>1, <4>3, <4>4
    <3>2. QED
      BY <3>1
  <2>2. Under(s, 1) \in {"open", "spent"}
    BY <1>3, <1>4, <2>1 DEF Resting
  <2>3. Going(s, "close", 1, "none")
    <3>1. <<MethodAt["close"], "none", Under(s, 1)>> \in Replies
      BY <2>2, RepliesTell DEF MethodAt
    <3>2. QED
      BY <2>1, <3>1 DEF Going, MethodAt
  <2>4. Reaches(Node(s), Top(s).method, "close")
    BY <1>1, <1>4 DEF Reaches
  <2>5. QED
    BY <1>1, <1>2, <1>4, <2>3, <2>4, GoesOn DEF Steps
<1>5. CASE ~ClosesChild(Node(s)) /\ ReturnWith(s, op, Ok)
  <2>1. Resting(s, "closed", op.pos)
    BY <1>3, <1>5 DEF Resting
  <2>2. QED
    BY <1>1, <1>2, <1>5, <2>1, ClosesOk
<1>6. QED
  BY <1>1, <1>4, <1>5

LEMMA ChildClosedFine ==
  ASSUME LifeInv, NEW s \in Stmt, ChildClosed(s)
  PROVE  Fine(s)
<1> DEFINE op == [Op(s) EXCEPT !.rows = <<>>, !.seen = {}]
<1>1. /\ stack[s] # <<>> /\ Top(s).method = "close" /\ Top(s).step = "close" /\ UNCHANGED <<script, pc>>
      /\ reply[s].kind = "ok" /\ ReturnWith(s, op, Ok)
  BY DEF ChildClosed, In, Got
<1>2. /\ {"state", "pos"} \subseteq DOMAIN Op(s) /\ Top(s).step \in DOMAIN MethodAt
      /\ {"state", "pos"} \subseteq DOMAIN op /\ op.state = Op(s).state
  BY <1>1, TopFrame DEF MethodAt
<1> HIDE DEF op
<1>3. ClosesChild(Node(s))
  BY <1>1, TopTells DEF Reaches
<1>4. DOMAIN Kids(s) = {1} /\ Top(s).kid = 1
  BY <1>1, <1>2, <1>3, OnlyKid DEF ClosesChild, Streaming
<1>5. <<"close", "ok", Under(s, 1)>> \in Replies
  BY <1>1, <1>2, <1>4, CalledKid DEF MethodAt
<1>6. Under(s, 1) = "closed"
  BY <1>5, RepliesTell
<1>7. Resting(s, "closed", op.pos)
  BY <1>4, <1>6 DEF Resting
<1>8. QED
  BY <1>1, <1>2, <1>7, ClosesOk

-----------------------------------------------------------------------------
(* The operators that write.                                                 *)

LEMMA OpenWriterFine ==
  ASSUME LifeInv, NEW s \in Stmt, OpenWriter(s)
  PROVE  Fine(s)
<1>1. /\ stack[s] # <<>> /\ Top(s).method = "open" /\ Top(s).step = "enter"
      /\ Node(s).kind \in {"insert", "update", "delete"} /\ UNCHANGED <<script, pc>>
      /\ \/ Kids(s) = <<>> /\ Return(s, Ok)
         \/ Kids(s) # <<>> /\ Goto(s, "open", 1) /\ ops' = ops
  BY DEF OpenWriter, Enters, In, Kids
<1>2. {"state", "pos"} \subseteq DOMAIN Op(s)
  BY <1>1, TopFrame
<1>3. /\ DOMAIN Kids(s) = 1 .. Len(Kids(s)) /\ Len(Kids(s)) \in 0 .. 2
      /\ Kids(s) = <<>> <=> Len(Kids(s)) = 0
  BY <1>1, NodeKids
<1>4. CASE Kids(s) = <<>> /\ Return(s, Ok)
  <2>1. DOMAIN Kids(s) = {}
    BY <1>3, <1>4
  <2>2. Resting(s, "open", Op(s).pos)
    BY <2>1 DEF Resting
  <2>3. QED
    BY <1>1, <1>2, <1>4, <2>2, OpensOk DEF Return
<1>5. CASE Kids(s) # <<>> /\ Goto(s, "open", 1) /\ ops' = ops
  <2>1. /\ 1 \in DOMAIN Kids(s) /\ Node(s).kind = "insert"
        /\ \A k \in DOMAIN Kids(s) : Under(s, k) = "new" /\ ~(k < 1)
    <3>1. Node(s).kind \in {"update", "delete"} => Len(Kids(s)) = 0
      BY <1>1, NodeKids
    <3>2. QED
      BY <1>1, <1>3, <1>5, <3>1, Entered
  <2>2. Going(s, "open", 1, "none")
    BY <2>1, RepliesTell DEF Going, MethodAt
  <2>3. Reaches(Node(s), Top(s).method, "open")
    BY <1>1, <2>1 DEF Reaches
  <2>4. QED
    BY <1>1, <1>2, <1>5, <2>2, <2>3, GoesOn DEF Steps
<1>6. QED
  BY <1>1, <1>4, <1>5

\* The child of an operator with one that has been called in Open.
LEMMA KidCalled ==
  ASSUME LifeInv, NEW s \in Stmt, In(s, "open", "open"), Node(s).kind # "setop", Got(s, {"ok"})
  PROVE  /\ stack[s] # <<>> /\ Top(s).method = "open"
         /\ DOMAIN Kids(s) = {1} /\ Under(s, 1) = "open" /\ Kids(s) # <<>>
         /\ {"state", "pos"} \subseteq DOMAIN Op(s)
<1>1. stack[s] # <<>> /\ Top(s).method = "open" /\ Top(s).step = "open" /\ reply[s].kind = "ok"
  BY DEF In, Got
<1>2. {"state", "pos"} \subseteq DOMAIN Op(s) /\ Top(s).step \in DOMAIN MethodAt
  BY <1>1, TopFrame DEF MethodAt
<1>3. DOMAIN Kids(s) = {1} /\ Top(s).kid = 1 /\ Len(Kids(s)) = 1
  BY <1>1, <1>2, OnlyKid
<1>4. <<"open", "ok", Under(s, 1)>> \in Replies
  BY <1>1, <1>2, <1>3, CalledKid DEF MethodAt
<1>5. Under(s, 1) = "open"
  BY <1>4, RepliesTell
<1>6. Kids(s) # <<>>
  BY <1>3
<1>7. QED
  BY <1>1, <1>2, <1>3, <1>5, <1>6

LEMMA SourceOpenedFine ==
  ASSUME LifeInv, NEW s \in Stmt, SourceOpened(s)
  PROVE  Fine(s)
<1>1. /\ In(s, "open", "open") /\ Got(s, {"ok"}) /\ Node(s).kind = "insert" /\ Return(s, Ok)
      /\ UNCHANGED <<script, pc>>
  BY DEF SourceOpened
<1>2. /\ stack[s] # <<>> /\ Top(s).method = "open" /\ DOMAIN Kids(s) = {1} /\ Under(s, 1) = "open"
      /\ Kids(s) # <<>> /\ {"state", "pos"} \subseteq DOMAIN Op(s)
  BY <1>1, KidCalled
<1>3. Resting(s, "open", Op(s).pos)
  BY <1>1, <1>2 DEF Resting, ClosesChild, Kids
<1>4. QED
  BY <1>1, <1>2, <1>3, OpensOk DEF Return

LEMMA NoMoreFine ==
  ASSUME LifeInv, NEW s \in Stmt, NoMore(s)
  PROVE  Fine(s)
<1>1. /\ stack[s] # <<>> /\ Top(s).method = "next" /\ Top(s).step = "enter"
      /\ UNCHANGED <<script, pc>> /\ Return(s, Eof)
  BY DEF NoMore, Enters, In
<1>2. {"state", "pos"} \subseteq DOMAIN Op(s) /\ Resting(s, "open", Op(s).pos)
  BY <1>1, TopFrame, Entered
<1>3. QED
  BY <1>1, <1>2, SpentAfterOpen, NextEnds, KindsOf DEF Return

\* A writer that has noted that it has begun.
LEMMA Begun ==
  ASSUME LifeInv, NEW s \in Stmt, stack[s] # <<>>
  PROVE  /\ {"state", "pos"} \subseteq DOMAIN Op(s)
         /\ {"state", "pos"} \subseteq DOMAIN Emitting(s)
         /\ Emitting(s).state = Op(s).state /\ Emitting(s).pos = 1
  BY TopFrame DEF Emitting

LEMMA HeapMissingFine ==
  ASSUME LifeInv, NEW s \in Stmt, HeapMissing(s)
  PROVE  Fine(s)
<1>1. /\ stack[s] # <<>> /\ Top(s).method = "next" /\ Top(s).step = "enter"
      /\ UNCHANGED <<script, pc>> /\ ReturnWith(s, Emitting(s), Error)
  BY DEF HeapMissing, Enters, In
<1>2. Resting(s, "open", Op(s).pos)
  BY <1>1, Entered
<1>3. QED
  BY <1>1, <1>2, Begun, SpentAfterOpen, NextEnds, KindsOf

LEMMA InsertBeginsFine ==
  ASSUME LifeInv, NEW s \in Stmt, InsertBegins(s)
  PROVE  Fine(s)
<1> DEFINE op == [Emitting(s) EXCEPT !.heap = storage[Node(s).table]]
<1>1. /\ stack[s] # <<>> /\ Top(s).method = "next" /\ Top(s).step = "enter"
      /\ Node(s).kind = "insert" /\ Op(s).pos # 1 /\ UNCHANGED <<script, pc>>
      /\ GotoWith(s, op, IF Kids(s) = <<>> THEN "values" ELSE "pull", 1)
  BY DEF InsertBegins, Enters, In, Emitted, Kids
<1>2. {"state", "pos"} \subseteq DOMAIN op /\ op.state = Op(s).state /\ op.pos = 1
  BY <1>1, Begun
<1> HIDE DEF op
<1>3. Resting(s, "open", Op(s).pos)
  BY <1>1, Entered
<1>4. CASE Kids(s) = <<>>
  <2>1. GotoWith(s, op, "values", 1)
    BY <1>1, <1>4
  <2>2. Going(s, "values", 1, "none")
    BY DEF Going, MethodAt
  <2>3. Reaches(Node(s), Top(s).method, "values")
    BY <1>1, <1>4 DEF Reaches, Kids
  <2>4. QED
    BY <1>1, <1>2, <2>1, <2>2, <2>3, GoesOn DEF Steps, GotoWith
<1>5. CASE Kids(s) # <<>>
  <2>1. GotoWith(s, op, "pull", 1)
    BY <1>1, <1>5
  <2>2. 1 \in DOMAIN Kids(s)
    BY <1>1, <1>5, NodeKids
  <2>3. Under(s, 1) = "open"
    BY <1>1, <1>3, <2>2 DEF Resting
  <2>4. Going(s, "pull", 1, "none")
    BY <2>2, <2>3, RepliesTell DEF Going, MethodAt
  <2>5. Reaches(Node(s), Top(s).method, "pull")
    BY <1>1 DEF Reaches
  <2>6. QED
    BY <1>1, <1>2, <2>1, <2>4, <2>5, GoesOn DEF Steps, GotoWith
<1>6. QED
  BY <1>4, <1>5

LEMMA InsertNextValuesFine ==
  ASSUME LifeInv, NEW s \in Stmt, InsertNextValues(s)
  PROVE  Fine(s)
<1>1. /\ stack[s] # <<>> /\ Top(s).method = "next" /\ Top(s).step = "values" /\ UNCHANGED <<script, pc>>
      /\ \/ Return(s, Row(Affected(Op(s).count)))
         \/ Return(s, Error)
         \/ GotoWith(s, Counting(s), "values", Top(s).kid + 1)
  BY DEF InsertNextValues, In
<1>2. /\ {"state", "pos"} \subseteq DOMAIN Op(s) /\ Top(s).kid + 1 \in Nat
      /\ {"state", "pos"} \subseteq DOMAIN Counting(s) /\ Counting(s).state = Op(s).state
  <2>1. {"state", "pos"} \subseteq DOMAIN Op(s)
    BY <1>1, TopFrame
  <2>2. Top(s).kid \in Nat
    BY <1>1, TopTells
  <2>3. QED
    BY <2>1, <2>2 DEF Counting
<1>3. Node(s).kind = "insert" /\ Kids(s) = <<>>
  BY <1>1, TopTells DEF Reaches, Kids
<1>4. DOMAIN Kids(s) = {}
  BY <1>3
<1>5. \A state, pos : Resting(s, state, pos)
  BY <1>4 DEF Resting
<1>6. CASE Return(s, Row(Affected(Op(s).count)))
  <2>1. Row(Affected(Op(s).count)).kind = "row"
    BY DEF Row
  <2>2. QED
    BY <1>1, <1>2, <1>5, <1>6, <2>1, NextRow DEF Return
<1>7. CASE Return(s, Error)
  BY <1>1, <1>2, <1>5, <1>7, NextEnds, KindsOf DEF Return
<1>8. CASE GotoWith(s, Counting(s), "values", Top(s).kid + 1)
  <2>1. Going(s, "values", Top(s).kid + 1, "none")
    BY DEF Going, MethodAt
  <2>2. Reaches(Node(s), Top(s).method, "values")
    BY <1>1, <1>3 DEF Reaches, Kids
  <2>3. QED
    BY <1>1, <1>2, <1>8, <2>1, <2>2, GoesOn DEF Steps, GotoWith
<1>9. QED
  BY <1>1, <1>6, <1>7, <1>8

LEMMA InsertPulledFine ==
  ASSUME LifeInv, NEW s \in Stmt, InsertPulled(s)
  PROVE  Fine(s)
<1>1. /\ In(s, "next", "pull") /\ Node(s).kind = "insert" /\ UNCHANGED <<script, pc>>
      /\ \/ reply[s].kind = "row" /\ GotoWith(s, Counting(s), "pull", 1)
         \/ reply[s].kind = "eof" /\ Return(s, Row(Affected(Op(s).count)))
         \/ reply[s].kind = "error" /\ Return(s, Error)
  BY DEF InsertPulled, Got
<1>2. /\ stack[s] # <<>> /\ Top(s).method = "next" /\ Top(s).step = "pull"
      /\ ClosesChild(Node(s)) /\ DOMAIN Kids(s) = {1}
      /\ reply[s].kind = "row" => Under(s, 1) = "open"
      /\ reply[s].kind \in {"eof", "error"} => Under(s, 1) = "spent"
      /\ {"state", "pos"} \subseteq DOMAIN Op(s)
  BY <1>1, Pulled
<1>3. Op(s).pos = 1
  BY <1>1, <1>2, TopTells
<1>4. /\ {"state", "pos"} \subseteq DOMAIN Counting(s) /\ Counting(s).state = Op(s).state
      /\ Counting(s).pos = 1
  BY <1>2, <1>3 DEF Counting
<1>5. CASE reply[s].kind = "row" /\ GotoWith(s, Counting(s), "pull", 1)
  <2>1. Going(s, "pull", 1, "none")
    BY <1>2, <1>5, RepliesTell DEF Going, MethodAt
  <2>2. Reaches(Node(s), Top(s).method, "pull")
    BY <1>1, <1>2 DEF Reaches
  <2>3. QED
    BY <1>1, <1>2, <1>4, <1>5, <2>1, <2>2, GoesOn DEF Steps, GotoWith
<1>6. CASE reply[s].kind = "eof" /\ Return(s, Row(Affected(Op(s).count)))
  <2>1. Row(Affected(Op(s).count)).kind = "row"
    BY DEF Row
  <2>2. Resting(s, "open", Op(s).pos)
    BY <1>1, <1>2, <1>3, <1>6 DEF Resting, Streaming
  <2>3. QED
    BY <1>1, <1>2, <1>6, <2>1, <2>2, NextRow DEF Return
<1>7. CASE reply[s].kind = "error" /\ Return(s, Error)
  <2>1. Resting(s, "spent", Op(s).pos)
    BY <1>2, <1>7 DEF Resting
  <2>2. QED
    BY <1>1, <1>2, <1>7, <2>1, NextEnds, KindsOf DEF Return
<1>8. QED
  BY <1>1, <1>5, <1>6, <1>7

LEMMA WritesRowsFine ==
  ASSUME LifeInv, NEW s \in Stmt, NEW kind \in {"update", "delete"}, Writing(s, kind),
         NEW failed, Report(s, failed), UNCHANGED <<script, pc>>
  PROVE  Fine(s)
<1>1. /\ stack[s] # <<>> /\ Top(s).method = "next" /\ Top(s).step = "enter" /\ Node(s).kind = kind
      /\ \/ ReturnWith(s, Emitting(s), Error)
         \/ ReturnWith(s, Emitting(s), Row(Affected(Cardinality(Matching(s)))))
  BY DEF Writing, Report, Enters, In
<1>2. Resting(s, "open", Op(s).pos)
  BY <1>1, Entered
<1>3. CASE ReturnWith(s, Emitting(s), Error)
  BY <1>1, <1>2, <1>3, Begun, SpentAfterOpen, NextEnds, KindsOf
<1>4. CASE ReturnWith(s, Emitting(s), Row(Affected(Cardinality(Matching(s)))))
  <2>1. Row(Affected(Cardinality(Matching(s)))).kind = "row"
    BY DEF Row
  <2>2. Resting(s, "open", Emitting(s).pos)
    BY <1>1, <1>2 DEF Resting
  <2>3. QED
    BY <1>1, <1>4, <2>1, <2>2, Begun, NextRow
<1>5. QED
  BY <1>1, <1>3, <1>4

LEMMA RowsFine ==
  ASSUME LifeInv, NEW s \in Stmt, UpdateRows(s) \/ DeleteRows(s)
  PROVE  Fine(s)
<1>1. CASE UpdateRows(s)
  <2>1. /\ Writing(s, "update") /\ UNCHANGED script
        /\ Panic(s) \/ (UNCHANGED pc /\ \E failed : Report(s, failed))
    BY <1>1 DEF UpdateRows
  <2>2. stack[s] # <<>>
    BY <2>1 DEF Writing, Enters, In
  <2>3. QED
    BY <2>1, <2>2, PanicFine, WritesRowsFine
<1>2. CASE DeleteRows(s)
  <2>1. Writing(s, "delete") /\ UNCHANGED <<script, pc>> /\ \E failed : Report(s, failed)
    BY <1>2 DEF DeleteRows
  <2>2. QED
    BY <2>1, WritesRowsFine
<1>3. QED
  BY <1>1, <1>2

LEMMA OpenCreateFine ==
  ASSUME LifeInv, NEW s \in Stmt, OpenCreate(s)
  PROVE  Fine(s)
<1>1. /\ UNCHANGED <<script, pc>> /\ ops' = ops /\ Node(s).kind = "create"
      /\ \/ In(s, "open", "enter") /\ Kids(s) # <<>> /\ Goto(s, "open", 1)
         \/ In(s, "open", "enter") /\ Kids(s) = <<>> /\ Goto(s, "register", 1)
         \/ In(s, "open", "open") /\ Got(s, {"ok"}) /\ Goto(s, "register", 1)
  BY DEF OpenCreate, Enters, Kids
<1>2. stack[s] # <<>> /\ Top(s).method = "open"
  BY <1>1 DEF In
<1>3. {"state", "pos"} \subseteq DOMAIN Op(s)
  BY <1>2, TopFrame
<1>4. CASE In(s, "open", "enter") /\ Kids(s) # <<>> /\ Goto(s, "open", 1)
  <2>1. Top(s).step = "enter"
    BY <1>4 DEF In
  <2>2. \A k \in DOMAIN Kids(s) : Under(s, k) = "new"
    BY <1>2, <2>1, Entered
  <2>3. 1 \in DOMAIN Kids(s) /\ \A k \in DOMAIN Kids(s) : ~(k < 1)
    BY <1>2, <1>4, NodeKids
  <2>4. Going(s, "open", 1, "none")
    BY <2>2, <2>3, RepliesTell DEF Going, MethodAt
  <2>5. Reaches(Node(s), Top(s).method, "open")
    BY <1>1, <1>2 DEF Reaches
  <2>6. QED
    BY <1>1, <1>2, <1>3, <1>4, <2>4, <2>5, GoesOn DEF Steps
<1>5. ASSUME \A k \in DOMAIN Kids(s) : Under(s, k) = "open", Goto(s, "register", 1)
      PROVE  Fine(s)
  <2>1. Going(s, "register", 1, "none")
    BY <1>5 DEF Going, MethodAt
  <2>2. Reaches(Node(s), Top(s).method, "register")
    BY <1>1, <1>2 DEF Reaches
  <2>3. QED
    BY <1>1, <1>2, <1>3, <1>5, <2>1, <2>2, GoesOn DEF Steps
<1>6. CASE In(s, "open", "enter") /\ Kids(s) = <<>> /\ Goto(s, "register", 1)
  BY <1>5, <1>6
<1>7. CASE In(s, "open", "open") /\ Got(s, {"ok"}) /\ Goto(s, "register", 1)
  <2>1. DOMAIN Kids(s) = {1} /\ Under(s, 1) = "open"
    BY <1>1, <1>7, KidCalled
  <2>2. QED
    BY <1>5, <1>7, <2>1
<1>8. QED
  BY <1>1, <1>4, <1>6, <1>7

LEMMA RegisterFine ==
  ASSUME LifeInv, NEW s \in Stmt, Register(s)
  PROVE  Fine(s)
<1> DEFINE op == [Op(s) EXCEPT !.table = s, !.count = Len(CreatedColumns(s))]
<1>1. /\ stack[s] # <<>> /\ Top(s).method = "open" /\ Top(s).step = "register" /\ UNCHANGED <<script, pc>>
      /\ Return(s, Error) \/ GotoWith(s, op, "create", 1)
  BY DEF Register, In
<1>2. /\ {"state", "pos"} \subseteq DOMAIN Op(s)
      /\ {"state", "pos"} \subseteq DOMAIN op /\ op.state = Op(s).state
  BY <1>1, TopFrame
<1> HIDE DEF op
<1>3. CASE Return(s, Error)
  BY <1>1, <1>3, OpenFails
<1>4. CASE GotoWith(s, op, "create", 1)
  <2>1. Node(s).kind = "create" /\ \A k \in DOMAIN Kids(s) : Under(s, k) = "open"
    BY <1>1, TopTells DEF Reaches, Going
  <2>2. Going(s, "create", 1, "none")
    BY <2>1 DEF Going, MethodAt
  <2>3. Reaches(Node(s), Top(s).method, "create")
    BY <1>1, <2>1 DEF Reaches
  <2>4. QED
    BY <1>1, <1>2, <1>4, <2>2, <2>3, GoesOn DEF Steps, GotoWith
<1>5. QED
  BY <1>1, <1>3, <1>4

LEMMA CreateHeapFine ==
  ASSUME LifeInv, NEW s \in Stmt, CreateHeap(s)
  PROVE  Fine(s)
<1>1. /\ stack[s] # <<>> /\ Top(s).method = "open" /\ Top(s).step = "create" /\ UNCHANGED <<script, pc>>
      /\ \/ Return(s, Error)
         \/ Kids(s) = <<>> /\ Return(s, Ok)
         \/ Kids(s) # <<>> /\ Goto(s, "fetch", 1) /\ ops' = ops
  BY DEF CreateHeap, In, Kids
<1>2. {"state", "pos"} \subseteq DOMAIN Op(s)
  BY <1>1, TopFrame
<1>3. CASE Return(s, Error)
  BY <1>1, <1>3, OpenFails
<1>4. CASE Kids(s) = <<>> /\ Return(s, Ok)
  <2>1. DOMAIN Kids(s) = {}
    BY <1>4
  <2>2. Resting(s, "open", Op(s).pos)
    BY <2>1 DEF Resting
  <2>3. QED
    BY <1>1, <1>2, <1>4, <2>2, OpensOk DEF Return
<1>5. CASE Kids(s) # <<>> /\ Goto(s, "fetch", 1) /\ ops' = ops
  <2>1. Node(s).kind = "create" /\ \A k \in DOMAIN Kids(s) : Under(s, k) = "open"
    BY <1>1, TopTells DEF Reaches, Going
  <2>2. Going(s, "fetch", 1, "none")
    BY <2>1 DEF Going, MethodAt
  <2>3. Reaches(Node(s), Top(s).method, "fetch")
    BY <1>1, <1>5, <2>1 DEF Reaches, Kids
  <2>4. QED
    BY <1>1, <1>2, <1>5, <2>1, <2>2, <2>3, GoesOn DEF Steps
<1>6. QED
  BY <1>1, <1>3, <1>4, <1>5

LEMMA FetchHeapFine ==
  ASSUME LifeInv, NEW s \in Stmt, FetchHeap(s)
  PROVE  Fine(s)
<1> DEFINE op == [Op(s) EXCEPT !.heap = storage[Node(s).table]]
<1>1. /\ stack[s] # <<>> /\ Top(s).method = "open" /\ Top(s).step = "fetch" /\ UNCHANGED <<script, pc>>
      /\ Return(s, Error) \/ GotoWith(s, op, "pull", 1)
  BY DEF FetchHeap, In
<1>2. /\ {"state", "pos"} \subseteq DOMAIN Op(s)
      /\ {"state", "pos"} \subseteq DOMAIN op /\ op.state = Op(s).state
  BY <1>1, TopFrame
<1> HIDE DEF op
<1>3. CASE Return(s, Error)
  BY <1>1, <1>3, OpenFails
<1>4. CASE GotoWith(s, op, "pull", 1)
  <2>1. /\ Node(s).kind = "create" /\ Kids(s) # <<>>
        /\ \A k \in DOMAIN Kids(s) : Under(s, k) = "open"
    BY <1>1, TopTells DEF Reaches, Going, Kids
  <2>2. 1 \in DOMAIN Kids(s)
    BY <1>1, <2>1, NodeKids
  <2>3. Going(s, "pull", 1, "none")
    BY <2>1, <2>2, RepliesTell DEF Going, MethodAt
  <2>4. Reaches(Node(s), Top(s).method, "pull")
    BY <1>1, <2>1 DEF Reaches
  <2>5. QED
    BY <1>1, <1>2, <1>4, <2>1, <2>3, <2>4, GoesOn DEF Steps, GotoWith
<1>5. QED
  BY <1>1, <1>3, <1>4

LEMMA FillFine ==
  ASSUME LifeInv, NEW s \in Stmt, Fill(s)
  PROVE  Fine(s)
<1>1. /\ stack[s] # <<>> /\ Top(s).method = "open" /\ Top(s).step = "pull" /\ UNCHANGED <<script, pc>>
      /\ \/ reply[s].kind = "row" /\ Goto(s, "pull", 1) /\ ops' = ops
         \/ reply[s].kind = "eof" /\ Return(s, Ok)
         \/ Return(s, Error)
  BY DEF Fill, In, Got
<1>2. {"state", "pos"} \subseteq DOMAIN Op(s) /\ Top(s).step \in DOMAIN MethodAt
  BY <1>1, TopFrame DEF MethodAt
<1>3. Node(s).kind = "create"
  BY <1>1, TopTells DEF Reaches
<1>4. DOMAIN Kids(s) = {1} /\ Top(s).kid = 1
  BY <1>1, <1>2, <1>3, OnlyKid
<1>5. <<"next", reply[s].kind, Under(s, 1)>> \in Replies
  BY <1>1, <1>2, <1>4, CalledKid DEF MethodAt
<1>6. CASE reply[s].kind = "row" /\ Goto(s, "pull", 1) /\ ops' = ops
  <2>1. Under(s, 1) = "open"
    BY <1>5, <1>6, RepliesTell
  <2>2. Going(s, "pull", 1, "none")
    BY <1>4, <2>1, RepliesTell DEF Going, MethodAt
  <2>3. Reaches(Node(s), Top(s).method, "pull")
    BY <1>1, <1>3 DEF Reaches
  <2>4. QED
    BY <1>1, <1>2, <1>3, <1>6, <2>2, <2>3, GoesOn DEF Steps
<1>7. CASE reply[s].kind = "eof" /\ Return(s, Ok)
  <2>1. Under(s, 1) = "spent"
    BY <1>5, <1>7, RepliesTell
  <2>2. ClosesChild(Node(s)) /\ Node(s).kind \notin Streaming \union {"insert"}
    <3>1. Kids(s) # <<>>
      BY <1>4
    <3>2. QED
      BY <1>3, <3>1 DEF ClosesChild, Kids, Streaming
  <2>3. Resting(s, "open", Op(s).pos)
    BY <1>4, <2>1, <2>2 DEF Resting
  <2>4. QED
    BY <1>1, <1>2, <1>7, <2>3, OpensOk DEF Return
<1>8. CASE Return(s, Error)
  BY <1>1, <1>8, OpenFails
<1>9. QED
  BY <1>1, <1>6, <1>7, <1>8

\* The statements that define tables have no children.
LEMMA Childless ==
  ASSUME LifeInv, NEW s \in Stmt, stack[s] # <<>>, Node(s).kind \in Definitions \ {"create"}
  PROVE  \A state, pos : Resting(s, state, pos)
<1>1. DOMAIN Kids(s) = {}
  BY NodeKids
<1>2. QED
  BY <1>1 DEF Resting

LEMMA DefinesFine ==
  ASSUME LifeInv, NEW s \in Stmt, NEW kind \in Definitions \ {"create"}, Enters(s, "open", {kind}),
         NEW place, ToStorage(s, place) \/ Return(s, Ok) \/ Return(s, Error),
         UNCHANGED <<script, pc>>
  PROVE  Fine(s)
<1>1. stack[s] # <<>> /\ Top(s).method = "open" /\ Node(s).kind = kind
  BY DEF Enters, In
<1>2. {"state", "pos"} \subseteq DOMAIN Op(s) /\ Resting(s, "open", Op(s).pos)
  BY <1>1, TopFrame, Childless
<1>3. CASE ToStorage(s, place)
  <2> DEFINE op == [Op(s) EXCEPT !.count = place]
  <2>1. {"state", "pos"} \subseteq DOMAIN op /\ op.state = Op(s).state /\ GotoWith(s, op, "storage", 1)
    BY <1>2, <1>3 DEF ToStorage
  <2> HIDE DEF op
  <2>2. Going(s, "storage", 1, "none")
    BY DEF Going, MethodAt
  <2>3. Reaches(Node(s), Top(s).method, "storage")
    BY <1>1 DEF Reaches
  <2>4. QED
    BY <1>1, <2>1, <2>2, <2>3, GoesOn DEF Steps, GotoWith
<1>4. CASE Return(s, Ok)
  BY <1>1, <1>2, <1>4, OpensOk DEF Return
<1>5. CASE Return(s, Error)
  BY <1>1, <1>5, OpenFails
<1>6. QED
  BY <1>3, <1>4, <1>5

LEMMA DefinitionsFine ==
  ASSUME LifeInv, NEW s \in Stmt,
         Drop(s) \/ AddColumn(s) \/ DropColumn(s) \/ RenameColumn(s) \/ RenameTable(s) \/ CannotDefine(s)
  PROVE  Fine(s)
<1>1. CASE Drop(s)
  <2>1. Enters(s, "open", {"drop"}) /\ ToStorage(s, 1) /\ UNCHANGED <<script, pc>>
    BY <1>1 DEF Drop, Defines
  <2>2. "drop" \in Definitions \ {"create"}
    BY DEF Definitions
  <2>3. QED
    BY <2>1, <2>2, DefinesFine
<1>2. CASE AddColumn(s)
  <2>1. Enters(s, "open", {"add column"}) /\ ToStorage(s, 1) /\ UNCHANGED <<script, pc>>
    BY <1>2 DEF AddColumn, Defines
  <2>2. "add column" \in Definitions \ {"create"}
    BY DEF Definitions
  <2>3. QED
    BY <2>1, <2>2, DefinesFine
<1>3. CASE DropColumn(s)
  <2>1. Enters(s, "open", {"drop column"}) /\ ToStorage(s, First(Places(s))) /\ UNCHANGED <<script, pc>>
    BY <1>3 DEF DropColumn, Defines
  <2>2. "drop column" \in Definitions \ {"create"}
    BY DEF Definitions
  <2>3. QED
    BY <2>1, <2>2, DefinesFine
<1>4. CASE RenameColumn(s)
  <2>1. Enters(s, "open", {"rename column"}) /\ Return(s, Ok) /\ UNCHANGED <<script, pc>>
    BY <1>4 DEF RenameColumn, Defines
  <2>2. "rename column" \in Definitions \ {"create"}
    BY DEF Definitions
  <2>3. QED
    BY <2>1, <2>2, DefinesFine
<1>5. CASE RenameTable(s)
  <2>1. Enters(s, "open", {"rename"}) /\ ToStorage(s, 1) /\ UNCHANGED <<script, pc>>
    BY <1>5 DEF RenameTable, Defines
  <2>2. "rename" \in Definitions \ {"create"}
    BY DEF Definitions
  <2>3. QED
    BY <2>1, <2>2, DefinesFine
<1>6. CASE CannotDefine(s)
  <2>1. /\ In(s, "open", "enter") /\ Node(s).kind \in Definitions \ {"create"}
        /\ Return(s, Ok) \/ Return(s, Error)
        /\ UNCHANGED <<script, pc>>
    BY <1>6 DEF CannotDefine, Enters
  <2>2. Enters(s, "open", {Node(s).kind})
    BY <2>1 DEF Enters
  <2>3. QED
    BY <2>1, <2>2, DefinesFine
<1>7. QED
  BY <1>1, <1>2, <1>3, <1>4, <1>5, <1>6

LEMMA ChangeStorageFine ==
  ASSUME LifeInv, NEW s \in Stmt, ChangeStorage(s)
  PROVE  Fine(s)
<1>1. /\ stack[s] # <<>> /\ Top(s).method = "open" /\ Top(s).step = "storage" /\ Return(s, Ok)
      /\ UNCHANGED <<script, pc>>
  BY DEF ChangeStorage, In
<1>2. Node(s).kind \in Definitions \ {"create"}
  BY <1>1, TopTells DEF Reaches
<1>3. {"state", "pos"} \subseteq DOMAIN Op(s) /\ Resting(s, "open", Op(s).pos)
  BY <1>1, <1>2, TopFrame, Childless
<1>4. QED
  BY <1>1, <1>3, OpensOk DEF Return

LEMMA SayDoneFine ==
  ASSUME LifeInv, NEW s \in Stmt, SayDone(s)
  PROVE  Fine(s)
<1>1. /\ stack[s] # <<>> /\ Top(s).method = "next" /\ Top(s).step = "enter"
      /\ Node(s).kind \in Definitions /\ UNCHANGED <<script, pc>>
      /\ ReturnWith(s, Emitting(s), Row(Done))
  BY DEF SayDone, Enters, In
<1>2. Resting(s, "open", Op(s).pos)
  BY <1>1, Entered
<1>3. Resting(s, "open", Emitting(s).pos)
  BY <1>1, <1>2 DEF Resting, Definitions, Streaming
<1>4. Row(Done).kind = "row"
  BY DEF Row
<1>5. QED
  BY <1>1, <1>3, <1>4, Begun, NextRow

-----------------------------------------------------------------------------
(* Execute.                                                                  *)

LEMMA CallsMade == /\ DOMAIN Calls = {"opening", "pulling", "answering", "failing", "expiring"}
                   /\ Calls["opening"] = "open" /\ Calls["pulling"] = "next"
                   /\ Calls["answering"] = "close" /\ Calls["failing"] = "close" /\ Calls["expiring"] = "close"
  BY DEF Calls

\* Between two calls of the root, nothing runs.
LEMMA RootRests ==
  ASSUME LifeInv, NEW s \in Stmt, stack[s] = <<>>, pc[s] \in DOMAIN Calls
  PROVE  /\ IsPlan(Plan(s)) /\ DOMAIN ops[s] = DOMAIN Plan(s)
         /\ \A n \in DOMAIN Plan(s) : {"state", "pos"} \subseteq DOMAIN ops[s][n] /\ AtRest(Plan(s), ops[s], n)
         /\ <<Calls[pc[s]], reply[s].kind, ops[s][1].state>> \in Replies
<1>1. Sound(s)
  BY DEF LifeInv, Sound, Plan
<1>2. Runs(Plan(s), stack[s], reply[s], ops[s]) /\ RootCalled(pc[s], stack[s], reply[s], ops[s])
  BY <1>1 DEF Sound, Lives
<1>3. \A n \in DOMAIN Plan(s) : AtRest(Plan(s), ops[s], n)
  <2>1. \A i \in 1 .. Len(stack[s]) : FALSE
    OBVIOUS
  <2>2. QED
    BY <1>2, <2>1 DEF Runs
<1>4. QED
  BY <1>2, <1>3 DEF Runs, RootCalled

\* The root is called, with all operators at rest.
LEMMA RootIsCalled ==
  ASSUME LifeInv, NEW s \in Stmt, stack[s] = <<>>, NEW label \in DOMAIN Calls,
         Call(s, 1, Calls[label]), pc' = [pc EXCEPT ![s] = label], script' = script,
         DOMAIN ops' = Stmt, \A t \in Stmt \ {s} : ops'[t] = ops[t],
         IsPlan(Plan(s)), DOMAIN ops'[s] = DOMAIN Plan(s),
         \A n \in DOMAIN Plan(s) :
           {"state", "pos"} \subseteq DOMAIN ops'[s][n] /\ AtRest(Plan(s), ops'[s], n),
         ops'[s][1].state = ops[s][1].state,
         <<Calls[label], "none", ops[s][1].state>> \in Replies
  PROVE  Fine(s)
<1> DEFINE f == [node |-> 1, method |-> Calls[label], step |-> "enter", kid |-> 1]
<1>1. /\ DOMAIN pc = Stmt /\ DOMAIN stack = Stmt /\ DOMAIN reply = Stmt /\ DOMAIN ops = Stmt
  BY DEF LifeInv
<1>2. f \in CallFrame /\ f.node = 1 /\ f.method = Calls[label] /\ f.step = "enter"
      /\ f.method \in {"open", "next", "close"}
  BY CallsMade DEF CallFrame, Steps
<1>3. /\ stack'[s] = <<f>> \o <<>> /\ reply'[s] = NoReply /\ pc'[s] = label
      /\ DOMAIN stack' = Stmt /\ DOMAIN reply' = Stmt /\ DOMAIN pc' = Stmt
      /\ \A t \in Stmt \ {s} : stack'[t] = stack[t] /\ reply'[t] = reply[t] /\ pc'[t] = pc[t]
  BY <1>1 DEF Call, Called
<1> HIDE DEF f
<1>4. stack'[s] = <<f>>
  BY <1>3
<1>5. /\ <<f>> \in Seq(CallFrame) /\ Len(<<f>>) = 1 /\ <<f>>[1] = f /\ Head(<<f>>) = f /\ <<f>> # <<>>
  BY <1>2
<1>6. 1 \in DOMAIN Plan(s)
  BY PlanKids
<1>7. Runs(Plan(s), <<f>>, NoReply, ops'[s])
  <2>1. Linked(Plan(s), <<f>>)
    <3>1. 1 .. Len(<<f>>) = {1} /\ 1 .. Len(<<f>>) - 1 = {}
      BY <1>5
    <3>2. QED
      BY <3>1 DEF Linked
  <2>2. InFrame(Plan(s), ops'[s], f, "none")
    <3>1. Underway(Plan(s), ops'[s], f, "none")
      BY <1>2 DEF Underway, MethodAt
    <3>2. Reaches(Plan(s)[f.node], f.method, f.step)
      BY <1>2 DEF Reaches
    <3>3. QED
      BY <1>2, <1>6, <3>1, <3>2 DEF InFrame
  <2>3. Answered(<<f>>, 1, NoReply) = "none"
    BY DEF Answered, NoReply
  <2>4. \A i \in 1 .. Len(<<f>>) : i = 1
    BY <1>5
  <2>5. QED
    BY <1>5, <2>1, <2>2, <2>3, <2>4 DEF Runs
<1>8. RootCalled(label, <<f>>, NoReply, ops'[s])
  BY <1>2, <1>5 DEF RootCalled
<1>9. Sound(s)'
  <2>1. Plan(s)' = Plan(s)
    BY DEF Plan
  <2>2. Lives(Plan(s), label, <<f>>, NoReply, ops'[s])
    BY <1>7, <1>8, CallsMade DEF Lives, Left
  <2>3. QED
    BY <1>3, <1>4, <2>1, <2>2 DEF Sound
<1>10. Lawful(s)
  <2>1. Head(stack'[s]) = f /\ <<f.method, "none", ops[s][f.node].state>> \in Replies
    BY <1>2, <1>4, <1>5
  <2>2. CASE f.method = "open"
    BY <2>1, <2>2, RepliesTell DEF Lawful
  <2>3. CASE f.method = "next"
    BY <2>1, <2>3, RepliesTell DEF Lawful
  <2>4. CASE f.method = "close"
    BY <2>1, <2>4, RepliesTell DEF Lawful
  <2>5. QED
    BY <1>2, <2>2, <2>3, <2>4
<1>11. Alone(s)
  BY <1>1, <1>3 DEF Alone
<1>12. QED
  BY <1>9, <1>10, <1>11 DEF Fine

LEMMA BlankIsNew ==
  /\ {"state", "pos"} \subseteq DOMAIN Blank /\ Blank.state = "new"
  /\ \A t : {"state", "pos"} \subseteq DOMAIN [Blank EXCEPT !.table = t] /\ [Blank EXCEPT !.table = t].state = "new"
<1>1. {"state", "pos"} \subseteq DOMAIN Blank /\ Blank.state = "new"
  BY DEF Blank
<1>2. QED
  BY <1>1

LEMMA BeginFine ==
  ASSUME LifeInv, NEW s \in Stmt, Begin(s)
  PROVE  Fine(s)
<1> DEFINE names == {n \in DOMAIN Plan(s) : Plan(s)[n].kind \in NamesTable}
           Known(n) == IF n \in names THEN [Blank EXCEPT !.table = catalog[Plan(s)[n].table]] ELSE Blank
           known == [n \in DOMAIN Plan(s) |-> Known(n)]
<1>1. /\ pc[s] = "idle" /\ script' = script
      /\ \/ pc' = [pc EXCEPT ![s] = "rejected"] /\ UNCHANGED <<stack, reply, ops>>
         \/ pc' = [pc EXCEPT ![s] = "opening"] /\ Call(s, 1, "open") /\ ops' = [ops EXCEPT ![s] = known]
  BY DEF Begin, Plan
<1>2. /\ DOMAIN known = DOMAIN Plan(s)
      /\ \A n \in DOMAIN Plan(s) : {"state", "pos"} \subseteq DOMAIN known[n] /\ known[n].state = "new"
  <2> SUFFICES ASSUME NEW n \in DOMAIN Plan(s)
               PROVE  {"state", "pos"} \subseteq DOMAIN known[n] /\ known[n].state = "new"
    OBVIOUS
  <2>1. known[n] = Known(n)
    OBVIOUS
  <2> HIDE DEF names, known
  <2>2. Known(n) = Blank \/ \E t : Known(n) = [Blank EXCEPT !.table = t]
    OBVIOUS
  <2> HIDE DEF Known
  <2>3. QED
    BY <2>1, <2>2, BlankIsNew
<1> HIDE DEF known
<1>3. /\ DOMAIN pc = Stmt /\ DOMAIN stack = Stmt /\ DOMAIN reply = Stmt /\ DOMAIN ops = Stmt
  BY DEF LifeInv
<1>4. /\ stack[s] = <<>> /\ IsPlan(Plan(s)) /\ DOMAIN ops[s] = DOMAIN Plan(s)
      /\ \A n \in DOMAIN Plan(s) : ops[s][n] = Blank
  BY <1>1 DEF LifeInv, Plan, Lives, Runs, Calls
<1>5. CASE pc' = [pc EXCEPT ![s] = "rejected"] /\ UNCHANGED <<stack, reply, ops>>
  <2>1. Alone(s) /\ stack'[s] = <<>> /\ pc'[s] = "rejected"
    BY <1>1, <1>3, <1>4, <1>5 DEF Alone
  <2>2. Sound(s)'
    BY <2>1, CallsMade DEF Sound, Lives, Left
  <2>3. ~(Len(stack'[s]) > Len(stack[s]))
    BY <1>4, <2>1
  <2>4. QED
    BY <2>1, <2>2, <2>3 DEF Fine, Lawful
<1>6. CASE pc' = [pc EXCEPT ![s] = "opening"] /\ Call(s, 1, "open") /\ ops' = [ops EXCEPT ![s] = known]
  <2>1. /\ DOMAIN ops' = Stmt /\ \A t \in Stmt \ {s} : ops'[t] = ops[t]
        /\ ops'[s] = known
    BY <1>3, <1>6
  <2>2. /\ DOMAIN ops'[s] = DOMAIN Plan(s)
        /\ \A n \in DOMAIN Plan(s) : {"state", "pos"} \subseteq DOMAIN ops'[s][n] /\ ops'[s][n].state = "new"
    BY <1>2, <2>1
  <2>3. ASSUME NEW n \in DOMAIN Plan(s)
        PROVE  AtRest(Plan(s), ops'[s], n)
    <3>1. \A k \in DOMAIN Plan(s)[n].kids : ops'[s][Plan(s)[n].kids[k]].state = "new"
      BY <1>4, <2>2, PlanKids
    <3>2. QED
      BY <2>2, <3>1 DEF AtRest, Rests
  <2>4. 1 \in DOMAIN Plan(s)
    BY <1>4, PlanKids
  <2>5. ops'[s][1].state = ops[s][1].state /\ ops[s][1].state = "new"
    BY <1>4, <2>2, <2>4, BlankIsNew
  <2>6. "opening" \in DOMAIN Calls /\ Calls["opening"] = "open" /\ <<"open", "none", ops[s][1].state>> \in Replies
    BY <2>5, CallsMade, RepliesTell
  <2>7. QED
    BY <1>1, <1>4, <1>6, <2>1, <2>2, <2>3, <2>5, <2>6, RootIsCalled
<1>7. QED
  BY <1>1, <1>5, <1>6

LEMMA PullFine ==
  ASSUME LifeInv, NEW s \in Stmt, Pull(s) \/ Finish(s)
  PROVE  Fine(s)
<1>1. /\ stack[s] = <<>> /\ script' = script /\ ops' = ops
      /\ \/ pc[s] = "opening" /\ reply[s].kind = "ok"
         \/ pc[s] = "pulling" /\ reply[s].kind \in {"row", "eof", "error"}
      /\ \/ /\ pc[s] = "opening" \/ reply[s].kind = "row"
            /\ Call(s, 1, "next") /\ pc' = [pc EXCEPT ![s] = "pulling"]
         \/ /\ Call(s, 1, "close")
            /\ \E label \in {"expiring", "answering", "failing"} : pc' = [pc EXCEPT ![s] = label]
  BY DEF Pull, Finish, AtRoot, Got
<1>2. pc[s] \in DOMAIN Calls
  BY <1>1, CallsMade
<1>3. /\ IsPlan(Plan(s)) /\ DOMAIN ops[s] = DOMAIN Plan(s)
      /\ \A n \in DOMAIN Plan(s) : {"state", "pos"} \subseteq DOMAIN ops[s][n] /\ AtRest(Plan(s), ops[s], n)
      /\ <<Calls[pc[s]], reply[s].kind, ops[s][1].state>> \in Replies
  BY <1>1, <1>2, RootRests
<1>4. /\ DOMAIN ops' = Stmt /\ ops'[s] = ops[s] /\ \A t \in Stmt \ {s} : ops'[t] = ops[t]
  BY <1>1 DEF LifeInv
<1>5. ops[s][1].state \in {"open", "spent"} /\ (pc[s] = "opening" \/ reply[s].kind = "row" => ops[s][1].state = "open")
  BY <1>1, <1>3, CallsMade, RepliesTell
<1>6. CASE /\ pc[s] = "opening" \/ reply[s].kind = "row"
           /\ Call(s, 1, "next") /\ pc' = [pc EXCEPT ![s] = "pulling"]
  <2>1. "pulling" \in DOMAIN Calls /\ Calls["pulling"] = "next" /\ <<"next", "none", ops[s][1].state>> \in Replies
    BY <1>5, <1>6, CallsMade, RepliesTell
  <2>2. QED
    BY <1>1, <1>3, <1>4, <1>6, <2>1, RootIsCalled
<1>7. ASSUME NEW label \in {"expiring", "answering", "failing"}, Call(s, 1, "close"),
             pc' = [pc EXCEPT ![s] = label]
      PROVE  Fine(s)
  <2>1. label \in DOMAIN Calls /\ Calls[label] = "close" /\ <<"close", "none", ops[s][1].state>> \in Replies
    BY <1>5, CallsMade, RepliesTell
  <2>2. QED
    BY <1>1, <1>3, <1>4, <1>7, <2>1, RootIsCalled
<1>8. QED
  BY <1>1, <1>6, <1>7

LEMMA EndsFine ==
  ASSUME LifeInv, NEW s \in Stmt, OpenFailed(s) \/ Finished(s)
  PROVE  Fine(s)
<1>1. /\ stack[s] = <<>> /\ script' = script /\ stack' = stack /\ ops' = ops
      /\ reply' = [reply EXCEPT ![s] = NoReply]
      /\ \/ pc' = [pc EXCEPT ![s] = "open failed"]
         \/ /\ pc[s] \in {"answering", "failing", "expiring"} /\ reply[s].kind = "ok"
            /\ \E label \in Left : pc' = [pc EXCEPT ![s] = label]
  <2>1. CASE OpenFailed(s)
    BY <2>1 DEF OpenFailed, AtRoot
  <2>2. CASE Finished(s)
    <3>1. /\ stack[s] = <<>> /\ pc[s] \in {"answering", "failing", "expiring"} /\ reply[s].kind = "ok"
          /\ pc' = [pc EXCEPT ![s] = Verdict[pc[s]]] /\ reply' = [reply EXCEPT ![s] = NoReply]
          /\ script' = script /\ stack' = stack /\ ops' = ops
      BY <2>2 DEF Finished, Got, Verdict
    <3>2. Verdict[pc[s]] \in Left
      BY <3>1 DEF Verdict, Left
    <3>3. QED
      BY <3>1, <3>2
  <2>3. QED
    BY <2>1, <2>2
<1>2. /\ DOMAIN pc = Stmt /\ DOMAIN stack = Stmt /\ DOMAIN reply = Stmt /\ DOMAIN ops = Stmt
  BY DEF LifeInv
<1>3. Alone(s) /\ stack'[s] = <<>> /\ ops'[s] = ops[s] /\ reply'[s] = NoReply /\ Plan(s)' = Plan(s)
  BY <1>1, <1>2 DEF Alone, Plan
<1>4. Lawful(s)
  <2>1. ~(Len(stack'[s]) > Len(stack[s]))
    <3>1. stack'[s] = stack[s] /\ Len(stack[s]) = 0
      BY <1>1
    <3>2. QED
      BY <3>1
  <2>2. QED
    BY <2>1 DEF Lawful
<1>5. CASE pc' = [pc EXCEPT ![s] = "open failed"]
  <2>1. pc'[s] = "open failed"
    BY <1>2, <1>5
  <2>2. Sound(s)'
    BY <1>3, <2>1, CallsMade DEF Sound, Lives, Left
  <2>3. QED
    BY <1>3, <1>4, <2>2 DEF Fine
<1>6. ASSUME pc[s] \in {"answering", "failing", "expiring"}, reply[s].kind = "ok", NEW label \in Left,
             pc' = [pc EXCEPT ![s] = label]
      PROVE  Fine(s)
  <2>1. pc[s] \in DOMAIN Calls /\ Calls[pc[s]] = "close"
    BY <1>6, CallsMade
  <2>2. /\ IsPlan(Plan(s)) /\ DOMAIN ops[s] = DOMAIN Plan(s)
        /\ \A n \in DOMAIN Plan(s) : {"state", "pos"} \subseteq DOMAIN ops[s][n] /\ AtRest(Plan(s), ops[s], n)
        /\ <<"close", "ok", ops[s][1].state>> \in Replies
    BY <1>1, <1>6, <2>1, RootRests
  <2>3. ops[s][1].state = "closed" /\ pc'[s] = label
    BY <1>2, <1>6, <2>2, RepliesTell
  <2>4. Runs(Plan(s), <<>>, NoReply, ops[s])
    <3>1. <<>> \in Seq(CallFrame) /\ Len(<<>>) = 0 /\ 1 .. 0 = {} /\ 1 .. 0 - 1 = {}
      OBVIOUS
    <3>2. Linked(Plan(s), <<>>)
      BY <3>1 DEF Linked
    <3>3. QED
      BY <2>2, <3>1, <3>2 DEF Runs
  <2>5. Lives(Plan(s), label, <<>>, NoReply, ops[s])
    BY <2>3, <2>4, CallsMade DEF Lives, Left
  <2>6. Sound(s)'
    BY <1>3, <2>3, <2>5 DEF Sound
  <2>7. QED
    BY <1>3, <1>4, <2>6 DEF Fine
<1>7. QED
  BY <1>1, <1>5, <1>6

-----------------------------------------------------------------------------
(* The invariant.                                                            *)

\* A step of one statement leaves the others as they are.
LEMMA FineKeeps ==
  ASSUME LifeInv, NEW s \in Stmt, Fine(s)
  PROVE  LifeInv' /\ \A t \in Stmt : Lawful(t)
<1>1. Alone(s) /\ Sound(s)' /\ Lawful(s)
  BY DEF Fine
<1>2. ASSUME NEW t \in Stmt, t # s
      PROVE  Lives(script'[t].nodes, pc'[t], stack'[t], reply'[t], ops'[t]) /\ Lawful(t)
  <2>1. Lives(script[t].nodes, pc[t], stack[t], reply[t], ops[t])
    BY DEF LifeInv
  <2>2. /\ script' = script /\ pc'[t] = pc[t] /\ stack'[t] = stack[t]
        /\ reply'[t] = reply[t] /\ ops'[t] = ops[t]
    BY <1>1, <1>2 DEF Alone
  <2>3. Lives(script'[t].nodes, pc'[t], stack'[t], reply'[t], ops'[t])
    BY <2>1, <2>2
  <2>4. Len(stack[t]) \in Nat
    <3>1. stack[t] = <<>> \/ stack[t] \in Seq(CallFrame)
      BY <2>1 DEF Lives, Runs
    <3>2. QED
      BY <3>1
  <2>5. ~(Len(stack'[t]) > Len(stack[t]))
    BY <2>2, <2>4
  <2>6. QED
    BY <2>3, <2>5 DEF Lawful
<1>3. Lives(script'[s].nodes, pc'[s], stack'[s], reply'[s], ops'[s])
  BY <1>1 DEF Sound, Plan
<1>4. \A t \in Stmt : Lives(script'[t].nodes, pc'[t], stack'[t], reply'[t], ops'[t])
  BY <1>2, <1>3
<1>5. \A t \in Stmt : Lawful(t)
  BY <1>1, <1>2
<1>6. DOMAIN pc' = Stmt /\ DOMAIN stack' = Stmt /\ DOMAIN reply' = Stmt /\ DOMAIN ops' = Stmt
      /\ script' \in Scenarios
  BY <1>1 DEF Alone, LifeInv
<1>7. QED
  BY <1>4, <1>5, <1>6 DEF LifeInv

LEMMA ReadStepFine ==
  ASSUME LifeInv, NEW s \in Stmt, ReadStep(s)
  PROVE  Fine(s)
  BY CallChildFine, OpenScanFine, OpenLeafFine, OpenChildrenFine, ChildOpenFailedFine, ChildOpenedFine,
     DrainRowFine, DrainFailedFine, CloseDrainedFine, ChildDrainedFine, ComputeWindowsFine, AbortedFine,
     NextBufferedFine, NextStreamingFine, PulledEndFine, PulledRowFine, CloseFine, ChildClosedFine
  DEF ReadStep

LEMMA WriteStepFine ==
  ASSUME LifeInv, NEW s \in Stmt, WriteStep(s)
  PROVE  Fine(s)
  BY OpenWriterFine, SourceOpenedFine, NoMoreFine, HeapMissingFine, InsertBeginsFine,
     InsertNextValuesFine, InsertPulledFine, RowsFine, OpenCreateFine, RegisterFine, CreateHeapFine,
     FetchHeapFine, FillFine, DefinitionsFine, ChangeStorageFine, SayDoneFine
  DEF WriteStep

LEMMA ExecuteStepFine ==
  ASSUME LifeInv, NEW s \in Stmt, ExecuteStep(s)
  PROVE  Fine(s)
  BY BeginFine, PullFine, EndsFine DEF ExecuteStep

LEMMA LifeInvInit == Init => LifeInv
<1> SUFFICES ASSUME Init PROVE LifeInv
  OBVIOUS
<1>1. /\ script \in Scenarios
      /\ pc = [s \in Stmt |-> IF script[s].nodes = <<>> THEN "absent" ELSE "idle"]
      /\ stack = [s \in Stmt |-> <<>>]
      /\ reply = [s \in Stmt |-> NoReply]
      /\ ops = [s \in Stmt |-> [n \in DOMAIN script[s].nodes |-> Blank]]
  BY DEF Init
<1>2. ASSUME NEW s \in Stmt
      PROVE  Lives(script[s].nodes, pc[s], stack[s], reply[s], ops[s])
  <2> DEFINE nodes == script[s].nodes
  <2>1. stack[s] = <<>> /\ ops[s] = [n \in DOMAIN nodes |-> Blank]
    BY <1>1
  <2>2. CASE nodes = <<>>
    <3>1. pc[s] = "absent"
      BY <1>1, <2>2
    <3>2. QED
      BY <2>1, <3>1, CallsMade DEF Lives, Left
  <2>3. CASE nodes # <<>>
    <3>1. IsPlan(nodes)
      BY <1>1, <2>3, PlansAssumption
    <3>2. pc[s] = "idle"
      BY <1>1, <2>3
    <3> HIDE DEF nodes
    <3>3. /\ DOMAIN ops[s] = DOMAIN nodes
          /\ \A n \in DOMAIN nodes : ops[s][n] = Blank /\ {"state", "pos"} \subseteq DOMAIN ops[s][n]
                                     /\ ops[s][n].state = "new"
      BY <2>1, BlankIsNew
    <3>4. ASSUME NEW n \in DOMAIN nodes PROVE AtRest(nodes, ops[s], n)
      <4>1. \A k \in DOMAIN nodes[n].kids : ops[s][nodes[n].kids[k]].state = "new"
        BY <3>1, <3>3, PlanKids
      <4>2. QED
        BY <3>3, <4>1 DEF AtRest, Rests
    <3>5. <<>> \in Seq(CallFrame) /\ Len(<<>>) = 0 /\ 1 .. 0 = {} /\ 1 .. 0 - 1 = {}
      OBVIOUS
    <3>6. Linked(nodes, <<>>)
      BY <3>5 DEF Linked
    <3>7. Runs(nodes, <<>>, reply[s], ops[s])
      BY <3>1, <3>3, <3>4, <3>5, <3>6 DEF Runs
    <3>8. Lives(nodes, "idle", <<>>, reply[s], ops[s])
      BY <3>3, <3>7, CallsMade DEF Lives, Left
    <3>9. QED
      BY <2>1, <3>2, <3>8 DEF nodes
  <2>4. QED
    BY <2>2, <2>3
<1>3. DOMAIN pc = Stmt /\ DOMAIN stack = Stmt /\ DOMAIN reply = Stmt /\ DOMAIN ops = Stmt
  BY <1>1
<1>4. QED
  BY <1>1, <1>2, <1>3 DEF LifeInv

LEMMA LifeInvStep ==
  ASSUME LifeInv, [Next]_vars
  PROVE  LifeInv' /\ (vars' = vars \/ \A s \in Stmt : Lawful(s))
<1>1. CASE UNCHANGED vars
  BY <1>1 DEF LifeInv, vars
<1>2. ASSUME NEW s \in Stmt, Step(s)
      PROVE  LifeInv' /\ \A t \in Stmt : Lawful(t)
  <2>1. Fine(s)
    BY <1>2, ReadStepFine, WriteStepFine, ExecuteStepFine DEF Step
  <2>2. QED
    BY <2>1, FineKeeps
<1>3. CASE AllEnded
  BY <1>1, <1>3 DEF AllEnded
<1>4. QED
  BY <1>1, <1>2, <1>3 DEF Next

\* Whatever the plan, the tables and the other statements: an operator is opened
\* once and first, asked for rows only while it has some, and closed once, after Open.
THEOREM OperatorsLive == Spec => LifeCycle
<1>1. Init => LifeInv
  BY LifeInvInit
<1>2. LifeInv /\ [Next]_vars => LifeInv'
  BY LifeInvStep
<1>3. LifeInv /\ [Next]_vars => [\A s \in Stmt : Lawful(s)]_vars
  BY LifeInvStep
<1>4. QED
  BY <1>1, <1>2, <1>3, PTL DEF Spec, LifeCycle

\* Of operators at rest below a closed root, none is open: the first one that was
\* would have a parent that is new or closed, and those have no open children.
LEMMA ClosedBelow ==
  ASSUME NEW nodes, NEW op, IsPlan(nodes), \A n \in DOMAIN nodes : AtRest(nodes, op, n),
         op[1].state = "closed"
  PROVE  \A n \in DOMAIN nodes : op[n].state \in {"new", "closed"}
<1> DEFINE S == {n \in DOMAIN nodes : op[n].state \notin {"new", "closed"}}
<1> SUFFICES ASSUME NEW n \in S PROVE FALSE
  OBVIOUS
<1>1. S \subseteq Nat /\ S # {}
  BY PlanKids
<1>2. PICK m \in S : \A k \in S : m <= k
  <2> HIDE DEF S
  <2>1. PICK x \in S : \A y \in S : ~(<<y, x>> \in OpToRel(<, Nat))
    BY <1>1, NatLessThanWellFounded, WFMin
  <2>2. \A y \in S : ~(y < x)
    BY <1>1, <2>1 DEF OpToRel
  <2>3. QED
    BY <1>1, <2>2
<1>3. m \in 2 .. Len(nodes)
  <2>1. DOMAIN nodes = 1 .. Len(nodes) /\ Len(nodes) \in Nat /\ m \in DOMAIN nodes /\ m # 1
    BY DEF IsPlan
  <2>2. QED
    BY <2>1
<1>4. PICK p \in DOMAIN nodes : \E k \in DOMAIN nodes[p].kids : nodes[p].kids[k] = m
  BY <1>3 DEF IsPlan
<1>5. PICK k \in DOMAIN nodes[p].kids : nodes[p].kids[k] = m
  BY <1>4
<1>6. p < m
  BY <1>5, PlanKids
<1>7. p \notin S
  BY <1>1, <1>2, <1>6, PlanKids
<1>8. op[p].state \in {"new", "closed"}
  BY <1>7
<1>9. op[m].state \in {"new", "closed"}
  BY <1>5, <1>8 DEF AtRest, Rests
<1>10. QED
  BY <1>9

\* Whatever the plan: when Execute returns after a successful Open, no operator is
\* left open, whether it answers, fails or runs out of time.
THEOREM AllClosed == Spec => []NothingLeftOpen
<1>1. Init => LifeInv
  BY LifeInvInit
<1>2. LifeInv /\ [Next]_vars => LifeInv'
  BY LifeInvStep
<1>3. LifeInv => NothingLeftOpen
  <2> SUFFICES ASSUME LifeInv, NEW s \in Stmt, pc[s] \in {"answered", "failed", "expired"}
               PROVE  \A n \in DOMAIN ops[s] : ops[s][n].state \in {"new", "closed"}
    BY DEF NothingLeftOpen
  <2> DEFINE nodes == script[s].nodes
  <2>1. Lives(nodes, pc[s], stack[s], reply[s], ops[s])
    BY DEF LifeInv
  <2>2. /\ stack[s] = <<>> /\ Runs(nodes, stack[s], reply[s], ops[s]) /\ ops[s][1].state = "closed"
    BY <2>1, CallsMade DEF Lives, Left
  <2>3. \A i \in 1 .. Len(stack[s]) : FALSE
    BY <2>2
  <2>4. IsPlan(nodes) /\ DOMAIN ops[s] = DOMAIN nodes /\ \A n \in DOMAIN nodes : AtRest(nodes, ops[s], n)
    BY <2>2, <2>3 DEF Runs
  <2>5. QED
    BY <2>2, <2>4, ClosedBelow
<1>4. QED
  BY <1>1, <1>2, <1>3, PTL DEF Spec

-----------------------------------------------------------------------------
(* The values.                                                               *)
Fits(n) == n \in MinInt .. MaxInt

\* What fits is not wrapped.
LEMMA WrappedKeeps ==
  ASSUME NEW n \in MinInt .. MaxInt
  PROVE  Wrapped(n) = n
<1> DEFINE m == 2 * MaxInt + 2
<1>1. MaxInt \in Nat
  BY MaxIntAssumption
<1>2. n - MinInt \in 0 .. m - 1
  BY <1>1 DEF MinInt
<1>3. (n - MinInt) % m = n - MinInt
  BY <1>1, <1>2
<1> QED
  BY <1>1, <1>3 DEF Wrapped, MinInt

\* Value.Add (types.go:169-189) gives the sum when it fits an int64 and an
\* error when it does not.
THEOREM AddIsExact ==
  ASSUME NEW a \in MinInt .. MaxInt, NEW b \in MinInt .. MaxInt
  PROVE  Add(IntValue(a), IntValue(b)) = IF Fits(a + b) THEN IntValue(a + b) ELSE Raised
<1>1. MaxInt \in Nat
  BY MaxIntAssumption
<1>2. AddOverflows(a, b) <=> ~Fits(a + b)
  BY <1>1 DEF AddOverflows, Fits, MinInt
<1>3. Add(IntValue(a), IntValue(b))
        = IF ~AddOverflows(a, b) THEN IntValue(Wrapped(a + b)) ELSE Raised
  BY DEF Add, OnIntegers, IsNull, IsInt, IntValue
<1> QED
  BY <1>2, <1>3, WrappedKeeps DEF Fits

\* Value.Sub (types.go:192-209), the same of the difference.
THEOREM SubIsExact ==
  ASSUME NEW a \in MinInt .. MaxInt, NEW b \in MinInt .. MaxInt
  PROVE  Sub(IntValue(a), IntValue(b)) = IF Fits(a - b) THEN IntValue(a - b) ELSE Raised
<1>1. MaxInt \in Nat
  BY MaxIntAssumption
<1>2. SubOverflows(a, b) <=> ~Fits(a - b)
  BY <1>1 DEF SubOverflows, Fits, MinInt
<1>3. Sub(IntValue(a), IntValue(b))
        = IF ~SubOverflows(a, b) THEN IntValue(Wrapped(a - b)) ELSE Raised
  BY DEF Sub, OnIntegers, IsNull, IsInt, IntValue
<1> QED
  BY <1>2, <1>3, WrappedKeeps DEF Fits

\* A number exceeds a quotient when its product exceeds what was divided.
LEMMA ExceedsQuotient ==
  ASSUME NEW x \in Nat, NEW c \in Nat \ {0}, NEW a \in Int
  PROVE  a > x \div c <=> a * c > x
<1> DEFINE q == x \div c
<1>1. q \in Nat /\ c * q <= x /\ x < c * q + c
  <2>1. x \div c \in Nat /\ x = c * (x \div c) + (x % c) /\ x % c \in 0 .. c - 1
    OBVIOUS
  <2> QED
    BY <2>1
<1>2. ASSUME a >= q + 1 PROVE a * c > x
  <2>1. (a - q - 1) * c >= 0
    BY <1>1, <1>2
  <2>2. (a - q - 1) * c = a * c - c * q - c
    BY <1>1
  <2>3. a * c \in Int /\ c * q \in Int
    BY <1>1
  <2> QED
    BY <1>1, <2>1, <2>2, <2>3
<1>3. ASSUME a <= q PROVE a * c <= x
  <2>1. (q - a) * c >= 0
    BY <1>1, <1>3
  <2>2. (q - a) * c = c * q - a * c
    BY <1>1
  <2>3. a * c \in Int /\ c * q \in Int
    BY <1>1
  <2> QED
    BY <1>1, <2>1, <2>2, <2>3
<1>4. a >= q + 1 \/ a <= q
  BY <1>1
<1>5. a * c \in Int
  OBVIOUS
<1> QED
  BY <1>1, <1>2, <1>3, <1>4, <1>5

\* Value.Mul (types.go:212-229), the same of the product, for all five tests of
\* its guard: they divide, so that no test overflows itself.
THEOREM MulIsExact ==
  ASSUME NEW a \in MinInt .. MaxInt, NEW b \in MinInt .. MaxInt
  PROVE  Mul(IntValue(a), IntValue(b)) = IF Fits(a * b) THEN IntValue(a * b) ELSE Raised
<1>1. MaxInt \in Nat /\ MinInt = -(MaxInt + 1) /\ a \in Int /\ b \in Int /\ a * b \in Int
  BY MaxIntAssumption DEF MinInt
<1>2. MulOverflows(a, b) <=> ~Fits(a * b)
  <2>1. CASE a = 0 \/ b = 0
    <3>1. a * b = 0
      BY <1>1, <2>1
    <3> QED
      BY <1>1, <2>1, <3>1 DEF MulOverflows, Fits
  <2>2. CASE a # 0 /\ b > 0
    <3>1. Quotient(MaxInt, b) = MaxInt \div b /\ Quotient(MinInt, b) = -((MaxInt + 1) \div b)
      BY <1>1, <2>2 DEF Quotient
    <3>2. a > MaxInt \div b <=> a * b > MaxInt
      BY <1>1, <2>2, ExceedsQuotient
    <3>3. -a > (MaxInt + 1) \div b <=> (-a) * b > MaxInt + 1
      BY <1>1, <2>2, ExceedsQuotient
    <3>4. (-a) * b = -(a * b) /\ (MaxInt + 1) \div b \in Int
      BY <1>1, <2>2
    <3>5. MulOverflows(a, b) <=> a > MaxInt \div b \/ a < -((MaxInt + 1) \div b)
      BY <1>1, <2>2, <3>1 DEF MulOverflows
    <3> QED
      BY <1>1, <3>2, <3>3, <3>4, <3>5 DEF Fits
  <2>3. CASE a # 0 /\ b < 0
    <3> DEFINE c == -b
    <3>1. c \in Nat \ {0} /\ a * c = -(a * b) /\ (-a) * c = a * b
      BY <1>1, <2>3
    <3>2. Quotient(MaxInt, b) = -(MaxInt \div c) /\ Quotient(MinInt, b) = (MaxInt + 1) \div c
      BY <1>1, <2>3 DEF Quotient
    <3>3. -a > MaxInt \div c <=> (-a) * c > MaxInt
      BY <1>1, <3>1, ExceedsQuotient
    <3>4. a > (MaxInt + 1) \div c <=> a * c > MaxInt + 1
      BY <1>1, <3>1, ExceedsQuotient
    <3>5. MaxInt \div c \in Int /\ (MaxInt + 1) \div c \in Int
      BY <1>1, <3>1
    <3> HIDE DEF c
    <3>6. b = -1 /\ a = MinInt => a * b > MaxInt
      BY <1>1
    <3>7. b = -1 => ~(a * b < MinInt)
      BY <1>1
    <3>8. MulOverflows(a, b) <=>
            \/ a < -(MaxInt \div c)
            \/ b = -1 /\ a = MinInt
            \/ b # -1 /\ a > (MaxInt + 1) \div c
      BY <1>1, <2>3, <3>2 DEF MulOverflows
    <3>9. a < -(MaxInt \div c) <=> a * b > MaxInt
      BY <1>1, <3>1, <3>3, <3>5
    <3>10. a > (MaxInt + 1) \div c <=> a * b < MinInt
      BY <1>1, <3>1, <3>4, <3>5
    <3> QED
      BY <1>1, <3>6, <3>7, <3>8, <3>9, <3>10 DEF Fits
  <2> QED
    BY <1>1, <2>1, <2>2, <2>3
<1>3. Mul(IntValue(a), IntValue(b))
        = IF ~MulOverflows(a, b) THEN IntValue(Wrapped(a * b)) ELSE Raised
  BY DEF Mul, OnIntegers, IsNull, IsInt, IntValue
<1> QED
  BY <1>2, <1>3, WrappedKeeps DEF Fits

\* A filter with a conjunction keeps the rows that filters with its two parts
\* keep one after the other: what splitConjuncts and joinConjuncts rest on.
THEOREM AndSplits ==
  ASSUME NEW v \in Value, NEW w \in Value
  PROVE  IsTruthy(And(v, w)) <=> IsTruthy(v) /\ IsTruthy(w)
BY DEF IsTruthy, And, TrueValue, FalseValue, NullValue, BoolValue

\* The simplifications of foldExpr keep a truth value (constant_folding.go:67-92
\* and 101-105).
THEOREM SimplificationsKeep ==
  ASSUME NEW v \in Truth
  PROVE  /\ And(v, TrueValue) = v /\ And(TrueValue, v) = v
         /\ Or(v, FalseValue) = v /\ Or(FalseValue, v) = v
         /\ And(v, FalseValue) = FalseValue /\ And(FalseValue, v) = FalseValue
         /\ Or(v, TrueValue) = TrueValue /\ Or(TrueValue, v) = TrueValue
         /\ Not(Not(v)) = v
BY DEF Truth, And, Or, Not, IsNull, IsBool, TrueValue, FalseValue, NullValue, BoolValue
=============================================================================
