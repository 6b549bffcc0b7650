---------------------------- MODULE TranscriptProofs ----------------------------
(***************************************************************************)
(* What TLAPS proves of Transcript.                                        *)
(***************************************************************************)
EXTENDS Transcript, NaturalsInduction, WellFoundedInduction, SequenceTheorems, FiniteSetTheorems, TLAPS

---------------------------------------------------------------------------
\* Induction on a number as a fact about a set of numbers.
LEMMA UpTo ==
  ASSUME NEW n \in Nat, NEW S, 0 \in S, \A i \in 0..(n - 1) : i \in S => i + 1 \in S
  PROVE  \A i \in 0..n : i \in S
<1> DEFINE Missing == {i \in 0..n : i \notin S}
       Less == {p \in Nat \X Nat : p[1] < p[2]}
<1> SUFFICES ASSUME Missing # {} PROVE FALSE
  OBVIOUS
<1>1. Less = OpToRel(<, Nat)
  BY DEF OpToRel
<1>2. IsWellFoundedOn(Less, Nat)
  BY <1>1, NatLessThanWellFounded
<1>3. Missing \subseteq Nat
  OBVIOUS
<1>4. PICK i \in Missing : \A j \in Missing : <<j, i>> \notin Less
  <2> HIDE DEF Missing, Less
  <2> QED BY <1>2, <1>3, WFMin
<1>5. ASSUME NEW j \in Missing, j < i PROVE FALSE
  <2>1. <<j, i>> \in Less
    BY <1>5
  <2> QED BY <2>1, <1>4
<1> QED
  BY <1>5

---------------------------------------------------------------------------
(* A fold is given to the provers as a function: the step `op` is a        *)
(* function of what was folded so far, in A, and of the next member of the *)
(* sequence, in E.  Reduced is the end of the sequence of intermediate     *)
(* results.                                                                *)

Folding(A, E, op, b, s) == op \in [A \X E -> A] /\ b \in A /\ s \in Seq(E)

Trace(A, op, b, s, f) ==
  f[0] = b /\ \A i \in 1..Len(s) : f[i - 1] \in A => f[i] = op[<<f[i - 1], s[i]>>]

Reduced(A, op, b, s) == (CHOOSE f \in [0..Len(s) -> A] : Trace(A, op, b, s, f))[Len(s)]

\* The intermediate results exist ...
LEMMA TraceExists ==
  ASSUME NEW A, NEW E, NEW op, NEW b, NEW s, Folding(A, E, op, b, s)
  PROVE  \E f \in [0..Len(s) -> A] : Trace(A, op, b, s, f)
<1> USE DEF Folding
<1> DEFINE n == Len(s)
           Good(k, f) == /\ f \in [0..k -> A] /\ f[0] = b
                         /\ \A i \in 1..k : f[i] = op[<<f[i - 1], s[i]>>]
           Done == {k \in 0..n : \E f : Good(k, f)}
<1>1. 0 \in Done
  <2>1. Good(0, [i \in 0..0 |-> b])
    OBVIOUS
  <2>2. 0 \in 0..n
    OBVIOUS
  <2> HIDE DEF Good
  <2> QED BY <2>1, <2>2
<1>2. ASSUME NEW k \in 0..(n - 1), k \in Done PROVE k + 1 \in Done
  <2>1. PICK f : Good(k, f)
    BY <1>2
  <2> DEFINE g == [i \in 0..(k + 1) |-> IF i = k + 1 THEN op[<<f[k], s[k + 1]>>] ELSE f[i]]
  <2>2. f[k] \in A /\ s[k + 1] \in E
    BY <2>1
  <2>3. op[<<f[k], s[k + 1]>>] \in A
    BY <2>2
  <2>4. g \in [0..(k + 1) -> A] /\ g[0] = b
    BY <2>1, <2>3
  <2>5. ASSUME NEW i \in 1..(k + 1) PROVE g[i] = op[<<g[i - 1], s[i]>>]
    <3>1. CASE i = k + 1
      <4>1. g[i] = op[<<f[k], s[k + 1]>>] /\ g[i - 1] = f[k]
        BY <3>1
      <4> QED BY <4>1, <3>1
    <3>2. CASE i # k + 1
      <4>1. i \in 1..k /\ i - 1 \in 0..k /\ i - 1 # k + 1
        BY <3>2
      <4>2. g[i] = f[i] /\ g[i - 1] = f[i - 1]
        BY <4>1, <3>2
      <4> QED BY <4>1, <4>2, <2>1
    <3> QED BY <3>1, <3>2
  <2> HIDE DEF g
  <2>6. Good(k + 1, g)
    BY <2>4, <2>5
  <2>7. k + 1 \in 0..n
    OBVIOUS
  <2> HIDE DEF Good
  <2> QED BY <2>6, <2>7
<1>3. n \in Done
  <2> HIDE DEF Done
  <2>1. n \in Nat
    OBVIOUS
  <2>2. \A i \in 0..n : i \in Done
    BY <1>1, <1>2, <2>1, UpTo
  <2> QED BY <2>1, <2>2
<1> QED
  BY <1>3 DEF Trace

\* ... and there is one way to go through them.
LEMMA TraceUnique ==
  ASSUME NEW A, NEW E, NEW op, NEW b, NEW s, Folding(A, E, op, b, s),
         NEW f, NEW g, Trace(A, op, b, s, f), Trace(A, op, b, s, g)
  PROVE  \A i \in 0..Len(s) : f[i] = g[i] /\ f[i] \in A
<1> USE DEF Folding, Trace
<1> DEFINE Same == {i \in 0..Len(s) : f[i] = g[i] /\ f[i] \in A}
<1>1. 0 \in Same
  OBVIOUS
<1>2. ASSUME NEW k \in 0..(Len(s) - 1), k \in Same PROVE k + 1 \in Same
  <2>1. k + 1 \in 1..Len(s) /\ (k + 1) - 1 = k
    OBVIOUS
  <2>2. s[k + 1] \in E
    BY <2>1
  <2>3. op[<<f[k], s[k + 1]>>] \in A
    BY <2>2, <1>2
  <2>4. f[k + 1] = op[<<f[k], s[k + 1]>>] /\ g[k + 1] = op[<<g[k], s[k + 1]>>]
    BY <2>1, <1>2
  <2> QED BY <2>3, <2>4, <1>2
<1>3. \A i \in 0..Len(s) : i \in Same
  <2> HIDE DEF Same
  <2>1. Len(s) \in Nat
    OBVIOUS
  <2> QED BY <1>1, <1>2, <2>1, UpTo
<1> QED BY <1>3

\* Any sequence of intermediate results leads to Reduced, which is in A.
LEMMA ReducedIs ==
  ASSUME NEW A, NEW E, NEW op, NEW b, NEW s, Folding(A, E, op, b, s),
         NEW f, Trace(A, op, b, s, f)
  PROVE  f[Len(s)] = Reduced(A, op, b, s) /\ f[Len(s)] \in A
<1> DEFINE g == CHOOSE h \in [0..Len(s) -> A] : Trace(A, op, b, s, h)
<1>1. Trace(A, op, b, s, g)
  BY TraceExists
<1>2. Reduced(A, op, b, s) = g[Len(s)]
  BY DEF Reduced
<1> HIDE DEF g
<1>3. \A i \in 0..Len(s) : f[i] = g[i] /\ f[i] \in A
  BY <1>1, TraceUnique
<1>4. Len(s) \in 0..Len(s)
  BY DEF Folding
<1> QED BY <1>2, <1>3, <1>4

\* A fold begins with b ...
LEMMA ReducedEmpty ==
  ASSUME NEW A, NEW E, NEW op, NEW b, Folding(A, E, op, b, <<>>)
  PROVE  Reduced(A, op, b, <<>>) = b
<1> DEFINE f == [i \in 0..0 |-> b]
<1>1. f[0] = b /\ Len(<<>>) = 0 /\ Trace(A, op, b, <<>>, f)
  BY DEF Trace
<1> HIDE DEF f
<1> QED BY <1>1, ReducedIs

\* ... stays in A, and makes one more step with each member.
LEMMA ReducedAppend ==
  ASSUME NEW A, NEW E, NEW op, NEW b, NEW s, Folding(A, E, op, b, s), NEW x \in E
  PROVE  /\ Reduced(A, op, b, s) \in A
         /\ Reduced(A, op, b, Append(s, x)) = op[<<Reduced(A, op, b, s), x>>]
<1>1. PICK f \in [0..Len(s) -> A] : Trace(A, op, b, s, f)
  BY TraceExists
<1>2. f[Len(s)] = Reduced(A, op, b, s) /\ f[Len(s)] \in A
  BY <1>1, ReducedIs
<1> DEFINE n == Len(s)
           t == Append(s, x)
           g == [i \in 0..(n + 1) |-> IF i = n + 1 THEN op[<<f[n], x>>] ELSE f[i]]
<1>3. /\ t \in Seq(E) /\ Len(t) = n + 1 /\ n \in Nat
      /\ t[n + 1] = x /\ \A i \in 1..n : t[i] = s[i]
  BY DEF Folding
<1>4. g[0] = b /\ g[n + 1] = op[<<f[n], x>>]
  BY <1>1, <1>3 DEF Trace
<1>5. ASSUME NEW i \in 1..(n + 1) PROVE g[i] = op[<<g[i - 1], t[i]>>]
  <2>1. CASE i = n + 1
    <3>1. g[i] = op[<<f[n], x>>] /\ g[i - 1] = f[n] /\ t[i] = x
      BY <2>1, <1>3
    <3> QED BY <3>1
  <2>2. CASE i # n + 1
    <3>1. i \in 1..n /\ i - 1 \in 0..n /\ i - 1 # n + 1
      BY <2>2, <1>3
    <3>2. g[i] = f[i] /\ g[i - 1] = f[i - 1] /\ t[i] = s[i]
      BY <3>1, <2>2, <1>3
    <3>3. f[i - 1] \in A
      BY <3>1, <1>1
    <3> QED BY <3>1, <3>2, <3>3, <1>1 DEF Trace
  <2> QED BY <2>1, <2>2
<1>6. Trace(A, op, b, t, g)
  <2> HIDE DEF g, t
  <2> QED BY <1>3, <1>4, <1>5 DEF Trace
<1>7. Folding(A, E, op, b, t)
  BY <1>3 DEF Folding
<1>8. g[Len(t)] = Reduced(A, op, b, t)
  <2> HIDE DEF g, t
  <2> QED BY <1>6, <1>7, ReducedIs
<1> QED BY <1>2, <1>3, <1>4, <1>8

---------------------------------------------------------------------------
(* FoldLeft goes down the sets of places, from the greatest place.         *)

\* A set of places that is not empty has a greatest one.
LEMMA MaxPlace ==
  ASSUME NEW n \in Nat, NEW t \in SUBSET (1..n), t # {}
  PROVE  Max(t) \in t /\ \A i \in t : Max(t) >= i
<1> DEFINE Top(u) == \E x \in u : \A y \in u : x >= y
           Good == {k \in 0..n : \A u \in SUBSET (1..k) : u # {} => Top(u)}
<1>1. 0 \in Good
  <2>1. \A u \in SUBSET (1..0) : u = {}
    OBVIOUS
  <2>2. 0 \in 0..n
    OBVIOUS
  <2> HIDE DEF Top
  <2> QED BY <2>1, <2>2
<1>2. ASSUME NEW k \in 0..(n - 1), k \in Good PROVE k + 1 \in Good
  <2>1. ASSUME NEW u \in SUBSET (1..(k + 1)), u # {} PROVE Top(u)
    <3>1. CASE k + 1 \in u
      BY <3>1
    <3>2. CASE k + 1 \notin u
      <4>1. u \in SUBSET (1..k)
        BY <3>2
      <4> QED BY <4>1, <1>2, <2>1
    <3> QED BY <3>1, <3>2
  <2>2. k + 1 \in 0..n
    OBVIOUS
  <2> HIDE DEF Top
  <2> QED BY <2>1, <2>2
<1>3. n \in Good
  <2> HIDE DEF Good
  <2> QED BY <1>1, <1>2, UpTo
<1>4. Top(t)
  BY <1>3
<1> QED
  BY <1>4 DEF Max

\* And a least one: the numbers are turned around.
LEMMA MinPlace ==
  ASSUME NEW n \in Nat, NEW t \in SUBSET (1..n), t # {}
  PROVE  Min(t) \in t /\ \A i \in t : Min(t) <= i
<1> DEFINE u == {n + 1 - i : i \in t}
<1>1. u \in SUBSET (1..n) /\ u # {}
  <2>1. \A i \in t : n + 1 - i \in 1..n
    OBVIOUS
  <2>2. PICK i \in t : TRUE
    OBVIOUS
  <2>3. n + 1 - i \in u
    BY <2>2
  <2> QED BY <2>1, <2>3
<1> HIDE DEF u
<1>2. Max(u) \in u /\ \A i \in u : Max(u) >= i
  BY <1>1, MaxPlace
<1>3. PICK x \in t : Max(u) = n + 1 - x
  BY <1>2 DEF u
<1>4. \A i \in t : x <= i
  <2>1. ASSUME NEW i \in t PROVE x <= i
    <3>1. n + 1 - i \in u
      BY DEF u
    <3> QED BY <3>1, <1>2, <1>3
  <2> QED BY <2>1
<1>5. \E y \in t : \A i \in t : y =< i
  BY <1>4
<1> QED BY <1>5 DEF Min

\* Its step at the places t, as a function on the sets of places.
Descent(A, op, b, s, g) ==
  /\ g[{}] = b
  /\ \A t \in SUBSET (1..Len(s)) :
       t # {} /\ g[t \ {Max(t)}] \in A => g[t] = op[<<g[t \ {Max(t)}], s[Max(t)]>>]

\* There is a function that follows the descent, with values in A ...
LEMMA DescentExists ==
  ASSUME NEW A, NEW E, NEW op, NEW b, NEW s, Folding(A, E, op, b, s)
  PROVE  \E G \in [SUBSET (1..Len(s)) -> A] : Descent(A, op, b, s, G)
<1> USE DEF Folding
<1> DEFINE n == Len(s)
           Value(G, t) == IF t = {} THEN b ELSE op[<<G[t \ {Max(t)}], s[Max(t)]>>]
           Good(k, G) == /\ G \in [SUBSET (1..k) -> A]
                         /\ \A t \in SUBSET (1..k) : G[t] = Value(G, t)
           Done == {k \in 0..n : \E G : Good(k, G)}
<1>0. n \in Nat
  OBVIOUS
<1>1. 0 \in Done
  <2> DEFINE G == [t \in SUBSET (1..0) |-> b]
  <2>1. G \in [SUBSET (1..0) -> A] /\ \A t \in SUBSET (1..0) : t = {} /\ G[t] = b
    OBVIOUS
  <2> HIDE DEF G
  <2>2. Good(0, G)
    BY <2>1
  <2> HIDE DEF Good
  <2> QED BY <2>2, <1>0
<1>2. ASSUME NEW k \in 0..(n - 1), k \in Done PROVE k + 1 \in Done
  <2>1. PICK G : Good(k, G)
    BY <1>2
  <2> DEFINE H == [t \in SUBSET (1..(k + 1)) |->
                     IF k + 1 \in t THEN op[<<G[t \ {k + 1}], s[k + 1]>>] ELSE G[t]]
  <2>2. s[k + 1] \in E
    BY <1>0
  <2>3. ASSUME NEW t \in SUBSET (1..(k + 1)) PROVE H[t] \in A /\ H[t] = Value(H, t)
    <3>1. CASE k + 1 \in t
      <4>1. Max(t) = k + 1
        <5>1. Max(t) \in t /\ Max(t) >= k + 1
          BY <3>1, MaxPlace, k + 1 \in Nat
        <5>2. Max(t) \in 1..(k + 1)
          BY <5>1
        <5> QED BY <5>1, <5>2
      <4>2. t \ {k + 1} \in SUBSET (1..k) /\ t \ {k + 1} \in SUBSET (1..(k + 1))
        OBVIOUS
      <4>3. H[t] = op[<<G[t \ {k + 1}], s[k + 1]>>] /\ H[t \ {k + 1}] = G[t \ {k + 1}]
        BY <3>1, <4>2
      <4>4. G[t \ {k + 1}] \in A
        BY <4>2, <2>1
      <4> HIDE DEF H
      <4> QED BY <4>1, <4>3, <4>4, <2>2, <3>1
    <3>2. CASE k + 1 \notin t
      <4>1. t \in SUBSET (1..k)
        BY <3>2
      <4>2. H[t] = G[t] /\ H[t \ {Max(t)}] = G[t \ {Max(t)}]
        <5>1. t \ {Max(t)} \in SUBSET (1..(k + 1)) /\ k + 1 \notin t \ {Max(t)}
          BY <3>2
        <5> QED BY <5>1, <3>2
      <4>3. G[t] \in A /\ G[t] = Value(G, t)
        BY <4>1, <2>1
      <4> HIDE DEF H
      <4> QED BY <4>2, <4>3
    <3> QED BY <3>1, <3>2
  <2>4. H \in [SUBSET (1..(k + 1)) -> A]
    BY <2>3
  <2> HIDE DEF H
  <2>5. Good(k + 1, H)
    BY <2>3, <2>4
  <2>6. k + 1 \in 0..n
    BY <1>0
  <2> HIDE DEF Good
  <2> QED BY <2>5, <2>6
<1>3. \A i \in 0..n : i \in Done
  <2> HIDE DEF Done
  <2> QED BY <1>0, <1>1, <1>2, UpTo
<1>4. n \in Done
  <2> HIDE DEF Done
  <2> QED BY <1>3, <1>0
<1>5. PICK G : Good(n, G)
  BY <1>4
<1> QED
  BY <1>5 DEF Descent

\* ... and whoever follows it comes to Reduced.
LEMMA DescentIsReduced ==
  ASSUME NEW A, NEW E, NEW op, NEW b, NEW s, Folding(A, E, op, b, s),
         NEW g, Descent(A, op, b, s, g)
  PROVE  g[1..Len(s)] = Reduced(A, op, b, s) /\ g[1..Len(s)] \in A
<1> USE DEF Descent
<1> DEFINE n == Len(s)
           f == [i \in 0..n |-> g[1..i]]
<1>0. n \in Nat
  BY DEF Folding
<1>1. f[0] = b
  <2>1. 1..0 = {}
    OBVIOUS
  <2> QED BY <2>1, <1>0
<1>2. ASSUME NEW i \in 1..n, f[i - 1] \in A PROVE f[i] = op[<<f[i - 1], s[i]>>]
  <2>1. 1..i \in SUBSET (1..n) /\ i \in 1..i
    BY <1>0
  <2>2. Max(1..i) = i
    <3>1. Max(1..i) \in 1..i /\ Max(1..i) >= i
      BY <2>1, <1>0, MaxPlace
    <3> QED BY <3>1
  <2>3. (1..i) \ {i} = 1..(i - 1)
    OBVIOUS
  <2>4. f[i] = g[1..i] /\ f[i - 1] = g[1..(i - 1)]
    BY <1>0
  <2> HIDE DEF f
  <2> QED BY <2>1, <2>2, <2>3, <2>4, <1>2
<1>3. Trace(A, op, b, s, f)
  <2> HIDE DEF f
  <2> QED BY <1>1, <1>2 DEF Trace
<1>4. f[n] = g[1..n]
  BY <1>0
<1> HIDE DEF f
<1> QED
  BY <1>3, <1>4, ReducedIs

---------------------------------------------------------------------------
(* The types of records, events and chat messages.                         *)

Texts == Seq(Nat \X Nat \X Nat)
Slots == Nat \X Nat
PartRecords == [kind : Kinds, n : 1..2]
Rows == [type : {"thinking", "text", "tool"}, slot : Slots, text : Texts]
ToolStates == [status : {"running", "complete", "error"}, recorded : BOOLEAN, interrupted : BOOLEAN]
ToolSets == UNION {[T -> ToolStates] : T \in SUBSET Slots}
Stops == {"", "stop", "toolUse", "aborted", "error"}

UserRecords == [role : {"user"}, text : Texts]
AgentRecords == [role : {"assistant"}, m : Nat, parts : Seq(PartRecords), stop : Stops]
ResultRecords == [role : {"toolResult"}, tool : Slots, error : BOOLEAN]
Records == UserRecords \cup AgentRecords \cup ResultRecords

MessageEvents == [type : MessageTypes, record : UserRecords \cup AgentRecords]
ToolEvents == [type : ToolTypes, tool : Slots, error : BOOLEAN]
EndEvents == [type : {"agent_end"}, willRetry : BOOLEAN, record : Records]
Events == MessageEvents \cup ToolEvents \cup EndEvents \cup {Settled}

ChatRecords ==
  [id : Nat, role : {"user", "assistant"}, text : Texts, streaming : BOOLEAN, tools : ToolSets,
   work : Seq(Rows), workOffset : Nat \cup {-1}, stopReason : Stops, interrupted : BOOLEAN,
   error : BOOLEAN]

\* A message whose tools have their rows; a question has none, and none is written.
Sound(c) ==
  /\ c.workOffset <= Len(c.work)
  /\ \A t \in DOMAIN c.tools : Continued(ToolRow(t), c.work)
  /\ c.role = "user" => ~c.streaming /\ DOMAIN c.tools = {}
  /\ c.id # 0 => c.role = "user"

Chats == {c \in ChatRecords : Sound(c)}

---------------------------------------------------------------------------
(* The content of a message of the agent.                                  *)

\* Thought and Prose are texts.
LEMMA PartTexts ==
  ASSUME NEW m \in Nat, NEW j \in Nat, NEW part \in PartRecords
  PROVE  Thought(m, j, part) \in Texts /\ Prose(m, j, part) \in Texts
<1>1. part.n \in Nat /\ part.kind \in Kinds
  BY DEF PartRecords
<1>2. /\ <<>> \in Texts /\ <<<<m, j, part.n>>>> \in Texts /\ <<<<m, j, 1>>>> \in Texts
  BY <1>1 DEF Texts
<1>3. Thought(m, j, part) \in Texts
  BY <1>1, <1>2, Zenon DEF Thought, Kinds
<1>4. Prose(m, j, part) \in Texts
  BY <1>2, Zenon DEF Prose
<1> QED BY <1>3, <1>4

\* FlattenSeq concatenates, from the left.
Joined(S, seqs) == Reduced(Seq(S), [p \in Seq(S) \X Seq(S) |-> p[1] \o p[2]], <<>>, seqs)

LEMMA FlattenIsJoined ==
  ASSUME NEW S, NEW seqs \in Seq(Seq(S))
  PROVE  FlattenSeq(seqs) = Joined(S, seqs) /\ FlattenSeq(seqs) \in Seq(S)
<1> DEFINE op == [p \in Seq(S) \X Seq(S) |-> p[1] \o p[2]]
           n == Len(seqs)
           Step(g) == [i \in 1..n |-> IF i = 1 THEN seqs[i] ELSE g[i - 1] \o seqs[i]]
<1>1. Folding(Seq(S), Seq(S), op, <<>>, seqs) /\ n \in Nat
  BY DEF Folding
<1>0. ASSUME NEW i \in 1..n PROVE seqs[i] \in Seq(S)
  <2> DEFINE T == Seq(S)
  <2>1. seqs \in Seq(T)
    OBVIOUS
  <2> HIDE DEF T
  <2>2. seqs[i] \in T
    BY <2>1, ElementOfSeq
  <2> QED BY <2>2 DEF T
<1>2. PICK f \in [0..n -> Seq(S)] : Trace(Seq(S), op, <<>>, seqs, f)
  BY <1>1, TraceExists
<1>3. f[n] = Joined(S, seqs) /\ f[n] \in Seq(S)
  BY <1>1, <1>2, ReducedIs DEF Joined
<1>4. CASE n = 0
  <2>1. seqs = <<>> /\ FlattenSeq(seqs) = seqs
    BY <1>4 DEF FlattenSeq
  <2>2. f[0] = <<>>
    BY <1>2 DEF Trace
  <2> QED BY <2>1, <2>2, <1>3, <1>4
<1>5. CASE n # 0
  <2> DEFINE h == [i \in 1..n |-> f[i]]
  <2>1. ASSUME NEW i \in 1..n PROVE f[i] = f[i - 1] \o seqs[i] /\ f[i - 1] \in Seq(S) /\ seqs[i] \in Seq(S)
    <3>0. i - 1 \in 0..n
      BY <1>1
    <3>1. f[i - 1] \in Seq(S) /\ seqs[i] \in Seq(S)
      BY <1>2, <1>0, <3>0
    <3>2. f[i] = op[<<f[i - 1], seqs[i]>>]
      BY <1>2, <3>1 DEF Trace
    <3> QED BY <3>1, <3>2
  <2>2. h = Step(h)
    <3>1. ASSUME NEW i \in 1..n PROVE h[i] = IF i = 1 THEN seqs[i] ELSE h[i - 1] \o seqs[i]
      <4>1. CASE i = 1
        <5>1. f[0] = <<>>
          BY <1>2 DEF Trace
        <5>4. i - 1 = 0
          BY <4>1
        <5>2. f[i] = <<>> \o seqs[i] /\ seqs[i] \in Seq(S)
          BY <5>1, <5>4, <2>1
        <5>3. f[i] = seqs[i]
          BY <5>2, ConcatEmptySeq
        <5> QED BY <5>3, <4>1
      <4>2. CASE i # 1
        <5>1. i - 1 \in 1..n
          BY <4>2
        <5> QED BY <5>1, <2>1, <4>2
      <4> QED BY <4>1, <4>2
    <3>2. h = [i \in 1..n |-> h[i]]
      OBVIOUS
    <3> HIDE DEF h
    <3> QED BY <3>1, <3>2
  <2> DEFINE g == CHOOSE x : x = Step(x)
  <2>3. g = Step(g)
    <3> HIDE DEF h, Step
    <3> QED BY <2>2
  <2>4. FlattenSeq(seqs) = g[n]
    BY <1>5 DEF FlattenSeq
  <2> HIDE DEF g
  <2> DEFINE k == [i \in 0..n |-> IF i = 0 THEN <<>> ELSE g[i]]
  <2>5. ASSUME NEW i \in 1..n, k[i - 1] \in Seq(S) PROVE k[i] = op[<<k[i - 1], seqs[i]>>]
    <3>1. k[i] = g[i] /\ seqs[i] \in Seq(S)
      BY <1>1, <1>0
    <3>0. op[<<k[i - 1], seqs[i]>>] = k[i - 1] \o seqs[i]
      <4> HIDE DEF k
      <4> QED BY <3>1, <2>5
    <3>2. g[i] = IF i = 1 THEN seqs[i] ELSE g[i - 1] \o seqs[i]
      BY <2>3
    <3>3. CASE i = 1
      <4>1. k[i - 1] = <<>>
        BY <3>3
      <4>2. <<>> \o seqs[i] = seqs[i]
        BY <3>1, ConcatEmptySeq
      <4> HIDE DEF k, op
      <4> QED BY <4>1, <4>2, <3>0, <3>1, <3>2, <3>3
    <3>4. CASE i # 1
      <4>1. k[i - 1] = g[i - 1]
        BY <3>4
      <4> HIDE DEF k, op
      <4> QED BY <4>1, <3>0, <3>1, <3>2, <3>4
    <3> QED BY <3>3, <3>4
  <2>6. k[0] = <<>> /\ k[n] = g[n]
    BY <1>1, <1>5
  <2>7. Trace(Seq(S), op, <<>>, seqs, k)
    <3> HIDE DEF k, op
    <3> QED BY <2>5, <2>6 DEF Trace
  <2> HIDE DEF k
  <2> QED BY <1>1, <2>4, <2>6, <2>7, ReducedIs DEF Joined
<1> QED BY <1>4, <1>5

\* The fold of getWork.
Assembled(placed) == FoldLeft(AddPart, <<>>, placed)

\* normalizeMessages follows the descent of FoldLeft, with the step AddRecord.
LEMMA NormalizeFold ==
  ASSUME NEW A, NEW E, NEW op, NEW s, Folding(A, E, op, <<>>, s),
         \A a \in A, x \in E : op[<<a, x>>] = AddRecord(a, x)
  PROVE  normalizeMessages(s) = Reduced(A, op, <<>>, s)
<1> DEFINE n == Len(s)
           Step(g) == [t \in SUBSET DOMAIN s |->
                         IF t = {} THEN <<>> ELSE AddRecord(g[t \ {Max(t)}], s[Max(t)])]
<1>1. n \in Nat /\ DOMAIN s = 1..n /\ \A i \in 1..n : s[i] \in E
  BY DEF Folding
<1>3. ASSUME NEW t \in SUBSET (1..n), t # {} PROVE s[Max(t)] \in E
  <2>1. Max(t) \in 1..n
    BY <1>1, <1>3, MaxPlace
  <2> QED BY <1>1, <2>1
<1>4. PICK G \in [SUBSET (1..n) -> A] : Descent(A, op, <<>>, s, G)
  BY <1>1, DescentExists
<1>5. ASSUME NEW t \in SUBSET (1..n), t # {}
      PROVE  G[t] = AddRecord(G[t \ {Max(t)}], s[Max(t)])
  <2>1. t \ {Max(t)} \in SUBSET (1..n)
    OBVIOUS
  <2>2. G[t \ {Max(t)}] \in A
    BY <2>1, <1>4
  <2>3. G[t] = op[<<G[t \ {Max(t)}], s[Max(t)]>>]
    BY <1>4, <1>5 DEF Descent
  <2> QED BY <2>2, <2>3, <1>3, <1>5
<1>6. G = Step(G)
  <2>1. G[{}] = <<>>
    BY <1>4 DEF Descent
  <2>2. G = [t \in SUBSET (1..n) |-> G[t]]
    BY <1>4
  <2> QED BY <1>1, <1>5, <2>1, <2>2
<1> DEFINE g == CHOOSE h : h = Step(h)
<1>7. g = Step(g)
  <2> HIDE DEF Step
  <2> QED BY <1>6
<1>8. normalizeMessages(s) = g[DOMAIN s]
  BY DEF FoldLeft, MapThenFoldSet, normalizeMessages
<1> HIDE DEF g
<1>9. g[{}] = <<>>
  BY <1>1, <1>7
<1>10. ASSUME NEW t \in SUBSET (1..n), t # {} /\ g[t \ {Max(t)}] \in A
       PROVE  g[t] = op[<<g[t \ {Max(t)}], s[Max(t)]>>]
  <2>1. g[t] = AddRecord(g[t \ {Max(t)}], s[Max(t)])
    BY <1>1, <1>7, <1>10
  <2> QED BY <2>1, <1>3, <1>10
<1>11. Descent(A, op, <<>>, s, g)
  BY <1>9, <1>10 DEF Descent
<1>12. g[1..n] = Reduced(A, op, <<>>, s)
  BY <1>1, <1>11, DescentIsReduced
<1> QED
  BY <1>1, <1>8, <1>12

\* So it begins with b, stays in A, and makes a step with each further member.
LEMMA NormalizeFoldSteps ==
  ASSUME NEW A, NEW E, <<>> \in A, NEW s \in Seq(E),
         \A a \in A, x \in E : AddRecord(a, x) \in A
  PROVE  /\ normalizeMessages(<<>>) = <<>>
         /\ normalizeMessages(s) \in A
         /\ \A y \in E : normalizeMessages(Append(s, y)) = AddRecord(normalizeMessages(s), y)
<1> DEFINE op == [p \in A \X E |-> AddRecord(p[1], p[2])]
<1>0. op \in [A \X E -> A] /\ \A a \in A, x \in E : op[<<a, x>>] = AddRecord(a, x)
  OBVIOUS
<1> HIDE DEF op
<1>5. ASSUME NEW z \in Seq(E)
      PROVE  Folding(A, E, op, <<>>, z) /\ normalizeMessages(z) = Reduced(A, op, <<>>, z)
  <2>1. Folding(A, E, op, <<>>, z)
    BY <1>0 DEF Folding
  <2> QED BY <2>1, <1>0, NormalizeFold
<1>1. Folding(A, E, op, <<>>, s) /\ normalizeMessages(s) = Reduced(A, op, <<>>, s)
  BY <1>5
<1>2. normalizeMessages(<<>>) = <<>>
  <2>1. <<>> \in Seq(E)
    OBVIOUS
  <2>2. Folding(A, E, op, <<>>, <<>>) /\ normalizeMessages(<<>>) = Reduced(A, op, <<>>, <<>>)
    BY <2>1, <1>5
  <2> QED BY <2>2, ReducedEmpty
<1>3. normalizeMessages(s) \in A
  <2>1. \E f \in [0..Len(s) -> A] : Trace(A, op, <<>>, s, f)
    BY <1>1, TraceExists
  <2> QED BY <1>1, <2>1, ReducedIs
<1>4. ASSUME NEW y \in E
      PROVE  normalizeMessages(Append(s, y)) = AddRecord(normalizeMessages(s), y)
  <2>1. Append(s, y) \in Seq(E)
    OBVIOUS
  <2>2. normalizeMessages(Append(s, y)) = Reduced(A, op, <<>>, Append(s, y))
    BY <2>1, <1>5
  <2>3. op[<<normalizeMessages(s), y>>] = AddRecord(normalizeMessages(s), y)
    BY <1>0, <1>3
  <2>4. Reduced(A, op, <<>>, Append(s, y)) = op[<<Reduced(A, op, <<>>, s), y>>]
    BY <1>1, ReducedAppend
  <2> QED BY <1>1, <2>2, <2>3, <2>4
<1> QED BY <1>2, <1>3, <1>4

\* ApplyAll follows the descent of FoldLeft, with the step applyAgentEvent.
LEMMA ApplyFold ==
  ASSUME NEW A, NEW E, NEW op, NEW b, NEW s, Folding(A, E, op, b, s),
         \A a \in A, x \in E : op[<<a, x>>] = applyAgentEvent(a, x)
  PROVE  ApplyAll(b, s) = Reduced(A, op, b, s)
<1> DEFINE n == Len(s)
           Step(g) == [t \in SUBSET DOMAIN s |->
                         IF t = {} THEN b ELSE applyAgentEvent(g[t \ {Max(t)}], s[Max(t)])]
<1>1. n \in Nat /\ DOMAIN s = 1..n /\ \A i \in 1..n : s[i] \in E
  BY DEF Folding
<1>3. ASSUME NEW t \in SUBSET (1..n), t # {} PROVE s[Max(t)] \in E
  <2>1. Max(t) \in 1..n
    BY <1>1, <1>3, MaxPlace
  <2> QED BY <1>1, <2>1
<1>4. PICK G \in [SUBSET (1..n) -> A] : Descent(A, op, b, s, G)
  BY <1>1, DescentExists
<1>5. ASSUME NEW t \in SUBSET (1..n), t # {}
      PROVE  G[t] = applyAgentEvent(G[t \ {Max(t)}], s[Max(t)])
  <2>1. t \ {Max(t)} \in SUBSET (1..n)
    OBVIOUS
  <2>2. G[t \ {Max(t)}] \in A
    BY <2>1, <1>4
  <2>3. G[t] = op[<<G[t \ {Max(t)}], s[Max(t)]>>]
    BY <1>4, <1>5 DEF Descent
  <2> QED BY <2>2, <2>3, <1>3, <1>5
<1>6. G = Step(G)
  <2>1. G[{}] = b
    BY <1>4 DEF Descent
  <2>2. G = [t \in SUBSET (1..n) |-> G[t]]
    BY <1>4
  <2> QED BY <1>1, <1>5, <2>1, <2>2
<1> DEFINE g == CHOOSE h : h = Step(h)
<1>7. g = Step(g)
  <2> HIDE DEF Step
  <2> QED BY <1>6
<1>8. ApplyAll(b, s) = g[DOMAIN s]
  BY DEF FoldLeft, MapThenFoldSet, ApplyAll
<1> HIDE DEF g
<1>9. g[{}] = b
  BY <1>1, <1>7
<1>10. ASSUME NEW t \in SUBSET (1..n), t # {} /\ g[t \ {Max(t)}] \in A
       PROVE  g[t] = op[<<g[t \ {Max(t)}], s[Max(t)]>>]
  <2>1. g[t] = applyAgentEvent(g[t \ {Max(t)}], s[Max(t)])
    BY <1>1, <1>7, <1>10
  <2> QED BY <2>1, <1>3, <1>10
<1>11. Descent(A, op, b, s, g)
  BY <1>9, <1>10 DEF Descent
<1>12. g[1..n] = Reduced(A, op, b, s)
  BY <1>1, <1>11, DescentIsReduced
<1> QED
  BY <1>1, <1>8, <1>12

\* So it begins with b, stays in A, and makes a step with each further member.
LEMMA ApplyFoldSteps ==
  ASSUME NEW A, NEW E, NEW b \in A, NEW s \in Seq(E),
         \A a \in A, x \in E : applyAgentEvent(a, x) \in A
  PROVE  /\ ApplyAll(b, <<>>) = b
         /\ ApplyAll(b, s) \in A
         /\ \A y \in E : ApplyAll(b, Append(s, y)) = applyAgentEvent(ApplyAll(b, s), y)
<1> DEFINE op == [p \in A \X E |-> applyAgentEvent(p[1], p[2])]
<1>0. op \in [A \X E -> A] /\ \A a \in A, x \in E : op[<<a, x>>] = applyAgentEvent(a, x)
  OBVIOUS
<1> HIDE DEF op
<1>5. ASSUME NEW z \in Seq(E)
      PROVE  Folding(A, E, op, b, z) /\ ApplyAll(b, z) = Reduced(A, op, b, z)
  <2>1. Folding(A, E, op, b, z)
    BY <1>0 DEF Folding
  <2> QED BY <2>1, <1>0, ApplyFold
<1>1. Folding(A, E, op, b, s) /\ ApplyAll(b, s) = Reduced(A, op, b, s)
  BY <1>5
<1>2. ApplyAll(b, <<>>) = b
  <2>1. <<>> \in Seq(E)
    OBVIOUS
  <2>2. Folding(A, E, op, b, <<>>) /\ ApplyAll(b, <<>>) = Reduced(A, op, b, <<>>)
    BY <2>1, <1>5
  <2> QED BY <2>2, ReducedEmpty
<1>3. ApplyAll(b, s) \in A
  <2>1. \E f \in [0..Len(s) -> A] : Trace(A, op, b, s, f)
    BY <1>1, TraceExists
  <2> QED BY <1>1, <2>1, ReducedIs
<1>4. ASSUME NEW y \in E
      PROVE  ApplyAll(b, Append(s, y)) = applyAgentEvent(ApplyAll(b, s), y)
  <2>1. Append(s, y) \in Seq(E)
    OBVIOUS
  <2>2. ApplyAll(b, Append(s, y)) = Reduced(A, op, b, Append(s, y))
    BY <2>1, <1>5
  <2>3. op[<<ApplyAll(b, s), y>>] = applyAgentEvent(ApplyAll(b, s), y)
    BY <1>0, <1>3
  <2>4. Reduced(A, op, b, Append(s, y)) = op[<<Reduced(A, op, b, s), y>>]
    BY <1>1, ReducedAppend
  <2> QED BY <1>1, <2>2, <2>3, <2>4
<1> QED BY <1>2, <1>3, <1>4

\* PushAll follows the descent of FoldLeft, with the step Push.
LEMMA PushFold ==
  ASSUME NEW A, NEW E, NEW op, NEW b, NEW s, Folding(A, E, op, b, s),
         \A a \in A, x \in E : op[<<a, x>>] = Push(a, x)
  PROVE  PushAll(b, s) = Reduced(A, op, b, s)
<1> DEFINE n == Len(s)
           Step(g) == [t \in SUBSET DOMAIN s |->
                         IF t = {} THEN b ELSE Push(g[t \ {Max(t)}], s[Max(t)])]
<1>1. n \in Nat /\ DOMAIN s = 1..n /\ \A i \in 1..n : s[i] \in E
  BY DEF Folding
<1>3. ASSUME NEW t \in SUBSET (1..n), t # {} PROVE s[Max(t)] \in E
  <2>1. Max(t) \in 1..n
    BY <1>1, <1>3, MaxPlace
  <2> QED BY <1>1, <2>1
<1>4. PICK G \in [SUBSET (1..n) -> A] : Descent(A, op, b, s, G)
  BY <1>1, DescentExists
<1>5. ASSUME NEW t \in SUBSET (1..n), t # {}
      PROVE  G[t] = Push(G[t \ {Max(t)}], s[Max(t)])
  <2>1. t \ {Max(t)} \in SUBSET (1..n)
    OBVIOUS
  <2>2. G[t \ {Max(t)}] \in A
    BY <2>1, <1>4
  <2>3. G[t] = op[<<G[t \ {Max(t)}], s[Max(t)]>>]
    BY <1>4, <1>5 DEF Descent
  <2> QED BY <2>2, <2>3, <1>3, <1>5
<1>6. G = Step(G)
  <2>1. G[{}] = b
    BY <1>4 DEF Descent
  <2>2. G = [t \in SUBSET (1..n) |-> G[t]]
    BY <1>4
  <2> QED BY <1>1, <1>5, <2>1, <2>2
<1> DEFINE g == CHOOSE h : h = Step(h)
<1>7. g = Step(g)
  <2> HIDE DEF Step
  <2> QED BY <1>6
<1>8. PushAll(b, s) = g[DOMAIN s]
  BY DEF FoldLeft, MapThenFoldSet, PushAll
<1> HIDE DEF g
<1>9. g[{}] = b
  BY <1>1, <1>7
<1>10. ASSUME NEW t \in SUBSET (1..n), t # {} /\ g[t \ {Max(t)}] \in A
       PROVE  g[t] = op[<<g[t \ {Max(t)}], s[Max(t)]>>]
  <2>1. g[t] = Push(g[t \ {Max(t)}], s[Max(t)])
    BY <1>1, <1>7, <1>10
  <2> QED BY <2>1, <1>3, <1>10
<1>11. Descent(A, op, b, s, g)
  BY <1>9, <1>10 DEF Descent
<1>12. g[1..n] = Reduced(A, op, b, s)
  BY <1>1, <1>11, DescentIsReduced
<1> QED
  BY <1>1, <1>8, <1>12

\* So it begins with b, stays in A, and makes a step with each further member.
LEMMA PushFoldSteps ==
  ASSUME NEW A, NEW E, NEW b \in A, NEW s \in Seq(E),
         \A a \in A, x \in E : Push(a, x) \in A
  PROVE  /\ PushAll(b, <<>>) = b
         /\ PushAll(b, s) \in A
         /\ \A y \in E : PushAll(b, Append(s, y)) = Push(PushAll(b, s), y)
<1> DEFINE op == [p \in A \X E |-> Push(p[1], p[2])]
<1>0. op \in [A \X E -> A] /\ \A a \in A, x \in E : op[<<a, x>>] = Push(a, x)
  OBVIOUS
<1> HIDE DEF op
<1>5. ASSUME NEW z \in Seq(E)
      PROVE  Folding(A, E, op, b, z) /\ PushAll(b, z) = Reduced(A, op, b, z)
  <2>1. Folding(A, E, op, b, z)
    BY <1>0 DEF Folding
  <2> QED BY <2>1, <1>0, PushFold
<1>1. Folding(A, E, op, b, s) /\ PushAll(b, s) = Reduced(A, op, b, s)
  BY <1>5
<1>2. PushAll(b, <<>>) = b
  <2>1. <<>> \in Seq(E)
    OBVIOUS
  <2>2. Folding(A, E, op, b, <<>>) /\ PushAll(b, <<>>) = Reduced(A, op, b, <<>>)
    BY <2>1, <1>5
  <2> QED BY <2>2, ReducedEmpty
<1>3. PushAll(b, s) \in A
  <2>1. \E f \in [0..Len(s) -> A] : Trace(A, op, b, s, f)
    BY <1>1, TraceExists
  <2> QED BY <1>1, <2>1, ReducedIs
<1>4. ASSUME NEW y \in E
      PROVE  PushAll(b, Append(s, y)) = Push(PushAll(b, s), y)
  <2>1. Append(s, y) \in Seq(E)
    OBVIOUS
  <2>2. PushAll(b, Append(s, y)) = Reduced(A, op, b, Append(s, y))
    BY <2>1, <1>5
  <2>3. op[<<PushAll(b, s), y>>] = Push(PushAll(b, s), y)
    BY <1>0, <1>3
  <2>4. Reduced(A, op, b, Append(s, y)) = op[<<Reduced(A, op, b, s), y>>]
    BY <1>1, ReducedAppend
  <2> QED BY <1>1, <2>2, <2>3, <2>4
<1> QED BY <1>2, <1>3, <1>4

\* BufferAll follows the descent of FoldLeft, with the step Buffer.
LEMMA BufferFold ==
  ASSUME NEW A, NEW E, NEW op, NEW b, NEW s, Folding(A, E, op, b, s),
         \A a \in A, x \in E : op[<<a, x>>] = Buffer(a, x)
  PROVE  BufferAll(b, s) = Reduced(A, op, b, s)
<1> DEFINE n == Len(s)
           Step(g) == [t \in SUBSET DOMAIN s |->
                         IF t = {} THEN b ELSE Buffer(g[t \ {Max(t)}], s[Max(t)])]
<1>1. n \in Nat /\ DOMAIN s = 1..n /\ \A i \in 1..n : s[i] \in E
  BY DEF Folding
<1>3. ASSUME NEW t \in SUBSET (1..n), t # {} PROVE s[Max(t)] \in E
  <2>1. Max(t) \in 1..n
    BY <1>1, <1>3, MaxPlace
  <2> QED BY <1>1, <2>1
<1>4. PICK G \in [SUBSET (1..n) -> A] : Descent(A, op, b, s, G)
  BY <1>1, DescentExists
<1>5. ASSUME NEW t \in SUBSET (1..n), t # {}
      PROVE  G[t] = Buffer(G[t \ {Max(t)}], s[Max(t)])
  <2>1. t \ {Max(t)} \in SUBSET (1..n)
    OBVIOUS
  <2>2. G[t \ {Max(t)}] \in A
    BY <2>1, <1>4
  <2>3. G[t] = op[<<G[t \ {Max(t)}], s[Max(t)]>>]
    BY <1>4, <1>5 DEF Descent
  <2> QED BY <2>2, <2>3, <1>3, <1>5
<1>6. G = Step(G)
  <2>1. G[{}] = b
    BY <1>4 DEF Descent
  <2>2. G = [t \in SUBSET (1..n) |-> G[t]]
    BY <1>4
  <2> QED BY <1>1, <1>5, <2>1, <2>2
<1> DEFINE g == CHOOSE h : h = Step(h)
<1>7. g = Step(g)
  <2> HIDE DEF Step
  <2> QED BY <1>6
<1>8. BufferAll(b, s) = g[DOMAIN s]
  BY DEF FoldLeft, MapThenFoldSet, BufferAll
<1> HIDE DEF g
<1>9. g[{}] = b
  BY <1>1, <1>7
<1>10. ASSUME NEW t \in SUBSET (1..n), t # {} /\ g[t \ {Max(t)}] \in A
       PROVE  g[t] = op[<<g[t \ {Max(t)}], s[Max(t)]>>]
  <2>1. g[t] = Buffer(g[t \ {Max(t)}], s[Max(t)])
    BY <1>1, <1>7, <1>10
  <2> QED BY <2>1, <1>3, <1>10
<1>11. Descent(A, op, b, s, g)
  BY <1>9, <1>10 DEF Descent
<1>12. g[1..n] = Reduced(A, op, b, s)
  BY <1>1, <1>11, DescentIsReduced
<1> QED
  BY <1>1, <1>8, <1>12

\* So it begins with b, stays in A, and makes a step with each further member.
LEMMA BufferFoldSteps ==
  ASSUME NEW A, NEW E, NEW b \in A, NEW s \in Seq(E),
         \A a \in A, x \in E : Buffer(a, x) \in A
  PROVE  /\ BufferAll(b, <<>>) = b
         /\ BufferAll(b, s) \in A
         /\ \A y \in E : BufferAll(b, Append(s, y)) = Buffer(BufferAll(b, s), y)
<1> DEFINE op == [p \in A \X E |-> Buffer(p[1], p[2])]
<1>0. op \in [A \X E -> A] /\ \A a \in A, x \in E : op[<<a, x>>] = Buffer(a, x)
  OBVIOUS
<1> HIDE DEF op
<1>5. ASSUME NEW z \in Seq(E)
      PROVE  Folding(A, E, op, b, z) /\ BufferAll(b, z) = Reduced(A, op, b, z)
  <2>1. Folding(A, E, op, b, z)
    BY <1>0 DEF Folding
  <2> QED BY <2>1, <1>0, BufferFold
<1>1. Folding(A, E, op, b, s) /\ BufferAll(b, s) = Reduced(A, op, b, s)
  BY <1>5
<1>2. BufferAll(b, <<>>) = b
  <2>1. <<>> \in Seq(E)
    OBVIOUS
  <2>2. Folding(A, E, op, b, <<>>) /\ BufferAll(b, <<>>) = Reduced(A, op, b, <<>>)
    BY <2>1, <1>5
  <2> QED BY <2>2, ReducedEmpty
<1>3. BufferAll(b, s) \in A
  <2>1. \E f \in [0..Len(s) -> A] : Trace(A, op, b, s, f)
    BY <1>1, TraceExists
  <2> QED BY <1>1, <2>1, ReducedIs
<1>4. ASSUME NEW y \in E
      PROVE  BufferAll(b, Append(s, y)) = Buffer(BufferAll(b, s), y)
  <2>1. Append(s, y) \in Seq(E)
    OBVIOUS
  <2>2. BufferAll(b, Append(s, y)) = Reduced(A, op, b, Append(s, y))
    BY <2>1, <1>5
  <2>3. op[<<BufferAll(b, s), y>>] = Buffer(BufferAll(b, s), y)
    BY <1>0, <1>3
  <2>4. Reduced(A, op, b, Append(s, y)) = op[<<Reduced(A, op, b, s), y>>]
    BY <1>1, ReducedAppend
  <2> QED BY <1>1, <2>2, <2>3, <2>4
<1> QED BY <1>2, <1>3, <1>4

\* Assembled follows the descent of FoldLeft, with the step AddPart.
LEMMA PartFold ==
  ASSUME NEW A, NEW E, NEW op, NEW s, Folding(A, E, op, <<>>, s),
         \A a \in A, x \in E : op[<<a, x>>] = AddPart(a, x)
  PROVE  Assembled(s) = Reduced(A, op, <<>>, s)
<1> DEFINE n == Len(s)
           Step(g) == [t \in SUBSET DOMAIN s |->
                         IF t = {} THEN <<>> ELSE AddPart(g[t \ {Max(t)}], s[Max(t)])]
<1>1. n \in Nat /\ DOMAIN s = 1..n /\ \A i \in 1..n : s[i] \in E
  BY DEF Folding
<1>3. ASSUME NEW t \in SUBSET (1..n), t # {} PROVE s[Max(t)] \in E
  <2>1. Max(t) \in 1..n
    BY <1>1, <1>3, MaxPlace
  <2> QED BY <1>1, <2>1
<1>4. PICK G \in [SUBSET (1..n) -> A] : Descent(A, op, <<>>, s, G)
  BY <1>1, DescentExists
<1>5. ASSUME NEW t \in SUBSET (1..n), t # {}
      PROVE  G[t] = AddPart(G[t \ {Max(t)}], s[Max(t)])
  <2>1. t \ {Max(t)} \in SUBSET (1..n)
    OBVIOUS
  <2>2. G[t \ {Max(t)}] \in A
    BY <2>1, <1>4
  <2>3. G[t] = op[<<G[t \ {Max(t)}], s[Max(t)]>>]
    BY <1>4, <1>5 DEF Descent
  <2> QED BY <2>2, <2>3, <1>3, <1>5
<1>6. G = Step(G)
  <2>1. G[{}] = <<>>
    BY <1>4 DEF Descent
  <2>2. G = [t \in SUBSET (1..n) |-> G[t]]
    BY <1>4
  <2> QED BY <1>1, <1>5, <2>1, <2>2
<1> DEFINE g == CHOOSE h : h = Step(h)
<1>7. g = Step(g)
  <2> HIDE DEF Step
  <2> QED BY <1>6
<1>8. Assembled(s) = g[DOMAIN s]
  BY DEF FoldLeft, MapThenFoldSet, Assembled
<1> HIDE DEF g
<1>9. g[{}] = <<>>
  BY <1>1, <1>7
<1>10. ASSUME NEW t \in SUBSET (1..n), t # {} /\ g[t \ {Max(t)}] \in A
       PROVE  g[t] = op[<<g[t \ {Max(t)}], s[Max(t)]>>]
  <2>1. g[t] = AddPart(g[t \ {Max(t)}], s[Max(t)])
    BY <1>1, <1>7, <1>10
  <2> QED BY <2>1, <1>3, <1>10
<1>11. Descent(A, op, <<>>, s, g)
  BY <1>9, <1>10 DEF Descent
<1>12. g[1..n] = Reduced(A, op, <<>>, s)
  BY <1>1, <1>11, DescentIsReduced
<1> QED
  BY <1>1, <1>8, <1>12

\* Its intermediate results, one for each member.
LEMMA PartFoldTrace ==
  ASSUME NEW A, NEW E, <<>> \in A, NEW s \in Seq(E),
         \A a \in A, x \in E : AddPart(a, x) \in A
  PROVE  \E f \in [0..Len(s) -> A] :
           /\ f[0] = <<>> /\ f[Len(s)] = Assembled(s)
           /\ \A i \in 1..Len(s) : f[i] = AddPart(f[i - 1], s[i])
<1> DEFINE op == [p \in A \X E |-> AddPart(p[1], p[2])]
<1>1. op \in [A \X E -> A] /\ \A a \in A, x \in E : op[<<a, x>>] = AddPart(a, x)
  OBVIOUS
<1> HIDE DEF op
<1>2. Folding(A, E, op, <<>>, s)
  BY <1>1 DEF Folding
<1>3. Assembled(s) = Reduced(A, op, <<>>, s)
  BY <1>1, <1>2, PartFold
<1>4. PICK f \in [0..Len(s) -> A] : Trace(A, op, <<>>, s, f)
  BY <1>2, TraceExists
<1>5. f[Len(s)] = Assembled(s)
  BY <1>2, <1>3, <1>4, ReducedIs
<1>6. ASSUME NEW i \in 1..Len(s) PROVE f[i] = AddPart(f[i - 1], s[i])
  <2>1. f[i - 1] \in A /\ s[i] \in E
    OBVIOUS
  <2>2. f[i] = op[<<f[i - 1], s[i]>>]
    BY <2>1, <1>4 DEF Trace
  <2> QED BY <2>1, <2>2, <1>1
<1> QED BY <1>4, <1>5, <1>6 DEF Trace

\* FlattenSeq goes from the left, by concatenation.
LEMMA FlattenTrace ==
  ASSUME NEW S, NEW seqs \in Seq(Seq(S))
  PROVE  \E f \in [0..Len(seqs) -> Seq(S)] :
           /\ f[0] = <<>> /\ f[Len(seqs)] = FlattenSeq(seqs)
           /\ \A i \in 1..Len(seqs) : f[i] = f[i - 1] \o seqs[i]
<1> DEFINE op == [p \in Seq(S) \X Seq(S) |-> p[1] \o p[2]]
<1>1. Folding(Seq(S), Seq(S), op, <<>>, seqs)
  BY DEF Folding
<1>2. PICK f \in [0..Len(seqs) -> Seq(S)] : Trace(Seq(S), op, <<>>, seqs, f)
  BY <1>1, TraceExists
<1>3. f[Len(seqs)] = FlattenSeq(seqs)
  <2>1. f[Len(seqs)] = Joined(S, seqs)
    BY <1>1, <1>2, ReducedIs DEF Joined
  <2> QED BY <2>1, FlattenIsJoined
<1>4. ASSUME NEW i \in 1..Len(seqs) PROVE f[i] = f[i - 1] \o seqs[i]
  <2> DEFINE T == Seq(S)
  <2>1. f[i - 1] \in T /\ seqs \in Seq(T)
    OBVIOUS
  <2>2. seqs[i] \in T
    <3> HIDE DEF T
    <3> QED BY <2>1, ElementOfSeq
  <2>3. f[i] = op[<<f[i - 1], seqs[i]>>]
    BY <2>1, <1>2 DEF Trace
  <2> QED BY <2>1, <2>2, <2>3
<1>5. f[0] = <<>>
  BY <1>2 DEF Trace
<1> QED BY <1>3, <1>4, <1>5

---------------------------------------------------------------------------
(* The members of a sequence at some places.                               *)

\* r holds the members of seq at the given places among the first n, in order; e tells
\* from where each was taken.
Taken(seq, places, n, r, e) ==
  /\ e \in [1..Len(r) -> places \cap (1..n)]
  /\ \A k, l \in 1..Len(r) : k < l => e[k] < e[l]
  /\ \A k \in 1..Len(r) : r[k] = seq[e[k]]
  /\ \A i \in places \cap (1..n) : \E k \in 1..Len(r) : e[k] = i

LEMMA PickedTaken ==
  ASSUME NEW S, NEW seq \in Seq(S), NEW places
  PROVE  /\ Picked(seq, places) \in Seq(S)
         /\ \E e : Taken(seq, places, Len(seq), Picked(seq, places), e)
<1> DEFINE One(i) == IF i \in places THEN <<seq[i]>> ELSE <<>>
           marks == [i \in DOMAIN seq |-> One(i)]
           n == Len(seq)
<1>1. marks \in Seq(Seq(S)) /\ Len(marks) = n /\ n \in Nat /\ \A i \in 1..n : marks[i] = One(i)
  <2>1. DOMAIN seq = 1..n /\ n \in Nat /\ \A i \in 1..n : seq[i] \in S
    OBVIOUS
  <2>2. \A i \in 1..n : One(i) \in Seq(S)
    BY <2>1
  <2> HIDE DEF One
  <2> QED BY <2>1, <2>2
<1>2. Picked(seq, places) = FlattenSeq(marks)
  BY DEF Picked
<1>4. PICK f \in [0..n -> Seq(S)] : /\ f[0] = <<>> /\ f[n] = Picked(seq, places)
                                    /\ \A i \in 1..n : f[i] = f[i - 1] \o One(i)
  <2> HIDE DEF marks, One
  <2>1. PICK f \in [0..Len(marks) -> Seq(S)] :
          /\ f[0] = <<>> /\ f[Len(marks)] = FlattenSeq(marks)
          /\ \A i \in 1..Len(marks) : f[i] = f[i - 1] \o marks[i]
    BY <1>1, FlattenTrace
  <2> QED BY <1>1, <1>2, <2>1
<1> DEFINE Good == {i \in 0..n : \E e : Taken(seq, places, i, f[i], e)}
<1>5. 0 \in Good
  <2>1. Taken(seq, places, 0, <<>>, [k \in {} |-> 0])
    BY DEF Taken
  <2> QED BY <2>1, <1>4, <1>1
<1>6. ASSUME NEW i \in 0..(n - 1), i \in Good PROVE i + 1 \in Good
  <2>1. PICK e : Taken(seq, places, i, f[i], e)
    BY <1>6
  <2>0. i + 1 \in 1..n /\ (i + 1) - 1 = i /\ i + 1 \in 0..n /\ i \in 0..n
    BY <1>1
  <2>2. i + 1 \in 1..n /\ (i + 1) - 1 = i /\ f[i] \in Seq(S) /\ i + 1 \in 0..n
    BY <2>0
  <2>3. seq[i + 1] \in S
    BY <2>2
  <2>4. f[i + 1] = IF i + 1 \in places THEN Append(f[i], seq[i + 1]) ELSE f[i]
    <3>1. f[i + 1] = f[i] \o One(i + 1)
      BY <2>2, <1>4
    <3>2. CASE i + 1 \in places
      <4>1. f[i + 1] = f[i] \o <<seq[i + 1]>>
        BY <3>1, <3>2
      <4> QED BY <4>1, <3>2, <2>2, <2>3
    <3>3. CASE i + 1 \notin places
      <4>1. f[i + 1] = f[i] \o <<>>
        BY <3>1, <3>3
      <4> QED BY <4>1, <3>3, <2>2, ConcatEmptySeq
    <3> QED BY <3>2, <3>3
  <2> HIDE DEF marks, One
  <2>5. CASE i + 1 \notin places
    <3>1. places \cap (1..(i + 1)) = places \cap (1..i)
      BY <2>5
    <3>2. Taken(seq, places, i + 1, f[i], e)
      BY <2>1, <3>1 DEF Taken
    <3> QED BY <2>4, <2>5, <3>2, <2>2 DEF Good
  <2>6. CASE i + 1 \in places
    <3> DEFINE m == Len(f[i])
               r == Append(f[i], seq[i + 1])
               d == [k \in 1..(m + 1) |-> IF k = m + 1 THEN i + 1 ELSE e[k]]
    <3>1. m \in Nat /\ Len(r) = m + 1 /\ r[m + 1] = seq[i + 1] /\ \A k \in 1..m : r[k] = f[i][k]
      BY <2>2
    <3>2. \A k \in 1..m : e[k] \in places /\ e[k] \in 1..i
      BY <2>1 DEF Taken
    <3>3. d \in [1..(m + 1) -> places \cap (1..(i + 1))]
      BY <3>1, <3>2, <2>6
    <3>4. d[m + 1] = i + 1 /\ \A k \in 1..m : d[k] = e[k]
      BY <3>1
    <3>5. \A k, l \in 1..(m + 1) : k < l => d[k] < d[l]
      <4> SUFFICES ASSUME NEW k \in 1..(m + 1), NEW l \in 1..(m + 1), k < l PROVE d[k] < d[l]
        OBVIOUS
      <4>1. k \in 1..m /\ d[k] = e[k] /\ e[k] \in 1..i
        BY <3>1, <3>2, <3>4
      <4>2. CASE l = m + 1
        BY <4>1, <4>2, <3>4
      <4>3. CASE l # m + 1
        <5>1. l \in 1..m /\ d[l] = e[l]
          BY <4>3, <3>1, <3>4
        <5> QED BY <4>1, <5>1, <2>1 DEF Taken
      <4> QED BY <4>2, <4>3
    <3>6. \A k \in 1..(m + 1) : r[k] = seq[d[k]]
      <4> SUFFICES ASSUME NEW k \in 1..(m + 1) PROVE r[k] = seq[d[k]]
        OBVIOUS
      <4>1. CASE k = m + 1
        BY <4>1, <3>1, <3>4
      <4>2. CASE k # m + 1
        <5>1. k \in 1..m
          BY <4>2, <3>1
        <5>2. f[i][k] = seq[e[k]]
          BY <5>1, <2>1 DEF Taken
        <5> QED BY <5>1, <5>2, <3>1, <3>4
      <4> QED BY <4>1, <4>2
    <3>7. ASSUME NEW j \in places \cap (1..(i + 1)) PROVE \E k \in 1..(m + 1) : d[k] = j
      <4>1. CASE j = i + 1
        <5>1. m + 1 \in 1..(m + 1)
          BY <3>1
        <5> QED BY <4>1, <5>1, <3>4
      <4>2. CASE j # i + 1
        <5>1. j \in places \cap (1..i)
          BY <4>2
        <5>2. PICK k \in 1..m : e[k] = j
          BY <5>1, <2>1 DEF Taken
        <5>3. k \in 1..(m + 1)
          BY <3>1
        <5> QED BY <5>2, <5>3, <3>4
      <4> QED BY <4>1, <4>2
    <3>8. Taken(seq, places, i + 1, r, d)
      <4> HIDE DEF r, d, m
      <4> QED BY <3>1, <3>3, <3>5, <3>6, <3>7 DEF Taken
    <3> QED BY <2>4, <2>6, <3>8, <2>2 DEF Good
  <2> QED BY <2>5, <2>6
<1>7. \A i \in 0..n : i \in Good
  <2> HIDE DEF Good
  <2>1. n \in Nat
    BY <1>1
  <2> HIDE DEF n
  <2> QED BY <1>5, <1>6, <2>1, UpTo
<1>8. n \in Good
  BY <1>1, <1>7
<1> QED BY <1>1, <1>4, <1>8

---------------------------------------------------------------------------
(* The rows of a message of the agent.                                     *)

\* A row that one of the rows continues has a row of its type and its slot among them.
LEMMA AppendContinued ==
  ASSUME NEW rows \in Seq(Rows), NEW next \in Rows
  PROVE  /\ Append(rows, next) \in Seq(Rows)
         /\ Continued(next, Append(rows, next))
         /\ \A row : Continued(row, rows) => Continued(row, Append(rows, next))
<1>1. /\ Append(rows, next) \in Seq(Rows) /\ Len(rows) \in Nat /\ Len(Append(rows, next)) = Len(rows) + 1
      /\ Append(rows, next)[Len(rows) + 1] = next
      /\ \A i \in 1..Len(rows) : Append(rows, next)[i] = rows[i]
      /\ DOMAIN rows = 1..Len(rows) /\ DOMAIN Append(rows, next) = 1..(Len(rows) + 1)
  OBVIOUS
<1>2. Continued(next, Append(rows, next))
  <2>1. Len(rows) + 1 \in DOMAIN Append(rows, next)
    BY <1>1
  <2> QED BY <1>1, <2>1 DEF Continued, SameSlot
<1>3. ASSUME NEW row, Continued(row, rows) PROVE Continued(row, Append(rows, next))
  <2>1. PICK i \in 1..Len(rows) : SameSlot(row, rows[i])
    BY <1>1, <1>3 DEF Continued
  <2>2. i \in DOMAIN Append(rows, next) /\ Append(rows, next)[i] = rows[i]
    BY <1>1
  <2> QED BY <2>1, <2>2 DEF Continued
<1> QED BY <1>1, <1>2, <1>3

\* What Front leaves, and what takes the place of the last member.
LEMMA FrontFacts ==
  ASSUME NEW S, NEW s \in Seq(S), s # <<>>
  PROVE  /\ Len(s) \in Nat \ {0} /\ Front(s) \in Seq(S) /\ Len(Front(s)) = Len(s) - 1
         /\ \A i \in 1..(Len(s) - 1) : Front(s)[i] = s[i]
         /\ Last(s) = s[Len(s)] /\ Last(s) \in S
         /\ s = Append(Front(s), Last(s))
<1>1. Len(s) \in Nat \ {0}
  OBVIOUS
<1>2. /\ Front(s) \in Seq(S) /\ Len(Front(s)) = Len(s) - 1
      /\ \A i \in 1..(Len(s) - 1) : Front(s)[i] = s[i]
  <2>1. 1 \in Nat /\ Len(s) - 1 \in Nat /\ Len(s) - 1 <= Len(s)
    BY <1>1
  <2>2. /\ SubSeq(s, 1, Len(s) - 1) \in Seq(S)
        /\ Len(SubSeq(s, 1, Len(s) - 1)) = Len(s) - 1
    <3>1. \A i \in 1..(Len(s) - 1) : s[i] \in S
      BY <2>1
    <3> DEFINE k == Len(s) - 1
    <3>2. k \in Int /\ 1 \in Int /\ k >= 0
      BY <2>1
    <3> HIDE DEF k
    <3>3. /\ SubSeq(s, 1, k) \in Seq(S)
          /\ Len(SubSeq(s, 1, k)) = IF 1 <= k THEN k - 1 + 1 ELSE 0
      BY <3>1, <3>2, SubSeqProperties DEF k
    <3>4. Len(SubSeq(s, 1, k)) = k
      BY <3>2, <3>3
    <3> QED BY <3>3, <3>4 DEF k
  <2>3. \A i \in 1..(Len(s) - 1) : SubSeq(s, 1, Len(s) - 1)[i] = s[i]
    BY <2>1
  <2> QED BY <2>2, <2>3 DEF Front
<1>3. Last(s) = s[Len(s)] /\ Last(s) \in S
  BY <1>1 DEF Last
<1>4. s = Append(Front(s), Last(s))
  <2>1. Append(Front(s), Last(s)) \in Seq(S) /\ Len(Append(Front(s), Last(s))) = Len(s)
    BY <1>1, <1>2, <1>3
  <2>2. \A i \in 1..Len(s) : Append(Front(s), Last(s))[i] = s[i]
    BY <1>1, <1>2, <1>3
  <2> QED BY <2>1, <2>2, SeqEqual
<1> QED BY <1>1, <1>2, <1>3, <1>4

LEMMA WithLastFacts ==
  ASSUME NEW S, NEW s \in Seq(S), s # <<>>, NEW x \in S
  PROVE  /\ Append(Front(s), x) \in Seq(S) /\ Len(Append(Front(s), x)) = Len(s)
         /\ Len(s) \in Nat \ {0} /\ Append(Front(s), x)[Len(s)] = x
         /\ \A i \in 1..(Len(s) - 1) : Append(Front(s), x)[i] = s[i]
<1>1. /\ Len(s) \in Nat \ {0} /\ Front(s) \in Seq(S) /\ Len(Front(s)) = Len(s) - 1
      /\ \A i \in 1..(Len(s) - 1) : Front(s)[i] = s[i]
  BY FrontFacts
<1> QED BY <1>1

\* The last row of a sequence is replaced by one of the same type and slot.
LEMMA ReplaceContinued ==
  ASSUME NEW rows \in Seq(Rows), rows # <<>>, NEW next \in Rows, SameSlot(Last(rows), next)
  PROVE  /\ Append(Front(rows), next) \in Seq(Rows)
         /\ \A row : Continued(row, rows) => Continued(row, Append(Front(rows), next))
<1> DEFINE n == Len(rows)
           new == Append(Front(rows), next)
<1>1. /\ n \in Nat \ {0} /\ new \in Seq(Rows) /\ Len(new) = n /\ new[n] = next
      /\ DOMAIN rows = 1..n /\ DOMAIN new = 1..n
  <2>1. /\ n \in Nat \ {0} /\ new \in Seq(Rows) /\ Len(new) = n /\ new[n] = next
    BY WithLastFacts
  <2> HIDE DEF new
  <2> QED BY <2>1
<1>2. \A i \in 1..(n - 1) : new[i] = rows[i]
  BY WithLastFacts
<1>0. n \in Nat
  BY <1>1
<1> HIDE DEF new, n
<1>3. ASSUME NEW row, Continued(row, rows) PROVE Continued(row, new)
  <2>1. PICK i \in 1..n : SameSlot(row, rows[i])
    BY <1>1, <1>3 DEF Continued
  <2>2. CASE i = n
    <3>1. SameSlot(row, new[n])
      BY <2>1, <2>2, <1>1 DEF SameSlot, Last, n
    <3> QED BY <3>1, <1>1 DEF Continued
  <2>3. CASE i # n
    <3>1. i \in 1..(n - 1)
      BY <2>3, <1>0
    <3> QED BY <3>1, <2>1, <1>1, <1>2 DEF Continued
  <2> QED BY <2>2, <2>3
<1> QED BY <1>1, <1>3 DEF new, n

LEMMA AddPartType ==
  ASSUME NEW rows \in Seq(Rows), NEW m \in Nat, NEW j \in Nat, NEW part \in PartRecords
  PROVE  LET next == AddPart(rows, <<m, j, part>>)
         IN  /\ next \in Seq(Rows)
             /\ \A row : Continued(row, rows) => Continued(row, next)
             /\ part.kind = "toolCall" => Continued(ToolRow(<<m, j>>), next)
<1> DEFINE thought == Thought(m, j, part)
           prose == Prose(m, j, part)
<1>1. thought \in Texts /\ prose \in Texts
  BY PartTexts
<1>2. /\ ToolRow(<<m, j>>) \in Rows
      /\ Row("thinking", <<0, j>>, thought) \in Rows /\ Row("text", <<0, j>>, prose) \in Rows
  BY <1>1 DEF ToolRow, Row, Rows, Slots, Texts
<1>3. AddPart(rows, <<m, j, part>>) =
        IF part.kind = "toolCall" THEN Append(rows, ToolRow(<<m, j>>))
        ELSE AddText(AddThought(rows, j, thought), j, prose)
  BY DEF AddPart
<1> HIDE DEF thought, prose
<1>4. /\ AddThought(rows, j, thought) \in Seq(Rows)
      /\ \A row : Continued(row, rows) => Continued(row, AddThought(rows, j, thought))
  <2>1. CASE thought = <<>>
    BY <2>1 DEF AddThought
  <2>2. CASE thought # <<>> /\ rows # <<>> /\ Last(rows).type = "thinking"
    <3> DEFINE next == [Last(rows) EXCEPT !.text = @ \o thought]
    <3>1. Last(rows) \in Rows
      BY <2>2 DEF Last
    <3>0. Last(rows).text \o thought \in Texts
      BY <3>1, <1>1 DEF Rows, Texts
    <3>2. next \in Rows /\ SameSlot(Last(rows), next)
      BY <3>0, <3>1 DEF Rows, SameSlot
    <3>3. AddThought(rows, j, thought) = Append(Front(rows), next)
      BY <2>2, Zenon DEF AddThought
    <3> HIDE DEF next
    <3> QED BY <3>2, <3>3, <2>2, ReplaceContinued
  <2>3. CASE thought # <<>> /\ ~(rows # <<>> /\ Last(rows).type = "thinking")
    <3>1. AddThought(rows, j, thought) = Append(rows, Row("thinking", <<0, j>>, thought))
      BY <2>3, Zenon DEF AddThought
    <3> QED BY <3>1, <1>2, AppendContinued
  <2> QED BY <2>1, <2>2, <2>3
<1>5. /\ AddText(AddThought(rows, j, thought), j, prose) \in Seq(Rows)
      /\ \A row : Continued(row, rows) => Continued(row, AddText(AddThought(rows, j, thought), j, prose))
  <2> DEFINE old == AddThought(rows, j, thought)
  <2>1. AddText(old, j, prose) = IF prose = <<>> THEN old ELSE Append(old, Row("text", <<0, j>>, prose))
    BY DEF AddText
  <2> HIDE DEF old
  <2>2. CASE prose = <<>>
    BY <2>1, <2>2, <1>4 DEF old
  <2>3. CASE prose # <<>>
    <3>1. old \in Seq(Rows) /\ \A row : Continued(row, rows) => Continued(row, old)
      BY <1>4 DEF old
    <3>2. AddText(old, j, prose) = Append(old, Row("text", <<0, j>>, prose))
      BY <2>1, <2>3
    <3> QED BY <3>1, <3>2, <1>2, AppendContinued DEF old
  <2> QED BY <2>2, <2>3
<1> QED BY <1>2, <1>3, <1>5, AppendContinued

\* getWork is a sequence of rows in which every call of a tool has its row.
LEMMA GetWorkType ==
  ASSUME NEW m \in Nat, NEW parts0 \in Seq(PartRecords)
  PROVE  /\ getWork(m, parts0) \in Seq(Rows)
         /\ \A j \in DOMAIN parts0 :
              parts0[j].kind = "toolCall" => Continued(ToolRow(<<m, j>>), getWork(m, parts0))
<1> DEFINE n == Len(parts0)
           placed == [j \in DOMAIN parts0 |-> <<m, j, parts0[j]>>]
           E == {m} \X Nat \X PartRecords
<1>1. placed \in Seq(E) /\ Len(placed) = n /\ n \in Nat /\ DOMAIN parts0 = 1..n
  OBVIOUS
<1>2. getWork(m, parts0) = Assembled(placed)
  BY DEF getWork, Assembled
<1>3. ASSUME NEW a \in Seq(Rows), NEW x \in E PROVE AddPart(a, x) \in Seq(Rows)
  <2>1. PICK j \in Nat, part \in PartRecords : x = <<m, j, part>>
    OBVIOUS
  <2> QED BY <2>1, AddPartType
<1>4. PICK f \in [0..n -> Seq(Rows)] : /\ f[0] = <<>> /\ f[n] = getWork(m, parts0)
                                       /\ \A j \in 1..n : f[j] = AddPart(f[j - 1], <<m, j, parts0[j]>>)
  <2>1. \A j \in 1..n : placed[j] = <<m, j, parts0[j]>>
    BY <1>1
  <2> DEFINE A == Seq(Rows)
  <2> HIDE DEF placed, E
  <2>2. <<>> \in A /\ \A a \in A, x \in E : AddPart(a, x) \in A
    BY <1>3
  <2>0. placed \in Seq(E)
    BY <1>1
  <2>3. PICK f \in [0..Len(placed) -> A] :
          /\ f[0] = <<>> /\ f[Len(placed)] = Assembled(placed)
          /\ \A j \in 1..Len(placed) : f[j] = AddPart(f[j - 1], placed[j])
    <3> HIDE DEF A
    <3> QED BY <2>0, <2>2, PartFoldTrace
  <2> QED BY <1>1, <1>2, <2>1, <2>3
<1> DEFINE Has(i) == \A j \in 1..i : parts0[j].kind = "toolCall" => Continued(ToolRow(<<m, j>>), f[i])
           Good == {i \in 0..n : Has(i)}
<1>5. 0 \in Good
  BY <1>1
<1>6. ASSUME NEW i \in 0..(n - 1), i \in Good PROVE i + 1 \in Good
  <2>1. i + 1 \in 1..n /\ (i + 1) - 1 = i /\ i \in 0..n /\ i + 1 \in 0..n /\ i + 1 \in Nat
    BY <1>1
  <2>2. f[i] \in Seq(Rows) /\ parts0[i + 1] \in PartRecords
    BY <2>1, <1>1
  <2>3. f[i + 1] = AddPart(f[i], <<m, i + 1, parts0[i + 1]>>)
    BY <2>1, <1>4
  <2>4. /\ \A row : Continued(row, f[i]) => Continued(row, f[i + 1])
        /\ parts0[i + 1].kind = "toolCall" => Continued(ToolRow(<<m, i + 1>>), f[i + 1])
    BY <2>1, <2>2, <2>3, AddPartType
  <2>5. ASSUME NEW j \in 1..(i + 1), parts0[j].kind = "toolCall" PROVE Continued(ToolRow(<<m, j>>), f[i + 1])
    <3>1. CASE j = i + 1
      BY <3>1, <2>4, <2>5
    <3>2. CASE j # i + 1
      <4>1. j \in 1..i
        BY <3>2, <2>1
      <4> QED BY <4>1, <2>4, <2>5, <1>6
    <3> QED BY <3>1, <3>2
  <2> QED BY <2>1, <2>5
<1>7. \A i \in 0..n : i \in Good
  <2> HIDE DEF Good
  <2>1. n \in Nat
    BY <1>1
  <2> HIDE DEF n
  <2> QED BY <1>5, <1>6, <2>1, UpTo
<1>8. Has(n) /\ f[n] \in Seq(Rows)
  BY <1>1, <1>7
<1> QED BY <1>1, <1>4, <1>8

---------------------------------------------------------------------------
(* The records as chat messages.                                           *)

\* Nothing of the message is under way.
Still(c) == ~c.streaming /\ \A t \in DOMAIN c.tools : c.tools[t].status # "running"

StillChats == {c \in Chats : Still(c)}

\* A function on slots is a set of tools.
LEMMA ToolSetType ==
  ASSUME NEW tools, DOMAIN tools \subseteq Slots, tools = [t \in DOMAIN tools |-> tools[t]],
         \A t \in DOMAIN tools : tools[t] \in ToolStates
  PROVE  tools \in ToolSets
<1>1. tools \in [DOMAIN tools -> ToolStates]
  OBVIOUS
<1> QED BY <1>1 DEF ToolSets

LEMMA ToolSetFacts ==
  ASSUME NEW tools \in ToolSets
  PROVE  /\ DOMAIN tools \subseteq Slots /\ tools = [t \in DOMAIN tools |-> tools[t]]
         /\ \A t \in DOMAIN tools : tools[t] \in ToolStates
<1>1. PICK T \in SUBSET Slots : tools \in [T -> ToolStates]
  BY DEF ToolSets
<1> QED BY <1>1

LEMMA NoTools == <<>> \in ToolSets /\ DOMAIN <<>> = {}
<1>1. DOMAIN <<>> = {}
  OBVIOUS
<1>2. <<>> \in [{} -> ToolStates]
  OBVIOUS
<1> QED BY <1>1, <1>2 DEF ToolSets

\* An empty message.
LEMMA ChatType ==
  ASSUME NEW role \in {"user", "assistant"}, NEW text \in Texts
  PROVE  Chat(role, text) \in StillChats
<1> DEFINE c == Chat(role, text)
<1>1. c.tools = <<>> /\ c.work = <<>> /\ c.workOffset = -1 /\ ~c.streaming /\ c.id = 0
  BY DEF Chat
<1>2. c \in ChatRecords
  <2>1. <<>> \in Seq(Rows) /\ "" \in Stops
    BY DEF Stops
  <2> QED BY <2>1, NoTools DEF Chat, ChatRecords
<1>3. Sound(c) /\ Still(c)
  <2>1. DOMAIN c.tools = {} /\ Len(c.work) = 0
    BY <1>1, NoTools
  <2> QED BY <1>1, <2>1 DEF Sound, Still
<1> QED BY <1>2, <1>3 DEF StillChats, Chats

LEMMA FromRecordType ==
  ASSUME NEW r \in UserRecords \cup AgentRecords
  PROVE  /\ messageFromRecord(r) \in StillChats
         /\ messageFromRecord(r).role = r.role
<1>1. CASE r \in UserRecords
  <2>1. r.role = "user" /\ r.text \in Texts
    BY <1>1 DEF UserRecords
  <2>2. messageFromRecord(r) = Chat("user", r.text)
    BY <2>1 DEF messageFromRecord
  <2>3. Chat("user", r.text) \in StillChats
    BY <2>1, ChatType
  <2>4. Chat("user", r.text).role = "user"
    BY DEF Chat
  <2> QED BY <2>1, <2>2, <2>3, <2>4
<1>2. CASE r \in AgentRecords
  <2> DEFINE text == getMessageText(r.m, r.parts)
             work == getWork(r.m, r.parts)
             tools == getTools(r.m, r.parts)
             c == messageFromRecord(r)
  <2>1. r.role = "assistant" /\ r.m \in Nat /\ r.parts \in Seq(PartRecords) /\ r.stop \in Stops
    BY <1>2 DEF AgentRecords
  <2>2. text \in Texts
    <3> DEFINE S == Nat \X Nat \X Nat
               seqs == [j \in DOMAIN r.parts |-> Prose(r.m, j, r.parts[j])]
    <3>1. \A j \in DOMAIN r.parts : j \in Nat /\ r.parts[j] \in PartRecords
      BY <2>1
    <3>2. \A j \in DOMAIN r.parts : Prose(r.m, j, r.parts[j]) \in Seq(S)
      BY <2>1, <3>1, PartTexts DEF Texts
    <3>3. seqs \in Seq(Seq(S))
      <4> HIDE DEF S
      <4> QED BY <2>1, <3>2
    <3> HIDE DEF S, seqs
    <3>4. FlattenSeq(seqs) \in Seq(S)
      BY <3>3, FlattenIsJoined
    <3> QED BY <3>4 DEF getMessageText, Texts, S, seqs
  <2>3. work \in Seq(Rows)
        /\ \A j \in DOMAIN r.parts : r.parts[j].kind = "toolCall" => Continued(ToolRow(<<r.m, j>>), work)
    BY <2>1, GetWorkType
  <2>4. tools \in ToolSets /\ \A t \in DOMAIN tools : tools[t] = CalledTool /\ Continued(ToolRow(t), work)
    <3> DEFINE calls == {i \in DOMAIN r.parts : r.parts[i].kind = "toolCall"}
               T == {<<r.m, j>> : j \in calls}
    <3>1. tools = [t \in T |-> CalledTool]
      BY DEF getTools
    <3>2. T \subseteq Slots
      BY <2>1 DEF Slots
    <3>3. CalledTool \in ToolStates
      BY DEF CalledTool, ToolStates
    <3>4. \A t \in T : Continued(ToolRow(t), work)
      BY <2>3
    <3>5. DOMAIN tools = T
      BY <3>1
    <3> HIDE DEF T, tools
    <3>6. tools \in ToolSets
      BY <3>1, <3>2, <3>3, <3>5, ToolSetType
    <3> QED BY <3>1, <3>4, <3>5, <3>6
  <2> HIDE DEF text, work, tools
  <2>5. c = [Chat("assistant", text) EXCEPT !.tools = tools, !.work = work, !.stopReason = r.stop,
               !.interrupted = r.stop = "aborted", !.error = r.stop = "error"]
    BY <2>1 DEF messageFromRecord, text, work, tools
  <2>6. /\ c.tools = tools /\ c.work = work /\ c.workOffset = -1 /\ c.streaming = FALSE
        /\ c.role = "assistant" /\ c.id = 0
    BY <2>5 DEF Chat
  <2>7. c \in ChatRecords
    <3>1. Chat("assistant", text) \in ChatRecords
      BY <2>2, ChatType DEF StillChats, Chats
    <3>2. (r.stop = "aborted") \in BOOLEAN /\ (r.stop = "error") \in BOOLEAN
      OBVIOUS
    <3> QED BY <3>1, <3>2, <2>5, <2>1, <2>3, <2>4 DEF ChatRecords
  <2>8. Sound(c) /\ Still(c)
    <3>1. Len(work) \in Nat
      BY <2>3
    <3>2. \A t \in DOMAIN tools : tools[t].status # "running"
      BY <2>4 DEF CalledTool
    <3> HIDE DEF c
    <3> QED BY <2>4, <2>6, <3>1, <3>2 DEF Sound, Still
  <2> QED BY <2>1, <2>6, <2>7, <2>8 DEF StillChats, Chats
<1> QED BY <1>1, <1>2

\* The greatest of the indexes that pass a test, or none.
LEMMA LastPlace ==
  ASSUME NEW n \in Nat, NEW I, I \in SUBSET (1..n), I # {}
  PROVE  Max(I) \in I /\ \A i \in I : Max(I) >= i
BY MaxPlace

\* A stored result changes the state of the tool of one message.
LEMMA AttachType ==
  ASSUME NEW ms \in Seq(StillChats), NEW r \in ResultRecords
  PROVE  /\ attachStoredToolResult(ms, r) \in Seq(StillChats)
         /\ Len(attachStoredToolResult(ms, r)) = Len(ms)
         /\ \A i \in 1..Len(ms) : attachStoredToolResult(ms, r)[i].role = ms[i].role
<1> DEFINE I == {i \in 1..Len(ms) : HasTool(ms[i], r.tool)}
           owner == IF I # {} THEN Max(I) ELSE 0
<1>1. r.tool \in Slots /\ r.error \in BOOLEAN
  BY DEF ResultRecords
<1>2. attachStoredToolResult(ms, r) =
        IF owner = 0 THEN ms
        ELSE [ms EXCEPT ![owner].tools[r.tool] =
                [@ EXCEPT !.status = ToolOutcome(r.error), !.recorded = TRUE]]
  BY DEF attachStoredToolResult, SelectLastInSeq
<1>3. owner # 0 => owner \in 1..Len(ms) /\ HasTool(ms[owner], r.tool)
  <2>1. ASSUME I # {} PROVE Max(I) \in I
    BY <2>1, Len(ms) \in Nat, I \in SUBSET (1..Len(ms)), LastPlace
  <2> QED BY <2>1
<1> HIDE DEF owner
<1>4. CASE owner = 0
  BY <1>2, <1>4
<1>5. CASE owner # 0
  <2> DEFINE c == ms[owner]
             new == [c.tools[r.tool] EXCEPT !.status = ToolOutcome(r.error), !.recorded = TRUE]
             d == [c EXCEPT !.tools = [c.tools EXCEPT ![r.tool] = new]]
  <2>1. owner \in 1..Len(ms) /\ c \in Chats /\ Still(c) /\ r.tool \in DOMAIN c.tools
    BY <1>3, <1>5 DEF HasTool, StillChats
  <2>2. c \in ChatRecords /\ Sound(c) /\ c.tools \in ToolSets
    BY <2>1 DEF Chats, ChatRecords
  <2>3. c.tools[r.tool] \in ToolStates
    BY <2>1, <2>2, ToolSetFacts
  <2>4. ToolOutcome(r.error) \in {"complete", "error"}
    BY DEF ToolOutcome
  <2>5. new \in ToolStates /\ new.status # "running"
    BY <2>3, <2>4 DEF ToolStates
  <2>6. attachStoredToolResult(ms, r) = [ms EXCEPT ![owner] = d]
    BY <1>2, <1>5
  <2> HIDE DEF new
  <2> DEFINE tools == [c.tools EXCEPT ![r.tool] = new]
  <2>7. DOMAIN tools = DOMAIN c.tools /\ tools[r.tool] = new
        /\ \A t \in DOMAIN tools : t # r.tool => tools[t] = c.tools[t]
    BY <2>1
  <2>8. tools \in ToolSets
    <3>1. \A t \in DOMAIN tools : tools[t] \in ToolStates
      BY <2>2, <2>5, <2>7, ToolSetFacts
    <3>2. DOMAIN tools \subseteq Slots
      BY <2>2, <2>7, ToolSetFacts
    <3>3. tools = [t \in DOMAIN tools |-> tools[t]]
      OBVIOUS
    <3> HIDE DEF tools
    <3> QED BY <3>1, <3>2, <3>3, ToolSetType
  <2>9. \A t \in DOMAIN tools : tools[t].status # "running"
    BY <2>1, <2>5, <2>7 DEF Still
  <2> HIDE DEF tools
  <2>10. d = [c EXCEPT !.tools = tools]
    BY DEF tools
  <2>11. /\ d.tools = tools /\ d.work = c.work /\ d.workOffset = c.workOffset /\ d.role = c.role
         /\ d.streaming = c.streaming /\ d.id = c.id
    BY <2>10, <2>2 DEF ChatRecords
  <2>12. d \in ChatRecords
    BY <2>2, <2>8, <2>10 DEF ChatRecords
  <2> HIDE DEF d, c
  <2>13. Sound(d) /\ Still(d)
    BY <2>1, <2>2, <2>7, <2>9, <2>11 DEF Sound, Still
  <2>14. d \in StillChats
    BY <2>12, <2>13 DEF StillChats, Chats
  <2> QED BY <2>1, <2>6, <2>11, <2>14 DEF c
<1> QED BY <1>4, <1>5

\* AddRecord, and with it normalizeMessages, gives messages in which nothing is under way.
LEMMA AddRecordType ==
  ASSUME NEW ms \in Seq(StillChats), NEW r \in Records
  PROVE  AddRecord(ms, r) \in Seq(StillChats)
<1>1. CASE r \in ResultRecords
  <2>1. r.role = "toolResult"
    BY <1>1 DEF ResultRecords
  <2> QED BY <1>1, <2>1, AttachType DEF AddRecord
<1>2. CASE r \in UserRecords \cup AgentRecords
  <2>1. r.role # "toolResult"
    BY <1>2 DEF UserRecords, AgentRecords
  <2>2. messageFromRecord(r) \in StillChats
    BY <1>2, FromRecordType
  <2> QED BY <2>1, <2>2 DEF AddRecord
<1> QED BY <1>1, <1>2 DEF Records

LEMMA Normalized ==
  ASSUME NEW rs \in Seq(Records)
  PROVE  /\ normalizeMessages(rs) \in Seq(StillChats)
         /\ normalizeMessages(<<>>) = <<>>
         /\ \A r \in Records :
              normalizeMessages(Append(rs, r)) = AddRecord(normalizeMessages(rs), r)
<1> DEFINE A == Seq(StillChats)
<1>1. <<>> \in A /\ \A a \in A, x \in Records : AddRecord(a, x) \in A
  BY AddRecordType
<1> HIDE DEF A
<1>2. /\ normalizeMessages(<<>>) = <<>> /\ normalizeMessages(rs) \in A
      /\ \A r \in Records : normalizeMessages(Append(rs, r)) = AddRecord(normalizeMessages(rs), r)
  BY <1>1, NormalizeFoldSteps
<1> QED BY <1>2 DEF A

---------------------------------------------------------------------------
(* What merging does to the rows and to a message.                         *)

\* graftWork keeps the rows there are, each at its place, and appends the others.
LEMMA GraftType ==
  ASSUME NEW current \in Seq(Rows), NEW incoming \in Seq(Rows)
  PROVE  /\ graftWork(current, incoming) \in Seq(Rows)
         /\ Len(graftWork(current, incoming)) >= Len(current)
         /\ \A i \in 1..Len(current) : SameSlot(current[i], graftWork(current, incoming)[i])
<1> DEFINE Spots(i) == {k \in 1..Len(incoming) : SameSlot(current[i], incoming[k])}
           Spot(i) == IF Spots(i) # {} THEN Min(Spots(i)) ELSE 0
           Old(i) == IF Spot(i) = 0 THEN current[i] ELSE incoming[Spot(i)]
           kept == [i \in DOMAIN current |-> Old(i)]
           more == Picked(incoming, {i \in DOMAIN incoming : ~Continued(incoming[i], current)})
<1>1. graftWork(current, incoming) = kept \o more
  BY DEF graftWork, SelectInSeq
<1>2. more \in Seq(Rows)
  BY PickedTaken
<1>3. ASSUME NEW i \in 1..Len(current) PROVE Old(i) \in Rows /\ SameSlot(current[i], Old(i))
  <2>1. current[i] \in Rows
    OBVIOUS
  <2>2. CASE Spot(i) = 0
    BY <2>1, <2>2 DEF SameSlot
  <2>3. CASE Spot(i) # 0
    <3>1. Spots(i) # {} /\ Spot(i) = Min(Spots(i))
      BY <2>3
    <3>2. Min(Spots(i)) \in Spots(i)
      BY <3>1, Len(incoming) \in Nat, Spots(i) \in SUBSET (1..Len(incoming)), MinPlace
    <3>3. Spot(i) \in 1..Len(incoming) /\ SameSlot(current[i], incoming[Spot(i)])
      BY <3>1, <3>2
    <3> HIDE DEF Spot
    <3> QED BY <2>3, <3>3
  <2> QED BY <2>2, <2>3
<1> HIDE DEF more, Old
<1>4. kept \in Seq(Rows) /\ Len(kept) = Len(current) /\ \A i \in 1..Len(current) : kept[i] = Old(i)
  BY <1>3
<1> HIDE DEF kept
<1>5. /\ kept \o more \in Seq(Rows) /\ Len(kept \o more) = Len(kept) + Len(more)
      /\ \A i \in 1..Len(kept) : (kept \o more)[i] = kept[i]
      /\ Len(more) \in Nat /\ Len(kept) \in Nat
  BY <1>2, <1>4
<1> QED BY <1>1, <1>3, <1>4, <1>5

LEMMA MergeWorkType ==
  ASSUME NEW current \in Seq(Rows), NEW incoming \in Seq(Rows), NEW offset \in 0..Len(current)
  PROVE  /\ mergeWork(current, incoming, offset) \in Seq(Rows)
         /\ Len(mergeWork(current, incoming, offset)) >= Len(current)
         /\ \A row : Continued(row, current) => Continued(row, mergeWork(current, incoming, offset))
<1>1. CASE incoming = <<>>
  BY <1>1 DEF mergeWork
<1>2. CASE incoming # <<>>
  <2> DEFINE n == Len(current)
             before == SubSeq(current, 1, offset)
             after == SubSeq(current, offset + 1, n)
             graft == graftWork(after, incoming)
             new == before \o graft
  <2>1. mergeWork(current, incoming, offset) = new
    BY <1>2 DEF mergeWork
  <2>2. n \in Nat /\ offset \in Nat /\ offset <= n
    OBVIOUS
  <2>3. /\ before \in Seq(Rows) /\ Len(before) = offset
        /\ \A i \in 1..offset : before[i] = current[i]
    <3>1. \A i \in 1..offset : current[i] \in Rows
      BY <2>2
    <3>2. /\ SubSeq(current, 1, offset) \in Seq(Rows)
          /\ Len(SubSeq(current, 1, offset)) = IF 1 <= offset THEN offset - 1 + 1 ELSE 0
          /\ \A i \in 1..(offset - 1 + 1) : SubSeq(current, 1, offset)[i] = current[1 + i - 1]
      BY <3>1, 1 \in Int, offset \in Int, SubSeqProperties
    <3> QED BY <3>2, <2>2
  <2>4. /\ after \in Seq(Rows) /\ Len(after) = n - offset
        /\ \A i \in 1..(n - offset) : after[i] = current[offset + i]
    <3> DEFINE o == offset + 1
    <3>1. \A i \in o..n : current[i] \in Rows
      BY <2>2
    <3>2. o \in Int /\ n \in Int
      BY <2>2
    <3> HIDE DEF o, n
    <3>3. /\ SubSeq(current, o, n) \in Seq(Rows)
          /\ Len(SubSeq(current, o, n)) = IF o <= n THEN n - o + 1 ELSE 0
          /\ \A i \in 1..(n - o + 1) : SubSeq(current, o, n)[i] = current[o + i - 1]
      BY <3>1, <3>2, SubSeqProperties
    <3>4. n - o + 1 = n - offset /\ (o <= n \/ n - offset = 0)
          /\ \A i \in 1..(n - offset) : o + i - 1 = offset + i
      BY <2>2 DEF o
    <3>5. Len(SubSeq(current, o, n)) = n - offset
      BY <3>3, <3>4, <3>2, <2>2
    <3>6. \A i \in 1..(n - offset) : SubSeq(current, o, n)[i] = current[offset + i]
      BY <3>3, <3>4
    <3> QED BY <3>3, <3>5, <3>6 DEF o
  <2> HIDE DEF before, after
  <2>5. /\ graft \in Seq(Rows) /\ Len(graft) >= Len(after) /\ Len(graft) \in Nat
        /\ \A i \in 1..Len(after) : SameSlot(after[i], graft[i])
    BY <2>4, GraftType
  <2> HIDE DEF graft
  <2>6. /\ new \in Seq(Rows) /\ Len(new) = offset + Len(graft)
        /\ \A i \in 1..offset : new[i] = before[i]
        /\ \A i \in 1..Len(graft) : new[offset + i] = graft[i]
    <3>1. /\ new \in Seq(Rows) /\ Len(new) = Len(before) + Len(graft)
          /\ \A i \in 1..(Len(before) + Len(graft)) :
               new[i] = IF i <= Len(before) THEN before[i] ELSE graft[i - Len(before)]
      BY <2>3, <2>5, ConcatProperties
    <3> HIDE DEF new
    <3>2. ASSUME NEW i \in 1..offset PROVE new[i] = before[i]
      BY <3>1, <2>2, <2>3, <2>5
    <3>3. ASSUME NEW i \in 1..Len(graft) PROVE new[offset + i] = graft[i]
      <4> DEFINE k == offset + i
      <4>1. k \in 1..(Len(before) + Len(graft)) /\ ~(k <= Len(before)) /\ k - Len(before) = i
        BY <2>2, <2>3, <2>5
      <4> HIDE DEF k
      <4>2. new[k] = graft[i]
        BY <3>1, <4>1
      <4> QED BY <4>2 DEF k
    <3>4. Len(new) = offset + Len(graft)
      BY <3>1, <2>3
    <3> QED BY <3>1, <3>2, <3>3, <3>4
  <2>7. Len(new) >= n
    BY <2>2, <2>4, <2>5, <2>6
  <2>8. ASSUME NEW i \in 1..n PROVE i \in 1..Len(new) /\ SameSlot(current[i], new[i])
    <3>1. CASE i <= offset
      <4>1. i \in 1..offset
        BY <3>1, <2>2
      <4>2. new[i] = current[i]
        BY <4>1, <2>3, <2>6
      <4> QED BY <4>2, <2>2, <2>6, <2>7 DEF SameSlot
    <3>2. CASE i > offset
      <4> DEFINE k == i - offset
      <4>1. k \in 1..(n - offset) /\ offset + k = i /\ k \in 1..Len(graft) /\ k \in 1..Len(after)
        BY <3>2, <2>2, <2>4, <2>5
      <4> HIDE DEF k
      <4>2. after[k] = current[i] /\ new[i] = graft[k]
        BY <4>1, <2>4, <2>6
      <4>3. i \in 1..Len(new)
        BY <2>2, <2>6, <2>7
      <4> QED BY <4>1, <4>2, <4>3, <2>5
    <3> QED BY <3>1, <3>2, <2>2
  <2> HIDE DEF new
  <2>9. ASSUME NEW row, Continued(row, current) PROVE Continued(row, new)
    <3>1. PICK i \in 1..n : SameSlot(row, current[i])
      BY <2>9 DEF Continued
    <3>2. i \in 1..Len(new) /\ SameSlot(row, new[i])
      BY <3>1, <2>8 DEF SameSlot
    <3>3. DOMAIN new = 1..Len(new)
      BY <2>6
    <3> QED BY <3>2, <3>3 DEF Continued
  <2> QED BY <2>1, <2>6, <2>7, <2>9
<1> QED BY <1>1, <1>2

\* A message of the agent stays sound, with its tools, when another state of it is merged.
LEMMA MergeAssistantType ==
  ASSUME NEW c \in Chats, c.role = "assistant", NEW incoming \in Chats,
         NEW streaming \in BOOLEAN, NEW starts \in BOOLEAN
  PROVE  LET d == mergeAssistant(c, incoming, streaming, starts)
         IN  d \in Chats /\ d.role = "assistant" /\ d.tools = c.tools /\ d.streaming = streaming
<1> DEFINE offset == CASE starts -> Len(c.work)
                       [] ~starts /\ c.workOffset = -1 -> 0
                       [] OTHER -> c.workOffset
           work == mergeWork(c.work, incoming.work, offset)
           text == IF incoming.text # <<>> THEN incoming.text ELSE c.text
           error == IF incoming.error THEN TRUE ELSE c.error /\ incoming.text = <<>>
           d == mergeAssistant(c, incoming, streaming, starts)
<1>1. c \in ChatRecords /\ Sound(c) /\ incoming \in ChatRecords
  BY DEF Chats
<1>2. c.work \in Seq(Rows) /\ incoming.work \in Seq(Rows) /\ c.workOffset \in Nat \cup {-1}
      /\ c.workOffset <= Len(c.work) /\ Len(c.work) \in Nat
  BY <1>1 DEF ChatRecords, Sound
<1>3. offset \in 0..Len(c.work)
  <2>1. CASE starts
    BY <2>1, <1>2
  <2>2. CASE ~starts /\ c.workOffset = -1
    BY <2>2, <1>2
  <2>3. CASE ~starts /\ c.workOffset # -1
    BY <2>3, <1>2
  <2> QED BY <2>1, <2>2, <2>3
<1>4. d = [c EXCEPT !.streaming = streaming, !.interrupted = incoming.interrupted,
             !.stopReason = incoming.stopReason, !.workOffset = offset, !.text = text,
             !.work = work, !.error = error]
  BY DEF mergeAssistant
<1> HIDE DEF offset, d
<1>5. /\ work \in Seq(Rows) /\ Len(work) >= Len(c.work)
      /\ \A row : Continued(row, c.work) => Continued(row, work)
  BY <1>2, <1>3, MergeWorkType
<1>6. text \in Texts /\ error \in BOOLEAN
  BY <1>1 DEF ChatRecords
<1> HIDE DEF work, text, error
<1>7. /\ d.tools = c.tools /\ d.work = work /\ d.workOffset = offset /\ d.role = c.role
      /\ d.streaming = streaming /\ d.id = c.id
  BY <1>4, <1>1 DEF ChatRecords
<1>8. d \in ChatRecords
  <2>1. incoming.interrupted \in BOOLEAN /\ incoming.stopReason \in Stops /\ offset \in Nat \cup {-1}
    BY <1>1, <1>3 DEF ChatRecords
  <2> QED BY <1>1, <1>4, <1>5, <1>6, <2>1 DEF ChatRecords
<1>9. Sound(d)
  <2>1. offset <= Len(work)
    BY <1>2, <1>3, <1>5
  <2> QED BY <1>1, <1>5, <1>7, <2>1 DEF Sound
<1> QED BY <1>7, <1>8, <1>9 DEF Chats, d

---------------------------------------------------------------------------
(* What the events and the ends of a turn do to what is shown.             *)

\* Only tools of T run, and only in the last message.
OnlyRuns(ms, T) ==
  \A i \in 1..Len(ms) : \A t \in DOMAIN ms[i].tools :
    ms[i].tools[t].status = "running" => i = Len(ms) /\ t \in T

\* A message of the agent follows each one that is still being written.
Buried(ms) ==
  \A i \in 1..Len(ms) : ms[i].streaming =>
    \E k \in 1..Len(ms) : k > i /\ ms[k].role = "assistant"

\* The last message, when there is one.
LEMMA LastOf ==
  ASSUME NEW S, NEW ms \in Seq(S), NEW role
  PROVE  /\ LastIs(ms, role) => ms # <<>> /\ Last(ms) \in S /\ Last(ms) = ms[Len(ms)]
                                /\ Len(ms) \in Nat \ {0} /\ ms[Len(ms)].role = role
         /\ ms # <<>> /\ ms[Len(ms)].role = role => LastIs(ms, role)
BY FrontFacts DEF LastIs

LEMMA FinalizeType ==
  ASSUME NEW ms \in Seq(Chats), NEW interrupted \in BOOLEAN
  PROVE  LET new == finalizeInterruptedTurn(ms, interrupted)
         IN  /\ new \in Seq(Chats) /\ Len(new) = Len(ms)
             /\ \A i \in 1..Len(ms) : new[i].role = ms[i].role /\ ~new[i].streaming
             /\ \A T : OnlyRuns(ms, T) => OnlyRuns(new, {})
<1> DEFINE new == finalizeInterruptedTurn(ms, interrupted)
           last == LastIs(ms, "assistant")
           HadRunning(i) ==
             /\ last /\ i = Len(ms)
             /\ \E t \in DOMAIN ms[i].tools : ms[i].tools[t].status = "running"
           GiveUp(tool) ==
             IF tool.status = "running"
               THEN [tool EXCEPT !.status = "error", !.interrupted = TRUE] ELSE tool
           Hit(i) == last /\ i = Len(ms) /\ interrupted
           Tools(i) == IF HadRunning(i)
                         THEN [t \in DOMAIN ms[i].tools |-> GiveUp(ms[i].tools[t])] ELSE ms[i].tools
           Broken(i) == ms[i].interrupted \/ HadRunning(i) \/ Hit(i)
           Final(i) == IF ~ms[i].streaming /\ ~HadRunning(i) /\ ~Hit(i) THEN ms[i]
                       ELSE [ms[i] EXCEPT !.streaming = FALSE, !.tools = Tools(i),
                                          !.interrupted = Broken(i)]
<1>1. new = [i \in DOMAIN ms |-> Final(i)]
  BY DEF finalizeInterruptedTurn
<1>2. ASSUME NEW i \in 1..Len(ms)
      PROVE  /\ Final(i) \in Chats /\ Final(i).role = ms[i].role /\ ~Final(i).streaming
             /\ Final(i).tools = Tools(i)
  <2> DEFINE c == ms[i]
  <2>1. c \in Chats /\ c \in ChatRecords /\ Sound(c) /\ c.tools \in ToolSets
    BY DEF Chats, ChatRecords
  <2>2. Tools(i) \in ToolSets /\ DOMAIN Tools(i) = DOMAIN c.tools
    <3>1. CASE HadRunning(i)
      <4> DEFINE tools == [t \in DOMAIN c.tools |-> GiveUp(c.tools[t])]
      <4>1. ASSUME NEW tool \in ToolStates PROVE GiveUp(tool) \in ToolStates
        BY DEF ToolStates
      <4>2. DOMAIN c.tools \subseteq Slots /\ \A t \in DOMAIN c.tools : c.tools[t] \in ToolStates
        BY <2>1, ToolSetFacts
      <4>3. DOMAIN tools = DOMAIN c.tools /\ tools = [t \in DOMAIN tools |-> tools[t]]
        OBVIOUS
      <4>4. \A t \in DOMAIN tools : tools[t] \in ToolStates
        BY <4>1, <4>2, <4>3
      <4>5. Tools(i) = tools
        BY <3>1
      <4> HIDE DEF tools, Tools, HadRunning, GiveUp, c
      <4>6. tools \in ToolSets
        BY <4>2, <4>3, <4>4, ToolSetType
      <4> QED BY <4>3, <4>5, <4>6
    <3>2. CASE ~HadRunning(i)
      BY <2>1, <3>2
    <3> QED BY <3>1, <3>2
  <2>3. CASE ~c.streaming /\ ~HadRunning(i) /\ ~Hit(i)
    BY <2>1, <2>3
  <2>4. CASE ~(~c.streaming /\ ~HadRunning(i) /\ ~Hit(i))
    <3> DEFINE tools == Tools(i)
               broken == Broken(i)
               d == [c EXCEPT !.streaming = FALSE, !.tools = tools, !.interrupted = broken]
    <3>1. Final(i) = d
      BY <2>4
    <3>2. broken \in BOOLEAN
      BY <2>1 DEF ChatRecords
    <3>3. tools \in ToolSets /\ DOMAIN tools = DOMAIN c.tools
      BY <2>2
    <3> HIDE DEF tools, broken, c
    <3>4. /\ d.tools = tools /\ d.work = c.work /\ d.workOffset = c.workOffset /\ d.role = c.role
          /\ d.streaming = FALSE /\ d.id = c.id
      BY <2>1 DEF ChatRecords
    <3>5. d \in ChatRecords
      BY <2>1, <3>2, <3>3 DEF ChatRecords
    <3> HIDE DEF d
    <3>6. Sound(d)
      BY <2>1, <3>3, <3>4 DEF Sound
    <3> HIDE DEF Final, Tools
    <3> QED BY <3>1, <3>4, <3>5, <3>6 DEF Chats, tools, c
  <2> QED BY <2>3, <2>4
<1> HIDE DEF Final
<1>3. /\ new \in Seq(Chats) /\ Len(new) = Len(ms)
      /\ \A i \in 1..Len(ms) : new[i] = Final(i)
  <2> DEFINE kept == [i \in DOMAIN ms |-> Final(i)]
  <2>1. \A i \in 1..Len(ms) : Final(i) \in Chats
    BY <1>2
  <2>2. kept \in Seq(Chats) /\ Len(kept) = Len(ms) /\ \A i \in 1..Len(ms) : kept[i] = Final(i)
    BY <2>1
  <2> HIDE DEF kept, new
  <2> QED BY <1>1, <2>2 DEF kept
<1>4. ASSUME NEW T, OnlyRuns(ms, T) PROVE OnlyRuns(new, {})
  <2> SUFFICES ASSUME NEW i \in 1..Len(ms), NEW t \in DOMAIN new[i].tools,
                      new[i].tools[t].status = "running"
               PROVE FALSE
    BY <1>3 DEF OnlyRuns
  <2>1. new[i].tools = Tools(i)
    BY <1>2, <1>3
  <2>2. CASE HadRunning(i)
    <3>1. Tools(i) = [u \in DOMAIN ms[i].tools |-> GiveUp(ms[i].tools[u])]
      BY <2>2
    <3>2. t \in DOMAIN ms[i].tools /\ GiveUp(ms[i].tools[t]).status = "running"
      BY <2>1, <3>1
    <3>3. ms[i].tools[t] \in ToolStates
      BY <3>2, ToolSetFacts DEF Chats, ChatRecords
    <3> QED BY <3>2, <3>3 DEF ToolStates
  <2>3. CASE ~HadRunning(i)
    <3>1. t \in DOMAIN ms[i].tools /\ ms[i].tools[t].status = "running"
      BY <2>1, <2>3
    <3>2. i = Len(ms)
      BY <1>4, <3>1 DEF OnlyRuns
    <3>3. ms[i].role = "assistant"
      BY <3>1 DEF Chats, Sound, ChatRecords
    <3>4. last
      BY <3>2, <3>3, LastOf
    <3> QED BY <2>3, <3>1, <3>2, <3>4
  <2> QED BY <2>2, <2>3
<1> HIDE DEF new
<1>5. \A i \in 1..Len(ms) : new[i].role = ms[i].role /\ ~new[i].streaming
  BY <1>2, <1>3
<1> QED BY <1>3, <1>4, <1>5 DEF new

LEMMA SettleType ==
  ASSUME NEW ms \in Seq(Chats)
  PROVE  LET new == settleStoppedTurn(ms)
         IN  /\ new \in Seq(Chats) /\ Buried(new)
             /\ ms # <<>> => LastIs(new, "assistant")
             /\ \A T : OnlyRuns(ms, T) => OnlyRuns(new, {})
<1> DEFINE new == settleStoppedTurn(ms)
<1>1. ASSUME NEW broken \in BOOLEAN, new = finalizeInterruptedTurn(ms, broken), ~LastIs(ms, "user")
      PROVE  /\ new \in Seq(Chats) /\ Buried(new)
             /\ ms # <<>> => LastIs(new, "assistant")
             /\ \A T : OnlyRuns(ms, T) => OnlyRuns(new, {})
  <2>1. /\ new \in Seq(Chats) /\ Len(new) = Len(ms)
        /\ \A i \in 1..Len(ms) : new[i].role = ms[i].role /\ ~new[i].streaming
        /\ \A T : OnlyRuns(ms, T) => OnlyRuns(new, {})
    BY <1>1, FinalizeType
  <2> HIDE DEF new
  <2>2. Buried(new)
    BY <2>1 DEF Buried
  <2>3. ASSUME ms # <<>> PROVE LastIs(new, "assistant")
    <3>1. Len(ms) \in 1..Len(ms) /\ ms[Len(ms)] \in Chats
      BY <2>3
    <3>2. ms[Len(ms)].role \in {"user", "assistant"} /\ ms[Len(ms)].role # "user"
      BY <1>1, <2>3, <3>1, LastOf DEF Chats, ChatRecords
    <3>3. new # <<>> /\ new[Len(new)].role = "assistant"
      BY <2>1, <3>1, <3>2
    <3> QED BY <2>1, <3>3, LastOf
  <2> QED BY <2>1, <2>2, <2>3
<1>2. CASE LastIs(ms, "user")
  <2> DEFINE d == [Chat("assistant", <<>>) EXCEPT !.interrupted = TRUE]
             n == Len(ms)
  <2>1. ms # <<>> /\ n \in Nat \ {0} /\ ms[n].role = "user" /\ Last(ms) = ms[n]
    BY <1>2, LastOf
  <2>2. ~(LastIs(ms, "assistant") /\ Last(ms).stopReason = "stop")
    BY <2>1 DEF LastIs
  <2>3. new = Append(ms, d)
    BY <1>2, <2>2 DEF settleStoppedTurn
  <2>4. d \in Chats /\ d.role = "assistant" /\ ~d.streaming /\ DOMAIN d.tools = {}
    <3> DEFINE c == Chat("assistant", <<>>)
    <3>1. <<>> \in Texts
      BY DEF Texts
    <3>2. c \in StillChats
      BY <3>1, ChatType
    <3>3. c.role = "assistant" /\ ~c.streaming /\ DOMAIN c.tools = {}
      BY NoTools DEF Chat
    <3> HIDE DEF c
    <3>4. c \in ChatRecords /\ Sound(c)
      BY <3>2 DEF StillChats, Chats
    <3>5. d = [c EXCEPT !.interrupted = TRUE]
      BY DEF c
    <3> HIDE DEF d
    <3>6. d \in ChatRecords /\ d.tools = c.tools /\ d.work = c.work /\ d.workOffset = c.workOffset
          /\ d.role = c.role /\ d.streaming = c.streaming /\ d.id = c.id
      BY <3>4, <3>5 DEF ChatRecords
    <3>7. Sound(d)
      BY <3>3, <3>4, <3>6 DEF Sound
    <3> QED BY <3>3, <3>6, <3>7 DEF Chats
  <2> HIDE DEF d
  <2>5. /\ new \in Seq(Chats) /\ Len(new) = n + 1 /\ new[n + 1] = d
        /\ \A i \in 1..n : new[i] = ms[i]
    BY <2>3, <2>4
  <2> HIDE DEF new
  <2>6. Buried(new)
    <3> SUFFICES ASSUME NEW i \in 1..Len(new), new[i].streaming
                 PROVE \E k \in 1..Len(new) : k > i /\ new[k].role = "assistant"
      BY DEF Buried
    <3>1. i # n + 1
      BY <2>4, <2>5
    <3>2. n + 1 > i /\ n + 1 \in 1..Len(new)
      BY <3>1, <2>1, <2>5
    <3> QED BY <3>2, <2>4, <2>5
  <2>7. LastIs(new, "assistant")
    <3>1. new # <<>> /\ new[Len(new)].role = "assistant"
      BY <2>1, <2>4, <2>5
    <3> QED BY <3>1, <2>5, LastOf
  <2>8. ASSUME NEW T, OnlyRuns(ms, T) PROVE OnlyRuns(new, {})
    <3> SUFFICES ASSUME NEW i \in 1..Len(new), NEW t \in DOMAIN new[i].tools,
                        new[i].tools[t].status = "running"
                 PROVE FALSE
      BY DEF OnlyRuns
    <3>1. i # n + 1
      BY <2>4, <2>5
    <3>2. i \in 1..n /\ new[i] = ms[i]
      BY <3>1, <2>1, <2>5
    <3>3. i = n
      BY <3>2, <2>8 DEF OnlyRuns
    <3>4. ms[n] \in Chats /\ DOMAIN ms[n].tools = {}
      BY <2>1 DEF Chats, Sound
    <3> QED BY <3>2, <3>3, <3>4
  <2> QED BY <2>5, <2>6, <2>7, <2>8 DEF new
<1>3. CASE ~LastIs(ms, "user")
  <2>1. \E broken \in BOOLEAN : new = finalizeInterruptedTurn(ms, broken)
    BY <1>3 DEF settleStoppedTurn
  <2>2. PICK broken \in BOOLEAN : new = finalizeInterruptedTurn(ms, broken)
    BY <2>1
  <2> HIDE DEF new
  <2> QED BY <1>1, <1>3, <2>2 DEF new
<1> QED BY <1>2, <1>3

LEMMA FailType ==
  ASSUME NEW ms \in Seq(Chats)
  PROVE  LET new == failActiveTurn(ms)
         IN  /\ new \in Seq(Chats) /\ Buried(new)
             /\ ms # <<>> => LastIs(new, "assistant")
             /\ \A T : OnlyRuns(ms, T) => OnlyRuns(new, {})
<1> DEFINE old == settleStoppedTurn(ms)
           new == failActiveTurn(ms)
           c == Last(old)
           d == [c EXCEPT !.error = TRUE, !.interrupted = TRUE, !.streaming = FALSE]
           n == Len(old)
<1>1. /\ old \in Seq(Chats) /\ Buried(old)
      /\ ms # <<>> => LastIs(old, "assistant")
      /\ \A T : OnlyRuns(ms, T) => OnlyRuns(old, {})
  BY SettleType
<1>2. new = IF ~LastIs(old, "assistant") THEN old ELSE Append(Front(old), d)
  BY DEF failActiveTurn, WithLast
<1> HIDE DEF old, new
<1>3. CASE ~LastIs(old, "assistant")
  BY <1>1, <1>2, <1>3 DEF new
<1>4. CASE LastIs(old, "assistant")
  <2>1. old # <<>> /\ c \in Chats /\ c = old[n] /\ n \in Nat \ {0} /\ c.role = "assistant"
    BY <1>1, <1>4, LastOf
  <2> HIDE DEF c, n
  <2>2. d \in Chats /\ d.tools = c.tools /\ d.role = "assistant" /\ ~d.streaming
    <3>1. c \in ChatRecords /\ Sound(c)
      BY <2>1 DEF Chats
    <3>2. d \in ChatRecords /\ d.tools = c.tools /\ d.work = c.work /\ d.workOffset = c.workOffset
          /\ d.role = c.role /\ d.streaming = FALSE /\ d.id = c.id
      BY <3>1 DEF ChatRecords
    <3> HIDE DEF d
    <3>3. Sound(d)
      BY <3>1, <3>2 DEF Sound
    <3> QED BY <2>1, <3>2, <3>3 DEF Chats
  <2> HIDE DEF d
  <2>3. /\ new \in Seq(Chats) /\ Len(new) = n /\ new[n] = d
        /\ \A i \in 1..(n - 1) : new[i] = old[i]
    <3> DEFINE s == Append(Front(old), d)
    <3>1. /\ s \in Seq(Chats) /\ Len(s) = Len(old) /\ s[Len(old)] = d
          /\ \A i \in 1..(Len(old) - 1) : s[i] = old[i]
      BY <1>1, <2>1, <2>2, WithLastFacts
    <3>2. new = s
      BY <1>2, <1>4
    <3> QED BY <3>1, <3>2 DEF n
  <2>4. LastIs(new, "assistant")
    <3>1. new # <<>> /\ new[Len(new)].role = "assistant"
      BY <2>1, <2>2, <2>3
    <3> QED BY <2>3, <3>1, LastOf
  <2>5. Buried(new)
    <3> SUFFICES ASSUME NEW i \in 1..Len(new), new[i].streaming
                 PROVE \E k \in 1..Len(new) : k > i /\ new[k].role = "assistant"
      BY DEF Buried
    <3>1. i # n
      BY <2>2, <2>3
    <3>2. n > i /\ n \in 1..Len(new)
      BY <3>1, <2>1, <2>3
    <3> QED BY <3>2, <2>2, <2>3
  <2>6. ASSUME NEW T, OnlyRuns(ms, T) PROVE OnlyRuns(new, {})
    <3> SUFFICES ASSUME NEW i \in 1..Len(new), NEW t \in DOMAIN new[i].tools,
                        new[i].tools[t].status = "running"
                 PROVE FALSE
      BY DEF OnlyRuns
    <3>1. OnlyRuns(old, {})
      BY <1>1, <2>6
    <3>2. new[i].tools = old[i].tools /\ i \in 1..n
      <4>1. CASE i = n
        BY <4>1, <2>1, <2>2, <2>3
      <4>2. CASE i # n
        <5>1. i \in 1..(n - 1)
          BY <4>2, <2>1, <2>3
        <5> QED BY <5>1, <2>1, <2>3
      <4> QED BY <4>1, <4>2
    <3> QED BY <3>1, <3>2 DEF OnlyRuns, n
  <2> QED BY <2>3, <2>4, <2>5, <2>6 DEF new
<1> QED BY <1>3, <1>4 DEF new

\* A message takes the place of the last one, or comes after it.
LEMMA ReplacedLast ==
  ASSUME NEW ms \in Seq(Chats), ms # <<>>, NEW d \in Chats
  PROVE  LET new == WithLast(ms, d)
         IN  /\ new \in Seq(Chats) /\ LastIs(new, d.role)
             /\ \A T : /\ OnlyRuns(ms, T)
                       /\ \A t \in DOMAIN d.tools : d.tools[t].status = "running" => t \in T
                       => OnlyRuns(new, T)
<1> DEFINE n == Len(ms)
           new == Append(Front(ms), d)
<1>1. /\ new \in Seq(Chats) /\ Len(new) = n /\ n \in Nat \ {0} /\ new[n] = d
      /\ \A i \in 1..(n - 1) : new[i] = ms[i]
  BY WithLastFacts
<1> HIDE DEF new
<1>2. LastIs(new, d.role)
  <2>1. new # <<>> /\ new[Len(new)].role = d.role
    BY <1>1
  <2> QED BY <1>1, <2>1, LastOf
<1>3. ASSUME NEW T, OnlyRuns(ms, T),
             \A t \in DOMAIN d.tools : d.tools[t].status = "running" => t \in T
      PROVE  OnlyRuns(new, T)
  <2> SUFFICES ASSUME NEW i \in 1..Len(new), NEW t \in DOMAIN new[i].tools,
                      new[i].tools[t].status = "running"
               PROVE i = Len(new) /\ t \in T
    BY DEF OnlyRuns
  <2>1. CASE i = n
    BY <2>1, <1>1, <1>3
  <2>2. CASE i # n
    <3>1. i \in 1..(n - 1) /\ i \in 1..n /\ new[i] = ms[i]
      BY <2>2, <1>1
    <3>2. i = n
      BY <3>1, <1>3 DEF OnlyRuns
    <3> QED BY <2>2, <3>2
  <2> QED BY <2>1, <2>2
<1> QED BY <1>1, <1>2, <1>3 DEF new, WithLast

LEMMA Appended ==
  ASSUME NEW ms \in Seq(Chats), NEW d \in Chats
  PROVE  LET new == Append(ms, d)
         IN  /\ new \in Seq(Chats) /\ LastIs(new, d.role)
             /\ OnlyRuns(ms, {}) /\ (\A t \in DOMAIN d.tools : d.tools[t].status # "running")
                => OnlyRuns(new, {})
             /\ Buried(ms) /\ ~d.streaming => Buried(new)
<1> DEFINE n == Len(ms)
           new == Append(ms, d)
<1>1. /\ new \in Seq(Chats) /\ Len(new) = n + 1 /\ n \in Nat /\ new[n + 1] = d
      /\ \A i \in 1..n : new[i] = ms[i]
  OBVIOUS
<1> HIDE DEF new
<1>2. LastIs(new, d.role)
  <2>1. new # <<>> /\ new[Len(new)].role = d.role
    BY <1>1
  <2> QED BY <1>1, <2>1, LastOf
<1>3. ASSUME OnlyRuns(ms, {}), \A t \in DOMAIN d.tools : d.tools[t].status # "running"
      PROVE  OnlyRuns(new, {})
  <2> SUFFICES ASSUME NEW i \in 1..Len(new), NEW t \in DOMAIN new[i].tools,
                      new[i].tools[t].status = "running"
               PROVE FALSE
    BY DEF OnlyRuns
  <2>1. CASE i = n + 1
    BY <2>1, <1>1, <1>3
  <2>2. CASE i # n + 1
    <3>1. i \in 1..n /\ new[i] = ms[i]
      BY <2>2, <1>1
    <3> QED BY <3>1, <1>3 DEF OnlyRuns
  <2> QED BY <2>1, <2>2
<1>4. ASSUME Buried(ms), ~d.streaming PROVE Buried(new)
  <2> SUFFICES ASSUME NEW i \in 1..Len(new), new[i].streaming
               PROVE \E k \in 1..Len(new) : k > i /\ new[k].role = "assistant"
    BY DEF Buried
  <2>1. i # n + 1
    BY <1>1, <1>4
  <2>2. i \in 1..n /\ new[i] = ms[i]
    BY <2>1, <1>1
  <2>3. PICK k \in 1..n : k > i /\ ms[k].role = "assistant"
    BY <2>2, <1>4 DEF Buried
  <2> QED BY <2>3, <1>1
<1> QED BY <1>1, <1>2, <1>3, <1>4 DEF new

LEMMA UserMessageType ==
  ASSUME NEW ms \in Seq(Chats), NEW e \in MessageEvents, e.record \in UserRecords
  PROVE  /\ ApplyUserMessage(ms, e) \in Seq(Chats)
         /\ OnlyRuns(ms, {}) => OnlyRuns(ApplyUserMessage(ms, e), {})
<1> DEFINE c == messageFromRecord(e.record)
<1>1. c \in Chats /\ \A t \in DOMAIN c.tools : c.tools[t].status # "running"
  BY FromRecordType DEF StillChats, Still
<1>2. ApplyUserMessage(ms, e) = ms \/ ApplyUserMessage(ms, e) = Append(ms, c)
  BY DEF ApplyUserMessage
<1> HIDE DEF c
<1> QED BY <1>1, <1>2, Appended

LEMMA AgentMessageType ==
  ASSUME NEW ms \in Seq(Chats), NEW e \in MessageEvents, e.record \in AgentRecords
  PROVE  /\ ApplyAgentMessage(ms, e) \in Seq(Chats)
         /\ LastIs(ApplyAgentMessage(ms, e), "assistant")
         /\ OnlyRuns(ms, {}) => OnlyRuns(ApplyAgentMessage(ms, e), {})
<1> DEFINE c == messageFromRecord(e.record)
           streaming == e.type # "message_end"
<1>1. c \in Chats /\ c.role = "assistant" /\ \A t \in DOMAIN c.tools : c.tools[t].status # "running"
  BY FromRecordType DEF StillChats, Still, AgentRecords
<1>2. streaming \in BOOLEAN
  OBVIOUS
<1>3. CASE LastIs(ms, "assistant")
  <2> DEFINE on == streaming \/ c.text = <<>>
             starts == e.type = "message_start"
             l == Last(ms)
             d == mergeAssistant(l, c, on, starts)
  <2>1. ApplyAgentMessage(ms, e) = WithLast(ms, d)
    BY <1>3 DEF ApplyAgentMessage
  <2>2. ms # <<>> /\ Last(ms) \in Chats /\ Last(ms).role = "assistant" /\ Last(ms) = ms[Len(ms)]
        /\ Len(ms) \in 1..Len(ms)
    BY <1>3, LastOf
  <2>3. on \in BOOLEAN /\ starts \in BOOLEAN
    OBVIOUS
  <2> HIDE DEF on, starts, c, l
  <2>4. d \in Chats /\ d.role = "assistant" /\ d.tools = l.tools
    <3>1. l \in Chats /\ l.role = "assistant"
      BY <2>2 DEF l
    <3>2. c \in Chats
      BY <1>1
    <3> QED BY <2>3, <3>1, <3>2, MergeAssistantType
  <2> HIDE DEF d
  <2>5. OnlyRuns(ms, {}) => \A t \in DOMAIN d.tools : d.tools[t].status = "running" => t \in {}
    BY <2>2, <2>4 DEF OnlyRuns, l
  <2> QED BY <2>1, <2>2, <2>4, <2>5, ReplacedLast
<1>4. CASE ~LastIs(ms, "assistant")
  <2> DEFINE d == [c EXCEPT !.streaming = streaming]
  <2>1. ApplyAgentMessage(ms, e) = Append(ms, d)
    BY <1>4 DEF ApplyAgentMessage
  <2>2. c \in ChatRecords /\ Sound(c)
    BY <1>1 DEF Chats
  <2> HIDE DEF c, streaming
  <2>3. d \in ChatRecords /\ d.tools = c.tools /\ d.work = c.work /\ d.workOffset = c.workOffset
        /\ d.role = "assistant" /\ d.id = c.id
    BY <1>1, <1>2, <2>2 DEF ChatRecords
  <2> HIDE DEF d
  <2>4. d \in Chats
    BY <1>1, <2>2, <2>3 DEF Sound, Chats
  <2> QED BY <1>1, <2>1, <2>3, <2>4, Appended
<1> QED BY <1>3, <1>4

LEMMA AgentEndType ==
  ASSUME NEW ms \in Seq(Chats), NEW e \in EndEvents
  PROVE  /\ ApplyAgentEnd(ms, e) \in Seq(Chats)
         /\ OnlyRuns(ms, {}) => OnlyRuns(ApplyAgentEnd(ms, e), {})
<1> DEFINE c == messageFromRecord(e.record)
           new == ApplyAgentEnd(ms, e)
<1>1. CASE new = ms
  BY <1>1
<1>2. CASE e.record.role = "assistant" /\ LastIs(ms, "assistant")
           /\ new = WithLast(ms, [Last(ms) EXCEPT !.streaming = FALSE, !.error = TRUE])
  <2> DEFINE l == Last(ms)
             d == [l EXCEPT !.streaming = FALSE, !.error = TRUE]
  <2>1. ms # <<>> /\ l \in Chats /\ l = ms[Len(ms)] /\ Len(ms) \in 1..Len(ms)
    BY <1>2, LastOf
  <2>2. l \in ChatRecords /\ Sound(l)
    BY <2>1 DEF Chats
  <2>3. new = WithLast(ms, d)
    BY <1>2
  <2> HIDE DEF l
  <2>4. d \in ChatRecords /\ d.tools = l.tools /\ d.work = l.work /\ d.workOffset = l.workOffset
        /\ d.role = l.role /\ d.id = l.id /\ d.streaming = FALSE
    BY <2>2 DEF ChatRecords
  <2> HIDE DEF d
  <2>5. d \in Chats
    BY <2>2, <2>4 DEF Sound, Chats
  <2>6. OnlyRuns(ms, {}) => \A t \in DOMAIN d.tools : d.tools[t].status = "running" => t \in {}
    BY <2>1, <2>4 DEF OnlyRuns
  <2> HIDE DEF new
  <2>7. new \in Seq(Chats) /\ (OnlyRuns(ms, {}) => OnlyRuns(new, {}))
    BY <2>1, <2>3, <2>5, <2>6, ReplacedLast
  <2> QED BY <2>7 DEF new
<1>3. CASE e.record.role = "assistant" /\ new = Append(ms, c)
  <2>1. e.record \in AgentRecords
    BY <1>3 DEF EndEvents, Records, UserRecords, ResultRecords
  <2>2. c \in Chats /\ \A t \in DOMAIN c.tools : c.tools[t].status # "running"
    BY <2>1, FromRecordType DEF StillChats, Still
  <2> HIDE DEF c, new
  <2>3. new \in Seq(Chats) /\ (OnlyRuns(ms, {}) => OnlyRuns(new, {}))
    BY <1>3, <2>2, Appended
  <2> QED BY <2>3 DEF new
<1>4. \/ new = ms
      \/ e.record.role = "assistant" /\ new = MarkFailed(ms, c)
  BY DEF ApplyAgentEnd
<1> QED BY <1>1, <1>2, <1>3, <1>4 DEF MarkFailed

LEMMA UpsertType ==
  ASSUME NEW ms \in Seq(Chats), NEW tool \in Slots, NEW status \in {"running", "complete", "error"}
  PROVE  LET new == upsertLastAssistantTool(ms, tool, status)
         IN  /\ new \in Seq(Chats)
             /\ LastIs(ms, "assistant") => LastIs(new, "assistant")
             /\ LastIs(ms, "assistant") /\ OnlyRuns(ms, {tool})
                => OnlyRuns(new, IF status = "running" THEN {tool} ELSE {})
<1> DEFINE I == {i \in 1..Len(ms) : ms[i].role = "assistant"}
           index == IF I # {} THEN Max(I) ELSE 0
           base == IF index = 0 THEN Append(ms, Chat("assistant", <<>>)) ELSE ms
           at == IF index = 0 THEN Len(base) ELSE index
           c == base[at]
           before == IF HasTool(c, tool) THEN c.tools[tool]
                     ELSE [CalledTool EXCEPT !.status = "running"]
           activity == [before EXCEPT !.status = status, !.recorded = @ \/ status # "running"]
           tools == [t \in DOMAIN c.tools \cup {tool} |->
                       IF t = tool THEN activity ELSE c.tools[t]]
           work == IF Continued(ToolRow(tool), c.work) THEN c.work
                   ELSE Append(c.work, ToolRow(tool))
           d == [c EXCEPT !.tools = tools, !.work = work]
           new == upsertLastAssistantTool(ms, tool, status)
<1>1. new = [base EXCEPT ![at] = d]
  BY DEF upsertLastAssistantTool, SelectLastInSeq
<1>2. I # {} => Max(I) \in I /\ \A i \in I : Max(I) >= i
  <2>1. Len(ms) \in Nat /\ I \in SUBSET (1..Len(ms))
    OBVIOUS
  <2> HIDE DEF I
  <2> QED BY <2>1, LastPlace
<1>3. base \in Seq(Chats) /\ at \in 1..Len(base) /\ c \in Chats /\ c.role = "assistant"
  <2>1. CASE I # {}
    <3>1. Max(I) \in 1..Len(ms) /\ ms[Max(I)].role = "assistant" /\ Max(I) # 0
      BY <1>2, <2>1
    <3>2. base = ms /\ at = Max(I)
      BY <2>1, <3>1
    <3> HIDE DEF I, base, at
    <3> QED BY <3>1, <3>2
  <2>2. CASE I = {}
    <3> DEFINE x == Chat("assistant", <<>>)
    <3>1. base = Append(ms, x) /\ at = Len(base)
      BY <2>2
    <3>2. x \in Chats /\ x.role = "assistant"
      <4>1. <<>> \in Texts
        BY DEF Texts
      <4>2. x \in StillChats
        BY <4>1, ChatType
      <4>3. x.role = "assistant"
        BY DEF Chat
      <4> QED BY <4>2, <4>3 DEF StillChats
    <3> HIDE DEF x, base, at
    <3> QED BY <3>1, <3>2
  <2> QED BY <2>1, <2>2
<1>4. ASSUME LastIs(ms, "assistant") PROVE base = ms /\ at = Len(ms)
  <2>1. Len(ms) \in I
    BY <1>4, LastOf
  <2>2. Max(I) \in 1..Len(ms) /\ Max(I) >= Len(ms)
    BY <1>2, <2>1
  <2>3. index = Len(ms) /\ index # 0
    BY <2>1, <2>2
  <2> QED BY <2>3
<1> HIDE DEF base, at, c, new
<1>5. c \in ChatRecords /\ Sound(c) /\ c.tools \in ToolSets /\ c.work \in Seq(Rows)
  BY <1>3 DEF Chats, ChatRecords
<1>6. activity \in ToolStates /\ activity.status = status
  <2>1. before \in ToolStates
    BY <1>5, ToolSetFacts DEF HasTool, CalledTool, ToolStates
  <2> HIDE DEF before
  <2> QED BY <2>1 DEF ToolStates
<1> HIDE DEF activity
<1>7. tools \in ToolSets /\ DOMAIN tools = DOMAIN c.tools \cup {tool}
      /\ tools[tool] = activity /\ \A t \in DOMAIN tools : t # tool => tools[t] = c.tools[t]
  <2>1. DOMAIN c.tools \subseteq Slots /\ \A t \in DOMAIN c.tools : c.tools[t] \in ToolStates
    BY <1>5, ToolSetFacts
  <2>2. DOMAIN tools = DOMAIN c.tools \cup {tool} /\ tools = [t \in DOMAIN tools |-> tools[t]]
        /\ tools[tool] = activity /\ \A t \in DOMAIN tools : t # tool => tools[t] = c.tools[t]
    OBVIOUS
  <2>3. DOMAIN tools \subseteq Slots /\ \A t \in DOMAIN tools : tools[t] \in ToolStates
    BY <1>6, <2>1, <2>2
  <2> HIDE DEF tools
  <2> QED BY <2>2, <2>3, ToolSetType
<1> HIDE DEF tools
<1>8. ToolRow(tool) \in Rows
  BY DEF ToolRow, Row, Rows, Texts
<1>9. /\ work \in Seq(Rows) /\ Len(work) >= Len(c.work) /\ Continued(ToolRow(tool), work)
      /\ \A row : Continued(row, c.work) => Continued(row, work)
  <2> DEFINE row0 == ToolRow(tool)
             more == Append(c.work, row0)
  <2>1. /\ more \in Seq(Rows) /\ Continued(row0, more)
        /\ \A row : Continued(row, c.work) => Continued(row, more)
    <3> HIDE DEF row0
    <3> QED BY <1>5, <1>8, AppendContinued DEF row0
  <2>2. Len(more) >= Len(c.work) /\ Len(c.work) \in Nat
    BY <1>5, <1>8
  <2>3. CASE Continued(row0, c.work)
    BY <1>5, <2>2, <2>3
  <2>4. CASE ~Continued(row0, c.work)
    <3>1. work = more
      BY <2>4
    <3> HIDE DEF work, more, row0
    <3>2. /\ work \in Seq(Rows) /\ Len(work) >= Len(c.work) /\ Continued(row0, work)
          /\ \A row : Continued(row, c.work) => Continued(row, work)
      BY <2>1, <2>2, <3>1
    <3> QED BY <3>2 DEF row0
  <2> QED BY <2>3, <2>4
<1> HIDE DEF work
<1>10. d \in ChatRecords /\ d.tools = tools /\ d.work = work /\ d.workOffset = c.workOffset
       /\ d.role = c.role /\ d.id = c.id /\ d.streaming = c.streaming
  BY <1>5, <1>7, <1>9 DEF ChatRecords
<1> HIDE DEF d
<1>11. Sound(d)
  <2>1. c.workOffset <= Len(work)
    BY <1>5, <1>9 DEF Sound, ChatRecords
  <2>2. \A t \in DOMAIN d.tools : Continued(ToolRow(t), d.work)
    BY <1>5, <1>7, <1>9, <1>10 DEF Sound
  <2> QED BY <1>3, <1>5, <1>10, <2>1, <2>2 DEF Sound
<1>12. d \in Chats
  BY <1>10, <1>11 DEF Chats
<1>13. /\ new \in Seq(Chats) /\ Len(new) = Len(base) /\ new[at] = d
       /\ \A i \in 1..Len(base) : i # at => new[i] = base[i]
  BY <1>1, <1>3, <1>12
<1>14. ASSUME LastIs(ms, "assistant") PROVE LastIs(new, "assistant")
  <2>1. new # <<>> /\ new[Len(new)].role = "assistant"
    BY <1>3, <1>4, <1>10, <1>13, <1>14
  <2> QED BY <1>13, <2>1, LastOf
<1>15. ASSUME LastIs(ms, "assistant"), OnlyRuns(ms, {tool})
       PROVE  OnlyRuns(new, IF status = "running" THEN {tool} ELSE {})
  <2> DEFINE T == IF status = "running" THEN {tool} ELSE {}
  <2> SUFFICES ASSUME NEW i \in 1..Len(new), NEW t \in DOMAIN new[i].tools,
                      new[i].tools[t].status = "running"
               PROVE i = Len(new) /\ t \in T
    BY DEF OnlyRuns
  <2>0. base = ms /\ at = Len(ms) /\ Len(new) = Len(ms) /\ c = ms[at] /\ at \in 1..Len(ms)
    BY <1>3, <1>4, <1>13, <1>15 DEF c
  <2>1. CASE i = at
    <3>1. t \in DOMAIN tools /\ tools[t].status = "running"
      BY <2>1, <1>10, <1>13
    <3>2. CASE t = tool
      BY <1>6, <1>7, <2>0, <2>1, <3>1, <3>2
    <3>3. CASE t # tool
      <4>1. t \in DOMAIN c.tools /\ c.tools[t].status = "running"
        BY <1>7, <3>1, <3>3
      <4>2. t \in {tool}
        BY <4>1, <2>0, <1>15 DEF OnlyRuns
      <4> QED BY <4>2, <3>3
    <3> QED BY <3>2, <3>3
  <2>2. CASE i # at
    <3>1. i \in 1..Len(ms) /\ new[i] = ms[i]
      BY <2>0, <2>2, <1>13
    <3>2. i = Len(ms)
      BY <3>1, <1>15 DEF OnlyRuns
    <3> QED BY <2>0, <2>2, <3>2
  <2> QED BY <2>1, <2>2
<1> QED BY <1>13, <1>14, <1>15 DEF new

\* An event of the agent, of each kind.
LEMMA EventKinds ==
  ASSUME NEW ms \in Seq(Chats), NEW e \in Events
  PROVE  /\ applyAgentEvent(ms, e) \in Seq(Chats)
         /\ e \in MessageEvents /\ e.record \in AgentRecords => LastIs(applyAgentEvent(ms, e), "assistant")
         /\ (e \in MessageEvents \/ e \in EndEvents) /\ OnlyRuns(ms, {})
            => OnlyRuns(applyAgentEvent(ms, e), {})
         /\ e \in ToolEvents /\ LastIs(ms, "assistant") =>
              /\ LastIs(applyAgentEvent(ms, e), "assistant")
              /\ OnlyRuns(ms, {e.tool}) =>
                   OnlyRuns(applyAgentEvent(ms, e),
                            IF e.type = "tool_execution_end" THEN {} ELSE {e.tool})
         /\ e = Settled => /\ \A i \in 1..Len(applyAgentEvent(ms, e)) :
                                ~applyAgentEvent(ms, e)[i].streaming
                           /\ \A T : OnlyRuns(ms, T) => OnlyRuns(applyAgentEvent(ms, e), {})
<1> DEFINE new == applyAgentEvent(ms, e)
<1>1. CASE e \in MessageEvents /\ e.record \in UserRecords
  <2>1. e.type \in MessageTypes /\ e.record.role = "user"
    BY <1>1 DEF MessageEvents, UserRecords
  <2>2. new = ApplyUserMessage(ms, e)
    BY <2>1 DEF applyAgentEvent, MessageTypes, ToolTypes
  <2>3. e \notin ToolEvents /\ e # Settled /\ e.record \notin AgentRecords
    BY <2>1 DEF ToolEvents, ToolTypes, Settled, MessageTypes, AgentRecords
  <2> HIDE DEF new
  <2>4. new \in Seq(Chats) /\ (OnlyRuns(ms, {}) => OnlyRuns(new, {}))
    BY <1>1, <2>2, UserMessageType
  <2> QED BY <2>3, <2>4 DEF new
<1>2. CASE e \in MessageEvents /\ e.record \in AgentRecords
  <2>1. e.type \in MessageTypes /\ e.record.role = "assistant"
    BY <1>2 DEF MessageEvents, AgentRecords
  <2>2. new = ApplyAgentMessage(ms, e)
    BY <2>1 DEF applyAgentEvent, MessageTypes, ToolTypes
  <2>3. e \notin ToolEvents /\ e # Settled
    BY <2>1 DEF ToolEvents, ToolTypes, Settled, MessageTypes
  <2> HIDE DEF new
  <2>4. new \in Seq(Chats) /\ LastIs(new, "assistant") /\ (OnlyRuns(ms, {}) => OnlyRuns(new, {}))
    BY <1>2, <2>2, AgentMessageType
  <2> QED BY <2>3, <2>4 DEF new
<1>3. CASE e \in ToolEvents
  <2> DEFINE status == IF e.type = "tool_execution_end" THEN ToolOutcome(e.error) ELSE "running"
  <2>1. e.type \in ToolTypes /\ e.tool \in Slots
    BY <1>3 DEF ToolEvents
  <2>2. new = upsertLastAssistantTool(ms, e.tool, status)
    BY <2>1 DEF applyAgentEvent, MessageTypes, ToolTypes, ApplyToolEvent
  <2>3. e \notin MessageEvents /\ e \notin EndEvents /\ e # Settled
    BY <2>1 DEF MessageEvents, EndEvents, ToolTypes, Settled, MessageTypes
  <2>4. /\ status \in {"running", "complete", "error"}
        /\ status = "running" <=> e.type # "tool_execution_end"
    BY DEF ToolOutcome
  <2> HIDE DEF new, status
  <2>5. /\ new \in Seq(Chats)
        /\ LastIs(ms, "assistant") => LastIs(new, "assistant")
        /\ LastIs(ms, "assistant") /\ OnlyRuns(ms, {e.tool})
           => OnlyRuns(new, IF status = "running" THEN {e.tool} ELSE {})
    BY <2>1, <2>2, <2>4, UpsertType
  <2>6. (IF status = "running" THEN {e.tool} ELSE {})
          = IF e.type = "tool_execution_end" THEN {} ELSE {e.tool}
    BY <2>4
  <2> QED BY <2>3, <2>5, <2>6 DEF new
<1>4. CASE e \in EndEvents
  <2>1. e.type = "agent_end"
    BY <1>4 DEF EndEvents
  <2>2. new = ApplyAgentEnd(ms, e)
    BY <2>1 DEF applyAgentEvent, MessageTypes, ToolTypes
  <2>3. e \notin MessageEvents /\ e \notin ToolEvents /\ e # Settled
    BY <2>1 DEF MessageEvents, ToolEvents, ToolTypes, Settled, MessageTypes
  <2> HIDE DEF new
  <2>4. new \in Seq(Chats) /\ (OnlyRuns(ms, {}) => OnlyRuns(new, {}))
    BY <1>4, <2>2, AgentEndType
  <2> QED BY <2>3, <2>4 DEF new
<1>5. CASE e = Settled
  <2>1. e.type = "agent_settled"
    BY <1>5 DEF Settled
  <2>2. new = finalizeInterruptedTurn(ms, FALSE)
    BY <2>1 DEF applyAgentEvent, MessageTypes, ToolTypes
  <2>3. e \notin MessageEvents /\ e \notin ToolEvents /\ e \notin EndEvents
    BY <2>1 DEF MessageEvents, ToolEvents, EndEvents, ToolTypes, MessageTypes
  <2> HIDE DEF new
  <2>4. /\ new \in Seq(Chats) /\ Len(new) = Len(ms)
        /\ \A i \in 1..Len(ms) : new[i].role = ms[i].role /\ ~new[i].streaming
        /\ \A T : OnlyRuns(ms, T) => OnlyRuns(new, {})
    BY <2>2, FALSE \in BOOLEAN, FinalizeType
  <2> QED BY <2>3, <2>4 DEF new
<1> HIDE DEF new
<1>6. e \in MessageEvents => e.record \in UserRecords \/ e.record \in AgentRecords
  BY DEF MessageEvents
<1> QED BY <1>1, <1>2, <1>3, <1>4, <1>5, <1>6 DEF Events

---------------------------------------------------------------------------
(* How events reach the view.                                              *)

LEMMA Applied ==
  ASSUME NEW ms \in Seq(Chats), NEW es \in Seq(Events)
  PROVE  /\ ApplyAll(ms, <<>>) = ms
         /\ ApplyAll(ms, es) \in Seq(Chats)
         /\ \A e \in Events : ApplyAll(ms, Append(es, e)) = applyAgentEvent(ApplyAll(ms, es), e)
<1> DEFINE A == Seq(Chats)
<1>1. \A a \in A, x \in Events : applyAgentEvent(a, x) \in A
  BY EventKinds
<1> HIDE DEF A
<1>2. ms \in A
  BY DEF A
<1>3. /\ ApplyAll(ms, <<>>) = ms /\ ApplyAll(ms, es) \in A
      /\ \A e \in Events : ApplyAll(ms, Append(es, e)) = applyAgentEvent(ApplyAll(ms, es), e)
  BY <1>1, <1>2, ApplyFoldSteps
<1> QED BY <1>3 DEF A

\* What is shown and what waits for a frame.
Shown == [messages : Seq(Chats), held : Seq(Events)]

\* One event is held back, or everything is applied.
LEMMA Pushed ==
  ASSUME NEW shown \in Shown, NEW e \in Events
  PROVE  /\ Push(shown, e) \in Shown
         /\ \/ /\ IsUpdate(e) /\ Len(shown.held) + 1 < Pending
               /\ Push(shown, e).messages = shown.messages
               /\ Push(shown, e).held = Append(shown.held, e)
            \/ /\ Push(shown, e).messages = applyAgentEvent(ApplyAll(shown.messages, shown.held), e)
               /\ Push(shown, e).held = <<>>
         /\ ~IsUpdate(e) =>
              /\ Push(shown, e).messages = applyAgentEvent(ApplyAll(shown.messages, shown.held), e)
              /\ Push(shown, e).held = <<>>
<1> DEFINE waiting == Append(shown.held, e)
           all == ApplyAll(shown.messages, waiting)
           new == Push(shown, e)
<1>1. shown.messages \in Seq(Chats) /\ shown.held \in Seq(Events)
  BY DEF Shown
<1>2. waiting \in Seq(Events) /\ Len(waiting) = Len(shown.held) + 1
  BY <1>1
<1>3. all = applyAgentEvent(ApplyAll(shown.messages, shown.held), e)
  BY <1>1, Applied
<1>4. all \in Seq(Chats)
  BY <1>1, <1>2, Applied
<1>5. <<>> \in Seq(Events)
  OBVIOUS
<1>6. new = IF IsUpdate(e) /\ Len(waiting) < Pending
              THEN [shown EXCEPT !.held = waiting] ELSE [messages |-> all, held |-> <<>>]
  BY DEF Push
<1> HIDE DEF new, all, waiting
<1>7. CASE IsUpdate(e) /\ Len(waiting) < Pending
  <2>1. new = [shown EXCEPT !.held = waiting]
    BY <1>6, <1>7
  <2>2. new.messages = shown.messages /\ new.held = waiting /\ new \in Shown
    BY <1>1, <1>2, <2>1 DEF Shown
  <2> QED BY <1>2, <1>7, <2>2 DEF new, waiting
<1>8. CASE ~(IsUpdate(e) /\ Len(waiting) < Pending)
  <2>1. new = [messages |-> all, held |-> <<>>]
    BY <1>6, <1>8
  <2>2. new.messages = all /\ new.held = <<>> /\ new \in Shown
    BY <1>4, <1>5, <2>1 DEF Shown
  <2> QED BY <1>3, <2>2 DEF new
<1> QED BY <1>7, <1>8

LEMMA PushedAll ==
  ASSUME NEW shown \in Shown, NEW e \in Events, NEW f \in Events
  PROVE  /\ PushAll(shown, <<e>>) = Push(shown, e)
         /\ PushAll(shown, <<e, f>>) = Push(Push(shown, e), f)
<1> DEFINE none == <<>>
           one == Append(none, e)
<1>1. \A a \in Shown, x \in Events : Push(a, x) \in Shown
  BY Pushed
<1>2. none \in Seq(Events) /\ one \in Seq(Events) /\ <<e>> = one /\ <<e, f>> = Append(one, f)
  OBVIOUS
<1> HIDE DEF none
<1>3. PushAll(shown, none) = shown
  <2>1. PushAll(shown, <<>>) = shown
    BY <1>1, <1>2, PushFoldSteps
  <2> QED BY <2>1 DEF none
<1>4. PushAll(shown, one) = Push(PushAll(shown, none), e)
  BY <1>1, <1>2, PushFoldSteps
<1> HIDE DEF one
<1>5. PushAll(shown, Append(one, f)) = Push(PushAll(shown, one), f)
  BY <1>1, <1>2, PushFoldSteps
<1> QED BY <1>2, <1>3, <1>4, <1>5

\* What the panel keeps while its first load is out.
Panels ==
  [read : {"no", "load", "again"}, file : {<<>>} \cup {<<rs>> : rs \in Seq(Records)},
   buffer : Seq(Events), overflow : BOOLEAN, attempts : Nat, open : BOOLEAN,
   loading : BOOLEAN, over : BOOLEAN, skipped : BOOLEAN]

\* p is q but for the events it keeps.
SamePanel(p, q) ==
  /\ p.read = q.read /\ p.file = q.file /\ p.attempts = q.attempts /\ p.open = q.open
  /\ p.loading = q.loading /\ p.over = q.over /\ p.skipped = q.skipped

Roomy(p) == Len(p.buffer) <= MaxBuffered

LEMMA Buffered ==
  ASSUME NEW p \in Panels, Roomy(p), NEW e \in Events
  PROVE  Buffer(p, e) \in Panels /\ Roomy(Buffer(p, e)) /\ SamePanel(Buffer(p, e), p)
<1>1. p.buffer \in Seq(Events) /\ Append(p.buffer, e) \in Seq(Events) /\ <<>> \in Seq(Events)
      /\ Len(<<>>) = 0 /\ Len(Append(p.buffer, e)) = Len(p.buffer) + 1 /\ Len(p.buffer) \in Nat
  BY DEF Panels
<1>2. MaxBuffered \in Nat
  BY BoundsAssumption
<1>3. CASE Len(p.buffer) >= MaxBuffered
  <2>1. Buffer(p, e) = [p EXCEPT !.buffer = <<>>, !.overflow = TRUE]
    BY <1>3 DEF Buffer
  <2>2. Buffer(p, e).buffer = <<>> /\ SamePanel(Buffer(p, e), p)
    BY <2>1 DEF Panels, SamePanel
  <2>3. Buffer(p, e) \in Panels
    BY <1>1, <2>1 DEF Panels
  <2> QED BY <1>1, <1>2, <2>2, <2>3 DEF Roomy
<1>4. CASE ~(Len(p.buffer) >= MaxBuffered)
  <2> DEFINE b == Append(p.buffer, e)
  <2>1. Buffer(p, e) = [p EXCEPT !.buffer = b]
    BY <1>4 DEF Buffer
  <2>2. b \in Seq(Events) /\ Len(b) <= MaxBuffered
    BY <1>1, <1>2, <1>4
  <2> HIDE DEF b
  <2> QED BY <2>1, <2>2 DEF Panels, SamePanel, Roomy
<1> QED BY <1>3, <1>4

LEMMA BufferedAll ==
  ASSUME NEW p \in Panels, Roomy(p), NEW e \in Events, NEW f \in Events,
         NEW es \in {<<e>>, <<e, f>>}
  PROVE  BufferAll(p, es) \in Panels /\ Roomy(BufferAll(p, es)) /\ SamePanel(BufferAll(p, es), p)
<1> DEFINE A == {q \in Panels : Roomy(q) /\ SamePanel(q, p)}
<1>1. p \in A
  BY DEF SamePanel
<1>2. \A a \in A, x \in Events : Buffer(a, x) \in A
  BY Buffered DEF SamePanel
<1>3. es \in Seq(Events)
  <2>1. <<e>> \in Seq(Events) /\ <<e, f>> \in Seq(Events)
    OBVIOUS
  <2> QED BY <2>1
<1> HIDE DEF A
<1>4. BufferAll(p, es) \in A
  BY <1>1, <1>2, <1>3, BufferFoldSteps
<1> QED BY <1>4 DEF A

---------------------------------------------------------------------------
(* The inductive invariant.                                                *)

Counters == [prompts : Nat, messages : Nat, troubles : Nat]

Apps ==
  [live : BOOLEAN, running : BOOLEAN, sending : {"no", "starting", "asked"},
   stop : {"no", "sent", "taken"}, stale : BOOLEAN, misled : {"no", "ended", "asked"}]

Typed ==
  /\ records \in Seq(Records) /\ phase \in Phases /\ shape \in Shapes \cup {<<>>}
  /\ parts \in Seq(PartRecords) /\ toolsLeft \in Seq(Slots)
  /\ toolRuns \in BOOLEAN /\ aborting \in BOOLEAN /\ steers \in Seq(Nat)
  /\ counts \in Counters /\ view \in Views
  /\ messages \in Seq(Chats) /\ held \in Seq(Events)
  /\ app \in Apps /\ panel \in Panels

\* Where the agent is: a message never has more parts than its shape, the tools phase
\* has calls left and follows a message of the agent, a turn has begun with a record.
Going ==
  /\ phase = "message" => shape \in Shapes /\ Len(parts) <= Len(shape)
  /\ phase = "tools" => toolsLeft # <<>> /\ LastIs(normalizeMessages(records), "assistant")
  /\ toolRuns => phase = "tools"
  /\ Busy => records # <<>>

\* The updates that the agent may still have on their way.
Fits(e) ==
  \/ phase = "message" /\ e.type = "message_update" /\ e.record.role = "assistant"
  \/ phase = "tools" /\ toolRuns /\ e.type = "tool_execution_update" /\ e.tool = Head(toolsLeft)

\* The scheduler holds fewer events than its limit, all of the step the agent is in.
Waiting ==
  /\ Len(held) < Pending
  /\ \A i \in 1..Len(held) : Fits(held[i])
  /\ view = "panel" /\ panel.loading => held = <<>>
  /\ Roomy(panel)

\* The tool that runs.
Running == IF phase = "tools" /\ toolRuns THEN {Head(toolsLeft)} ELSE {}

\* The App runs while the agent is busy unless it was misled; what it shows as running
\* is the agent's running tool, in its last message; what is written is hidden by a
\* later message once nothing runs.
AppKnows ==
  view = "app" =>
    /\ app.live <=> phase # "dead"
    /\ app.misled = "no" /\ ~app.running => ~Busy
    /\ app.sending # "no" => counts.prompts > 0
    /\ app.misled # "asked" =>
         /\ OnlyRuns(messages, Running)
         /\ phase \in {"message", "tools"} => LastIs(messages, "assistant")
    /\ app.misled = "no" /\ ~Busy => Buried(messages)
    /\ ~panel.over /\ panel.read = "no"

\* While the delegation is over the agent is idle, so the file that was read is the
\* whole transcript and nothing was kept meanwhile.
PanelKnows ==
  view = "panel" =>
    /\ ~app.live /\ app.sending = "no" /\ app.stop = "no"
    /\ panel.over => phase = "idle"
    /\ panel.read = "again" => panel.over
    /\ panel.read = "no" => panel.file = <<>>
    /\ ~panel.open => panel.loading /\ panel.read = "no" /\ panel.buffer = <<>> /\ ~panel.overflow
    /\ panel.open /\ panel.loading => panel.read = "load"
    /\ panel.read = "load" => panel.loading
    /\ panel.over /\ ~panel.skipped =>
         /\ panel.read # "no" => panel.file \in {<<>>, <<records>>}
         /\ panel.read = "load" => panel.buffer = <<>> /\ ~panel.overflow
         /\ panel.open /\ panel.read = "no" => messages = normalizeMessages(records)

IInv == Typed /\ Going /\ Waiting /\ AppKnows /\ PanelKnows

---------------------------------------------------------------------------
Now == [messages |-> messages, held |-> held]

\* The events were turned away, or kept, or made s of what is shown and held.
Took(s) ==
  /\ view = "app" /\ app.live => messages' = s.messages /\ held' = s.held
  /\ view = "app" /\ ~app.live => messages' = messages /\ held' = <<>>
  /\ view = "panel" /\ ~panel.loading => messages' = s.messages /\ held' = s.held
  /\ view = "panel" /\ panel.loading => messages' = messages /\ held' = held
  /\ view = "app" \/ ~panel.open => panel' = panel
  /\ panel' \in Panels /\ Roomy(panel') /\ SamePanel(panel', panel)
  /\ messages' \in Seq(Chats) /\ held' \in Seq(Events) /\ Len(held') < Pending

LEMMA ViewIs ==
  ASSUME Typed
  PROVE  view = "app" \/ view = "panel"
BY BoundsAssumption DEF Typed

LEMMA TookAll ==
  ASSUME Typed, Waiting, NEW es, Receive(es), PushAll(Now, es) \in Shown,
         Len(PushAll(Now, es).held) < Pending,
         BufferAll(panel, es) \in Panels, Roomy(BufferAll(panel, es)),
         SamePanel(BufferAll(panel, es), panel)
  PROVE  Took(PushAll(Now, es))
<1> DEFINE s == PushAll(Now, es)
           b == BufferAll(panel, es)
<1>1. s.messages \in Seq(Chats) /\ s.held \in Seq(Events)
  BY DEF Shown
<1>2. messages \in Seq(Chats) /\ held \in Seq(Events) /\ <<>> \in Seq(Events) /\ Len(<<>>) < Pending
      /\ Len(held) < Pending /\ panel \in Panels /\ Roomy(panel) /\ SamePanel(panel, panel)
  BY BoundsAssumption DEF Typed, Waiting, SamePanel
<1>3. CASE view = "app"
  <2>1. /\ app.live => messages' = s.messages /\ held' = s.held
        /\ ~app.live => messages' = messages /\ held' = <<>>
        /\ panel' = panel
    BY <1>3 DEF Receive, AppReceives, Now
  <2> HIDE DEF s
  <2>2. messages' \in Seq(Chats) /\ held' \in Seq(Events) /\ Len(held') < Pending
    BY <2>1, <1>1, <1>2 DEF s
  <2> QED BY <1>2, <1>3, <2>1, <2>2 DEF Took, s
<1>4. CASE view = "panel" /\ panel.loading
  <2>1. messages' = messages /\ held' = held /\ panel' = IF panel.open THEN b ELSE panel
    BY <1>4 DEF Receive, PanelReceives
  <2>2. panel' \in Panels /\ Roomy(panel') /\ SamePanel(panel', panel)
    BY <2>1, <1>2
  <2> QED BY <1>2, <1>4, <2>1, <2>2 DEF Took
<1>5. CASE view = "panel" /\ ~panel.loading
  <2>1. messages' = s.messages /\ held' = s.held /\ panel' = panel
    BY <1>5 DEF Receive, PanelReceives, Now
  <2> QED BY <1>1, <1>2, <1>5, <2>1 DEF Took
<1> QED BY <1>3, <1>4, <1>5, ViewIs

LEMMA NowShown ==
  ASSUME Typed
  PROVE  Now \in Shown /\ Now.messages = messages /\ Now.held = held
BY DEF Typed, Now, Shown

\* One event: it is held back, or everything is applied.
LEMMA ReceivedOne ==
  ASSUME Typed, Waiting, NEW e \in Events, Receive(<<e>>)
  PROVE  \E s \in Shown :
           /\ Took(s)
           /\ \/ IsUpdate(e) /\ s.messages = messages /\ s.held = Append(held, e)
              \/ s.messages = applyAgentEvent(flush, e) /\ s.held = <<>>
           /\ ~IsUpdate(e) => s.messages = applyAgentEvent(flush, e) /\ s.held = <<>>
<1> DEFINE s == Push(Now, e)
           es == <<e>>
<1>1. Now \in Shown /\ Now.messages = messages /\ Now.held = held /\ PushAll(Now, es) = s
  BY NowShown, PushedAll
<1>2. /\ s \in Shown
      /\ \/ IsUpdate(e) /\ Len(held) + 1 < Pending /\ s.messages = messages /\ s.held = Append(held, e)
         \/ s.messages = applyAgentEvent(flush, e) /\ s.held = <<>>
      /\ ~IsUpdate(e) => s.messages = applyAgentEvent(flush, e) /\ s.held = <<>>
  BY <1>1, Pushed DEF flush
<1>3. BufferAll(panel, es) \in Panels /\ Roomy(BufferAll(panel, es)) /\ SamePanel(BufferAll(panel, es), panel)
  BY BufferedAll DEF Typed, Waiting
<1>4. Pending \in Nat \ {0} /\ held \in Seq(Events)
  BY BoundsAssumption DEF Typed
<1> HIDE DEF s, es
<1>5. Len(s.held) < Pending
  <2>1. Len(Append(held, e)) = Len(held) + 1 /\ Len(<<>>) = 0
    BY <1>4
  <2> QED BY <1>2, <1>4, <2>1
<1>6. Took(s)
  <2>1. PushAll(Now, es) \in Shown /\ Len(PushAll(Now, es).held) < Pending /\ Receive(es)
    BY <1>1, <1>2, <1>5 DEF es
  <2>2. Took(PushAll(Now, es))
    BY <2>1, <1>3, TookAll
  <2> QED BY <1>1, <2>2
<1> QED BY <1>2, <1>6

\* Two events that do not wait.
LEMMA ReceivedTwo ==
  ASSUME Typed, Waiting, NEW e \in Events, NEW f \in Events, ~IsUpdate(e), ~IsUpdate(f),
         Receive(<<e, f>>)
  PROVE  \E s \in Shown :
           /\ Took(s)
           /\ s.messages = applyAgentEvent(applyAgentEvent(flush, e), f) /\ s.held = <<>>
<1> DEFINE r == Push(Now, e)
           s == Push(r, f)
           es == <<e, f>>
<1>1. Now \in Shown /\ Now.messages = messages /\ Now.held = held /\ PushAll(Now, es) = s
  BY NowShown, PushedAll
<1>2. r \in Shown /\ r.messages = applyAgentEvent(flush, e) /\ r.held = <<>>
  BY <1>1, Pushed DEF flush
<1> HIDE DEF r
<1>3. s \in Shown /\ s.messages = applyAgentEvent(ApplyAll(r.messages, r.held), f) /\ s.held = <<>>
  BY <1>2, Pushed
<1>4. ApplyAll(r.messages, r.held) = applyAgentEvent(flush, e)
  <2>1. r.messages \in Seq(Chats) /\ r.held = <<>> /\ <<>> \in Seq(Events)
    BY <1>2 DEF Shown
  <2>2. ApplyAll(r.messages, <<>>) = r.messages
    BY <2>1, Applied
  <2> QED BY <2>1, <2>2, <1>2
<1>5. BufferAll(panel, es) \in Panels /\ Roomy(BufferAll(panel, es)) /\ SamePanel(BufferAll(panel, es), panel)
  BY BufferedAll DEF Typed, Waiting
<1> HIDE DEF s, es
<1>6. Len(s.held) < Pending
  <2>1. Pending \in Nat \ {0} /\ Len(<<>>) = 0
    BY BoundsAssumption
  <2> QED BY <1>3, <2>1
<1>7. Took(s)
  <2>1. PushAll(Now, es) \in Shown /\ Len(PushAll(Now, es).held) < Pending /\ Receive(es)
    BY <1>1, <1>3, <1>6 DEF es
  <2>2. Took(PushAll(Now, es))
    BY <2>1, <1>5, TookAll
  <2> QED BY <1>1, <2>2
<1> QED BY <1>3, <1>4, <1>7

\* The events and records of the agent have their types.
LEMMA AskedType ==
  ASSUME NEW n \in Nat
  PROVE  /\ Asked(n) \in UserRecords
         /\ \A type \in MessageTypes : MessageEvent(type, Asked(n)) \in MessageEvents
<1>1. <<<<0, 0, n>>>> \in Texts
  BY DEF Texts
<1> QED BY <1>1 DEF Asked, UserRecord, UserRecords, MessageEvent, MessageEvents

LEMMA AgentRecordType ==
  ASSUME NEW m \in Nat, NEW ps \in Seq(PartRecords), NEW stop \in Stops
  PROVE  /\ AgentRecord(m, ps, stop) \in AgentRecords
         /\ \A type \in MessageTypes :
              /\ MessageEvent(type, AgentRecord(m, ps, stop)) \in MessageEvents
              /\ MessageEvent(type, AgentRecord(m, ps, stop)).record = AgentRecord(m, ps, stop)
              /\ MessageEvent(type, AgentRecord(m, ps, stop)).type = type
<1> DEFINE r == AgentRecord(m, ps, stop)
<1>1. r \in AgentRecords
  BY DEF AgentRecord, AgentRecords
<1> HIDE DEF r
<1>2. \A type \in MessageTypes :
        /\ MessageEvent(type, r) \in MessageEvents
        /\ MessageEvent(type, r).record = r /\ MessageEvent(type, r).type = type
  BY <1>1 DEF MessageEvent, MessageEvents
<1> QED BY <1>1, <1>2 DEF r

LEMMA ToolEventType ==
  ASSUME NEW type \in ToolTypes, NEW tool \in Slots, NEW error \in BOOLEAN
  PROVE  /\ ToolEvent(type, tool, error) \in ToolEvents
         /\ ToolEvent(type, tool, error).type = type
         /\ ToolEvent(type, tool, error).tool = tool
BY DEF ToolEvent, ToolEvents

LEMMA EndEventType ==
  ASSUME NEW again \in BOOLEAN, NEW r \in Records
  PROVE  AgentEnd(again, r) \in EndEvents /\ AgentEnd(again, r).type = "agent_end"
BY DEF AgentEnd, EndEvents

\* What fits while nothing can be on its way.
LEMMA NothingFits ==
  ASSUME Typed, Waiting, phase # "message", ~(phase = "tools" /\ toolRuns)
  PROVE  held = <<>> /\ flush = messages
<1>1. ASSUME held # <<>> PROVE FALSE
  <2>1. 1 \in 1..Len(held)
    BY <1>1 DEF Typed
  <2> QED BY <2>1 DEF Waiting, Fits
<1> QED BY <1>1, Applied DEF Typed, flush

LEMMA FlushType ==
  ASSUME Typed
  PROVE  flush \in Seq(Chats)
BY Applied DEF flush, Typed

\* The frame keeps the running tool where it is, and the message of the agent last.
LEMMA FlushKeeps ==
  ASSUME Typed, Waiting, OnlyRuns(messages, Running),
         phase \in {"message", "tools"} => LastIs(messages, "assistant")
  PROVE  /\ OnlyRuns(flush, Running)
         /\ phase \in {"message", "tools"} => LastIs(flush, "assistant")
<1>1. CASE phase # "message" /\ ~(phase = "tools" /\ toolRuns)
  BY <1>1, NothingFits
<1>2. CASE phase = "message" \/ (phase = "tools" /\ toolRuns)
  <2> DEFINE T == Running
             A == {ms \in Seq(Chats) : OnlyRuns(ms, T) /\ LastIs(ms, "assistant")}
             E == {e \in Events : Fits(e)}
  <2>1. messages \in A
    BY <1>2 DEF Typed
  <2>2. held \in Seq(E)
    <3>1. held \in Seq(Events) /\ \A i \in 1..Len(held) : held[i] \in E
      BY DEF Typed, Waiting
    <3> HIDE DEF E
    <3> QED BY <3>1
  <2>3. ASSUME NEW ms \in A, NEW e \in E PROVE applyAgentEvent(ms, e) \in A
    <3>1. ms \in Seq(Chats) /\ e \in Events /\ OnlyRuns(ms, T) /\ LastIs(ms, "assistant") /\ Fits(e)
      OBVIOUS
    <3>2. CASE phase = "message"
      <4>1. e.type = "message_update" /\ e.record.role = "assistant"
        BY <3>1, <3>2 DEF Fits
      <4>2. e \in MessageEvents
        BY <3>1, <4>1 DEF Events, ToolEvents, ToolTypes, EndEvents, Settled
      <4>3. e.record \in AgentRecords
        BY <4>1, <4>2 DEF MessageEvents, UserRecords
      <4>4. T = {}
        BY <3>2 DEF Running
      <4> QED BY <3>1, <4>2, <4>3, <4>4, EventKinds
    <3>3. CASE phase = "tools" /\ toolRuns
      <4>1. e.type = "tool_execution_update" /\ e.tool = Head(toolsLeft)
        BY <3>1, <3>3 DEF Fits
      <4>2. e \in ToolEvents
        BY <3>1, <4>1 DEF Events, MessageEvents, MessageTypes, EndEvents, Settled
      <4>3. T = {e.tool}
        BY <3>3, <4>1 DEF Running
      <4>4. e.type # "tool_execution_end"
        BY <4>1
      <4> QED BY <3>1, <4>2, <4>3, <4>4, EventKinds
    <3> QED BY <1>2, <3>2, <3>3
  <2> HIDE DEF A, E
  <2>4. ApplyAll(messages, held) \in A
    BY <2>1, <2>2, <2>3, ApplyFoldSteps
  <2> QED BY <2>4 DEF A, flush
<1> QED BY <1>1, <1>2

\* The parts of the invariant that an agent's step leaves to its events.
LEMMA PanelHeard ==
  ASSUME PanelKnows, UNCHANGED view, view = "panel" => app' = app /\ ~panel.over,
         NEW s, Took(s)
  PROVE  PanelKnows'
<1> SUFFICES ASSUME view = "panel" PROVE PanelKnows'
  BY DEF PanelKnows
<1>1. SamePanel(panel', panel) /\ (~panel.open => panel' = panel) /\ app' = app /\ ~panel.over
  BY DEF Took
<1> QED BY <1>1 DEF PanelKnows, SamePanel

LEMMA AppHeard ==
  ASSUME Typed, AppKnows, UNCHANGED <<view, app>>, Busy, Busy', counts'.prompts = counts.prompts,
         NEW s, Took(s),
         view = "app" /\ app.misled # "asked" =>
           /\ OnlyRuns(s.messages, Running')
           /\ phase' \in {"message", "tools"} => LastIs(s.messages, "assistant")
  PROVE  AppKnows'
<1> SUFFICES ASSUME view = "app" PROVE AppKnows'
  BY DEF AppKnows
<1>1. app.live /\ phase' # "dead" /\ app' = app
  BY DEF AppKnows, Busy
<1>2. messages' = s.messages /\ panel' = panel
  BY <1>1 DEF Took
<1> QED BY <1>1, <1>2 DEF AppKnows

LEMMA WaitHeard ==
  ASSUME Typed, Waiting, UNCHANGED view, NEW s, Took(s),
         \A i \in 1..Len(s.held) : Fits(s.held[i])'
  PROVE  Waiting'
<1>1. Len(held') < Pending /\ Roomy(panel') /\ panel'.loading = panel.loading
  BY DEF Took, SamePanel
<1>2. \/ held' = s.held
      \/ held' = <<>>
      \/ view = "panel" /\ panel.loading /\ held' = held
  BY ViewIs DEF Took
<1>3. view = "panel" /\ panel.loading => held' = <<>>
  BY DEF Took, Waiting
<1>4. (\A i \in 1..Len(held) : Fits(held[i]))'
  <2>1. CASE held' = s.held
    BY <2>1 DEF Fits
  <2>2. CASE held' = <<>>
    BY <2>2
  <2> QED BY <1>2, <1>3, <2>1, <2>2
<1> QED BY <1>1, <1>3, <1>4 DEF Waiting

---------------------------------------------------------------------------
(* The steps of the agent.                                                 *)

\* The session ends with a message of the agent while its calls are made.
LEMMA EndsWithAgent ==
  ASSUME NEW rs \in Seq(Records), NEW r \in AgentRecords
  PROVE  LastIs(normalizeMessages(Append(rs, r)), "assistant")
<1> DEFINE ms == normalizeMessages(rs)
           c == messageFromRecord(r)
<1>1. r \in Records /\ r.role = "assistant"
  BY DEF Records, AgentRecords
<1>2. normalizeMessages(Append(rs, r)) = AddRecord(ms, r) /\ ms \in Seq(StillChats)
  BY <1>1, Normalized
<1>3. c \in StillChats /\ c.role = "assistant"
  BY <1>1, FromRecordType
<1>4. AddRecord(ms, r) = Append(ms, c)
  BY <1>1 DEF AddRecord
<1> HIDE DEF ms, c
<1>5. /\ Append(ms, c) \in Seq(StillChats) /\ Append(ms, c) # <<>>
      /\ Append(ms, c)[Len(Append(ms, c))].role = "assistant"
  BY <1>2, <1>3
<1>6. LastIs(Append(ms, c), "assistant")
  BY <1>5, LastOf
<1> QED BY <1>2, <1>4, <1>6

LEMMA StillEndsWithAgent ==
  ASSUME NEW rs \in Seq(Records), NEW r \in ResultRecords,
         LastIs(normalizeMessages(rs), "assistant")
  PROVE  LastIs(normalizeMessages(Append(rs, r)), "assistant")
<1> DEFINE ms == normalizeMessages(rs)
           new == attachStoredToolResult(ms, r)
<1>1. r \in Records /\ r.role = "toolResult"
  BY DEF Records, ResultRecords
<1>2. normalizeMessages(Append(rs, r)) = AddRecord(ms, r) /\ ms \in Seq(StillChats)
  BY <1>1, Normalized
<1>3. AddRecord(ms, r) = new
  BY <1>1 DEF AddRecord
<1> HIDE DEF ms
<1>4. new \in Seq(StillChats) /\ Len(new) = Len(ms) /\ \A i \in 1..Len(ms) : new[i].role = ms[i].role
  BY <1>2, AttachType
<1> HIDE DEF new
<1>5. ms # <<>> /\ Len(ms) \in Nat \ {0} /\ ms[Len(ms)].role = "assistant"
  BY <1>2, LastOf DEF ms
<1>6. new # <<>> /\ new[Len(new)].role = "assistant"
  BY <1>4, <1>5
<1>7. LastIs(new, "assistant")
  BY <1>4, <1>6, LastOf
<1> QED BY <1>2, <1>3, <1>7

LEMMA WrittenType ==
  ASSUME parts \in Seq(PartRecords), shape \in Shapes, Len(parts) <= Len(shape), ~Complete
  PROVE  Written \in Seq(PartRecords) /\ Len(Written) <= Len(shape)
<1>1. shape \in Seq(Kinds) /\ shape # <<>> /\ Len(shape) \in Nat \ {0} /\ Len(parts) \in Nat
  BY BoundsAssumption
<1>2. CASE parts # <<>> /\ MoreToCome(Last(parts))
  <2> DEFINE p == [Last(parts) EXCEPT !.n = 2]
  <2>1. Last(parts) \in PartRecords
    BY <1>2, FrontFacts
  <2>2. p \in PartRecords
    BY <2>1 DEF PartRecords
  <2>3. Written = Append(Front(parts), p)
    BY <1>2 DEF Written
  <2> HIDE DEF p
  <2>4. Append(Front(parts), p) \in Seq(PartRecords) /\ Len(Append(Front(parts), p)) = Len(parts)
    BY <1>2, <2>2, WithLastFacts
  <2> QED BY <2>3, <2>4
<1>3. CASE ~(parts # <<>> /\ MoreToCome(Last(parts)))
  <2> DEFINE p == [kind |-> shape[Len(parts) + 1], n |-> 1]
  <2>1. Written = Append(parts, p)
    BY <1>3 DEF Written
  <2>2. Len(parts) < Len(shape)
    <3>1. CASE parts = <<>>
      BY <3>1, <1>1
    <3>2. CASE parts # <<>>
      BY <3>2, <1>1, <1>3 DEF Complete
    <3> QED BY <3>1, <3>2
  <2>3. p \in PartRecords
    <3>1. Len(parts) + 1 \in 1..Len(shape)
      BY <1>1, <2>2
    <3>2. shape[Len(parts) + 1] \in Kinds
      BY <1>1, <3>1
    <3> QED BY <3>2 DEF PartRecords
  <2> HIDE DEF p
  <2> QED BY <1>1, <2>1, <2>2, <2>3
<1> QED BY <1>2, <1>3

LEMMA CallsLeft ==
  ASSUME parts \in Seq(PartRecords), M \in Nat
  PROVE  LET left == Picked([j \in DOMAIN parts |-> <<M, j>>], Calls)
         IN  left \in Seq(Slots) /\ (Calls # {} => left # <<>>)
<1> DEFINE seq == [j \in DOMAIN parts |-> <<M, j>>]
           left == Picked(seq, Calls)
<1>1. seq \in Seq(Slots) /\ Len(seq) = Len(parts) /\ Len(seq) \in Nat
  <2>1. \A j \in DOMAIN parts : <<M, j>> \in Slots
    BY DEF Slots
  <2> QED BY <2>1
<1> HIDE DEF seq
<1>2. left \in Seq(Slots)
  BY <1>1, PickedTaken
<1>3. PICK e : Taken(seq, Calls, Len(seq), left, e)
  BY <1>1, PickedTaken
<1> HIDE DEF left
<1>4. ASSUME Calls # {} PROVE left # <<>>
  <2>1. PICK j \in Calls : TRUE
    BY <1>4
  <2>2. j \in Calls \cap (1..Len(seq))
    BY <1>1, <2>1 DEF Calls
  <2>3. \E k \in 1..Len(left) : e[k] = j
    BY <1>3, <2>2 DEF Taken
  <2> QED BY <2>3, <1>2
<1> QED BY <1>2, <1>4 DEF left, seq

\* The counters of the bounds.
LEMMA Counted ==
  ASSUME counts \in Counters, NEW name \in {"prompts", "messages", "troubles"}, Count(name)
  PROVE  /\ counts' \in Counters
         /\ name = "prompts" => counts'.prompts = counts.prompts + 1 /\ counts'.messages = counts.messages
         /\ name # "prompts" => counts'.prompts = counts.prompts
         /\ name = "messages" => counts'.messages = counts.messages + 1
         /\ name = "troubles" => counts'.messages = counts.messages /\ counts'.troubles = counts.troubles + 1
<1>1. CASE name = "prompts"
  <2>1. counts' = [counts EXCEPT !.prompts = @ + 1]
    BY <1>1 DEF Count
  <2> QED BY <1>1, <2>1 DEF Counters
<1>2. CASE name = "messages"
  <2>1. counts' = [counts EXCEPT !.messages = @ + 1]
    BY <1>2 DEF Count
  <2> QED BY <1>2, <2>1 DEF Counters
<1>3. CASE name = "troubles"
  <2>1. counts' = [counts EXCEPT !.troubles = @ + 1]
    BY <1>3 DEF Count
  <2> QED BY <1>3, <2>1 DEF Counters
<1> QED BY <1>1, <1>2, <1>3

\* The agent reads a question: the steps TakePrompt and ChildPrompted.
LEMMA ReadPromptHeard ==
  ASSUME IInv, NEW n \in Nat, ReadPrompt(n)
  PROVE  \E s \in Shown :
           /\ Took(s) /\ s.held = <<>>
           /\ OnlyRuns(messages, {}) => OnlyRuns(s.messages, {})
<1>1. Typed /\ Waiting /\ phase = "idle" /\ Receive(UserEvents(n))
  BY DEF IInv, ReadPrompt
<1> DEFINE e == MessageEvent("message_start", Asked(n))
           f == MessageEvent("message_end", Asked(n))
<1>2. e \in MessageEvents /\ f \in MessageEvents
  BY AskedType DEF MessageTypes
<1>3. ~IsUpdate(e) /\ ~IsUpdate(f)
  BY DEF IsUpdate, MessageEvent
<1>4. UserEvents(n) = <<e, f>>
  BY DEF UserEvents
<1> HIDE DEF e, f
<1>5. e \in Events /\ f \in Events
  BY <1>2 DEF Events
<1>6. PICK s \in Shown : Took(s) /\ s.held = <<>>
                         /\ s.messages = applyAgentEvent(applyAgentEvent(flush, e), f)
  BY <1>1, <1>3, <1>4, <1>5, ReceivedTwo
<1>7. flush = messages
  BY <1>1, NothingFits
<1>8. OnlyRuns(messages, {}) => OnlyRuns(s.messages, {})
  <2> DEFINE a == applyAgentEvent(messages, e)
  <2>1. messages \in Seq(Chats)
    BY <1>1 DEF Typed
  <2>2. a \in Seq(Chats) /\ (OnlyRuns(messages, {}) => OnlyRuns(a, {}))
    BY <1>2, <1>5, <2>1, EventKinds
  <2> HIDE DEF a
  <2>3. OnlyRuns(a, {}) => OnlyRuns(applyAgentEvent(a, f), {})
    BY <1>2, <1>5, <2>2, EventKinds
  <2> QED BY <1>6, <1>7, <2>2, <2>3 DEF a
<1> QED BY <1>6, <1>8

LEMMA ReadPromptStep ==
  ASSUME IInv, NEW n \in Nat, ReadPrompt(n), counts' \in Counters, app' \in Apps, NEW s \in Shown, Took(s),
         s.held = <<>>
  PROVE  Typed' /\ Going' /\ Waiting'
<1>1. /\ Typed /\ Waiting /\ phase' = "turn" /\ records' = Append(records, Asked(n)) /\ Going /\ phase = "idle"
      /\ UNCHANGED <<shape, parts, toolsLeft, toolRuns, aborting, steers, view>>
  BY DEF IInv, ReadPrompt
<1>2. records' \in Seq(Records) /\ records' # <<>>
  <2> DEFINE r == Asked(n)
  <2>1. r \in Records
    BY AskedType DEF Records
  <2> HIDE DEF r
  <2>2. records \in Seq(Records) /\ records' = Append(records, r)
    BY <1>1 DEF Typed, r
  <2> QED BY <2>1, <2>2
<1>3. Typed'
  BY <1>1, <1>2 DEF Typed, Took, Phases
<1>4. Going'
  BY <1>1, <1>2 DEF Going, Typed
<1>5. Waiting'
  <2>1. \A i \in 1..Len(s.held) : Fits(s.held[i])'
    OBVIOUS
  <2> QED BY <1>1, <2>1, WaitHeard
<1> QED BY <1>3, <1>4, <1>5

LEMMA TakePromptStep ==
  ASSUME IInv, TakePrompt
  PROVE  IInv'
<1>1. /\ Typed /\ AppKnows /\ PanelKnows /\ app.sending = "asked" /\ ReadPrompt(counts.prompts)
      /\ app' = [IF app.live THEN NewRun ELSE app EXCEPT !.sending = "no"] /\ counts' = counts
      /\ phase = "idle" /\ phase' = "turn" /\ UNCHANGED <<toolRuns, view>>
  BY DEF IInv, TakePrompt, ReadPrompt
<1>2. counts.prompts \in Nat /\ counts' \in Counters
  BY <1>1 DEF Typed, Counters
<1>3. view = "app" /\ app.live
  BY <1>1, ViewIs DEF PanelKnows, AppKnows
<1>4. /\ app' \in Apps /\ app'.live /\ app'.running /\ app'.sending = "no" /\ app'.misled = app.misled
  <2>1. app \in Apps /\ app' = [app EXCEPT !.running = TRUE, !.stale = TRUE, !.sending = "no"]
    BY <1>1, <1>3 DEF NewRun, Typed
  <2> QED BY <1>3, <2>1 DEF Apps
<1>5. PICK s \in Shown : /\ Took(s) /\ s.held = <<>>
                         /\ OnlyRuns(messages, {}) => OnlyRuns(s.messages, {})
  BY <1>1, <1>2, ReadPromptHeard
<1>6. Typed' /\ Going' /\ Waiting'
  BY <1>1, <1>2, <1>4, <1>5, ReadPromptStep
<1>7. AppKnows'
  <2>1. messages' = s.messages /\ panel' = panel
    BY <1>3, <1>5 DEF Took
  <2>2. Running = {} /\ Running' = {}
    BY <1>1 DEF Running
  <2> QED BY <1>1, <1>3, <1>4, <1>5, <2>1, <2>2 DEF AppKnows, Busy
<1>8. PanelKnows'
  BY <1>1, <1>3 DEF PanelKnows
<1> QED BY <1>6, <1>7, <1>8 DEF IInv

LEMMA ChildPromptedStep ==
  ASSUME IInv, ChildPrompted
  PROVE  IInv'
<1>1. /\ Typed /\ AppKnows /\ PanelKnows /\ view = "panel" /\ ~panel.over /\ ReadPrompt(counts'.prompts)
      /\ Count("prompts") /\ app' = app /\ UNCHANGED view
  BY DEF IInv, ChildPrompted, ReadPrompt
<1>2. counts' \in Counters /\ counts'.prompts \in Nat
  <2>1. counts \in Counters
    BY <1>1 DEF Typed
  <2>2. counts' \in Counters
    BY <1>1, <2>1, Counted
  <2> QED BY <2>2 DEF Counters
<1>3. app' \in Apps
  BY <1>1 DEF Typed
<1>4. PICK s \in Shown : Took(s) /\ s.held = <<>>
  <2> DEFINE n == counts'.prompts
  <2>1. n \in Nat /\ ReadPrompt(n)
    BY <1>1, <1>2
  <2> HIDE DEF n
  <2> QED BY <2>1, ReadPromptHeard
<1>5. Typed' /\ Going' /\ Waiting'
  <2> DEFINE n == counts'.prompts
  <2>1. n \in Nat /\ ReadPrompt(n)
    BY <1>1, <1>2
  <2> HIDE DEF n
  <2> QED BY <2>1, <1>2, <1>3, <1>4, ReadPromptStep
<1>6. AppKnows'
  BY <1>1 DEF AppKnows
<1>7. PanelKnows'
  BY <1>1, <1>4, PanelHeard
<1> QED BY <1>5, <1>6, <1>7 DEF IInv

LEMMA TakeSteerStep ==
  ASSUME IInv, TakeSteer
  PROVE  IInv'
<1> DEFINE n == Head(steers)
<1>1. /\ Typed /\ Going /\ Waiting /\ AppKnows /\ PanelKnows /\ phase = "turn" /\ steers # <<>>
      /\ records' = Append(records, Asked(n)) /\ Receive(UserEvents(n)) /\ steers' = Tail(steers)
      /\ UNCHANGED <<phase, shape, parts, toolsLeft, toolRuns, aborting, counts, view, app>>
  BY DEF IInv, TakeSteer
<1>2. n \in Nat /\ steers' \in Seq(Nat)
  BY <1>1 DEF Typed
<1> DEFINE e == MessageEvent("message_start", Asked(n))
           f == MessageEvent("message_end", Asked(n))
           r == Asked(n)
<1>3. e \in MessageEvents /\ f \in MessageEvents /\ r \in Records
  BY <1>2, AskedType DEF MessageTypes, Records
<1>4. ~IsUpdate(e) /\ ~IsUpdate(f) /\ UserEvents(n) = <<e, f>> /\ records' = Append(records, r)
  BY <1>1 DEF IsUpdate, MessageEvent, UserEvents
<1> HIDE DEF e, f, r, n
<1>5. e \in Events /\ f \in Events
  BY <1>3 DEF Events
<1>6. PICK s \in Shown : Took(s) /\ s.held = <<>>
                         /\ s.messages = applyAgentEvent(applyAgentEvent(flush, e), f)
  BY <1>1, <1>4, <1>5, ReceivedTwo
<1>7. records' \in Seq(Records) /\ records' # <<>>
  <2>1. records \in Seq(Records)
    BY <1>1 DEF Typed
  <2> QED BY <1>3, <1>4, <2>1
<1>8. Typed'
  BY <1>1, <1>2, <1>6, <1>7 DEF Typed, Took
<1>9. Going'
  BY <1>1, <1>7 DEF Going
<1>10. Waiting'
  <2>1. \A i \in 1..Len(s.held) : Fits(s.held[i])'
    BY <1>6
  <2> QED BY <1>1, <1>6, <2>1, WaitHeard
<1>11. AppKnows'
  <2>1. Running = {} /\ Running' = {}
    BY <1>1 DEF Running
  <2>2. flush = messages /\ flush \in Seq(Chats)
    BY <1>1, NothingFits, FlushType
  <2>3. ASSUME OnlyRuns(messages, {}) PROVE OnlyRuns(s.messages, {})
    <3> DEFINE a == applyAgentEvent(flush, e)
    <3>1. a \in Seq(Chats) /\ OnlyRuns(a, {})
      BY <1>3, <1>5, <2>2, <2>3, EventKinds
    <3> HIDE DEF a
    <3>2. OnlyRuns(applyAgentEvent(a, f), {})
      BY <1>3, <1>5, <3>1, EventKinds
    <3> QED BY <1>6, <3>2 DEF a
  <2>4. Busy /\ Busy'
    BY <1>1 DEF Busy
  <2>5. view = "app" /\ app.misled # "asked" =>
          /\ OnlyRuns(s.messages, Running')
          /\ phase' \in {"message", "tools"} => LastIs(s.messages, "assistant")
    BY <1>1, <2>1, <2>3 DEF AppKnows
  <2> QED BY <1>1, <1>6, <2>4, <2>5, AppHeard
<1>12. PanelKnows'
  <2>1. view = "panel" => app' = app /\ ~panel.over
    BY <1>1 DEF PanelKnows
  <2> QED BY <1>1, <1>6, <2>1, PanelHeard
<1> QED BY <1>8, <1>9, <1>10, <1>11, <1>12 DEF IInv

\* A message event of the agent leaves its message last and no tool running.
LEMMA AgentEventHeard ==
  ASSUME IInv, NEW ps \in Seq(PartRecords), NEW stop \in Stops, NEW m \in Nat,
         NEW type \in MessageTypes, NEW e, e = MessageEvent(type, AgentRecord(m, ps, stop)),
         phase = "turn" \/ phase = "message", Receive(<<e>>)
  PROVE  \E s \in Shown :
           /\ Took(s)
           /\ \/ type = "message_update" /\ s.messages = messages /\ s.held = Append(held, e)
              \/ s.messages = applyAgentEvent(flush, e) /\ s.held = <<>>
           /\ type # "message_update" => s.messages = applyAgentEvent(flush, e) /\ s.held = <<>>
           /\ view = "app" /\ app.misled # "asked" =>
                /\ OnlyRuns(s.messages, {})
                /\ (phase = "message" \/ type # "message_update") => LastIs(s.messages, "assistant")
<1>1. Typed /\ Waiting /\ AppKnows
  BY DEF IInv
<1>2. e \in MessageEvents /\ e.record \in AgentRecords /\ e.type = type
  BY AgentRecordType
<1>3. e \in Events /\ (IsUpdate(e) <=> type = "message_update")
  BY <1>2 DEF Events, IsUpdate, MessageTypes
<1>4. PICK s \in Shown :
        /\ Took(s)
        /\ \/ IsUpdate(e) /\ s.messages = messages /\ s.held = Append(held, e)
           \/ s.messages = applyAgentEvent(flush, e) /\ s.held = <<>>
        /\ ~IsUpdate(e) => s.messages = applyAgentEvent(flush, e) /\ s.held = <<>>
  BY <1>1, <1>3, ReceivedOne
<1>5. ASSUME view = "app", app.misled # "asked"
      PROVE  /\ OnlyRuns(s.messages, {})
             /\ (phase = "message" \/ type # "message_update") => LastIs(s.messages, "assistant")
  <2>1. Running = {}
    BY DEF Running
  <2>2. /\ OnlyRuns(messages, {}) /\ OnlyRuns(messages, Running)
        /\ phase \in {"message", "tools"} => LastIs(messages, "assistant")
    BY <1>1, <1>5, <2>1 DEF AppKnows
  <2>3. OnlyRuns(flush, {})
    BY <1>1, <2>1, <2>2, FlushKeeps
  <2>4. OnlyRuns(applyAgentEvent(flush, e), {}) /\ LastIs(applyAgentEvent(flush, e), "assistant")
    BY <1>1, <1>2, <1>3, <2>3, FlushType, EventKinds
  <2> QED BY <1>3, <1>4, <2>2, <2>4
<1> QED BY <1>3, <1>4, <1>5

LEMMA StartMessageStep ==
  ASSUME IInv, NEW k \in Shapes, StartMessage(k)
  PROVE  IInv'
<1> DEFINE m == counts'.messages
           e == MessageEvent("message_start", AgentRecord(m, <<>>, ""))
<1>1. /\ Typed /\ Going /\ Waiting /\ AppKnows /\ PanelKnows /\ phase = "turn" /\ Count("messages")
      /\ phase' = "message" /\ shape' = k /\ parts' = <<>> /\ Receive(<<e>>)
      /\ UNCHANGED <<records, toolsLeft, toolRuns, aborting, steers, view, app>>
  BY DEF IInv, StartMessage
<1>2. counts' \in Counters /\ m \in Nat /\ counts'.prompts = counts.prompts
  <2>1. counts \in Counters
    BY <1>1 DEF Typed
  <2>2. counts' \in Counters /\ counts'.prompts = counts.prompts
    BY <1>1, <2>1, Counted
  <2> QED BY <2>2 DEF Counters
<1>3. <<>> \in Seq(PartRecords) /\ "" \in Stops /\ "message_start" \in MessageTypes
      /\ "message_start" # "message_update"
  BY DEF Stops, MessageTypes
<1> HIDE DEF m
<1>4. PICK s \in Shown :
        /\ Took(s) /\ s.held = <<>>
        /\ view = "app" /\ app.misled # "asked" =>
             OnlyRuns(s.messages, {}) /\ LastIs(s.messages, "assistant")
  <2> HIDE DEF e
  <2>1. e = MessageEvent("message_start", AgentRecord(m, <<>>, ""))
    BY DEF e
  <2> QED BY <1>1, <1>2, <1>3, <2>1, AgentEventHeard
<1> HIDE DEF e
<1>5. Typed'
  BY <1>1, <1>2, <1>3, <1>4 DEF Typed, Took, Phases
<1>6. Going'
  <2>1. Len(k) \in Nat /\ Len(<<>>) = 0
    BY BoundsAssumption
  <2> QED BY <1>1, <2>1 DEF Going, Busy
<1>7. Waiting'
  <2>1. \A i \in 1..Len(s.held) : Fits(s.held[i])'
    BY <1>4
  <2> QED BY <1>1, <1>4, <2>1, WaitHeard
<1>8. AppKnows'
  <2>1. Running' = {} /\ Busy /\ Busy'
    BY <1>1 DEF Running, Busy
  <2> QED BY <1>1, <1>2, <1>4, <2>1, AppHeard
<1>9. PanelKnows'
  <2>1. view = "panel" => app' = app /\ ~panel.over
    BY <1>1 DEF PanelKnows
  <2> QED BY <1>1, <1>4, <2>1, PanelHeard
<1> QED BY <1>5, <1>6, <1>7, <1>8, <1>9 DEF IInv

LEMMA WriteStep ==
  ASSUME IInv, Write
  PROVE  IInv'
<1> DEFINE e == MessageEvent("message_update", AgentRecord(M, parts', ""))
<1>1. /\ Typed /\ Going /\ Waiting /\ AppKnows /\ PanelKnows /\ phase = "message" /\ ~Complete
      /\ parts' = Written /\ Receive(<<e>>)
      /\ UNCHANGED <<records, phase, shape, toolsLeft, toolRuns, aborting, steers, counts, view, app>>
  BY DEF IInv, Write
<1>2. parts' \in Seq(PartRecords) /\ Len(parts') <= Len(shape) /\ M \in Nat
  BY <1>1, WrittenType DEF Typed, Going, Counters, M
<1>3. "" \in Stops /\ "message_update" \in MessageTypes
  BY DEF Stops, MessageTypes
<1>4. PICK s \in Shown :
        /\ Took(s)
        /\ \/ s.messages = messages /\ s.held = Append(held, e)
           \/ s.messages = applyAgentEvent(flush, e) /\ s.held = <<>>
        /\ view = "app" /\ app.misled # "asked" =>
             OnlyRuns(s.messages, {}) /\ LastIs(s.messages, "assistant")
  <2> DEFINE ps == parts'
  <2>1. e = MessageEvent("message_update", AgentRecord(M, ps, "")) /\ ps \in Seq(PartRecords)
    BY <1>2
  <2> DEFINE type == "message_update"
             stop == ""
             m == M
  <2>2. m \in Nat /\ stop \in Stops /\ type \in MessageTypes /\ e = MessageEvent(type, AgentRecord(m, ps, stop))
    BY <1>2, <1>3
  <2>3. type = "message_update"
    OBVIOUS
  <2> HIDE DEF e, ps, type, stop, m
  <2>4. \E s \in Shown :
           /\ Took(s)
           /\ \/ type = "message_update" /\ s.messages = messages /\ s.held = Append(held, e)
              \/ s.messages = applyAgentEvent(flush, e) /\ s.held = <<>>
           /\ type # "message_update" => s.messages = applyAgentEvent(flush, e) /\ s.held = <<>>
           /\ view = "app" /\ app.misled # "asked" =>
                /\ OnlyRuns(s.messages, {})
                /\ (phase = "message" \/ type # "message_update") => LastIs(s.messages, "assistant")
    <3>1. ps \in Seq(PartRecords) /\ stop \in Stops /\ m \in Nat /\ type \in MessageTypes
      BY <2>1, <2>2
    <3>2. e = MessageEvent(type, AgentRecord(m, ps, stop))
      BY <2>2
    <3>3. (phase = "turn" \/ phase = "message") /\ Receive(<<e>>)
      BY <1>1
    <3> QED BY <3>1, <3>2, <3>3, AgentEventHeard
  <2> QED BY <1>1, <2>4
<1>5. e.type = "message_update" /\ e.record.role = "assistant"
  BY DEF MessageEvent, AgentRecord
<1> HIDE DEF e
<1>6. Typed'
  BY <1>1, <1>2, <1>4 DEF Typed, Took
<1>7. Going'
  BY <1>1, <1>2 DEF Going, Busy
<1>8. Waiting'
  <2>1. \A i \in 1..Len(s.held) : Fits(s.held[i])'
    <3>1. CASE s.held = <<>>
      BY <3>1
    <3>2. CASE s.held = Append(held, e)
      <4>1. held \in Seq(Events) /\ \A i \in 1..Len(held) : Fits(held[i])
        BY <1>1 DEF Typed, Waiting
      <4>2. /\ Len(s.held) = Len(held) + 1 /\ s.held[Len(held) + 1] = e
            /\ \A i \in 1..Len(held) : s.held[i] = held[i]
        BY <3>2, <4>1
      <4>3. ASSUME NEW i \in 1..Len(s.held) PROVE s.held[i].type = "message_update" /\ s.held[i].record.role = "assistant"
        <5>1. CASE i = Len(held) + 1
          BY <4>2, <5>1, <1>5
        <5>2. CASE i # Len(held) + 1
          <6>1. i \in 1..Len(held)
            BY <4>1, <4>2, <5>2
          <6>2. Fits(held[i]) /\ s.held[i] = held[i]
            BY <4>1, <4>2, <6>1
          <6> QED BY <6>2, <1>1 DEF Fits
        <5> QED BY <5>1, <5>2
      <4> QED BY <4>3, <1>1 DEF Fits
    <3> QED BY <1>4, <3>1, <3>2
  <2> QED BY <1>1, <1>4, <2>1, WaitHeard
<1>9. AppKnows'
  <2>1. Running' = {} /\ Busy /\ Busy'
    BY <1>1 DEF Running, Busy
  <2> QED BY <1>1, <1>4, <2>1, AppHeard
<1>10. PanelKnows'
  <2>1. view = "panel" => app' = app /\ ~panel.over
    BY <1>1 DEF PanelKnows
  <2> QED BY <1>1, <1>4, <2>1, PanelHeard
<1> QED BY <1>6, <1>7, <1>8, <1>9, <1>10 DEF IInv

LEMMA EndMessageStep ==
  ASSUME IInv, NEW stop \in {"stop", "toolUse", "aborted", "error"}, EndMessage(stop)
  PROVE  IInv'
<1> DEFINE r == AgentRecord(M, parts, stop)
           e == MessageEvent("message_end", r)
<1>1. /\ Typed /\ Going /\ Waiting /\ AppKnows /\ PanelKnows /\ phase = "message"
      /\ CASE stop = "aborted" -> aborting
           [] stop = "error" -> ~aborting /\ Within("troubles", MaxTroubles)
           [] OTHER -> Complete /\ stop = IF Calls = {} THEN "stop" ELSE "toolUse"
      /\ records' = Append(records, r) /\ Receive(<<e>>)
      /\ phase' = IF stop = "toolUse" THEN "tools" ELSE "ended"
      /\ toolsLeft' = IF stop = "toolUse"
                        THEN Picked([j \in DOMAIN parts |-> <<M, j>>], Calls) ELSE <<>>
      /\ IF stop = "error" THEN Count("troubles") ELSE UNCHANGED counts
      /\ UNCHANGED <<shape, parts, toolRuns, aborting, steers, view, app>>
  BY DEF IInv, EndMessage
<1>2. /\ parts \in Seq(PartRecords) /\ M \in Nat /\ counts \in Counters /\ records \in Seq(Records)
      /\ stop \in Stops
  BY <1>1 DEF Typed, Counters, M, Stops
<1>3. counts' \in Counters /\ counts'.prompts = counts.prompts
  <2>1. CASE stop = "error"
    BY <1>1, <1>2, <2>1, Counted
  <2>2. CASE stop # "error"
    BY <1>1, <1>2, <2>2
  <2> QED BY <2>1, <2>2
<1>4. PICK s \in Shown :
        /\ Took(s) /\ s.held = <<>>
        /\ view = "app" /\ app.misled # "asked" =>
             OnlyRuns(s.messages, {}) /\ LastIs(s.messages, "assistant")
  <2> DEFINE type == "message_end"
  <2>1. type \in MessageTypes /\ type # "message_update" /\ e = MessageEvent(type, AgentRecord(M, parts, stop))
    BY DEF MessageTypes
  <2> HIDE DEF type, e
  <2> QED BY <1>1, <1>2, <2>1, AgentEventHeard
<1>5. r \in AgentRecords
  BY <1>2, AgentRecordType
<1> HIDE DEF e, r
<1>6. records' \in Seq(Records) /\ records' # <<>> /\ LastIs(normalizeMessages(records'), "assistant")
  <2>1. r \in Records
    BY <1>5 DEF Records
  <2>2. LastIs(normalizeMessages(Append(records, r)), "assistant")
    BY <1>2, <1>5, EndsWithAgent
  <2> QED BY <1>1, <1>2, <2>1, <2>2
<1>7. toolsLeft' \in Seq(Slots) /\ (stop = "toolUse" => toolsLeft' # <<>>)
  <2>1. CASE stop = "toolUse"
    <3>1. Calls # {}
      BY <1>1, <2>1
    <3> QED BY <1>1, <1>2, <2>1, <3>1, CallsLeft
  <2>2. CASE stop # "toolUse"
    BY <1>1, <2>2
  <2> QED BY <2>1, <2>2
<1>8. ~toolRuns
  BY <1>1 DEF Going
<1>9. Typed'
  BY <1>1, <1>3, <1>4, <1>6, <1>7 DEF Typed, Took, Phases
<1>10. Going'
  BY <1>1, <1>6, <1>7, <1>8 DEF Going, Busy
<1>11. Waiting'
  <2>1. \A i \in 1..Len(s.held) : Fits(s.held[i])'
    BY <1>4
  <2> QED BY <1>1, <1>4, <2>1, WaitHeard
<1>12. AppKnows'
  <2>1. Running' = {} /\ Busy /\ Busy'
    BY <1>1, <1>8 DEF Running, Busy
  <2> QED BY <1>1, <1>3, <1>4, <2>1, AppHeard
<1>13. PanelKnows'
  <2>1. view = "panel" => app' = app /\ ~panel.over
    BY <1>1 DEF PanelKnows
  <2> QED BY <1>1, <1>4, <2>1, PanelHeard
<1> QED BY <1>9, <1>10, <1>11, <1>12, <1>13 DEF IInv

\* An event of the first call that is left.
LEMMA ToolEventHeard ==
  ASSUME IInv, phase = "tools", NEW type \in ToolTypes, NEW error \in BOOLEAN,
         NEW e, e = ToolEvent(type, Head(toolsLeft), error), Receive(<<e>>)
  PROVE  \E s \in Shown :
           /\ Took(s)
           /\ \/ type = "tool_execution_update" /\ s.messages = messages /\ s.held = Append(held, e)
              \/ s.held = <<>>
           /\ type # "tool_execution_update" => s.held = <<>>
           /\ view = "app" /\ app.misled # "asked" =>
                /\ LastIs(s.messages, "assistant")
                /\ type = "tool_execution_end" => OnlyRuns(s.messages, {})
                /\ OnlyRuns(s.messages, {Head(toolsLeft)})
<1> DEFINE tool == Head(toolsLeft)
<1>1. Typed /\ Waiting /\ AppKnows
  BY DEF IInv
<1>2. tool \in Slots
  BY DEF IInv, Typed, Going
<1>3. e \in ToolEvents /\ e.tool = tool /\ e.type = type
  BY <1>2, ToolEventType
<1> HIDE DEF tool
<1>4. e \in Events /\ (IsUpdate(e) <=> type = "tool_execution_update")
  BY <1>3 DEF Events, IsUpdate, ToolTypes
<1>5. PICK s \in Shown :
        /\ Took(s)
        /\ \/ IsUpdate(e) /\ s.messages = messages /\ s.held = Append(held, e)
           \/ s.messages = applyAgentEvent(flush, e) /\ s.held = <<>>
        /\ ~IsUpdate(e) => s.messages = applyAgentEvent(flush, e) /\ s.held = <<>>
  BY <1>1, <1>4, ReceivedOne
<1>6. ASSUME view = "app", app.misled # "asked"
      PROVE  /\ LastIs(s.messages, "assistant")
             /\ type = "tool_execution_end" => OnlyRuns(s.messages, {})
             /\ OnlyRuns(s.messages, {tool})
  <2>1. OnlyRuns(messages, Running) /\ LastIs(messages, "assistant")
    BY <1>1, <1>6 DEF AppKnows
  <2>2. OnlyRuns(flush, Running) /\ LastIs(flush, "assistant") /\ flush \in Seq(Chats)
    BY <1>1, <2>1, FlushKeeps, FlushType
  <2>3. Running \subseteq {tool}
    BY DEF Running, tool
  <2>4. OnlyRuns(messages, {tool}) /\ OnlyRuns(flush, {tool})
    BY <2>1, <2>2, <2>3 DEF OnlyRuns
  <2> DEFINE new == applyAgentEvent(flush, e)
  <2>5. /\ LastIs(new, "assistant")
        /\ OnlyRuns(new, IF e.type = "tool_execution_end" THEN {} ELSE {tool})
    BY <1>3, <1>4, <2>2, <2>4, EventKinds
  <2> HIDE DEF new
  <2>6. OnlyRuns(new, {tool}) /\ (type = "tool_execution_end" => OnlyRuns(new, {}))
    BY <1>3, <2>5 DEF OnlyRuns
  <2> QED BY <1>4, <1>5, <2>1, <2>4, <2>5, <2>6 DEF new
<1> QED BY <1>4, <1>5, <1>6 DEF tool

LEMMA StartToolStep ==
  ASSUME IInv, StartTool
  PROVE  IInv'
<1> DEFINE e == ToolEvent("tool_execution_start", Head(toolsLeft), FALSE)
<1>1. /\ Typed /\ Going /\ Waiting /\ AppKnows /\ PanelKnows /\ phase = "tools" /\ toolRuns' = TRUE
      /\ Receive(<<e>>)
      /\ UNCHANGED <<records, phase, shape, parts, toolsLeft, aborting, steers, counts, view, app>>
  BY DEF IInv, StartTool
<1>2. PICK s \in Shown :
        /\ Took(s) /\ s.held = <<>>
        /\ view = "app" /\ app.misled # "asked" =>
             LastIs(s.messages, "assistant") /\ OnlyRuns(s.messages, {Head(toolsLeft)})
  <2> DEFINE type == "tool_execution_start"
             error == FALSE
  <2>1. type \in ToolTypes /\ error \in BOOLEAN /\ type # "tool_execution_update"
        /\ e = ToolEvent(type, Head(toolsLeft), error)
    BY DEF ToolTypes
  <2> HIDE DEF e, type, error
  <2> QED BY <1>1, <2>1, ToolEventHeard
<1> HIDE DEF e
<1>3. Typed'
  BY <1>1, <1>2 DEF Typed, Took
<1>4. Going'
  BY <1>1 DEF Going, Busy
<1>5. Waiting'
  <2>1. \A i \in 1..Len(s.held) : Fits(s.held[i])'
    BY <1>2
  <2> QED BY <1>1, <1>2, <2>1, WaitHeard
<1>6. AppKnows'
  <2>1. Running' = {Head(toolsLeft)} /\ Busy /\ Busy'
    BY <1>1 DEF Running, Busy
  <2> QED BY <1>1, <1>2, <2>1, AppHeard
<1>7. PanelKnows'
  <2>1. view = "panel" => app' = app /\ ~panel.over
    BY <1>1 DEF PanelKnows
  <2> QED BY <1>1, <1>2, <2>1, PanelHeard
<1> QED BY <1>3, <1>4, <1>5, <1>6, <1>7 DEF IInv

LEMMA UpdateToolStep ==
  ASSUME IInv, UpdateTool
  PROVE  IInv'
<1> DEFINE e == ToolEvent("tool_execution_update", Head(toolsLeft), FALSE)
<1>1. /\ Typed /\ Going /\ Waiting /\ AppKnows /\ PanelKnows /\ phase = "tools" /\ toolRuns
      /\ Receive(<<e>>)
      /\ UNCHANGED <<records, phase, shape, parts, toolsLeft, toolRuns, aborting, steers, counts, view, app>>
  BY DEF IInv, UpdateTool, agentVars
<1>2. PICK s \in Shown :
        /\ Took(s) /\ (s.held = Append(held, e) \/ s.held = <<>>)
        /\ view = "app" /\ app.misled # "asked" =>
             LastIs(s.messages, "assistant") /\ OnlyRuns(s.messages, {Head(toolsLeft)})
  <2> DEFINE type == "tool_execution_update"
             error == FALSE
  <2>1. type \in ToolTypes /\ error \in BOOLEAN /\ e = ToolEvent(type, Head(toolsLeft), error)
    BY DEF ToolTypes
  <2> HIDE DEF e, type, error
  <2> QED BY <1>1, <2>1, ToolEventHeard
<1>3. e.type = "tool_execution_update" /\ e.tool = Head(toolsLeft)
  BY DEF ToolEvent
<1> HIDE DEF e
<1>4. Typed'
  BY <1>1, <1>2 DEF Typed, Took
<1>5. Going'
  BY <1>1 DEF Going, Busy
<1>6. Waiting'
  <2>1. \A i \in 1..Len(s.held) : Fits(s.held[i])'
    <3>1. CASE s.held = <<>>
      BY <3>1
    <3>2. CASE s.held = Append(held, e)
      <4>1. held \in Seq(Events) /\ \A i \in 1..Len(held) : Fits(held[i])
        BY <1>1 DEF Typed, Waiting
      <4>2. /\ Len(s.held) = Len(held) + 1 /\ s.held[Len(held) + 1] = e
            /\ \A i \in 1..Len(held) : s.held[i] = held[i]
        BY <3>2, <4>1
      <4>3. ASSUME NEW i \in 1..Len(s.held)
            PROVE  s.held[i].type = "tool_execution_update" /\ s.held[i].tool = Head(toolsLeft)
        <5>1. CASE i = Len(held) + 1
          BY <4>2, <5>1, <1>3
        <5>2. CASE i # Len(held) + 1
          <6>1. i \in 1..Len(held)
            BY <4>1, <4>2, <5>2
          <6>2. Fits(held[i]) /\ s.held[i] = held[i]
            BY <4>1, <4>2, <6>1
          <6> QED BY <6>2, <1>1 DEF Fits
        <5> QED BY <5>1, <5>2
      <4> QED BY <4>3, <1>1 DEF Fits
    <3> QED BY <1>2, <3>1, <3>2
  <2> QED BY <1>1, <1>2, <2>1, WaitHeard
<1>7. AppKnows'
  <2>1. Running' = {Head(toolsLeft)} /\ Busy /\ Busy'
    BY <1>1 DEF Running, Busy
  <2> QED BY <1>1, <1>2, <2>1, AppHeard
<1>8. PanelKnows'
  <2>1. view = "panel" => app' = app /\ ~panel.over
    BY <1>1 DEF PanelKnows
  <2> QED BY <1>1, <1>2, <2>1, PanelHeard
<1> QED BY <1>4, <1>5, <1>6, <1>7, <1>8 DEF IInv

LEMMA EndToolStep ==
  ASSUME IInv, NEW error \in BOOLEAN, EndTool(error)
  PROVE  IInv'
<1> DEFINE tool == Head(toolsLeft)
           r == ResultRecord(tool, error)
           e == ToolEvent("tool_execution_end", tool, error)
<1>1. /\ Typed /\ Going /\ Waiting /\ AppKnows /\ PanelKnows /\ phase = "tools" /\ toolRuns
      /\ records' = Append(records, r) /\ Receive(<<e>>)
      /\ toolsLeft' = Tail(toolsLeft) /\ toolRuns' = FALSE
      /\ phase' = CASE Tail(toolsLeft) # <<>> -> "tools"
                    [] Tail(toolsLeft) = <<>> /\ aborting -> "ended"
                    [] OTHER -> "turn"
      /\ UNCHANGED <<shape, parts, aborting, steers, counts, view, app>>
  BY DEF IInv, EndTool
<1>2. PICK s \in Shown :
        /\ Took(s) /\ s.held = <<>>
        /\ view = "app" /\ app.misled # "asked" =>
             LastIs(s.messages, "assistant") /\ OnlyRuns(s.messages, {})
  <2> DEFINE type == "tool_execution_end"
  <2>1. type \in ToolTypes /\ type # "tool_execution_update" /\ type = "tool_execution_end"
        /\ e = ToolEvent(type, Head(toolsLeft), error)
    BY DEF ToolTypes
  <2> HIDE DEF e, type
  <2> QED BY <1>1, <2>1, ToolEventHeard
<1>3. toolsLeft \in Seq(Slots) /\ toolsLeft # <<>> /\ tool \in Slots /\ toolsLeft' \in Seq(Slots)
  BY <1>1 DEF Typed, Going
<1>4. r \in ResultRecords
  BY <1>3 DEF ResultRecord, ResultRecords
<1> HIDE DEF e, r
<1>5. records' \in Seq(Records) /\ records' # <<>> /\ LastIs(normalizeMessages(records'), "assistant")
  <2>1. r \in Records /\ records \in Seq(Records) /\ LastIs(normalizeMessages(records), "assistant")
    BY <1>1, <1>4 DEF Records, Typed, Going
  <2>2. LastIs(normalizeMessages(Append(records, r)), "assistant")
    BY <1>4, <2>1, StillEndsWithAgent
  <2> QED BY <1>1, <2>1, <2>2
<1>6. phase' \in {"tools", "ended", "turn"} /\ (phase' = "tools" => toolsLeft' # <<>>)
  BY <1>1
<1>7. Typed'
  BY <1>1, <1>2, <1>3, <1>5, <1>6 DEF Typed, Took, Phases
<1>8. Going'
  BY <1>1, <1>5, <1>6 DEF Going, Busy
<1>9. Waiting'
  <2>1. \A i \in 1..Len(s.held) : Fits(s.held[i])'
    BY <1>2
  <2> QED BY <1>1, <1>2, <2>1, WaitHeard
<1>10. AppKnows'
  <2>1. Running' = {} /\ Busy /\ Busy'
    BY <1>1, <1>6 DEF Running, Busy
  <2> QED BY <1>1, <1>2, <2>1, AppHeard
<1>11. PanelKnows'
  <2>1. view = "panel" => app' = app /\ ~panel.over
    BY <1>1 DEF PanelKnows
  <2> QED BY <1>1, <1>2, <2>1, PanelHeard
<1> QED BY <1>7, <1>8, <1>9, <1>10, <1>11 DEF IInv

LEMMA LastRecord ==
  ASSUME Typed, records # <<>>
  PROVE  Last(records) \in Records
BY FrontFacts DEF Typed

LEMMA RetryStep ==
  ASSUME IInv, Retry
  PROVE  IInv'
<1> DEFINE r == Last(records)
           e == AgentEnd(TRUE, r)
<1>1. /\ Typed /\ Going /\ Waiting /\ AppKnows /\ PanelKnows /\ phase = "ended" /\ phase' = "turn"
      /\ Receive(<<e>>)
      /\ UNCHANGED <<records, shape, parts, toolsLeft, toolRuns, aborting, steers, counts, view, app>>
  BY DEF IInv, Retry
<1>2. records # <<>> /\ r \in Records
  BY <1>1, LastRecord DEF Going, Busy
<1>3. e \in EndEvents /\ e.type = "agent_end"
  <2> HIDE DEF r
  <2> QED BY <1>2, EndEventType
<1> HIDE DEF e
<1>4. e \in Events /\ ~IsUpdate(e)
  BY <1>3 DEF Events, IsUpdate
<1>5. PICK s \in Shown : Took(s) /\ s.held = <<>> /\ s.messages = applyAgentEvent(flush, e)
  BY <1>1, <1>4, ReceivedOne
<1>6. ~toolRuns
  BY <1>1 DEF Going
<1>7. Typed'
  BY <1>1, <1>5 DEF Typed, Took, Phases
<1>8. Going'
  BY <1>1, <1>2, <1>6 DEF Going, Busy
<1>9. Waiting'
  <2>1. \A i \in 1..Len(s.held) : Fits(s.held[i])'
    BY <1>5
  <2> QED BY <1>1, <1>5, <2>1, WaitHeard
<1>10. AppKnows'
  <2>1. Running = {} /\ Running' = {} /\ Busy /\ Busy'
    BY <1>1 DEF Running, Busy
  <2>2. flush = messages /\ flush \in Seq(Chats)
    BY <1>1, NothingFits, FlushType
  <2>3. OnlyRuns(messages, {}) => OnlyRuns(s.messages, {})
    BY <1>3, <1>4, <1>5, <2>2, EventKinds
  <2>4. view = "app" /\ app.misled # "asked" =>
          /\ OnlyRuns(s.messages, Running')
          /\ phase' \in {"message", "tools"} => LastIs(s.messages, "assistant")
    BY <1>1, <2>1, <2>3 DEF AppKnows
  <2> QED BY <1>1, <1>5, <2>1, <2>4, AppHeard
<1>11. PanelKnows'
  <2>1. view = "panel" => app' = app /\ ~panel.over
    BY <1>1 DEF PanelKnows
  <2> QED BY <1>1, <1>5, <2>1, PanelHeard
<1> QED BY <1>7, <1>8, <1>9, <1>10, <1>11 DEF IInv

LEMMA ReadOnStep ==
  ASSUME IInv, ReadOn
  PROVE  IInv'
<1>1. /\ Typed /\ Going /\ Waiting /\ AppKnows /\ PanelKnows /\ phase = "ended" /\ phase' = "turn"
      /\ UNCHANGED <<records, shape, parts, toolsLeft, toolRuns, aborting, steers, counts, view,
                     messages, held, app, panel>>
  BY DEF IInv, ReadOn
<1>2. held = <<>> /\ ~toolRuns /\ records # <<>>
  BY <1>1, NothingFits DEF Going, Busy
<1>3. Typed'
  BY <1>1 DEF Typed, Phases
<1>4. Going'
  BY <1>1, <1>2 DEF Going, Busy
<1>5. Waiting'
  <2>1. held' = <<>> /\ Len(held') < Pending /\ Roomy(panel')
    BY <1>1, <1>2 DEF Waiting
  <2> QED BY <2>1 DEF Waiting
<1>6. AppKnows'
  <2>1. Running = {} /\ Running' = {} /\ Busy /\ Busy'
    BY <1>1 DEF Running, Busy
  <2> QED BY <1>1, <2>1 DEF AppKnows
<1>7. PanelKnows'
  BY <1>1 DEF PanelKnows
<1> QED BY <1>3, <1>4, <1>5, <1>6, <1>7 DEF IInv

LEMMA SettleStep ==
  ASSUME IInv, Settle
  PROVE  IInv'
<1> DEFINE r == Last(records)
           e == AgentEnd(FALSE, r)
           f == Settled
<1>1. /\ Typed /\ Going /\ Waiting /\ AppKnows /\ PanelKnows /\ phase \in {"ended", "turn"}
      /\ phase' = "idle" /\ Receive(<<e, f>>) /\ steers' = <<>> /\ aborting' = FALSE
      /\ app' = IF app.live
                  THEN [app EXCEPT !.running = FALSE, !.misled = IF @ = "asked" THEN @ ELSE "no"]
                  ELSE app
      /\ UNCHANGED <<records, shape, parts, toolsLeft, toolRuns, counts, view>>
  BY DEF IInv, Settle
<1>2. records # <<>> /\ r \in Records
  BY <1>1, LastRecord DEF Going, Busy
<1>3. e \in EndEvents /\ e.type = "agent_end" /\ f.type = "agent_settled"
  <2>1. f.type = "agent_settled"
    BY DEF Settled
  <2> HIDE DEF r
  <2> QED BY <1>2, <2>1, EndEventType
<1> HIDE DEF e
<1>4. e \in Events /\ ~IsUpdate(e) /\ f \in Events /\ ~IsUpdate(f)
  BY <1>3 DEF Events, IsUpdate
<1>0. f = Settled
  OBVIOUS
<1> HIDE DEF f
<1>5. PICK s \in Shown : /\ Took(s) /\ s.held = <<>>
                         /\ s.messages = applyAgentEvent(applyAgentEvent(flush, e), f)
  BY <1>1, <1>4, ReceivedTwo
<1>6. ~toolRuns
  BY <1>1 DEF Going
<1>7. app' \in Apps
  <2>1. app \in Apps
    BY <1>1 DEF Typed
  <2> QED BY <1>1, <2>1 DEF Apps
<1>8. Typed'
  <2>1. /\ Typed /\ phase' = "idle" /\ steers' = <<>> /\ aborting' = FALSE
        /\ UNCHANGED <<records, shape, parts, toolsLeft, toolRuns, counts, view>>
    BY <1>1
  <2>2. messages' \in Seq(Chats) /\ held' \in Seq(Events) /\ panel' \in Panels
    BY <1>5 DEF Took
  <2>3. <<>> \in Seq(Nat)
    OBVIOUS
  <2> QED BY <1>7, <2>1, <2>2, <2>3 DEF Typed, Phases
<1>9. Going'
  BY <1>1, <1>6 DEF Going, Busy
<1>10. Waiting'
  <2>1. \A i \in 1..Len(s.held) : Fits(s.held[i])'
    BY <1>5
  <2> QED BY <1>1, <1>5, <2>1, WaitHeard
<1>11. AppKnows'
  <2> SUFFICES ASSUME view = "app" PROVE AppKnows'
    BY <1>1 DEF AppKnows
  <2>1. app.live /\ app \in Apps
    BY <1>1 DEF AppKnows, Typed
  <2>2. /\ app'.live /\ ~app'.running /\ app'.sending = app.sending
        /\ app'.misled = IF app.misled = "asked" THEN "asked" ELSE "no"
    BY <1>1, <2>1 DEF Apps
  <2>3. messages' = s.messages /\ panel' = panel
    BY <1>5, <2>1 DEF Took
  <2>4. Running = {} /\ Running' = {} /\ ~Busy'
    BY <1>1 DEF Running, Busy
  <2>5. flush = messages /\ flush \in Seq(Chats)
    BY <1>1, NothingFits, FlushType
  <2> DEFINE a == applyAgentEvent(flush, e)
  <2>6. a \in Seq(Chats) /\ (OnlyRuns(messages, {}) => OnlyRuns(a, {}))
    BY <1>3, <1>4, <2>5, EventKinds
  <2> HIDE DEF a
  <2>7. /\ \A i \in 1..Len(s.messages) : ~s.messages[i].streaming
        /\ OnlyRuns(a, {}) => OnlyRuns(s.messages, {})
    BY <1>0, <1>4, <1>5, <2>6, EventKinds DEF a
  <2>8. Buried(messages')
    BY <2>3, <2>7 DEF Buried
  <2>9. app.misled # "asked" => OnlyRuns(messages', {})
    BY <1>1, <2>3, <2>4, <2>6, <2>7 DEF AppKnows
  <2> QED BY <1>1, <2>1, <2>2, <2>3, <2>4, <2>8, <2>9 DEF AppKnows
<1>12. PanelKnows'
  <2>1. view = "panel" => app' = app /\ ~panel.over
    BY <1>1 DEF PanelKnows
  <2> QED BY <1>1, <1>5, <2>1, PanelHeard
<1> QED BY <1>8, <1>9, <1>10, <1>11, <1>12 DEF IInv

---------------------------------------------------------------------------
(* The steps of the App.                                                   *)

\* Nothing is under way in the messages of a file.
LEMMA StillKnown ==
  ASSUME NEW ms \in Seq(StillChats)
  PROVE  ms \in Seq(Chats) /\ (\A T : OnlyRuns(ms, T)) /\ Buried(ms)
<1>1. Len(ms) \in Nat /\ \A i \in 1..Len(ms) : ms[i] \in Chats /\ Still(ms[i])
  BY DEF StillChats
<1>2. ms \in Seq(Chats)
  BY <1>1
<1> QED BY <1>1, <1>2 DEF Still, OnlyRuns, Buried

LEMMA SnapshotType ==
  ASSUME Typed, Going
  PROVE  /\ normalizeMessages(Snapshot) \in Seq(StillChats)
         /\ phase \in {"message", "tools"} => LastIs(normalizeMessages(Snapshot), "assistant")
<1>1. records \in Seq(Records)
  BY DEF Typed
<1>2. CASE phase = "message"
  <2> DEFINE r == Partial
  <2>1. r \in AgentRecords
    BY AgentRecordType DEF Partial, Typed, Counters, M, Stops
  <2>2. r \in Records
    BY <2>1 DEF Records
  <2> HIDE DEF r
  <2>3. Snapshot = Append(records, r)
    BY <1>1, <1>2, <2>2 DEF Snapshot, r
  <2>4. Append(records, r) \in Seq(Records)
    BY <1>1, <2>2
  <2> QED BY <1>1, <2>1, <2>3, <2>4, Normalized, EndsWithAgent
<1>3. CASE phase # "message"
  <2>1. Snapshot = records
    BY <1>1, <1>3 DEF Snapshot
  <2> QED BY <1>1, <1>3, <2>1, Normalized DEF Going
<1> QED BY <1>2, <1>3

LEMMA OptimisticType ==
  ASSUME NEW n \in Nat
  PROVE  LET c == optimisticUserMessage(n, <<0, 0, n>>)
         IN  c \in StillChats /\ c.id = n /\ c.role = "user"
<1> DEFINE text == <<<<0, 0, n>>>>
           b == Chat("user", text)
           c == optimisticUserMessage(n, <<0, 0, n>>)
<1>1. text \in Texts
  BY DEF Texts
<1> HIDE DEF text
<1>2. b \in StillChats
  BY <1>1, ChatType
<1>3. b.role = "user"
  BY DEF Chat
<1>4. c = [b EXCEPT !.id = n]
  BY DEF optimisticUserMessage, text
<1> HIDE DEF b, c
<1>5. b \in ChatRecords /\ Sound(b) /\ Still(b)
  BY <1>2 DEF StillChats, Chats
<1>6. /\ c \in ChatRecords /\ c.id = n /\ c.role = b.role /\ c.tools = b.tools /\ c.work = b.work
      /\ c.workOffset = b.workOffset /\ c.streaming = b.streaming
  BY <1>4, <1>5 DEF ChatRecords
<1>7. Sound(c) /\ Still(c)
  BY <1>3, <1>5, <1>6 DEF Sound, Still
<1> QED BY <1>3, <1>6, <1>7 DEF StillChats, Chats, c

\* The question that is taken back was nothing under way, and no message of the agent.
LEMMA WithoutType ==
  ASSUME Typed, counts.prompts > 0
  PROVE  LET new == WithoutOptimistic
         IN  /\ new \in Seq(Chats)
             /\ \A T : OnlyRuns(messages, T) => OnlyRuns(new, T)
             /\ LastIs(messages, "assistant") => LastIs(new, "assistant")
             /\ Buried(messages) => Buried(new)
<1> DEFINE new == WithoutOptimistic
           places == {i \in DOMAIN messages : messages[i].id # counts.prompts}
           n == Len(messages)
           l == Len(new)
<1>1. messages \in Seq(Chats) /\ n \in Nat /\ DOMAIN messages = 1..n
  BY DEF Typed
<1>2. new = Picked(messages, places)
  BY DEF WithoutOptimistic
<1>3. \A i \in 1..n : messages[i].role = "assistant" => i \in places
  <2> SUFFICES ASSUME NEW i \in 1..n, messages[i].role = "assistant" PROVE i \in places
    OBVIOUS
  <2>1. messages[i] \in Chats
    BY <1>1
  <2>2. messages[i].id = 0
    BY <2>1 DEF Chats, Sound
  <2>3. counts.prompts \in Nat
    BY DEF Typed, Counters
  <2> QED BY <1>1, <2>2, <2>3
<1> HIDE DEF places, new
<1>4. new \in Seq(Chats) /\ l \in Nat
  BY <1>1, <1>2, PickedTaken
<1>5. PICK e : Taken(messages, places, n, new, e)
  BY <1>1, <1>2, PickedTaken
<1>6. /\ \A k \in 1..l : e[k] \in 1..n /\ new[k] = messages[e[k]]
      /\ \A j, k \in 1..l : j < k => e[j] < e[k]
      /\ \A i \in places \cap (1..n) : \E k \in 1..l : e[k] = i
  BY <1>5 DEF Taken
<1> HIDE DEF n, l
<1>7. \A k \in 1..l : e[k] = n => k = l
  <2> SUFFICES ASSUME NEW k \in 1..l, e[k] = n, k # l PROVE FALSE
    OBVIOUS
  <2>1. l \in 1..l /\ k < l
    BY <1>4
  <2>2. n < e[l] /\ e[l] \in 1..n
    BY <1>6, <2>1
  <2> QED BY <1>1, <2>2
<1>8. ASSUME NEW T, OnlyRuns(messages, T) PROVE OnlyRuns(new, T)
  <2> SUFFICES ASSUME NEW k \in 1..Len(new), NEW t \in DOMAIN new[k].tools,
                      new[k].tools[t].status = "running"
               PROVE k = Len(new) /\ t \in T
    BY DEF OnlyRuns
  <2>1. k \in 1..l /\ e[k] \in 1..n /\ new[k] = messages[e[k]]
    BY <1>6 DEF l
  <2>2. e[k] = n /\ t \in T
    BY <1>8, <2>1 DEF OnlyRuns, n
  <2> QED BY <1>7, <2>1, <2>2 DEF l
<1>9. ASSUME LastIs(messages, "assistant") PROVE LastIs(new, "assistant")
  <2>1. n \in 1..n /\ messages[n].role = "assistant"
    BY <1>1, <1>9, LastOf DEF n
  <2>2. PICK k \in 1..l : e[k] = n
    BY <1>3, <1>6, <2>1
  <2>3. k = l /\ new[k] = messages[n]
    BY <1>6, <1>7, <2>2
  <2>4. new # <<>> /\ new[Len(new)].role = "assistant"
    BY <2>1, <2>2, <2>3, <1>4 DEF l
  <2> QED BY <1>4, <2>4, LastOf
<1>10. ASSUME Buried(messages) PROVE Buried(new)
  <2> SUFFICES ASSUME NEW i \in 1..Len(new), new[i].streaming
               PROVE \E k \in 1..Len(new) : k > i /\ new[k].role = "assistant"
    BY DEF Buried
  <2>1. i \in 1..l /\ e[i] \in 1..n /\ messages[e[i]].streaming
    BY <1>6 DEF l
  <2>2. PICK j \in 1..n : j > e[i] /\ messages[j].role = "assistant"
    BY <1>10, <2>1 DEF Buried, n
  <2>3. PICK k \in 1..l : e[k] = j
    BY <1>3, <1>6, <2>2
  <2>4. k > i
    <3>1. ~(k < i) /\ k # i
      <4>1. ASSUME k < i PROVE FALSE
        <5>1. j < e[i]
          BY <1>6, <2>1, <2>3, <4>1
        <5> QED BY <2>1, <2>2, <5>1
      <4>2. ASSUME k = i PROVE FALSE
        BY <2>1, <2>2, <2>3, <4>2
      <4> QED BY <4>1, <4>2
    <3> QED BY <3>1
  <2>5. new[k].role = "assistant"
    BY <1>6, <2>2, <2>3
  <2> QED BY <2>4, <2>5 DEF l
<1> QED BY <1>4, <1>8, <1>9, <1>10 DEF new

\* What a step of the App leaves to the others.
LEMMA AppRest ==
  ASSUME IInv, view = "app", UNCHANGED <<records, phase, shape, parts, toolsLeft, toolRuns, view, panel>>,
         held' = held \/ held' = <<>>
  PROVE  Going' /\ Waiting' /\ PanelKnows'
<1>1. Going'
  BY DEF IInv, Going, Busy
<1>2. Waiting'
  <2>1. Len(held') < Pending /\ Roomy(panel')
    BY BoundsAssumption DEF IInv, Waiting
  <2>2. (\A i \in 1..Len(held) : Fits(held[i]))'
    <3>1. CASE held' = held
      BY <3>1 DEF IInv, Waiting, Fits
    <3>2. CASE held' = <<>>
      BY <3>2
    <3> QED BY <3>1, <3>2
  <2> QED BY <2>1, <2>2 DEF Waiting
<1>3. PanelKnows'
  BY DEF PanelKnows
<1> QED BY <1>1, <1>2, <1>3

LEMMA FlushKnown ==
  ASSUME IInv, view = "app"
  PROVE  /\ flush \in Seq(Chats)
         /\ app.misled # "asked" =>
              /\ OnlyRuns(flush, Running)
              /\ phase \in {"message", "tools"} => LastIs(flush, "assistant")
         /\ ~Busy => flush = messages
<1>1. Typed /\ Waiting /\ AppKnows
  BY DEF IInv
<1>2. ~Busy => phase # "message" /\ phase # "tools"
  BY DEF Busy
<1> QED BY <1>1, <1>2, FlushType, FlushKeeps, NothingFits DEF AppKnows

LEMMA OnlyRunsMore ==
  ASSUME NEW ms, NEW T, OnlyRuns(ms, {})
  PROVE  OnlyRuns(ms, T)
BY DEF OnlyRuns

LEMMA SendMessageStep ==
  ASSUME IInv, SendMessage
  PROVE  IInv'
<1> DEFINE n == counts'.prompts
           c == optimisticUserMessage(n, <<0, 0, n>>)
<1>1. /\ Typed /\ AppKnows /\ view = "app" /\ app.sending = "no" /\ ~app.running
      /\ Count("prompts") /\ messages' = Append(messages, c)
      /\ app' = [NewRun EXCEPT !.sending = IF app.live THEN "asked" ELSE "starting",
                               !.misled = IF @ = "no" THEN "no" ELSE "asked"]
      /\ held' = (IF app.live THEN held ELSE <<>>)
      /\ UNCHANGED <<records, phase, shape, parts, toolsLeft, toolRuns, aborting, steers, view, panel>>
  BY DEF IInv, SendMessage, agentVars
<1>2. counts' \in Counters /\ n > 0 /\ n \in Nat
  <2>1. counts \in Counters
    BY <1>1 DEF Typed
  <2>2. counts' \in Counters /\ counts'.prompts = counts.prompts + 1
    BY <1>1, <2>1, Counted
  <2> QED BY <2>1, <2>2 DEF Counters
<1> HIDE DEF n
<1>3. c \in StillChats /\ c.role = "user"
  BY <1>2, OptimisticType
<1> HIDE DEF c
<1>4. /\ messages' \in Seq(Chats)
      /\ OnlyRuns(messages, {}) => OnlyRuns(messages', {})
      /\ Buried(messages) => Buried(messages')
  BY <1>1, <1>3, Appended DEF Typed, StillChats, Still
<1>5. /\ app' \in Apps /\ app'.live = app.live /\ app'.running /\ app'.sending # "no"
      /\ app'.misled = IF app.misled = "no" THEN "no" ELSE "asked"
  <2>1. app \in Apps
    BY <1>1 DEF Typed
  <2> QED BY <1>1, <2>1 DEF NewRun, Apps
<1>6. held' = held \/ held' = <<>>
  BY <1>1
<1>7. Going' /\ Waiting' /\ PanelKnows'
  BY <1>1, <1>6, AppRest
<1>8. Typed'
  <2>1. held' \in Seq(Events)
    BY <1>1 DEF Typed
  <2> QED BY <1>1, <1>2, <1>4, <1>5, <2>1 DEF Typed
<1>9. AppKnows'
  <2>1. app.misled = "no" => ~Busy /\ Running = {} /\ Running' = {}
    BY <1>1 DEF AppKnows, Running, Busy
  <2>2. app.misled = "no" => OnlyRuns(messages', Running') /\ Buried(messages')
    BY <1>1, <1>4, <2>1 DEF AppKnows
  <2>3. app'.misled # "asked" => app.misled = "no"
    BY <1>5
  <2> QED BY <1>1, <1>2, <1>5, <2>1, <2>2, <2>3 DEF AppKnows, Busy, n
<1> QED BY <1>7, <1>8, <1>9 DEF IInv

LEMMA AgentStartedStep ==
  ASSUME IInv, AgentStarted
  PROVE  IInv'
<1> DEFINE c == Optimistic
           ms == normalizeMessages(records)
<1>1. /\ Typed /\ Going /\ Waiting /\ AppKnows /\ PanelKnows /\ app.sending = "starting"
      /\ phase = "dead" /\ phase' = "idle" /\ messages' = Append(ms, c) /\ held' = <<>>
      /\ app' = [NewRun EXCEPT !.live = TRUE, !.sending = "asked", !.misled = "no"]
      /\ UNCHANGED <<records, shape, parts, toolsLeft, toolRuns, aborting, steers, counts, view, panel>>
  BY DEF IInv, AgentStarted, Show
<1>2. view = "app"
  BY <1>1, ViewIs DEF PanelKnows
<1>3. c \in StillChats
  <2>1. counts.prompts \in Nat
    BY <1>1 DEF Typed, Counters
  <2> QED BY <2>1, OptimisticType DEF Optimistic
<1>4. ms \in Seq(StillChats)
  BY <1>1, Normalized DEF Typed
<1> HIDE DEF c, ms
<1>5. messages' \in Seq(StillChats)
  BY <1>1, <1>3, <1>4
<1>6. messages' \in Seq(Chats) /\ OnlyRuns(messages', {}) /\ Buried(messages')
  BY <1>5, StillKnown
<1>7. app' \in Apps /\ app'.live /\ app'.running /\ app'.sending = "asked" /\ app'.misled = "no"
  <2>1. app \in Apps
    BY <1>1 DEF Typed
  <2> QED BY <1>1, <2>1 DEF NewRun, Apps
<1>8. ~toolRuns
  BY <1>1 DEF Going
<1>9. Typed'
  <2>1. <<>> \in Seq(Events)
    OBVIOUS
  <2> QED BY <1>1, <1>6, <1>7, <2>1 DEF Typed, Phases
<1>10. Going'
  BY <1>1, <1>8 DEF Going, Busy
<1>11. Waiting'
  <2>1. held' = <<>> /\ Len(held') < Pending /\ Roomy(panel')
    BY <1>1, BoundsAssumption DEF Waiting
  <2> QED BY <2>1 DEF Waiting
<1>12. AppKnows'
  <2>1. Running' = {} /\ ~Busy'
    BY <1>1 DEF Running, Busy
  <2>2. counts.prompts > 0 /\ ~panel.over /\ panel.read = "no"
    BY <1>1, <1>2 DEF AppKnows
  <2> QED BY <1>1, <1>6, <1>7, <2>1, <2>2 DEF AppKnows
<1>13. PanelKnows'
  BY <1>1, <1>2 DEF PanelKnows
<1> QED BY <1>9, <1>10, <1>11, <1>12, <1>13 DEF IInv

LEMMA PromptFailsStep ==
  ASSUME IInv, PromptFails
  PROVE  IInv'
<1>1. /\ Typed /\ AppKnows /\ PanelKnows /\ app.sending # "no" /\ messages' = WithoutOptimistic
      /\ app' = [app EXCEPT !.running = FALSE, !.sending = "no",
                            !.misled = IF Busy /\ @ = "no" THEN "ended" ELSE @]
      /\ IF phase = "idle" THEN Count("troubles") ELSE UNCHANGED counts
      /\ UNCHANGED <<records, phase, shape, parts, toolsLeft, toolRuns, aborting, steers, view,
                     held, panel>>
  BY DEF IInv, PromptFails, agentVars
<1>2. view = "app"
  BY <1>1, ViewIs DEF PanelKnows
<1>3. counts.prompts > 0
  BY <1>1, <1>2 DEF AppKnows
<1>4. counts' \in Counters
  <2>1. counts \in Counters
    BY <1>1 DEF Typed
  <2>2. CASE phase = "idle"
    BY <1>1, <2>1, <2>2, Counted
  <2>3. CASE phase # "idle"
    BY <1>1, <2>1, <2>3
  <2> QED BY <2>2, <2>3
<1>5. /\ messages' \in Seq(Chats)
      /\ \A T : OnlyRuns(messages, T) => OnlyRuns(messages', T)
      /\ LastIs(messages, "assistant") => LastIs(messages', "assistant")
      /\ Buried(messages) => Buried(messages')
  BY <1>1, <1>3, WithoutType
<1>6. /\ app' \in Apps /\ app'.live = app.live /\ ~app'.running /\ app'.sending = "no"
      /\ app'.misled = IF Busy /\ app.misled = "no" THEN "ended" ELSE app.misled
  <2>1. app \in Apps
    BY <1>1 DEF Typed
  <2> HIDE DEF Busy
  <2> QED BY <1>1, <2>1 DEF Apps
<1>7. Going' /\ Waiting' /\ PanelKnows'
  BY <1>1, <1>2, AppRest
<1>8. Typed'
  BY <1>1, <1>4, <1>5, <1>6 DEF Typed
<1>9. AppKnows'
  <2>1. Running' = Running /\ (Busy' <=> Busy)
    BY <1>1 DEF Running, Busy
  <2>2. /\ app'.misled # "asked" => app.misled # "asked"
        /\ app'.misled = "no" => ~Busy /\ app.misled = "no"
    BY <1>6
  <2> QED BY <1>1, <1>2, <1>5, <1>6, <2>1, <2>2 DEF AppKnows
<1> QED BY <1>7, <1>8, <1>9 DEF IInv

LEMMA SteerStep ==
  ASSUME IInv, Steer
  PROVE  IInv'
<1> DEFINE n == MaxPrompts + counts'.troubles
<1>1. /\ Typed /\ AppKnows /\ view = "app" /\ Count("troubles") /\ steers' = Append(steers, n)
      /\ UNCHANGED <<records, phase, shape, parts, toolsLeft, toolRuns, aborting, view, messages,
                     held, app, panel>>
  BY DEF IInv, Steer
<1>2. counts' \in Counters /\ counts'.prompts = counts.prompts
  <2>1. counts \in Counters
    BY <1>1 DEF Typed
  <2> QED BY <1>1, <2>1, Counted
<1>3. n \in Nat
  BY <1>2, BoundsAssumption DEF Counters
<1> HIDE DEF n
<1>4. Going' /\ Waiting' /\ PanelKnows'
  BY <1>1, AppRest
<1>5. Typed'
  BY <1>1, <1>2, <1>3 DEF Typed
<1>6. AppKnows'
  <2>1. Running' = Running /\ (Busy' <=> Busy)
    BY <1>1 DEF Running, Busy
  <2> QED BY <1>1, <1>2, <2>1 DEF AppKnows
<1> QED BY <1>4, <1>5, <1>6 DEF IInv

LEMMA StopStep ==
  ASSUME IInv, Stop
  PROVE  IInv'
<1>1. /\ Typed /\ AppKnows /\ view = "app" /\ Count("troubles") /\ messages' = flush /\ held' = <<>>
      /\ app' = [app EXCEPT !.stop = "sent", !.stale = FALSE]
      /\ UNCHANGED <<records, phase, shape, parts, toolsLeft, toolRuns, aborting, steers, view, panel>>
  BY DEF IInv, Stop, Show, agentVars
<1>2. counts' \in Counters /\ counts'.prompts = counts.prompts
  <2>1. counts \in Counters
    BY <1>1 DEF Typed
  <2> QED BY <1>1, <2>1, Counted
<1>3. /\ app' \in Apps /\ app'.live = app.live /\ app'.running = app.running
      /\ app'.sending = app.sending /\ app'.misled = app.misled
  <2>1. app \in Apps
    BY <1>1 DEF Typed
  <2> QED BY <1>1, <2>1 DEF Apps
<1>4. Going' /\ Waiting' /\ PanelKnows'
  BY <1>1, AppRest
<1>5. /\ flush \in Seq(Chats)
      /\ app.misled # "asked" =>
           /\ OnlyRuns(flush, Running)
           /\ phase \in {"message", "tools"} => LastIs(flush, "assistant")
      /\ ~Busy => flush = messages
  BY <1>1, FlushKnown
<1>6. Typed'
  <2>1. <<>> \in Seq(Events)
    OBVIOUS
  <2> QED BY <1>1, <1>2, <1>3, <1>5, <2>1 DEF Typed
<1>7. AppKnows'
  <2>1. Running' = Running /\ (Busy' <=> Busy)
    BY <1>1 DEF Running, Busy
  <2> HIDE DEF flush
  <2> QED BY <1>1, <1>2, <1>3, <1>5, <2>1 DEF AppKnows
<1> QED BY <1>4, <1>6, <1>7 DEF IInv

LEMMA TakeAbortStep ==
  ASSUME IInv, TakeAbort
  PROVE  IInv'
<1>1. /\ Typed /\ AppKnows /\ PanelKnows /\ app.stop = "sent" /\ aborting' = Busy
      /\ app' = [app EXCEPT !.stop = "taken"]
      /\ UNCHANGED <<records, phase, shape, parts, toolsLeft, toolRuns, steers, counts, view,
                     messages, held, panel>>
  BY DEF IInv, TakeAbort
<1>2. view = "app"
  BY <1>1, ViewIs DEF PanelKnows
<1>3. /\ app' \in Apps /\ app'.live = app.live /\ app'.running = app.running
      /\ app'.sending = app.sending /\ app'.misled = app.misled
  <2>1. app \in Apps
    BY <1>1 DEF Typed
  <2> QED BY <1>1, <2>1 DEF Apps
<1>4. Going' /\ Waiting' /\ PanelKnows'
  BY <1>1, <1>2, AppRest
<1>5. aborting' \in BOOLEAN
  BY <1>1 DEF Busy
<1>6. Typed'
  BY <1>1, <1>3, <1>5 DEF Typed
<1>7. AppKnows'
  <2>1. Running' = Running /\ (Busy' <=> Busy)
    BY <1>1 DEF Running, Busy
  <2> QED BY <1>1, <1>3, <2>1 DEF AppKnows
<1> QED BY <1>4, <1>6, <1>7 DEF IInv

LEMMA AbortAnsweredStep ==
  ASSUME IInv, AbortAnswered
  PROVE  IInv'
<1>1. /\ Typed /\ AppKnows /\ PanelKnows /\ app.stop = "taken"
      /\ UNCHANGED <<records, phase, shape, parts, toolsLeft, toolRuns, aborting, steers, counts,
                     view, panel>>
  BY DEF IInv, AbortAnswered, agentVars
<1>2. view = "app"
  BY <1>1, ViewIs DEF PanelKnows
<1>3. Running' = Running /\ (Busy' <=> Busy) /\ app \in Apps
  BY <1>1 DEF Running, Busy, Typed
<1>4. CASE Busy \/ app.stale
  <2>1. app' = [app EXCEPT !.stop = "no"] /\ messages' = messages /\ held' = held
    BY <1>4 DEF AbortAnswered
  <2>2. /\ app' \in Apps /\ app'.live = app.live /\ app'.running = app.running
        /\ app'.sending = app.sending /\ app'.misled = app.misled
    BY <1>3, <2>1 DEF Apps
  <2>3. Going' /\ Waiting' /\ PanelKnows'
    BY <1>1, <1>2, <2>1, AppRest
  <2>4. Typed'
    BY <1>1, <2>1, <2>2 DEF Typed
  <2>5. AppKnows'
    BY <1>1, <1>3, <2>1, <2>2 DEF AppKnows
  <2> QED BY <2>3, <2>4, <2>5 DEF IInv
<1>5. CASE ~(Busy \/ app.stale)
  <2> DEFINE new == settleStoppedTurn(flush)
  <2>1. /\ app' = [app EXCEPT !.stop = "no", !.running = FALSE] /\ messages' = new /\ held' = <<>>
    BY <1>5 DEF AbortAnswered, Show
  <2>2. /\ app' \in Apps /\ app'.live = app.live /\ ~app'.running
        /\ app'.sending = app.sending /\ app'.misled = app.misled
    BY <1>3, <2>1 DEF Apps
  <2>3. flush \in Seq(Chats) /\ (app.misled # "asked" => OnlyRuns(flush, Running))
    BY <1>2, FlushKnown
  <2> HIDE DEF flush
  <2>4. new \in Seq(Chats) /\ Buried(new) /\ (app.misled # "asked" => OnlyRuns(new, {}))
    BY <2>3, SettleType
  <2> HIDE DEF new
  <2>5. Going' /\ Waiting' /\ PanelKnows'
    BY <1>1, <1>2, <2>1, AppRest
  <2>6. Typed'
    <3>1. <<>> \in Seq(Events)
      OBVIOUS
    <3> QED BY <1>1, <2>1, <2>2, <2>4, <3>1 DEF Typed
  <2>7. AppKnows'
    <3>1. app.misled # "asked" => OnlyRuns(new, Running)
      BY <2>4, OnlyRunsMore
    <3>2. phase' \notin {"message", "tools"} /\ ~Busy
      BY <1>1, <1>5 DEF Busy
    <3> QED BY <1>1, <1>3, <2>1, <2>2, <2>4, <3>1, <3>2 DEF AppKnows
  <2> QED BY <2>5, <2>6, <2>7 DEF IInv
<1> QED BY <1>4, <1>5

\* The worker is gone, and what it left is settled.
LEMMA GoneStep ==
  ASSUME IInv, view = "app", app.live, Count("troubles"), app' = Dropped, AgentGone,
         NEW new \in Seq(Chats), Buried(new), messages' = new, held' = <<>>,
         app.misled # "asked" => OnlyRuns(new, {})
  PROVE  IInv'
<1>1. /\ Typed /\ AppKnows /\ phase' = "dead" /\ toolsLeft' = <<>> /\ toolRuns' = FALSE
      /\ aborting' = FALSE /\ steers' = <<>> /\ UNCHANGED <<records, shape, parts, view, panel>>
  BY DEF IInv, AgentGone
<1>2. counts' \in Counters /\ counts'.prompts = counts.prompts
  <2>1. counts \in Counters
    BY <1>1 DEF Typed
  <2> QED BY <2>1, Counted
<1>3. /\ app' \in Apps /\ ~app'.live /\ ~app'.running
      /\ app'.sending = app.sending /\ app'.misled = app.misled
  <2>1. app \in Apps
    BY <1>1 DEF Typed
  <2> QED BY <2>1 DEF Dropped, Apps
<1>4. Typed'
  <2>1. <<>> \in Seq(Events) /\ <<>> \in Seq(Slots) /\ <<>> \in Seq(Nat)
    OBVIOUS
  <2> QED BY <1>1, <1>2, <1>3, <2>1 DEF Typed, Phases
<1>5. Going'
  BY <1>1 DEF Going, Busy
<1>6. Waiting'
  <2>1. held' = <<>> /\ Len(held') < Pending /\ Roomy(panel')
    BY <1>1, BoundsAssumption DEF IInv, Waiting
  <2> QED BY <2>1 DEF Waiting
<1>7. AppKnows'
  <2>1. Running' = {} /\ ~Busy'
    BY <1>1 DEF Running, Busy
  <2> QED BY <1>1, <1>2, <1>3, <2>1 DEF AppKnows
<1>8. PanelKnows'
  BY <1>1 DEF PanelKnows
<1> QED BY <1>4, <1>5, <1>6, <1>7, <1>8 DEF IInv

LEMMA RuntimeStoppedStep ==
  ASSUME IInv, RuntimeStopped
  PROVE  IInv'
<1>1. /\ Typed /\ AppKnows /\ view = "app" /\ app.live /\ Count("troubles") /\ app' = Dropped
      /\ AgentGone
  BY DEF IInv, RuntimeStopped
<1>2. PICK shown \in {messages, flush} : messages' = settleStoppedTurn(shown) /\ held' = <<>>
  BY DEF RuntimeStopped, Show
<1>3. shown \in Seq(Chats) /\ (app.misled # "asked" => OnlyRuns(shown, Running))
  <2>1. messages \in Seq(Chats) /\ (app.misled # "asked" => OnlyRuns(messages, Running))
    BY <1>1 DEF Typed, AppKnows
  <2>2. flush \in Seq(Chats) /\ (app.misled # "asked" => OnlyRuns(flush, Running))
    BY <1>1, FlushKnown
  <2> HIDE DEF flush
  <2> QED BY <1>2, <2>1, <2>2
<1> DEFINE new == settleStoppedTurn(shown)
<1>4. new \in Seq(Chats) /\ Buried(new) /\ (app.misled # "asked" => OnlyRuns(new, {}))
  BY <1>3, SettleType
<1> QED BY <1>1, <1>2, <1>4, GoneStep

LEMMA AgentFailedStep ==
  ASSUME IInv, AgentFailed
  PROVE  IInv'
<1>1. /\ Typed /\ AppKnows /\ view = "app" /\ app.live /\ Count("troubles") /\ app' = Dropped
      /\ AgentGone /\ messages' = failActiveTurn(messages) /\ held' = <<>>
  BY DEF IInv, AgentFailed, Show
<1>2. messages \in Seq(Chats) /\ (app.misled # "asked" => OnlyRuns(messages, Running))
  BY <1>1 DEF Typed, AppKnows
<1> DEFINE new == failActiveTurn(messages)
<1>3. new \in Seq(Chats) /\ Buried(new) /\ (app.misled # "asked" => OnlyRuns(new, {}))
  BY <1>2, FailType
<1> QED BY <1>1, <1>3, GoneStep

LEMMA LineIgnoredStep ==
  ASSUME IInv, LineIgnored
  PROVE  IInv'
<1> DEFINE new == failActiveTurn(flush)
<1>1. /\ Typed /\ AppKnows /\ view = "app" /\ app.live /\ Count("troubles") /\ messages' = new
      /\ held' = <<>>
      /\ app' = [app EXCEPT !.running = FALSE,
                            !.misled = IF Busy /\ @ = "no" THEN "ended" ELSE @]
      /\ UNCHANGED <<records, phase, shape, parts, toolsLeft, toolRuns, aborting, steers, view, panel>>
  BY DEF IInv, LineIgnored, Show, agentVars
<1>2. counts' \in Counters /\ counts'.prompts = counts.prompts
  <2>1. counts \in Counters
    BY <1>1 DEF Typed
  <2> QED BY <1>1, <2>1, Counted
<1>3. /\ app' \in Apps /\ app'.live = app.live /\ ~app'.running /\ app'.sending = app.sending
      /\ app'.misled = IF Busy /\ app.misled = "no" THEN "ended" ELSE app.misled
  <2>1. app \in Apps
    BY <1>1 DEF Typed
  <2> HIDE DEF Busy, new
  <2> QED BY <1>1, <2>1 DEF Apps
<1>4. /\ flush \in Seq(Chats)
      /\ app.misled # "asked" =>
           /\ OnlyRuns(flush, Running)
           /\ phase \in {"message", "tools"} => LastIs(flush, "assistant")
  BY <1>1, FlushKnown
<1> HIDE DEF flush
<1>5. /\ new \in Seq(Chats) /\ Buried(new)
      /\ flush # <<>> => LastIs(new, "assistant")
      /\ app.misled # "asked" => OnlyRuns(new, {})
  BY <1>4, FailType
<1> HIDE DEF new
<1>6. app.misled # "asked" =>
        /\ OnlyRuns(new, Running)
        /\ phase \in {"message", "tools"} => LastIs(new, "assistant")
  BY <1>4, <1>5, OnlyRunsMore DEF LastIs
<1>7. Going' /\ Waiting' /\ PanelKnows'
  BY <1>1, AppRest
<1>8. Typed'
  <2>1. <<>> \in Seq(Events)
    OBVIOUS
  <2> QED BY <1>1, <1>2, <1>3, <1>5, <2>1 DEF Typed
<1>9. AppKnows'
  <2>1. Running' = Running /\ (Busy' <=> Busy)
    BY <1>1 DEF Running, Busy
  <2>2. /\ app'.misled # "asked" => app.misled # "asked"
        /\ app'.misled = "no" => ~Busy /\ app.misled = "no"
    BY <1>3
  <2> QED BY <1>1, <1>2, <1>3, <1>5, <1>6, <2>1, <2>2 DEF AppKnows
<1> QED BY <1>7, <1>8, <1>9 DEF IInv

LEMMA OpenThreadStep ==
  ASSUME IInv, OpenThread
  PROVE  IInv'
<1> DEFINE new == normalizeMessages(Snapshot)
<1>1. /\ Typed /\ Going /\ AppKnows /\ view = "app" /\ Count("troubles") /\ messages' = new
      /\ held' = <<>>
      /\ app' = [app EXCEPT !.live = phase # "dead", !.running = Busy, !.stale = TRUE,
                            !.misled = "no"]
      /\ UNCHANGED <<records, phase, shape, parts, toolsLeft, toolRuns, aborting, steers, view, panel>>
  BY DEF IInv, OpenThread, Show, agentVars
<1>2. counts' \in Counters /\ counts'.prompts = counts.prompts
  <2>1. counts \in Counters
    BY <1>1 DEF Typed
  <2> QED BY <1>1, <2>1, Counted
<1>3. /\ app' \in Apps /\ app'.live = (phase # "dead") /\ app'.running = Busy
      /\ app'.sending = app.sending /\ app'.misled = "no"
  <2>1. app \in Apps /\ (phase # "dead") \in BOOLEAN /\ Busy \in BOOLEAN
    BY <1>1 DEF Typed, Busy
  <2> DEFINE a == (phase # "dead")
             b == Busy
  <2>2. app' = [app EXCEPT !.live = a, !.running = b, !.stale = TRUE, !.misled = "no"]
    BY <1>1
  <2> HIDE DEF a, b
  <2>3. a \in BOOLEAN /\ b \in BOOLEAN
    BY <2>1 DEF a, b
  <2>4. /\ app' \in Apps /\ app'.live = a /\ app'.running = b
        /\ app'.sending = app.sending /\ app'.misled = "no"
    BY <2>1, <2>2, <2>3 DEF Apps
  <2> QED BY <2>4 DEF a, b
<1>4. new \in Seq(StillChats) /\ (phase \in {"message", "tools"} => LastIs(new, "assistant"))
  BY <1>1, SnapshotType
<1> HIDE DEF new
<1>5. new \in Seq(Chats) /\ OnlyRuns(new, Running) /\ Buried(new)
  BY <1>4, StillKnown
<1>6. Going' /\ Waiting' /\ PanelKnows'
  BY <1>1, AppRest
<1>7. Typed'
  <2>1. <<>> \in Seq(Events)
    OBVIOUS
  <2> QED BY <1>1, <1>2, <1>3, <1>5, <2>1 DEF Typed
<1>8. AppKnows'
  <2>1. Running' = Running /\ (Busy' <=> Busy)
    BY <1>1 DEF Running, Busy
  <2> QED BY <1>1, <1>2, <1>3, <1>4, <1>5, <2>1 DEF AppKnows
<1> QED BY <1>6, <1>7, <1>8 DEF IInv

LEMMA ResyncStep ==
  ASSUME IInv, Resync
  PROVE  IInv'
<1> DEFINE new == normalizeMessages(Snapshot)
<1>1. /\ Typed /\ Going /\ AppKnows /\ view = "app" /\ Count("troubles") /\ messages' = new
      /\ app' = [app EXCEPT !.misled = IF @ = "asked" THEN "ended" ELSE @]
      /\ UNCHANGED <<records, phase, shape, parts, toolsLeft, toolRuns, aborting, steers, view,
                     held, panel>>
  BY DEF IInv, Resync, agentVars
<1>2. counts' \in Counters /\ counts'.prompts = counts.prompts
  <2>1. counts \in Counters
    BY <1>1 DEF Typed
  <2> QED BY <1>1, <2>1, Counted
<1>3. /\ app' \in Apps /\ app'.live = app.live /\ app'.running = app.running
      /\ app'.sending = app.sending
      /\ app'.misled = IF app.misled = "asked" THEN "ended" ELSE app.misled
  <2>1. app \in Apps
    BY <1>1 DEF Typed
  <2> QED BY <1>1, <2>1 DEF Apps
<1>4. new \in Seq(StillChats) /\ (phase \in {"message", "tools"} => LastIs(new, "assistant"))
  BY <1>1, SnapshotType
<1> HIDE DEF new
<1>5. new \in Seq(Chats) /\ OnlyRuns(new, Running) /\ Buried(new)
  BY <1>4, StillKnown
<1>6. Going' /\ Waiting' /\ PanelKnows'
  BY <1>1, AppRest
<1>7. Typed'
  BY <1>1, <1>2, <1>3, <1>5 DEF Typed
<1>8. AppKnows'
  <2>1. Running' = Running /\ (Busy' <=> Busy)
    BY <1>1 DEF Running, Busy
  <2>2. app'.misled = "no" => app.misled = "no"
    BY <1>3
  <2> QED BY <1>1, <1>2, <1>3, <1>4, <1>5, <2>1, <2>2 DEF AppKnows
<1> QED BY <1>6, <1>7, <1>8 DEF IInv

LEMMA FrameStep ==
  ASSUME IInv, Frame
  PROVE  IInv'
<1>1. /\ Typed /\ Going /\ Waiting /\ AppKnows /\ PanelKnows /\ held # <<>>
      /\ UNCHANGED <<records, phase, shape, parts, toolsLeft, toolRuns, aborting, steers, counts,
                     view, app, panel>>
  BY DEF IInv, Frame, agentVars
<1>2. phase \in {"message", "tools"}
  BY <1>1, NothingFits
<1>3. held' = <<>> /\ messages' \in {messages, flush}
  BY DEF Frame, Show
<1>4. flush \in Seq(Chats) /\ messages \in Seq(Chats)
  BY <1>1, FlushType DEF Typed
<1>5. view = "app" /\ app.misled # "asked" => OnlyRuns(flush, Running) /\ LastIs(flush, "assistant")
  BY <1>2, FlushKnown
<1> HIDE DEF flush
<1>6. Typed'
  <2>1. <<>> \in Seq(Events)
    OBVIOUS
  <2> QED BY <1>1, <1>3, <1>4, <2>1 DEF Typed
<1>7. Going'
  BY <1>1 DEF Going, Busy
<1>8. Waiting'
  BY <1>1, <1>3, BoundsAssumption DEF Waiting
<1>9. Busy /\ Busy' /\ Running' = Running
  BY <1>1, <1>2 DEF Busy, Running
<1>10. AppKnows'
  BY <1>1, <1>2, <1>3, <1>5, <1>9 DEF AppKnows
<1>11. PanelKnows'
  BY <1>1, <1>2 DEF PanelKnows
<1> QED BY <1>6, <1>7, <1>8, <1>10, <1>11 DEF IInv

---------------------------------------------------------------------------
(* The steps of the panel.                                                 *)

LEMMA PanelRest ==
  ASSUME IInv, view = "panel", counts' \in Counters, panel' \in Panels, Roomy(panel'),
         messages' \in Seq(Chats), held' = held \/ held' = <<>>, panel'.loading => held' = <<>>,
         UNCHANGED <<records, phase, shape, parts, toolsLeft, toolRuns, aborting, steers, view, app>>
  PROVE  Typed' /\ Going' /\ Waiting' /\ AppKnows'
<1>1. Typed /\ Going /\ Waiting /\ AppKnows
  BY DEF IInv
<1>2. Typed'
  <2>1. <<>> \in Seq(Events)
    OBVIOUS
  <2> QED BY <1>1, <2>1 DEF Typed
<1>3. Going'
  BY <1>1 DEF Going, Busy
<1>4. Waiting'
  <2>1. Len(held') < Pending
    BY <1>1, BoundsAssumption DEF Waiting
  <2>2. (\A i \in 1..Len(held) : Fits(held[i]))'
    <3>1. CASE held' = held
      BY <1>1, <3>1 DEF Waiting, Fits
    <3>2. CASE held' = <<>>
      BY <3>2
    <3> QED BY <3>1, <3>2
  <2> QED BY <2>1, <2>2 DEF Waiting
<1>5. AppKnows'
  BY DEF AppKnows
<1> QED BY <1>2, <1>3, <1>4, <1>5

LEMMA OpenPanelStep ==
  ASSUME IInv, OpenPanel
  PROVE  IInv'
<1>1. /\ Typed /\ PanelKnows /\ view = "panel" /\ ~panel.open /\ Waiting
      /\ panel' = [panel EXCEPT !.open = TRUE, !.read = "load"]
      /\ UNCHANGED <<records, phase, shape, parts, toolsLeft, toolRuns, aborting, steers, counts,
                     view, messages, held, app>>
  BY DEF IInv, OpenPanel, agentVars
<1>2. /\ panel' \in Panels /\ Roomy(panel') /\ panel'.read = "load" /\ panel'.open
      /\ panel'.file = panel.file /\ panel'.buffer = panel.buffer /\ panel'.overflow = panel.overflow
      /\ panel'.loading = panel.loading /\ panel'.over = panel.over /\ panel'.skipped = panel.skipped
  <2>1. panel \in Panels /\ Roomy(panel)
    BY <1>1 DEF Typed, Waiting
  <2> QED BY <1>1, <2>1 DEF Panels, Roomy
<1>3. Typed' /\ Going' /\ Waiting' /\ AppKnows'
  <2>1. counts' \in Counters /\ messages' \in Seq(Chats) /\ (panel'.loading => held' = <<>>)
    BY <1>1, <1>2 DEF Typed, Waiting
  <2> QED BY <1>1, <1>2, <2>1, PanelRest
<1>4. PanelKnows'
  BY <1>1, <1>2 DEF PanelKnows
<1> QED BY <1>3, <1>4 DEF IInv

LEMMA ReadFileStep ==
  ASSUME IInv, ReadFile
  PROVE  IInv'
<1>1. /\ Typed /\ PanelKnows /\ AppKnows /\ panel.read # "no" /\ panel.file = <<>> /\ Waiting
      /\ panel' = [panel EXCEPT !.file = <<records>>]
      /\ UNCHANGED <<records, phase, shape, parts, toolsLeft, toolRuns, aborting, steers, counts,
                     view, messages, held, app>>
  BY DEF IInv, ReadFile, agentVars
<1>2. view = "panel"
  BY <1>1, ViewIs DEF AppKnows
<1>3. /\ panel' \in Panels /\ Roomy(panel') /\ panel'.read = panel.read /\ panel'.open = panel.open
      /\ panel'.file = <<records>> /\ panel'.buffer = panel.buffer /\ panel'.overflow = panel.overflow
      /\ panel'.loading = panel.loading /\ panel'.over = panel.over /\ panel'.skipped = panel.skipped
  <2> DEFINE f == <<records>>
  <2>1. panel \in Panels /\ Roomy(panel) /\ f \in {<<rs>> : rs \in Seq(Records)}
    BY <1>1 DEF Typed, Waiting
  <2>2. panel' = [panel EXCEPT !.file = f]
    BY <1>1
  <2> HIDE DEF f
  <2> QED BY <2>1, <2>2 DEF Panels, Roomy, f
<1>4. Typed' /\ Going' /\ Waiting' /\ AppKnows'
  <2>1. counts' \in Counters /\ messages' \in Seq(Chats) /\ (panel'.loading => held' = <<>>)
    BY <1>1, <1>2, <1>3 DEF Typed, Waiting
  <2> QED BY <1>1, <1>2, <1>3, <2>1, PanelRest
<1>5. PanelKnows'
  BY <1>1, <1>2, <1>3 DEF PanelKnows
<1> QED BY <1>4, <1>5 DEF IInv

\* The file that is read has records.
LEMMA FileType ==
  ASSUME panel \in Panels, panel.file # <<>>
  PROVE  normalizeMessages(panel.file[1]) \in Seq(Chats)
<1>1. PICK rs \in Seq(Records) : panel.file = <<rs>>
  BY DEF Panels
<1>2. panel.file[1] = rs
  BY <1>1
<1>3. normalizeMessages(rs) \in Seq(StillChats)
  BY Normalized
<1> QED BY <1>2, <1>3, StillKnown

LEMMA ReconciledStep ==
  ASSUME IInv, Reconciled
  PROVE  IInv'
<1> DEFINE new == normalizeMessages(panel.file[1])
<1>1. /\ Typed /\ PanelKnows /\ AppKnows /\ Waiting /\ panel.read = "again" /\ panel.file # <<>>
      /\ messages' = new /\ held' = <<>>
      /\ panel' = [panel EXCEPT !.read = "no", !.file = <<>>]
      /\ UNCHANGED <<records, phase, shape, parts, toolsLeft, toolRuns, aborting, steers, counts,
                     view, app>>
  BY DEF IInv, Reconciled, agentVars, Show
<1>2. view = "panel"
  BY <1>1, ViewIs DEF AppKnows
<1>3. /\ panel' \in Panels /\ Roomy(panel') /\ panel'.read = "no" /\ panel'.open = panel.open
      /\ panel'.file = <<>> /\ panel'.buffer = panel.buffer /\ panel'.overflow = panel.overflow
      /\ panel'.loading = panel.loading /\ panel'.over = panel.over /\ panel'.skipped = panel.skipped
  <2>1. panel \in Panels /\ Roomy(panel)
    BY <1>1 DEF Typed, Waiting
  <2> QED BY <1>1, <2>1 DEF Panels, Roomy
<1>4. new \in Seq(Chats)
  <2>1. panel \in Panels
    BY <1>1 DEF Typed
  <2> QED BY <1>1, <2>1, FileType
<1>5. Typed' /\ Going' /\ Waiting' /\ AppKnows'
  <2>1. counts' \in Counters /\ messages' \in Seq(Chats)
    BY <1>1, <1>4 DEF Typed
  <2> QED BY <1>1, <1>2, <1>3, <2>1, PanelRest
<1>6. PanelKnows'
  <2>1. panel.over /\ ~panel.skipped => new = normalizeMessages(records)
    BY <1>1, <1>2 DEF PanelKnows
  <2>2. panel.over /\ ~panel.skipped => messages' = normalizeMessages(records)
    BY <1>1, <2>1
  <2> QED BY <1>1, <1>2, <1>3, <2>2 DEF PanelKnows
<1> QED BY <1>5, <1>6 DEF IInv

LEMMA LoadedStep ==
  ASSUME IInv, Loaded
  PROVE  IInv'
<1> DEFINE start == normalizeMessages(panel.file[1])
           new == ApplyAll(start, panel.buffer)
<1>1. /\ Typed /\ PanelKnows /\ AppKnows /\ Waiting /\ panel.read = "load" /\ panel.file # <<>>
      /\ UNCHANGED <<records, phase, shape, parts, toolsLeft, toolRuns, aborting, steers, counts,
                     view, app>>
  BY DEF IInv, Loaded, agentVars
<1>2. view = "panel" /\ panel.loading /\ panel.open /\ counts' \in Counters
  BY <1>1, ViewIs DEF AppKnows, PanelKnows, Typed
<1>3. panel \in Panels /\ Roomy(panel) /\ held = <<>>
  BY <1>1, <1>2 DEF Typed, Waiting
<1>4. CASE panel.overflow /\ panel.attempts < MaxAttempts
  <2>1. /\ panel' = [panel EXCEPT !.file = <<>>, !.overflow = FALSE, !.attempts = @ + 1]
        /\ UNCHANGED <<messages, held>>
    BY <1>4 DEF Loaded
  <2>2. /\ panel' \in Panels /\ Roomy(panel') /\ panel'.read = panel.read /\ panel'.open = panel.open
        /\ panel'.file = <<>> /\ panel'.buffer = panel.buffer /\ ~panel'.overflow
        /\ panel'.loading = panel.loading /\ panel'.over = panel.over /\ panel'.skipped = panel.skipped
    <3>1. /\ panel'.read = panel.read /\ panel'.open = panel.open
          /\ panel'.file = <<>> /\ panel'.buffer = panel.buffer /\ ~panel'.overflow
          /\ panel'.loading = panel.loading /\ panel'.over = panel.over
          /\ panel'.skipped = panel.skipped
      BY <1>3, <2>1 DEF Panels
    <3>2. panel.attempts + 1 \in Nat
      BY <1>3 DEF Panels
    <3>3. panel' \in Panels
      BY <1>3, <2>1, <3>2 DEF Panels
    <3> QED BY <1>3, <3>1, <3>3 DEF Roomy
  <2>3. Typed' /\ Going' /\ Waiting' /\ AppKnows'
    <3>1. messages' \in Seq(Chats) /\ held' = <<>>
      BY <1>1, <1>3, <2>1 DEF Typed
    <3> QED BY <1>1, <1>2, <2>2, <3>1, PanelRest
  <2>4. PanelKnows'
    BY <1>1, <1>2, <2>1, <2>2 DEF PanelKnows
  <2> QED BY <2>3, <2>4 DEF IInv
<1>5. CASE ~(panel.overflow /\ panel.attempts < MaxAttempts)
  <2>1. /\ messages' = new /\ held' = <<>>
        /\ panel' = [panel EXCEPT !.read = "no", !.file = <<>>, !.buffer = <<>>,
                                  !.overflow = FALSE, !.loading = FALSE]
    BY <1>5 DEF Loaded, Show
  <2>2. /\ panel' \in Panels /\ Roomy(panel') /\ panel'.read = "no" /\ panel'.open = panel.open
        /\ panel'.file = <<>> /\ panel'.buffer = <<>> /\ ~panel'.overflow
        /\ ~panel'.loading /\ panel'.over = panel.over /\ panel'.skipped = panel.skipped
    <3>1. <<>> \in Seq(Events) /\ Len(<<>>) = 0 /\ MaxBuffered \in Nat
      BY BoundsAssumption
    <3>2. panel'.buffer = <<>>
      BY <1>3, <2>1 DEF Panels
    <3>3. panel' \in Panels
      BY <1>3, <2>1, <3>1 DEF Panels
    <3>4. Roomy(panel')
      BY <3>1, <3>2 DEF Roomy
    <3> QED BY <1>3, <2>1, <3>2, <3>3, <3>4 DEF Panels
  <2>3. start \in Seq(Chats) /\ panel.buffer \in Seq(Events)
    BY <1>1, <1>3, FileType DEF Panels
  <2> HIDE DEF start
  <2>4. new \in Seq(Chats)
    BY <2>3, Applied
  <2>5. panel.buffer = <<>> => new = start
    BY <2>3, Applied
  <2> HIDE DEF new
  <2>6. Typed' /\ Going' /\ Waiting' /\ AppKnows'
    BY <1>1, <1>2, <2>1, <2>2, <2>4, PanelRest
  <2>7. PanelKnows'
    <3>1. panel.over /\ ~panel.skipped => panel.file = <<records>> /\ panel.buffer = <<>>
      BY <1>1, <1>2 DEF PanelKnows
    <3>2. panel.over /\ ~panel.skipped => messages' = normalizeMessages(records)
      BY <2>1, <2>5, <3>1 DEF start
    <3> QED BY <1>1, <1>2, <2>2, <3>2 DEF PanelKnows
  <2> QED BY <2>6, <2>7 DEF IInv
<1> QED BY <1>4, <1>5

LEMMA ReadFailsStep ==
  ASSUME IInv, ReadFails
  PROVE  IInv'
<1> DEFINE none == <<>>
           new == ApplyAll(none, panel.buffer)
<1>1. /\ Typed /\ PanelKnows /\ AppKnows /\ Waiting /\ panel.read # "no" /\ Count("troubles")
      /\ panel' = [panel EXCEPT !.read = "no", !.file = <<>>, !.buffer = <<>>, !.loading = FALSE,
                                !.skipped = @ \/ panel.over]
      /\ IF panel.read = "load" THEN messages' = new /\ held' = <<>> ELSE UNCHANGED <<messages, held>>
      /\ UNCHANGED <<records, phase, shape, parts, toolsLeft, toolRuns, aborting, steers, view, app>>
  BY DEF IInv, ReadFails, agentVars, Show
<1>2. view = "panel"
  BY <1>1, ViewIs DEF AppKnows
<1>3. panel \in Panels /\ Roomy(panel) /\ panel.buffer \in Seq(Events)
  BY <1>1 DEF Typed, Waiting, Panels
<1>4. counts' \in Counters
  <2>1. counts \in Counters
    BY <1>1 DEF Typed
  <2> QED BY <1>1, <2>1, Counted
<1>5. new \in Seq(Chats)
  <2>1. none \in Seq(Chats)
    OBVIOUS
  <2> HIDE DEF none
  <2> QED BY <1>3, <2>1, Applied
<1> HIDE DEF new
<1>6. /\ panel' \in Panels /\ Roomy(panel') /\ panel'.read = "no" /\ panel'.open = panel.open
      /\ panel'.file = <<>> /\ panel'.over = panel.over
      /\ ~panel'.loading /\ (panel.over => panel'.skipped)
  <2> DEFINE k == panel.skipped \/ panel.over
  <2>1. panel' = [panel EXCEPT !.read = "no", !.file = <<>>, !.buffer = <<>>, !.loading = FALSE,
                               !.skipped = k]
    BY <1>1
  <2>2. k \in BOOLEAN /\ (panel.over => k = TRUE)
    BY <1>3 DEF Panels
  <2> HIDE DEF k
  <2>3. <<>> \in Seq(Events) /\ Len(<<>>) = 0 /\ MaxBuffered \in Nat
    BY BoundsAssumption
  <2>4. panel'.buffer = <<>>
    BY <1>3, <2>1 DEF Panels
  <2>5. panel' \in Panels
    BY <1>3, <2>1, <2>2, <2>3 DEF Panels
  <2>6. Roomy(panel')
    BY <2>3, <2>4 DEF Roomy
  <2> QED BY <1>3, <2>1, <2>2, <2>5, <2>6 DEF Panels
<1>7. messages' \in Seq(Chats) /\ (held' = held \/ held' = <<>>)
  BY <1>1, <1>5 DEF Typed
<1>8. Typed' /\ Going' /\ Waiting' /\ AppKnows'
  BY <1>1, <1>2, <1>4, <1>6, <1>7, PanelRest
<1>9. panel.open
  BY <1>1, <1>2 DEF PanelKnows
<1>10. PanelKnows'
  BY <1>1, <1>2, <1>6, <1>9 DEF PanelKnows
<1> QED BY <1>8, <1>10 DEF IInv

LEMMA ChildContinuedStep ==
  ASSUME IInv, ChildContinued
  PROVE  IInv'
<1>1. /\ Typed /\ PanelKnows /\ AppKnows /\ Waiting /\ panel.over
      /\ panel' = [panel EXCEPT !.over = FALSE, !.skipped = FALSE,
                            !.read = IF @ = "again" THEN "no" ELSE @,
                            !.file = IF panel.read = "again" THEN <<>> ELSE @]
      /\ UNCHANGED <<records, phase, shape, parts, toolsLeft, toolRuns, aborting, steers, counts,
                     view, messages, held, app>>
  BY DEF IInv, ChildContinued, agentVars
<1>2. view = "panel"
  BY <1>1, ViewIs DEF AppKnows
<1>3. panel \in Panels /\ Roomy(panel)
  BY <1>1 DEF Typed, Waiting
<1>4. /\ panel' \in Panels /\ Roomy(panel') /\ panel'.open = panel.open
      /\ panel'.read = (IF panel.read = "again" THEN "no" ELSE panel.read)
      /\ panel'.file = (IF panel.read = "again" THEN <<>> ELSE panel.file)
      /\ panel'.buffer = panel.buffer /\ panel'.overflow = panel.overflow
      /\ panel'.loading = panel.loading /\ ~panel'.over
  <2> DEFINE r == IF panel.read = "again" THEN "no" ELSE panel.read
             f == IF panel.read = "again" THEN <<>> ELSE panel.file
  <2>1. panel' = [panel EXCEPT !.over = FALSE, !.skipped = FALSE, !.read = r, !.file = f]
    BY <1>1
  <2>2. r \in {"no", "load", "again"} /\ f \in {<<>>} \cup {<<rs>> : rs \in Seq(Records)}
    BY <1>3 DEF Panels
  <2> HIDE DEF r, f
  <2> QED BY <1>3, <2>1, <2>2 DEF Panels, Roomy, r, f
<1>5. Typed' /\ Going' /\ Waiting' /\ AppKnows'
  <2>1. counts' \in Counters /\ messages' \in Seq(Chats) /\ (panel'.loading => held' = <<>>)
    BY <1>1, <1>2, <1>4 DEF Typed, Waiting
  <2> QED BY <1>1, <1>2, <1>4, <2>1, PanelRest
<1>6. PanelKnows'
  BY <1>1, <1>2, <1>4 DEF PanelKnows
<1> QED BY <1>5, <1>6 DEF IInv

LEMMA DelegationEndsStep ==
  ASSUME IInv, DelegationEnds
  PROVE  IInv'
<1>1. /\ Typed /\ PanelKnows /\ AppKnows /\ Waiting /\ view = "panel" /\ phase = "idle" /\ ~panel.over
      /\ panel' = [panel EXCEPT !.over = TRUE, !.skipped = panel.read = "load",
                            !.read = IF panel.loading THEN @ ELSE "again"]
      /\ UNCHANGED <<records, phase, shape, parts, toolsLeft, toolRuns, aborting, steers, counts,
                     view, messages, held, app>>
  BY DEF IInv, DelegationEnds, agentVars
<1>2. panel \in Panels /\ Roomy(panel)
  BY <1>1 DEF Typed, Waiting
<1>3. /\ panel' \in Panels /\ Roomy(panel') /\ panel'.open = panel.open
      /\ panel'.read = (IF panel.loading THEN panel.read ELSE "again")
      /\ panel'.skipped <=> panel.read = "load"
      /\ panel'.file = panel.file
      /\ panel'.buffer = panel.buffer /\ panel'.overflow = panel.overflow
      /\ panel'.loading = panel.loading /\ panel'.over
  <2> DEFINE r == IF panel.loading THEN panel.read ELSE "again"
             k == panel.read = "load"
  <2>1. panel' = [panel EXCEPT !.over = TRUE, !.skipped = k, !.read = r]
    BY <1>1
  <2>2. r \in {"no", "load", "again"} /\ k \in BOOLEAN
    BY <1>2 DEF Panels
  <2> HIDE DEF r, k
  <2>3. /\ panel' \in Panels /\ Roomy(panel') /\ panel'.open = panel.open
        /\ panel'.read = r /\ panel'.skipped = k /\ panel'.file = panel.file
        /\ panel'.buffer = panel.buffer /\ panel'.overflow = panel.overflow
        /\ panel'.loading = panel.loading /\ panel'.over
    BY <1>2, <2>1, <2>2 DEF Panels, Roomy
  <2> QED BY <2>3 DEF r, k
<1>4. Typed' /\ Going' /\ Waiting' /\ AppKnows'
  <2>1. counts' \in Counters /\ messages' \in Seq(Chats) /\ (panel'.loading => held' = <<>>)
    BY <1>1, <1>3 DEF Typed, Waiting
  <2> QED BY <1>1, <1>3, <2>1, PanelRest
<1>5. PanelKnows'
  BY <1>1, <1>2, <1>3 DEF PanelKnows, Panels
<1> QED BY <1>4, <1>5 DEF IInv

---------------------------------------------------------------------------
(* The specification.                                                      *)

LEMMA InitIInv ==
  ASSUME Init
  PROVE  IInv
<1>1. /\ records = <<>> /\ phase = "idle" /\ shape = <<>> /\ parts = <<>> /\ toolsLeft = <<>>
      /\ toolRuns = FALSE /\ aborting = FALSE /\ steers = <<>>
      /\ counts = [prompts |-> 0, messages |-> 0, troubles |-> 0] /\ view \in Views
      /\ messages = <<>> /\ held = <<>>
  BY DEF Init
<1>2. /\ app \in Apps /\ (app.live <=> view = "app") /\ ~app.running /\ app.sending = "no"
      /\ app.stop = "no" /\ app.misled = "no"
  <2> DEFINE l == view = "app"
  <2>1. app = [live |-> l, running |-> FALSE, sending |-> "no",
               stop |-> "no", stale |-> FALSE, misled |-> "no"]
    BY DEF Init
  <2>2. l \in BOOLEAN
    OBVIOUS
  <2> HIDE DEF l
  <2>3. /\ app \in Apps /\ app.live = l /\ ~app.running /\ app.sending = "no"
        /\ app.stop = "no" /\ app.misled = "no"
    BY <2>1, <2>2 DEF Apps
  <2> QED BY <2>3 DEF l
<1>3. /\ panel \in Panels /\ panel.read = "no" /\ panel.file = <<>> /\ panel.buffer = <<>>
      /\ ~panel.overflow /\ ~panel.open /\ panel.loading /\ ~panel.over
  <2>1. panel = [read |-> "no", file |-> <<>>, buffer |-> <<>>, overflow |-> FALSE, attempts |-> 0,
                 open |-> FALSE, loading |-> TRUE, over |-> FALSE, skipped |-> FALSE]
    BY DEF Init
  <2>2. <<>> \in Seq(Events)
    OBVIOUS
  <2> QED BY <2>1, <2>2 DEF Panels
<1>4. Typed
  <2>1. <<>> \in Seq(Events) /\ <<>> \in Seq(Slots) /\ <<>> \in Seq(Nat) /\ <<>> \in Seq(Chats)
        /\ <<>> \in Seq(Records) /\ <<>> \in Seq(PartRecords)
    OBVIOUS
  <2>2. counts \in Counters
    BY <1>1 DEF Counters
  <2> QED BY <1>1, <1>2, <1>3, <2>1, <2>2 DEF Typed, Phases
<1>5. Going
  BY <1>1 DEF Going, Busy
<1>6. Waiting
  BY <1>1, <1>3, BoundsAssumption DEF Waiting, Roomy
<1>7. AppKnows
  BY <1>1, <1>2, <1>3 DEF AppKnows, Busy, OnlyRuns, Buried
<1>8. PanelKnows
  BY <1>1, <1>2, <1>3 DEF PanelKnows
<1> QED BY <1>4, <1>5, <1>6, <1>7, <1>8 DEF IInv

LEMMA StutterStep ==
  ASSUME IInv, UNCHANGED vars
  PROVE  IInv'
<1>1. /\ Typed' /\ Going' /\ AppKnows'
      /\ Len(held') < Pending /\ Roomy(panel') /\ view' = view /\ panel' = panel /\ held' = held
  BY DEF IInv, vars, agentVars, Typed, Going, Waiting, AppKnows, Busy, Running
<1>2. (\A i \in 1..Len(held) : Fits(held[i]))'
  BY DEF IInv, vars, agentVars, Waiting, Fits
<1>3. Waiting'
  BY <1>1, <1>2 DEF IInv, Waiting
<1>4. PanelKnows'
  BY DEF IInv, vars, agentVars, PanelKnows
<1> QED BY <1>1, <1>3, <1>4 DEF IInv

LEMMA NextStep ==
  ASSUME IInv, [Next]_vars
  PROVE  IInv'
<1>1. CASE Agent
  <2>1. ASSUME NEW s \in Shapes, StartMessage(s) PROVE IInv'
    BY <2>1, StartMessageStep
  <2>2. ASSUME NEW stop \in {"stop", "toolUse", "aborted", "error"}, EndMessage(stop) PROVE IInv'
    BY <2>2, EndMessageStep
  <2>3. ASSUME NEW error \in BOOLEAN, EndTool(error) PROVE IInv'
    BY <2>3, EndToolStep
  <2> QED BY <1>1, <2>1, <2>2, <2>3, TakePromptStep, TakeSteerStep, WriteStep, StartToolStep,
             UpdateToolStep, RetryStep, ReadOnStep, SettleStep DEF Agent
<1>2. CASE App
  BY <1>2, SendMessageStep, AgentStartedStep, PromptFailsStep, SteerStep, StopStep, TakeAbortStep,
     AbortAnsweredStep, RuntimeStoppedStep, AgentFailedStep, LineIgnoredStep, OpenThreadStep,
     ResyncStep DEF App
<1>3. CASE Panel
  BY <1>3, OpenPanelStep, ReadFileStep, LoadedStep, ReadFailsStep, ChildPromptedStep,
     ChildContinuedStep, DelegationEndsStep, ReconciledStep DEF Panel
<1>4. CASE Frame
  BY <1>4, FrameStep
<1>5. CASE UNCHANGED vars
  BY <1>5, StutterStep
<1> QED BY <1>1, <1>2, <1>3, <1>4, <1>5 DEF Next

\* The invariant holds in every behaviour, however the events, the frames, the stops, the
\* failures, the reopened threads and the reads of the panel fall.
THEOREM Invariant == Spec => []IInv
<1>1. Init => IInv
  BY InitIInv
<1>2. IInv /\ [Next]_vars => IInv'
  BY NextStep
<1> QED BY <1>1, <1>2, PTL DEF Spec

\* TypeOK: the scheduler never holds MAX_PENDING_STREAM_EVENTS events and only updates,
\* the panel never keeps more than its limit, and every tool of every message has its row
\* (stream-scheduler.ts, child-session-panel.tsx, conversation.ts mergeWork).
THEOREM TypeCorrect == Spec => []TypeOK
<1>1. ASSUME IInv PROVE TypeOK
  <2>1. Typed /\ Waiting
    BY <1>1 DEF IInv
  <2>2. parts \in Seq([kind : Kinds, n : 1..2])
    BY <2>1 DEF Typed, PartRecords
  <2>3. /\ app.live \in BOOLEAN /\ app.running \in BOOLEAN /\ app.stale \in BOOLEAN
        /\ app.sending \in {"no", "starting", "asked"} /\ app.stop \in {"no", "sent", "taken"}
        /\ app.misled \in {"no", "ended", "asked"} /\ panel.read \in {"no", "load", "again"}
    BY <2>1 DEF Typed, Apps, Panels
  <2>4. Len(panel.buffer) <= MaxBuffered /\ Len(held) < Pending
    BY <2>1 DEF Waiting, Roomy
  <2>5. \A i \in DOMAIN held : IsUpdate(held[i])
    <3>1. DOMAIN held = 1..Len(held)
      BY <2>1 DEF Typed
    <3> QED BY <2>1, <3>1 DEF Waiting, Fits, IsUpdate
  <2>6. ToolsHaveRows(messages)
    <3>1. \A i \in DOMAIN messages : Sound(messages[i])
      BY <2>1 DEF Typed, Chats
    <3> QED BY <3>1 DEF Sound, ToolsHaveRows
  <2> QED BY <2>1, <2>2, <2>3, <2>4, <2>5, <2>6 DEF TypeOK, Typed
<1>2. IInv => TypeOK
  BY <1>1
<1> QED BY <1>2, Invariant, PTL

\* SettledIsQuiet: while the App says that nothing runs, its last message is not being
\* written and no tool is shown as running (settleStoppedTurn, failActiveTurn,
\* finalizeInterruptedTurn of conversation.ts, and the App's handlers that call them).
THEOREM Quiet == Spec => []SettledIsQuiet
<1>1. ASSUME IInv PROVE SettledIsQuiet
  <2> SUFFICES ASSUME view = "app", ~app.running, app.misled = "no"
               PROVE  /\ messages # <<>> => ~Last(messages).streaming
                      /\ \A i \in DOMAIN messages : \A t \in DOMAIN messages[i].tools :
                           messages[i].tools[t].status # "running"
    BY DEF SettledIsQuiet
  <2>1. messages \in Seq(Chats) /\ ~Busy /\ OnlyRuns(messages, Running) /\ Buried(messages)
    BY <1>1 DEF IInv, Typed, AppKnows
  <2>2. Running = {}
    BY <2>1 DEF Running, Busy
  <2>3. ASSUME messages # <<>> PROVE ~Last(messages).streaming
    <3>1. Last(messages) = messages[Len(messages)]
      BY <2>1, <2>3, FrontFacts
    <3>2. Len(messages) \in 1..Len(messages)
      BY <2>1, <2>3
    <3> QED BY <2>1, <3>1, <3>2 DEF Buried
  <2>4. DOMAIN messages = 1..Len(messages)
    BY <2>1
  <2> QED BY <2>1, <2>2, <2>3, <2>4 DEF OnlyRuns
<1>2. IInv => SettledIsQuiet
  BY <1>1
<1> QED BY <1>2, Invariant, PTL

\* PanelShowsTranscript: a panel whose delegation has ended, and whose file was read after
\* that, shows exactly the child's transcript (child-session-panel.tsx).
THEOREM PanelShows == Spec => []PanelShowsTranscript
<1>1. ASSUME IInv PROVE PanelShowsTranscript
  BY <1>1, ViewIs DEF IInv, AppKnows, PanelKnows, PanelShowsTranscript
<1>2. IInv => PanelShowsTranscript
  BY <1>1
<1> QED BY <1>2, Invariant, PTL
=============================================================================
